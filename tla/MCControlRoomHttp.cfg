\* Two connections more than there are slots.
SPECIFICATION FairSpec
CONSTANTS
    None = None
    Requests = {r1, r2, r3, r4}
    MaxHttpRequests = 2
INVARIANT SlotsBalanced
INVARIANT ExitAfterRequests
INVARIANT ClosesCleanly
PROPERTY SigtermExits
