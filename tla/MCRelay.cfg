\* Two connections at a time and one too many; one of them carries data.
SPECIFICATION FairSpec
CONSTANTS
    Clients = {c1, c2, c3}
    Capacity = 2
    Talkers = {c1}
    Chunks = 1
INVARIANT TypeOK
INVARIANT SlotsBalanced
INVARIANT NothingLeft
INVARIANT EndsAfterData
PROPERTY HealthSound
PROPERTY CloseReturns
