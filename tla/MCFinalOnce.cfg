\* Two callers for two commits; kills and errors anywhere, no power loss.
CONSTANTS
    Callers = {c1, c2}
    Attempts = {a1, a2}
    NoAttempt = NoAttempt
    Absent = Absent
    Partial = Partial
    Nobody = Nobody
    PowerMayFail = FALSE
SPECIFICATION FairSpec
INVARIANTS
    TypeOK
    TerminalReadable
PROPERTIES
    ImplementsOneShot
    Settles
