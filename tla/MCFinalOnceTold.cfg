\* A verdict that was told before it was on disk.
CONSTANTS
    Callers = {c1, c2}
    Attempts = {a1, a2}
    NoAttempt = NoAttempt
    Absent = Absent
    Partial = Partial
    Nobody = Nobody
    PowerMayFail = TRUE
SPECIFICATION Spec
INVARIANTS
    VerdictStands
