\* The directory is new and its own entry is lost with the power.
CONSTANTS
    Callers = {c1, c2}
    Attempts = {a1, a2}
    NoAttempt = NoAttempt
    Absent = Absent
    Partial = Partial
    Nobody = Nobody
    PowerMayFail = TRUE
SPECIFICATION Spec
INVARIANTS
    SingleAttempt
