\* The same with power losses.
CONSTANTS
    Callers = {c1, c2}
    Attempts = {a1, a2}
    NoAttempt = NoAttempt
    Absent = Absent
    Partial = Partial
    Nobody = Nobody
    PowerMayFail = TRUE
SPECIFICATION Spec
SYMMETRY Symmetry
INVARIANTS
    EffectOnce
    VerdictEarned
