\* Two servers one after the other or at once; two process identifiers.
SPECIFICATION Spec
CONSTANTS
    None = None
    Stranger = Stranger
    Starters = {a1, a2}
    Stoppers = {b1}
    Pids = {p1, p2}
INVARIANT SignalsOwned
INVARIANT LivingIsRecorded
