\* One run, for what the browser is told of its clean-up.
SPECIFICATION Spec
CONSTANTS
    None = None
    Requests = {r1, r2}
INVARIANT NothingStarted
