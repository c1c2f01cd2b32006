SPECIFICATION Spec
CONSTANTS
    Workers = {w1, w2, w3}
INVARIANT CleanRunSucceeds
CHECK_DEADLOCK FALSE
