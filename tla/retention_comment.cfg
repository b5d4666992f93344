\* The comment of RETENTION_W against a line that is never rewritten.
SPECIFICATION Spec
CONSTANTS
    Lines = {l1}
    Reads = {}
    MaxEpoch = 4
    MaxCtr = 2
    CtrLimit = 3
    RetentionW = 2
SYMMETRY Symmetry
INVARIANTS
    OnlyWindowRetained
CHECK_DEADLOCK FALSE
