\* Two lines, and more writes of a line than the counter field has values.
SPECIFICATION Spec
CONSTANTS
    Lines = {l1, l2}
    Hosts = {0, 1}
    MaxEpoch = 4
    MaxCtr = 4
    CtrLimit = 3
    RetentionW = 2
SYMMETRY Symmetry
INVARIANTS
    TypeOK
    OnlyLegacyFooled
PROPERTIES
    ImplementsPython
CHECK_DEADLOCK FALSE
