\* Two lines over five epochs, and one read transaction at a time.
SPECIFICATION Spec
CONSTANTS
    Lines = {l1, l2}
    Reads = {i1}
    MaxEpoch = 5
    MaxCtr = 3
    CtrLimit = 2
    RetentionW = 2
SYMMETRY Symmetry
INVARIANTS
    TypeOK
    NeededKeysResident
    NonceUnique
    HonestReadNotRejected
PROPERTIES
    AcceptedIsCurrent
    ForwardIntegrity
CHECK_DEADLOCK FALSE
