\* Two TVEs: tickets delivered to the wrong one.
SPECIFICATION ReadsSpec
CONSTANTS
    Lines = {l1, l2}
    Token = {k1, k2, k3}
    NoData = NoData
    MaxTve = 2
    MaxEpoch = 1
    CtrLimit = 3
    RetentionW = 2
    AtomicReservation = TRUE
    MayRefuse = FALSE
    MaxReads = 1
SYMMETRY Symmetry
INVARIANTS
    FreshRead
CHECK_DEADLOCK FALSE
