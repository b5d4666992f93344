\* One TVE, two reads, three writes of two lines that cross epochs: late, repeated and misdirected tickets.
SPECIFICATION ReadsSpec
CONSTANTS
    Lines = {l1, l2}
    Token = {k1, k2, k3}
    NoData = NoData
    MaxTve = 1
    MaxEpoch = 3
    CtrLimit = 2
    RetentionW = 2
    AtomicReservation = TRUE
    MayRefuse = FALSE
    MaxReads = 2
SYMMETRY Symmetry
INVARIANTS
    ReadsTypeOK
    UnracedReadOpens
PROPERTIES
    ImplementsFreshMemory
CHECK_DEADLOCK FALSE
