\* Two lines, two TVEs that may refuse, a counter field of three values.
SPECIFICATION Spec
CONSTANTS
    Lines = {l1, l2}
    Token = {k1, k2, k3}
    NoData = NoData
    MaxTve = 2
    MaxEpoch = 4
    CtrLimit = 3
    RetentionW = 2
    AtomicReservation = TRUE
    MayRefuse = TRUE
SYMMETRY Symmetry
INVARIANTS
    TypeOK
    AccountingExact
    PendingUsable
    LiveReadable
    ErasedEverywhere
PROPERTIES
    NeverRolledBack
    NoLateEffect
CHECK_DEADLOCK FALSE
