\* Four writes of one line over a counter field of three values, with fair lease expiry.
SPECIFICATION FairSpec
CONSTANTS
    Lines = {l1}
    Token = {k1, k2, k3, k4}
    NoData = NoData
    MaxTve = 1
    MaxEpoch = 3
    CtrLimit = 3
    RetentionW = 2
    AtomicReservation = TRUE
    MayRefuse = FALSE
INVARIANTS
    NonceUnique
    PromptErasure
PROPERTIES
    ImplementsWriteLedger
    OldEpochsErased
CHECK_DEADLOCK FALSE
