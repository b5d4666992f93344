\* Three packets in every mode; a cache of one set with two ways for three lines.
SPECIFICATION Spec
CONSTANTS
    Packets = {p1, p2, p3}
    Lines = {0, 1, 2}
    Modes = {"baseline", "optimistic", "verified"}
    Entries = 2
    Assoc = 2
    HitLatency = 1
    MissLatency = 4
    MetadataIssue = 1
    AeadLatency = 2
    AeadIssue = 2
    ReservationLatency = 1
    CommitLatency = 2
    ControlIssue = 1
    RatchetEvery = 2
    HkdfLatency = 2
    MemoryLatencies = {1}
    DrainTicks = 0
SYMMETRY Symmetry
INVARIANTS
    TypeOK
    AeadSpaced
    NothingLeavesEarly
    DelayBounded
    OptimisticWindowBounded
    CacheIsMostRecent
