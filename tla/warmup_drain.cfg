\* Serialized persistence; the drain is long enough for one write.
SPECIFICATION Spec
CONSTANTS
    Packets = {p1, p2}
    Lines = {0}
    Modes = {"verified"}
    Entries = 1
    Assoc = 1
    HitLatency = 1
    MissLatency = 2
    MetadataIssue = 1
    AeadLatency = 1
    AeadIssue = 1
    ReservationLatency = 2
    CommitLatency = 2
    ControlIssue = 2
    RatchetEvery = 0
    HkdfLatency = 1
    MemoryLatencies = {1}
    DrainTicks = 6
SYMMETRY Symmetry
PROPERTY
    ResetAfterDrain
