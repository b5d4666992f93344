\* The baseline, with a commit latency configured.
SPECIFICATION Spec
CONSTANTS
    Packets = {p1, p2}
    Lines = {0}
    Modes = {"baseline"}
    Entries = 1
    Assoc = 1
    HitLatency = 1
    MissLatency = 2
    MetadataIssue = 1
    AeadLatency = 1
    AeadIssue = 1
    ReservationLatency = 1
    CommitLatency = 1
    ControlIssue = 1
    RatchetEvery = 2
    HkdfLatency = 1
    MemoryLatencies = {1}
    DrainTicks = 0
SYMMETRY Symmetry
INVARIANT
    BaselineAddsNoDelay
