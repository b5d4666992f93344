\* Two lines, two slots with one-bit generations, all epochs of a two-bit field.
SPECIFICATION Spec
CONSTANTS
    NumLines = 2
    NumSlots = 2
    NumEpochs = 4
    CtrMax = 2
    GenMod = 2
    RetentionW = 2
INVARIANTS
    TypeOK
    CountsExact
    SpentTokensDead
    NonceUnique
PROPERTIES
    ImplementsWriteLedger
CHECK_DEADLOCK FALSE
