\* Two invocations of each driver, over two sweeps that share a point and a
\* label, with two settings.
SPECIFICATION Spec
CONSTANTS
    Programs = {"matrix", "write", "read"}
    Points = {"20", "20.00001", "40"}
    Label <- PrintedAs
    PointLists <- Sweeps
    Configs = {c1, c2}
    NoConfig = NoConfig
    MaxInvocations = 2
INVARIANTS
    TypeOK
    ForcedResultsClean
    RowsTraceable
    CommandTells
    
CHECK_DEADLOCK FALSE
