SPECIFICATION Spec
CONSTANTS
    MaxDay = 1
    RetainDays = 0
    FlushSecsZero = {TRUE, FALSE}
    MaxFlows = 2
    SampleCycle = 1
    MaxLives = 2
INVARIANTS
    TypeOK
    DayFilesInOrder
    RunningDaysAreWhole
    FlushLosesNothing
    MetadataDeclaresLabels
PROPERTIES
    ImplementsDataset
    KeepsItsRows
\* The last process may end and stay down.
CHECK_DEADLOCK FALSE
