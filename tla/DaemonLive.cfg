SPECIFICATION PausingSpec
CONSTANTS
    MaxDay = 2
    RetainDays = 1
    FlushSecsZero = {FALSE}
    MaxFlows = 2
    SampleCycle = 2
    MaxLives = 1
INVARIANTS
    MetadataExplainsEveryLabel
PROPERTIES
    PublishedCountsNeverShrink
    ShutdownReturns
    CountedIsPublished
    ExpiredDaysGo
\* The only process may end and stay down.
CHECK_DEADLOCK FALSE
