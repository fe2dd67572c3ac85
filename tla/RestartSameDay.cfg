SPECIFICATION Spec
CONSTANTS
    MaxDay = 0
    RetainDays = 0
    FlushSecsZero = {FALSE}
    SampleCycle = 1
    MaxFlows = 2
    MaxLives = 2
PROPERTY PublishedCountsNeverShrink
CHECK_DEADLOCK FALSE
