SPECIFICATION Spec
CONSTANTS
    MaxDay = 2
    RetainDays = 1
    FlushSecsZero = {FALSE}
    SampleCycle = 1
    MaxFlows = 2
    MaxLives = 1
INVARIANT OnlyRetainDaysLeft
CHECK_DEADLOCK FALSE
