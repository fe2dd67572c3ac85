SPECIFICATION FairSpec
CONSTANTS
    MaxDay = 0
    RetainDays = 0
    FlushSecsZero = {FALSE}
    SampleCycle = 2
    MaxFlows = 2
    MaxLives = 1
PROPERTY ShutdownReturns
CHECK_DEADLOCK FALSE
