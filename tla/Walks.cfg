SPECIFICATION Spec
CONSTANTS
    Length = {4, 17, 28, 83}
    Byte = {0, 1, 5, 6}
    Word = {0, 1, 4, 6, 10, 18}
    Varint = {0, 1, 2, 21, 26}
    Count = {0, 2}
    AckLen = 12
    RandomLen = 2
    MaxHops = 1
    Granted = 24
INVARIANTS
    TypeOK
    ReadsInBounds
    StreamIsWhatCame
PROPERTIES
    AlwaysAdvances
    Terminates
    RecordsFollowEachOther
\* The walk ends.
CHECK_DEADLOCK FALSE
