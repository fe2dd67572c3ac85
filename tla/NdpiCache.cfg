SPECIFICATION Spec
CONSTANTS
    Endpoint = {1, 2, 3}
    Proto = {6, 17}
    Ptr = {p1, p2, p3}
    Null = Null
    Limit = 2
INVARIANTS
    TypeOK
    MapOwnsHeap
    StateIsOwn
    OneEntryPerConnection
\* A dropped engine does nothing more.
CHECK_DEADLOCK FALSE
