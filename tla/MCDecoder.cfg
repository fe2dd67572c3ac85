SPECIFICATION Spec
CONSTANTS
    Datagram <- MCDatagram
    U64 = 65536
INVARIANTS
    TypeOK
    NothingInvented
PROPERTIES
    KnownSetsAreWhole
