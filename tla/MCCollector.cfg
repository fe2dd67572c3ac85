SPECIFICATION Spec
CONSTANTS
    phone = phone
    laptop = laptop
    web = web
    resolver = resolver
    None = None
    Lan <- MCLan
    Wan <- MCWan
    Port <- MCPort
    Proto <- MCProto
    Name <- MCName
    NdpiApp <- MCNdpiApp
    Generic <- MCGeneric
    Word <- MCWord
    HoursPerDay = 2
    U64 = 16
    Datagram <- MCDatagram
    Sample <- MCSample
    SidecarRow <- MCSidecarRow
    Connection <- MCConnection
    MaxDatagrams = 2
    MaxSamples = 3
INVARIANTS
    TypeOK
    ClientsArePrivate
    RowsNest
    RowsCarryIdentity
    AppsSumToClients
    FlowsAccounted
    LabelsAreDeclared
    RepliesJoinRequests
PROPERTIES
    SamplesNeverCount
    SampledLabelsHaveSource
    MetersVolume
    KeepsItsRows
\* The bounds on datagrams and samples end every behaviour.
CHECK_DEADLOCK FALSE
