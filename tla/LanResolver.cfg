SPECIFICATION Spec
CONSTANTS
    phone = phone
    laptop = laptop
    web = web
    resolver = resolver
    None = None
    Lan <- MCLan
    Wan <- MCWan
    Port <- MCPort
    Proto <- MCProto
    Name <- MCName
    NdpiApp <- MCNdpiApp
    Generic <- MCGeneric
    Word <- MCWord
    HoursPerDay = 2
    U64 = 16
    Datagram <- MCDatagram
    Sample <- MCHomeSample
    SidecarRow <- MCSidecarRow
    Connection <- MCConnection
    MaxDatagrams = 2
    MaxSamples = 3
PROPERTY AnswersReachTheAsker
CHECK_DEADLOCK FALSE
