SPECIFICATION FairSpec
CONSTANTS
    c1 = c1
    c2 = c2
    s1 = s1
    s2 = s2
    s3 = s3
    Conn <- MCConn
    Stream <- MCStream
    ConnOf <- MCConnOf
    Configs <- MCConfigs
INVARIANTS
    TypeOK
    ReadyMeansAccepting
    OnlyMainPanics
    ServedOnAccepted
PROPERTIES
    ShutdownSparesClients
    ServingBecomesReady
    CancelStopsListening
    ConnectionsTaken
    StreamsServed
    GoneIsReleased
CHECK_DEADLOCK FALSE
