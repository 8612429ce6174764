SPECIFICATION FairSpec
CONSTANTS
    hello = hello
    stale = stale
    denied = denied
    Stream = {s1}
    Connect = {hello, stale, denied}
    Request = {publish, subscribe}
    Rejected = {denied}
    Version <- MCVersion
    PROTOCOL_VERSION = 1
    Capacity = 1
    MaxFrames = 3
INVARIANT
    DispatchedInOrder
PROPERTIES
    HandshakeEnds
    RunEnds
    WriterEnds
CHECK_DEADLOCK FALSE
