SPECIFICATION Spec
CONSTANTS
    hello = hello
    stale = stale
    denied = denied
    Stream = {s1, s2}
    Connect = {hello}
    Request = {publish}
    Rejected = {}
    Version <- MCVersion
    PROTOCOL_VERSION = 1
    Capacity = 1
    MaxFrames = 1
SYMMETRY Interchangeable
INVARIANTS
    TypeOK
    UniqueClientIds
    InfoOnceBeforeClose
    InfoAlwaysQueued
CHECK_DEADLOCK FALSE
