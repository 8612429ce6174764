SPECIFICATION Spec
CONSTANTS
    hello = hello
    stale = stale
    denied = denied
    Stream = {s1}
    Connect = {hello, stale, denied}
    Request = {publish}
    Rejected = {denied}
    Version <- MCVersion
    PROTOCOL_VERSION = 1
    Capacity = 1
    MaxFrames = 2
INVARIANT InfoBeforeEstablished
CHECK_DEADLOCK FALSE
