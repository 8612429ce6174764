SPECIFICATION Spec
CONSTANTS
    BASE = 6
    PAYLOAD_LENGTH_BYTES = 1
    MAXIMUM_PAYLOAD_BYTES = 2
    Malformed <- MCMalformed
    Messages <- MCMessages
    Noise = {}
    MaxSends = 2
    Commands = {0, 1, 4}
    PayloadBytes = {1, 5}
    ShortPayload = 3
INVARIANT ResyncsAfterFrame
CHECK_DEADLOCK FALSE
