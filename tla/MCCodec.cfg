SPECIFICATION Spec
CONSTANTS
    BASE = 6
    PAYLOAD_LENGTH_BYTES = 2
    MAXIMUM_PAYLOAD_BYTES = 6
    Malformed <- MCMalformed
    Messages <- MCMessages
    Noise = {0, 2, 5}
    MaxSends = 2
    Commands = {0, 4}
    PayloadBytes = {1, 5}
    ShortPayload = 2
INVARIANTS
    TypeOK
    ChunkingIndependent
    RoundTrip
    BufferBounded
PROPERTIES
    ReaderComesToRest
    StreamEnds
CHECK_DEADLOCK FALSE
