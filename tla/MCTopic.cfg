SPECIFICATION Spec
CONSTANTS
    Piece <- MCPiece
    Embedding <- MCEmbedding
    ByteLen <- MCByteLen
    RawTopic <- MCRawTopic
    MAX_LAYERS = 3
    MAX_TOPIC_LENGTH = 9
INVARIANTS
    TypeOK
    AcceptsTheGrammar
    FitsTheRouter
    PublishableIsSubscribable
