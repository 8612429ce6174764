SPECIFICATION AnyClientSpec
CONSTANTS
    FilterLevels = {"+", "#"}
    TopicLevels = {"a"}
    Layers = 2
    Segment <- MCSegment
    SubscriptionKey = {k1, k2}
    Filters <- MCFilters
    Topics <- MCTopics
INVARIANTS
    NoMissedSubscriber
PROPERTY
    OthersUndisturbed
