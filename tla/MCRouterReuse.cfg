SPECIFICATION AnyClientSpec
CONSTANTS
    FilterLevels = {"a", "+", "#"}
    TopicLevels = {"a", "b"}
    Layers = 2
    Segment <- MCSegment
    SubscriptionKey = {k1}
    Filters <- MCFilters
    Topics <- MCTopics
INVARIANT UnsubscribeStops
