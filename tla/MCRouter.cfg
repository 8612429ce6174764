SPECIFICATION Spec
CONSTANTS
    FilterLevels = {"a", "+", "#"}
    TopicLevels = {"a", "b"}
    Layers = 3
    Segment <- MCSegment
    SubscriptionKey = {k1, k2, k3}
    Filters <- MCFilters
    Topics <- MCTopics
SYMMETRY Interchangeable
INVARIANTS
    TypeOK
    PrefixClosed
    FlagsExact
    KvInTree
    TreeInKv
    NoDeadBranch
    SearchExact
PROPERTY
    TableSpec
