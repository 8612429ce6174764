------------------------------ MODULE MCRouter ------------------------------
(***************************************************************************)
(* The router on every filter and topic that topic.rs accepts over a few   *)
(* levels.                                                                 *)
(***************************************************************************)
EXTENDS Router, SequencesExt

CONSTANTS
    FilterLevels,   \* the levels filters are made of
    TopicLevels,    \* the levels topics are made of
    Layers          \* the number of levels at most

MCSegment == FilterLevels \cup TopicLevels

Validation ==
    INSTANCE Topic WITH
        Piece <- MCSegment \cup {"", "+", "#", "$SYS", "$G"},
        Embedding <- {},
        ByteLen <- [p \in MCSegment \cup {"", "+", "#", "$SYS", "$G"} |->
                       IF p = "" THEN 0 ELSE 1],
        MAX_LAYERS <- Layers,
        MAX_TOPIC_LENGTH <- 2 * Layers

\* No definition tells one key from another.
Interchangeable == Permutations(SubscriptionKey)

MCFilters ==
    {f \in BoundedSeq(FilterLevels, Layers) \ {<<>>} : Validation!TopicFilterNew(f) = "Ok"}
MCTopics ==
    {t \in BoundedSeq(TopicLevels, Layers) \ {<<>>} : Validation!TopicNew(t) = "Ok"}

=============================================================================
