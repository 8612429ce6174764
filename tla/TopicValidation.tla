--------------------------- MODULE TopicValidation ---------------------------
(***************************************************************************)
(* The constructors of Topic and TopicFilter called on raw topics, and     *)
(* what the rest of the server relies on in their results.                 *)
(***************************************************************************)
EXTENDS Topic

CONSTANT RawTopic    \* the raw topics that clients hand in

ASSUME RawAssumption == RawTopic \subseteq Seq(Piece) \ {<<>>}

VARIABLES
    raw,      \* the bytes handed to the constructors
    topic,    \* the result of Topic::new
    filter    \* the result of TopicFilter::new

vars == <<raw, topic, filter>>

Init ==
    /\ raw \in RawTopic
    /\ topic = "none"
    /\ filter = "none"

NewTopic ==
    /\ topic' = TopicNew(raw)
    /\ UNCHANGED <<raw, filter>>

NewFilter ==
    /\ filter' = TopicFilterNew(raw)
    /\ UNCHANGED <<raw, topic>>

Next == NewTopic \/ NewFilter

Spec == Init /\ [][Next]_vars

-----------------------------------------------------------------------------

\* Type invariant: each constructor returns Ok or one of the errors that its own
\* checks have.
TypeOK ==
    /\ raw \in RawTopic
    /\ topic \in {"none", "Ok"} \cup
                   (TopicError \ {"MultiWildcardNotTerminal", "InvalidWildcardUsage"})
    /\ filter \in {"none", "Ok"} \cup (TopicError \ {"WildcardInPublishTopic"})

\* The shape both constructors demand, stated without an order of checks.
WellFormed(r) ==
    /\ Len(r) \in 1 .. MAX_LAYERS
    /\ ~(RawLen(r) > MAX_TOPIC_LENGTH)
    /\ \A i \in 1 .. Len(r) : r[i] # ""
    /\ r[1] # SYS_PREFIX
    /\ r # <<GLOBAL_PREFIX>>

\* The early returns of Topic::new and TopicFilter::new together accept the
\* well-formed topics whose wildcards are where they may be, and only these.
AcceptsTheGrammar ==
    /\ topic # "none" =>
          (topic = "Ok" <=>
              WellFormed(raw) /\ \A i \in 1 .. Len(raw) :
                                raw[i] \notin Embedding \cup {"+", "#"})
    /\ filter # "none" =>
          (filter = "Ok" <=>
              /\ WellFormed(raw)
              /\ \A i \in 1 .. Len(raw) :
                    raw[i] \notin Embedding /\ (raw[i] = "#" => i = Len(raw)))

\* What the router assumes of what the constructors accept: segments() yields
\* every level and drops none, there is at least one, '#' comes last in a
\* filter and a topic has no wildcard, below the $G prefix too.
FitsTheRouter ==
    /\ topic = "Ok" =>
          /\ Segments(raw) = raw
          /\ \A i \in 1 .. Len(raw) : raw[i] \notin {"+", "#"}
    /\ filter = "Ok" =>
          /\ Segments(raw) = raw
          /\ \A i \in 1 .. Len(raw) - 1 : raw[i] # "#"

\* A topic that can be published can be subscribed to, and that filter
\* matches it: the two constructors share the rest of their checks.
PublishableIsSubscribable ==
    topic = "Ok" /\ filter # "none" => filter = "Ok" /\ Matches(raw, raw)

==============================================================================
