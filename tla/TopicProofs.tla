----------------------------- MODULE TopicProofs -----------------------------
(***************************************************************************)
(* Proofs about the constructors of Topic and TopicFilter, for topics of   *)
(* any length over any pieces and for any limits.                          *)
(***************************************************************************)
EXTENDS TopicValidation, SequenceLemmas

\* A chain of four early returns: no error when no check fails, and otherwise
\* the error of one of them.
LEMMA FourChecks ==
    ASSUME NEW a, NEW b, NEW c, NEW d
    PROVE  /\ FirstError(<<a, b, c, d>>) \in {"Ok", a, b, c, d}
           /\ FirstError(<<a, b, c, d>>) = "Ok" <=> a = "Ok" /\ b = "Ok" /\ c = "Ok" /\ d = "Ok"
<1> DEFINE checks == <<a, b, c, d>>
           failing == {i \in DOMAIN checks : checks[i] # "Ok"}
<1>1. /\ DOMAIN checks = 1 .. 4
      /\ checks[1] = a /\ checks[2] = b /\ checks[3] = c /\ checks[4] = d
    OBVIOUS
<1>2. FirstError(checks) = IF failing = {} THEN "Ok" ELSE checks[Min(failing)]
    BY DEF FirstError
<1> HIDE DEF checks
<1>3. failing \subseteq 1 .. 4 /\ \A i \in failing : checks[i] # "Ok"
    BY <1>1
<1>4. failing = {} <=> a = "Ok" /\ b = "Ok" /\ c = "Ok" /\ d = "Ok"
    BY <1>1
<1> HIDE DEF failing
<1>5. ASSUME failing # {} PROVE Min(failing) \in failing
    <2>1. \E x \in failing : \A y \in failing : x =< y
        <3>1. CASE 1 \in failing
            BY <1>3, <3>1
        <3>2. CASE 1 \notin failing /\ 2 \in failing
            BY <1>3, <3>2
        <3>3. CASE failing \cap {1, 2} = {} /\ 3 \in failing
            BY <1>3, <3>3
        <3>4. CASE failing \cap {1, 2, 3} = {}
            <4>1. PICK x \in failing : TRUE
                BY <1>5
            <4>2. \A y \in failing : y = 4
                BY <1>3, <3>4
            <4>3. QED
                BY <4>1, <4>2
        <3>5. QED
            BY <3>1, <3>2, <3>3, <3>4
    <2>2. QED
        BY <2>1 DEF Min
<1>6. ASSUME failing # {}
      PROVE  checks[Min(failing)] \in {a, b, c, d} /\ checks[Min(failing)] # "Ok"
    <2> DEFINE i == Min(failing)
    <2>1. i \in failing
        BY <1>5, <1>6
    <2> HIDE DEF i
    <2>2. i = 1 \/ i = 2 \/ i = 3 \/ i = 4
        BY <1>3, <2>1
    <2>3. QED
        BY <1>1, <1>3, <2>1, <2>2 DEF i
<1>7. QED
    BY <1>2, <1>4, <1>6 DEF checks

\* The two groups of checks that both constructors share, taken together.
LEMMA SharedChecks ==
    ASSUME NEW r \in Seq(Piece), r # <<>>
    PROVE  /\ validate_segments(r) \in {"Ok"} \cup (TopicError \
                  {"WildcardInPublishTopic", "MultiWildcardNotTerminal", "InvalidWildcardUsage"})
           /\ validate_segments(r) = "Ok" <=> WellFormed(r)
<1> DEFINE
        empty == Check(r = <<"">>, "Empty")
        long == Check(RawLen(r) > MAX_TOPIC_LENGTH, "TooLong")
        leading == Check(r[1] = "", "LeadingSlash")
        trailing == Check(r[Len(r)] = "", "TrailingSlash")
        hole == Check(\E i \in DOMAIN r : r[i] = "", "EmptyLayer")
        layers == Check(Len(r) > MAX_LAYERS, "TooManyLayers")
        sys == Check(r[1] = SYS_PREFIX, "ReservedSysPrefix")
        global == Check(r[1] = GLOBAL_PREFIX /\ Len(r) < 2, "GlobalPrefixWithoutTopic")
        segments == FirstError(<<hole, layers, sys, global>>)
<1>1. /\ validate_raw(r) \in {"Ok", "Empty", "TooLong", "LeadingSlash", "TrailingSlash"}
      /\ validate_raw(r) = "Ok" <=> /\ r # <<"">>
                                    /\ ~(RawLen(r) > MAX_TOPIC_LENGTH)
                                    /\ r[1] # "" /\ r[Len(r)] # ""
    <2>1. /\ empty = (IF r = <<"">> THEN "Empty" ELSE "Ok")
          /\ long = (IF RawLen(r) > MAX_TOPIC_LENGTH THEN "TooLong" ELSE "Ok")
          /\ leading = (IF r[1] = "" THEN "LeadingSlash" ELSE "Ok")
          /\ trailing = (IF r[Len(r)] = "" THEN "TrailingSlash" ELSE "Ok")
        BY DEF Check
    <2>2. validate_raw(r) = FirstError(<<empty, long, leading, trailing>>)
        BY DEF validate_raw
    <2> HIDE DEF empty, long, leading, trailing
    <2>3. /\ validate_raw(r) \in {"Ok", empty, long, leading, trailing}
          /\ validate_raw(r) = "Ok" <=>
                empty = "Ok" /\ long = "Ok" /\ leading = "Ok" /\ trailing = "Ok"
        BY <2>2, FourChecks
    <2>4. QED
        BY <2>1, <2>3
<1>2. /\ segments \in {"Ok", "EmptyLayer", "TooManyLayers", "ReservedSysPrefix",
                       "GlobalPrefixWithoutTopic"}
      /\ segments = "Ok" <=> /\ ~(\E i \in DOMAIN r : r[i] = "")
                             /\ ~(Len(r) > MAX_LAYERS)
                             /\ r[1] # SYS_PREFIX
                             /\ ~(r[1] = GLOBAL_PREFIX /\ Len(r) < 2)
    <2>1. /\ hole = (IF \E i \in DOMAIN r : r[i] = "" THEN "EmptyLayer" ELSE "Ok")
          /\ layers = (IF Len(r) > MAX_LAYERS THEN "TooManyLayers" ELSE "Ok")
          /\ sys = (IF r[1] = SYS_PREFIX THEN "ReservedSysPrefix" ELSE "Ok")
          /\ global = (IF r[1] = GLOBAL_PREFIX /\ Len(r) < 2
                         THEN "GlobalPrefixWithoutTopic" ELSE "Ok")
        BY DEF Check
    <2> HIDE DEF hole, layers, sys, global
    <2>2. /\ segments \in {"Ok", hole, layers, sys, global}
          /\ segments = "Ok" <=> hole = "Ok" /\ layers = "Ok" /\ sys = "Ok" /\ global = "Ok"
        BY FourChecks
    <2> HIDE DEF segments
    <2>3. QED
        BY <2>1, <2>2
<1>3. validate_segments(r) = AndThen(validate_raw(r), segments)
    BY DEF validate_segments
<1> HIDE DEF segments
<1>4. Len(r) \in Nat /\ Len(r) >= 1 /\ DOMAIN r = 1 .. Len(r)
    BY EmptySeq
<1>5. r = <<GLOBAL_PREFIX>> <=> r[1] = GLOBAL_PREFIX /\ Len(r) < 2
    <2>1. r = <<GLOBAL_PREFIX>> => r[1] = GLOBAL_PREFIX /\ Len(r) = 1
        OBVIOUS
    <2>2. ASSUME r[1] = GLOBAL_PREFIX, Len(r) < 2 PROVE r = <<GLOBAL_PREFIX>>
        BY <1>4, <2>2
    <2>3. QED
        BY <1>4, <2>1, <2>2
<1>6. validate_segments(r) = "Ok" <=> WellFormed(r)
    <2>1. validate_segments(r) = "Ok" <=> validate_raw(r) = "Ok" /\ segments = "Ok"
        BY <1>3 DEF AndThen
    <2>2. WellFormed(r) <=> /\ ~(Len(r) > MAX_LAYERS)
                            /\ ~(RawLen(r) > MAX_TOPIC_LENGTH)
                            /\ ~(\E i \in DOMAIN r : r[i] = "")
                            /\ r[1] # SYS_PREFIX
                            /\ ~(r[1] = GLOBAL_PREFIX /\ Len(r) < 2)
        <3>1. MAX_LAYERS \in Nat
            BY TopicAssumption
        <3>2. Len(r) \in 1 .. MAX_LAYERS <=> ~(Len(r) > MAX_LAYERS)
            BY ONLY <1>4, <3>1
        <3>3. QED
            BY <1>4, <1>5, <3>2, Zenon DEF WellFormed
    <2>3. ~(\E i \in DOMAIN r : r[i] = "") => r # <<"">> /\ r[1] # "" /\ r[Len(r)] # ""
        <3>1. 1 \in DOMAIN r /\ Len(r) \in DOMAIN r
            BY ONLY <1>4
        <3>2. <<"">>[1] = ""
            OBVIOUS
        <3>3. QED
            BY <3>1, <3>2, Zenon
    <2>4. QED
        BY <1>1, <1>2, <2>1, <2>2, <2>3, Zenon
<1>7. QED
    BY <1>1, <1>2, <1>3, <1>6 DEF AndThen, TopicError

\* m holds the levels of r behind the first, each one place further to the front.
Behind(m, r) ==
    /\ Len(m) = Len(r) - 1
    /\ \A i \in 1 .. Len(r) - 1 : m[i] = r[i + 1]

\* Wildcards are looked for in all levels, or in those behind the $G prefix.
LEMMA MatchableLevels ==
    ASSUME NEW r \in Seq(Piece), r # <<>>
    PROVE  \/ matchable_segments(r) = r
           \/ r[1] = GLOBAL_PREFIX /\ Behind(matchable_segments(r), r)
<1>1. Len(Tail(r)) = Len(r) - 1 /\ \A i \in 1 .. Len(r) - 1 : Tail(r)[i] = r[i + 1]
    OBVIOUS
<1>2. QED
    BY <1>1 DEF matchable_segments, Behind

\* Topic::new accepts the well-formed topics without wildcards, and only these.
LEMMA TopicGrammar ==
    ASSUME NEW r \in Seq(Piece), r # <<>>
    PROVE  TopicNew(r) = "Ok" <=>
               WellFormed(r) /\ \A i \in 1 .. Len(r) : r[i] \notin Embedding \cup {"+", "#"}
<1>1. TopicNew(r) = "Ok" <=> WellFormed(r) /\ validate_no_wildcards(r) = "Ok"
    BY SharedChecks DEF TopicNew, AndThen
<1> DEFINE m == matchable_segments(r)
<1>2. validate_no_wildcards(r) = "Ok" <=> \A i \in 1 .. Len(m) : ~has_wildcard(m[i])
    BY DEF validate_no_wildcards, Check
<1>3. /\ Len(r) \in Nat /\ Len(r) >= 1
      /\ m = r \/ (r[1] = GLOBAL_PREFIX /\ Behind(m, r))
    BY EmptySeq, MatchableLevels
<1> HIDE DEF m
<1>4. ~has_wildcard(GLOBAL_PREFIX)
    BY TopicAssumption DEF has_wildcard, GLOBAL_PREFIX, WILDCARD_SINGLE, WILDCARD_MULTI
<1>5. (\A i \in 1 .. Len(m) : ~has_wildcard(m[i])) <=>
          \A i \in 1 .. Len(r) : ~has_wildcard(r[i])
    <2>1. CASE m = r
        BY <2>1
    <2>2. CASE r[1] = GLOBAL_PREFIX /\ Behind(m, r)
        <3>1. ASSUME NEW i \in 1 .. Len(r), i # 1
              PROVE  i - 1 \in 1 .. Len(m) /\ m[i - 1] = r[i]
            BY <1>3, <2>2, <3>1 DEF Behind
        <3>2. ASSUME NEW i \in 1 .. Len(m) PROVE i + 1 \in 1 .. Len(r) /\ m[i] = r[i + 1]
            BY <1>3, <2>2 DEF Behind
        <3>3. QED
            BY <1>4, <2>2, <3>1, <3>2
    <2>3. QED
        BY <1>3, <2>1, <2>2
<1>6. QED
    BY <1>1, <1>2, <1>5 DEF has_wildcard, WILDCARD_SINGLE, WILDCARD_MULTI

\* TopicFilter::new accepts the well-formed topics whose wildcards are whole
\* levels, '#' the last one, and only these.
LEMMA FilterGrammar ==
    ASSUME NEW r \in Seq(Piece), r # <<>>
    PROVE  TopicFilterNew(r) = "Ok" <=>
               /\ WellFormed(r)
               /\ \A i \in 1 .. Len(r) : r[i] \notin Embedding /\ (r[i] = "#" => i = Len(r))
<1>1. TopicFilterNew(r) = "Ok" <=> WellFormed(r) /\ validate_wildcard_placement(r) = "Ok"
    BY SharedChecks DEF TopicFilterNew, AndThen
<1> DEFINE m == matchable_segments(r)
           Placed(q, i) == q[i] \notin Embedding /\ (q[i] = "#" => i = Len(q))
<1>2. validate_wildcard_placement(r) = "Ok" <=> \A i \in 1 .. Len(m) : Placed(m, i)
    BY DEF validate_wildcard_placement, WILDCARD_MULTI
<1>3. /\ Len(r) \in Nat /\ Len(r) >= 1
      /\ m = r \/ (r[1] = GLOBAL_PREFIX /\ Behind(m, r))
    BY EmptySeq, MatchableLevels
<1> HIDE DEF m
<1>4. GLOBAL_PREFIX \notin Embedding /\ GLOBAL_PREFIX # "#"
    BY TopicAssumption DEF GLOBAL_PREFIX
<1>5. (\A i \in 1 .. Len(m) : Placed(m, i)) <=> \A i \in 1 .. Len(r) : Placed(r, i)
    <2>1. CASE m = r
        BY <2>1
    <2>2. CASE r[1] = GLOBAL_PREFIX /\ Behind(m, r)
        <3>1. Placed(r, 1)
            BY <1>4, <2>2
        <3>2. ASSUME NEW i \in 1 .. Len(r), i # 1
              PROVE  i - 1 \in 1 .. Len(m) /\ (Placed(m, i - 1) <=> Placed(r, i))
            BY <1>3, <2>2, <3>2 DEF Behind
        <3>3. ASSUME NEW i \in 1 .. Len(m)
              PROVE  i + 1 \in 1 .. Len(r) /\ (Placed(m, i) <=> Placed(r, i + 1))
            BY <1>3, <2>2 DEF Behind
        <3> HIDE DEF Placed
        <3>4. QED
            BY <3>1, <3>2, <3>3
    <2>3. QED
        BY <1>3, <2>1, <2>2
<1>6. QED
    BY <1>1, <1>2, <1>5

\* The result of each constructor is Ok or one of its own errors.
LEMMA ResultTypes ==
    ASSUME NEW r \in Seq(Piece), r # <<>>
    PROVE  /\ TopicNew(r) \in {"Ok"} \cup
                  (TopicError \ {"MultiWildcardNotTerminal", "InvalidWildcardUsage"})
           /\ TopicFilterNew(r) \in {"Ok"} \cup (TopicError \ {"WildcardInPublishTopic"})
<1>1. validate_no_wildcards(r) \in {"Ok", "WildcardInPublishTopic"}
    BY DEF validate_no_wildcards, Check
<1>2. validate_wildcard_placement(r) \in
          {"Ok", "MultiWildcardNotTerminal", "InvalidWildcardUsage"}
    BY DEF validate_wildcard_placement
<1>3. QED
    BY <1>1, <1>2, SharedChecks DEF TopicNew, TopicFilterNew, AndThen, TopicError

\* Type correctness: each constructor returns Ok or one of its own errors.
THEOREM TypeCorrect == Spec => []TypeOK
<1>1. Init => TypeOK
    BY DEF Init, TypeOK
<1>2. TypeOK /\ [Next]_vars => TypeOK'
    <2> SUFFICES ASSUME TypeOK, [Next]_vars PROVE TypeOK'
        OBVIOUS
    <2>1. raw \in Seq(Piece) /\ raw # <<>>
        BY RawAssumption DEF TypeOK
    <2>2. CASE NewTopic
        BY <2>1, <2>2, ResultTypes DEF TypeOK, NewTopic
    <2>3. CASE NewFilter
        BY <2>1, <2>3, ResultTypes DEF TypeOK, NewFilter
    <2>4. CASE UNCHANGED vars
        BY <2>4 DEF TypeOK, vars
    <2>5. QED
        BY <2>2, <2>3, <2>4 DEF Next
<1>3. QED
    BY <1>1, <1>2, PTL DEF Spec

\* A result is that of its constructor on the raw topic.
Computed ==
    /\ topic \in {"none", TopicNew(raw)}
    /\ filter \in {"none", TopicFilterNew(raw)}

\* A constructor's result is kept as it was computed.
LEMMA ResultsComputed == Spec => []Computed
<1>1. Init => Computed
    BY DEF Init, Computed
<1>2. Computed /\ [Next]_vars => Computed'
    BY DEF Computed, Next, NewTopic, NewFilter, vars
<1>3. QED
    BY <1>1, <1>2, PTL DEF Spec

\* Topic::new and TopicFilter::new accept exactly the grammar, for topics of any
\* length and any limits: no early return hides a check or admits a topic.
THEOREM GrammarAccepted == Spec => []AcceptsTheGrammar
<1>1. TypeOK /\ Computed => AcceptsTheGrammar
    <2> SUFFICES ASSUME TypeOK, Computed PROVE AcceptsTheGrammar
        OBVIOUS
    <2>1. raw \in Seq(Piece) /\ raw # <<>>
        BY RawAssumption DEF TypeOK
    <2>2. QED
        BY <2>1, TopicGrammar, FilterGrammar DEF AcceptsTheGrammar, Computed
<1>2. QED
    BY <1>1, TypeCorrect, ResultsComputed, PTL

\* segments() drops no level of a well-formed topic.
LEMMA NothingDropped ==
    ASSUME NEW r \in Seq(Piece), WellFormed(r)
    PROVE  Segments(r) = r
<1>1. [i \in 1 .. Len(r) |-> IF r[i] = "" THEN <<>> ELSE <<r[i]>>] =
          [i \in 1 .. Len(r) |-> <<r[i]>>]
    BY DEF WellFormed
<1>2. QED
    BY <1>1, FlattenSingletons DEF Segments

\* What the constructors accept is what the router assumes, for topics of any
\* length: each level is a segment, a topic has no wildcard and '#' comes last in
\* a filter.
THEOREM RouterFits == Spec => []FitsTheRouter
<1>1. TypeOK /\ Computed => FitsTheRouter
    <2> SUFFICES ASSUME TypeOK, Computed PROVE FitsTheRouter
        OBVIOUS
    <2>1. raw \in Seq(Piece) /\ raw # <<>>
        BY RawAssumption DEF TypeOK
    <2>2. Len(raw) \in Nat
        BY <2>1
    <2>3. ASSUME topic = "Ok"
          PROVE  Segments(raw) = raw /\ \A i \in 1 .. Len(raw) : raw[i] \notin {"+", "#"}
        <3>1. WellFormed(raw) /\ \A i \in 1 .. Len(raw) : raw[i] \notin Embedding \cup {"+", "#"}
            BY <2>1, <2>3, TopicGrammar DEF Computed
        <3>2. QED
            BY <2>1, <3>1, NothingDropped
    <2>4. ASSUME filter = "Ok"
          PROVE  Segments(raw) = raw /\ \A i \in 1 .. Len(raw) - 1 : raw[i] # "#"
        <3>1. WellFormed(raw) /\ \A i \in 1 .. Len(raw) : raw[i] = "#" => i = Len(raw)
            BY <2>1, <2>4, FilterGrammar DEF Computed
        <3>2. QED
            BY <2>1, <2>2, <3>1, NothingDropped
    <2>5. QED
        BY <2>3, <2>4 DEF FitsTheRouter
<1>2. QED
    BY <1>1, TypeCorrect, ResultsComputed, PTL

\* A topic that can be published can be subscribed to, and that filter matches
\* it.
THEOREM Subscribable == Spec => []PublishableIsSubscribable
<1>1. TypeOK /\ Computed => PublishableIsSubscribable
    <2> SUFFICES ASSUME TypeOK, Computed, topic = "Ok", filter # "none"
                 PROVE  filter = "Ok" /\ Matches(raw, raw)
        BY DEF PublishableIsSubscribable
    <2>1. raw \in Seq(Piece) /\ raw # <<>>
        BY RawAssumption DEF TypeOK
    <2>2. TopicNew(raw) = "Ok" /\ filter = TopicFilterNew(raw)
        BY DEF Computed
    <2>3. TopicFilterNew(raw) = "Ok"
        BY <2>1, <2>2, TopicGrammar, FilterGrammar
    <2>4. QED
        BY <2>2, <2>3 DEF Matches, LevelMatches
<1>2. QED
    BY <1>1, TypeCorrect, ResultsComputed, PTL

=============================================================================
