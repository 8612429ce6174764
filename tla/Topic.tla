-------------------------------- MODULE Topic --------------------------------
(***************************************************************************)
(* The validation of topics and topic filters in topic.rs.                 *)
(*                                                                         *)
(* A raw topic is the sequence of the pieces between its '/' bytes, which  *)
(* determines the bytes: <<"">> is the empty topic and a topic that starts *)
(* with '/' has an empty first piece.  A piece is a member of a small set; *)
(* the code looks only at whether it is empty, is one of the four special  *)
(* byte strings, contains a wildcard byte, and how long it is.             *)
(***************************************************************************)
EXTENDS TopicMatch, FiniteSetsExt, SequencesExt

CONSTANTS
    Piece,             \* the byte strings without '/', "" among them
    Embedding,         \* the pieces with a wildcard byte among other bytes
    ByteLen,           \* the length of each piece
    MAX_LAYERS,
    MAX_TOPIC_LENGTH

SYS_PREFIX == "$SYS"
GLOBAL_PREFIX == "$G"

ASSUME TopicAssumption ==
    /\ {"", WILDCARD_SINGLE, WILDCARD_MULTI, SYS_PREFIX, GLOBAL_PREFIX} \subseteq Piece
    /\ Embedding \subseteq
          Piece \ {"", WILDCARD_SINGLE, WILDCARD_MULTI, SYS_PREFIX, GLOBAL_PREFIX}
    /\ ByteLen \in [Piece -> Nat]
    /\ \A p \in Piece : ByteLen[p] = 0 <=> p = ""
    /\ MAX_LAYERS \in Nat \ {0}
    /\ MAX_TOPIC_LENGTH \in Nat \ {0}

\* enum TopicError.
TopicError ==
    {"Empty", "TooLong", "LeadingSlash", "TrailingSlash", "EmptyLayer", "TooManyLayers",
     "ReservedSysPrefix", "GlobalPrefixWithoutTopic", "WildcardInPublishTopic",
     "MultiWildcardNotTerminal", "InvalidWildcardUsage"}

-----------------------------------------------------------------------------

\* The number of bytes: the pieces and the slashes between them.
RawLen(raw) == SumFunction([i \in 1 .. Len(raw) |-> ByteLen[raw[i]]]) + Len(raw) - 1

Check(fails, error) == IF fails THEN error ELSE "Ok"

\* The result of a chain of early returns: that of the first check that fails.
FirstError(checks) ==
    LET failing == {i \in DOMAIN checks : checks[i] # "Ok"}
    IN  IF failing = {} THEN "Ok" ELSE checks[Min(failing)]

\* Result::and_then: the second check runs only when the first is passed.
AndThen(first, second) == IF first = "Ok" THEN second ELSE first

validate_raw(raw) ==
    FirstError(<<
        Check(raw = <<"">>, "Empty"),
        Check(RawLen(raw) > MAX_TOPIC_LENGTH, "TooLong"),
        Check(raw[1] = "", "LeadingSlash"),
        Check(raw[Len(raw)] = "", "TrailingSlash") >>)

validate_segments_LayerOffByOne(raw) ==
    AndThen(validate_raw(raw),
        FirstError(<<
            Check(\E i \in DOMAIN raw : raw[i] = "", "EmptyLayer"),
            Check(Len(raw) > MAX_LAYERS + 1, "TooManyLayers"),
            Check(raw[1] = SYS_PREFIX, "ReservedSysPrefix"),
            Check(raw[1] = GLOBAL_PREFIX /\ Len(raw) < 2, "GlobalPrefixWithoutTopic") >>))

validate_segments(raw) ==
    AndThen(validate_raw(raw),
        FirstError(<<
            Check(\E i \in DOMAIN raw : raw[i] = "", "EmptyLayer"),
            Check(Len(raw) > MAX_LAYERS, "TooManyLayers"),
            Check(raw[1] = SYS_PREFIX, "ReservedSysPrefix"),
            Check(raw[1] = GLOBAL_PREFIX /\ Len(raw) < 2, "GlobalPrefixWithoutTopic") >>))

has_wildcard(piece) ==
    piece \in Embedding \cup {WILDCARD_SINGLE, WILDCARD_MULTI}

\* The levels that wildcards are looked for in: those behind a $G prefix.
matchable_segments(raw) == IF raw[1] = GLOBAL_PREFIX THEN Tail(raw) ELSE raw

validate_no_wildcards_WholeOnly(raw) ==
    LET matchable == matchable_segments(raw)
    IN  Check(\E i \in 1 .. Len(matchable) :
                 matchable[i] \in {WILDCARD_SINGLE, WILDCARD_MULTI}, "WildcardInPublishTopic")

validate_no_wildcards(raw) ==
    LET matchable == matchable_segments(raw)
    IN  Check(\E i \in 1 .. Len(matchable) : has_wildcard(matchable[i]),
              "WildcardInPublishTopic")

validate_wildcard_placement_AsIfPrefixed(raw) ==
    LET matchable == matchable_segments(raw)
        notTerminal == {i \in 1 .. Len(matchable) :
                           matchable[i] = WILDCARD_MULTI /\ i # Len(raw) - 1}
        embedded == {i \in 1 .. Len(matchable) : matchable[i] \in Embedding}
        misplaced == notTerminal \cup embedded
    IN  IF misplaced = {} THEN "Ok"
        ELSE IF Min(misplaced) \in notTerminal THEN "MultiWildcardNotTerminal"
        ELSE "InvalidWildcardUsage"

\* The error of the first level, in order, whose wildcard is misplaced; which
\* level is the last is counted without the prefix.
validate_wildcard_placement(raw) ==
    LET matchable == matchable_segments(raw)
        notTerminal == {i \in 1 .. Len(matchable) :
                           matchable[i] = WILDCARD_MULTI /\ i # Len(matchable)}
        embedded == {i \in 1 .. Len(matchable) : matchable[i] \in Embedding}
        misplaced == notTerminal \cup embedded
    IN  IF misplaced = {} THEN "Ok"
        ELSE IF Min(misplaced) \in notTerminal THEN "MultiWildcardNotTerminal"
        ELSE "InvalidWildcardUsage"

TopicNew_FilterRules(raw) ==
    AndThen(validate_segments(raw), validate_wildcard_placement(raw))

\* Topic::new and TopicFilter::new: "Ok" or the error returned.
TopicNew(raw) == AndThen(validate_segments(raw), validate_no_wildcards(raw))
TopicFilterNew(raw) ==
    AndThen(validate_segments(raw), validate_wildcard_placement(raw))

\* segments(): split again, without the empty pieces.
Segments(raw) ==
    FlattenSeq([i \in 1 .. Len(raw) |-> IF raw[i] = "" THEN <<>> ELSE <<raw[i]>>])

=============================================================================
