----------------------------- MODULE TopicMatch -----------------------------
(***************************************************************************)
(* Topic levels and what it means for a subscription filter to match a     *)
(* published topic.                                                        *)
(*                                                                         *)
(* A topic or filter is the sequence of its levels, the byte strings       *)
(* between the '/' separators (Topic::segments, TopicFilter::segments in   *)
(* topic.rs).  Matches is the reference the router's tree search is        *)
(* compared with; it is stated on whole sequences and knows no tree.       *)
(***************************************************************************)
EXTENDS Integers, Sequences

\* A level of a filter that stands for any one level of the topic.
WILDCARD_SINGLE == "+"

\* A last level of a filter that stands for all levels that remain.
WILDCARD_MULTI == "#"

\* Level i of filter f accepts level i of topic t.
LevelMatches(f, t, i) == f[i] = t[i] \/ f[i] = WILDCARD_SINGLE

(***************************************************************************)
(* A filter matches a topic of the same length level by level; a filter    *)
(* that ends in '#' matches every topic that its other levels match a      *)
(* prefix of, the prefix itself included.  This is the zero-level case     *)
(* that the comment in search() and its test ask for (router.rs:122, 374); *)
(* pubsub.proto:96 excludes it, see MultiTakesALevel of Router.            *)
(***************************************************************************)
Matches(f, t) ==
    \/ /\ Len(f) = Len(t)
       /\ \A i \in 1 .. Len(f) : LevelMatches(f, t, i)
    \/ /\ f[Len(f)] = WILDCARD_MULTI
       /\ Len(f) - 1 <= Len(t)
       /\ \A i \in 1 .. Len(f) - 1 : LevelMatches(f, t, i)

=============================================================================
