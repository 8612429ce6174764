------------------------------- MODULE Router -------------------------------
(***************************************************************************)
(* The subscription router of router.rs: a tree of topic levels whose      *)
(* nodes hold the subscriptions ending there, and a map from each          *)
(* subscription key to its filter that delete() walks the tree with.       *)
(*                                                                         *)
(* A node is named by its path, the levels from the root down to it, so    *)
(* the children of p are the nodes Append(p, level).  A path names one     *)
(* node because insert() reuses the child whose level equals the segment.  *)
(* Each flag is the set of the nodes that carry it.  queue_group_map is    *)
(* left out: no operation writes it, so it is empty in every node.  The    *)
(* sender stored with a key is left out too: it belongs to the client the  *)
(* key names.                                                              *)
(*                                                                         *)
(* insert and delete take &mut self and search takes &self, so no two of   *)
(* them overlap and each is one action.                                    *)
(***************************************************************************)
EXTENDS TopicMatch

CONSTANTS
    Segment,          \* the levels of topics and filters
    SubscriptionKey,  \* the (client_id, subscription_id) pairs
    Filters,          \* the validated filters, as sequences of levels
    Topics            \* the validated topics, as sequences of levels

\* What topic.rs guarantees of a TopicFilter and of a Topic.
ASSUME RouterAssumption ==
    /\ WILDCARD_SINGLE \in Segment
    /\ WILDCARD_MULTI \in Segment
    /\ \A f \in Filters :
          /\ f \in Seq(Segment)
          /\ f # <<>>
          /\ \A i \in 1 .. Len(f) - 1 : f[i] # WILDCARD_MULTI
    /\ \A t \in Topics :
          /\ t \in Seq(Segment)
          /\ t # <<>>
          /\ \A i \in 1 .. Len(t) : t[i] \notin {WILDCARD_SINGLE, WILDCARD_MULTI}

VARIABLES
    subscription_map,     \* the keys stored at each node of the tree
    has_wildcard_single,  \* the nodes flagged as having a '+' child
    has_wildcard_multi,   \* the nodes flagged as having a '#' child
    subscription_kv,      \* the filter each live key was inserted with
    response              \* what the last call returned

tree == <<subscription_map, has_wildcard_single, has_wildcard_multi>>
vars == <<subscription_map, has_wildcard_single, has_wildcard_multi,
          subscription_kv, response>>

-----------------------------------------------------------------------------
(* Tree vocabulary. *)

Path == Seq(Segment)
Nodes == DOMAIN subscription_map

Prefix(p, i) == SubSeq(p, 1, i)
IsUnder(q, p) == Len(p) <= Len(q) /\ Prefix(q, Len(p)) = p

\* The nodes that the descent for filter f passes, root and last included.
PathTo(f) == {Prefix(f, i) : i \in 0 .. Len(f)}

\* The nodes of f's path whose next level is the given wildcard.
ParentsOf(f, wildcard) ==
    {Prefix(f, i - 1) : i \in {j \in 1 .. Len(f) : f[j] = wildcard}}

\* The value of a call that returns nothing.
Unit == [topic |-> <<>>, subscription_list |-> {}]

-----------------------------------------------------------------------------
(* insert *)

StoreKey_Misplaced(k, f) ==
    [p \in Nodes \cup PathTo(f) |->
        (IF p \in Nodes THEN subscription_map[p] ELSE {})
            \cup (IF p = Prefix(f, 1) THEN {k} ELSE {})]

\* The descent creates the missing nodes and stores the key at the last.
StoreKey(k, f) ==
    [p \in Nodes \cup PathTo(f) |->
        (IF p \in Nodes THEN subscription_map[p] ELSE {})
            \cup (IF p = f THEN {k} ELSE {})]

Insert(k, f) ==
    /\ subscription_map' = StoreKey(k, f)
    /\ has_wildcard_single' =
          has_wildcard_single \cup ParentsOf(f, WILDCARD_SINGLE)
    /\ has_wildcard_multi' =
          has_wildcard_multi \cup ParentsOf(f, WILDCARD_MULTI)
    /\ subscription_kv' =
          [j \in DOMAIN subscription_kv \cup {k} |->
              IF j = k THEN f ELSE subscription_kv[j]]
    /\ response' = Unit

-----------------------------------------------------------------------------
(* delete *)

\* The keys left at node q once key k is removed from the end of f's path.
KeysLeft(k, f, q) == subscription_map[q] \ (IF q = f THEN {k} ELSE {})

Pruned_LeafOnly(k, f) ==
    {p \in {f} : \A q \in Nodes : IsUnder(q, p) => q = f /\ KeysLeft(k, f, q) = {}}

Pruned_IgnoreKeys(k, f) ==
    {p \in PathTo(f) \ {<<>>} :
        \A q \in Nodes : IsUnder(q, p) => q \in PathTo(f)}

Pruned_IgnoreSiblings(k, f) ==
    {p \in PathTo(f) \ {<<>>} :
        \A q \in PathTo(f) : IsUnder(q, p) => KeysLeft(k, f, q) = {}}

(***************************************************************************)
(* The loop from the last node up drops a child that has no key and no     *)
(* children left and stops at the first that has.  So it drops the nodes   *)
(* of the path, the root apart, under which there are only nodes of the    *)
(* path and these hold no key but the deleted one.                         *)
(***************************************************************************)
Pruned(k, f) ==
    {p \in PathTo(f) \ {<<>>} :
        \A q \in Nodes :
            IsUnder(q, p) => q \in PathTo(f) /\ KeysLeft(k, f, q) = {}}

FlagAfter_NotRecomputed(flagged, wildcard, gone) == flagged \ gone

FlagAfter_AnyChild(flagged, wildcard, gone) ==
    {p \in flagged \ gone : \A q \in gone : ~(Len(q) = Len(p) + 1 /\ IsUnder(q, p))}

FlagAfter_Kept(flagged, wildcard, gone) == flagged

\* A flag goes with its node, and is cleared on the parent of a dropped
\* wildcard child.
FlagAfter(flagged, wildcard, gone) ==
    {p \in flagged \ gone : Append(p, wildcard) \notin gone}

Delete(k) ==
    /\ IF k \in DOMAIN subscription_kv /\ PathTo(subscription_kv[k]) \subseteq Nodes
         THEN LET f == subscription_kv[k]
                  gone == Pruned(k, f)
              IN  /\ subscription_map' =
                        [q \in Nodes \ gone |-> KeysLeft(k, f, q)]
                  /\ has_wildcard_single' =
                        FlagAfter(has_wildcard_single, WILDCARD_SINGLE, gone)
                  /\ has_wildcard_multi' =
                        FlagAfter(has_wildcard_multi, WILDCARD_MULTI, gone)
                  /\ subscription_kv' =
                        [j \in DOMAIN subscription_kv \ {k} |-> subscription_kv[j]]
         ELSE UNCHANGED <<tree, subscription_kv>>   \* the early returns
    /\ response' = Unit

-----------------------------------------------------------------------------
(* search *)

Visited_ExactFirst(t) ==
    {p \in Nodes :
        /\ Len(p) <= Len(t)
        /\ \A i \in 1 .. Len(p) :
              /\ Prefix(p, i) \in Nodes
              /\ \/ p[i] = t[i]
                 \/ /\ p[i] = WILDCARD_SINGLE
                    /\ Append(Prefix(p, i - 1), t[i]) \notin Nodes}

\* The nodes the search reaches from the root, child by child, each child
\* equal to the topic's next level or '+'.  A set is enough: one condition
\* decides whether a child is pushed, and a path names one node, so none is
\* on the stack twice.
Visited(t) ==
    {p \in Nodes :
        /\ Len(p) <= Len(t)
        /\ \A i \in 1 .. Len(p) : Prefix(p, i) \in Nodes /\ LevelMatches(p, t, i)}

CollectNode(via, p) ==
    {[via |-> via, node |-> p, key |-> k] : k \in subscription_map[p]}

\* The '#' children of the visited nodes that are flagged as having one.
Absorbing(t) ==
    {Append(p, WILDCARD_MULTI) : p \in Visited(t) \cap has_wildcard_multi} \cap Nodes

\* The visited nodes at which no level of the topic remains.
Ending(t) == {p \in Visited(t) : Len(p) = Len(t)}

\* One entry for each push onto subscription_list.
SubscriptionList(t) ==
    (UNION {CollectNode("multi", p) : p \in Absorbing(t)})
        \cup (UNION {CollectNode("end", p) : p \in Ending(t)})

Search(t) ==
    /\ response' = [topic |-> t, subscription_list |-> SubscriptionList(t)]
    /\ UNCHANGED <<tree, subscription_kv>>

-----------------------------------------------------------------------------

Init ==
    /\ subscription_map = [p \in {<<>>} |-> {}]
    /\ has_wildcard_single = {}
    /\ has_wildcard_multi = {}
    /\ subscription_kv = [k \in {} |-> <<>>]
    /\ response = Unit

\* Any client: a live subscription_id may be subscribed again.
NextAny ==
    \/ \E k \in SubscriptionKey, f \in Filters : Insert(k, f)
    \/ \E k \in SubscriptionKey : Delete(k)
    \/ \E t \in Topics : Search(t)

\* Clients that keep subscription_id unique per subscription (pubsub.proto).
Next ==
    \/ \E k \in SubscriptionKey, f \in Filters :
          k \notin DOMAIN subscription_kv /\ Insert(k, f)
    \/ \E k \in SubscriptionKey : Delete(k)
    \/ \E t \in Topics : Search(t)

AnyClientSpec == Init /\ [][NextAny]_vars
Spec == Init /\ [][Next]_vars

-----------------------------------------------------------------------------
(* Properties. *)

\* The keys that a search for t hands the message to.
Receivers(t) == {e.key : e \in SubscriptionList(t)}

\* Type invariant of the tree, the key map and the value of search().
TypeOK ==
    /\ Nodes \subseteq Path
    /\ subscription_map \in [Nodes -> SUBSET SubscriptionKey]
    /\ has_wildcard_single \subseteq Nodes
    /\ has_wildcard_multi \subseteq Nodes
    /\ DOMAIN subscription_kv \subseteq SubscriptionKey
    /\ subscription_kv \in [DOMAIN subscription_kv -> Filters]
    /\ response.topic \in Topics \cup {<<>>}
    /\ \A e \in response.subscription_list : e.key \in SubscriptionKey

\* Every node hangs from the root by nodes that exist: insert() creates the
\* whole path and delete() drops no node that has a child left.
PrefixClosed == \A p \in Nodes : PathTo(p) \subseteq Nodes

\* A node carries a wildcard flag exactly while it has that wildcard child,
\* however insert() and delete() of overlapping filters are ordered.
FlagsExact ==
    /\ \A p \in Nodes :
          /\ p \in has_wildcard_single <=> Append(p, WILDCARD_SINGLE) \in Nodes
          /\ p \in has_wildcard_multi <=> Append(p, WILDCARD_MULTI) \in Nodes

\* A live key is stored at the end of the path of the filter that
\* subscription_kv remembers, so delete() always finds what it is to remove
\* and its early returns inside the descent are never taken.
KvInTree ==
    \A k \in DOMAIN subscription_kv :
        /\ subscription_kv[k] \in Nodes
        /\ k \in subscription_map[subscription_kv[k]]

\* A key is stored nowhere else (clients that keep their keys unique).
TreeInKv ==
    \A p \in Nodes : \A k \in subscription_map[p] :
        k \in DOMAIN subscription_kv /\ subscription_kv[k] = p

\* delete() leaves no dead branch: a node other than the root holds a key or
\* has a child that leads to one.
NoDeadBranch ==
    \A p \in Nodes \ {<<>>} :
        \/ subscription_map[p] # {}
        \/ \E q \in Nodes : Len(q) = Len(p) + 1 /\ IsUnder(q, p)

\* search() returned each live subscription whose filter matches the topic,
\* once, and no other, whatever inserts and deletes shaped the tree.  What
\* matches is what router.rs:122 says ("`#` matches zero or more levels") and
\* its test search_multi_wildcard_matches_zero_remaining_segments asks for;
\* MultiTakesALevel states what pubsub.proto says instead.
SearchExact ==
    response.topic # <<>> =>
        /\ {e.key : e \in response.subscription_list} =
              {k \in DOMAIN subscription_kv :
                  Matches(subscription_kv[k], response.topic)}
        /\ \A d, e \in response.subscription_list : d.key = e.key => d = e

\* Even when live keys are subscribed again, a search misses no subscription
\* that subscription_kv holds, '#' read as in router.rs:122.
NoMissedSubscriber ==
    \A t \in Topics : \A k \in DOMAIN subscription_kv :
        Matches(subscription_kv[k], t) => k \in Receivers(t)

\* Inserting or deleting one key does not change what any other key receives,
\* although they share nodes and flags.
OthersUndisturbed ==
    [][\A k \in DOMAIN subscription_kv \cap DOMAIN subscription_kv' :
          subscription_kv'[k] = subscription_kv[k] =>
              \A t \in Topics : k \in Receivers(t) <=> (k \in Receivers(t))']_vars

\* pubsub.proto of Subscribe.topic: "'#' matches one or more remaining levels":
\* a topic that search() returns a '#' filter for has a level where the '#' is.
MultiTakesALevel ==
    \A t \in Topics : \A k \in Receivers(t) \cap DOMAIN subscription_kv :
        LET f == subscription_kv[k]
        IN  f[Len(f)] = WILDCARD_MULTI => Len(t) >= Len(f)

\* pubsub.proto of UnSubscribe: "the broker will stop delivering messages for
\* that subscription": whoever search() returns is still subscribed.
UnsubscribeStops ==
    \A t \in Topics : Receivers(t) \subseteq DOMAIN subscription_kv

\* The router implements the table of subscriptions: each call has the effect
\* and the answer that the table gives it, '#' read as in router.rs:122.
Table ==
    INSTANCE SubscriptionTable WITH
        table <- subscription_kv,
        answer <- [topic |-> response.topic,
                   keys |-> {e.key : e \in response.subscription_list}]

TableSpec == Table!Spec

=============================================================================
