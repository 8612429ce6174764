---------------------------- MODULE RouterProofs ----------------------------
(***************************************************************************)
(* Proofs about the router, for any set of levels, filters, topics and     *)
(* subscription keys and trees of any depth.                               *)
(***************************************************************************)
EXTENDS Router, SequenceTheorems, TLAPS

-----------------------------------------------------------------------------
(* Paths and their prefixes. *)

\* What Prefix(p, i) is, level by level.
LEMMA PrefixProperties ==
    ASSUME NEW p \in Path, NEW i \in 0 .. Len(p)
    PROVE  /\ Prefix(p, i) \in Path
           /\ Len(Prefix(p, i)) = i
           /\ \A j \in 1 .. i : Prefix(p, i)[j] = p[j]
BY DEF Path, Prefix

\* Two paths of the same levels are the same node.
LEMMA PathEqual ==
    ASSUME NEW p \in Path, NEW q \in Path, Len(p) = Len(q),
           \A i \in 1 .. Len(p) : p[i] = q[i]
    PROVE  p = q
BY SeqEqual DEF Path

\* A path is its own longest prefix and the root its shortest.
LEMMA PrefixFull ==
    ASSUME NEW p \in Path
    PROVE  Prefix(p, Len(p)) = p /\ Prefix(p, 0) = <<>>
<1>1. Len(p) \in 0 .. Len(p)
    BY DEF Path
<1>2. Prefix(p, Len(p)) = p
    BY <1>1, PrefixProperties, PathEqual
<1>3. QED
    BY <1>2 DEF Prefix, Path

\* A prefix of a prefix is a prefix.
LEMMA PrefixPrefix ==
    ASSUME NEW p \in Path, NEW i \in 0 .. Len(p), NEW j \in 0 .. i
    PROVE  Prefix(Prefix(p, i), j) = Prefix(p, j)
<1>1. j \in 0 .. Len(p) /\ Len(Prefix(p, i)) = i /\ Prefix(p, i) \in Path
    BY PrefixProperties DEF Path
<1>2. /\ Prefix(Prefix(p, i), j) \in Path /\ Len(Prefix(Prefix(p, i), j)) = j
      /\ \A n \in 1 .. j : Prefix(Prefix(p, i), j)[n] = Prefix(p, i)[n]
    BY <1>1, PrefixProperties
<1>3. \A n \in 1 .. j : Prefix(p, i)[n] = p[n]
    BY PrefixProperties DEF Path
<1>4. /\ Prefix(p, j) \in Path /\ Len(Prefix(p, j)) = j
      /\ \A n \in 1 .. j : Prefix(p, j)[n] = p[n]
    BY <1>1, PrefixProperties
<1>5. QED
    BY <1>2, <1>3, <1>4, PathEqual

\* A child is one level longer than its parent, which is its prefix.
LEMMA ChildProperties ==
    ASSUME NEW p \in Path, NEW x \in Segment
    PROVE  /\ Append(p, x) \in Path /\ Len(Append(p, x)) = Len(p) + 1
           /\ Append(p, x)[Len(p) + 1] = x
           /\ \A i \in 1 .. Len(p) : Append(p, x)[i] = p[i]
BY DEF Path

\* Without its last level a child is its parent.
LEMMA ParentIsPrefix ==
    ASSUME NEW p \in Path, NEW x \in Segment
    PROVE  Prefix(Append(p, x), Len(p)) = p
<1> DEFINE c == Append(p, x)
<1>1. /\ c \in Path /\ Len(p) \in 0 .. Len(c)
      /\ \A i \in 1 .. Len(p) : c[i] = p[i]
    BY ChildProperties DEF Path
<1> HIDE DEF c
<1>2. /\ Prefix(c, Len(p)) \in Path /\ Len(Prefix(c, Len(p))) = Len(p)
      /\ \A i \in 1 .. Len(p) : Prefix(c, Len(p))[i] = c[i]
    BY <1>1, PrefixProperties
<1>3. Prefix(c, Len(p)) = p
    BY <1>1, <1>2, PathEqual
<1>4. QED
    BY <1>3 DEF c

\* Each node of a path is the child of the one before it.
LEMMA PrefixIsChild ==
    ASSUME NEW p \in Path, NEW i \in 1 .. Len(p)
    PROVE  Append(Prefix(p, i - 1), p[i]) = Prefix(p, i)
<1> DEFINE a == Append(Prefix(p, i - 1), p[i])
<1>1. i - 1 \in 0 .. Len(p) /\ i \in 0 .. Len(p) /\ p[i] \in Segment
    BY DEF Path
<1>2. Prefix(p, i - 1) \in Path /\ Len(Prefix(p, i - 1)) = i - 1
    BY <1>1, PrefixProperties
<1>3. /\ a \in Path /\ Len(a) = i /\ a[i] = p[i]
      /\ \A j \in 1 .. i - 1 : a[j] = Prefix(p, i - 1)[j]
    BY <1>1, <1>2, ChildProperties
<1>4. \A j \in 1 .. i - 1 : Prefix(p, i - 1)[j] = p[j]
    BY <1>1, PrefixProperties
<1>5. /\ Prefix(p, i) \in Path /\ Len(Prefix(p, i)) = i
      /\ \A j \in 1 .. i : Prefix(p, i)[j] = p[j]
    BY <1>1, PrefixProperties
<1>6. \A j \in 1 .. i : j \in 1 .. i - 1 \/ j = i
    BY DEF Path
<1> HIDE DEF a
<1>7. a = Prefix(p, i)
    BY <1>3, <1>4, <1>5, <1>6, PathEqual
<1>8. QED
    BY <1>7 DEF a

\* The nodes on the way to a node on the way to f are on the way to f.
LEMMA PathToClosed ==
    ASSUME NEW f \in Path, NEW p \in PathTo(f)
    PROVE  p \in Path /\ PathTo(p) \subseteq PathTo(f)
<1>1. PICK i \in 0 .. Len(f) : p = Prefix(f, i)
    BY DEF PathTo
<1>2. p \in Path /\ Len(p) = i
    BY <1>1, PrefixProperties
<1>3. ASSUME NEW j \in 0 .. i PROVE Prefix(p, j) \in PathTo(f)
    <2>1. Prefix(p, j) = Prefix(f, j) /\ j \in 0 .. Len(f)
        BY <1>1, PrefixPrefix DEF Path
    <2>2. QED
        BY <2>1 DEF PathTo
<1>4. QED
    BY <1>2, <1>3 DEF PathTo

\* Both ends of a path are on it.
LEMMA PathToEnds ==
    ASSUME NEW f \in Path
    PROVE  <<>> \in PathTo(f) /\ f \in PathTo(f)
<1>1. 0 \in 0 .. Len(f) /\ Len(f) \in 0 .. Len(f)
    BY DEF Path
<1>2. <<>> = Prefix(f, 0) /\ f = Prefix(f, Len(f))
    BY PrefixFull
<1>3. Prefix(f, 0) \in PathTo(f) /\ Prefix(f, Len(f)) \in PathTo(f)
    BY <1>1 DEF PathTo
<1>4. QED
    BY <1>2, <1>3, Zenon

\* A wildcard child is on f's path exactly when its parent is one of those
\* that insert() flags.
LEMMA ParentsExact ==
    ASSUME NEW f \in Path, NEW p \in Path, NEW w \in Segment
    PROVE  /\ p \in ParentsOf(f, w) <=> Append(p, w) \in PathTo(f)
           /\ ParentsOf(f, w) \subseteq PathTo(f)
<1>1. ASSUME NEW i \in 1 .. Len(f), f[i] = w, p = Prefix(f, i - 1)
      PROVE  Append(p, w) \in PathTo(f)
    <2>1. Append(p, w) = Prefix(f, i)
        BY <1>1, PrefixIsChild
    <2>2. i \in 0 .. Len(f)
        BY DEF Path
    <2>3. QED
        BY <2>1, <2>2 DEF PathTo
<1>2. ASSUME NEW i \in 0 .. Len(f), Append(p, w) = Prefix(f, i)
      PROVE  p \in ParentsOf(f, w)
    <2>1. Len(Append(p, w)) = i /\ i = Len(p) + 1
        BY <1>2, PrefixProperties, ChildProperties
    <2>2. i \in 1 .. Len(f) /\ i - 1 = Len(p) /\ i - 1 \in 0 .. i
        BY <2>1 DEF Path
    <2>3. f[i] = w
        <3>1. Prefix(f, i)[i] = f[i]
            BY <2>2, PrefixProperties
        <3>2. Append(p, w)[i] = w
            BY <2>1, ChildProperties
        <3>3. QED
            BY <1>2, <3>1, <3>2
    <2>4. p = Prefix(f, i - 1)
        <3>1. Prefix(Append(p, w), i - 1) = p
            BY <2>2, ParentIsPrefix
        <3>2. Prefix(Prefix(f, i), i - 1) = Prefix(f, i - 1)
            BY <2>2, PrefixPrefix
        <3>3. QED
            BY <1>2, <3>1, <3>2
    <2>5. QED
        BY <2>2, <2>3, <2>4 DEF ParentsOf
<1>3. ParentsOf(f, w) \subseteq PathTo(f)
    BY DEF ParentsOf, PathTo, Path
<1>4. QED
    BY <1>1, <1>2, <1>3 DEF ParentsOf, PathTo

\* "Under" is reflexive and transitive, and is to have as a prefix.
LEMMA UnderTransitive ==
    ASSUME NEW p \in Path, NEW q \in Path, NEW r \in Path
    PROVE  /\ IsUnder(p, p)
           /\ IsUnder(q, p) <=> p \in PathTo(q)
           /\ IsUnder(r, q) /\ IsUnder(q, p) => IsUnder(r, p)
<1>1. IsUnder(p, p)
    BY PrefixFull DEF IsUnder, Path
<1>2. IsUnder(q, p) => p \in PathTo(q)
    BY DEF IsUnder, PathTo, Path
<1>3. p \in PathTo(q) => IsUnder(q, p)
    BY PrefixProperties, SMTT(30) DEF IsUnder, PathTo, Path
<1>4. ASSUME IsUnder(r, q), IsUnder(q, p) PROVE IsUnder(r, p)
    <2>1. Len(p) \in 0 .. Len(q) /\ Len(q) \in 0 .. Len(r) /\ Len(p) <= Len(r)
        BY <1>4 DEF IsUnder, Path
    <2>2. Prefix(r, Len(q)) = q /\ Prefix(q, Len(p)) = p
        BY <1>4 DEF IsUnder
    <2>3. Prefix(Prefix(r, Len(q)), Len(p)) = Prefix(r, Len(p))
        BY <2>1, PrefixPrefix
    <2>4. QED
        BY <2>1, <2>2, <2>3 DEF IsUnder
<1>5. QED
    BY <1>1, <1>2, <1>3, <1>4

-----------------------------------------------------------------------------
(* The tree. *)

\* The root is never dropped.
HasRoot == <<>> \in Nodes

\* The inductive invariant, which holds for any client.
TreeInv ==
    /\ TypeOK
    /\ HasRoot
    /\ PrefixClosed
    /\ FlagsExact
    /\ KvInTree
    /\ NoDeadBranch

\* Filters and topics are paths that are not empty.
LEMMA FiltersArePaths ==
    /\ Filters \subseteq Path
    /\ Topics \subseteq Path
    /\ WILDCARD_SINGLE \in Segment /\ WILDCARD_MULTI \in Segment
BY RouterAssumption DEF Path

\* The tree after insert(k, f), node by node.
LEMMA InsertEffect ==
    ASSUME TypeOK, NEW k \in SubscriptionKey, NEW f \in Filters, Insert(k, f)
    PROVE  /\ Nodes' = Nodes \cup PathTo(f)
           /\ \A p \in Nodes :
                 subscription_map'[p] =
                     subscription_map[p] \cup (IF p = f THEN {k} ELSE {})
           /\ \A p \in PathTo(f) \ Nodes :
                 subscription_map'[p] = IF p = f THEN {k} ELSE {}
           /\ has_wildcard_single' =
                 has_wildcard_single \cup ParentsOf(f, WILDCARD_SINGLE)
           /\ has_wildcard_multi' =
                 has_wildcard_multi \cup ParentsOf(f, WILDCARD_MULTI)
           /\ DOMAIN subscription_kv' = DOMAIN subscription_kv \cup {k}
           /\ subscription_kv'[k] = f
           /\ \A j \in DOMAIN subscription_kv \ {k} :
                 subscription_kv'[j] = subscription_kv[j]
           /\ response' = Unit
BY DEF Insert, StoreKey, Nodes

\* insert() keeps the type invariant.
LEMMA InsertType ==
    ASSUME TypeOK, NEW k \in SubscriptionKey, NEW f \in Filters, Insert(k, f)
    PROVE  TypeOK'
<1>1. PathTo(f) \subseteq Path
    BY FiltersArePaths, PathToClosed
<1>2. /\ Nodes' = Nodes \cup PathTo(f)
      /\ has_wildcard_single' =
            has_wildcard_single \cup ParentsOf(f, WILDCARD_SINGLE)
      /\ has_wildcard_multi' =
            has_wildcard_multi \cup ParentsOf(f, WILDCARD_MULTI)
    BY InsertEffect
<1>3. Nodes' \subseteq Path
    BY <1>1, <1>2 DEF TypeOK
<1>4. subscription_map' \in [Nodes' -> SUBSET SubscriptionKey]
    BY DEF Insert, StoreKey, Nodes, TypeOK
<1>5. has_wildcard_single' \subseteq Nodes' /\ has_wildcard_multi' \subseteq Nodes'
    <2>1. /\ ParentsOf(f, WILDCARD_SINGLE) \subseteq PathTo(f)
          /\ ParentsOf(f, WILDCARD_MULTI) \subseteq PathTo(f)
        BY FiltersArePaths, ParentsExact
    <2>2. QED
        BY <1>2, <2>1 DEF TypeOK
<1>6. /\ DOMAIN subscription_kv' \subseteq SubscriptionKey
      /\ subscription_kv' \in [DOMAIN subscription_kv' -> Filters]
    BY DEF Insert, TypeOK
<1>7. /\ response'.topic \in Topics \cup {<<>>}
      /\ \A e \in response'.subscription_list : e.key \in SubscriptionKey
    BY DEF Insert, Unit
<1>8. QED
    BY <1>3, <1>4, <1>5, <1>6, <1>7 DEF TypeOK

\* The node above a wildcard child exists.
LEMMA ParentExists ==
    ASSUME TypeOK, PrefixClosed, NEW p \in Path, NEW w \in Segment, Append(p, w) \in Nodes
    PROVE  p \in Nodes
<1>1. p \in PathTo(Append(p, w))
    <2>1. p = Prefix(Append(p, w), Len(p)) /\ Len(p) \in 0 .. Len(Append(p, w))
        BY ParentIsPrefix, ChildProperties DEF Path
    <2>2. QED
        BY <2>1 DEF PathTo
<1>2. QED
    BY <1>1 DEF PrefixClosed

\* insert() keeps the inductive invariant, also when the key is live.
LEMMA InsertTree ==
    ASSUME TreeInv, NEW k \in SubscriptionKey, NEW f \in Filters, Insert(k, f)
    PROVE  TreeInv'
<1>1. TypeOK /\ HasRoot /\ PrefixClosed /\ FlagsExact /\ KvInTree /\ NoDeadBranch
    BY DEF TreeInv
<1>2. f \in Path /\ WILDCARD_SINGLE \in Segment /\ WILDCARD_MULTI \in Segment
    BY FiltersArePaths
<1>3. /\ Nodes' = Nodes \cup PathTo(f)
      /\ \A p \in Nodes :
            subscription_map'[p] =
                subscription_map[p] \cup (IF p = f THEN {k} ELSE {})
      /\ \A p \in PathTo(f) \ Nodes :
            subscription_map'[p] = IF p = f THEN {k} ELSE {}
    BY <1>1 DEF Insert, StoreKey, Nodes
<1>4. /\ has_wildcard_single' =
            has_wildcard_single \cup ParentsOf(f, WILDCARD_SINGLE)
      /\ has_wildcard_multi' =
            has_wildcard_multi \cup ParentsOf(f, WILDCARD_MULTI)
    BY <1>1, InsertEffect
<1>5. /\ DOMAIN subscription_kv' = DOMAIN subscription_kv \cup {k}
      /\ subscription_kv'[k] = f
      /\ \A j \in DOMAIN subscription_kv \ {k} :
            subscription_kv'[j] = subscription_kv[j]
    BY <1>1, InsertEffect
<1>6. TypeOK'
    BY <1>1, InsertType
<1>7. HasRoot'
    BY <1>1, <1>3 DEF HasRoot
<1>8. PrefixClosed'
    <2>1. \A p \in Nodes : PathTo(p) \subseteq Nodes
        BY <1>1 DEF PrefixClosed
    <2>2. \A p \in PathTo(f) : PathTo(p) \subseteq PathTo(f)
        BY <1>2, PathToClosed
    <2>3. QED
        BY <1>3, <2>1, <2>2 DEF PrefixClosed
<1>9. FlagsExact'
    <2> SUFFICES ASSUME NEW p \in Nodes'
                 PROVE  /\ p \in has_wildcard_single' <=> Append(p, WILDCARD_SINGLE) \in Nodes'
                        /\ p \in has_wildcard_multi' <=> Append(p, WILDCARD_MULTI) \in Nodes'
        BY DEF FlagsExact
    <2>1. p \in Path
        BY <1>6 DEF TypeOK
    <2>2. ASSUME NEW w \in Segment, NEW flagged \in SUBSET Nodes,
                 \A q \in Nodes : q \in flagged <=> Append(q, w) \in Nodes
          PROVE  p \in flagged \cup ParentsOf(f, w) <=> Append(p, w) \in Nodes'
        <3>1. p \in ParentsOf(f, w) <=> Append(p, w) \in PathTo(f)
            BY <1>2, <2>1, ParentsExact
        <3>2. Append(p, w) \in Nodes => p \in Nodes
            BY <1>1, <2>1, ParentExists
        <3>3. QED
            BY <1>3, <2>2, <3>1, <3>2
    <2>3. has_wildcard_single \subseteq Nodes /\ has_wildcard_multi \subseteq Nodes
        BY <1>1 DEF TypeOK
    <2>4. p \in has_wildcard_single' <=> Append(p, WILDCARD_SINGLE) \in Nodes'
        BY <1>1, <1>2, <1>4, <2>2, <2>3 DEF FlagsExact
    <2>5. p \in has_wildcard_multi' <=> Append(p, WILDCARD_MULTI) \in Nodes'
        BY <1>1, <1>2, <1>4, <2>2, <2>3 DEF FlagsExact
    <2>6. QED
        BY <2>4, <2>5
<1>10. KvInTree'
    <2>1. f \in Nodes' /\ k \in subscription_map'[f]
        BY <1>2, <1>3, PathToEnds
    <2>2. ASSUME NEW j \in DOMAIN subscription_kv \ {k}
          PROVE  subscription_kv'[j] \in Nodes' /\ j \in subscription_map'[subscription_kv'[j]]
        BY <1>1, <1>3, <1>5 DEF KvInTree
    <2>3. QED
        BY <1>5, <2>1, <2>2 DEF KvInTree
<1>11. NoDeadBranch'
    <2> SUFFICES ASSUME NEW p \in Nodes' \ {<<>>}
                 PROVE  \/ subscription_map'[p] # {}
                        \/ \E q \in Nodes' : Len(q) = Len(p) + 1 /\ IsUnder(q, p)
        BY DEF NoDeadBranch
    <2>1. CASE p \in Nodes
        <3>1. \/ subscription_map[p] # {}
              \/ \E q \in Nodes : Len(q) = Len(p) + 1 /\ IsUnder(q, p)
            BY <1>1, <2>1 DEF NoDeadBranch
        <3>2. QED
            BY <1>3, <2>1, <3>1
    <2>2. CASE p \in PathTo(f) \ Nodes
        <3>1. PICK i \in 0 .. Len(f) : p = Prefix(f, i)
            BY <2>2 DEF PathTo
        <3>2. CASE i = Len(f)
            BY <1>2, <1>3, <2>2, <3>1, <3>2, PrefixFull
        <3>3. CASE i < Len(f)
            <4>1. i + 1 \in 0 .. Len(f) /\ i \in 0 .. i + 1
                BY <1>2, <3>3 DEF Path
            <4>2. Len(p) = i /\ Len(Prefix(f, i + 1)) = i + 1
                BY <1>2, <3>1, <4>1, PrefixProperties
            <4>3. Prefix(Prefix(f, i + 1), i) = p
                BY <1>2, <3>1, <4>1, PrefixPrefix
            <4>4. Prefix(f, i + 1) \in Nodes'
                BY <1>3, <4>1 DEF PathTo
            <4>5. QED
                BY <4>2, <4>3, <4>4 DEF IsUnder
        <3>4. QED
            BY <1>2, <3>2, <3>3 DEF Path
    <2>3. QED
        BY <1>3, <2>1, <2>2
<1>12. QED
    BY <1>6, <1>7, <1>8, <1>9, <1>10, <1>11 DEF TreeInv

-----------------------------------------------------------------------------
(* delete *)

\* The tree after delete(k) of a live key, node by node.
LEMMA DeleteEffect ==
    ASSUME TypeOK, NEW k \in DOMAIN subscription_kv, NEW f, f = subscription_kv[k],
           PathTo(f) \subseteq Nodes, Delete(k)
    PROVE  /\ Nodes' = Nodes \ Pruned(k, f)
           /\ subscription_map' = [q \in Nodes \ Pruned(k, f) |-> KeysLeft(k, f, q)]
           /\ has_wildcard_single' =
                 FlagAfter(has_wildcard_single, WILDCARD_SINGLE, Pruned(k, f))
           /\ has_wildcard_multi' =
                 FlagAfter(has_wildcard_multi, WILDCARD_MULTI, Pruned(k, f))
           /\ subscription_kv' = [j \in DOMAIN subscription_kv \ {k} |-> subscription_kv[j]]
           /\ response' = Unit
BY DEF Delete, Nodes

\* A live key's whole path is in the tree, so delete() of it takes effect.
LEMMA LivePath ==
    ASSUME TreeInv, NEW k \in DOMAIN subscription_kv
    PROVE  /\ subscription_kv[k] \in Filters /\ subscription_kv[k] \in Path
           /\ PathTo(subscription_kv[k]) \subseteq Nodes
<1>1. subscription_kv[k] \in Filters
    BY DEF TreeInv, TypeOK
<1>2. subscription_kv[k] \in Nodes
    BY DEF TreeInv, KvInTree
<1>3. QED
    BY <1>1, <1>2, FiltersArePaths DEF TreeInv, PrefixClosed

\* What is under a dropped node is dropped with it.
LEMMA PrunedIsSubtree ==
    ASSUME TypeOK, NEW k, NEW f \in Path, NEW p \in Pruned(k, f),
           NEW q \in Nodes, IsUnder(q, p)
    PROVE  q \in Pruned(k, f)
<1>1. p \in Path /\ p \in PathTo(f) /\ p # <<>> /\ q \in Path
    BY PathToClosed DEF Pruned, TypeOK
<1>2. q \in PathTo(f)
    BY DEF Pruned
<1>3. q # <<>>
    BY <1>1 DEF IsUnder, Path
<1>4. ASSUME NEW r \in Nodes, IsUnder(r, q)
      PROVE  r \in PathTo(f) /\ KeysLeft(k, f, r) = {}
    <2>1. r \in Path
        BY DEF TypeOK
    <2>2. IsUnder(r, p)
        BY <1>1, <1>4, <2>1, UnderTransitive
    <2>3. QED
        BY <2>2 DEF Pruned
<1>5. QED
    BY <1>2, <1>3, <1>4 DEF Pruned

\* delete() keeps the type invariant.
LEMMA DeleteType ==
    ASSUME TypeOK, NEW k \in SubscriptionKey, Delete(k)
    PROVE  TypeOK'
<1>1. CASE k \in DOMAIN subscription_kv /\ PathTo(subscription_kv[k]) \subseteq Nodes
    <2> DEFINE f == subscription_kv[k]
               gone == Pruned(k, f)
    <2>1. /\ Nodes' = Nodes \ gone
          /\ subscription_map' = [q \in Nodes \ gone |-> KeysLeft(k, f, q)]
          /\ has_wildcard_single' = FlagAfter(has_wildcard_single, WILDCARD_SINGLE, gone)
          /\ has_wildcard_multi' = FlagAfter(has_wildcard_multi, WILDCARD_MULTI, gone)
          /\ subscription_kv' = [j \in DOMAIN subscription_kv \ {k} |-> subscription_kv[j]]
          /\ response' = Unit
        BY <1>1, DeleteEffect
    <2> HIDE DEF f, gone
    <2>2. Nodes' \subseteq Path
        BY <2>1 DEF TypeOK
    <2>3. subscription_map' \in [Nodes' -> SUBSET SubscriptionKey]
        BY <2>1 DEF TypeOK, KeysLeft
    <2>4. has_wildcard_single' \subseteq Nodes' /\ has_wildcard_multi' \subseteq Nodes'
        BY <2>1 DEF TypeOK, FlagAfter
    <2>5. /\ DOMAIN subscription_kv' \subseteq SubscriptionKey
          /\ subscription_kv' \in [DOMAIN subscription_kv' -> Filters]
        BY <2>1 DEF TypeOK
    <2>6. /\ response'.topic \in Topics \cup {<<>>}
          /\ \A e \in response'.subscription_list : e.key \in SubscriptionKey
        BY <2>1 DEF Unit
    <2>7. QED
        BY <2>2, <2>3, <2>4, <2>5, <2>6 DEF TypeOK
<1>2. CASE ~(k \in DOMAIN subscription_kv /\ PathTo(subscription_kv[k]) \subseteq Nodes)
    <2>1. UNCHANGED <<tree, subscription_kv>> /\ response' = Unit
        BY <1>2 DEF Delete
    <2>2. QED
        BY <2>1 DEF TypeOK, tree, Nodes, Unit
<1>3. QED
    BY <1>1, <1>2

\* delete() of a live key keeps the inductive invariant.
LEMMA DeleteTree ==
    ASSUME TreeInv, NEW k \in DOMAIN subscription_kv, Delete(k)
    PROVE  TreeInv'
<1> DEFINE f == subscription_kv[k]
           gone == Pruned(k, f)
<1>1. TypeOK /\ HasRoot /\ PrefixClosed /\ FlagsExact /\ KvInTree /\ NoDeadBranch
    BY DEF TreeInv
<1>2. f \in Path /\ PathTo(f) \subseteq Nodes /\ k \in SubscriptionKey
    BY <1>1, LivePath DEF TypeOK
<1>3. /\ Nodes' = Nodes \ gone
      /\ subscription_map' = [q \in Nodes \ gone |-> KeysLeft(k, f, q)]
      /\ has_wildcard_single' = FlagAfter(has_wildcard_single, WILDCARD_SINGLE, gone)
      /\ has_wildcard_multi' = FlagAfter(has_wildcard_multi, WILDCARD_MULTI, gone)
      /\ subscription_kv' = [j \in DOMAIN subscription_kv \ {k} |-> subscription_kv[j]]
    BY <1>1, <1>2, DeleteEffect
<1>4. \A p \in gone : \A q \in Nodes : IsUnder(q, p) => q \in gone
    BY <1>1, <1>2, PrunedIsSubtree
<1>5. \A p \in gone : p \in Path /\ p # <<>> /\ p \in Nodes
    BY <1>2, PathToClosed DEF Pruned
<1>6. \A p \in gone : KeysLeft(k, f, p) = {}
    BY <1>1, <1>5, UnderTransitive DEF Pruned
<1>7. f = subscription_kv[k]
    OBVIOUS
<1> HIDE DEF f, gone
<1>8. TypeOK'
    BY <1>1, <1>2, DeleteType
<1>9. HasRoot'
    BY <1>1, <1>3, <1>5 DEF HasRoot
<1>10. PrefixClosed'
    <2> SUFFICES ASSUME NEW p \in Nodes \ gone, NEW r \in PathTo(p), r \in gone
                 PROVE  FALSE
        BY <1>1, <1>3 DEF PrefixClosed
    <2>1. p \in Path /\ r \in Path
        BY <1>1, <1>5 DEF TypeOK
    <2>2. IsUnder(p, r)
        BY <2>1, UnderTransitive
    <2>3. QED
        BY <1>4, <2>2
<1>11. FlagsExact'
    <2>1. ASSUME NEW p \in Nodes \ gone, NEW w \in Segment, Append(p, w) \in gone,
                 NEW flagged
          PROVE  p \notin FlagAfter(flagged, w, gone)
        BY <2>1 DEF FlagAfter
    <2>2. WILDCARD_SINGLE \in Segment /\ WILDCARD_MULTI \in Segment
        BY FiltersArePaths
    <2>3. QED
        BY <1>1, <1>3, <2>1, <2>2 DEF FlagsExact, FlagAfter
<1>12. KvInTree'
    <2> SUFFICES ASSUME NEW j \in DOMAIN subscription_kv \ {k}
                 PROVE  /\ subscription_kv[j] \in Nodes \ gone
                        /\ j \in KeysLeft(k, f, subscription_kv[j])
        BY <1>3 DEF KvInTree
    <2>1. subscription_kv[j] \in Nodes /\ j \in subscription_map[subscription_kv[j]]
        BY <1>1 DEF KvInTree
    <2>2. j \in KeysLeft(k, f, subscription_kv[j])
        BY <2>1 DEF KeysLeft
    <2>3. QED
        BY <1>6, <2>1, <2>2
<1>13. NoDeadBranch'
    <2> SUFFICES ASSUME NEW p \in Nodes \ gone, p # <<>>, KeysLeft(k, f, p) = {}
                 PROVE  \E q \in Nodes \ gone : Len(q) = Len(p) + 1 /\ IsUnder(q, p)
        BY <1>3 DEF NoDeadBranch
    <2>1. p \in Path
        BY <1>1 DEF TypeOK
    <2>2. CASE p \in PathTo(f)
        <3>1. PICK q \in Nodes : IsUnder(q, p) /\ ~(q \in PathTo(f) /\ KeysLeft(k, f, q) = {})
            BY <2>2 DEF Pruned, gone
        <3>2. q \in Nodes \ gone /\ q \in Path /\ q # p
            BY <1>1, <2>2, <3>1, UnderTransitive DEF Pruned, TypeOK, gone
        <3>3. Len(p) + 1 \in 0 .. Len(q) /\ Len(p) \in 0 .. Len(p) + 1
            BY <2>1, <3>1, <3>2, PrefixFull DEF IsUnder, Path
        <3>4. Len(Prefix(q, Len(p) + 1)) = Len(p) + 1
            BY <3>2, <3>3, PrefixProperties
        <3>5. Prefix(Prefix(q, Len(p) + 1), Len(p)) = p
            BY <3>1, <3>2, <3>3, PrefixPrefix DEF IsUnder
        <3>6. Prefix(q, Len(p) + 1) \in Nodes \ gone
            BY <1>3, <1>10, <3>2, <3>3 DEF PrefixClosed, PathTo
        <3>7. QED
            BY <3>3, <3>4, <3>5, <3>6 DEF IsUnder
    <2>3. CASE p \notin PathTo(f)
        <3>1. subscription_map[p] = {}
            BY <1>2, <2>3, PathToEnds DEF KeysLeft
        <3>2. PICK q \in Nodes : Len(q) = Len(p) + 1 /\ IsUnder(q, p)
            BY <1>1, <3>1 DEF NoDeadBranch
        <3>3. q \in Path /\ p \in PathTo(q)
            BY <1>1, <2>1, <3>2, UnderTransitive DEF TypeOK
        <3>4. q \notin PathTo(f)
            BY <1>2, <2>3, <3>3, PathToClosed
        <3>5. QED
            BY <3>2, <3>4 DEF Pruned, gone
    <2>4. QED
        BY <2>2, <2>3
<1>14. QED
    BY <1>8, <1>9, <1>10, <1>11, <1>12, <1>13 DEF TreeInv

-----------------------------------------------------------------------------
(* search *)

\* The nodes whose keys search() collects are those whose path, read as a
\* filter, matches the topic, and no node is collected in both ways.
LEMMA CollectedNodes ==
    ASSUME TreeInv, NEW t \in Topics
    PROVE  /\ Ending(t) \cup Absorbing(t) = {p \in Nodes \ {<<>>} : Matches(p, t)}
           /\ Ending(t) \cap Absorbing(t) = {}
<1>1. TypeOK /\ PrefixClosed /\ FlagsExact /\ HasRoot
    BY DEF TreeInv
<1>2. /\ t \in Path /\ Len(t) > 0 /\ WILDCARD_MULTI \in Segment
      /\ \A i \in 1 .. Len(t) : t[i] # WILDCARD_MULTI
    BY RouterAssumption DEF Path
<1>3. ASSUME NEW p \in Nodes
      PROVE  /\ p \in Path
             /\ p \in Visited(t) <=>
                   Len(p) <= Len(t) /\ \A i \in 1 .. Len(p) : LevelMatches(p, t, i)
    <2>1. p \in Path
        BY <1>1 DEF TypeOK
    <2>2. \A i \in 1 .. Len(p) : Prefix(p, i) \in Nodes
        BY <1>1, <2>1 DEF PrefixClosed, PathTo, Path
    <2>3. QED
        BY <2>1, <2>2 DEF Visited
<1>4. ASSUME NEW p \in Nodes
      PROVE  p \in Ending(t) <=>
                Len(p) = Len(t) /\ \A i \in 1 .. Len(p) : LevelMatches(p, t, i)
    BY <1>2, <1>3 DEF Ending, Visited, Path
<1>5. ASSUME NEW p \in Absorbing(t)
      PROVE  /\ p \in Nodes /\ p # <<>> /\ p[Len(p)] = WILDCARD_MULTI
             /\ Len(p) - 1 <= Len(t)
             /\ \A i \in 1 .. Len(p) - 1 : LevelMatches(p, t, i)
    <2>1. PICK q \in Visited(t) \cap has_wildcard_multi : p = Append(q, WILDCARD_MULTI)
        BY DEF Absorbing
    <2>2. q \in Path /\ Len(q) <= Len(t) /\ \A i \in 1 .. Len(q) : LevelMatches(q, t, i)
        BY <1>3 DEF Visited
    <2>3. /\ Len(p) = Len(q) + 1 /\ p[Len(q) + 1] = WILDCARD_MULTI
          /\ \A i \in 1 .. Len(q) : p[i] = q[i]
        BY <1>2, <2>1, <2>2, ChildProperties
    <2>4. Len(q) \in Nat /\ Len(p) - 1 = Len(q) /\ p \in Nodes
        BY <2>2, <2>3 DEF Path, Absorbing
    <2>5. p # <<>>
        BY <2>3, <2>4
    <2>6. QED
        BY <2>2, <2>3, <2>4, <2>5 DEF LevelMatches
<1>6. ASSUME NEW p \in Nodes, p # <<>>, p[Len(p)] = WILDCARD_MULTI, Len(p) - 1 <= Len(t),
             \A i \in 1 .. Len(p) - 1 : LevelMatches(p, t, i)
      PROVE  p \in Absorbing(t)
    <2> DEFINE q == Prefix(p, Len(p) - 1)
    <2>1. /\ p \in Path /\ Len(p) \in 1 .. Len(p) /\ Len(p) - 1 \in 0 .. Len(p)
        BY <1>3, <1>6 DEF Path
    <2>2. /\ q \in Path /\ Len(q) = Len(p) - 1
          /\ \A i \in 1 .. Len(q) : q[i] = p[i]
        BY <2>1, PrefixProperties
    <2>3. Append(q, WILDCARD_MULTI) = p
        <3>1. Append(q, p[Len(p)]) = Prefix(p, Len(p))
            BY <2>1, PrefixIsChild
        <3>2. QED
            BY <1>6, <2>1, <3>1, PrefixFull
    <2>4. q \in Nodes
        BY <1>1, <2>1 DEF PrefixClosed, PathTo
    <2> HIDE DEF q
    <2>5. q \in has_wildcard_multi
        BY <1>1, <2>3, <2>4 DEF FlagsExact
    <2>6. q \in Visited(t)
        BY <1>3, <1>6, <2>2, <2>4 DEF LevelMatches
    <2>7. QED
        BY <2>3, <2>5, <2>6 DEF Absorbing
<1>7. Ending(t) \subseteq Nodes /\ <<>> \notin Ending(t)
    BY <1>2 DEF Ending, Visited
<1>8. \A p \in Nodes \ {<<>>} : p \in Ending(t) \/ p \in Absorbing(t) <=> Matches(p, t)
    BY <1>4, <1>5, <1>6 DEF Matches
<1>9. ASSUME NEW p \in Ending(t), p \in Absorbing(t) PROVE FALSE
    <2>1. /\ p \in Path /\ p # <<>> /\ Len(p) = Len(t) /\ p[Len(p)] = WILDCARD_MULTI
          /\ \A i \in 1 .. Len(p) : LevelMatches(p, t, i)
        BY <1>3, <1>4, <1>5, <1>7, <1>9
    <2>2. Len(p) \in 1 .. Len(t)
        BY <2>1 DEF Path
    <2>3. LevelMatches(p, t, Len(p))
        BY <2>1, <2>2
    <2>4. QED
        BY <1>2, <2>1, <2>2, <2>3 DEF LevelMatches, WILDCARD_SINGLE, WILDCARD_MULTI
<1>10. QED
    BY <1>5, <1>7, <1>8, <1>9

\* What an entry of a search's list is.
LEMMA Entries ==
    ASSUME NEW t, NEW e
    PROVE  e \in SubscriptionList(t) <=>
              \/ \E p \in Absorbing(t) : \E k \in subscription_map[p] :
                    e = [via |-> "multi", node |-> p, key |-> k]
              \/ \E p \in Ending(t) : \E k \in subscription_map[p] :
                    e = [via |-> "end", node |-> p, key |-> k]
<1>1. ASSUME NEW via, NEW p
      PROVE  e \in CollectNode(via, p) <=>
                \E k \in subscription_map[p] : e = [via |-> via, node |-> p, key |-> k]
    BY DEF CollectNode
<1>2. e \in SubscriptionList(t) <=>
          \/ \E p \in Absorbing(t) : e \in CollectNode("multi", p)
          \/ \E p \in Ending(t) : e \in CollectNode("end", p)
    BY DEF SubscriptionList
<1>3. QED
    BY <1>1, <1>2, Zenon

\* A key receives a topic exactly when it is stored at a node that matches.
LEMMA ReceiversExact ==
    TreeInv =>
        \A t \in Topics : \A k :
            k \in Receivers(t) <=>
                \E p \in Nodes \ {<<>>} : Matches(p, t) /\ k \in subscription_map[p]
<1> SUFFICES ASSUME TreeInv, NEW t \in Topics, NEW k
             PROVE  k \in Receivers(t) <=>
                        \E p \in Nodes \ {<<>>} : Matches(p, t) /\ k \in subscription_map[p]
    OBVIOUS
<1>1. Ending(t) \cup Absorbing(t) = {p \in Nodes \ {<<>>} : Matches(p, t)}
    BY CollectedNodes
<1>2. k \in Receivers(t) <=> \E p \in Ending(t) \cup Absorbing(t) : k \in subscription_map[p]
    <2>1. ASSUME k \in Receivers(t)
          PROVE  \E p \in Ending(t) \cup Absorbing(t) : k \in subscription_map[p]
        <3>1. PICK e \in SubscriptionList(t) : k = e.key
            BY <2>1 DEF Receivers
        <3>2. QED
            BY <3>1, Entries
    <2>2. ASSUME NEW p \in Ending(t) \cup Absorbing(t), k \in subscription_map[p]
          PROVE  k \in Receivers(t)
        <3>1. CASE p \in Ending(t)
            <4>1. [via |-> "end", node |-> p, key |-> k] \in SubscriptionList(t)
                BY <2>2, <3>1, Entries
            <4>2. QED
                BY <4>1 DEF Receivers
        <3>2. CASE p \in Absorbing(t)
            <4>1. [via |-> "multi", node |-> p, key |-> k] \in SubscriptionList(t)
                BY <2>2, <3>2, Entries
            <4>2. QED
                BY <4>1 DEF Receivers
        <3>3. QED
            BY <3>1, <3>2
    <2>3. QED
        BY <2>1, <2>2
<1>3. QED
    BY <1>1, <1>2

\* A search leaves the tree as it is and returns well-typed entries.
LEMMA SearchTree ==
    ASSUME TreeInv, NEW t \in Topics, Search(t)
    PROVE  TreeInv'
<1>1. /\ subscription_map' = subscription_map /\ subscription_kv' = subscription_kv
      /\ has_wildcard_single' = has_wildcard_single
      /\ has_wildcard_multi' = has_wildcard_multi
      /\ response'.topic = t
      /\ response'.subscription_list = SubscriptionList(t)
    BY DEF Search, tree
<1>2. \A p \in Nodes : subscription_map[p] \subseteq SubscriptionKey
    BY DEF TreeInv, TypeOK
<1>3. Absorbing(t) \subseteq Nodes /\ Ending(t) \subseteq Nodes
    BY DEF Absorbing, Ending, Visited
<1>4. \A e \in SubscriptionList(t) : e.key \in SubscriptionKey
    <2> TAKE e \in SubscriptionList(t)
    <2>1. PICK p \in Nodes : e.key \in subscription_map[p]
        BY <1>3, Entries
    <2>2. QED
        BY <1>2, <2>1
<1>5. TypeOK'
    BY <1>1, <1>4 DEF TreeInv, TypeOK, Nodes
<1>6. QED
    BY <1>1, <1>5 DEF TreeInv, HasRoot, PrefixClosed, FlagsExact, KvInTree, NoDeadBranch, Nodes

-----------------------------------------------------------------------------
(* What holds whatever the clients do. *)

\* The initial tree is the root alone.
LEMMA InitTree == Init => TreeInv
<1> SUFFICES ASSUME Init PROVE TreeInv
    OBVIOUS
<1>1. /\ Nodes = {<<>>} /\ subscription_map[<<>>] = {} /\ DOMAIN subscription_kv = {}
      /\ subscription_map \in [Nodes -> SUBSET SubscriptionKey]
    BY DEF Init, Nodes
<1>2. <<>> \in Path
    BY DEF Path
<1>3. TypeOK
    BY <1>1, <1>2 DEF Init, TypeOK, Unit
<1>4. PrefixClosed
    BY <1>1 DEF PrefixClosed, PathTo, Prefix
<1>5. FlagsExact
    <2>1. /\ Append(<<>>, WILDCARD_SINGLE) # <<>>
          /\ Append(<<>>, WILDCARD_MULTI) # <<>>
        OBVIOUS
    <2>2. QED
        BY <1>1, <2>1 DEF FlagsExact, Init
<1>6. QED
    BY <1>1, <1>3, <1>4, <1>5 DEF TreeInv, HasRoot, KvInTree, NoDeadBranch

\* Every call keeps the inductive invariant.
LEMMA TreeStep == TreeInv /\ [NextAny]_vars => TreeInv'
<1> SUFFICES ASSUME TreeInv, [NextAny]_vars PROVE TreeInv'
    OBVIOUS
<1>1. ASSUME NEW k \in SubscriptionKey, NEW f \in Filters, Insert(k, f) PROVE TreeInv'
    BY <1>1, InsertTree
<1>2. ASSUME NEW k \in SubscriptionKey, Delete(k) PROVE TreeInv'
    <2>1. CASE k \in DOMAIN subscription_kv
        BY <1>2, <2>1, DeleteTree
    <2>2. CASE k \notin DOMAIN subscription_kv
        <3>1. /\ subscription_map' = subscription_map /\ subscription_kv' = subscription_kv
              /\ has_wildcard_single' = has_wildcard_single
              /\ has_wildcard_multi' = has_wildcard_multi
            BY <1>2, <2>2 DEF Delete, tree
        <3>2. TypeOK'
            BY <1>2, DeleteType DEF TreeInv
        <3>3. QED
            BY <3>1, <3>2 DEF TreeInv, HasRoot, PrefixClosed, FlagsExact, KvInTree,
                              NoDeadBranch, Nodes
    <2>3. QED
        BY <2>1, <2>2
<1>3. ASSUME NEW t \in Topics, Search(t) PROVE TreeInv'
    BY <1>3, SearchTree
<1>4. CASE UNCHANGED vars
    BY <1>4 DEF vars, TreeInv, TypeOK, HasRoot, PrefixClosed, FlagsExact, KvInTree,
                NoDeadBranch, Nodes
<1>5. QED
    BY <1>1, <1>2, <1>3, <1>4 DEF NextAny

\* A step of clients that keep their keys unique is a step of some clients.
LEMMA UniqueIsAny == [Next]_vars => [NextAny]_vars
BY DEF Next, NextAny

\* The tree invariant holds for any client.
THEOREM TreeAlways == AnyClientSpec => []TreeInv
<1>1. QED
    BY InitTree, TreeStep, PTL DEF AnyClientSpec

\* A router used by clients that keep their keys unique is a router.
THEOREM SpecIsAnyClient == Spec => AnyClientSpec
BY UniqueIsAny, PTL DEF Spec, AnyClientSpec

\* A live key is found by every search that its filter matches.
LEMMA TreeMissesNone == TreeInv => NoMissedSubscriber
<1> SUFFICES ASSUME TreeInv, NEW t \in Topics, NEW k \in DOMAIN subscription_kv,
                    Matches(subscription_kv[k], t)
             PROVE  k \in Receivers(t)
    BY DEF NoMissedSubscriber
<1>1. subscription_kv[k] \in Nodes /\ k \in subscription_map[subscription_kv[k]]
    BY DEF TreeInv, KvInTree
<1>2. subscription_kv[k] # <<>>
    BY LivePath, RouterAssumption
<1>3. QED
    BY <1>1, <1>2, ReceiversExact

\* search() misses no subscription that subscription_kv holds, also for
\* clients that subscribe a live key again.
THEOREM MissesNone == AnyClientSpec => []NoMissedSubscriber
BY TreeAlways, TreeMissesNone, PTL

\* ReceiversExact of the state after a step.
LEMMA ReceiversExactAfter ==
    TreeInv' =>
        \A t \in Topics : \A k :
            (k \in Receivers(t))' <=>
                \E p \in Nodes' \ {<<>>} : Matches(p, t) /\ k \in subscription_map'[p]
<1>1. TreeInv' =>
        (\A t \in Topics : \A k :
            k \in Receivers(t) <=>
                \E p \in Nodes \ {<<>>} : Matches(p, t) /\ k \in subscription_map[p])'
    BY ReceiversExact, PTL
<1>2. QED
    BY <1>1

\* insert() and delete() of other keys leave a key where it is stored.
LEMMA OthersStay ==
    ASSUME TreeInv, [NextAny]_vars,
           NEW k \in DOMAIN subscription_kv, k \in DOMAIN subscription_kv',
           subscription_kv'[k] = subscription_kv[k], NEW p
    PROVE  p \in Nodes /\ k \in subscription_map[p] <=>
               p \in Nodes' /\ k \in subscription_map'[p]
<1>1. ASSUME NEW j \in SubscriptionKey, NEW f \in Filters, Insert(j, f)
      PROVE  p \in Nodes /\ k \in subscription_map[p] <=>
               p \in Nodes' /\ k \in subscription_map'[p]
    <2>1. /\ Nodes' = Nodes \cup PathTo(f)
          /\ \A q \in Nodes :
                subscription_map'[q] =
                    subscription_map[q] \cup (IF q = f THEN {j} ELSE {})
          /\ \A q \in PathTo(f) \ Nodes :
                subscription_map'[q] = IF q = f THEN {j} ELSE {}
          /\ subscription_kv'[j] = f
        BY <1>1 DEF Insert, StoreKey, Nodes
    <2>2. k = j => f \in Nodes /\ k \in subscription_map[f]
        BY <2>1 DEF TreeInv, KvInTree
    <2>3. QED
        BY <2>1, <2>2
<1>2. ASSUME NEW j \in SubscriptionKey, Delete(j)
      PROVE  p \in Nodes /\ k \in subscription_map[p] <=>
               p \in Nodes' /\ k \in subscription_map'[p]
    <2>1. CASE j \in DOMAIN subscription_kv
        <3> DEFINE f == subscription_kv[j]
        <3>1. f \in Path /\ PathTo(f) \subseteq Nodes
            BY <2>1, LivePath
        <3>2. /\ Nodes' = Nodes \ Pruned(j, f)
              /\ subscription_map' = [q \in Nodes \ Pruned(j, f) |-> KeysLeft(j, f, q)]
              /\ DOMAIN subscription_kv' = DOMAIN subscription_kv \ {j}
            BY <1>2, <2>1, <3>1, DeleteEffect DEF TreeInv
        <3>3. p \in Nodes => (k \in KeysLeft(j, f, p) <=> k \in subscription_map[p])
            BY <3>2 DEF KeysLeft
        <3>4. p \in Nodes /\ p \in Pruned(j, f) => KeysLeft(j, f, p) = {}
            <4>1. p \in Nodes => IsUnder(p, p)
                BY UnderTransitive DEF TreeInv, TypeOK
            <4>2. QED
                BY <4>1 DEF Pruned
        <3> HIDE DEF f
        <3>5. QED
            BY <3>2, <3>3, <3>4
    <2>2. CASE j \notin DOMAIN subscription_kv
        BY <1>2, <2>2 DEF Delete, tree, Nodes
    <2>3. QED
        BY <2>1, <2>2
<1>3. ASSUME NEW t \in Topics, Search(t)
      PROVE  p \in Nodes /\ k \in subscription_map[p] <=>
               p \in Nodes' /\ k \in subscription_map'[p]
    BY <1>3 DEF Search, tree, Nodes
<1>4. CASE UNCHANGED vars
    BY <1>4 DEF vars, Nodes
<1>5. QED
    BY <1>1, <1>2, <1>3, <1>4 DEF NextAny

\* insert() or delete() of one key changes nothing for any other key.
THEOREM Undisturbed == AnyClientSpec => OthersUndisturbed
<1>1. ASSUME TreeInv, TreeInv', [NextAny]_vars
      PROVE  [\A k \in DOMAIN subscription_kv \cap DOMAIN subscription_kv' :
                 subscription_kv'[k] = subscription_kv[k] =>
                     \A t \in Topics :
                         k \in Receivers(t) <=> (k \in Receivers(t))']_vars
    <2> SUFFICES ASSUME NEW k \in DOMAIN subscription_kv, k \in DOMAIN subscription_kv',
                        subscription_kv'[k] = subscription_kv[k], NEW t \in Topics
                 PROVE  k \in Receivers(t) <=> (k \in Receivers(t))'
        OBVIOUS
    <2>1. \A p : p \in Nodes /\ k \in subscription_map[p] <=>
                     p \in Nodes' /\ k \in subscription_map'[p]
        BY <1>1, OthersStay
    <2>2. k \in Receivers(t) <=>
              \E p \in Nodes \ {<<>>} : Matches(p, t) /\ k \in subscription_map[p]
        BY <1>1, ReceiversExact
    <2>3. (k \in Receivers(t))' <=>
              \E p \in Nodes' \ {<<>>} : Matches(p, t) /\ k \in subscription_map'[p]
        BY <1>1, ReceiversExactAfter
    <2>4. QED
        BY <2>1, <2>2, <2>3
<1>2. QED
    BY <1>1, TreeAlways, PTL DEF AnyClientSpec, OthersUndisturbed

-----------------------------------------------------------------------------
(* What holds for clients that keep their keys unique. *)

\* A key is stored only where subscription_kv says, because insert() is not
\* called for a live key.
LEMMA KeyStep ==
    ASSUME TreeInv, TreeInKv, [Next]_vars
    PROVE  TreeInKv'
<1>1. ASSUME NEW k \in SubscriptionKey, NEW f \in Filters,
             k \notin DOMAIN subscription_kv, Insert(k, f)
      PROVE  TreeInKv'
    <2>1. /\ Nodes' = Nodes \cup PathTo(f)
          /\ \A p \in Nodes :
                subscription_map'[p] =
                    subscription_map[p] \cup (IF p = f THEN {k} ELSE {})
          /\ \A p \in PathTo(f) \ Nodes :
                subscription_map'[p] = IF p = f THEN {k} ELSE {}
        BY <1>1 DEF Insert, StoreKey, Nodes
    <2>2. subscription_kv' = [j \in DOMAIN subscription_kv \cup {k} |->
                                 IF j = k THEN f ELSE subscription_kv[j]]
        BY <1>1 DEF Insert
    <2>3. ASSUME NEW p \in Nodes', NEW j \in subscription_map'[p]
          PROVE  j \in DOMAIN subscription_kv' /\ subscription_kv'[j] = p
        <3>1. CASE p \in Nodes /\ j \in subscription_map[p]
            BY <1>1, <2>2, <3>1 DEF TreeInKv
        <3>2. CASE p = f /\ j = k
            BY <2>2, <3>2
        <3>3. QED
            BY <2>1, <2>3, <3>1, <3>2
    <2>4. QED
        BY <2>3 DEF TreeInKv
<1>2. ASSUME NEW k \in SubscriptionKey, Delete(k) PROVE TreeInKv'
    <2>1. CASE k \in DOMAIN subscription_kv
        <3> DEFINE f == subscription_kv[k]
                   gone == Pruned(k, f)
        <3>1. PathTo(f) \subseteq Nodes
            BY <2>1, LivePath
        <3>2. /\ Nodes' = Nodes \ gone
              /\ subscription_map' = [q \in Nodes \ gone |-> KeysLeft(k, f, q)]
              /\ subscription_kv' = [j \in DOMAIN subscription_kv \ {k} |-> subscription_kv[j]]
            BY <1>2, <2>1, <3>1, DeleteEffect DEF TreeInv
        <3> HIDE DEF gone
        <3>3. ASSUME NEW p \in Nodes \ gone, NEW j \in KeysLeft(k, f, p)
              PROVE  j \in DOMAIN subscription_kv /\ j # k /\ subscription_kv[j] = p
            BY <3>3 DEF KeysLeft, TreeInKv
        <3>4. QED
            BY <3>2, <3>3 DEF TreeInKv
    <2>2. CASE k \notin DOMAIN subscription_kv
        BY <1>2, <2>2 DEF Delete, tree, Nodes, TreeInKv
    <2>3. QED
        BY <2>1, <2>2
<1>3. ASSUME NEW t \in Topics, Search(t) PROVE TreeInKv'
    BY <1>3 DEF Search, tree, Nodes, TreeInKv
<1>4. CASE UNCHANGED vars
    BY <1>4 DEF vars, Nodes, TreeInKv
<1>5. QED
    BY <1>1, <1>2, <1>3, <1>4 DEF Next

\* The tree and subscription_kv hold the same subscriptions.
THEOREM SameSubscriptions == Spec => [](TreeInv /\ TreeInKv)
<1>1. Init => TreeInv /\ TreeInKv
    <2>1. Init => TreeInKv
        BY DEF Init, TreeInKv, Nodes
    <2>2. QED
        BY <2>1, InitTree
<1>2. TreeInv /\ TreeInKv /\ [Next]_vars => (TreeInv /\ TreeInKv)'
    BY TreeStep, UniqueIsAny, KeyStep
<1>3. QED
    BY <1>1, <1>2, PTL DEF Spec

\* Type correctness of the tree, the key map and the answers.
THEOREM TypeCorrect == Spec => []TypeOK
<1>1. TreeInv => TypeOK
    BY DEF TreeInv
<1>2. QED
    BY <1>1, SameSubscriptions, PTL

\* Every node hangs from the root.
THEOREM TreeIsClosed == Spec => []PrefixClosed
<1>1. TreeInv => PrefixClosed
    BY DEF TreeInv
<1>2. QED
    BY <1>1, SameSubscriptions, PTL

\* The wildcard flags that search() trusts say what children there are.
THEOREM FlagsAreExact == Spec => []FlagsExact
<1>1. TreeInv => FlagsExact
    BY DEF TreeInv
<1>2. QED
    BY <1>1, SameSubscriptions, PTL

\* delete() finds every live key, and no key is stored that is not live.
THEOREM KeysAgree == Spec => [](KvInTree /\ TreeInKv)
<1>1. TreeInv => KvInTree
    BY DEF TreeInv
<1>2. QED
    BY <1>1, SameSubscriptions, PTL

\* delete() leaves no branch without a key.
THEOREM NoDeadBranches == Spec => []NoDeadBranch
<1>1. TreeInv => NoDeadBranch
    BY DEF TreeInv
<1>2. QED
    BY <1>1, SameSubscriptions, PTL

\* The list search() builds names each matching live key once.
LEMMA ListExact ==
    ASSUME TreeInv, TreeInKv, NEW t \in Topics
    PROVE  /\ {e.key : e \in SubscriptionList(t)} =
                 {k \in DOMAIN subscription_kv : Matches(subscription_kv[k], t)}
           /\ \A d, e \in SubscriptionList(t) : d.key = e.key => d = e
<1>1. Ending(t) \subseteq Nodes /\ Absorbing(t) \subseteq Nodes
    BY DEF Ending, Visited, Absorbing
<1>2. Ending(t) \cap Absorbing(t) = {}
    BY CollectedNodes
<1>3. ASSUME NEW k
      PROVE  k \in Receivers(t) <=>
                 k \in DOMAIN subscription_kv /\ Matches(subscription_kv[k], t)
    <2>1. k \in Receivers(t) <=>
              \E p \in Nodes \ {<<>>} : Matches(p, t) /\ k \in subscription_map[p]
        BY ReceiversExact
    <2>2. k \in Receivers(t) =>
              k \in DOMAIN subscription_kv /\ Matches(subscription_kv[k], t)
        BY <2>1 DEF TreeInKv
    <2>3. k \in DOMAIN subscription_kv /\ Matches(subscription_kv[k], t) =>
              k \in Receivers(t)
        BY TreeMissesNone DEF NoMissedSubscriber
    <2>4. QED
        BY <2>2, <2>3
<1>4. ASSUME NEW d \in SubscriptionList(t), NEW e \in SubscriptionList(t), d.key = e.key
      PROVE  d = e
    <2>1. PICK p, j :
              /\ p \in Nodes
              /\ j \in subscription_map[p]
              /\ \/ p \in Absorbing(t) /\ d = [via |-> "multi", node |-> p, key |-> j]
                 \/ p \in Ending(t) /\ d = [via |-> "end", node |-> p, key |-> j]
        BY <1>1, Entries
    <2>2. PICK q, k :
              /\ q \in Nodes
              /\ k \in subscription_map[q]
              /\ \/ q \in Absorbing(t) /\ e = [via |-> "multi", node |-> q, key |-> k]
                 \/ q \in Ending(t) /\ e = [via |-> "end", node |-> q, key |-> k]
        BY <1>1, Entries
    <2>3. j = k
        BY <1>4, <2>1, <2>2
    <2>4. p = q
        BY <2>1, <2>2, <2>3 DEF TreeInKv
    <2>5. QED
        BY <1>2, <2>1, <2>2, <2>3, <2>4
<1>5. QED
    BY <1>3, <1>4 DEF Receivers

\* A call answers what the tree it leaves behind says.
LEMMA AnswerStep ==
    ASSUME TreeInv, TreeInKv, SearchExact, [Next]_vars
    PROVE  SearchExact'
<1>1. CASE response' = Unit
    BY <1>1 DEF SearchExact, Unit
<1>2. ASSUME NEW t \in Topics, Search(t) PROVE SearchExact'
    <2>1. /\ response'.topic = t
          /\ response'.subscription_list = SubscriptionList(t)
          /\ subscription_kv' = subscription_kv
        BY <1>2 DEF Search
    <2>2. /\ {e.key : e \in SubscriptionList(t)} =
                {k \in DOMAIN subscription_kv : Matches(subscription_kv[k], t)}
          /\ \A d, e \in SubscriptionList(t) : d.key = e.key => d = e
        BY ListExact
    <2>3. QED
        BY <2>1, <2>2 DEF SearchExact
<1>3. CASE UNCHANGED vars
    BY <1>3 DEF vars, SearchExact
<1>4. QED
    BY <1>1, <1>2, <1>3 DEF Next, Insert, Delete

\* search() returns each live subscription whose filter matches, once, and
\* no other, in trees of any depth with any number of subscriptions.
THEOREM SearchIsExact == Spec => []SearchExact
<1>1. Init => SearchExact
    BY DEF Init, SearchExact, Unit
<1>2. QED
    BY <1>1, AnswerStep, SameSubscriptions, PTL DEF Spec

-----------------------------------------------------------------------------
(* The router implements the table of subscriptions. *)

\* The initial router is an empty table.
LEMMA TableInit == Init => Table!Init
<1> SUFFICES ASSUME Init PROVE Table!Init
    OBVIOUS
<1>1. {e.key : e \in response.subscription_list} = {} /\ response.topic = <<>>
    BY DEF Init, Unit
<1>2. QED
    BY <1>1 DEF Init, Table!Init, Table!Nothing

\* Each call has the effect and the answer that the table gives it.
LEMMA TableStep ==
    ASSUME TreeInv, TreeInKv, [Next]_vars
    PROVE  [Table!Next]_(Table!vars)
<1>1. ASSUME response' = Unit
      PROVE  [topic |-> response'.topic,
              keys |-> {e.key : e \in response'.subscription_list}] = Table!Nothing
    BY <1>1 DEF Unit, Table!Nothing
<1>2. ASSUME NEW k \in SubscriptionKey, NEW f \in Filters,
             k \notin DOMAIN subscription_kv, Insert(k, f)
      PROVE  Table!Subscribe(k, f)
    BY <1>1, <1>2 DEF Insert, Table!Subscribe
<1>3. ASSUME NEW k \in SubscriptionKey, Delete(k)
      PROVE  Table!Unsubscribe(k)
    <2>1. subscription_kv' = [j \in DOMAIN subscription_kv \ {k} |-> subscription_kv[j]]
        <3>1. CASE k \in DOMAIN subscription_kv
            BY <1>3, <3>1, LivePath DEF Delete
        <3>2. CASE k \notin DOMAIN subscription_kv
            <4>1. subscription_kv' = subscription_kv
                BY <1>3, <3>2 DEF Delete
            <4>2. subscription_kv = [j \in DOMAIN subscription_kv |-> subscription_kv[j]]
                BY DEF TreeInv, TypeOK
            <4>3. DOMAIN subscription_kv \ {k} = DOMAIN subscription_kv
                BY <3>2
            <4>4. QED
                BY <4>1, <4>2, <4>3
        <3>3. QED
            BY <3>1, <3>2
    <2>2. QED
        BY <1>1, <1>3, <2>1 DEF Delete, Table!Unsubscribe
<1>4. ASSUME NEW t \in Topics, Search(t)
      PROVE  Table!Publish(t)
    <2>1. {e.key : e \in SubscriptionList(t)} =
              {k \in DOMAIN subscription_kv : Matches(subscription_kv[k], t)}
        BY ListExact
    <2>2. \A k \in DOMAIN subscription_kv :
              Matches(subscription_kv[k], t) <=> Table!Matches(subscription_kv[k], t)
        BY DEF Matches, LevelMatches, WILDCARD_SINGLE, WILDCARD_MULTI,
               Table!Matches, Table!LevelMatches, Table!WILDCARD_SINGLE,
               Table!WILDCARD_MULTI
    <2>3. {e.key : e \in SubscriptionList(t)} =
              {k \in DOMAIN subscription_kv : Table!Matches(subscription_kv[k], t)}
        BY <2>1, <2>2
    <2>4. /\ response'.topic = t /\ subscription_kv' = subscription_kv
          /\ response'.subscription_list = SubscriptionList(t)
        BY <1>4 DEF Search
    <2>5. QED
        BY <2>3, <2>4 DEF Table!Publish
<1>5. CASE UNCHANGED vars
    BY <1>5 DEF vars, Table!vars
<1>6. QED
    BY <1>2, <1>3, <1>4, <1>5 DEF Next, Table!Next

\* The tree router implements the table of subscriptions.
THEOREM ImplementsTable == Spec => TableSpec
BY TableInit, TableStep, SameSubscriptions, PTL DEF Spec, TableSpec, Table!Spec

=============================================================================
