--------------------------- MODULE SequenceLemmas ---------------------------
(***************************************************************************)
(* Facts about numbers and sequences that the proofs share.  Induction is  *)
(* stated for a set of numbers rather than for a predicate: a proof by     *)
(* induction defines the set of the numbers its claim holds for.           *)
(***************************************************************************)
EXTENDS Integers, SequencesExt, SequenceTheorems, WellFoundedInduction, TLAPS

\* A set of natural numbers that is not empty has a least element.
LEMMA LeastNat ==
    ASSUME NEW S \in SUBSET Nat, S # {}
    PROVE  \E x \in S : \A y \in S : x =< y
<1>1. \A x, y \in Nat : y < x => <<y, x>> \in OpToRel(<, Nat)
    BY DEF OpToRel
<1>2. PICK x \in S : \A y \in S : ~(<<y, x>> \in OpToRel(<, Nat))
    BY NatLessThanWellFounded, WFMin
<1>3. \A y \in S : x =< y
    <2> TAKE y \in S
    <2>1. x \in Nat /\ y \in Nat
        OBVIOUS
    <2>2. ~(y < x)
        BY <1>1, <1>2, <2>1
    <2>3. QED
        BY ONLY <2>1, <2>2
<1>4. QED
    BY <1>3

\* Induction over the natural numbers.
LEMMA SetInduction ==
    ASSUME NEW S, 0 \in S, \A n \in Nat : n \in S => n + 1 \in S
    PROVE  \A n \in Nat : n \in S
<1> DEFINE T == Nat \ S
<1> SUFFICES ASSUME T # {} PROVE FALSE
    OBVIOUS
<1>1. PICK x \in T : \A y \in T : x =< y
    <2>1. T \in SUBSET Nat
        OBVIOUS
    <2> HIDE DEF T
    <2>2. QED
        BY <2>1, LeastNat
<1>2. x # 0 /\ x \in Nat
    OBVIOUS
<1>3. x - 1 \in Nat /\ x - 1 \notin T
    BY <1>1, <1>2
<1>4. x - 1 + 1 \in S
    BY <1>3
<1>5. QED
    BY <1>1, <1>2, <1>4

\* g is computed by a recursion over 0 .. N: each value is made from the one
\* before it.
Recursion(g, N, first, next) ==
    g[0] = first /\ \A i \in 1 .. N : g[i] = next[i][g[i - 1]]

\* Such a recursion has a solution.
LEMMA RecursionExists ==
    ASSUME NEW V, NEW N \in Nat, NEW first \in V, NEW next \in [1 .. N -> [V -> V]]
    PROVE  \E g \in [0 .. N -> V] : Recursion(g, N, first, next)
<1> DEFINE P == {k \in Nat : k =< N => \E g \in [0 .. k -> V] : Recursion(g, k, first, next)}
<1>1. 0 \in P
    <2> DEFINE g == [i \in 0 .. 0 |-> first]
    <2>1. g \in [0 .. 0 -> V] /\ g[0] = first /\ 1 .. 0 = {}
        OBVIOUS
    <2>2. Recursion(g, 0, first, next)
        BY <2>1 DEF Recursion
    <2> HIDE DEF g
    <2>3. QED
        BY <2>1, <2>2
<1>2. ASSUME NEW k \in Nat, k \in P PROVE k + 1 \in P
    <2> SUFFICES ASSUME k + 1 =< N
                 PROVE  \E h \in [0 .. k + 1 -> V] : Recursion(h, k + 1, first, next)
        OBVIOUS
    <2>1. PICK g \in [0 .. k -> V] : Recursion(g, k, first, next)
        BY <1>2
    <2> DEFINE last == next[k + 1][g[k]]
               h == [i \in 0 .. k + 1 |-> IF i = k + 1 THEN last ELSE g[i]]
    <2>2. last \in V
        OBVIOUS
    <2>3. h \in [0 .. k + 1 -> V]
        <3> HIDE DEF last
        <3>1. QED
            BY <2>2
    <2>4. h[k + 1] = last /\ \A i \in 0 .. k : h[i] = g[i]
        OBVIOUS
    <2> HIDE DEF h
    <2>5. ASSUME NEW i \in 1 .. k + 1 PROVE h[i] = next[i][h[i - 1]]
        <3>1. CASE i = k + 1
            <4>1. h[k] = g[k] /\ i = k + 1 /\ i - 1 = k
                BY <2>4, <3>1
            <4>2. QED
                BY ONLY <2>4, <4>1
        <3>2. CASE i # k + 1
            <4>1. i \in 1 .. k /\ i \in 0 .. k /\ i - 1 \in 0 .. k
                BY <3>2
            <4>2. QED
                BY <2>1, <2>4, <4>1, Zenon DEF Recursion
        <3>3. QED
            BY <3>1, <3>2
    <2>6. h[0] = first
        BY <2>1, <2>4 DEF Recursion
    <2>7. Recursion(h, k + 1, first, next)
        BY <2>5, <2>6 DEF Recursion
    <2>8. QED
        BY <2>3, <2>7
<1>3. N \in P
    <2> HIDE DEF P
    <2>1. QED
        BY <1>1, <1>2, SetInduction
<1>4. QED
    BY <1>3

\* Its values have the type that each step preserves.
LEMMA RecursionTyped ==
    ASSUME NEW V, NEW N \in Nat, NEW f, f[0] \in V,
           \A i \in 1 .. N : f[i - 1] \in V => f[i] \in V
    PROVE  \A i \in 0 .. N : f[i] \in V
<1> DEFINE P == {k \in Nat : k =< N => f[k] \in V}
<1>1. 0 \in P
    OBVIOUS
<1>2. ASSUME NEW k \in Nat, k \in P PROVE k + 1 \in P
    <2> SUFFICES ASSUME k + 1 =< N PROVE f[k + 1] \in V
        OBVIOUS
    <2>1. f[k] \in V /\ k + 1 \in 1 .. N /\ k + 1 - 1 = k
        BY <1>2
    <2>2. QED
        BY <2>1
<1>3. \A k \in Nat : k \in P
    <2> HIDE DEF P
    <2>1. QED
        BY <1>1, <1>2, SetInduction
<1>4. QED
    BY <1>3

-----------------------------------------------------------------------------
(* Concatenation *)

Associates(s, t, u) == (s \o t) \o u = s \o (t \o u)

\* Concatenation is associative.
LEMMA Associative ==
    ASSUME NEW S, NEW s \in Seq(S), NEW t \in Seq(S), NEW u \in Seq(S)
    PROVE  Associates(s, t, u)
    BY ConcatAssociative DEF Associates

\* A sequence is a prefix of what continues it.
LEMMA PrefixOfConcat ==
    ASSUME NEW S, NEW s \in Seq(S), NEW t \in Seq(S)
    PROVE  IsPrefix(s, s \o t)
<1>1. s \o t \in Seq(S) /\ Len(s \o t) = Len(s) + Len(t) /\ Len(s) \in Nat /\ Len(t) \in Nat
    BY ConcatProperties
<1>2. Len(s) <= Len(s \o t)
    BY <1>1
<1>3. SubSeq(s, 1, Len(s)) = SubSeq(s \o t, 1, Len(s))
    <2>1. CASE Len(s) = 0
        <3>1. 0 < 1 /\ 1 \in Int /\ 0 \in Int
            OBVIOUS
        <3>2. SubSeq(s, 1, 0) = <<>> /\ SubSeq(s \o t, 1, 0) = <<>>
            BY <3>1, SubSeqEmpty, Zenon
        <3>3. QED
            BY <2>1, <3>2
    <2>2. CASE Len(s) # 0
        <3>1. 1 \in 1 .. Len(s) /\ Len(s) \in 1 .. Len(s)
            BY <1>1, <2>2
        <3>2. QED
            BY <3>1, SubSeqOfConcat1
    <2>3. QED
        BY <2>1, <2>2
<1>4. QED
    BY <1>2, <1>3, Zenon DEF IsPrefix

-----------------------------------------------------------------------------
(* FlattenSeq *)

\* g holds the concatenations of the first 1, 2, ..., n sequences of s.
Concatenations(s, n, g) ==
    \A i \in 1 .. n : g[i] = IF i = 1 THEN s[i] ELSE g[i - 1] \o s[i]

\* The function that FlattenSeq computes.
Flattened(s) ==
    CHOOSE g : g = [i \in 1 .. Len(s) |-> IF i = 1 THEN s[i] ELSE g[i - 1] \o s[i]]

\* The recursion of FlattenSeq has a solution.
LEMMA FlattenedExists ==
    ASSUME NEW S, NEW s \in Seq(Seq(S))
    PROVE  /\ Flattened(s) \in [1 .. Len(s) -> Seq(S)]
           /\ Concatenations(s, Len(s), Flattened(s))
<1> DEFINE P == {n \in Nat : n =< Len(s) =>
                    \E g \in [1 .. n -> Seq(S)] : Concatenations(s, n, g)}
<1>0. Len(s) \in Nat /\ \A i \in 1 .. Len(s) : s[i] \in Seq(S)
    OBVIOUS
<1>1. 0 \in P
    <2>1. [i \in 1 .. 0 |-> <<>>] \in [1 .. 0 -> Seq(S)]
        OBVIOUS
    <2>2. \A g : Concatenations(s, 0, g)
        BY DEF Concatenations
    <2>3. QED
        BY <2>1, <2>2
<1>2. ASSUME NEW n \in Nat, n \in P PROVE n + 1 \in P
    <2> SUFFICES ASSUME n + 1 =< Len(s)
                 PROVE  \E h \in [1 .. n + 1 -> Seq(S)] : Concatenations(s, n + 1, h)
        OBVIOUS
    <2>1. PICK g \in [1 .. n -> Seq(S)] : Concatenations(s, n, g)
        BY <1>0, <1>2
    <2> DEFINE last == IF n = 0 THEN s[n + 1] ELSE g[n] \o s[n + 1]
               h == [i \in 1 .. n + 1 |-> IF i = n + 1 THEN last ELSE g[i]]
    <2>2. last \in Seq(S)
        <3>1. s[n + 1] \in Seq(S)
            BY <1>0
        <3>2. n # 0 => g[n] \in Seq(S)
            OBVIOUS
        <3>3. QED
            BY <3>1, <3>2, ConcatProperties
    <2>3. h \in [1 .. n + 1 -> Seq(S)]
        <3> HIDE DEF last
        <3> QED BY <2>2
    <2>4. ASSUME NEW i \in 1 .. n + 1
          PROVE  h[i] = IF i = 1 THEN s[i] ELSE h[i - 1] \o s[i]
        <3>1. CASE i = n + 1
            BY <3>1
        <3>2. CASE i # n + 1
            <4>1. i \in 1 .. n /\ (i # 1 => i - 1 \in 1 .. n /\ i - 1 # n + 1 /\ i - 1 \in 1 .. n + 1)
                BY <3>2
            <4>2. h[i] = g[i] /\ (i # 1 => h[i - 1] = g[i - 1])
                BY <4>1, <3>2
            <4>3. QED
                BY <2>1, <4>1, <4>2 DEF Concatenations
        <3>3. QED
            BY <3>1, <3>2
    <2>5. QED
        BY <2>3, <2>4 DEF Concatenations
<1>3. Len(s) \in P
    <2> HIDE DEF P
    <2>1. QED
        BY <1>0, <1>1, <1>2, SetInduction
<1>4. PICK g \in [1 .. Len(s) -> Seq(S)] : Concatenations(s, Len(s), g)
    BY <1>0, <1>3
<1>5. g = [i \in 1 .. Len(s) |-> IF i = 1 THEN s[i] ELSE g[i - 1] \o s[i]]
    BY <1>4 DEF Concatenations
<1> DEFINE f == Flattened(s)
<1>6. f = [i \in 1 .. Len(s) |-> IF i = 1 THEN s[i] ELSE f[i - 1] \o s[i]]
    BY <1>5, Zenon DEF Flattened
<1> HIDE DEF f
<1>7. Concatenations(s, Len(s), f)
    BY <1>6 DEF Concatenations
<1> DEFINE Q == {n \in Nat : n \in 1 .. Len(s) => f[n] \in Seq(S)}
<1>8. 0 \in Q
    OBVIOUS
<1>9. ASSUME NEW n \in Nat, n \in Q PROVE n + 1 \in Q
    <2> SUFFICES ASSUME n + 1 \in 1 .. Len(s) PROVE f[n + 1] \in Seq(S)
        OBVIOUS
    <2>1. s[n + 1] \in Seq(S)
        BY <1>0
    <2>2. CASE n = 0
        BY <2>1, <2>2, <1>7 DEF Concatenations
    <2>3. CASE n # 0
        <3>1. f[n] \in Seq(S)
            BY <1>0, <1>9, <2>3
        <3>2. f[n + 1] = f[n] \o s[n + 1]
            <4>1. n + 1 # 1 /\ n + 1 - 1 = n
                BY <2>3
            <4>2. f[n + 1] = IF n + 1 = 1 THEN s[n + 1] ELSE f[n + 1 - 1] \o s[n + 1]
                BY <1>7 DEF Concatenations
            <4>3. QED
                BY ONLY <4>1, <4>2, Zenon
        <3>3. QED
            BY <2>1, <3>1, <3>2, ConcatProperties
    <2>4. QED
        BY <2>2, <2>3
<1>10. \A n \in Nat : n \in Q
    <2> HIDE DEF Q
    <2>1. QED
        BY <1>8, <1>9, SetInduction
<1>11. f \in [1 .. Len(s) -> Seq(S)]
    <2>1. \A i \in 1 .. Len(s) : f[i] \in Seq(S)
        BY <1>0, <1>10
    <2>2. \E e : f = [i \in 1 .. Len(s) |-> e[i]]
        <3> DEFINE e == [i \in 1 .. Len(s) |-> IF i = 1 THEN s[i] ELSE f[i - 1] \o s[i]]
        <3>1. f = [i \in 1 .. Len(s) |-> e[i]]
            BY <1>6
        <3>2. QED
            BY <3>1
    <2>3. QED
        BY <2>1, <2>2
<1>12. QED
    BY <1>7, <1>11 DEF f

\* What FlattenSeq returns, in terms of that function.
LEMMA FlattenIs ==
    ASSUME NEW S, NEW s \in Seq(Seq(S))
    PROVE  FlattenSeq(s) = IF s = <<>> THEN <<>> ELSE Flattened(s)[Len(s)]
<1>1. CASE s = <<>>
    BY <1>1 DEF FlattenSeq
<1>2. CASE s # <<>>
    <2>1. Len(s) # 0
        BY <1>2, EmptySeq
    <2>2. QED
        BY <1>2, <2>1 DEF FlattenSeq, Flattened
<1>3. QED
    BY <1>1, <1>2

\* FlattenSeq, computed from the front, can be read from the back.
LEMMA FlattenAppend ==
    ASSUME NEW S, NEW s \in Seq(Seq(S)), NEW x \in Seq(S)
    PROVE  /\ FlattenSeq(s) \in Seq(S)
           /\ FlattenSeq(Append(s, x)) = FlattenSeq(s) \o x
<1> DEFINE t == Append(s, x)
           a == Flattened(s)
           b == Flattened(t)
<1>1. /\ t \in Seq(Seq(S)) /\ Len(s) \in Nat /\ Len(t) = Len(s) + 1
      /\ t[Len(s) + 1] = x /\ \A i \in 1 .. Len(s) : t[i] = s[i]
    BY AppendProperties
<1>2. /\ FlattenSeq(s) = IF s = <<>> THEN <<>> ELSE a[Len(s)]
      /\ FlattenSeq(t) = IF t = <<>> THEN <<>> ELSE b[Len(t)]
    <2> HIDE DEF t
    <2>1. QED
        BY <1>1, FlattenIs
<1>3. /\ a \in [1 .. Len(s) -> Seq(S)] /\ Concatenations(s, Len(s), a)
      /\ Concatenations(t, Len(s) + 1, b)
    <2> HIDE DEF t
    <2>1. QED
        BY <1>1, FlattenedExists
<1>4. t # <<>> /\ (s = <<>> <=> Len(s) = 0)
    BY <1>1, EmptySeq
<1> HIDE DEF t, a, b
<1> DEFINE Q == {k \in Nat : k \in 1 .. Len(s) => b[k] = a[k]}
<1>5. \A k \in Nat : k \in Q
    <2>1. 0 \in Q
        OBVIOUS
    <2>2. ASSUME NEW k \in Nat, k \in Q PROVE k + 1 \in Q
        <3> SUFFICES ASSUME k + 1 \in 1 .. Len(s) PROVE b[k + 1] = a[k + 1]
            OBVIOUS
        <3>1. /\ a[k + 1] = IF k + 1 = 1 THEN s[k + 1] ELSE a[k + 1 - 1] \o s[k + 1]
              /\ b[k + 1] = IF k + 1 = 1 THEN t[k + 1] ELSE b[k + 1 - 1] \o t[k + 1]
            <4>1. k + 1 \in 1 .. Len(s) + 1
                BY <1>1
            <4>2. Concatenations(s, Len(s), a) /\ Concatenations(t, Len(s) + 1, b)
                BY <1>3
            <4>3. QED
                BY ONLY <4>1, <4>2, k + 1 \in 1 .. Len(s) DEF Concatenations
        <3>2. t[k + 1] = s[k + 1] /\ (k + 1 # 1 => k + 1 - 1 = k /\ b[k] = a[k])
            BY <1>1, <2>2
        <3>3. QED
            BY ONLY <3>1, <3>2, Zenon
    <2> HIDE DEF Q
    <2>3. QED
        BY <2>1, <2>2, SetInduction
<1>6. b[Len(s) + 1] = IF Len(s) + 1 = 1 THEN t[Len(s) + 1]
                                        ELSE b[Len(s) + 1 - 1] \o t[Len(s) + 1]
    BY <1>1, <1>3 DEF Concatenations
<1>7. FlattenSeq(s) \in Seq(S)
    <2>1. s # <<>> => a[Len(s)] \in Seq(S)
        <3>1. s # <<>> => Len(s) \in 1 .. Len(s)
            BY <1>1, <1>4
        <3>2. QED
            BY ONLY <1>3, <3>1
    <2>2. QED
        BY <1>2, <2>1, EmptySeq
<1>8. CASE s = <<>>
    BY <1>1, <1>2, <1>4, <1>6, <1>8, ConcatEmptySeq DEF t
<1>9. CASE s # <<>>
    <2>1. Len(s) + 1 # 1 /\ Len(s) + 1 - 1 = Len(s) /\ Len(s) \in 1 .. Len(s)
        BY <1>1, <1>4, <1>9
    <2>2. b[Len(s)] = a[Len(s)]
        BY <1>1, <1>5, <2>1
    <2>3. FlattenSeq(t) = FlattenSeq(s) \o x
        BY <1>1, <1>2, <1>4, <1>6, <1>9, <2>1, <2>2
    <2>4. QED
        BY <1>7, <2>3 DEF t
<1>10. QED
    BY <1>7, <1>8, <1>9

\* Sequences of one element each are flattened to the sequence of these.
LEMMA FlattenSingletons ==
    ASSUME NEW S, NEW r \in Seq(S)
    PROVE  FlattenSeq([i \in 1 .. Len(r) |-> <<r[i]>>]) = r
<1> DEFINE singles(n) == [i \in 1 .. n |-> <<r[i]>>]
           P == {n \in Nat : n =< Len(r) => FlattenSeq(singles(n)) = SubSeq(r, 1, n)}
<1>1. Len(r) \in Nat /\ \A i \in 1 .. Len(r) : <<r[i]>> \in Seq(S)
    OBVIOUS
<1>2. \A n \in Nat : n =< Len(r) => singles(n) \in Seq(Seq(S)) /\ Len(singles(n)) = n
    BY <1>1
<1>3. 0 \in P
    <2>1. singles(0) = <<>> /\ SubSeq(r, 1, 0) = <<>>
        OBVIOUS
    <2>2. FlattenSeq(<<>>) = <<>>
        BY DEF FlattenSeq
    <2>3. QED
        BY <2>1, <2>2
<1> HIDE DEF singles
<1>4. ASSUME NEW n \in Nat, n \in P PROVE n + 1 \in P
    <2> SUFFICES ASSUME n + 1 =< Len(r)
                 PROVE  FlattenSeq(singles(n + 1)) = SubSeq(r, 1, n + 1)
        OBVIOUS
    <2>1. FlattenSeq(singles(n)) = SubSeq(r, 1, n)
        BY <1>1, <1>4
    <2>2. singles(n) \in Seq(Seq(S)) /\ <<r[n + 1]>> \in Seq(S) /\ Len(singles(n)) = n
        <3>1. n + 1 \in 1 .. Len(r) /\ n =< Len(r)
            BY <1>1
        <3>2. QED
            BY <1>1, <1>2, <3>1
    <2>3. singles(n + 1) = Append(singles(n), <<r[n + 1]>>)
        <3>1. Len(singles(n)) = n
            BY <2>2
        <3>2. QED
            BY <3>1 DEF singles
    <2>4. FlattenSeq(singles(n + 1)) = FlattenSeq(singles(n)) \o <<r[n + 1]>>
        BY <2>2, <2>3, FlattenAppend
    <2>5. SubSeq(r, 1, n + 1) = SubSeq(r, 1, n) \o <<r[n + 1]>>
        <3>1. 1 \in 1 .. Len(r) /\ n + 1 \in 1 .. Len(r) /\ n + 1 - 1 = n
            BY <1>1
        <3>2. QED
            BY <3>1, SubSeqRecursiveSecond
    <2>6. QED
        BY <2>1, <2>4, <2>5
<1>5. Len(r) \in P
    <2> HIDE DEF P
    <2>1. QED
        BY <1>1, <1>3, <1>4, SetInduction
<1>6. QED
    BY <1>1, <1>5, SubSeqFull DEF singles

=============================================================================
