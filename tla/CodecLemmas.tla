----------------------------- MODULE CodecLemmas -----------------------------
(***************************************************************************)
(* What the operators of the codecs compute: the length field, where       *)
(* decode() stops in a buffer, and the meaning of a byte string.           *)
(***************************************************************************)
EXTENDS Codec, SequenceLemmas

-----------------------------------------------------------------------------
(* The length field. *)

\* The sizes are numbers.
LEMMA Sizes ==
    /\ BASE \in Nat \ {0}
    /\ PAYLOAD_LENGTH_BYTES \in Nat \ {0}
    /\ MAXIMUM_PAYLOAD_BYTES \in Nat
    /\ HEADER_LENGTH = PAYLOAD_LENGTH_BYTES + 1
    /\ \A b \in Byte : b \in Nat
    BY CodecAssumption DEF HEADER_LENGTH, COMMAND_BYTE_LEN, Byte

\* The recursion of Shifted has a solution: a number and its quotients.
LEMMA ShiftedQuotients ==
    ASSUME NEW n \in Nat
    PROVE  /\ \A i \in 0 .. PAYLOAD_LENGTH_BYTES : Shifted(n)[i] \in Nat
           /\ Shifted(n)[0] = n
           /\ \A i \in 1 .. PAYLOAD_LENGTH_BYTES : Shifted(n)[i] = Shifted(n)[i - 1] \div BASE
<1> DEFINE
        N == PAYLOAD_LENGTH_BYTES
        next == [i \in 1 .. N |-> [v \in Nat |-> v \div BASE]]
        f == Shifted(n)
<1>1. N \in Nat /\ BASE \in Nat \ {0} /\ \A v \in Nat : v \div BASE \in Nat
    BY Sizes
<1>2. next \in [1 .. N -> [Nat -> Nat]]
    BY <1>1
<1>3. PICK g \in [0 .. N -> Nat] : Recursion(g, N, n, next)
    <2> HIDE DEF next, N
    <2>1. QED
        BY <1>1, <1>2, RecursionExists
<1>4. g = [i \in 0 .. N |-> IF i = 0 THEN n ELSE g[i - 1] \div BASE]
    <2>1. ASSUME NEW i \in 1 .. N PROVE g[i] = g[i - 1] \div BASE
        <3>1. i - 1 \in 0 .. N
            BY <1>1
        <3>2. g[i - 1] \in Nat
            BY <3>1
        <3>3. QED
            BY <1>3, <3>2 DEF Recursion
    <2> HIDE DEF N
    <2>2. QED
        BY <1>1, <1>3, <2>1 DEF Recursion
<1>5. f = [i \in 0 .. N |-> IF i = 0 THEN n ELSE f[i - 1] \div BASE]
    BY <1>4, Zenon DEF Shifted
<1> HIDE DEF f
<1>6. f[0] = n /\ \A i \in 1 .. N : f[i] = f[i - 1] \div BASE
    <2> HIDE DEF N
    <2>1. 0 \in 0 .. N /\ \A i \in 1 .. N : i \in 0 .. N /\ i # 0
        BY <1>1
    <2>2. QED
        BY <1>5, <2>1, Zenon
<1>7. \A i \in 0 .. N : f[i] \in Nat
    <2>1. f[0] \in Nat /\ \A i \in 1 .. N : f[i - 1] \in Nat => f[i] \in Nat
        BY <1>1, <1>6
    <2>2. QED
        BY <1>1, <2>1, RecursionTyped
<1>8. QED
    BY <1>6, <1>7 DEF f

\* The recursion of get_u32 has a solution, and its value is a number.
LEMMA FieldValue ==
    ASSUME NEW field, \A i \in 1 .. PAYLOAD_LENGTH_BYTES : field[i] \in Byte
    PROVE  /\ get_u32(field) \in Nat
           /\ \E f : /\ \A i \in 0 .. PAYLOAD_LENGTH_BYTES : f[i] \in Nat
                     /\ f[0] = 0
                     /\ \A i \in 1 .. PAYLOAD_LENGTH_BYTES : f[i] = BASE * f[i - 1] + field[i]
                     /\ get_u32(field) = f[PAYLOAD_LENGTH_BYTES]
<1> DEFINE
        N == PAYLOAD_LENGTH_BYTES
        next == [i \in 1 .. N |-> [v \in Nat |-> BASE * v + field[i]]]
        f == CHOOSE value : value = [i \in 0 .. N |->
                 IF i = 0 THEN 0 ELSE BASE * value[i - 1] + field[i]]
<1>1. /\ N \in Nat /\ BASE \in Nat
      /\ \A i \in 1 .. N : field[i] \in Nat
      /\ \A v \in Nat, i \in 1 .. N : BASE * v + field[i] \in Nat
    <2>1. N \in Nat /\ BASE \in Nat /\ \A i \in 1 .. N : field[i] \in Nat
        BY Sizes
    <2>2. \A v \in Nat : BASE * v \in Nat
        BY <2>1
    <2>3. QED
        BY <2>1, <2>2
<1>2. next \in [1 .. N -> [Nat -> Nat]]
    BY <1>1
<1>3. PICK g \in [0 .. N -> Nat] : Recursion(g, N, 0, next)
    <2> HIDE DEF next, N
    <2>1. QED
        BY <1>1, <1>2, RecursionExists
<1>4. g = [i \in 0 .. N |-> IF i = 0 THEN 0 ELSE BASE * g[i - 1] + field[i]]
    <2>1. ASSUME NEW i \in 1 .. N PROVE g[i] = BASE * g[i - 1] + field[i]
        <3>1. i - 1 \in 0 .. N
            BY <1>1
        <3>2. g[i - 1] \in Nat
            BY <3>1
        <3>3. QED
            BY <1>3, <3>2 DEF Recursion
    <2> HIDE DEF N
    <2>2. QED
        BY <1>1, <1>3, <2>1 DEF Recursion
<1>5. f = [i \in 0 .. N |-> IF i = 0 THEN 0 ELSE BASE * f[i - 1] + field[i]]
    BY <1>4, Zenon
<1>6. get_u32(field) = f[N]
    BY Zenon DEF get_u32
<1> HIDE DEF f
<1>7. f[0] = 0 /\ \A i \in 1 .. N : f[i] = BASE * f[i - 1] + field[i]
    <2> HIDE DEF N
    <2>1. 0 \in 0 .. N /\ \A i \in 1 .. N : i \in 0 .. N /\ i # 0
        BY <1>1
    <2>2. QED
        BY <1>5, <2>1, Zenon
<1>8. \A i \in 0 .. N : f[i] \in Nat
    <2>1. f[0] \in Nat
        BY <1>7
    <2>2. ASSUME NEW i \in 1 .. N, f[i - 1] \in Nat PROVE f[i] \in Nat
        BY <1>1, <1>7, <2>2, Zenon
    <2>3. QED
        BY <1>1, <2>1, <2>2, RecursionTyped
<1>9. get_u32(field) \in Nat
    BY <1>1, <1>6, <1>8
<1>10. QED
    BY <1>6, <1>7, <1>8, <1>9

\* put_u32 writes bytes, as many as the field has.
LEMMA FieldBytes ==
    ASSUME NEW n \in Nat
    PROVE  /\ put_u32(n) \in Seq(Byte) /\ Len(put_u32(n)) = PAYLOAD_LENGTH_BYTES
           /\ \A i \in 1 .. PAYLOAD_LENGTH_BYTES : put_u32(n)[i] \in Byte
<1>1. ASSUME NEW i \in 1 .. PAYLOAD_LENGTH_BYTES
      PROVE  Shifted(n)[PAYLOAD_LENGTH_BYTES - i] % BASE \in Byte
    <2>1. PAYLOAD_LENGTH_BYTES - i \in 0 .. PAYLOAD_LENGTH_BYTES
        BY Sizes
    <2>2. Shifted(n)[PAYLOAD_LENGTH_BYTES - i] \in Nat
        BY <2>1, ShiftedQuotients
    <2>3. QED
        BY <2>2, Sizes DEF Byte
<1>2. QED
    BY <1>1, Sizes DEF put_u32

\* The length that parse_header gets is the one that encode() put, for every
\* length that fits the field, of any width and over any byte values.
THEOREM FieldRoundTrip ==
    ASSUME NEW n \in Nat, Shifted(n)[PAYLOAD_LENGTH_BYTES] = 0
    PROVE  get_u32(put_u32(n)) = n
<1> DEFINE
        N == PAYLOAD_LENGTH_BYTES
        s == Shifted(n)
        field == put_u32(n)
<1>1. N \in Nat /\ BASE \in Nat \ {0}
    BY Sizes
<1>2. /\ \A i \in 0 .. N : s[i] \in Nat
      /\ s[0] = n
      /\ \A i \in 1 .. N : s[i] = s[i - 1] \div BASE
    BY ShiftedQuotients
<1>3. \A i \in 1 .. N : field[i] = s[N - i] % BASE
    BY DEF put_u32
<1>4. PICK f : /\ \A i \in 0 .. N : f[i] \in Nat
               /\ f[0] = 0
               /\ \A i \in 1 .. N : f[i] = BASE * f[i - 1] + field[i]
               /\ get_u32(field) = f[N]
    BY FieldBytes, FieldValue
<1>5. s[N] = 0
    OBVIOUS
<1> HIDE DEF s, field, N
<1> DEFINE P == {k \in Nat : k =< N => f[k] = s[N - k]}
<1>6. 0 \in P
    BY <1>1, <1>4, <1>5
<1>7. ASSUME NEW k \in Nat, k \in P PROVE k + 1 \in P
    <2> SUFFICES ASSUME k + 1 =< N PROVE f[k + 1] = s[N - (k + 1)]
        OBVIOUS
    <2> DEFINE q == s[N - (k + 1)]
    <2>1. /\ f[k] = s[N - k] /\ k + 1 \in 1 .. N /\ k + 1 - 1 = k
          /\ N - k \in 1 .. N /\ N - k - 1 = N - (k + 1) /\ N - (k + 1) \in 0 .. N
        BY <1>1, <1>7
    <2>2. f[k + 1] = BASE * f[k] + (q % BASE)
        BY <1>3, <1>4, <2>1
    <2>3. s[N - k] = q \div BASE /\ q \in Nat
        BY <1>2, <2>1
    <2> HIDE DEF q
    <2>4. BASE * (q \div BASE) + (q % BASE) = q
        BY <1>1, <2>3
    <2>5. QED
        BY <2>1, <2>2, <2>3, <2>4 DEF q
<1>8. N \in P
    <2> HIDE DEF P
    <2>1. QED
        BY <1>1, <1>6, <1>7, SetInduction
<1>9. f[N] = s[0]
    BY <1>1, <1>8
<1>10. QED
    BY <1>2, <1>4, <1>9 DEF field

-----------------------------------------------------------------------------
(* Headers and frames. *)

\* The bytes of part are those of all behind the first k.
Within(part, all, k) ==
    /\ k \in Nat /\ k + Len(part) =< Len(all)
    /\ \A i \in 1 .. Len(part) : all[k + i] = part[i]

\* A part of a byte string is a byte string.
LEMMA PartOfBytes ==
    ASSUME NEW bytes \in Seq(Byte), NEW m \in Int, NEW n \in Int, m >= 1, n =< Len(bytes)
    PROVE  /\ SubSeq(bytes, m, n) \in Seq(Byte)
           /\ Len(SubSeq(bytes, m, n)) = IF m =< n THEN n - m + 1 ELSE 0
           /\ \A i \in 1 .. n - m + 1 : SubSeq(bytes, m, n)[i] = bytes[m + i - 1]
<1>1. \A i \in m .. n : bytes[i] \in Byte
    OBVIOUS
<1>2. QED
    BY <1>1, SubSeqProperties

\* The same bytes are cut from two byte strings.
EqualCut(part, all, k, m, n) == SubSeq(all, k + m, k + n) = SubSeq(part, m, n)

\* Equal bytes at two places make equal parts.
LEMMA EqualParts ==
    ASSUME NEW part \in Seq(Byte), NEW all \in Seq(Byte), NEW k, Within(part, all, k),
           NEW m \in Int, NEW n \in Int, m >= 1, n =< Len(part)
    PROVE  EqualCut(part, all, k, m, n)
<1> DEFINE s == SubSeq(all, k + m, k + n)
           t == SubSeq(part, m, n)
<1>1. /\ k \in Nat /\ k + m \in Int /\ k + n \in Int /\ k + m >= 1 /\ k + n =< Len(all)
      /\ (k + n) - (k + m) = n - m /\ (k + m =< k + n <=> m =< n)
    BY DEF Within
<1>2. /\ s \in Seq(Byte) /\ Len(s) = IF m =< n THEN n - m + 1 ELSE 0
      /\ \A i \in 1 .. n - m + 1 : s[i] = all[k + m + i - 1]
    BY <1>1, PartOfBytes
<1>3. /\ t \in Seq(Byte) /\ Len(t) = IF m =< n THEN n - m + 1 ELSE 0
      /\ \A i \in 1 .. n - m + 1 : t[i] = part[m + i - 1]
    BY PartOfBytes
<1>4. ASSUME NEW i \in 1 .. n - m + 1 PROVE all[k + m + i - 1] = part[m + i - 1]
    <2>1. m + i - 1 \in 1 .. Len(part) /\ k + m + i - 1 = k + (m + i - 1)
        BY <1>1
    <2>2. QED
        BY <2>1 DEF Within
<1> HIDE DEF s, t
<1>5. Len(s) = Len(t) /\ \A i \in 1 .. Len(s) : i \in 1 .. n - m + 1
    BY <1>2, <1>3
<1>6. \A i \in 1 .. Len(s) : s[i] = t[i]
    BY <1>2, <1>3, <1>4, <1>5, Zenon
<1>7. s = t
    BY <1>2, <1>3, <1>5, <1>6, SeqEqual
<1>8. QED
    BY <1>7 DEF EqualCut, s, t

\* Concatenated byte strings lie in the result one behind the other.
LEMMA ConcatWithin ==
    ASSUME NEW head \in Seq(Byte), NEW tail \in Seq(Byte)
    PROVE  /\ head \o tail \in Seq(Byte)
           /\ Len(head \o tail) = Len(head) + Len(tail)
           /\ Within(head, head \o tail, 0)
           /\ Within(tail, head \o tail, Len(head))
<1> DEFINE all == head \o tail
<1>1. Len(head) \in Nat /\ Len(tail) \in Nat
    OBVIOUS
<1>2. /\ all \in Seq(Byte) /\ Len(all) = Len(head) + Len(tail)
      /\ \A i \in 1 .. Len(head) + Len(tail) : all[i] = IF i <= Len(head) THEN head[i] ELSE tail[i - Len(head)]
    BY ConcatProperties
<1> HIDE DEF all
<1>3. ASSUME NEW i \in 1 .. Len(head) PROVE all[0 + i] = head[i]
    <2>1. i \in 1 .. Len(head) + Len(tail) /\ i <= Len(head) /\ 0 + i = i
        BY <1>1
    <2>2. QED
        BY <1>2, <2>1
<1>4. ASSUME NEW i \in 1 .. Len(tail) PROVE all[Len(head) + i] = tail[i]
    <2>1. /\ Len(head) + i \in 1 .. Len(head) + Len(tail) /\ ~(Len(head) + i <= Len(head))
          /\ (Len(head) + i) - Len(head) = i
        BY <1>1
    <2>2. QED
        BY <1>2, <2>1
<1>5. Within(head, all, 0)
    BY <1>1, <1>2, <1>3 DEF Within
<1>6. Within(tail, all, Len(head))
    BY <1>1, <1>2, <1>4 DEF Within
<1>7. QED
    BY <1>2, <1>5, <1>6 DEF all

\* Within is transitive.
LEMMA WithinWithin ==
    ASSUME NEW part \in Seq(Byte), NEW mid \in Seq(Byte), NEW all \in Seq(Byte), NEW j, NEW k,
           Within(part, mid, j), Within(mid, all, k)
    PROVE  Within(part, all, k + j)
<1>1. /\ j \in Nat /\ k \in Nat /\ j + Len(part) =< Len(mid) /\ k + Len(mid) =< Len(all)
      /\ Len(part) \in Nat /\ Len(mid) \in Nat /\ Len(all) \in Nat
    BY DEF Within
<1>2. ASSUME NEW i \in 1 .. Len(part) PROVE all[k + j + i] = part[i]
    <2>1. j + i \in 1 .. Len(mid) /\ k + j + i = k + (j + i)
        BY <1>1
    <2>2. QED
        BY <2>1 DEF Within
<1>3. QED
    BY <1>1, <1>2 DEF Within

\* The middle one of three parts.
LEMMA MiddleWithin ==
    ASSUME NEW head \in Seq(Byte), NEW mid \in Seq(Byte), NEW tail \in Seq(Byte)
    PROVE  /\ head \o (mid \o tail) \in Seq(Byte)
           /\ Len(head \o (mid \o tail)) = Len(head) + Len(mid) + Len(tail)
           /\ Within(mid, head \o (mid \o tail), Len(head))
<1> DEFINE end == mid \o tail
           all == head \o end
<1>1. end \in Seq(Byte) /\ Len(end) = Len(mid) + Len(tail) /\ Within(mid, end, 0)
    BY ConcatWithin
<1> HIDE DEF end
<1>2. all \in Seq(Byte) /\ Len(all) = Len(head) + Len(end) /\ Within(end, all, Len(head))
    BY <1>1, ConcatWithin
<1> HIDE DEF all
<1>3. Len(head) + 0 = Len(head) /\ Len(all) = Len(head) + Len(mid) + Len(tail)
    BY <1>1, <1>2
<1>4. Within(mid, all, Len(head) + 0)
    BY <1>1, <1>2, WithinWithin
<1>5. QED
    BY <1>2, <1>3, <1>4 DEF all, end

\* The length a header states is a number.
LEMMA LengthIsNat ==
    ASSUME NEW bytes \in Seq(Byte), NEW p \in Nat \ {0}, HasHeader(bytes, p)
    PROVE  PayloadLength(bytes, p) \in Nat
<1> DEFINE field == SubSeq(bytes, p + 1, p + PAYLOAD_LENGTH_BYTES)
<1>1. /\ p + 1 \in Int /\ p + PAYLOAD_LENGTH_BYTES \in Int /\ p + 1 >= 1
      /\ p + PAYLOAD_LENGTH_BYTES =< Len(bytes) /\ PAYLOAD_LENGTH_BYTES \in Nat \ {0}
      /\ p + 1 =< p + PAYLOAD_LENGTH_BYTES
      /\ p + PAYLOAD_LENGTH_BYTES - (p + 1) + 1 = PAYLOAD_LENGTH_BYTES
    BY Sizes DEF HasHeader
<1>2. field \in Seq(Byte) /\ Len(field) = PAYLOAD_LENGTH_BYTES
    BY <1>1, PartOfBytes
<1> HIDE DEF field
<1>3. \A i \in 1 .. PAYLOAD_LENGTH_BYTES : field[i] \in Byte
    BY <1>2
<1>4. get_u32(field) \in Nat
    BY <1>3, FieldValue
<1>5. QED
    BY <1>4 DEF PayloadLength, field

\* A header is the same wherever its bytes are.
LEMMA HeaderWithin ==
    ASSUME NEW part \in Seq(Byte), NEW all \in Seq(Byte), NEW k, Within(part, all, k),
           NEW p \in 1 .. Len(part) + 1, HasHeader(part, p)
    PROVE  /\ p \in 1 .. Len(part) /\ k + p \in 1 .. Len(all)
           /\ HasHeader(all, k + p)
           /\ PayloadLength(part, p) \in Nat
           /\ PayloadLength(all, k + p) = PayloadLength(part, p)
           /\ all[k + p] = part[p]
           /\ Accepted(all, k + p) <=> Accepted(part, p)
<1> DEFINE N == PAYLOAD_LENGTH_BYTES
<1>1. /\ N \in Nat \ {0} /\ HEADER_LENGTH = N + 1 /\ Len(part) \in Nat /\ Len(all) \in Nat
      /\ k \in Nat /\ k + Len(part) =< Len(all) /\ Len(part) - p + 1 >= HEADER_LENGTH
    BY Sizes DEF HasHeader, Within
<1>2. p \in 1 .. Len(part) /\ k + p \in 1 .. Len(all) /\ Len(all) - (k + p) + 1 >= HEADER_LENGTH
    BY <1>1
<1>3. /\ p + 1 \in Int /\ p + N \in Int /\ p + 1 >= 1 /\ p + N =< Len(part)
      /\ k + (p + 1) = k + p + 1 /\ k + (p + N) = k + p + N
    BY <1>1
<1>4. PayloadLength(all, k + p) = PayloadLength(part, p)
    <2>1. EqualCut(part, all, k, p + 1, p + N)
        BY <1>3, EqualParts, Zenon
    <2>2. QED
        BY <1>3, <2>1, Zenon DEF EqualCut, PayloadLength
<1>5. PayloadLength(part, p) \in Nat
    BY <1>2, LengthIsNat
<1>6. all[k + p] = part[p]
    BY <1>2 DEF Within
<1>7. QED
    BY <1>2, <1>4, <1>5, <1>6 DEF HasHeader, Accepted

\* So is a frame.
LEMMA FrameWithin ==
    ASSUME NEW part \in Seq(Byte), NEW all \in Seq(Byte), NEW k, Within(part, all, k),
           NEW p \in 1 .. Len(part) + 1, HasFrame(part, p)
    PROVE  /\ HasFrame(all, k + p)
           /\ FrameAt(all, k + p) = FrameAt(part, p)
           /\ AfterFrame(all, k + p) = k + AfterFrame(part, p)
<1> DEFINE n == PayloadLength(part, p)
<1>1. /\ p \in 1 .. Len(part) /\ HasHeader(all, k + p) /\ n \in Nat
      /\ PayloadLength(all, k + p) = n /\ all[k + p] = part[p]
    BY HeaderWithin DEF HasFrame
<1>2. /\ HEADER_LENGTH \in Nat \ {0} /\ Len(part) \in Nat /\ Len(all) \in Nat
      /\ k \in Nat /\ k + Len(part) =< Len(all) /\ Len(part) - p + 1 >= HEADER_LENGTH + n
    BY Sizes DEF HasFrame, Within
<1> HIDE DEF n
<1>3. /\ Len(all) - (k + p) + 1 >= HEADER_LENGTH + n
      /\ k + p + HEADER_LENGTH = k + (p + HEADER_LENGTH)
      /\ k + p + HEADER_LENGTH + n - 1 = k + (p + HEADER_LENGTH + n - 1)
      /\ k + p + HEADER_LENGTH + n = k + (p + HEADER_LENGTH + n)
      /\ p + HEADER_LENGTH \in Int /\ p + HEADER_LENGTH + n - 1 \in Int
      /\ p + HEADER_LENGTH >= 1 /\ p + HEADER_LENGTH + n - 1 =< Len(part)
    BY <1>1, <1>2
<1>4. SubSeq(all, k + p + HEADER_LENGTH, k + p + HEADER_LENGTH + n - 1)
         = SubSeq(part, p + HEADER_LENGTH, p + HEADER_LENGTH + n - 1)
    <2>1. EqualCut(part, all, k, p + HEADER_LENGTH, p + HEADER_LENGTH + n - 1)
        BY <1>3, EqualParts, Zenon
    <2>2. QED
        BY <1>3, <2>1, Zenon DEF EqualCut
<1>5. QED
    BY <1>1, <1>3, <1>4 DEF HasFrame, FrameAt, AfterFrame, n

\* A whole frame ends inside the bytes, and what decode() takes for its payload
\* are bytes, as many as the header states.
LEMMA FrameBounds ==
    ASSUME NEW bytes \in Seq(Byte), NEW p \in 1 .. Len(bytes) + 1, HasFrame(bytes, p)
    PROVE  /\ p \in 1 .. Len(bytes)
           /\ AfterFrame(bytes, p) \in p + 1 .. Len(bytes) + 1
           /\ FrameAt(bytes, p).command = bytes[p]
           /\ FrameAt(bytes, p).payload \in Seq(Byte)
           /\ Accepted(bytes, p) => FrameAt(bytes, p) \in [command : Inbound, payload : Seq(Byte)]
<1> DEFINE n == PayloadLength(bytes, p)
           payload == SubSeq(bytes, p + HEADER_LENGTH, p + HEADER_LENGTH + n - 1)
<1>1. n \in Nat
    BY LengthIsNat DEF HasFrame
<1>2. FrameAt(bytes, p) = [command |-> bytes[p], payload |-> payload]
    BY DEF FrameAt
<1>3. AfterFrame(bytes, p) = p + HEADER_LENGTH + n /\ Len(bytes) - p + 1 >= HEADER_LENGTH + n
    BY DEF AfterFrame, HasFrame
<1> HIDE DEF n
<1>4. HEADER_LENGTH \in Nat \ {0} /\ Len(bytes) \in Nat
    BY Sizes
<1>5. /\ p + HEADER_LENGTH \in Int /\ p + HEADER_LENGTH >= 1
      /\ p + HEADER_LENGTH + n - 1 \in Int /\ p + HEADER_LENGTH + n - 1 =< Len(bytes)
      /\ p \in 1 .. Len(bytes) /\ AfterFrame(bytes, p) \in p + 1 .. Len(bytes) + 1
    BY <1>1, <1>3, <1>4
<1>6. payload \in Seq(Byte)
    BY <1>5, PartOfBytes
<1> HIDE DEF payload
<1>7. QED
    BY <1>2, <1>5, <1>6 DEF Accepted

-----------------------------------------------------------------------------
(* The meaning of a byte string. *)

Frame == [command : Inbound, payload : Seq(Byte)]
Outcome == [frames : Seq(Frame), failed : BOOLEAN]
Stopped(why) == [frames |-> <<>>, failed |-> why]
Prefixed(fs, outcome) == [frames |-> fs \o outcome.frames, failed |-> outcome.failed]

\* One unfolding of MeaningFrom, with f for the positions behind p.
MeaningStep(bytes, f, p) ==
    IF ~HasHeader(bytes, p) THEN Stopped(FALSE)
    ELSE IF ~Accepted(bytes, p) THEN f[p + 1]
    ELSE IF ~HasFrame(bytes, p) THEN Stopped(FALSE)
    ELSE IF FrameAt(bytes, p) \in Malformed THEN Stopped(TRUE)
    ELSE Prefixed(<<FrameAt(bytes, p)>>, f[AfterFrame(bytes, p)])

\* Outcomes are closed under what MeaningStep makes of them.
LEMMA OutcomesClosed ==
    /\ \A why \in BOOLEAN : Stopped(why) \in Outcome
    /\ \A fs \in Seq(Frame), outcome \in Outcome : Prefixed(fs, outcome) \in Outcome
<1>1. <<>> \in Seq(Frame)
    BY EmptySeq
<1>2. ASSUME NEW fs \in Seq(Frame), NEW outcome \in Outcome PROVE Prefixed(fs, outcome) \in Outcome
    <2>1. outcome.frames \in Seq(Frame) /\ outcome.failed \in BOOLEAN
        BY DEF Outcome
    <2>2. fs \o outcome.frames \in Seq(Frame)
        <3> HIDE DEF Frame
        <3>1. QED
            BY <2>1, ConcatProperties
    <2>3. QED
        BY <2>1, <2>2 DEF Outcome, Prefixed
<1>3. QED
    BY <1>1, <1>2 DEF Outcome, Stopped

\* MeaningStep looks at later positions only.
LEMMA StepLooksBehind ==
    ASSUME NEW bytes \in Seq(Byte), NEW p \in 1 .. Len(bytes) + 1, NEW f
    PROVE  /\ (\A q \in p + 1 .. Len(bytes) + 1 : f[q] \in Outcome) => MeaningStep(bytes, f, p) \in Outcome
           /\ \A g : (\A q \in p + 1 .. Len(bytes) + 1 : f[q] = g[q])
                         => MeaningStep(bytes, f, p) = MeaningStep(bytes, g, p)
<1>1. CASE ~HasHeader(bytes, p)
    BY <1>1, OutcomesClosed DEF MeaningStep
<1>2. CASE HasHeader(bytes, p) /\ ~Accepted(bytes, p)
    <2>1. p + 1 \in p + 1 .. Len(bytes) + 1
        BY <1>2, Sizes DEF HasHeader
    <2>2. QED
        BY <1>2, <2>1, Zenon DEF MeaningStep
<1>3. CASE HasHeader(bytes, p) /\ Accepted(bytes, p) /\ ~HasFrame(bytes, p)
    BY <1>3, OutcomesClosed DEF MeaningStep
<1>4. CASE HasFrame(bytes, p) /\ Accepted(bytes, p)
    <2>1. AfterFrame(bytes, p) \in p + 1 .. Len(bytes) + 1 /\ FrameAt(bytes, p) \in Frame
        BY <1>4, FrameBounds DEF Frame
    <2>2. <<FrameAt(bytes, p)>> \in Seq(Frame)
        <3> HIDE DEF Frame
        <3>1. QED
            BY <2>1
    <2>3. HasHeader(bytes, p)
        BY <1>4 DEF HasFrame
    <2>4. MeaningStep(bytes, f, p) = IF FrameAt(bytes, p) \in Malformed THEN Stopped(TRUE)
              ELSE Prefixed(<<FrameAt(bytes, p)>>, f[AfterFrame(bytes, p)])
        BY <1>4, <2>3, Zenon DEF MeaningStep
    <2>5. ASSUME NEW g
          PROVE  MeaningStep(bytes, g, p) = IF FrameAt(bytes, p) \in Malformed THEN Stopped(TRUE)
              ELSE Prefixed(<<FrameAt(bytes, p)>>, g[AfterFrame(bytes, p)])
        BY <1>4, <2>3, Zenon DEF MeaningStep
    <2>6. QED
        BY <2>1, <2>2, <2>4, <2>5, OutcomesClosed
<1>5. QED
    BY <1>1, <1>2, <1>3, <1>4 DEF HasFrame

\* g solves the equation of MeaningFrom for the last k positions and the end.
Solves(bytes, g, k) ==
    /\ g \in [Len(bytes) + 1 - k .. Len(bytes) + 1 -> Outcome]
    /\ \A q \in Len(bytes) + 1 - k .. Len(bytes) + 1 : g[q] = MeaningStep(bytes, g, q)

\* The equation of MeaningFrom has a solution: each position is read from the
\* ones behind it, and none is behind the last.
LEMMA MeaningExists ==
    ASSUME NEW bytes \in Seq(Byte)
    PROVE  \E g : Solves(bytes, g, Len(bytes))
<1> DEFINE L == Len(bytes)
           P == {k \in Nat : k =< L => \E g : Solves(bytes, g, k)}
<1>1. L \in Nat
    OBVIOUS
<1>2. 0 \in P
    <2> DEFINE g == [q \in L + 1 - 0 .. L + 1 |-> Stopped(FALSE)]
    <2>1. \A q \in L + 1 - 0 .. L + 1 : q = L + 1 /\ ~HasHeader(bytes, q)
        BY <1>1, Sizes DEF HasHeader
    <2>2. \A q \in L + 1 - 0 .. L + 1 : MeaningStep(bytes, g, q) = Stopped(FALSE)
        BY <2>1, Zenon DEF MeaningStep
    <2>3. g \in [L + 1 - 0 .. L + 1 -> Outcome]
        BY OutcomesClosed
    <2>4. \A q \in L + 1 - 0 .. L + 1 : g[q] = Stopped(FALSE)
        OBVIOUS
    <2> HIDE DEF g
    <2>5. Solves(bytes, g, 0)
        BY <2>2, <2>3, <2>4, Zenon DEF Solves
    <2>6. QED
        BY <2>5
<1>3. ASSUME NEW k \in Nat, k \in P PROVE k + 1 \in P
    <2> SUFFICES ASSUME k + 1 =< L PROVE \E h : Solves(bytes, h, k + 1)
        OBVIOUS
    <2>1. PICK g : Solves(bytes, g, k)
        BY <1>1, <1>3
    <2> DEFINE p == L + 1 - (k + 1)
               v == MeaningStep(bytes, g, p)
               h == [q \in p .. L + 1 |-> IF q = p THEN v ELSE g[q]]
    <2>2. /\ p \in 1 .. L + 1 /\ p + 1 = L + 1 - k
          /\ \A q \in p .. L + 1 : q = p \/ q \in p + 1 .. L + 1
          /\ \A q \in p + 1 .. L + 1 : q # p /\ q \in p .. L + 1 /\ q \in 1 .. L + 1
          /\ p \in p .. L + 1
          /\ \A q \in p + 1 .. L + 1 : \A r \in q + 1 .. L + 1 : r \in p + 1 .. L + 1
        BY <1>1
    <2> HIDE DEF p
    <2>3. \A q \in p + 1 .. L + 1 : g[q] \in Outcome /\ g[q] = MeaningStep(bytes, g, q)
        BY <2>1, <2>2 DEF Solves
    <2>4. v \in Outcome
        BY <2>2, <2>3, StepLooksBehind
    <2> HIDE DEF v
    <2>5. h[p] = v /\ \A q \in p + 1 .. L + 1 : h[q] = g[q]
        BY <2>2
    <2>6. h \in [p .. L + 1 -> Outcome]
        BY <2>2, <2>3, <2>4
    <2> HIDE DEF h
    <2>7. ASSUME NEW q \in p .. L + 1 PROVE h[q] = MeaningStep(bytes, h, q)
        <3>1. CASE q = p
            <4>1. MeaningStep(bytes, g, p) = MeaningStep(bytes, h, p)
                BY <2>2, <2>5, StepLooksBehind
            <4>2. QED
                BY <2>5, <3>1, <4>1 DEF v
        <3>2. CASE q \in p + 1 .. L + 1
            <4>1. q \in 1 .. L + 1 /\ \A r \in q + 1 .. L + 1 : g[r] = h[r]
                BY <2>2, <2>5, <3>2, Zenon
            <4>2. MeaningStep(bytes, g, q) = MeaningStep(bytes, h, q)
                BY <4>1, StepLooksBehind
            <4>3. QED
                BY <2>3, <2>5, <3>2, <4>2
        <3>3. QED
            BY <2>2, <3>1, <3>2
    <2>8. Solves(bytes, h, k + 1)
        BY <2>6, <2>7 DEF Solves, p
    <2>9. QED
        BY <2>8
<1>4. L \in P
    <2> HIDE DEF P
    <2>1. QED
        BY <1>1, <1>2, <1>3, SetInduction
<1>5. QED
    BY <1>1, <1>4

\* MeaningFrom satisfies its equation.
LEMMA MeaningUnfolds ==
    ASSUME NEW bytes \in Seq(Byte), NEW p \in 1 .. Len(bytes) + 1
    PROVE  MeaningFrom(bytes)[p] = MeaningStep(bytes, MeaningFrom(bytes), p)
<1> DEFINE f == MeaningFrom(bytes)
<1>1. PICK g : Solves(bytes, g, Len(bytes))
    BY MeaningExists
<1>2. g = [q \in 1 .. Len(bytes) + 1 |-> MeaningStep(bytes, g, q)]
    <2>1. Len(bytes) + 1 - Len(bytes) = 1
        OBVIOUS
    <2>2. g \in [1 .. Len(bytes) + 1 -> Outcome] /\ \A q \in 1 .. Len(bytes) + 1 : g[q] = MeaningStep(bytes, g, q)
        BY <1>1, <2>1, Zenon DEF Solves
    <2>3. QED
        BY <2>2
<1>3. f = [q \in 1 .. Len(bytes) + 1 |-> MeaningStep(bytes, f, q)]
    BY <1>2, Zenon DEF MeaningFrom, MeaningStep, Stopped, Prefixed
<1> HIDE DEF f
<1>4. QED
    BY <1>3, Zenon DEF f

\* What bytes mean is an outcome.
LEMMA MeaningTyped ==
    ASSUME NEW bytes \in Seq(Byte), NEW p \in 1 .. Len(bytes) + 1
    PROVE  MeaningFrom(bytes)[p] \in Outcome
<1> DEFINE L == Len(bytes)
           f == MeaningFrom(bytes)
           P == {k \in Nat : k =< L + 1 => \A q \in L + 2 - k .. L + 1 : f[q] \in Outcome}
<1>1. L \in Nat
    OBVIOUS
<1>2. 0 \in P
    BY <1>1
<1>3. ASSUME NEW k \in Nat, k \in P PROVE k + 1 \in P
    <2> SUFFICES ASSUME k + 1 =< L + 1, NEW q \in L + 2 - (k + 1) .. L + 1 PROVE f[q] \in Outcome
        OBVIOUS
    <2>1. /\ q \in 1 .. L + 1 /\ \A r \in q + 1 .. L + 1 : r \in L + 2 - k .. L + 1
          /\ k =< L + 1
        BY <1>1
    <2>2. \A r \in q + 1 .. L + 1 : f[r] \in Outcome
        BY <1>3, <2>1
    <2> HIDE DEF f
    <2>3. MeaningStep(bytes, f, q) \in Outcome
        BY <2>1, <2>2, StepLooksBehind
    <2>4. QED
        BY <2>1, <2>3, MeaningUnfolds DEF f
<1>4. L + 1 \in P
    <2> HIDE DEF P
    <2>1. QED
        BY <1>1, <1>2, <1>3, SetInduction
<1>5. QED
    BY <1>1, <1>4

\* The cases of MeaningFrom.
LEMMA MeaningCases ==
    ASSUME NEW bytes \in Seq(Byte), NEW p \in 1 .. Len(bytes) + 1
    PROVE  LET f == MeaningFrom(bytes)
           IN  /\ ~HasHeader(bytes, p) => f[p] = Stopped(FALSE)
               /\ HasHeader(bytes, p) /\ ~Accepted(bytes, p) => f[p] = f[p + 1]
               /\ HasHeader(bytes, p) /\ Accepted(bytes, p) /\ ~HasFrame(bytes, p) => f[p] = Stopped(FALSE)
               /\ Accepted(bytes, p) /\ HasFrame(bytes, p) =>
                     f[p] = IF FrameAt(bytes, p) \in Malformed THEN Stopped(TRUE)
                            ELSE Prefixed(<<FrameAt(bytes, p)>>, f[AfterFrame(bytes, p)])
<1> DEFINE f == MeaningFrom(bytes)
<1>1. f[p] = MeaningStep(bytes, f, p)
    BY MeaningUnfolds
<1>2. HasFrame(bytes, p) => HasHeader(bytes, p)
    BY DEF HasFrame
<1> HIDE DEF f
<1>3. QED
    BY <1>1, <1>2, Zenon DEF f, MeaningStep

\* No accepted header is at the positions from p up to q.
NoHeaders(bytes, p, q) == \A r \in p .. q - 1 : HasHeader(bytes, r) => ~Accepted(bytes, r)

\* Such positions are passed over.
LEMMA SkippedBytes ==
    ASSUME NEW bytes \in Seq(Byte), NEW p \in 1 .. Len(bytes) + 1, NEW q \in p .. Len(bytes) + 1,
           NoHeaders(bytes, p, q)
    PROVE  MeaningFrom(bytes)[p] = MeaningFrom(bytes)[q]
<1> DEFINE f == MeaningFrom(bytes)
           P == {k \in Nat : q - k >= p => f[q - k] = f[q]}
<1>1. Len(bytes) \in Nat /\ p \in Nat /\ q \in Nat /\ p >= 1 /\ q =< Len(bytes) + 1 /\ p =< q
    OBVIOUS
<1>2. 0 \in P
    BY <1>1
<1>3. ASSUME NEW k \in Nat, k \in P PROVE k + 1 \in P
    <2> SUFFICES ASSUME q - (k + 1) >= p PROVE f[q - (k + 1)] = f[q]
        OBVIOUS
    <2> DEFINE r == q - (k + 1)
    <2>1. r \in p .. q - 1 /\ r + 1 = q - k /\ q - k >= p /\ r \in 1 .. Len(bytes) + 1
        BY <1>1
    <2>2. f[r + 1] = f[q]
        BY <1>3, <2>1
    <2> HIDE DEF r
    <2>3. CASE HasHeader(bytes, r)
        BY <2>1, <2>2, <2>3, MeaningCases DEF NoHeaders, r
    <2>4. CASE ~HasHeader(bytes, r)
        <3>1. ~HasHeader(bytes, q) /\ q \in 1 .. Len(bytes) + 1
            BY <1>1, <2>1, <2>4, Sizes DEF HasHeader
        <3>2. QED
            BY <2>1, <2>4, <3>1, MeaningCases DEF r
    <2>5. QED
        BY <2>3, <2>4 DEF r
<1>4. q - p \in P
    <2> HIDE DEF P
    <2>1. q - p \in Nat
        BY <1>1
    <2>2. QED
        BY <1>2, <1>3, <2>1, SetInduction
<1>5. q - (q - p) = p
    BY <1>1
<1>6. QED
    BY <1>1, <1>4, <1>5

-----------------------------------------------------------------------------
(* decode() on a buffer that holds a part of the stream. *)

\* The loop of decode() stops at the first position of the buffer, or behind it,
\* where no header is left or an accepted one is.
LEMMA ResyncStops ==
    ASSUME NEW bytes \in Seq(Byte)
    PROVE  /\ Resync(bytes) \in 1 .. Len(bytes) + 1
           /\ ~HasHeader(bytes, Resync(bytes)) \/ Accepted(bytes, Resync(bytes))
           /\ \A r \in 1 .. Resync(bytes) - 1 : HasHeader(bytes, r) /\ ~Accepted(bytes, r)
<1> DEFINE S == {p \in 1 .. Len(bytes) + 1 : ~HasHeader(bytes, p) \/ Accepted(bytes, p)}
<1>1. Len(bytes) + 1 \in S
    BY Sizes DEF HasHeader
<1>2. S \in SUBSET Nat
    OBVIOUS
<1>3. PICK x \in S : \A y \in S : x =< y
    <2> HIDE DEF S
    <2>1. QED
        BY <1>1, <1>2, LeastNat
<1>4. ASSUME NEW r \in 1 .. x - 1 PROVE HasHeader(bytes, r) /\ ~Accepted(bytes, r)
    <2>1. r \in 1 .. Len(bytes) + 1 /\ ~(x =< r)
        BY <1>3
    <2>2. QED
        BY <1>3, <2>1
<1>5. \E p \in 1 .. Len(bytes) + 1 :
          /\ ~HasHeader(bytes, p) \/ Accepted(bytes, p)
          /\ \A r \in 1 .. p - 1 : HasHeader(bytes, r) /\ ~Accepted(bytes, r)
    BY <1>3, <1>4
<1>6. QED
    BY <1>5 DEF Resync

\* The buffer gives decode() no frame and no byte to drop.
Waits(bytes) ==
    /\ HasHeader(bytes, 1) => Accepted(bytes, 1)
    /\ ~HasFrame(bytes, 1)

\* The bytes that decode() drops mean nothing.
LEMMA ResyncSkips ==
    ASSUME NEW bytes \in Seq(Byte), NEW all \in Seq(Byte), NEW k, Within(bytes, all, k)
    PROVE  MeaningFrom(all)[k + 1] = MeaningFrom(all)[k + Resync(bytes)]
<1> DEFINE p == Resync(bytes)
<1>1. p \in 1 .. Len(bytes) + 1 /\ \A r \in 1 .. p - 1 : HasHeader(bytes, r) /\ ~Accepted(bytes, r)
    BY ResyncStops
<1> HIDE DEF p
<1>2. k \in Nat /\ k + Len(bytes) =< Len(all) /\ Len(bytes) \in Nat /\ Len(all) \in Nat
    BY DEF Within
<1>3. k + 1 \in 1 .. Len(all) + 1 /\ k + p \in k + 1 .. Len(all) + 1
    BY <1>1, <1>2
<1>4. ASSUME NEW r \in k + 1 .. (k + p) - 1 PROVE HasHeader(all, r) => ~Accepted(all, r)
    <2>1. r - k \in 1 .. p - 1 /\ r - k \in 1 .. Len(bytes) + 1 /\ k + (r - k) = r
        BY <1>1, <1>2
    <2>2. Accepted(all, k + (r - k)) <=> Accepted(bytes, r - k)
        BY <1>1, <2>1, HeaderWithin
    <2>3. QED
        BY <1>1, <2>1, <2>2
<1>5. NoHeaders(all, k + 1, k + p)
    BY <1>4 DEF NoHeaders
<1>6. QED
    BY <1>3, <1>5, SkippedBytes DEF p

\* A whole frame in the buffer is what the stream means there.
LEMMA FrameStep ==
    ASSUME NEW bytes \in Seq(Byte), NEW all \in Seq(Byte), NEW k, Within(bytes, all, k),
           HasFrame(bytes, Resync(bytes))
    PROVE  LET p == Resync(bytes)
           IN  MeaningFrom(all)[k + 1] =
                  IF FrameAt(bytes, p) \in Malformed THEN Stopped(TRUE)
                  ELSE Prefixed(<<FrameAt(bytes, p)>>, MeaningFrom(all)[k + AfterFrame(bytes, p)])
<1> DEFINE p == Resync(bytes)
<1>1. p \in 1 .. Len(bytes) + 1 /\ Accepted(bytes, p) /\ HasHeader(bytes, p)
    BY ResyncStops DEF HasFrame
<1>2. MeaningFrom(all)[k + 1] = MeaningFrom(all)[k + p]
    BY ResyncSkips
<1>3. HasFrame(bytes, p)
    OBVIOUS
<1> HIDE DEF p
<1>4. k + p \in 1 .. Len(all) + 1 /\ Accepted(all, k + p)
    BY <1>1, HeaderWithin
<1>5. /\ HasFrame(all, k + p) /\ FrameAt(all, k + p) = FrameAt(bytes, p)
      /\ AfterFrame(all, k + p) = k + AfterFrame(bytes, p)
    BY <1>1, <1>3, FrameWithin
<1>6. MeaningFrom(all)[k + p] = IF FrameAt(all, k + p) \in Malformed THEN Stopped(TRUE)
          ELSE Prefixed(<<FrameAt(all, k + p)>>, MeaningFrom(all)[AfterFrame(all, k + p)])
    BY <1>4, <1>5, MeaningCases
<1>7. QED
    BY <1>2, <1>5, <1>6, Zenon DEF p

\* The end of a byte string.
LEMMA EndWithin ==
    ASSUME NEW bytes \in Seq(Byte), NEW p \in 1 .. Len(bytes) + 1
    PROVE  /\ From(bytes, p) \in Seq(Byte)
           /\ Len(From(bytes, p)) = Len(bytes) - p + 1
           /\ Within(From(bytes, p), bytes, p - 1)
<1>1. /\ p \in Int /\ Len(bytes) \in Nat /\ p >= 1 /\ Len(bytes) =< Len(bytes)
      /\ (p =< Len(bytes) \/ Len(bytes) - p + 1 = 0)
    OBVIOUS
<1>2. /\ From(bytes, p) \in Seq(Byte)
      /\ Len(From(bytes, p)) = Len(bytes) - p + 1
      /\ \A i \in 1 .. Len(bytes) - p + 1 : From(bytes, p)[i] = bytes[p + i - 1]
    BY <1>1, PartOfBytes DEF From
<1>3. \A i \in 1 .. Len(bytes) - p + 1 : bytes[p - 1 + i] = From(bytes, p)[i]
    <2> TAKE i \in 1 .. Len(bytes) - p + 1
    <2>1. p - 1 + i = p + i - 1
        BY <1>1
    <2>2. QED
        BY <1>2, <2>1
<1>4. QED
    BY <1>1, <1>2, <1>3 DEF Within

\* Without a frame, decode() leaves a buffer that waits.
LEMMA NoneWaits ==
    ASSUME NEW bytes \in Seq(Byte), ~HasFrame(bytes, Resync(bytes))
    PROVE  Waits(From(bytes, Resync(bytes)))
<1> DEFINE p == Resync(bytes)
           rest == From(bytes, p)
<1>1. p \in 1 .. Len(bytes) + 1 /\ (~HasHeader(bytes, p) \/ Accepted(bytes, p)) /\ ~HasFrame(bytes, p)
    BY ResyncStops
<1> HIDE DEF p
<1>2. rest \in Seq(Byte) /\ Within(rest, bytes, p - 1) /\ 1 \in 1 .. Len(rest) + 1 /\ p - 1 + 1 = p
    BY <1>1, EndWithin
<1> HIDE DEF rest
<1>3. ASSUME HasHeader(rest, 1) PROVE Accepted(rest, 1)
    <2>1. HasHeader(bytes, p - 1 + 1) /\ (Accepted(bytes, p - 1 + 1) <=> Accepted(rest, 1))
        BY <1>2, <1>3, HeaderWithin
    <2>2. QED
        BY <1>1, <1>2, <2>1
<1>4. ASSUME HasFrame(rest, 1) PROVE FALSE
    <2>1. HasFrame(bytes, p - 1 + 1)
        BY <1>2, <1>4, FrameWithin
    <2>2. QED
        BY <1>1, <1>2, <2>1
<1>5. QED
    BY <1>3, <1>4 DEF Waits, rest, p

\* A waiting buffer at the end of the stream means nothing more.
LEMMA WaitingEnd ==
    ASSUME NEW bytes \in Seq(Byte), NEW all \in Seq(Byte), NEW k, Within(bytes, all, k),
           k + Len(bytes) = Len(all), Waits(bytes)
    PROVE  MeaningFrom(all)[k + 1] = Stopped(FALSE)
<1>1. /\ k \in Nat /\ Len(bytes) \in Nat /\ Len(all) \in Nat /\ k + 1 \in 1 .. Len(all) + 1
      /\ Len(all) - (k + 1) + 1 = Len(bytes) - 1 + 1
    BY DEF Within
<1>2. HasHeader(all, k + 1) <=> HasHeader(bytes, 1)
    BY <1>1 DEF HasHeader
<1>3. CASE HasHeader(bytes, 1)
    <2>1. /\ Accepted(bytes, 1) /\ 1 \in 1 .. Len(bytes) + 1 /\ ~HasFrame(bytes, 1)
        BY <1>1, <1>3 DEF Waits
    <2>2. Accepted(all, k + 1) /\ PayloadLength(all, k + 1) = PayloadLength(bytes, 1)
        BY <1>3, <2>1, HeaderWithin
    <2>3. ~HasFrame(all, k + 1)
        BY <1>1, <1>2, <2>1, <2>2 DEF HasFrame
    <2>4. QED
        BY <1>1, <1>2, <1>3, <2>2, <2>3, MeaningCases
<1>4. CASE ~HasHeader(bytes, 1)
    BY <1>1, <1>2, <1>4, MeaningCases
<1>5. QED
    BY <1>3, <1>4

=============================================================================
