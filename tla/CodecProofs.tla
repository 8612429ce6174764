----------------------------- MODULE CodecProofs -----------------------------
(***************************************************************************)
(* Proofs about the codecs, for any number of byte values, any width of    *)
(* the length field, any limit and any messages.                           *)
(***************************************************************************)
EXTENDS CodecLemmas

\* encode() writes bytes: the command, the length and the payload.
LEMMA EncodedBytes ==
    ASSUME NEW m \in Messages
    PROVE  /\ m.command \in Byte /\ m.payload \in Seq(Byte)
           /\ Encoded(m) \in Seq(Byte)
           /\ Len(Encoded(m)) = HEADER_LENGTH + Len(m.payload)
           /\ Encoded(m)[1] = m.command
           /\ Within(put_u32(Len(m.payload)), Encoded(m), 1)
           /\ Within(m.payload, Encoded(m), HEADER_LENGTH)
<1> DEFINE length == put_u32(Len(m.payload))
           c == <<m.command>>
           header == c \o length
<1>1. m.command \in Byte /\ m.payload \in Seq(Byte)
    BY CodecAssumption DEF Byte
<1>2. c \in Seq(Byte) /\ Len(c) = 1 /\ c[1] = m.command
    BY <1>1
<1>3. length \in Seq(Byte) /\ Len(length) = PAYLOAD_LENGTH_BYTES
    BY <1>1, FieldBytes
<1>4. PAYLOAD_LENGTH_BYTES \in Nat \ {0} /\ HEADER_LENGTH = PAYLOAD_LENGTH_BYTES + 1 /\ Len(m.payload) \in Nat
    BY <1>1, Sizes
<1>5. Encoded(m) = header \o m.payload
    BY DEF Encoded
<1> HIDE DEF length, c
<1>6. /\ header \in Seq(Byte) /\ Len(header) = 1 + PAYLOAD_LENGTH_BYTES
      /\ Within(c, header, 0) /\ Within(length, header, 1)
    BY <1>2, <1>3, ConcatWithin
<1>7. Len(header) = HEADER_LENGTH
    BY <1>4, <1>6
<1> HIDE DEF header
<1>8. /\ Encoded(m) \in Seq(Byte) /\ Len(Encoded(m)) = HEADER_LENGTH + Len(m.payload)
      /\ Within(header, Encoded(m), 0) /\ Within(m.payload, Encoded(m), HEADER_LENGTH)
    BY <1>1, <1>5, <1>6, <1>7, ConcatWithin
<1>9. Within(c, Encoded(m), 0 + 0) /\ Within(length, Encoded(m), 0 + 1)
    BY <1>2, <1>3, <1>6, <1>8, WithinWithin
<1>10. Encoded(m)[1] = m.command
    <2>1. 0 + 0 + 1 = 1 /\ 1 \in 1 .. Len(c)
        BY <1>2
    <2>2. Encoded(m)[0 + 0 + 1] = c[1]
        BY <1>9, <2>1 DEF Within
    <2>3. QED
        BY <1>2, <2>1, <2>2
<1>11. QED
    BY <1>1, <1>8, <1>9, <1>10 DEF length

\* What decode() leaves in the buffer: bytes, and less than one frame of the
\* largest size when it finds no whole frame.
LEMMA BufferAfterNone ==
    ASSUME NEW bytes \in Seq(Byte), ~HasFrame(bytes, Resync(bytes))
    PROVE  /\ From(bytes, Resync(bytes)) \in Seq(Byte)
           /\ Len(From(bytes, Resync(bytes))) < HEADER_LENGTH + MAXIMUM_PAYLOAD_BYTES
<1> DEFINE p == Resync(bytes)
<1>1. p \in 1 .. Len(bytes) + 1 /\ (~HasHeader(bytes, p) \/ Accepted(bytes, p)) /\ ~HasFrame(bytes, p)
    BY ResyncStops
<1> HIDE DEF p
<1>2. HEADER_LENGTH \in Nat \ {0} /\ MAXIMUM_PAYLOAD_BYTES \in Nat /\ Len(bytes) \in Nat
    BY Sizes
<1>3. From(bytes, p) \in Seq(Byte) /\ Len(From(bytes, p)) = Len(bytes) - p + 1
    BY <1>1, EndWithin
<1>4. Len(bytes) - p + 1 < HEADER_LENGTH + MAXIMUM_PAYLOAD_BYTES
    <2>1. CASE ~HasHeader(bytes, p)
        BY <1>1, <1>2, <2>1 DEF HasHeader
    <2>2. CASE HasHeader(bytes, p)
        <3>1. PayloadLength(bytes, p) \in Nat /\ PayloadLength(bytes, p) =< MAXIMUM_PAYLOAD_BYTES
            BY <1>1, <2>2, LengthIsNat DEF Accepted
        <3>2. ~(Len(bytes) - p + 1 >= HEADER_LENGTH + PayloadLength(bytes, p))
            BY <1>1, <2>2 DEF HasFrame
        <3>3. QED
            BY <1>1, <1>2, <3>1, <3>2
    <2>3. QED
        BY <2>1, <2>2
<1>5. QED
    BY <1>3, <1>4 DEF p

\* The frame decode() yields has an accepted command and bytes for a payload,
\* and what it leaves in the buffer are bytes.
LEMMA FrameTaken ==
    ASSUME NEW bytes \in Seq(Byte), HasFrame(bytes, Resync(bytes))
    PROVE  LET p == Resync(bytes)
           IN  /\ FrameAt(bytes, p) \in [command : Inbound, payload : Seq(Byte)]
               /\ AfterFrame(bytes, p) \in 1 .. Len(bytes) + 1
               /\ From(bytes, AfterFrame(bytes, p)) \in Seq(Byte)
<1> DEFINE p == Resync(bytes)
<1>1. p \in 1 .. Len(bytes) + 1 /\ Accepted(bytes, p) /\ HasFrame(bytes, p)
    BY ResyncStops DEF HasFrame
<1> HIDE DEF p
<1>2. /\ FrameAt(bytes, p) \in [command : Inbound, payload : Seq(Byte)]
      /\ AfterFrame(bytes, p) \in p + 1 .. Len(bytes) + 1
    BY <1>1, FrameBounds
<1>3. AfterFrame(bytes, p) \in 1 .. Len(bytes) + 1
    BY <1>1, <1>2
<1>4. From(bytes, AfterFrame(bytes, p)) \in Seq(Byte)
    BY <1>3, EndWithin
<1>5. QED
    BY <1>2, <1>3, <1>4 DEF p

\* The stream and FramedRead's state stay within their types; in particular only
\* frames of commands that the decoder's side accepts are yielded.
THEOREM TypeCorrect == Spec => []TypeOK
<1>1. Init => TypeOK
    <2>1. \A S : <<>> \in Seq(S)
        BY EmptySeq
    <2>2. QED
        BY <2>1 DEF Init, TypeOK
<1>2. TypeOK /\ [Next]_vars => TypeOK'
    <2> SUFFICES ASSUME TypeOK, [Next]_vars PROVE TypeOK'
        OBVIOUS
    <2>1. ASSUME NEW m \in Messages, Send(m), UNCHANGED codec PROVE TypeOK'
        <3>1. Encoded(m) \in Seq(Byte)
            BY EncodedBytes
        <3>2. sent' \in Seq([bytes : Seq(Byte), frames : Seq(Messages)])
            BY <2>1, <3>1 DEF Send, TypeOK
        <3>3. in_flight' \in Seq(Byte)
            BY <2>1, <3>1, ConcatProperties DEF Send, TypeOK
        <3>4. QED
            BY <2>1, <3>2, <3>3 DEF Send, TypeOK, Inbound
    <2>2. ASSUME NEW b \in Noise, SendNoise(b), UNCHANGED codec PROVE TypeOK'
        <3>1. b \in Byte
            BY CodecAssumption
        <3>2. sent' \in Seq([bytes : Seq(Byte), frames : Seq(Messages)])
            BY <2>2, <3>1 DEF SendNoise, TypeOK
        <3>3. QED
            BY <2>2, <3>1, <3>2 DEF SendNoise, TypeOK, Inbound
    <2>3. ASSUME NEW n \in 1 .. Len(in_flight), Read(n), UNCHANGED codec PROVE TypeOK'
        <3>1. /\ SubSeq(in_flight, 1, n) \in Seq(Byte)
              /\ SubSeq(in_flight, n + 1, Len(in_flight)) \in Seq(Byte)
            BY PartOfBytes DEF TypeOK
        <3>2. incoming_bytes' \in Seq(Byte)
            BY <2>3, <3>1, ConcatProperties DEF Read, TypeOK
        <3>3. QED
            BY <2>3, <3>1, <3>2 DEF Read, TypeOK, Inbound
    <2>4. ASSUME Close \/ ReadEof, UNCHANGED codec PROVE TypeOK'
        BY <2>4 DEF Close, ReadEof, TypeOK, Inbound
    <2>5. ASSUME DecodeNone, UNCHANGED codec PROVE TypeOK'
        <3>1. incoming_bytes' \in Seq(Byte)
            BY <2>5, BufferAfterNone DEF DecodeNone, TypeOK
        <3>2. status' \in {"open", "end"} \cup CodecError
            BY <2>5 DEF DecodeNone, TypeOK, CodecError
        <3>3. QED
            BY <2>5, <3>1, <3>2 DEF DecodeNone, TypeOK, Inbound
    <2>6. ASSUME DecodeFrame, UNCHANGED codec PROVE TypeOK'
        <3> DEFINE frame == FrameAt(incoming_bytes, Resync(incoming_bytes))
        <3>1. /\ frame \in [command : Inbound, payload : Seq(Byte)]
              /\ incoming_bytes' \in Seq(Byte)
            BY <2>6, FrameTaken DEF DecodeFrame, TypeOK
        <3>2. \/ status' = "Decode" /\ UNCHANGED frames
              \/ frames' = Append(frames, frame) /\ UNCHANGED status
            BY <2>6 DEF DecodeFrame
        <3> HIDE DEF frame
        <3>3. frames' \in Seq([command : Inbound, payload : Seq(Byte)])
            <4> DEFINE Yielded == [command : Inbound, payload : Seq(Byte)]
            <4>1. frames \in Seq(Yielded) /\ frame \in Yielded
                BY <3>1 DEF TypeOK
            <4> HIDE DEF Yielded
            <4>2. frames' \in Seq(Yielded)
                BY <3>2, <4>1, AppendProperties
            <4>3. QED
                BY <4>2 DEF Yielded
        <3>4. status' \in {"open", "end"} \cup CodecError
            BY <3>2 DEF TypeOK, CodecError
        <3>5. QED
            BY <2>6, <3>1, <3>3, <3>4 DEF DecodeFrame, TypeOK, Inbound
    <2>7. CASE UNCHANGED vars
        BY <2>7 DEF vars, TypeOK, Inbound
    <2>8. QED
        BY <2>1, <2>2, <2>3, <2>4, <2>5, <2>6, <2>7 DEF Next, Peer, FramedRead
<1>3. QED
    BY <1>1, <1>2, PTL DEF Spec

\* While FramedRead waits, its buffer is short of one frame of the largest size,
\* whatever the peer sends and however it arrives.
THEOREM BufferIsBounded == Spec => []BufferBounded
<1>1. Init => BufferBounded
    <2>1. MAXIMUM_PAYLOAD_BYTES \in Nat /\ HEADER_LENGTH \in Nat \ {0}
        BY Sizes
    <2>2. QED
        BY <2>1 DEF Init, BufferBounded
<1>2. TypeOK /\ BufferBounded /\ [Next]_vars => BufferBounded'
    <2> SUFFICES ASSUME TypeOK, BufferBounded, [Next]_vars PROVE BufferBounded'
        OBVIOUS
    <2>1. CASE DecodeNone
        BY <2>1, BufferAfterNone DEF DecodeNone, TypeOK, BufferBounded
    <2>2. CASE DecodeFrame \/ ReadEof \/ \E n \in 1 .. Len(in_flight) : Read(n)
        BY <2>2 DEF DecodeFrame, ReadEof, Read, BufferBounded
    <2>3. CASE Peer \/ UNCHANGED vars
        BY <2>3 DEF Peer, Send, SendNoise, Close, vars, BufferBounded
    <2>4. QED
        BY <2>1, <2>2, <2>3 DEF Next, FramedRead
<1>3. QED
    BY <1>1, <1>2, TypeCorrect, PTL DEF Spec

\* Every step of FramedRead leaves it less to do: a read moves bytes on, decode()
\* takes a frame's bytes off the buffer or asks for a read, and the end of the
\* stream is read once.  Hence between two steps of the peer it makes finitely many.
THEOREM ReaderRests == Spec => ReaderComesToRest
<1>1. TypeOK /\ [Next]_vars => [FramedRead => WorkLeft' < WorkLeft]_vars
    <2> SUFFICES ASSUME TypeOK, FramedRead PROVE WorkLeft' < WorkLeft
        OBVIOUS
    <2>1. Len(in_flight) \in Nat /\ Len(incoming_bytes) \in Nat
        BY DEF TypeOK
    <2>2. ASSUME NEW n \in 1 .. Len(in_flight), Read(n) PROVE WorkLeft' < WorkLeft
        <3>1. /\ SubSeq(in_flight, 1, n) \in Seq(Byte)
              /\ SubSeq(in_flight, n + 1, Len(in_flight)) \in Seq(Byte)
              /\ Len(SubSeq(in_flight, 1, n)) = n
              /\ Len(SubSeq(in_flight, n + 1, Len(in_flight))) = Len(in_flight) - n
            BY <2>1 DEF TypeOK
        <3>2. /\ Len(incoming_bytes') = Len(incoming_bytes) + n
              /\ Len(in_flight') = Len(in_flight) - n
            BY <2>2, <3>1, ConcatProperties DEF Read, TypeOK
        <3>3. ~readable /\ readable' /\ eof' = eof
            BY <2>2 DEF Read
        <3>4. QED
            BY <2>1, <3>2, <3>3 DEF WorkLeft
    <2>3. CASE ReadEof
        BY <2>1, <2>3 DEF ReadEof, WorkLeft
    <2>4. CASE DecodeNone
        <3> DEFINE p == Resync(incoming_bytes)
        <3>1. p \in 1 .. Len(incoming_bytes) + 1
            BY ResyncStops DEF TypeOK
        <3>2. /\ incoming_bytes' = From(incoming_bytes, p) /\ readable /\ ~readable'
              /\ eof' = eof /\ in_flight' = in_flight
            BY <2>4 DEF DecodeNone
        <3> HIDE DEF p
        <3>3. Len(incoming_bytes') = Len(incoming_bytes) - p + 1
            BY <3>1, <3>2, EndWithin DEF TypeOK
        <3>4. QED
            BY <2>1, <3>1, <3>2, <3>3 DEF WorkLeft
    <2>5. CASE DecodeFrame
        <3> DEFINE p == Resync(incoming_bytes)
                   q == AfterFrame(incoming_bytes, p)
        <3>1. p \in 1 .. Len(incoming_bytes) + 1 /\ HasFrame(incoming_bytes, p) /\ Accepted(incoming_bytes, p)
            BY <2>5, ResyncStops DEF DecodeFrame, HasFrame, TypeOK
        <3>2. /\ incoming_bytes' = From(incoming_bytes, q)
              /\ readable' = readable /\ eof' = eof /\ in_flight' = in_flight
            BY <2>5 DEF DecodeFrame
        <3> HIDE DEF p
        <3>3. q \in p + 1 .. Len(incoming_bytes) + 1
            BY <3>1, FrameBounds DEF TypeOK
        <3> HIDE DEF q
        <3>4. q \in 2 .. Len(incoming_bytes) + 1
            BY <2>1, <3>1, <3>3
        <3>5. Len(incoming_bytes') = Len(incoming_bytes) - q + 1
            BY <2>1, <3>2, <3>4, EndWithin DEF TypeOK
        <3>6. QED
            BY <2>1, <3>2, <3>4, <3>5 DEF WorkLeft
    <2>6. QED
        BY <2>2, <2>3, <2>4, <2>5 DEF FramedRead
<1>2. QED
    BY <1>1, TypeCorrect, PTL DEF Spec, ReaderComesToRest

-----------------------------------------------------------------------------
(* How the bytes are cut into reads does not matter. *)

\* The bytes that decode() has not taken, and those it has.
Rest == incoming_bytes \o in_flight
Taken == SubSeq(SentBytes, 1, Len(SentBytes) - Len(Rest))

\* The inductive invariant.  Whatever follows what was sent, it means the frames
\* that were yielded and then what the bytes behind the taken ones mean; and a
\* reader that is not about to decode waits.
Split == SentBytes = Taken \o Rest
Accounted ==
    \A more \in Seq(Byte) :
        MeaningFrom(SentBytes \o more)[1] =
            Prefixed(frames, IF status = "Decode" THEN Stopped(TRUE)
                             ELSE MeaningFrom(SentBytes \o more)[Len(Taken) + 1])
Idle ==
    /\ status # "Decode" /\ ~readable => Waits(incoming_bytes)
    /\ eof => closed /\ in_flight = <<>>
    /\ status \in {"end", "Io"} => eof /\ ~readable
ChunkingInv == Split /\ Accounted /\ Idle

\* What was sent are bytes, and sending appends to them.
LEMMA SentBytesGrow ==
    ASSUME TypeOK
    PROVE  /\ SentBytes \in Seq(Byte)
           /\ \A item \in [bytes : Seq(Byte), frames : Seq(Messages)] :
                 sent' = Append(sent, item) => SentBytes' = SentBytes \o item.bytes
<1> DEFINE Item == [bytes : Seq(Byte), frames : Seq(Messages)]
           s == [i \in 1 .. Len(sent) |-> sent[i].bytes]
<1>1. s \in Seq(Seq(Byte)) /\ Len(s) = Len(sent)
    <2>1. Len(sent) \in Nat /\ \A i \in 1 .. Len(sent) : sent[i] \in Item
        <3>1. sent \in Seq(Item)
            BY DEF TypeOK
        <3> HIDE DEF Item
        <3>2. QED
            BY <3>1
    <2>2. \A i \in 1 .. Len(sent) : sent[i].bytes \in Seq(Byte)
        BY <2>1
    <2>3. s \in [1 .. Len(sent) -> Seq(Byte)]
        BY <2>2
    <2>4. s \in Seq(Seq(Byte))
        <3> HIDE DEF s
        <3>1. QED
            BY <2>1, <2>3, IsASeq
    <2>5. QED
        BY <2>1, <2>4
<1>2. SentBytes = FlattenSeq(s)
    BY DEF SentBytes
<1>3. SentBytes \in Seq(Byte)
    <2> HIDE DEF s
    <2>1. QED
        BY <1>1, <1>2, FlattenAppend
<1>4. ASSUME NEW item \in Item, sent' = Append(sent, item)
      PROVE  SentBytes' = SentBytes \o item.bytes
    <2>1. SentBytes' = FlattenSeq([i \in 1 .. Len(sent') |-> sent'[i].bytes])
        BY DEF SentBytes
    <2>2. [i \in 1 .. Len(sent') |-> sent'[i].bytes] = Append(s, item.bytes)
        BY <1>1, <1>4 DEF TypeOK
    <2> HIDE DEF s
    <2>3. QED
        BY <1>1, <1>2, <2>1, <2>2, FlattenAppend
<1>5. QED
    BY <1>3, <1>4

\* A step that leaves the decoder alone leaves the meaning of bytes alone.
LEMMA MeaningStable ==
    ASSUME UNCHANGED codec, NEW more
    PROVE  MeaningFrom(SentBytes \o more)' = MeaningFrom(SentBytes' \o more)
    BY SMT DEF MeaningFrom, Accepted, Inbound

\* The front of a concatenation.
LEMMA CutOff ==
    ASSUME NEW head \in Seq(Byte), NEW tail \in Seq(Byte)
    PROVE  SubSeq(head \o tail, 1, Len(head \o tail) - Len(tail)) = head
<1> DEFINE all == head \o tail
<1>1. all \in Seq(Byte) /\ Len(all) = Len(head) + Len(tail) /\ Within(head, all, 0)
    BY ConcatWithin
<1> HIDE DEF all
<1>2. /\ Len(head) \in Int /\ 1 \in Int /\ 1 >= 1 /\ Len(head) =< Len(head)
      /\ Len(all) - Len(tail) = 0 + Len(head) /\ 0 + 1 = 1
    BY <1>1
<1>3. EqualCut(head, all, 0, 1, Len(head))
    BY <1>1, <1>2, EqualParts
<1>4. SubSeq(head, 1, Len(head)) = head
    BY SubSeqFull
<1>5. QED
    BY <1>2, <1>3, <1>4, Zenon DEF EqualCut, all

\* A step establishes the first two parts of the invariant when the sent bytes
\* are accounted for behind some front of them.
LEMMA AccountedStep ==
    ASSUME UNCHANGED codec, NEW front \in Seq(Byte), Rest' \in Seq(Byte),
           SentBytes' = front \o Rest',
           \A more \in Seq(Byte) :
               MeaningFrom(SentBytes' \o more)[1] =
                   Prefixed(frames', IF status' = "Decode" THEN Stopped(TRUE)
                                     ELSE MeaningFrom(SentBytes' \o more)[Len(front) + 1])
    PROVE  Split' /\ Accounted'
<1>1. Taken' = front
    BY CutOff DEF Taken
<1>2. Split'
    BY <1>1 DEF Split
<1>3. ASSUME NEW more \in Seq(Byte)
      PROVE  MeaningFrom(SentBytes \o more)'[1] =
                 Prefixed(frames', IF status' = "Decode" THEN Stopped(TRUE)
                                   ELSE MeaningFrom(SentBytes \o more)'[Len(Taken') + 1])
    BY <1>1, MeaningStable, Zenon
<1>4. Accounted'
    BY <1>3 DEF Accounted, Prefixed, Stopped
<1>5. QED
    BY <1>2, <1>4

\* The buffer lies behind the taken bytes of the stream, whatever follows it.
LEMMA InStream ==
    ASSUME TypeOK, Split
    PROVE  /\ Taken \in Seq(Byte) /\ Rest \in Seq(Byte) /\ SentBytes \in Seq(Byte)
           /\ \A more \in Seq(Byte) :
                 /\ SentBytes \o more \in Seq(Byte)
                 /\ Within(incoming_bytes, SentBytes \o more, Len(Taken))
                 /\ Len(SentBytes \o more) = Len(Taken) + Len(incoming_bytes) + Len(in_flight \o more)
<1>1. SentBytes \in Seq(Byte) /\ incoming_bytes \in Seq(Byte) /\ in_flight \in Seq(Byte)
    BY SentBytesGrow DEF TypeOK
<1>2. Rest \in Seq(Byte)
    BY <1>1, ConcatWithin DEF Rest
<1>3. Taken \in Seq(Byte)
    <2> DEFINE n == Len(SentBytes) - Len(Rest)
    <2>1. n \in Int /\ n =< Len(SentBytes) /\ 1 \in Int /\ 1 >= 1
        BY <1>1, <1>2
    <2> HIDE DEF n
    <2>2. QED
        BY <1>1, <2>1, PartOfBytes DEF Taken, n
<1>4. ASSUME NEW more \in Seq(Byte)
      PROVE  /\ SentBytes \o more \in Seq(Byte)
             /\ Within(incoming_bytes, SentBytes \o more, Len(Taken))
             /\ Len(SentBytes \o more) = Len(Taken) + Len(incoming_bytes) + Len(in_flight \o more)
    <2> DEFINE late == in_flight \o more
    <2>1. late \in Seq(Byte)
        BY <1>1, ConcatWithin
    <2>2. SentBytes \o more = Taken \o (incoming_bytes \o late)
        <3>1. SentBytes \o more = (Taken \o Rest) \o more
            BY DEF Split
        <3>2. (Taken \o Rest) \o more = Taken \o (Rest \o more)
            BY <1>2, <1>3, ConcatAssociative
        <3>3. Rest \o more = incoming_bytes \o late
            BY <1>1, ConcatAssociative DEF Rest
        <3>4. QED
            BY <3>1, <3>2, <3>3
    <2> HIDE DEF late
    <2>3. /\ Taken \o (incoming_bytes \o late) \in Seq(Byte)
          /\ Len(Taken \o (incoming_bytes \o late)) = Len(Taken) + Len(incoming_bytes) + Len(late)
          /\ Within(incoming_bytes, Taken \o (incoming_bytes \o late), Len(Taken))
        BY <1>1, <1>3, <2>1, MiddleWithin
    <2>4. QED
        BY <2>2, <2>3, Zenon DEF late
<1>5. QED
    BY <1>1, <1>2, <1>3, <1>4

\* Sending appends to what is in flight.
LEMMA SendKeeps ==
    ASSUME TypeOK, ChunkingInv, UNCHANGED codec,
           NEW item \in [bytes : Seq(Byte), frames : Seq(Messages)],
           ~closed, sent' = Append(sent, item), in_flight' = in_flight \o item.bytes,
           UNCHANGED <<closed, incoming_bytes, readable, eof, frames, status>>
    PROVE  ChunkingInv'
<1> DEFINE e == item.bytes
<1>1. e \in Seq(Byte)
    OBVIOUS
<1>2. SentBytes' = SentBytes \o e
    BY SentBytesGrow
<1>3. /\ Taken \in Seq(Byte) /\ Rest \in Seq(Byte) /\ SentBytes \in Seq(Byte)
      /\ incoming_bytes \in Seq(Byte) /\ in_flight \in Seq(Byte)
    BY InStream DEF ChunkingInv, TypeOK
<1>4. Rest' = Rest \o e
    <2>1. Rest' = incoming_bytes \o (in_flight \o e)
        BY DEF Rest
    <2> HIDE DEF e
    <2>2. Associates(incoming_bytes, in_flight, e)
        BY <1>1, <1>3, Associative
    <2>3. QED
        BY <2>1, <2>2, Zenon DEF Rest, Associates
<1> HIDE DEF e
<1>5. Rest' \in Seq(Byte)
    BY <1>1, <1>3, <1>4, ConcatWithin
<1>6. SentBytes' = Taken \o Rest'
    <2>1. Associates(Taken, Rest, e)
        BY <1>1, <1>3, Associative
    <2>2. QED
        BY <1>2, <1>4, <2>1, Zenon DEF ChunkingInv, Split, Associates
<1>7. ASSUME NEW more \in Seq(Byte)
      PROVE  MeaningFrom(SentBytes' \o more)[1] =
                 Prefixed(frames', IF status' = "Decode" THEN Stopped(TRUE)
                                   ELSE MeaningFrom(SentBytes' \o more)[Len(Taken) + 1])
    <2>1. e \o more \in Seq(Byte)
        BY <1>1, ConcatWithin
    <2>2. Associates(SentBytes, e, more)
        BY <1>1, <1>3, Associative
    <2>3. SentBytes' \o more = SentBytes \o (e \o more)
        BY <1>2, <2>2, Zenon DEF Associates
    <2>4. QED
        BY <2>1, <2>3, Zenon DEF ChunkingInv, Accounted
<1>8. Split' /\ Accounted'
    BY <1>3, <1>5, <1>6, <1>7, AccountedStep
<1>9. Idle'
    <2>1. ~eof /\ ~eof' /\ status' = status /\ readable' = readable
        BY DEF ChunkingInv, Idle
    <2>2. Waits(incoming_bytes)' <=> Waits(incoming_bytes)
        BY DEF Waits, Accepted, Inbound
    <2>3. QED
        BY <2>1, <2>2 DEF ChunkingInv, Idle
<1>10. QED
    BY <1>8, <1>9 DEF ChunkingInv

\* A step that only moves bytes into the buffer, or notes the end of the stream.
LEMMA RestKeeps ==
    ASSUME TypeOK, ChunkingInv, UNCHANGED <<codec, sent, frames, status>>, Rest' = Rest
    PROVE  Split' /\ Accounted'
<1>1. SentBytes' = SentBytes
    BY DEF SentBytes
<1>2. Taken \in Seq(Byte) /\ Rest' \in Seq(Byte) /\ SentBytes' = Taken \o Rest'
    BY <1>1, InStream DEF ChunkingInv, Split
<1>3. ASSUME NEW more \in Seq(Byte)
      PROVE  MeaningFrom(SentBytes' \o more)[1] =
                 Prefixed(frames', IF status' = "Decode" THEN Stopped(TRUE)
                                   ELSE MeaningFrom(SentBytes' \o more)[Len(Taken) + 1])
    BY <1>1, Zenon DEF ChunkingInv, Accounted
<1>4. QED
    BY <1>2, <1>3, AccountedStep

\* decode() takes the first bytes off the buffer.
LEMMA Consumed ==
    ASSUME TypeOK, Split, NEW q \in 1 .. Len(incoming_bytes) + 1,
           sent' = sent, in_flight' = in_flight, incoming_bytes' = From(incoming_bytes, q)
    PROVE  \E front \in Seq(Byte) :
              /\ Rest' \in Seq(Byte) /\ SentBytes' = front \o Rest'
              /\ SentBytes' = SentBytes /\ Len(front) + 1 = Len(Taken) + q
<1> DEFINE gone == SubSeq(incoming_bytes, 1, q - 1)
           left == From(incoming_bytes, q)
           front == Taken \o gone
<1>1. /\ incoming_bytes \in Seq(Byte) /\ in_flight \in Seq(Byte) /\ Taken \in Seq(Byte)
      /\ Len(incoming_bytes) \in Nat
    BY InStream DEF TypeOK
<1>2. /\ q - 1 \in Int /\ q - 1 =< Len(incoming_bytes) /\ 1 \in Int /\ 1 >= 1
      /\ (IF 1 =< q - 1 THEN q - 1 - 1 + 1 ELSE 0) = q - 1
    BY <1>1
<1>3. gone \in Seq(Byte) /\ Len(gone) = q - 1
    BY <1>1, <1>2, PartOfBytes
<1>4. left \in Seq(Byte)
    BY <1>1, EndWithin
<1>5. incoming_bytes = gone \o left
    <2>1. /\ 1 \in 1 .. Len(incoming_bytes) + 1 /\ q - 1 \in 1 - 1 .. Len(incoming_bytes)
          /\ Len(incoming_bytes) \in q - 1 .. Len(incoming_bytes) /\ q - 1 + 1 = q
        BY <1>1
    <2>2. SubSeq(incoming_bytes, 1, q - 1) \o SubSeq(incoming_bytes, q - 1 + 1, Len(incoming_bytes))
             = SubSeq(incoming_bytes, 1, Len(incoming_bytes))
        BY <1>1, <2>1, ConcatAdjacentSubSeq
    <2>3. SubSeq(incoming_bytes, 1, Len(incoming_bytes)) = incoming_bytes
        BY <1>1, SubSeqFull
    <2>4. QED
        BY <2>1, <2>2, <2>3, Zenon DEF From
<1> HIDE DEF gone, left
<1>6. front \in Seq(Byte) /\ Len(front) = Len(Taken) + Len(gone)
    BY <1>1, <1>3, ConcatWithin
<1>7. Len(front) + 1 = Len(Taken) + q
    BY <1>1, <1>3, <1>6
<1>8. Rest' = left \o in_flight
    BY DEF Rest, left
<1>9. Rest' \in Seq(Byte)
    BY <1>1, <1>4, <1>8, ConcatWithin
<1>10. SentBytes' = SentBytes
    BY DEF SentBytes
<1>11. SentBytes = front \o Rest'
    <2>1. Associates(gone, left, in_flight) /\ Associates(Taken, gone, Rest')
        BY <1>1, <1>3, <1>4, <1>9, Associative
    <2>2. Rest = gone \o Rest'
        BY <1>5, <1>8, <2>1, Zenon DEF Rest, Associates
    <2>3. QED
        BY <2>1, <2>2, Zenon DEF Split, Associates
<1>12. QED
    BY <1>6, <1>7, <1>9, <1>10, <1>11

\* Prefixing is associative.
LEMMA PrefixedConcat ==
    ASSUME NEW S, NEW fs \in Seq(S), NEW gs \in Seq(S), NEW outcome, outcome.frames \in Seq(S)
    PROVE  Prefixed(fs, Prefixed(gs, outcome)) = Prefixed(fs \o gs, outcome)
<1>1. Associates(fs, gs, outcome.frames)
    BY Associative
<1>2. QED
    BY <1>1 DEF Associates, Prefixed

\* decode() finds no whole frame: the bytes it drops mean nothing.
LEMMA DecodeNoneKeeps ==
    ASSUME TypeOK, ChunkingInv, UNCHANGED codec, DecodeNone
    PROVE  ChunkingInv'
<1> DEFINE p == Resync(incoming_bytes)
<1>1. /\ incoming_bytes \in Seq(Byte) /\ p \in 1 .. Len(incoming_bytes) + 1
    BY ResyncStops DEF TypeOK
<1>2. /\ status = "open" /\ ~HasFrame(incoming_bytes, p) /\ incoming_bytes' = From(incoming_bytes, p)
      /\ readable' = FALSE /\ sent' = sent /\ in_flight' = in_flight /\ closed' = closed /\ eof' = eof
      /\ frames' = frames
      /\ status' # "Decode" /\ (status' \in {"end", "Io"} => eof)
    BY DEF DecodeNone, TypeOK
<1>3. Waits(From(incoming_bytes, p))
    BY <1>1, <1>2, NoneWaits
<1>4. ASSUME NEW more \in Seq(Byte)
      PROVE  MeaningFrom(SentBytes \o more)[Len(Taken) + 1] = MeaningFrom(SentBytes \o more)[Len(Taken) + p]
    <2>1. SentBytes \o more \in Seq(Byte) /\ Within(incoming_bytes, SentBytes \o more, Len(Taken))
        BY InStream DEF ChunkingInv
    <2>2. QED
        BY <1>1, <2>1, ResyncSkips
<1> HIDE DEF p
<1>5. PICK front \in Seq(Byte) :
          /\ Rest' \in Seq(Byte) /\ SentBytes' = front \o Rest'
          /\ SentBytes' = SentBytes /\ Len(front) + 1 = Len(Taken) + p
    BY <1>1, <1>2, Consumed DEF ChunkingInv
<1>6. ASSUME NEW more \in Seq(Byte)
      PROVE  MeaningFrom(SentBytes' \o more)[1] =
                 Prefixed(frames', IF status' = "Decode" THEN Stopped(TRUE)
                                   ELSE MeaningFrom(SentBytes' \o more)[Len(front) + 1])
    <2>1. MeaningFrom(SentBytes \o more)[1] = Prefixed(frames, MeaningFrom(SentBytes \o more)[Len(Taken) + 1])
        BY <1>2 DEF ChunkingInv, Accounted
    <2>2. QED
        BY <1>2, <1>4, <1>5, <2>1, Zenon
<1>7. Split' /\ Accounted'
    BY <1>5, <1>6, AccountedStep
<1>8. Waits(incoming_bytes)'
    <2>1. Waits(incoming_bytes)' <=> Waits(incoming_bytes')
        BY DEF Waits, Accepted, Inbound
    <2>2. QED
        BY <1>2, <1>3, <2>1
<1>9. Idle'
    BY <1>2, <1>8 DEF ChunkingInv, Idle
<1>10. QED
    BY <1>7, <1>9 DEF ChunkingInv

\* decode() takes a frame: it is the next one the bytes mean.
LEMMA DecodeFrameKeeps ==
    ASSUME TypeOK, ChunkingInv, UNCHANGED codec, DecodeFrame
    PROVE  ChunkingInv'
<1> DEFINE p == Resync(incoming_bytes)
           q == AfterFrame(incoming_bytes, p)
           frame == FrameAt(incoming_bytes, p)
           meant(more) == MeaningFrom(SentBytes \o more)
<1>1. /\ incoming_bytes \in Seq(Byte) /\ frames \in Seq(Frame)
    BY DEF TypeOK, Frame
<1>2. /\ status = "open" /\ readable /\ HasFrame(incoming_bytes, p) /\ incoming_bytes' = From(incoming_bytes, q)
      /\ readable' = readable /\ sent' = sent /\ in_flight' = in_flight /\ closed' = closed /\ eof' = eof
      /\ IF frame \in Malformed THEN status' = "Decode" /\ frames' = frames
         ELSE frames' = Append(frames, frame) /\ status' = status
    BY DEF DecodeFrame
<1>3. q \in 1 .. Len(incoming_bytes) + 1 /\ frame \in Frame
    BY <1>1, <1>2, FrameTaken DEF Frame
<1>4. ASSUME NEW more \in Seq(Byte)
      PROVE  /\ SentBytes \o more \in Seq(Byte)
             /\ Len(Taken) + q \in 1 .. Len(SentBytes \o more) + 1
             /\ meant(more)[Len(Taken) + 1] =
                   IF frame \in Malformed THEN Stopped(TRUE)
                   ELSE Prefixed(<<frame>>, meant(more)[Len(Taken) + q])
    <2>1. SentBytes \o more \in Seq(Byte) /\ Within(incoming_bytes, SentBytes \o more, Len(Taken))
        BY InStream DEF ChunkingInv
    <2>2. meant(more)[Len(Taken) + 1] =
              IF frame \in Malformed THEN Stopped(TRUE)
              ELSE Prefixed(<<frame>>, meant(more)[Len(Taken) + q])
        BY <1>1, <1>2, <2>1, FrameStep
    <2> HIDE DEF q
    <2>3. Len(Taken) + q \in 1 .. Len(SentBytes \o more) + 1
        <3> DEFINE all == SentBytes \o more
        <3>1. /\ Len(Taken) \in Nat /\ Len(Taken) + Len(incoming_bytes) =< Len(all)
              /\ Len(incoming_bytes) \in Nat /\ Len(all) \in Nat
            BY <1>1, <2>1 DEF Within
        <3> HIDE DEF all
        <3>2. Len(Taken) + q \in 1 .. Len(all) + 1
            BY <1>3, <3>1
        <3>3. QED
            BY <3>2 DEF all
    <2>4. QED
        BY <2>1, <2>2, <2>3
<1> HIDE DEF p, q, frame
<1>5. PICK front \in Seq(Byte) :
          /\ Rest' \in Seq(Byte) /\ SentBytes' = front \o Rest'
          /\ SentBytes' = SentBytes /\ Len(front) + 1 = Len(Taken) + q
    BY <1>2, <1>3, Consumed DEF ChunkingInv
<1>6. ASSUME NEW more \in Seq(Byte)
      PROVE  MeaningFrom(SentBytes' \o more)[1] =
                 Prefixed(frames', IF status' = "Decode" THEN Stopped(TRUE)
                                   ELSE MeaningFrom(SentBytes' \o more)[Len(front) + 1])
    <2>1. meant(more)[1] = Prefixed(frames, meant(more)[Len(Taken) + 1])
        BY <1>2 DEF ChunkingInv, Accounted
    <2>2. CASE frame \in Malformed
        <3>1. meant(more)[1] = Prefixed(frames, Stopped(TRUE))
            BY <1>4, <2>1, <2>2
        <3>2. QED
            BY <1>2, <1>5, <2>2, <3>1, Zenon
    <2>3. CASE frame \notin Malformed
        <3>1. meant(more)[Len(Taken) + q] \in Outcome
            BY <1>4, MeaningTyped
        <3>2. meant(more)[Len(Taken) + 1] = Prefixed(<<frame>>, meant(more)[Len(Taken) + q])
            BY <1>4, <2>3
        <3> HIDE DEF meant
        <3>3. meant(more)[1] = Prefixed(Append(frames, frame), meant(more)[Len(Taken) + q])
            <4> DEFINE after == meant(more)[Len(Taken) + q]
                       one == <<frame>>
            <4>1. after.frames \in Seq(Frame)
                BY <3>1 DEF Outcome
            <4> HIDE DEF Frame
            <4>2. one \in Seq(Frame) /\ Append(frames, frame) = frames \o one
                BY <1>1, <1>3, AppendIsConcat
            <4> HIDE DEF after, one
            <4>3. Prefixed(frames, Prefixed(one, after)) = Prefixed(frames \o one, after)
                BY <1>1, <4>1, <4>2, PrefixedConcat
            <4>4. QED
                BY <2>1, <3>2, <4>2, <4>3 DEF after, one
        <3>4. status' # "Decode" /\ frames' = Append(frames, frame)
            BY <1>2, <2>3
        <3>5. QED
            BY <1>5, <3>3, <3>4, Zenon DEF meant
    <2>4. QED
        BY <2>2, <2>3
<1>7. Split' /\ Accounted'
    BY <1>5, <1>6, AccountedStep
<1>8. Idle'
    BY <1>2 DEF ChunkingInv, Idle
<1>9. QED
    BY <1>7, <1>8 DEF ChunkingInv

\* Every step keeps the invariant.
LEMMA ChunkingStep ==
    ASSUME TypeOK, ChunkingInv, [Next]_vars
    PROVE  ChunkingInv'
<1> DEFINE Item == [bytes : Seq(Byte), frames : Seq(Messages)]
<1>1. ASSUME NEW m \in Messages, Send(m), UNCHANGED codec PROVE ChunkingInv'
    <2> DEFINE item == [bytes |-> Encoded(m), frames |-> <<m>>]
    <2>1. item \in Item /\ item.bytes = Encoded(m)
        BY EncodedBytes
    <2> HIDE DEF item
    <2>2. QED
        BY <1>1, <2>1, SendKeeps DEF Send, item
<1>2. ASSUME NEW b \in Noise, SendNoise(b), UNCHANGED codec PROVE ChunkingInv'
    <2> DEFINE item == [bytes |-> <<b>>, frames |-> <<>>]
    <2>1. b \in Byte
        BY CodecAssumption
    <2>2. item \in Item /\ item.bytes = <<b>>
        BY <2>1
    <2>3. in_flight' = in_flight \o <<b>>
        BY <1>2, <2>1, AppendIsConcat DEF SendNoise, TypeOK
    <2> HIDE DEF item
    <2>4. QED
        BY <1>2, <2>2, <2>3, SendKeeps DEF SendNoise, item
<1>3. ASSUME NEW n \in 1 .. Len(in_flight), Read(n), UNCHANGED codec PROVE ChunkingInv'
    <2> DEFINE now == SubSeq(in_flight, 1, n)
               late == SubSeq(in_flight, n + 1, Len(in_flight))
    <2>1. incoming_bytes \in Seq(Byte) /\ in_flight \in Seq(Byte)
        BY DEF TypeOK
    <2>2. now \in Seq(Byte) /\ late \in Seq(Byte)
        BY <2>1, PartOfBytes
    <2>3. in_flight = now \o late
        BY <2>1, ConcatAdjacentSubSeq, SubSeqFull
    <2>4. /\ incoming_bytes' = incoming_bytes \o now /\ in_flight' = late
          /\ status = "open" /\ readable' = TRUE
          /\ UNCHANGED <<sent, closed, eof, frames, status>>
        BY <1>3 DEF Read
    <2>5. ~eof
        BY <1>3 DEF ChunkingInv, Idle
    <2> HIDE DEF now, late
    <2>6. Associates(incoming_bytes, now, late)
        BY <2>1, <2>2, Associative
    <2>7. Rest' = Rest
        BY <2>3, <2>4, <2>6, Zenon DEF Rest, Associates
    <2>8. Split' /\ Accounted'
        BY <1>3, <2>4, <2>7, RestKeeps
    <2>9. Idle'
        BY <2>4, <2>5 DEF Idle
    <2>10. QED
        BY <2>8, <2>9 DEF ChunkingInv
<1>4. ASSUME Close \/ ReadEof, UNCHANGED codec PROVE ChunkingInv'
    <2>1. UNCHANGED <<sent, frames, status, incoming_bytes, in_flight>>
        BY <1>4 DEF Close, ReadEof
    <2>2. Rest' = Rest
        BY <2>1 DEF Rest
    <2>3. Split' /\ Accounted'
        BY <1>4, <2>1, <2>2, RestKeeps
    <2>4. Waits(incoming_bytes)' <=> Waits(incoming_bytes)
        BY <1>4, <2>1 DEF Waits, Accepted, Inbound
    <2>5. Idle'
        BY <1>4, <2>1, <2>4 DEF Close, ReadEof, ChunkingInv, Idle
    <2>6. QED
        BY <2>3, <2>5 DEF ChunkingInv
<1>5. CASE UNCHANGED vars
    <2>1. UNCHANGED <<codec, sent, frames, status, incoming_bytes, in_flight, closed, eof, readable>>
        BY <1>5 DEF vars
    <2>2. Rest' = Rest
        BY <2>1 DEF Rest
    <2>3. Split' /\ Accounted'
        BY <2>1, <2>2, RestKeeps
    <2>4. Waits(incoming_bytes)' <=> Waits(incoming_bytes)
        BY <2>1 DEF Waits, Accepted, Inbound
    <2>5. Idle'
        BY <2>1, <2>4 DEF ChunkingInv, Idle
    <2>6. QED
        BY <2>3, <2>5 DEF ChunkingInv
<1>6. QED
    BY <1>1, <1>2, <1>3, <1>4, <1>5, DecodeNoneKeeps, DecodeFrameKeeps DEF Next, Peer, FramedRead

\* The frames of a prefixed outcome.
LEMMA PrefixedFrames ==
    ASSUME NEW fs \in Seq(Frame), NEW outcome \in Outcome
    PROVE  /\ IsPrefix(fs, Prefixed(fs, outcome).frames)
           /\ Prefixed(fs, outcome).failed = outcome.failed
           /\ outcome.frames = <<>> => Prefixed(fs, outcome).frames = fs
           /\ Prefixed(<<>>, outcome) = outcome
<1>1. /\ outcome = [frames |-> outcome.frames, failed |-> outcome.failed]
      /\ outcome.frames \in Seq(Frame)
    BY DEF Outcome
<1> HIDE DEF Frame
<1>2. IsPrefix(fs, fs \o outcome.frames)
    BY <1>1, PrefixOfConcat
<1>3. fs \o <<>> = fs /\ <<>> \o outcome.frames = outcome.frames
    BY <1>1, ConcatEmptySeq
<1>4. QED
    BY <1>1, <1>2, <1>3, Zenon DEF Prefixed

\* Nothing was sent, and nothing means nothing.
LEMMA ChunkingInit == Init => ChunkingInv
<1> SUFFICES ASSUME Init PROVE ChunkingInv
    OBVIOUS
<1>1. /\ incoming_bytes = <<>> /\ in_flight = <<>> /\ sent = <<>> /\ frames = <<>>
      /\ status = "open" /\ ~eof /\ \A S : <<>> \in Seq(S)
    BY EmptySeq DEF Init
<1>2. SentBytes = <<>>
    <2> DEFINE s == [i \in 1 .. Len(sent) |-> sent[i].bytes]
    <2>1. s = <<>>
        BY <1>1
    <2>2. QED
        BY <2>1, FlattenIs, <1>1 DEF SentBytes
<1>3. Rest = <<>>
    BY <1>1, ConcatEmptySeq DEF Rest
<1>4. Taken = <<>>
    BY <1>2, <1>3 DEF Taken
<1>5. Split
    BY <1>1, <1>2, <1>3, <1>4, ConcatEmptySeq DEF Split
<1>6. Accounted
    <2> SUFFICES ASSUME NEW more \in Seq(Byte)
                 PROVE  MeaningFrom(SentBytes \o more)[1] = Prefixed(frames, MeaningFrom(SentBytes \o more)[Len(Taken) + 1])
        BY <1>1 DEF Accounted
    <2>1. SentBytes \o more = more
        BY <1>2, ConcatEmptySeq
    <2>2. Len(Taken) + 1 = 1 /\ 1 \in 1 .. Len(more) + 1
        BY <1>4
    <2>3. MeaningFrom(more)[1] \in Outcome
        BY <2>2, MeaningTyped
    <2>4. Prefixed(<<>>, MeaningFrom(more)[1]) = MeaningFrom(more)[1]
        BY <1>1, <2>3, PrefixedFrames
    <2>5. QED
        BY <1>1, <2>1, <2>2, <2>4
<1>7. Waits(incoming_bytes)
    BY <1>1, Sizes DEF Waits, HasHeader, HasFrame
<1>8. Idle
    BY <1>1, <1>7 DEF Idle
<1>9. QED
    BY <1>5, <1>6, <1>8 DEF ChunkingInv

\* What decode() has yielded is the beginning of what all the bytes mean, and
\* all of it once no byte is left that could be read.
LEMMA ChunkingSuffices ==
    ASSUME TypeOK, ChunkingInv
    PROVE  ChunkingIndependent
<1> DEFINE meant == MeaningFrom(SentBytes)
           rest == IF status = "Decode" THEN Stopped(TRUE) ELSE meant[Len(Taken) + 1]
<1>1. /\ Taken \in Seq(Byte) /\ SentBytes \in Seq(Byte) /\ incoming_bytes \in Seq(Byte)
      /\ in_flight \in Seq(Byte) /\ <<>> \in Seq(Byte) /\ frames \in Seq(Frame)
      /\ SentBytes \o <<>> = SentBytes
    BY InStream, EmptySeq, ConcatEmptySeq DEF ChunkingInv, TypeOK, Frame
<1>2. /\ Within(incoming_bytes, SentBytes, Len(Taken))
      /\ Len(SentBytes) = Len(Taken) + Len(incoming_bytes) + Len(in_flight)
    <2>1. in_flight \o <<>> = in_flight
        BY <1>1, ConcatEmptySeq
    <2>2. /\ Within(incoming_bytes, SentBytes \o <<>>, Len(Taken))
          /\ Len(SentBytes \o <<>>) = Len(Taken) + Len(incoming_bytes) + Len(in_flight \o <<>>)
        BY <1>1, InStream DEF ChunkingInv
    <2>3. QED
        BY <1>1, <2>1, <2>2, Zenon
<1>3. meant[1] = Prefixed(frames, rest)
    <2>1. MeaningFrom(SentBytes \o <<>>)[1] =
              Prefixed(frames, IF status = "Decode" THEN Stopped(TRUE)
                               ELSE MeaningFrom(SentBytes \o <<>>)[Len(Taken) + 1])
        BY <1>1, Zenon DEF ChunkingInv, Accounted
    <2>2. QED
        BY <1>1, <2>1, Zenon
<1>4. rest \in Outcome
    <2>1. Len(Taken) + 1 \in 1 .. Len(SentBytes) + 1
        BY <1>1, <1>2
    <2>2. meant[Len(Taken) + 1] \in Outcome
        BY <1>1, <2>1, MeaningTyped
    <2>3. QED
        BY <2>2, OutcomesClosed
<1>5. ASSUME status # "open" \/ (~readable /\ in_flight = <<>>)
      PROVE  rest.frames = <<>> /\ (rest.failed <=> status = "Decode")
    <2>1. CASE status = "Decode"
        BY <2>1 DEF Stopped
    <2>2. CASE status # "Decode"
        <3>1. Waits(incoming_bytes) /\ in_flight = <<>>
            BY <1>5, <2>2 DEF ChunkingInv, Idle, TypeOK, CodecError
        <3>2. Len(Taken) + Len(incoming_bytes) = Len(SentBytes)
            BY <1>1, <1>2, <3>1
        <3>3. meant[Len(Taken) + 1] = Stopped(FALSE)
            BY <1>1, <1>2, <3>1, <3>2, WaitingEnd
        <3>4. QED
            BY <2>2, <3>3 DEF Stopped
    <2>3. QED
        BY <2>1, <2>2
<1> HIDE DEF rest, meant
<1>6. /\ IsPrefix(frames, meant[1].frames)
      /\ meant[1].failed = rest.failed
      /\ rest.frames = <<>> => meant[1].frames = frames
    BY <1>1, <1>3, <1>4, PrefixedFrames
<1>7. QED
    BY <1>5, <1>6 DEF ChunkingIndependent, Meaning, meant

\* However the bytes of the stream are cut into reads, decode() yields what they
\* mean when read at once, fails exactly if they do, and leaves no whole frame
\* waiting: for every stream of frames and stray bytes.
THEOREM ChunkingDoesNotMatter == Spec => []ChunkingIndependent
<1>1. TypeOK /\ ChunkingInv /\ [Next]_vars => ChunkingInv'
    BY ChunkingStep
<1>2. TypeOK /\ ChunkingInv => ChunkingIndependent
    BY ChunkingSuffices
<1>3. QED
    BY <1>1, <1>2, ChunkingInit, TypeCorrect, PTL DEF Spec

-----------------------------------------------------------------------------
(* What encode() writes, decode() yields. *)

\* The header and the frame that encode() writes for a payload whose length
\* fits the length field.
LEMMA EncodedFrame ==
    ASSUME NEW m \in Messages, Encodable(m)
    PROVE  /\ HasHeader(Encoded(m), 1)
           /\ PayloadLength(Encoded(m), 1) = Len(m.payload)
           /\ HasFrame(Encoded(m), 1)
           /\ FrameAt(Encoded(m), 1) = m
           /\ AfterFrame(Encoded(m), 1) = Len(Encoded(m)) + 1
<1> DEFINE e == Encoded(m)
           n == Len(m.payload)
           field == put_u32(n)
           N == PAYLOAD_LENGTH_BYTES
<1>1. /\ m.command \in Byte /\ m.payload \in Seq(Byte) /\ e \in Seq(Byte) /\ Len(e) = HEADER_LENGTH + n
      /\ e[1] = m.command /\ Within(field, e, 1) /\ Within(m.payload, e, HEADER_LENGTH)
    BY EncodedBytes
<1>2. n \in Nat /\ N \in Nat \ {0} /\ HEADER_LENGTH = N + 1
    BY <1>1, Sizes
<1>3. field \in Seq(Byte) /\ Len(field) = N
    BY <1>2, FieldBytes
<1>4. get_u32(field) = n
    BY <1>2, FieldRoundTrip DEF Encodable
<1>5. m = [command |-> m.command, payload |-> m.payload]
    BY CodecAssumption
<1>6. /\ PayloadLength(e, 1) = get_u32(SubSeq(e, 1 + 1, 1 + N))
      /\ FrameAt(e, 1) = [command |-> e[1],
                          payload |-> SubSeq(e, 1 + HEADER_LENGTH, 1 + HEADER_LENGTH + PayloadLength(e, 1) - 1)]
    BY Zenon DEF PayloadLength, FrameAt
<1> HIDE DEF e, n, field, N
<1>7. PayloadLength(e, 1) = n
    <2>1. 1 \in Int /\ N \in Int /\ 1 >= 1 /\ N =< Len(field)
        BY <1>2, <1>3
    <2>2. EqualCut(field, e, 1, 1, N)
        BY <1>1, <1>3, <2>1, EqualParts
    <2>3. SubSeq(field, 1, N) = field
        BY <1>3, SubSeqFull
    <2>4. QED
        BY <1>4, <1>6, <2>2, <2>3, Zenon DEF EqualCut
<1>8. HasHeader(e, 1) /\ HasFrame(e, 1) /\ AfterFrame(e, 1) = Len(e) + 1
    BY <1>1, <1>2, <1>7 DEF HasHeader, HasFrame, AfterFrame
<1>9. SubSeq(e, 1 + HEADER_LENGTH, 1 + HEADER_LENGTH + n - 1) = m.payload
    <2>1. 1 \in Int /\ n \in Int /\ 1 >= 1 /\ n =< Len(m.payload)
        BY <1>2 DEF n
    <2>2. EqualCut(m.payload, e, HEADER_LENGTH, 1, n)
        BY <1>1, <2>1, EqualParts
    <2>3. SubSeq(m.payload, 1, n) = m.payload
        BY <1>1, SubSeqFull DEF n
    <2>4. HEADER_LENGTH + 1 = 1 + HEADER_LENGTH /\ HEADER_LENGTH + n = 1 + HEADER_LENGTH + n - 1
        BY <1>2
    <2>5. QED
        BY <2>2, <2>3, <2>4, Zenon DEF EqualCut
<1>10. FrameAt(e, 1) = m
    BY <1>1, <1>5, <1>6, <1>7, <1>9, Zenon
<1>11. QED
    BY <1>7, <1>8, <1>10 DEF e, n

\* A valid frame in the stream means itself, and then what follows it.
LEMMA ValidFrameMeans ==
    ASSUME NEW m \in Messages, Encodable(m), Valid(m), NEW head \in Seq(Byte), NEW more \in Seq(Byte)
    PROVE  LET meant == MeaningFrom(head \o (Encoded(m) \o more))
           IN  meant[Len(head) + 1] = Prefixed(<<m>>, meant[Len(head) + Len(Encoded(m)) + 1])
<1> DEFINE e == Encoded(m)
           all == head \o (e \o more)
           k == Len(head)
<1>1. /\ e \in Seq(Byte) /\ e[1] = m.command /\ HasHeader(e, 1) /\ PayloadLength(e, 1) = Len(m.payload)
      /\ HasFrame(e, 1) /\ FrameAt(e, 1) = m /\ AfterFrame(e, 1) = Len(e) + 1
    BY EncodedBytes, EncodedFrame
<1>2. Accepted(e, 1) /\ m \notin Malformed
    BY <1>1 DEF Accepted, Valid
<1> HIDE DEF e
<1>3. all \in Seq(Byte) /\ Within(e, all, k) /\ k \in Nat /\ 1 \in 1 .. Len(e) + 1 /\ Len(e) \in Nat
    BY <1>1, MiddleWithin
<1> HIDE DEF all, k
<1>4. k + 1 \in 1 .. Len(all) /\ Accepted(all, k + 1)
    BY <1>1, <1>2, <1>3, HeaderWithin
<1>5. HasFrame(all, k + 1) /\ FrameAt(all, k + 1) = FrameAt(e, 1) /\ AfterFrame(all, k + 1) = k + AfterFrame(e, 1)
    BY <1>1, <1>3, FrameWithin
<1>6. AfterFrame(all, k + 1) = k + Len(e) + 1 /\ FrameAt(all, k + 1) = m
    BY <1>1, <1>3, <1>5
<1>7. k + 1 \in 1 .. Len(all) + 1
    BY <1>3, <1>4
<1>8. MeaningFrom(all)[k + 1] = IF FrameAt(all, k + 1) \in Malformed THEN Stopped(TRUE)
          ELSE Prefixed(<<FrameAt(all, k + 1)>>, MeaningFrom(all)[AfterFrame(all, k + 1)])
    BY <1>3, <1>4, <1>5, <1>7, MeaningCases
<1>9. MeaningFrom(all)[k + 1] = Prefixed(<<m>>, MeaningFrom(all)[k + Len(e) + 1])
    BY <1>2, <1>6, <1>8, Zenon
<1>10. QED
    BY <1>9 DEF all, k, e

\* Bytes that can only be skipped mean nothing.
LEMMA SkippableMeans ==
    ASSUME NEW item, item.bytes \in Seq(Byte), Skippable(item),
           \/ item.frames = <<>>
           \/ \E m \in Messages : Encodable(m) /\ item = [bytes |-> Encoded(m), frames |-> <<m>>],
           NEW head \in Seq(Byte), NEW more \in Seq(Byte)
    PROVE  LET meant == MeaningFrom(head \o (item.bytes \o more))
           IN  meant[Len(head) + 1] = meant[Len(head) + Len(item.bytes) + 1]
<1> DEFINE e == item.bytes
           all == head \o (e \o more)
           k == Len(head)
<1>1. e \in Seq(Byte) /\ \A i \in 2 .. Len(e) : e[i] \notin Inbound
    BY DEF Skippable
<1>2. e[1] \notin Inbound \/ (1 \in 1 .. Len(e) + 1 /\ HasHeader(e, 1) /\ ~Accepted(e, 1))
    <2> SUFFICES ASSUME e[1] \in Inbound PROVE 1 \in 1 .. Len(e) + 1 /\ HasHeader(e, 1) /\ ~Accepted(e, 1)
        OBVIOUS
    <2>1. item.frames # <<>> /\ Len(item.frames[1].payload) > MAXIMUM_PAYLOAD_BYTES
        BY DEF Skippable
    <2>2. PICK m \in Messages : Encodable(m) /\ item = [bytes |-> Encoded(m), frames |-> <<m>>]
        BY <2>1
    <2>3. e = Encoded(m) /\ item.frames[1] = m
        BY <2>2
    <2>4. HasHeader(e, 1) /\ PayloadLength(e, 1) = Len(m.payload)
        BY <2>2, <2>3, EncodedFrame
    <2>5. Len(m.payload) \in Nat /\ MAXIMUM_PAYLOAD_BYTES \in Nat /\ Len(m.payload) > MAXIMUM_PAYLOAD_BYTES
        BY <2>1, <2>3, EncodedBytes, Sizes
    <2>6. ~Accepted(e, 1)
        BY <2>4, <2>5 DEF Accepted
    <2>7. QED
        BY <1>1, <2>4, <2>6
<1> HIDE DEF e
<1>3. /\ all \in Seq(Byte) /\ Within(e, all, k) /\ k \in Nat /\ Len(e) \in Nat
      /\ Len(all) \in Nat /\ k + Len(e) =< Len(all)
    BY <1>1, MiddleWithin DEF Within
<1> HIDE DEF all, k
<1>4. ASSUME NEW r \in k + 1 .. (k + Len(e) + 1) - 1, HasHeader(all, r) PROVE ~Accepted(all, r)
    <2>1. r - k \in 1 .. Len(e) /\ k + (r - k) = r
        BY <1>3
    <2>2. all[k + (r - k)] = e[r - k]
        BY <1>3, <2>1 DEF Within
    <2>3. CASE e[r - k] \notin Inbound
        BY <2>1, <2>2, <2>3 DEF Accepted
    <2>4. CASE e[r - k] \in Inbound
        <3>1. r - k = 1
            BY <1>1, <1>3, <2>1, <2>4
        <3>2. HasHeader(e, 1) /\ ~Accepted(e, 1) /\ 1 \in 1 .. Len(e) + 1 /\ k + 1 = r
            BY <1>2, <2>1, <2>4, <3>1
        <3>3. Accepted(all, k + 1) <=> Accepted(e, 1)
            BY <1>1, <1>3, <3>2, HeaderWithin
        <3>4. QED
            BY <3>2, <3>3
    <2>5. QED
        BY <2>3, <2>4
<1>5. NoHeaders(all, k + 1, k + Len(e) + 1)
    BY <1>4 DEF NoHeaders
<1>6. k + 1 \in 1 .. Len(all) + 1 /\ k + Len(e) + 1 \in k + 1 .. Len(all) + 1
    BY <1>3
<1>7. MeaningFrom(all)[k + 1] = MeaningFrom(all)[k + Len(e) + 1]
    BY <1>3, <1>5, <1>6, SkippedBytes
<1>8. QED
    BY <1>7 DEF all, k, e

\* The frames of valid items are messages, and sending appends to them.
LEMMA ValidFramesGrow ==
    ASSUME TypeOK
    PROVE  /\ ValidFrames \in Seq(Messages)
           /\ sent' = sent /\ UNCHANGED codec => ValidFrames' = ValidFrames
           /\ \A item \in [bytes : Seq(Byte), frames : Seq(Messages)] :
                 sent' = Append(sent, item) /\ UNCHANGED codec =>
                     ValidFrames' = ValidFrames \o (IF ValidItem(item) THEN item.frames ELSE <<>>)
<1> DEFINE Item == [bytes : Seq(Byte), frames : Seq(Messages)]
           valid(item) == IF ValidItem(item) THEN item.frames ELSE <<>>
           s == [i \in 1 .. Len(sent) |-> valid(sent[i])]
<1>1. Len(sent) \in Nat /\ \A i \in 1 .. Len(sent) : sent[i] \in Item
    <2>1. sent \in Seq(Item)
        BY DEF TypeOK
    <2> HIDE DEF Item
    <2>2. QED
        BY <2>1
<1>2. \A item \in Item : valid(item) \in Seq(Messages)
    BY EmptySeq
<1>3. s \in Seq(Seq(Messages)) /\ Len(s) = Len(sent)
    <2> HIDE DEF valid, Item
    <2>1. s \in [1 .. Len(sent) -> Seq(Messages)]
        BY <1>1, <1>2
    <2>2. s \in Seq(Seq(Messages))
        <3> HIDE DEF s
        <3>1. QED
            BY <1>1, <2>1, IsASeq
    <2>3. QED
        BY <1>1, <2>2
<1>4. ValidFrames = FlattenSeq(s)
    BY Zenon DEF ValidFrames
<1>5. ValidFrames \in Seq(Messages)
    <2> HIDE DEF s
    <2>1. <<>> \in Seq(Messages)
        BY EmptySeq
    <2>2. QED
        BY <1>3, <1>4, <2>1, FlattenAppend
<1>6. ASSUME UNCHANGED codec
      PROVE  ValidFrames' = FlattenSeq([i \in 1 .. Len(sent') |-> valid(sent'[i])])
    BY <1>6 DEF ValidFrames, ValidItem, Valid, Inbound
<1>7. ASSUME sent' = sent, UNCHANGED codec PROVE ValidFrames' = ValidFrames
    BY <1>4, <1>6, <1>7, Zenon
<1>8. ASSUME NEW item \in Item, sent' = Append(sent, item), UNCHANGED codec
      PROVE  ValidFrames' = ValidFrames \o valid(item)
    <2>1. valid(item) \in Seq(Messages)
        BY <1>2
    <2>2. [i \in 1 .. Len(sent') |-> valid(sent'[i])] = Append(s, valid(item))
        <3>1. /\ Len(sent') = Len(sent) + 1 /\ sent'[Len(sent) + 1] = item
              /\ \A i \in 1 .. Len(sent) : sent'[i] = sent[i]
            BY <1>8 DEF TypeOK
        <3> HIDE DEF valid
        <3>2. QED
            BY <1>1, <1>3, <3>1
    <2>3. ValidFrames' = FlattenSeq(Append(s, valid(item)))
        BY <1>6, <1>8, <2>2, Zenon
    <2> HIDE DEF s, valid
    <2>4. FlattenSeq(Append(s, valid(item))) = FlattenSeq(s) \o valid(item)
        BY <1>3, <2>1, FlattenAppend
    <2>5. QED
        BY <1>4, <2>3, <2>4, Zenon
<1>9. QED
    BY <1>5, <1>7, <1>8

\* The inductive invariant: if only valid frames and skippable bytes were sent,
\* they mean the valid frames, whatever follows them.
AllSkippableOrValid == \A i \in 1 .. Len(sent) : Skippable(sent[i]) \/ ValidItem(sent[i])
RoundTripInv ==
    AllSkippableOrValid =>
        \A more \in Seq(Byte) :
            MeaningFrom(SentBytes \o more)[1] =
                Prefixed(ValidFrames, MeaningFrom(SentBytes \o more)[Len(SentBytes) + 1])

\* Sending keeps it.
LEMMA RoundTripSend ==
    ASSUME TypeOK, RoundTripInv, UNCHANGED codec,
           NEW item \in [bytes : Seq(Byte), frames : Seq(Messages)], sent' = Append(sent, item),
           \/ item.frames = <<>>
           \/ \E m \in Messages : Encodable(m) /\ item = [bytes |-> Encoded(m), frames |-> <<m>>]
    PROVE  RoundTripInv'
<1> DEFINE e == item.bytes
           new == IF ValidItem(item) THEN item.frames ELSE <<>>
<1>1. e \in Seq(Byte) /\ item.frames \in Seq(Messages) /\ new \in Seq(Messages)
    BY EmptySeq
<1>2. SentBytes \in Seq(Byte) /\ SentBytes' = SentBytes \o e
    BY SentBytesGrow
<1>3. ValidFrames \in Seq(Messages) /\ ValidFrames' = ValidFrames \o new
    BY ValidFramesGrow
<1>4. AllSkippableOrValid' => AllSkippableOrValid /\ (Skippable(item) \/ ValidItem(item))
    <2> SUFFICES ASSUME AllSkippableOrValid' PROVE AllSkippableOrValid /\ (Skippable(item) \/ ValidItem(item))
        OBVIOUS
    <2>1. \A i \in 1 .. Len(sent') : Skippable(sent'[i]) \/ ValidItem(sent'[i])
        BY DEF AllSkippableOrValid, Skippable, ValidItem, Valid, Inbound
    <2>2. /\ Len(sent) \in Nat /\ Len(sent') = Len(sent) + 1 /\ sent'[Len(sent) + 1] = item
          /\ \A i \in 1 .. Len(sent) : sent'[i] = sent[i]
        BY DEF TypeOK
    <2>3. Len(sent) + 1 \in 1 .. Len(sent') /\ \A i \in 1 .. Len(sent) : i \in 1 .. Len(sent')
        BY <2>2
    <2>4. QED
        BY <2>1, <2>2, <2>3, Zenon DEF AllSkippableOrValid
<1>5. ASSUME AllSkippableOrValid', NEW more \in Seq(Byte)
      PROVE  MeaningFrom(SentBytes' \o more)[1] =
                 Prefixed(ValidFrames', MeaningFrom(SentBytes' \o more)[Len(SentBytes') + 1])
    <2> DEFINE late == e \o more
               meant == MeaningFrom(SentBytes \o late)
               after == meant[Len(SentBytes) + Len(e) + 1]
    <2>1. late \in Seq(Byte) /\ SentBytes \o late \in Seq(Byte) /\ Len(SentBytes') = Len(SentBytes) + Len(e)
          /\ Len(SentBytes \o late) = Len(SentBytes) + Len(e) + Len(more)
        BY <1>1, <1>2, ConcatWithin, MiddleWithin
    <2>2. SentBytes' \o more = SentBytes \o late
        <3>1. Associates(SentBytes, e, more)
            BY <1>1, <1>2, Associative
        <3>2. QED
            BY <1>2, <3>1, Zenon DEF Associates
    <2>3. meant[1] = Prefixed(ValidFrames, meant[Len(SentBytes) + 1])
        BY <1>4, <1>5, <2>1 DEF RoundTripInv
    <2>4. meant[Len(SentBytes) + 1] = Prefixed(new, after)
        <3>1. CASE ValidItem(item)
            <4>1. PICK m \in Messages : Encodable(m) /\ item = [bytes |-> Encoded(m), frames |-> <<m>>]
                BY <3>1 DEF ValidItem
            <4>2. e = Encoded(m) /\ new = <<m>> /\ Valid(m)
                BY <3>1, <4>1 DEF ValidItem
            <4>3. QED
                BY <1>2, <4>1, <4>2, ValidFrameMeans
        <3>2. CASE ~ValidItem(item)
            <4>1. meant[Len(SentBytes) + 1] = after
                BY <1>1, <1>2, <1>4, <1>5, <3>2, SkippableMeans
            <4>2. after \in Outcome
                <5>1. Len(SentBytes) + Len(e) + 1 \in 1 .. Len(SentBytes \o late) + 1
                    BY <1>1, <1>2, <2>1
                <5>2. QED
                    BY <2>1, <5>1, MeaningTyped
            <4> HIDE DEF after
            <4>3. Prefixed(<<>>, after) = after
                BY <4>2, PrefixedFrames, EmptySeq
            <4>4. new = <<>>
                BY <3>2
            <4>5. QED
                BY <4>1, <4>3, <4>4
        <3>3. QED
            BY <3>1, <3>2
    <2>5. after.frames \in Seq([command : 0 .. 5, payload : Seq(Byte)])
        <3>1. Len(SentBytes) + Len(e) + 1 \in 1 .. Len(SentBytes \o late) + 1
            BY <1>1, <1>2, <2>1
        <3>2. after \in Outcome
            BY <2>1, <3>1, MeaningTyped
        <3> HIDE DEF after
        <3>3. after.frames \in Seq(Frame)
            BY <3>2 DEF Outcome
        <3>4. Frame \subseteq [command : 0 .. 5, payload : Seq(Byte)]
            BY DEF Frame, Inbound, ServerInbound, ClientInbound, Command
        <3>5. QED
            BY <3>3, <3>4, SeqMonotonic
    <2>6. /\ ValidFrames \in Seq([command : 0 .. 5, payload : Seq(Byte)])
          /\ new \in Seq([command : 0 .. 5, payload : Seq(Byte)])
        <3> HIDE DEF new
        <3>1. QED
            BY <1>1, <1>3, CodecAssumption, SeqMonotonic
    <2> HIDE DEF meant, after, new
    <2>7. meant[1] = Prefixed(ValidFrames \o new, after)
        <3> DEFINE Kind == [command : 0 .. 5, payload : Seq(Byte)]
        <3>1. after.frames \in Seq(Kind) /\ ValidFrames \in Seq(Kind) /\ new \in Seq(Kind)
            BY <2>5, <2>6
        <3> HIDE DEF Kind
        <3>2. Prefixed(ValidFrames, Prefixed(new, after)) = Prefixed(ValidFrames \o new, after)
            BY <3>1, PrefixedConcat
        <3>3. QED
            BY <2>3, <2>4, <3>2
    <2>8. QED
        BY <1>3, <2>1, <2>2, <2>7, Zenon DEF meant, after
<1>6. QED
    BY <1>5, MeaningStable DEF RoundTripInv, Prefixed

\* So do the other steps, which send nothing.
LEMMA RoundTripStep ==
    ASSUME TypeOK, RoundTripInv, [Next]_vars
    PROVE  RoundTripInv'
<1> DEFINE Item == [bytes : Seq(Byte), frames : Seq(Messages)]
<1>1. ASSUME NEW m \in Messages, Send(m), UNCHANGED codec PROVE RoundTripInv'
    <2> DEFINE item == [bytes |-> Encoded(m), frames |-> <<m>>]
    <2>1. item \in Item
        BY EncodedBytes
    <2>2. Encodable(m) /\ sent' = Append(sent, item)
        BY <1>1 DEF Send
    <2>3. \E n \in Messages : Encodable(n) /\ item = [bytes |-> Encoded(n), frames |-> <<n>>]
        BY <2>2
    <2> HIDE DEF item
    <2>4. QED
        BY <1>1, <2>1, <2>2, <2>3, RoundTripSend
<1>2. ASSUME NEW b \in Noise, SendNoise(b), UNCHANGED codec PROVE RoundTripInv'
    <2> DEFINE item == [bytes |-> <<b>>, frames |-> <<>>]
    <2>1. b \in Byte
        BY CodecAssumption
    <2>2. item \in Item /\ item.frames = <<>>
        BY <2>1
    <2>3. sent' = Append(sent, item)
        BY <1>2 DEF SendNoise
    <2> HIDE DEF item
    <2>4. QED
        BY <1>2, <2>2, <2>3, RoundTripSend
<1>3. ASSUME sent' = sent, UNCHANGED codec PROVE RoundTripInv'
    <2>1. SentBytes' = SentBytes
        BY <1>3 DEF SentBytes
    <2>2. ValidFrames' = ValidFrames
        BY <1>3, ValidFramesGrow
    <2>3. AllSkippableOrValid' => AllSkippableOrValid
        BY <1>3 DEF AllSkippableOrValid, Skippable, ValidItem, Valid, Inbound
    <2>4. ASSUME AllSkippableOrValid', NEW more \in Seq(Byte)
          PROVE  MeaningFrom(SentBytes' \o more)[1] =
                     Prefixed(ValidFrames', MeaningFrom(SentBytes' \o more)[Len(SentBytes') + 1])
        BY <2>1, <2>2, <2>3, <2>4, Zenon DEF RoundTripInv
    <2>5. QED
        BY <1>3, <2>4, MeaningStable DEF RoundTripInv, Prefixed
<1>4. QED
    BY <1>1, <1>2, <1>3
    DEF Next, Peer, FramedRead, Close, Read, ReadEof, DecodeNone, DecodeFrame, vars

\* Nothing was sent.
LEMMA RoundTripInit == Init => RoundTripInv
<1> SUFFICES ASSUME Init PROVE RoundTripInv
    OBVIOUS
<1>1. sent = <<>> /\ \A S : <<>> \in Seq(S)
    BY EmptySeq DEF Init
<1>2. SentBytes = <<>>
    <2> DEFINE s == [i \in 1 .. Len(sent) |-> sent[i].bytes]
    <2>1. s = <<>>
        BY <1>1
    <2>2. QED
        BY <1>1, <2>1, FlattenIs DEF SentBytes
<1>3. ValidFrames = <<>>
    <2> DEFINE s == [i \in 1 .. Len(sent) |-> IF ValidItem(sent[i]) THEN sent[i].frames ELSE <<>>]
    <2>1. s = <<>>
        BY <1>1
    <2>2. QED
        BY <1>1, <2>1, FlattenIs DEF ValidFrames
<1>4. ASSUME NEW more \in Seq(Byte)
      PROVE  MeaningFrom(SentBytes \o more)[1] =
                 Prefixed(ValidFrames, MeaningFrom(SentBytes \o more)[Len(SentBytes) + 1])
    <2>1. SentBytes \o more = more
        BY <1>2, ConcatEmptySeq
    <2>2. Len(SentBytes) + 1 = 1 /\ 1 \in 1 .. Len(more) + 1
        BY <1>2
    <2>3. MeaningFrom(more)[1] \in Outcome
        BY <2>2, MeaningTyped
    <2>4. Prefixed(<<>>, MeaningFrom(more)[1]) = MeaningFrom(more)[1]
        BY <1>1, <2>3, PrefixedFrames
    <2>5. QED
        BY <1>3, <2>1, <2>2, <2>4
<1>5. QED
    BY <1>4 DEF RoundTripInv

\* With the bytes that were sent and no more, the invariant says what they mean.
LEMMA RoundTripSuffices ==
    ASSUME TypeOK, RoundTripInv, ChunkingIndependent
    PROVE  RoundTrip
<1> SUFFICES ASSUME AllSkippableOrValid
             PROVE  /\ IsPrefix(frames, ValidFrames)
                    /\ status # "open" => frames = ValidFrames
    BY DEF RoundTrip, AllSkippableOrValid
<1> DEFINE meant == MeaningFrom(SentBytes)
           end == Len(SentBytes) + 1
<1>1. SentBytes \in Seq(Byte) /\ <<>> \in Seq(Byte) /\ ValidFrames \in Seq(Messages)
    BY SentBytesGrow, ValidFramesGrow, EmptySeq
<1>2. meant[1] = Prefixed(ValidFrames, meant[end])
    <2>1. SentBytes \o <<>> = SentBytes
        BY <1>1, ConcatEmptySeq
    <2>2. MeaningFrom(SentBytes \o <<>>)[1] =
              Prefixed(ValidFrames, MeaningFrom(SentBytes \o <<>>)[Len(SentBytes) + 1])
        BY <1>1, Zenon DEF RoundTripInv
    <2>3. QED
        BY <2>1, <2>2, Zenon
<1>3. meant[end] = Stopped(FALSE)
    <2>1. end \in 1 .. Len(SentBytes) + 1 /\ ~HasHeader(SentBytes, end)
        BY <1>1, Sizes DEF HasHeader
    <2> HIDE DEF end
    <2>2. QED
        BY <1>1, <2>1, MeaningCases
<1> HIDE DEF meant, end
<1>4. meant[1].frames = ValidFrames
    <2>1. ValidFrames \o <<>> = ValidFrames
        BY <1>1, ConcatEmptySeq
    <2>2. QED
        BY <1>2, <1>3, <2>1 DEF Prefixed, Stopped
<1>5. QED
    BY <1>4 DEF ChunkingIndependent, Meaning, meant

\* Whatever a peer encodes, the decoder yields exactly the valid frames, in order
\* and complete at the end of the stream, however they arrive and whatever bytes
\* that look like no command come between them.
THEOREM FramesRoundTrip == Spec => []RoundTrip
<1>1. TypeOK /\ RoundTripInv /\ [Next]_vars => RoundTripInv'
    BY RoundTripStep
<1>2. TypeOK /\ RoundTripInv /\ ChunkingIndependent => RoundTrip
    BY RoundTripSuffices
<1>3. QED
    BY <1>1, <1>2, RoundTripInit, TypeCorrect, ChunkingDoesNotMatter, PTL DEF Spec

=============================================================================
