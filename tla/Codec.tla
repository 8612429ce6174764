-------------------------------- MODULE Codec --------------------------------
(***************************************************************************)
(* One direction of a stream: a peer that encodes frames with the Encoder  *)
(* of parser.rs, the network that delivers their bytes in pieces, and the  *)
(* FramedRead that runs the Decoder over what has arrived.                 *)
(*                                                                         *)
(* ServerCodec and ClientCodec differ only in the commands their decoder   *)
(* accepts.  Bytes are numbers below BASE and the length field has         *)
(* PAYLOAD_LENGTH_BYTES of them, big-endian, so that small values of both  *)
(* have every case of the real 256 and 4.  What prost makes of a payload   *)
(* is the constant Malformed.                                              *)
(***************************************************************************)
EXTENDS Integers, Sequences, SequencesExt

CONSTANTS
    BASE,                   \* the number of byte values
    PAYLOAD_LENGTH_BYTES,
    MAXIMUM_PAYLOAD_BYTES,
    Malformed,              \* the frames whose payload prost cannot decode
    Messages,               \* the frames the peer may try to send
    Noise,                  \* bytes that may reach the stream outside a frame
    MaxSends                \* how often the peer sends

Byte == 0 .. BASE - 1
COMMAND_BYTE_LEN == 1
HEADER_LENGTH == COMMAND_BYTE_LEN + PAYLOAD_LENGTH_BYTES

\* enum Command.
Command == [Info |-> 0, Connect |-> 1, Publish |-> 2,
            Subscribe |-> 3, UnSubscribe |-> 4, Message |-> 5]
ServerInbound ==
    {Command.Connect, Command.Publish, Command.Subscribe, Command.UnSubscribe}
ClientInbound == {Command.Info, Command.Message}

\* The errors decoding ends in: of CodecError, and of FramedRead itself.
CodecError == {"Decode", "Io"}

ASSUME CodecAssumption ==
    /\ BASE \in Nat /\ BASE > 5
    /\ PAYLOAD_LENGTH_BYTES \in Nat \ {0}
    /\ MAXIMUM_PAYLOAD_BYTES \in Nat
    /\ Messages \subseteq [command : 0 .. 5, payload : Seq(Byte)]
    /\ Noise \subseteq Byte
    /\ MaxSends \in Nat

VARIABLES
    codec,           \* whose decoder reads: "server" or "client"
    sent,            \* history: what the peer sent, frame by frame
    in_flight,       \* the bytes that have not arrived
    closed,          \* the peer has finished the stream
    incoming_bytes,  \* FramedRead's buffer
    readable,        \* FramedRead: the buffer may hold a frame
    eof,             \* FramedRead: the end of the stream was read
    frames,          \* the frames FramedRead has yielded
    status           \* "open", "end" or the CodecError

vars == <<codec, sent, in_flight, closed, incoming_bytes, readable, eof, frames,
          status>>

-----------------------------------------------------------------------------
(* Encoder: the command, the length and the payload. *)

\* What is left of n when its last i bytes are shifted out.
Shifted(n) ==
    LET shift[i \in 0 .. PAYLOAD_LENGTH_BYTES] ==
            IF i = 0 THEN n ELSE shift[i - 1] \div BASE
    IN  shift

put_u32(n) ==
    [i \in 1 .. PAYLOAD_LENGTH_BYTES |-> Shifted(n)[PAYLOAD_LENGTH_BYTES - i] % BASE]

Encoded(m) == <<m.command>> \o put_u32(Len(m.payload)) \o m.payload

\* payload.len().try_into(): the length has to fit the length field.
Encodable(m) == Shifted(Len(m.payload))[PAYLOAD_LENGTH_BYTES] = 0

Send(m) ==
    /\ ~closed
    /\ Len(sent) < MaxSends
    /\ Encodable(m)       \* otherwise InvalidSizeBytes, and nothing is sent
    /\ sent' = Append(sent, [bytes |-> Encoded(m), frames |-> <<m>>])
    /\ in_flight' = in_flight \o Encoded(m)
    /\ UNCHANGED <<closed, incoming_bytes, readable, eof, frames, status>>

\* A byte that belongs to no frame.
SendNoise(b) ==
    /\ ~closed
    /\ Len(sent) < MaxSends
    /\ sent' = Append(sent, [bytes |-> <<b>>, frames |-> <<>>])
    /\ in_flight' = Append(in_flight, b)
    /\ UNCHANGED <<closed, incoming_bytes, readable, eof, frames, status>>

Close ==
    /\ ~closed
    /\ closed' = TRUE
    /\ UNCHANGED <<sent, in_flight, incoming_bytes, readable, eof, frames, status>>

-----------------------------------------------------------------------------
(* FramedRead: it reads only after decode() asked for more bytes. *)

Read(n) ==
    /\ status = "open" /\ ~readable
    /\ n \in 1 .. Len(in_flight)
    /\ incoming_bytes' = incoming_bytes \o SubSeq(in_flight, 1, n)
    /\ in_flight' = SubSeq(in_flight, n + 1, Len(in_flight))
    /\ readable' = TRUE
    /\ UNCHANGED <<sent, closed, eof, frames, status>>

ReadEof ==
    /\ status = "open" /\ ~readable /\ ~eof
    /\ closed /\ in_flight = <<>>
    /\ eof' = TRUE
    /\ readable' = TRUE
    /\ UNCHANGED <<sent, in_flight, closed, incoming_bytes, frames, status>>

-----------------------------------------------------------------------------
(* Decoder *)

\* The commands that ServerInboundCommand or ClientInboundCommand accept.
Inbound == IF codec = "server" THEN ServerInbound ELSE ClientInbound

\* parse_header on the bytes from position p on, when a header is there.
HasHeader(bytes, p) == Len(bytes) - p + 1 >= HEADER_LENGTH

get_u32(field) ==
    LET value[i \in 0 .. PAYLOAD_LENGTH_BYTES] ==
            IF i = 0 THEN 0 ELSE BASE * value[i - 1] + field[i]
    IN  value[PAYLOAD_LENGTH_BYTES]

PayloadLength(bytes, p) == get_u32(SubSeq(bytes, p + 1, p + PAYLOAD_LENGTH_BYTES))

Accepted_AnyLength(bytes, p) == bytes[p] \in Inbound

Accepted_AnyCommand(bytes, p) == PayloadLength(bytes, p) =< MAXIMUM_PAYLOAD_BYTES

\* A header the loop does not drop a byte for.
Accepted(bytes, p) ==
    /\ bytes[p] \in Inbound
    /\ PayloadLength(bytes, p) =< MAXIMUM_PAYLOAD_BYTES

Resync_GiveUp(bytes) ==
    IF HasHeader(bytes, 1) /\ ~Accepted(bytes, 1) THEN Len(bytes) + 1 ELSE 1

\* Where the loop stops dropping bytes: at the first accepted header, or
\* where too few bytes are left for one.
Resync(bytes) ==
    CHOOSE p \in 1 .. Len(bytes) + 1 :
        /\ ~HasHeader(bytes, p) \/ Accepted(bytes, p)
        /\ \A q \in 1 .. p - 1 : HasHeader(bytes, q) /\ ~Accepted(bytes, q)

HasFrame(bytes, p) ==
    /\ HasHeader(bytes, p)
    /\ Len(bytes) - p + 1 >= HEADER_LENGTH + PayloadLength(bytes, p)

FrameAt(bytes, p) ==
    [command |-> bytes[p],
     payload |-> SubSeq(bytes, p + HEADER_LENGTH,
                        p + HEADER_LENGTH + PayloadLength(bytes, p) - 1)]

AfterFrame_LeavePayload(bytes, p) == p + HEADER_LENGTH

\* The position after advance(HEADER_LENGTH) and split_to(payload_length).
AfterFrame(bytes, p) == p + HEADER_LENGTH + PayloadLength(bytes, p)

From(bytes, p) == SubSeq(bytes, p, Len(bytes))

DecodeNone_NoAdvance ==
    /\ status = "open" /\ readable
    /\ Resync(incoming_bytes) = 1     \* else the loop never leaves the byte
    /\ ~HasFrame(incoming_bytes, 1)
    /\ readable' = FALSE
    /\ status' = IF ~eof THEN "open" ELSE IF incoming_bytes = <<>> THEN "end" ELSE "Io"
    /\ UNCHANGED <<sent, in_flight, closed, eof, frames, incoming_bytes>>

\* decode() finds no whole frame: FramedRead waits for more, or ends the
\* stream, which is an error when bytes remain.
DecodeNone ==
    LET p == Resync(incoming_bytes)
    IN  /\ status = "open" /\ readable
        /\ ~HasFrame(incoming_bytes, p)
        /\ incoming_bytes' = From(incoming_bytes, p)
        /\ readable' = FALSE
        /\ status' = CASE ~eof -> "open"
                       [] eof /\ incoming_bytes' = <<>> -> "end"
                       [] eof /\ incoming_bytes' # <<>> -> "Io"
        /\ UNCHANGED <<sent, in_flight, closed, eof, frames>>

DecodeFrame_Peek ==
    LET p == Resync(incoming_bytes)
        frame == FrameAt(incoming_bytes, p)
    IN  /\ status = "open" /\ readable
        /\ HasFrame(incoming_bytes, p)
        /\ incoming_bytes' = From(incoming_bytes, p)
        /\ IF frame \in Malformed
             THEN status' = "Decode" /\ UNCHANGED frames
             ELSE frames' = Append(frames, frame) /\ UNCHANGED status
        /\ UNCHANGED <<sent, in_flight, closed, readable, eof>>

\* decode() takes a whole frame off the buffer and yields it, or fails when
\* its payload cannot be decoded, which ends the stream.
DecodeFrame ==
    LET p == Resync(incoming_bytes)
        frame == FrameAt(incoming_bytes, p)
    IN  /\ status = "open" /\ readable
        /\ HasFrame(incoming_bytes, p)
        /\ incoming_bytes' = From(incoming_bytes, AfterFrame(incoming_bytes, p))
        /\ IF frame \in Malformed
             THEN status' = "Decode" /\ UNCHANGED frames
             ELSE frames' = Append(frames, frame) /\ UNCHANGED status
        /\ UNCHANGED <<sent, in_flight, closed, readable, eof>>

-----------------------------------------------------------------------------

Init ==
    /\ codec \in {"server", "client"}
    /\ sent = <<>>
    /\ in_flight = <<>>
    /\ closed = FALSE
    /\ incoming_bytes = <<>>
    /\ readable = FALSE
    /\ eof = FALSE
    /\ frames = <<>>
    /\ status = "open"

Peer ==
    /\ \/ \E m \in Messages : Send(m)
       \/ \E b \in Noise : SendNoise(b)
       \/ Close
    /\ UNCHANGED codec

FramedRead ==
    /\ \/ \E n \in 1 .. Len(in_flight) : Read(n)
       \/ ReadEof
       \/ DecodeNone
       \/ DecodeFrame
    /\ UNCHANGED codec

Next == Peer \/ FramedRead

\* The runtime polls the reader whenever it can make a step.  Nothing makes
\* the peer send or close.
Spec == Init /\ [][Next]_vars /\ WF_vars(FramedRead)

-----------------------------------------------------------------------------
(* Properties. *)

SentBytes == FlattenSeq([i \in 1 .. Len(sent) |-> sent[i].bytes])

\* A frame this decoder is meant to yield.
Valid(m) ==
    /\ m.command \in Inbound
    /\ Len(m.payload) <= MAXIMUM_PAYLOAD_BYTES
    /\ m \notin Malformed
ValidItem(item) == item.frames # <<>> /\ Valid(item.frames[1])

ValidFrames ==
    FlattenSeq([i \in 1 .. Len(sent) |-> IF ValidItem(sent[i]) THEN sent[i].frames ELSE <<>>])

\* What the bytes mean, read from each position on with all of them at hand.
MeaningFrom(bytes) ==
    LET Stop(why) == [frames |-> <<>>, failed |-> why]
        from[p \in 1 .. Len(bytes) + 1] ==
            IF ~HasHeader(bytes, p) THEN Stop(FALSE)
            ELSE IF ~Accepted(bytes, p) THEN from[p + 1]
            ELSE IF ~HasFrame(bytes, p) THEN Stop(FALSE)
            ELSE IF FrameAt(bytes, p) \in Malformed THEN Stop(TRUE)
            ELSE LET rest == from[AfterFrame(bytes, p)]
                 IN  [frames |-> <<FrameAt(bytes, p)>> \o rest.frames, failed |-> rest.failed]
    IN  from

Meaning(bytes) == MeaningFrom(bytes)[1]

\* Type invariant of the stream and of FramedRead's state.
TypeOK ==
    /\ sent \in Seq([bytes : Seq(Byte), frames : Seq(Messages)])
    /\ in_flight \in Seq(Byte)
    /\ incoming_bytes \in Seq(Byte)
    /\ frames \in Seq([command : Inbound, payload : Seq(Byte)])
    /\ codec \in {"server", "client"}
    /\ closed \in BOOLEAN /\ readable \in BOOLEAN /\ eof \in BOOLEAN
    /\ status \in {"open", "end"} \cup CodecError

\* How the bytes are cut into reads does not matter to what decode() yields
\* nor to whether it fails, and no whole frame waits in the buffer for bytes of
\* a later one.
ChunkingIndependent ==
    LET meant == Meaning(SentBytes)
    IN  /\ IsPrefix(frames, meant.frames)
        /\ status # "open" \/ (~readable /\ in_flight = <<>>) =>
              frames = meant.frames
        /\ status # "open" => (meant.failed <=> status = "Decode")

\* Bytes that the decoder can only skip: none can be taken for a command, but
\* the command of a frame that is longer than the limit, which encode() writes
\* as long as the length field holds it.
Skippable(item) ==
    /\ \A i \in 2 .. Len(item.bytes) : item.bytes[i] \notin Inbound
    /\ \/ item.bytes[1] \notin Inbound
       \/ item.frames # <<>> /\ Len(item.frames[1].payload) > MAXIMUM_PAYLOAD_BYTES

\* What encode() writes, decode() yields, in order and complete at the end of
\* the stream, also when frames that are too long or not accepted, or stray
\* bytes, get between them: these cost no other frame unless some byte of them
\* looks like a command.
RoundTrip ==
    (\A i \in 1 .. Len(sent) : Skippable(sent[i]) \/ ValidItem(sent[i]))
    => /\ IsPrefix(frames, ValidFrames)
       /\ status # "open" => frames = ValidFrames

\* While FramedRead waits for bytes its buffer is short of one frame of the
\* largest size: the length check keeps a header from asking for more.
BufferBounded ==
    ~readable => Len(incoming_bytes) < HEADER_LENGTH + MAXIMUM_PAYLOAD_BYTES

\* A bound on the steps the reader can make before the peer makes one.
WorkLeft ==
    3 * Len(in_flight) + Len(incoming_bytes)
    + (IF readable THEN 1 ELSE 0) + (IF eof THEN 0 ELSE 2)

\* The reader does not spin on what it has: each read and each call of decode()
\* leaves it less to do, also the calls that yield nothing and those at the end
\* of the stream.
ReaderComesToRest == [][FramedRead => WorkLeft' < WorkLeft]_vars

\* The decoder never gets stuck: once the peer has finished the stream, the
\* reader comes to its end or to an error.
StreamEnds == closed ~> status # "open"

\* parser.rs of a command that is not accepted: "Drop one byte to resync on
\* an unexpected frame", so the valid frames sent after one are yielded.
ResyncsAfterFrame ==
    /\ codec = "server" /\ status = "end"
    /\ \A i \in DOMAIN sent :
          sent[i].frames # <<>> => ValidItem(sent[i]) \/ sent[i].frames[1].command \notin Inbound
    => frames = ValidFrames

=============================================================================
