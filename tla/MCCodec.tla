------------------------------ MODULE MCCodec -------------------------------
(***************************************************************************)
(* The codecs on byte streams over a few byte values: short payloads whose *)
(* bytes look like a command, a small or a large length, and payloads at   *)
(* the limit, one over it, and too long for the length field.              *)
(***************************************************************************)
EXTENDS Codec

CONSTANTS
    Commands,       \* the commands the peer sends
    PayloadBytes,   \* the bytes payloads are made of
    ShortPayload    \* the length up to which all payloads are sent

Repeated(b, n) == [i \in 1 .. n |-> b]

\* The last three are over the limit: none of their other bytes is a command
\* for a client, and for the server, and the length of the last does not fit.
MCMessages ==
    [command : Commands,
     payload : BoundedSeq(PayloadBytes, ShortPayload)
                 \cup {Repeated(0, MAXIMUM_PAYLOAD_BYTES + n) : n \in {0, 1}}]
    \cup {[command |-> Command.Info, payload |-> Repeated(1, MAXIMUM_PAYLOAD_BYTES + 1)],
          [command |-> Command.UnSubscribe, payload |-> Repeated(0, 5 * BASE)],
          [command |-> Command.Connect, payload |-> Repeated(0, BASE ^ PAYLOAD_LENGTH_BYTES)]}

\* prost rejects some payloads of each command.
MCMalformed == [command : 0 .. 5, payload : {<<1>>, <<5>>}]

=============================================================================
