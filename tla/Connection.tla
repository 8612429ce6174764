----------------------------- MODULE Connection -----------------------------
(***************************************************************************)
(* The per-stream pipeline of client.rs and handshake.rs: for every stream *)
(* that is accepted a task runs Client::run (handshake, then the dispatch  *)
(* loop) and a second task, run_outbound_writer, drains a bounded channel  *)
(* into the network.  The peer sends frames, finishes the stream, sends    *)
(* bytes the codec rejects, refuses what it is sent or vanishes, at any    *)
(* moment, and need not let the server send anything at all.               *)
(*                                                                         *)
(* Frames are opaque; a CONNECT has a protocol version and may be one the  *)
(* authenticator rejects.  The only message the server sends is INFO, so   *)
(* the channel, the write buffer and the wire hold the client_id that each *)
(* INFO carries.  PUBLISH, SUBSCRIBE and UNSUBSCRIBE have no effect in     *)
(* dispatch_frame; that they are dispatched is recorded.                   *)
(***************************************************************************)
EXTENDS Integers, Sequences

CONSTANTS
    Stream,            \* the accepted streams
    Connect,           \* CONNECT frames
    Request,           \* PUBLISH, SUBSCRIBE and UNSUBSCRIBE frames
    Rejected,          \* the CONNECTs the authenticator rejects
    Version,           \* the protocol version of each CONNECT
    PROTOCOL_VERSION,
    Capacity,          \* outbound_channel_capacity
    MaxFrames          \* the frames each peer sends at most

Frame == Connect \cup Request

ASSUME ConnectionAssumption ==
    /\ Connect \cap Request = {}
    /\ Rejected \subseteq Connect
    /\ Capacity \in Nat \ {0}      \* mpsc::channel(0) panics
    /\ MaxFrames \in Nat

HandshakeError == {"ConnectTimeout", "ConnectionClosed", "AuthenticationFailed"}
ClientError == HandshakeError \cup {"Codec", "OutboundChannelClosed"}

VARIABLES
    CLIENT_ID_COUNTER,
    client_id,       \* the ClientId of each stream, 0 before it has one
    run,             \* where Client::run is
    result,          \* what it returned
    connect_info,    \* the CONNECT of the CompletedHandshake, as a sequence
    deadline,        \* the timer around the read of CONNECT
    sent,            \* history: the frames that reached FramedRead
    inbound,         \* those of them that it has not yielded
    ended,           \* how the inbound stream ends after them
    dispatched,      \* history: the frames given to dispatch_frame
    outbound,        \* the outbound channel
    writer,          \* where run_outbound_writer is
    write_buffer,    \* FramedWrite's buffer
    wire,            \* what reached the peer
    send_half,       \* what the peer does with the stream's other direction
    lost             \* the streams whose connection is lost

runVars == <<run, result, connect_info, deadline, dispatched>>
peerVars == <<sent, inbound, ended, send_half, lost>>
writerVars == <<writer, write_buffer, wire>>
idVars == <<CLIENT_ID_COUNTER, client_id>>
vars == <<CLIENT_ID_COUNTER, client_id, run, result, connect_info, deadline,
          sent, inbound, ended, dispatched, outbound, writer, write_buffer,
          wire, send_half, lost>>

Init ==
    /\ CLIENT_ID_COUNTER = 1
    /\ client_id = [s \in Stream |-> 0]
    /\ run = [s \in Stream |-> "none"]
    /\ result = [s \in Stream |-> "none"]
    /\ connect_info = [s \in Stream |-> <<>>]
    /\ deadline = [s \in Stream |-> "unset"]
    /\ sent = [s \in Stream |-> <<>>]
    /\ inbound = [s \in Stream |-> <<>>]
    /\ ended = [s \in Stream |-> "open"]
    /\ dispatched = [s \in Stream |-> <<>>]
    /\ outbound = [s \in Stream |-> <<>>]
    /\ writer = [s \in Stream |-> "none"]
    /\ write_buffer = [s \in Stream |-> <<>>]
    /\ wire = [s \in Stream |-> <<>>]
    /\ send_half = [s \in Stream |-> "held"]
    /\ lost = {}

-----------------------------------------------------------------------------
(* The peer and the network. *)

\* A frame reaches FramedRead.  What the network loses never does.
PeerSend(s, f) ==
    /\ ended[s] = "open"
    /\ Len(sent[s]) < MaxFrames
    /\ sent' = [sent EXCEPT ![s] = Append(@, f)]
    /\ inbound' = [inbound EXCEPT ![s] = Append(@, f)]
    /\ UNCHANGED <<ended, send_half, lost, idVars, runVars, outbound, writerVars>>

\* The peer finishes its side of the stream, or sends bytes that the codec
\* answers with an error.
PeerEnd(s, how) ==
    /\ ended[s] = "open"
    /\ ended' = [ended EXCEPT ![s] = how]
    /\ UNCHANGED <<sent, inbound, send_half, lost, idVars, runVars, outbound, writerVars>>

\* The connection is lost: reads end in an error and flushes fail.
ConnectionLost(s) ==
    /\ s \notin lost
    /\ lost' = lost \cup {s}
    /\ ended' = [ended EXCEPT ![s] = IF @ = "open" THEN "error" ELSE @]
    /\ UNCHANGED <<sent, inbound, send_half, idVars, runVars, outbound, writerVars>>

\* The peer grants a flow-control window that INFO fits, and acknowledges it.
PeerTakes(s) ==
    /\ send_half[s] = "held"
    /\ send_half' = [send_half EXCEPT ![s] = "open"]
    /\ UNCHANGED <<sent, inbound, ended, lost, idVars, runVars, outbound, writerVars>>

\* STOP_SENDING: the peer refuses this direction, the other goes on.
PeerStops(s) ==
    /\ send_half[s] # "stopped"
    /\ send_half' = [send_half EXCEPT ![s] = "stopped"]
    /\ UNCHANGED <<sent, inbound, ended, lost, idVars, runVars, outbound, writerVars>>

-----------------------------------------------------------------------------
(* Client::new and Client::run. *)

NewClientId_NoIncrement(s) ==
    /\ client_id' = [client_id EXCEPT ![s] = CLIENT_ID_COUNTER]
    /\ CLIENT_ID_COUNTER' = IF CLIENT_ID_COUNTER = 1 THEN 1 ELSE CLIENT_ID_COUNTER + 1

\* ClientId::new: one fetch_add.
NewClientId(s) ==
    /\ client_id' = [client_id EXCEPT ![s] = CLIENT_ID_COUNTER]
    /\ CLIENT_ID_COUNTER' = CLIENT_ID_COUNTER + 1

\* The stream is accepted: Client::new spawns the writer, then run starts.
Accept(s) ==
    /\ run[s] = "none"
    /\ NewClientId(s)
    /\ run' = [run EXCEPT ![s] = "start"]
    /\ writer' = [writer EXCEPT ![s] = "recv"]
    /\ UNCHANGED <<result, connect_info, deadline, dispatched, peerVars,
                   outbound, write_buffer, wire>>

\* run returns r and drops the sender of the channel.
Return(s, r) ==
    /\ run' = [run EXCEPT ![s] = "done"]
    /\ result' = [result EXCEPT ![s] = r]

\* ServerOutbound::info: of what INFO says of the server and of the client, the
\* id is what differs between clients.
info(s) == client_id[s]

\* INFO is queued; the timer starts only then.
SendInfo(s) ==
    /\ run[s] = "start"
    /\ IF writer[s] = "exited"
         THEN /\ Return(s, "OutboundChannelClosed")
              /\ UNCHANGED <<outbound, deadline>>
         ELSE /\ Len(outbound[s]) < Capacity
              /\ outbound' = [outbound EXCEPT ![s] = Append(@, info(s))]
              /\ run' = [run EXCEPT ![s] = "handshake"]
              /\ deadline' = [deadline EXCEPT ![s] = "running"]
              /\ UNCHANGED result
    /\ UNCHANGED <<connect_info, dispatched, idVars, peerVars, writerVars>>

\* connect_timeout passes.
Elapse(s) ==
    /\ run[s] = "handshake" /\ deadline[s] = "running"
    /\ deadline' = [deadline EXCEPT ![s] = "elapsed"]
    /\ UNCHANGED <<run, result, connect_info, dispatched, idVars, peerVars,
                   outbound, writerVars>>

\* Authenticator::authenticate; NoAuthAuthenticator rejects nothing.
authenticate(connect) == IF connect \in Rejected THEN "Rejected" ELSE "Accepted"

\* PendingHandshake::on_connect: the authenticator alone decides.
on_connect(connect) ==
    IF authenticate(connect) = "Rejected" THEN "AuthenticationFailed" ELSE "Completed"

\* The first frame: a CONNECT goes to on_connect, any other ends the run.  A
\* frame that is ready wins over a deadline that has passed, because timeout()
\* polls the read first.
HandshakeFrame(s) ==
    /\ run[s] = "handshake"
    /\ inbound[s] # <<>>
    /\ inbound' = [inbound EXCEPT ![s] = Tail(@)]
    /\ IF Head(inbound[s]) \in Connect /\ on_connect(Head(inbound[s])) = "Completed"
         THEN /\ run' = [run EXCEPT ![s] = "dispatch"]
              /\ connect_info' = [connect_info EXCEPT ![s] = <<Head(inbound[s])>>]
              /\ UNCHANGED result
         ELSE /\ Return(s, IF Head(inbound[s]) \in Connect
                           THEN on_connect(Head(inbound[s])) ELSE "ConnectionClosed")
              /\ UNCHANGED connect_info
    /\ UNCHANGED <<deadline, dispatched, sent, ended, send_half, lost, idVars,
                   outbound, writerVars>>

HandshakeEnded(s) ==
    /\ run[s] = "handshake"
    /\ inbound[s] = <<>> /\ ended[s] # "open"
    /\ Return(s, IF ended[s] = "eof" THEN "ConnectionClosed" ELSE "Codec")
    /\ UNCHANGED <<connect_info, deadline, dispatched, idVars, peerVars,
                   outbound, writerVars>>

HandshakeTimeout_Disabled(s) == FALSE /\ UNCHANGED vars

HandshakeTimeout(s) ==
    /\ run[s] = "handshake"
    /\ deadline[s] = "elapsed"
    /\ inbound[s] = <<>> /\ ended[s] = "open"
    /\ Return(s, "ConnectTimeout")
    /\ UNCHANGED <<connect_info, deadline, dispatched, idVars, peerVars,
                   outbound, writerVars>>

DispatchFrame_StaleHead(s) ==
    /\ run[s] = "dispatch"
    /\ inbound[s] # <<>>
    /\ dispatched' = [dispatched EXCEPT ![s] = Append(@, Head(sent[s]))]
    /\ inbound' = [inbound EXCEPT ![s] = Tail(@)]
    /\ UNCHANGED <<run, result, connect_info, deadline, sent, ended,
                   send_half, lost, idVars, outbound, writerVars>>

\* The dispatch loop: no frame of any kind ends it.
DispatchFrame(s) ==
    /\ run[s] = "dispatch"
    /\ inbound[s] # <<>>
    /\ dispatched' = [dispatched EXCEPT ![s] = Append(@, Head(inbound[s]))]
    /\ inbound' = [inbound EXCEPT ![s] = Tail(@)]
    /\ UNCHANGED <<run, result, connect_info, deadline, sent, ended,
                   send_half, lost, idVars, outbound, writerVars>>

DispatchEnded_OnlyEof(s) ==
    /\ run[s] = "dispatch"
    /\ inbound[s] = <<>> /\ ended[s] = "eof"
    /\ Return(s, "Ok")
    /\ UNCHANGED <<connect_info, deadline, dispatched, idVars, peerVars,
                   outbound, writerVars>>

DispatchEnded_Unclassified(s) ==
    /\ run[s] = "dispatch"
    /\ inbound[s] = <<>> /\ ended[s] # "open"
    /\ Return(s, ended[s])
    /\ UNCHANGED <<connect_info, deadline, dispatched, idVars, peerVars,
                   outbound, writerVars>>

DispatchEnded(s) ==
    /\ run[s] = "dispatch"
    /\ inbound[s] = <<>> /\ ended[s] # "open"
    /\ Return(s, IF ended[s] = "eof" THEN "Ok" ELSE "Codec")
    /\ UNCHANGED <<connect_info, deadline, dispatched, idVars, peerVars,
                   outbound, writerVars>>

-----------------------------------------------------------------------------
(* run_outbound_writer. *)

\* dispatch_outbound feeds the next message of the channel to FramedWrite.
dispatch_outbound(s) ==
    /\ outbound[s] # <<>>
    /\ write_buffer' = [write_buffer EXCEPT ![s] = Append(@, Head(outbound[s]))]
    /\ outbound' = [outbound EXCEPT ![s] = Tail(@)]

\* recv() takes the first message of a batch.
WriterRecv(s) ==
    /\ writer[s] = "recv"
    /\ dispatch_outbound(s)
    /\ writer' = [writer EXCEPT ![s] = "drain"]
    /\ UNCHANGED <<idVars, runVars, peerVars, wire>>

\* try_recv() takes the rest of the batch until the channel is empty.
WriterDrain(s) ==
    /\ writer[s] = "drain"
    /\ \/ /\ dispatch_outbound(s)
          /\ UNCHANGED writer
       \/ /\ outbound[s] = <<>>
          /\ writer' = [writer EXCEPT ![s] = "flush"]
          /\ UNCHANGED <<outbound, write_buffer>>
    /\ UNCHANGED <<idVars, runVars, peerVars, wire>>

\* Writes to the stream fail.
Broken(s) == s \in lost \/ send_half[s] = "stopped"

\* flush() waits, without a timeout, until the peer has taken the bytes or the
\* write fails; the error is ignored and leaves the buffer as it is.
WriterFlush(s) ==
    /\ writer[s] = "flush"
    /\ Broken(s) \/ send_half[s] = "open"
    /\ writer' = [writer EXCEPT ![s] = "recv"]
    /\ IF Broken(s)
         THEN UNCHANGED <<write_buffer, wire>>
         ELSE /\ wire' = [wire EXCEPT ![s] = @ \o write_buffer[s]]
              /\ write_buffer' = [write_buffer EXCEPT ![s] = <<>>]
    /\ UNCHANGED <<idVars, runVars, peerVars, outbound>>

WriterExit_Idle(s) ==
    /\ writer[s] = "recv"
    /\ outbound[s] = <<>>
    /\ writer' = [writer EXCEPT ![s] = "exited"]
    /\ UNCHANGED <<idVars, runVars, peerVars, outbound, write_buffer, wire>>

WriterExit_NoDrain(s) ==
    /\ writer[s] = "recv"
    /\ run[s] = "done"
    /\ writer' = [writer EXCEPT ![s] = "exited"]
    /\ UNCHANGED <<idVars, runVars, peerVars, outbound, write_buffer, wire>>

WriterExit_AfterOk(s) ==
    /\ writer[s] = "recv"
    /\ result[s] = "Ok" /\ outbound[s] = <<>>
    /\ writer' = [writer EXCEPT ![s] = "exited"]
    /\ UNCHANGED <<idVars, runVars, peerVars, outbound, write_buffer, wire>>

\* recv() returns None: the sender is dropped and the channel is drained.
WriterExit(s) ==
    /\ writer[s] = "recv"
    /\ run[s] = "done" /\ outbound[s] = <<>>
    /\ writer' = [writer EXCEPT ![s] = "exited"]
    /\ UNCHANGED <<idVars, runVars, peerVars, outbound, write_buffer, wire>>

-----------------------------------------------------------------------------

Peer(s) ==
    \/ \E f \in Frame : PeerSend(s, f)
    \/ \E how \in {"eof", "error"} : PeerEnd(s, how)
    \/ ConnectionLost(s)
    \/ PeerTakes(s)
    \/ PeerStops(s)

Run(s) ==
    \/ SendInfo(s)
    \/ HandshakeFrame(s)
    \/ HandshakeEnded(s)
    \/ HandshakeTimeout(s)
    \/ DispatchFrame(s)
    \/ DispatchEnded(s)

Writer(s) ==
    \/ WriterRecv(s)
    \/ WriterDrain(s)
    \/ WriterFlush(s)
    \/ WriterExit(s)

Next == \E s \in Stream : Accept(s) \/ Elapse(s) \/ Run(s) \/ Writer(s) \/ Peer(s)

Spec == Init /\ [][Next]_vars

\* The runtime polls both tasks while they can make a step, and time passes.
\* Of the peer nothing is assumed: it may keep a connection alive for ever and
\* neither send nor take a byte.
Fairness ==
    \A s \in Stream :
        /\ WF_vars(Run(s))
        /\ WF_vars(Writer(s))
        /\ WF_vars(Elapse(s))

FairSpec == Spec /\ Fairness

-----------------------------------------------------------------------------
(* Properties. *)

\* Type invariant of the streams, the two tasks and the channel.
TypeOK ==
    /\ CLIENT_ID_COUNTER \in Nat
    /\ client_id \in [Stream -> Nat]
    /\ run \in [Stream -> {"none", "start", "handshake", "dispatch", "done"}]
    /\ result \in [Stream -> ClientError \cup {"none", "Ok"}]
    /\ connect_info \in [Stream -> Seq(Frame)]
    /\ deadline \in [Stream -> {"unset", "running", "elapsed"}]
    /\ sent \in [Stream -> Seq(Frame)]
    /\ inbound \in [Stream -> Seq(Frame)]
    /\ ended \in [Stream -> {"open", "eof", "error"}]
    /\ dispatched \in [Stream -> Seq(Frame)]
    /\ outbound \in [Stream -> Seq(Nat)]
    /\ writer \in [Stream -> {"none", "recv", "drain", "flush", "exited"}]
    /\ write_buffer \in [Stream -> Seq(Nat)]
    /\ wire \in [Stream -> Seq(Nat)]
    /\ send_half \in [Stream -> {"held", "open", "stopped"}]
    /\ lost \subseteq Stream

\* Clients that were given an id by ClientId::new never share one.
UniqueClientIds ==
    \A s, u \in Stream :
        s # u /\ run[s] # "none" /\ run[u] # "none" => client_id[s] # client_id[u]

\* A peer is sent one INFO, with its own id and no more than once, however
\* the run and the writer interleave; and the writer does not drop its end of
\* a stream that can still be written before INFO is out, even when the run
\* failed at once.
InfoOnceBeforeClose ==
    \A s \in Stream :
        /\ wire[s] \in {<<>>, <<client_id[s]>>}
        /\ writer[s] = "exited" => wire[s] # <<>> \/ Broken(s)

\* The writer outlives the run, so the send of INFO cannot fail, and INFO
\* finds room in the channel, so it cannot block ahead of the timer either.
InfoAlwaysQueued ==
    \A s \in Stream :
        /\ run[s] \in {"start", "handshake", "dispatch"} =>
              writer[s] \in {"recv", "drain", "flush"}
        /\ run[s] = "start" => Len(outbound[s]) < Capacity
        /\ result[s] # "OutboundChannelClosed"

\* A frame is dispatched only behind a CONNECT that on_connect accepted, and
\* the frames that follow it are dispatched in order, none lost or repeated.
DispatchedInOrder ==
    \A s \in Stream :
        /\ connect_info[s] = <<>> => dispatched[s] = <<>>
        /\ connect_info[s] # <<>> =>
              /\ connect_info[s][1] \in Connect \ Rejected
              /\ sent[s] = connect_info[s] \o dispatched[s] \o inbound[s]

\* The handshake ends for every client, also for one that never speaks and
\* takes nothing, so that the writer hangs in its flush.
HandshakeEnds ==
    \A s \in Stream : run[s] = "start" ~> run[s] \in {"dispatch", "done"}

\* When the peer has gone the run ends, whatever frames are still unread and
\* even if the writer hangs.
RunEnds ==
    \A s \in Stream :
        run[s] # "none" /\ ended[s] # "open" ~> run[s] = "done"

\* When the run has ended, however it did, the writer ends too and lets go of
\* the stream, once the peer takes INFO or writing fails: after an error that
\* was ignored, and with INFO still unread in the channel.  A peer that does
\* neither and keeps its connection alive holds the writer for ever.
WriterEnds ==
    \A s \in Stream :
        run[s] = "done" /\ (Broken(s) \/ send_half[s] = "open") ~> writer[s] = "exited"

\* pubsub.proto of Info: "This message must be exchanged during the initial
\* handshake before a connection is established."
InfoBeforeEstablished ==
    \A s \in Stream : run[s] = "dispatch" => wire[s] # <<>> \/ Broken(s)

\* pubsub.proto of Connect.version: "Required to detect and gracefully handle
\* protocol mismatches between client and server early."
VersionsAgree ==
    \A s \in Stream :
        run[s] = "dispatch" => Version[connect_info[s][1]] = PROTOCOL_VERSION

=============================================================================
