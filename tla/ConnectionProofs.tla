-------------------------- MODULE ConnectionProofs --------------------------
(***************************************************************************)
(* Proofs about the connection pipeline, for any number of streams, any    *)
(* channel capacity and any number of frames.                              *)
(***************************************************************************)
EXTENDS Connection, SequenceTheorems, TLAPS

\* Ids below the counter are the only ones handed out, each to one stream.
IdInv ==
    /\ \A s \in Stream : run[s] # "none" => client_id[s] < CLIENT_ID_COUNTER
    /\ UniqueClientIds

\* Where the one INFO of a stream is: not queued yet, in the channel, in the
\* write buffer (for good when writing fails), or on the wire.
InfoPlace(s) ==
    /\ run[s] = "none" => writer[s] = "none"
    /\ run[s] = "start" => writer[s] = "recv"
    /\ run[s] \in {"none", "start"} =>
          outbound[s] = <<>> /\ write_buffer[s] = <<>> /\ wire[s] = <<>>
    /\ run[s] \in {"handshake", "dispatch", "done"} =>
          \/ /\ writer[s] = "recv"
             /\ outbound[s] = <<client_id[s]>> /\ write_buffer[s] = <<>> /\ wire[s] = <<>>
          \/ /\ writer[s] \in {"drain", "flush"} \/ (writer[s] \in {"recv", "exited"} /\ Broken(s))
             /\ outbound[s] = <<>> /\ write_buffer[s] = <<client_id[s]>> /\ wire[s] = <<>>
          \/ /\ writer[s] \in {"recv", "exited"}
             /\ outbound[s] = <<>> /\ write_buffer[s] = <<>> /\ wire[s] = <<client_id[s]>>
    /\ writer[s] = "exited" => run[s] = "done"
    /\ result[s] # "OutboundChannelClosed"

InfoInv == \A s \in Stream : InfoPlace(s)

-----------------------------------------------------------------------------

\* Head and Tail of a queue that is not empty stay within its element type.
LEMMA HeadTail ==
    ASSUME NEW S, NEW q \in Seq(S), q # <<>>
    PROVE  Head(q) \in S /\ Tail(q) \in Seq(S)
OBVIOUS

\* Sequences that are made of elements of S are in Seq(S).
LEMMA SeqTypes ==
    ASSUME NEW S, NEW x \in S, NEW q \in Seq(S), NEW r \in Seq(S)
    PROVE  <<x>> \in Seq(S) /\ Append(q, x) \in Seq(S) /\ q \o r \in Seq(S)
OBVIOUS

\* A function stays within its type when one value is replaced.
LEMMA Update ==
    ASSUME NEW T, NEW f \in [Stream -> T], NEW s \in Stream, NEW v \in T
    PROVE  [f EXCEPT ![s] = v] \in [Stream -> T]
OBVIOUS

\* The states of Client::run and of run_outbound_writer, and what run returns.
RunState == {"none", "start", "handshake", "dispatch", "done"}
WriterState == {"none", "recv", "drain", "flush", "exited"}
RunResult == ClientError \cup {"none", "Ok"}

\* A step of Client::run keeps the types.
LEMMA TypeRun == ASSUME TypeOK, NEW s \in Stream, Run(s) PROVE TypeOK'
<1>t. /\ run \in [Stream -> RunState]
      /\ result \in [Stream -> RunResult]
      /\ connect_info \in [Stream -> Seq(Frame)]
      /\ deadline \in [Stream -> {"unset", "running", "elapsed"}]
      /\ inbound \in [Stream -> Seq(Frame)]
      /\ dispatched \in [Stream -> Seq(Frame)]
      /\ outbound \in [Stream -> Seq(Nat)]
    BY DEF TypeOK, RunState, RunResult
<1>r. ASSUME NEW r \in RunResult, Return(s, r)
      PROVE  run' \in [Stream -> RunState] /\ result' \in [Stream -> RunResult]
    BY <1>r, <1>t, Update DEF Return, RunState
<1>1. CASE SendInfo(s)
    <2>1. client_id[s] \in Nat /\ outbound[s] \in Seq(Nat)
        BY DEF TypeOK
    <2>2. Append(outbound[s], client_id[s]) \in Seq(Nat)
        BY <2>1, SeqTypes
    <2>3. CASE writer[s] = "exited"
        <3>1. Return(s, "OutboundChannelClosed") /\ UNCHANGED <<outbound, deadline>>
            BY <1>1, <2>3 DEF SendInfo, info
        <3>2. run' \in [Stream -> RunState] /\ result' \in [Stream -> RunResult]
            BY <1>r, <3>1 DEF RunResult, ClientError, HandshakeError
        <3>3. QED
            BY <1>1, <3>1, <3>2, Zenon DEF SendInfo, info, idVars, peerVars, writerVars,
                                           TypeOK, RunState, RunResult
    <2>4. CASE writer[s] # "exited"
        <3>1. /\ outbound' = [outbound EXCEPT ![s] = Append(outbound[s], client_id[s])]
              /\ run' = [run EXCEPT ![s] = "handshake"]
              /\ deadline' = [deadline EXCEPT ![s] = "running"]
              /\ UNCHANGED result
            BY <1>1, <2>4 DEF SendInfo, info
        <3>2. outbound' \in [Stream -> Seq(Nat)]
            BY <1>t, <2>2, <3>1, Update
        <3>3. /\ run' \in [Stream -> RunState]
              /\ deadline' \in [Stream -> {"unset", "running", "elapsed"}]
            BY <1>t, <3>1, Update DEF RunState
        <3>4. QED
            BY <1>1, <3>1, <3>2, <3>3, Zenon DEF SendInfo, info, idVars, peerVars, writerVars,
                                                 TypeOK, RunState, RunResult
    <2>5. QED
        BY <2>3, <2>4
<1>2. CASE HandshakeFrame(s)
    <2>1. inbound[s] \in Seq(Frame) /\ inbound[s] # <<>>
        BY <1>2, <1>t DEF HandshakeFrame
    <2>2. Head(inbound[s]) \in Frame /\ Tail(inbound[s]) \in Seq(Frame)
        BY <2>1, HeadTail
    <2>3. <<Head(inbound[s])>> \in Seq(Frame)
        BY <2>2
    <2>4. inbound' = [inbound EXCEPT ![s] = Tail(inbound[s])]
        BY <1>2 DEF HandshakeFrame
    <2>5. inbound' \in [Stream -> Seq(Frame)]
        BY <1>t, <2>2, <2>4, Update
    <2>6. /\ run' \in [Stream -> RunState] /\ result' \in [Stream -> RunResult]
          /\ connect_info' \in [Stream -> Seq(Frame)]
        <3>1. CASE run' = [run EXCEPT ![s] = "dispatch"] /\ UNCHANGED result
                   /\ connect_info' = [connect_info EXCEPT ![s] = <<Head(inbound[s])>>]
            BY <1>t, <2>3, <3>1, Update DEF RunState
        <3>2. CASE (\E r \in {"AuthenticationFailed", "ConnectionClosed"} : Return(s, r))
                   /\ UNCHANGED connect_info
            BY <1>r, <1>t, <3>2 DEF RunResult, ClientError, HandshakeError
        <3>3. QED
            BY <1>2, <3>1, <3>2 DEF HandshakeFrame, on_connect, authenticate
    <2>7. QED
        BY <1>2, <2>5, <2>6, Zenon DEF HandshakeFrame, idVars, writerVars,
                                       TypeOK, RunState, RunResult
<1>3. CASE HandshakeEnded(s) \/ HandshakeTimeout(s) \/ DispatchEnded(s)
    <2>1. \E r \in RunResult : Return(s, r)
        BY <1>3 DEF HandshakeEnded, HandshakeTimeout, DispatchEnded, RunResult,
           ClientError, HandshakeError
    <2>2. run' \in [Stream -> RunState] /\ result' \in [Stream -> RunResult]
        BY <1>r, <2>1
    <2>3. UNCHANGED <<connect_info, deadline, dispatched, idVars, peerVars, outbound, writerVars>>
        BY <1>3 DEF HandshakeEnded, HandshakeTimeout, DispatchEnded
    <2>4. QED
        BY <2>2, <2>3, Zenon DEF idVars, peerVars, writerVars, TypeOK, RunState, RunResult
<1>4. CASE DispatchFrame(s)
    <2>1. /\ inbound[s] \in Seq(Frame) /\ inbound[s] # <<>>
          /\ dispatched[s] \in Seq(Frame)
        BY <1>4, <1>t DEF DispatchFrame
    <2>2. Head(inbound[s]) \in Frame /\ Tail(inbound[s]) \in Seq(Frame)
        BY <2>1, HeadTail
    <2>3. Append(dispatched[s], Head(inbound[s])) \in Seq(Frame)
        BY <2>1, <2>2
    <2>4. /\ dispatched' = [dispatched EXCEPT ![s] = Append(dispatched[s], Head(inbound[s]))]
          /\ inbound' = [inbound EXCEPT ![s] = Tail(inbound[s])]
        BY <1>4 DEF DispatchFrame
    <2>5. dispatched' \in [Stream -> Seq(Frame)] /\ inbound' \in [Stream -> Seq(Frame)]
        BY <1>t, <2>2, <2>3, <2>4, Update
    <2>6. QED
        BY <1>4, <2>5, Zenon DEF DispatchFrame, idVars, writerVars, TypeOK
<1>5. QED
    BY <1>1, <1>2, <1>3, <1>4 DEF Run

\* A step of run_outbound_writer keeps the types.
LEMMA TypeWriter == ASSUME TypeOK, NEW s \in Stream, Writer(s) PROVE TypeOK'
<1>t. /\ writer \in [Stream -> WriterState]
      /\ outbound \in [Stream -> Seq(Nat)]
      /\ write_buffer \in [Stream -> Seq(Nat)]
      /\ wire \in [Stream -> Seq(Nat)]
    BY DEF TypeOK, WriterState
<1>u. UNCHANGED <<idVars, runVars, peerVars>>
    BY DEF Writer, WriterRecv, dispatch_outbound, WriterDrain, WriterFlush, WriterExit
<1>q. outbound[s] \in Seq(Nat) /\ write_buffer[s] \in Seq(Nat) /\ wire[s] \in Seq(Nat)
    BY <1>t
<1>m. outbound[s] # <<>> =>
         /\ Tail(outbound[s]) \in Seq(Nat)
         /\ Append(write_buffer[s], Head(outbound[s])) \in Seq(Nat)
    <2> SUFFICES ASSUME outbound[s] # <<>>
                 PROVE  /\ Tail(outbound[s]) \in Seq(Nat)
                        /\ Append(write_buffer[s], Head(outbound[s])) \in Seq(Nat)
        OBVIOUS
    <2>1. Head(outbound[s]) \in Nat /\ Tail(outbound[s]) \in Seq(Nat)
        BY <1>q, HeadTail
    <2>2. QED
        BY <1>q, <2>1, SeqTypes
<1>1. writer' \in [Stream -> WriterState]
    <2>1. UNCHANGED writer \/ \E w \in WriterState : writer' = [writer EXCEPT ![s] = w]
        BY DEF Writer, WriterRecv, dispatch_outbound, WriterDrain, WriterFlush, WriterExit,
           WriterState
    <2>2. QED
        BY <1>t, <2>1, Update
<1>2. outbound' \in [Stream -> Seq(Nat)]
    <2>1. \/ UNCHANGED outbound
          \/ outbound[s] # <<>> /\ outbound' = [outbound EXCEPT ![s] = Tail(outbound[s])]
        BY DEF Writer, WriterRecv, dispatch_outbound, WriterDrain, WriterFlush, WriterExit
    <2>2. QED
        BY <1>t, <1>m, <2>1, Update
<1>3. write_buffer' \in [Stream -> Seq(Nat)]
    <2>1. \/ UNCHANGED write_buffer
          \/ write_buffer' = [write_buffer EXCEPT ![s] = <<>>]
          \/ /\ outbound[s] # <<>>
             /\ write_buffer' =
                   [write_buffer EXCEPT ![s] = Append(write_buffer[s], Head(outbound[s]))]
        BY DEF Writer, WriterRecv, dispatch_outbound, WriterDrain, WriterFlush, WriterExit
    <2>2. <<>> \in Seq(Nat)
        OBVIOUS
    <2>3. QED
        BY <1>t, <1>m, <2>1, <2>2, Update
<1>4. wire' \in [Stream -> Seq(Nat)]
    <2>1. \/ UNCHANGED wire
          \/ wire' = [wire EXCEPT ![s] = wire[s] \o write_buffer[s]]
        BY DEF Writer, WriterRecv, dispatch_outbound, WriterDrain, WriterFlush, WriterExit
    <2>2. wire[s] \o write_buffer[s] \in Seq(Nat)
        BY <1>q
    <2>3. QED
        BY <1>t, <2>1, <2>2, Update
<1>5. QED
    BY <1>u, <1>1, <1>2, <1>3, <1>4, Zenon DEF idVars, runVars, peerVars, TypeOK, WriterState

\* A step of the peer or of the network keeps the types.
LEMMA TypePeer == ASSUME TypeOK, NEW s \in Stream, Peer(s) PROVE TypeOK'
<1>t. /\ sent \in [Stream -> Seq(Frame)]
      /\ inbound \in [Stream -> Seq(Frame)]
      /\ ended \in [Stream -> {"open", "eof", "error"}]
      /\ send_half \in [Stream -> {"held", "open", "stopped"}]
      /\ lost \subseteq Stream
    BY DEF TypeOK
<1>1. ASSUME NEW f \in Frame, PeerSend(s, f) PROVE TypeOK'
    <2>1. /\ sent' = [sent EXCEPT ![s] = Append(sent[s], f)]
          /\ inbound' = [inbound EXCEPT ![s] = Append(inbound[s], f)]
        BY <1>1 DEF PeerSend
    <2>2. Append(sent[s], f) \in Seq(Frame) /\ Append(inbound[s], f) \in Seq(Frame)
        BY <1>t
    <2>3. sent' \in [Stream -> Seq(Frame)] /\ inbound' \in [Stream -> Seq(Frame)]
        BY <1>t, <2>1, <2>2, Update
    <2>4. QED
        BY <1>1, <2>3, Zenon DEF PeerSend, idVars, runVars, writerVars, TypeOK
<1>2. ASSUME NEW how \in {"eof", "error"}, PeerEnd(s, how) PROVE TypeOK'
    <2>1. ended' \in [Stream -> {"open", "eof", "error"}]
        BY <1>2, <1>t DEF PeerEnd
    <2>2. QED
        BY <1>2, <2>1, Zenon DEF PeerEnd, idVars, runVars, writerVars, TypeOK
<1>3. CASE ConnectionLost(s)
    <2>1. ended' \in [Stream -> {"open", "eof", "error"}] /\ lost' \subseteq Stream
        BY <1>3, <1>t DEF ConnectionLost
    <2>2. QED
        BY <1>3, <2>1, Zenon DEF ConnectionLost, idVars, runVars, writerVars, TypeOK
<1>4. CASE PeerTakes(s) \/ PeerStops(s)
    <2>1. send_half' \in [Stream -> {"held", "open", "stopped"}]
        BY <1>4, <1>t DEF PeerTakes, PeerStops
    <2>2. UNCHANGED <<sent, inbound, ended, lost, idVars, runVars, outbound, writerVars>>
        BY <1>4 DEF PeerTakes, PeerStops
    <2>3. QED
        BY <2>1, <2>2, Zenon DEF idVars, runVars, writerVars, TypeOK
<1>5. QED
    BY <1>1, <1>2, <1>3, <1>4 DEF Peer

\* Every step of every task and of the peer keeps the types.
LEMMA TypeStep == TypeOK /\ [Next]_vars => TypeOK'
<1> SUFFICES ASSUME TypeOK, [Next]_vars PROVE TypeOK'
    OBVIOUS
<1>0. CASE UNCHANGED vars
    BY <1>0, Zenon DEF vars, TypeOK
<1>1. ASSUME NEW s \in Stream, Accept(s) PROVE TypeOK'
    <2>1. /\ CLIENT_ID_COUNTER \in Nat
          /\ client_id \in [Stream -> Nat]
          /\ run \in [Stream -> RunState]
          /\ writer \in [Stream -> WriterState]
        BY DEF TypeOK, RunState, WriterState
    <2>2. /\ CLIENT_ID_COUNTER' \in Nat
          /\ client_id' \in [Stream -> Nat]
          /\ run' \in [Stream -> RunState]
          /\ writer' \in [Stream -> WriterState]
        BY <1>1, <2>1 DEF Accept, NewClientId, RunState, WriterState
    <2>3. QED
        BY <1>1, <2>2, Zenon DEF Accept, peerVars, TypeOK, RunState, WriterState
<1>2. ASSUME NEW s \in Stream, Elapse(s) PROVE TypeOK'
    <2>1. deadline' \in [Stream -> {"unset", "running", "elapsed"}]
        BY <1>2 DEF Elapse, TypeOK
    <2>2. QED
        BY <1>2, <2>1, Zenon DEF Elapse, idVars, peerVars, writerVars, TypeOK
<1>3. QED
    BY <1>0, <1>1, <1>2, TypeRun, TypeWriter, TypePeer DEF Next

\* The type invariant of the connection pipeline holds throughout.
THEOREM TypeCorrect == Spec => []TypeOK
<1>1. Init => TypeOK
    BY DEF Init, TypeOK
<1>2. QED
    BY <1>1, TypeStep, PTL DEF Spec

-----------------------------------------------------------------------------

\* Every variable but the counter and lost is a function on the streams.
LEMMA Domains ==
    ASSUME TypeOK
    PROVE  /\ DOMAIN client_id = Stream /\ DOMAIN run = Stream
           /\ DOMAIN result = Stream /\ DOMAIN connect_info = Stream
           /\ DOMAIN sent = Stream /\ DOMAIN inbound = Stream
           /\ DOMAIN dispatched = Stream /\ DOMAIN outbound = Stream
           /\ DOMAIN writer = Stream /\ DOMAIN write_buffer = Stream
           /\ DOMAIN wire = Stream /\ DOMAIN send_half = Stream
BY DEF TypeOK

\* A step that leaves stream u alone.
Untouched(u) ==
    /\ client_id'[u] = client_id[u]
    /\ run'[u] = run[u]
    /\ result'[u] = result[u]
    /\ connect_info'[u] = connect_info[u]
    /\ sent'[u] = sent[u]
    /\ inbound'[u] = inbound[u]
    /\ dispatched'[u] = dispatched[u]
    /\ outbound'[u] = outbound[u]
    /\ writer'[u] = writer[u]
    /\ write_buffer'[u] = write_buffer[u]
    /\ wire'[u] = wire[u]
    /\ u \in lost' <=> u \in lost
    /\ send_half'[u] = send_half[u]

\* The tasks and the peer of one stream do not touch another stream.
LEMMA OthersUntouched ==
    ASSUME TypeOK, NEW s \in Stream, NEW u \in Stream, u # s,
           Accept(s) \/ Elapse(s) \/ Run(s) \/ Writer(s) \/ Peer(s)
    PROVE  Untouched(u)
<1>1. CASE Accept(s)
    BY <1>1, Domains DEF Accept, NewClientId, peerVars, Untouched
<1>2. CASE Elapse(s)
    BY <1>2 DEF Elapse, idVars, peerVars, writerVars, Untouched
<1>3. CASE SendInfo(s)
    <2>1. run'[u] = run[u] /\ result'[u] = result[u] /\ outbound'[u] = outbound[u]
        BY <1>3, Domains DEF SendInfo, info, Return
    <2>2. QED
        BY <1>3, <2>1 DEF SendInfo, info, idVars, peerVars, writerVars, Untouched
<1>4. CASE HandshakeFrame(s)
    <2>1. /\ run'[u] = run[u] /\ result'[u] = result[u]
          /\ connect_info'[u] = connect_info[u] /\ inbound'[u] = inbound[u]
        BY <1>4, Domains DEF HandshakeFrame, Return
    <2>2. QED
        BY <1>4, <2>1 DEF HandshakeFrame, idVars, writerVars, Untouched
<1>5. CASE HandshakeEnded(s) \/ HandshakeTimeout(s) \/ DispatchEnded(s)
    <2>1. run'[u] = run[u] /\ result'[u] = result[u]
        BY <1>5, Domains DEF HandshakeEnded, HandshakeTimeout, DispatchEnded, Return
    <2>2. QED
        BY <1>5, <2>1 DEF HandshakeEnded, HandshakeTimeout, DispatchEnded,
                          idVars, peerVars, writerVars, Untouched
<1>6. CASE DispatchFrame(s)
    BY <1>6, Domains DEF DispatchFrame, idVars, writerVars, Untouched
<1>7. CASE Writer(s)
    <2>1. /\ outbound'[u] = outbound[u] /\ writer'[u] = writer[u]
          /\ write_buffer'[u] = write_buffer[u] /\ wire'[u] = wire[u]
        BY <1>7, Domains DEF Writer, WriterRecv, dispatch_outbound, WriterDrain,
           WriterFlush, WriterExit
    <2>2. UNCHANGED <<idVars, runVars, peerVars>>
        BY <1>7 DEF Writer, WriterRecv, dispatch_outbound, WriterDrain, WriterFlush, WriterExit
    <2>3. QED
        BY <2>1, <2>2 DEF idVars, runVars, peerVars, Untouched
<1>8. CASE Peer(s)
    <2>1. /\ sent'[u] = sent[u] /\ inbound'[u] = inbound[u]
          /\ u \in lost' <=> u \in lost
          /\ send_half'[u] = send_half[u]
        <3>1. CASE \E f \in Frame : PeerSend(s, f)
            BY <3>1, Domains DEF PeerSend
        <3>2. CASE \E how \in {"eof", "error"} : PeerEnd(s, how)
            BY <3>2 DEF PeerEnd
        <3>3. CASE ConnectionLost(s)
            BY <3>3 DEF ConnectionLost
        <3>4. CASE PeerTakes(s) \/ PeerStops(s)
            BY <3>4, Domains DEF PeerTakes, PeerStops
        <3>5. QED
            BY <1>8, <3>1, <3>2, <3>3, <3>4 DEF Peer
    <2>2. UNCHANGED <<idVars, runVars, outbound, writerVars>>
        BY <1>8 DEF Peer, PeerSend, PeerEnd, ConnectionLost, PeerTakes, PeerStops
    <2>3. QED
        BY <2>1, <2>2 DEF idVars, runVars, writerVars, Untouched
<1>9. QED
    BY <1>1, <1>2, <1>3, <1>4, <1>5, <1>6, <1>7, <1>8 DEF Run

-----------------------------------------------------------------------------

\* Ids are handed out by Accept alone, and only Accept takes a stream from "none".
LEMMA OnlyAcceptAssigns ==
    ASSUME TypeOK, NEW s \in Stream, Elapse(s) \/ Run(s) \/ Writer(s) \/ Peer(s)
    PROVE  /\ UNCHANGED CLIENT_ID_COUNTER
           /\ UNCHANGED client_id
           /\ \A u \in Stream : run[u] = "none" => run'[u] = "none"
<1>1. CASE Elapse(s)
    BY <1>1 DEF Elapse, idVars
<1>2. CASE Run(s)
    <2>1. UNCHANGED CLIENT_ID_COUNTER /\ UNCHANGED client_id
        BY <1>2 DEF Run, SendInfo, info, HandshakeFrame, HandshakeEnded,
                    HandshakeTimeout, DispatchFrame, DispatchEnded, idVars
    <2>2. /\ run[s] # "none"
          /\ \E r : run' = [run EXCEPT ![s] = r]
        <3>1. CASE DispatchFrame(s)
            BY <3>1 DEF DispatchFrame, TypeOK
        <3>2. CASE SendInfo(s)
            BY <3>2 DEF SendInfo, info, Return
        <3>3. CASE HandshakeFrame(s)
            BY <3>3 DEF HandshakeFrame, Return
        <3>4. CASE HandshakeEnded(s) \/ HandshakeTimeout(s) \/ DispatchEnded(s)
            BY <3>4 DEF HandshakeEnded, HandshakeTimeout, DispatchEnded, Return
        <3>5. QED
            BY <1>2, <3>1, <3>2, <3>3, <3>4 DEF Run
    <2>3. DOMAIN run = Stream
        BY Domains
    <2>4. QED
        BY <2>1, <2>2, <2>3
<1>3. CASE Writer(s)
    BY <1>3 DEF Writer, WriterRecv, dispatch_outbound, WriterDrain, WriterFlush,
       WriterExit, runVars, idVars
<1>4. CASE Peer(s)
    BY <1>4 DEF Peer, PeerSend, PeerEnd, ConnectionLost, PeerTakes, PeerStops, runVars, idVars
<1>5. QED
    BY <1>1, <1>2, <1>3, <1>4

\* No two clients share an id: every id in use is below the counter, which
\* only grows.
THEOREM UniqueIds == Spec => []UniqueClientIds
<1>1. Init => IdInv
    BY DEF Init, IdInv, UniqueClientIds
<1>2. TypeOK /\ IdInv /\ [Next]_vars => IdInv'
    <2> SUFFICES ASSUME TypeOK, IdInv, [Next]_vars PROVE IdInv'
        OBVIOUS
    <2>t. /\ CLIENT_ID_COUNTER \in Nat
          /\ \A u \in Stream : client_id[u] \in Nat
          /\ DOMAIN client_id = Stream /\ DOMAIN run = Stream
        BY Domains DEF TypeOK
    <2>0. CASE UNCHANGED vars
        BY <2>0 DEF vars, IdInv, UniqueClientIds
    <2>1. ASSUME NEW s \in Stream, Accept(s) PROVE IdInv'
        <3>1. /\ client_id' = [client_id EXCEPT ![s] = CLIENT_ID_COUNTER]
              /\ CLIENT_ID_COUNTER' = CLIENT_ID_COUNTER + 1
              /\ run' = [run EXCEPT ![s] = "start"]
            BY <2>1 DEF Accept, NewClientId
        <3>2. /\ client_id'[s] = CLIENT_ID_COUNTER
              /\ \A u \in Stream : u # s => client_id'[u] = client_id[u] /\ run'[u] = run[u]
            BY ONLY <2>t, <3>1
        <3>3. ASSUME NEW u \in Stream, run'[u] # "none"
              PROVE  client_id'[u] < CLIENT_ID_COUNTER'
            BY <2>t, <3>1, <3>2, <3>3 DEF IdInv
        <3>4. ASSUME NEW u \in Stream, NEW v \in Stream, u # v,
                     run'[u] # "none", run'[v] # "none"
              PROVE  client_id'[u] # client_id'[v]
            <4>1. CASE u = s
                BY <2>t, <3>2, <3>4, <4>1 DEF IdInv
            <4>2. CASE v = s
                BY <2>t, <3>2, <3>4, <4>2 DEF IdInv
            <4>3. CASE u # s /\ v # s
                BY <3>2, <3>4, <4>3 DEF IdInv, UniqueClientIds
            <4>4. QED
                BY <4>1, <4>2, <4>3
        <3>5. QED
            BY <3>3, <3>4 DEF IdInv, UniqueClientIds
    <2>2. ASSUME NEW s \in Stream, Elapse(s) \/ Run(s) \/ Writer(s) \/ Peer(s)
          PROVE  IdInv'
        <3>1. /\ UNCHANGED CLIENT_ID_COUNTER
              /\ UNCHANGED client_id
              /\ \A u \in Stream : run[u] = "none" => run'[u] = "none"
            BY <2>2, OnlyAcceptAssigns
        <3>2. QED
            BY <3>1 DEF IdInv, UniqueClientIds
    <2>3. QED
        BY <2>0, <2>1, <2>2 DEF Next
<1>3. IdInv => UniqueClientIds
    BY DEF IdInv
<1>4. QED
    BY <1>1, <1>2, <1>3, TypeCorrect, PTL DEF Spec

-----------------------------------------------------------------------------

\* What a queue of one element becomes.
LEMMA OneElement ==
    ASSUME NEW x
    PROVE  /\ <<x>> # <<>>
           /\ Head(<<x>>) = x /\ Tail(<<x>>) = <<>>
           /\ Append(<<>>, x) = <<x>> /\ <<>> \o <<x>> = <<x>>
OBVIOUS

\* The step of a run after INFO is queued leaves INFO where it is.
LEMMA RunLeavesInfo ==
    ASSUME NEW s \in Stream, InfoPlace(s),
           run[s] \in {"handshake", "dispatch"},
           run'[s] \in {"handshake", "dispatch", "done"},
           result'[s] # "OutboundChannelClosed",
           UNCHANGED <<client_id, outbound, writer, write_buffer, wire, lost, send_half>>
    PROVE  InfoPlace(s)'
BY DEF InfoPlace, Broken

\* Client::run keeps INFO in its place.
LEMMA InfoRun ==
    ASSUME TypeOK, NEW s \in Stream, InfoPlace(s), Run(s)
    PROVE  InfoPlace(s)'
<1>d. DOMAIN run = Stream /\ DOMAIN result = Stream /\ DOMAIN outbound = Stream
    BY Domains
<1>r. result[s] # "OutboundChannelClosed"
    BY DEF InfoPlace
<1>1. CASE SendInfo(s)
    <2>1. /\ run[s] = "start" /\ writer[s] = "recv" /\ outbound[s] = <<>>
          /\ write_buffer[s] = <<>> /\ wire[s] = <<>>
        BY <1>1 DEF SendInfo, info, InfoPlace
    <2>2. /\ outbound' = [outbound EXCEPT ![s] = Append(outbound[s], client_id[s])]
          /\ run' = [run EXCEPT ![s] = "handshake"]
          /\ UNCHANGED <<result, client_id, writer, write_buffer, wire, lost, send_half>>
        BY <1>1, <2>1 DEF SendInfo, info, idVars, peerVars, writerVars
    <2>3. outbound'[s] = <<client_id[s]>> /\ run'[s] = "handshake"
        BY <1>d, <2>1, <2>2, OneElement
    <2>4. QED
        BY <1>r, <2>1, <2>2, <2>3 DEF InfoPlace, Broken
<1>2. CASE HandshakeFrame(s)
    <2>1. /\ run[s] = "handshake"
          /\ UNCHANGED <<client_id, outbound, writer, write_buffer, wire, lost, send_half>>
        BY <1>2 DEF HandshakeFrame, idVars, writerVars
    <2>2. \/ run' = [run EXCEPT ![s] = "dispatch"] /\ result' = result
          \/ /\ run' = [run EXCEPT ![s] = "done"]
             /\ \E r \in {"AuthenticationFailed", "Completed", "ConnectionClosed"} :
                    result' = [result EXCEPT ![s] = r]
        BY <1>2 DEF HandshakeFrame, Return, on_connect, authenticate
    <2>3. /\ run'[s] \in {"dispatch", "done"}
          /\ result'[s] # "OutboundChannelClosed"
        BY <1>d, <1>r, <2>2
    <2>4. QED
        BY <2>1, <2>3, RunLeavesInfo
<1>3. CASE HandshakeEnded(s) \/ HandshakeTimeout(s) \/ DispatchEnded(s)
    <2>1. /\ run[s] \in {"handshake", "dispatch"}
          /\ UNCHANGED <<client_id, outbound, writer, write_buffer, wire, lost, send_half>>
        BY <1>3 DEF HandshakeEnded, HandshakeTimeout, DispatchEnded, idVars, peerVars,
           writerVars
    <2>2. /\ run' = [run EXCEPT ![s] = "done"]
          /\ \E r \in {"Ok", "Codec", "ConnectTimeout", "ConnectionClosed"} :
                 result' = [result EXCEPT ![s] = r]
        BY <1>3 DEF HandshakeEnded, HandshakeTimeout, DispatchEnded, Return
    <2>3. run'[s] = "done" /\ result'[s] # "OutboundChannelClosed"
        BY <1>d, <2>2
    <2>4. QED
        BY <2>1, <2>3, RunLeavesInfo
<1>4. CASE DispatchFrame(s)
    BY <1>4, <1>r, RunLeavesInfo DEF DispatchFrame, idVars, writerVars
<1>5. QED
    BY <1>1, <1>2, <1>3, <1>4 DEF Run

\* run_outbound_writer moves INFO from the channel to the buffer to the wire.
LEMMA InfoWriter ==
    ASSUME TypeOK, NEW s \in Stream, InfoPlace(s), Writer(s)
    PROVE  InfoPlace(s)'
<1>d. /\ DOMAIN outbound = Stream /\ DOMAIN writer = Stream
      /\ DOMAIN write_buffer = Stream /\ DOMAIN wire = Stream
    BY Domains
<1>t. run[s] \in {"none", "start", "handshake", "dispatch", "done"}
    BY DEF TypeOK
<1>u. UNCHANGED <<run, result, client_id, lost, send_half>>
    BY DEF Writer, WriterRecv, dispatch_outbound, WriterDrain, WriterFlush, WriterExit,
           idVars, runVars, peerVars
<1>1. CASE WriterRecv(s)
    <2>1. /\ outbound[s] = <<client_id[s]>> /\ write_buffer[s] = <<>>
          /\ wire[s] = <<>> /\ run[s] \in {"handshake", "dispatch", "done"}
        BY <1>1, <1>t DEF WriterRecv, dispatch_outbound, InfoPlace
    <2>2. outbound'[s] = <<>> /\ write_buffer'[s] = <<client_id[s]>> /\ writer'[s] = "drain"
        BY <1>1, <1>d, <2>1, OneElement DEF WriterRecv, dispatch_outbound
    <2>3. UNCHANGED wire
        BY <1>1 DEF WriterRecv, dispatch_outbound
    <2>4. QED
        BY <1>u, <2>1, <2>2, <2>3 DEF InfoPlace
<1>2. CASE WriterDrain(s)
    <2>1. /\ outbound[s] = <<>> /\ write_buffer[s] = <<client_id[s]>>
          /\ wire[s] = <<>> /\ run[s] \in {"handshake", "dispatch", "done"}
        BY <1>2, <1>t DEF WriterDrain, dispatch_outbound, InfoPlace
    <2>2. writer' = [writer EXCEPT ![s] = "flush"] /\ UNCHANGED <<outbound, write_buffer, wire>>
        BY <1>2, <2>1 DEF WriterDrain, dispatch_outbound
    <2>3. writer'[s] = "flush"
        BY <1>d, <2>2
    <2>4. QED
        BY <1>u, <2>1, <2>2, <2>3 DEF InfoPlace
<1>3. CASE WriterFlush(s)
    <2>1. /\ outbound[s] = <<>> /\ write_buffer[s] = <<client_id[s]>>
          /\ wire[s] = <<>> /\ run[s] \in {"handshake", "dispatch", "done"}
        BY <1>3, <1>t DEF WriterFlush, InfoPlace
    <2>2. writer'[s] = "recv" /\ UNCHANGED outbound
        BY <1>3, <1>d DEF WriterFlush
    <2>3. CASE Broken(s)
        <3>1. UNCHANGED <<write_buffer, wire>>
            BY <1>3, <2>3 DEF WriterFlush
        <3>2. QED
            BY <1>u, <2>1, <2>2, <2>3, <3>1 DEF InfoPlace, Broken
    <2>4. CASE ~Broken(s)
        <3>1. wire'[s] = <<client_id[s]>> /\ write_buffer'[s] = <<>>
            BY <1>3, <1>d, <2>1, <2>4, OneElement DEF WriterFlush
        <3>2. QED
            BY <1>u, <2>1, <2>2, <3>1 DEF InfoPlace
    <2>5. QED
        BY <2>3, <2>4
<1>4. CASE WriterExit(s)
    <2>1. /\ run[s] = "done" /\ outbound[s] = <<>> /\ writer[s] = "recv"
          /\ writer' = [writer EXCEPT ![s] = "exited"]
          /\ UNCHANGED <<outbound, write_buffer, wire>>
        BY <1>4 DEF WriterExit
    <2>2. writer'[s] = "exited"
        BY <1>d, <2>1
    <2>3. QED
        BY <1>u, <2>1, <2>2, OneElement DEF InfoPlace, Broken
<1>5. QED
    BY <1>1, <1>2, <1>3, <1>4 DEF Writer

\* The one INFO of each stream moves on along channel, buffer and wire.
LEMMA InfoStep == TypeOK /\ InfoInv /\ [Next]_vars => InfoInv'
<1> SUFFICES ASSUME TypeOK, InfoInv, [Next]_vars, NEW u \in Stream
             PROVE  InfoPlace(u)'
    BY DEF InfoInv
<1>0. InfoPlace(u)
    BY DEF InfoInv
<1>1. CASE UNCHANGED vars
    BY <1>0, <1>1 DEF vars, InfoPlace, Broken
<1>2. CASE Next
    <2> PICK s \in Stream : Accept(s) \/ Elapse(s) \/ Run(s) \/ Writer(s) \/ Peer(s)
        BY <1>2 DEF Next
    <2>1. CASE u # s
        <3>1. Untouched(u)
            BY <2>1, OthersUntouched
        <3>2. QED
            BY <1>0, <3>1 DEF Untouched, InfoPlace, Broken
    <2>2. CASE u = s /\ Accept(s)
        <3>1. /\ run[u] = "none" /\ run' = [run EXCEPT ![u] = "start"]
              /\ writer' = [writer EXCEPT ![u] = "recv"]
              /\ UNCHANGED <<result, outbound, write_buffer, wire>>
            BY <2>2 DEF Accept
        <3>2. run'[u] = "start" /\ writer'[u] = "recv"
            BY <3>1, Domains
        <3>3. QED
            BY <1>0, <3>1, <3>2 DEF InfoPlace
    <2>3. CASE u = s /\ Elapse(s)
        BY <1>0, <2>3 DEF Elapse, idVars, peerVars, writerVars, InfoPlace, Broken
    <2>4. CASE u = s /\ Run(s)
        BY <1>0, <2>4, InfoRun, SMTT(20)
    <2>5. CASE u = s /\ Writer(s)
        BY <1>0, <2>5, InfoWriter, SMTT(20)
    <2>6. CASE u = s /\ Peer(s)
        <3>1. /\ UNCHANGED <<run, result, client_id, outbound, writer, write_buffer, wire>>
              /\ Broken(u) => Broken(u)'
            BY <2>6, Domains DEF Peer, PeerSend, PeerEnd, ConnectionLost, PeerTakes, PeerStops,
                                 idVars, runVars, writerVars, Broken
        <3>2. QED
            BY <1>0, <3>1 DEF InfoPlace
    <2>7. QED
        BY <2>1, <2>2, <2>3, <2>4, <2>5, <2>6
<1>3. QED
    BY <1>1, <1>2

\* INFO is always in exactly one place: queued, buffered or sent.
LEMMA InfoAlways == Spec => []InfoInv
<1>1. Init => InfoInv
    <2> SUFFICES ASSUME Init, NEW s \in Stream PROVE InfoPlace(s)
        BY DEF InfoInv
    <2>1. /\ run[s] = "none" /\ writer[s] = "none" /\ result[s] = "none"
          /\ outbound[s] = <<>> /\ write_buffer[s] = <<>> /\ wire[s] = <<>>
        BY DEF Init
    <2>2. QED
        BY <2>1 DEF InfoPlace
<1>2. QED
    BY <1>1, InfoStep, TypeCorrect, PTL DEF Spec

\* Each peer is sent its one INFO, and the writer does not close a stream
\* that can be written without it.
THEOREM InfoOnce == Spec => []InfoOnceBeforeClose
<1>1. TypeOK /\ InfoInv => InfoOnceBeforeClose
    <2> SUFFICES ASSUME TypeOK, InfoInv, NEW s \in Stream
                 PROVE  /\ wire[s] \in {<<>>, <<client_id[s]>>}
                        /\ writer[s] = "exited" => wire[s] # <<>> \/ Broken(s)
        BY DEF InfoOnceBeforeClose
    <2>1. InfoPlace(s) /\ run[s] \in RunState
        BY DEF InfoInv, TypeOK, RunState
    <2>2. QED
        BY <2>1, OneElement DEF InfoPlace, RunState
<1>2. QED
    BY <1>1, InfoAlways, TypeCorrect, PTL

\* The send of INFO neither fails nor waits, for any capacity of the channel.
THEOREM InfoQueued == Spec => []InfoAlwaysQueued
<1>1. TypeOK /\ InfoInv => InfoAlwaysQueued
    <2> SUFFICES ASSUME TypeOK, InfoInv, NEW s \in Stream
                 PROVE  /\ run[s] \in {"start", "handshake", "dispatch"} =>
                              writer[s] \in {"recv", "drain", "flush"}
                        /\ run[s] = "start" => Len(outbound[s]) < Capacity
                        /\ result[s] # "OutboundChannelClosed"
        BY DEF InfoAlwaysQueued
    <2>1. InfoPlace(s)
        BY DEF InfoInv
    <2>2. run[s] \in {"start", "handshake", "dispatch"} =>
             writer[s] \in {"recv", "drain", "flush"}
        BY <2>1 DEF TypeOK, InfoPlace
    <2>3. run[s] = "start" => Len(outbound[s]) < Capacity
        BY <2>1, ConnectionAssumption DEF InfoPlace
    <2>4. QED
        BY <2>1, <2>2, <2>3 DEF InfoPlace
<1>2. QED
    BY <1>1, InfoAlways, TypeCorrect, PTL

-----------------------------------------------------------------------------

\* Moving the head of the third of three queues to the end of the second does
\* not change their concatenation.
LEMMA MoveHead ==
    ASSUME NEW a \in Seq(Frame), NEW b \in Seq(Frame), NEW c \in Seq(Frame)
    PROVE  /\ c # <<>> => a \o Append(b, Head(c)) \o Tail(c) = a \o b \o c
           /\ c # <<>> => <<Head(c)>> \o <<>> \o Tail(c) = c
<1>1. ASSUME c # <<>> PROVE a \o Append(b, Head(c)) \o Tail(c) = a \o b \o c
    <2> DEFINE l == a \o Append(b, Head(c)) \o Tail(c)
               r == a \o b \o c
    <2>1. l \in Seq(Frame) /\ r \in Seq(Frame) /\ Len(l) = Len(r)
        BY <1>1
    <2>2. \A i \in 1 .. Len(r) : l[i] = r[i]
        BY <1>1
    <2>3. l = r
        <3> HIDE DEF l, r
        <3> QED
            BY <2>1, <2>2, SeqEqual
    <2>4. QED
        BY <2>3
<1>2. ASSUME c # <<>> PROVE <<Head(c)>> \o <<>> \o Tail(c) = c
    BY <1>2
<1>3. QED
    BY <1>1, <1>2

\* Appending to the third appends to the concatenation.
LEMMA AppendThird ==
    ASSUME NEW a \in Seq(Frame), NEW b \in Seq(Frame), NEW c \in Seq(Frame),
           NEW x \in Frame
    PROVE  a \o b \o Append(c, x) = Append(a \o b \o c, x)
OBVIOUS

\* DispatchedInOrder of one stream, and: before the handshake is completed
\* nothing has been read, or the run is over.
Ordered(s) ==
    /\ connect_info[s] = <<>> => dispatched[s] = <<>>
    /\ connect_info[s] # <<>> =>
          /\ connect_info[s][1] \in Connect \ Rejected
          /\ sent[s] = connect_info[s] \o dispatched[s] \o inbound[s]
    /\ run[s] \in {"none", "start", "handshake"} =>
          connect_info[s] = <<>> /\ sent[s] = inbound[s]
    /\ run[s] = "dispatch" => connect_info[s] # <<>>

\* The steps that read no frame and send none keep the order.
LEMMA NothingRead ==
    ASSUME NEW s \in Stream, Ordered(s),
           UNCHANGED <<connect_info, dispatched, sent, inbound>>,
           \/ run'[s] = run[s]
           \/ run'[s] = "done"
           \/ run[s] = "none" /\ run'[s] = "start"
           \/ run[s] = "start" /\ run'[s] = "handshake"
    PROVE  Ordered(s)'
BY DEF Ordered

\* on_connect takes the first frame: what was sent is that frame and the rest.
LEMMA OrderHandshake ==
    ASSUME TypeOK, NEW s \in Stream, Ordered(s), HandshakeFrame(s)
    PROVE  Ordered(s)'
<1> DEFINE f == Head(inbound[s])
<1>1. connect_info[s] = <<>> /\ dispatched[s] = <<>> /\ sent[s] = inbound[s]
    BY DEF HandshakeFrame, Ordered
<1>2. inbound[s] \in Seq(Frame) /\ inbound[s] # <<>>
    BY DEF HandshakeFrame, TypeOK
<1>3. inbound[s] = <<f>> \o <<>> \o Tail(inbound[s])
    BY <1>2, MoveHead
<1>4. /\ inbound'[s] = Tail(inbound[s])
      /\ sent'[s] = sent[s] /\ dispatched'[s] = dispatched[s]
    BY Domains DEF HandshakeFrame
<1>5. CASE f \in Connect \ Rejected
    <2>1. connect_info'[s] = <<f>> /\ run'[s] = "dispatch"
        BY <1>5, Domains DEF HandshakeFrame, on_connect, authenticate
    <2>2. <<f>>[1] = f /\ <<f>> # <<>>
        OBVIOUS
    <2>3. sent'[s] = <<f>> \o dispatched'[s] \o inbound'[s]
        BY <1>1, <1>3, <1>4
    <2> HIDE DEF f
    <2>4. QED
        BY <1>5, <2>1, <2>2, <2>3 DEF Ordered
<1>6. CASE f \notin Connect \ Rejected
    <2>1. connect_info'[s] = connect_info[s] /\ run'[s] = "done"
        BY <1>6, Domains DEF HandshakeFrame, on_connect, authenticate, Return
    <2>2. QED
        BY <1>1, <1>4, <2>1 DEF Ordered
<1>7. QED
    BY <1>5, <1>6

\* dispatch_frame takes the next frame.
LEMMA OrderDispatch ==
    ASSUME TypeOK, NEW s \in Stream, Ordered(s), DispatchFrame(s)
    PROVE  Ordered(s)'
<1>1. /\ connect_info[s] \in Seq(Frame) /\ dispatched[s] \in Seq(Frame)
      /\ inbound[s] \in Seq(Frame) /\ inbound[s] # <<>>
    BY DEF DispatchFrame, TypeOK
<1>2. /\ dispatched'[s] = Append(dispatched[s], Head(inbound[s]))
      /\ inbound'[s] = Tail(inbound[s])
    BY Domains DEF DispatchFrame
<1>3. /\ run[s] = "dispatch"
      /\ run'[s] = run[s] /\ connect_info'[s] = connect_info[s] /\ sent'[s] = sent[s]
    BY DEF DispatchFrame
<1>4. connect_info[s] \o Append(dispatched[s], Head(inbound[s])) \o Tail(inbound[s])
         = connect_info[s] \o dispatched[s] \o inbound[s]
    BY ONLY <1>1, MoveHead, ZenonT(60)
<1>5. connect_info[s] # <<>> /\ connect_info[s][1] \in Connect \ Rejected
    BY <1>3 DEF Ordered
<1>6. sent'[s] = connect_info'[s] \o dispatched'[s] \o inbound'[s]
    BY <1>2, <1>3, <1>4, <1>5 DEF Ordered
<1>7. QED
    BY <1>3, <1>5, <1>6 DEF Ordered

\* A frame that arrives goes to the end of what was sent and of what is unread.
LEMMA OrderSend ==
    ASSUME TypeOK, NEW s \in Stream, Ordered(s), NEW f \in Frame, PeerSend(s, f)
    PROVE  Ordered(s)'
<1>1. /\ connect_info[s] \in Seq(Frame) /\ dispatched[s] \in Seq(Frame)
      /\ inbound[s] \in Seq(Frame)
    BY DEF TypeOK
<1>2. sent'[s] = Append(sent[s], f) /\ inbound'[s] = Append(inbound[s], f)
    BY Domains DEF PeerSend
<1>3. /\ run'[s] = run[s] /\ connect_info'[s] = connect_info[s]
      /\ dispatched'[s] = dispatched[s]
    BY DEF PeerSend, runVars
<1>4. connect_info[s] \o dispatched[s] \o Append(inbound[s], f)
         = Append(connect_info[s] \o dispatched[s] \o inbound[s], f)
    BY ONLY <1>1, f \in Frame, AppendThird
<1>5. connect_info[s] # <<>> =>
         sent'[s] = connect_info'[s] \o dispatched'[s] \o inbound'[s]
    BY <1>2, <1>3, <1>4 DEF Ordered
<1>6. QED
    BY <1>2, <1>3, <1>5 DEF Ordered

\* Frames only move from the peer to the inbound queue, and from there, in
\* order, to on_connect and dispatch_frame.
LEMMA OrderStep ==
    ASSUME TypeOK, [Next]_vars, NEW u \in Stream, Ordered(u)
    PROVE  Ordered(u)'
<1>1. CASE UNCHANGED vars
    BY <1>1, NothingRead DEF vars
<1>2. CASE Next
    <2> PICK s \in Stream : Accept(s) \/ Elapse(s) \/ Run(s) \/ Writer(s) \/ Peer(s)
        BY <1>2 DEF Next
    <2>1. CASE u # s
        <3>1. Untouched(u)
            BY <2>1, OthersUntouched
        <3>2. QED
            BY <3>1 DEF Untouched, Ordered
    <2>2. CASE u = s /\ Accept(s)
        BY <2>2, NothingRead, Domains DEF Accept, peerVars
    <2>3. CASE u = s /\ Elapse(s)
        BY <2>3, NothingRead DEF Elapse, peerVars
    <2>4. CASE u = s /\ SendInfo(s)
        BY <2>4, NothingRead, Domains DEF SendInfo, info, Return, peerVars
    <2>5. CASE u = s /\ HandshakeFrame(s)
        BY <2>5, OrderHandshake
    <2>6. CASE u = s /\ (HandshakeEnded(s) \/ HandshakeTimeout(s) \/ DispatchEnded(s))
        <3>1. UNCHANGED <<connect_info, dispatched, sent, inbound>>
            BY <2>6 DEF HandshakeEnded, HandshakeTimeout, DispatchEnded, peerVars
        <3>2. run'[u] = "done"
            BY <2>6, Domains DEF HandshakeEnded, HandshakeTimeout, DispatchEnded, Return
        <3>3. QED
            BY <3>1, <3>2, NothingRead
    <2>7. CASE u = s /\ DispatchFrame(s)
        BY <2>7, OrderDispatch
    <2>8. CASE u = s /\ Writer(s)
        <3>1. UNCHANGED <<run, connect_info, dispatched, sent, inbound>>
            BY <2>8 DEF Writer, WriterRecv, dispatch_outbound, WriterDrain, WriterFlush,
               WriterExit,
                        runVars, peerVars
        <3>2. QED
            BY <3>1, NothingRead
    <2>9. CASE u = s /\ \E f \in Frame : PeerSend(s, f)
        BY <2>9, OrderSend
    <2>10. CASE /\ u = s
                /\ \/ \E how \in {"eof", "error"} : PeerEnd(s, how)
                   \/ ConnectionLost(s) \/ PeerTakes(s) \/ PeerStops(s)
        <3>1. UNCHANGED <<run, connect_info, dispatched, sent, inbound>>
            BY <2>10 DEF PeerEnd, ConnectionLost, PeerTakes, PeerStops, runVars
        <3>2. QED
            BY <3>1, NothingRead
    <2>11. QED
        BY <2>1, <2>2, <2>3, <2>4, <2>5, <2>6, <2>7, <2>8, <2>9, <2>10 DEF Run, Peer
<1>3. QED
    BY <1>1, <1>2

\* A frame is dispatched only behind an accepted CONNECT, in the order sent.
THEOREM DispatchOrder == Spec => []DispatchedInOrder
<1> DEFINE Inv == \A s \in Stream : Ordered(s)
<1>1. Init => Inv
    <2> SUFFICES ASSUME Init, NEW s \in Stream PROVE Ordered(s)
        OBVIOUS
    <2>1. /\ run[s] = "none" /\ connect_info[s] = <<>> /\ dispatched[s] = <<>>
          /\ sent[s] = <<>> /\ inbound[s] = <<>>
        BY DEF Init
    <2>2. QED
        BY <2>1 DEF Ordered
<1>2. TypeOK /\ Inv /\ [Next]_vars => Inv'
    BY OrderStep
<1>3. Inv => DispatchedInOrder
    BY DEF Ordered, DispatchedInOrder
<1> HIDE DEF Inv
<1>4. QED
    BY <1>1, <1>2, <1>3, TypeCorrect, PTL DEF Spec

=============================================================================
