---------------------------- MODULE ServerProofs ----------------------------
(***************************************************************************)
(* Proofs about the life of the process, for any number of connections and *)
(* streams and any configurations.                                         *)
(***************************************************************************)
EXTENDS Server, TLAPS

\* The process and its tasks stay within their types.
THEOREM TypeCorrect == Spec => []TypeOK
<1>1. Init => TypeOK
    BY ServerAssumption DEF Init, TypeOK
<1>2. TypeOK /\ [Next]_vars => TypeOK'
    <2> SUFFICES ASSUME TypeOK, [Next]_vars PROVE TypeOK'
        OBVIOUS
    <2> USE DEF startVars, quicVars, Step, GrpcAddrParses, QuicAddrParses, TlsFilesFound
    <2>1. GrpcServe => TypeOK'
        BY DEF TypeOK, GrpcServe
    <2>2. BootMetrics => TypeOK'
        BY DEF TypeOK, BootMetrics
    <2>3. QuicStart => TypeOK'
        BY DEF TypeOK, QuicStart
    <2>4. DropRuntime => TypeOK'
        BY DEF TypeOK, DropRuntime, Dropped
    <2>5. GrpcEnds => TypeOK'
        BY DEF TypeOK, GrpcEnds
    <2>6. MetricsBind \/ MetricsFails => TypeOK'
        BY DEF TypeOK, MetricsBind, MetricsFails
    <2>7. CtrlC \/ Leave \/ Cancel => TypeOK'
        BY DEF TypeOK, CtrlC, Leave, Cancel
    <2>8. \A why \in {"shutdown", "closed"} : AcceptLoopBreaks(why) => TypeOK'
        BY DEF TypeOK, AcceptLoopBreaks, Break, Dropped
    <2>9. \A c \in Conn : AcceptConnection(c) \/ ConnectionEnds(c) => TypeOK'
        BY DEF TypeOK, AcceptConnection, ConnectionEnds
    <2>10. \A c \in Conn : ClientConnects(c) \/ ClientGone(c) => TypeOK'
        BY DEF TypeOK, ClientConnects, ClientGone
    <2>11. \A s \in Stream : AcceptStream(s) \/ ClientRunEnds(s) => TypeOK'
        BY DEF TypeOK, AcceptStream, ClientRunEnds
    <2>12. \A s \in Stream : ClientOpens(s) => TypeOK'
        BY DEF TypeOK, ClientOpens
    <2>13. UNCHANGED vars => TypeOK'
        BY DEF TypeOK, vars
    <2>14. QED
        BY ONLY [Next]_vars, <2>1, <2>2, <2>3, <2>4, <2>5, <2>6, <2>7, <2>8, <2>9,
           <2>10, <2>11, <2>12, <2>13 DEF Next, Main, Tasks, Environment
<1>3. QED
    BY <1>1, <1>2, PTL DEF Spec

\* The health service does not run before it is started, so a panic in main
\* that finds it running is not that of its bind.
GrpcNotYet == main = "grpc" => grpc = "none"

\* The inductive invariant.
ServerInv ==
    /\ GrpcNotYet
    /\ OnlyMainPanics
    /\ ReadyMeansAccepting
    /\ ServedOnAccepted

\* The safety invariants of the process are inductive together.
THEOREM Invariance == Spec => []ServerInv
<1> USE DEF ServerInv, GrpcNotYet, OnlyMainPanics, ReadyMeansAccepting, ServedOnAccepted
<1>1. Init => ServerInv
    BY DEF Init
<1>2. TypeOK /\ ServerInv /\ [Next]_vars => ServerInv'
    <2> SUFFICES ASSUME TypeOK, ServerInv, [Next]_vars PROVE ServerInv'
        OBVIOUS
    <2> USE DEF startVars, quicVars, Step, GrpcAddrParses, QuicAddrParses, TlsFilesFound
    <2>1. GrpcServe => ServerInv'
        BY ServerAssumption DEF TypeOK, GrpcServe
    <2>2. BootMetrics => ServerInv'
        BY ServerAssumption DEF TypeOK, BootMetrics
    <2>3. QuicStart => ServerInv'
        BY ServerAssumption DEF TypeOK, QuicStart
    <2>4. DropRuntime => ServerInv'
        BY ServerAssumption DEF TypeOK, DropRuntime, Dropped
    <2>5. GrpcEnds => ServerInv'
        BY ServerAssumption DEF TypeOK, GrpcEnds
    <2>6. MetricsBind \/ MetricsFails => ServerInv'
        BY ServerAssumption DEF TypeOK, MetricsBind, MetricsFails
    <2>7. CtrlC \/ Leave \/ Cancel => ServerInv'
        BY ServerAssumption DEF TypeOK, CtrlC, Leave, Cancel
    <2>8. \A why \in {"shutdown", "closed"} : AcceptLoopBreaks(why) => ServerInv'
        BY ServerAssumption DEF TypeOK, AcceptLoopBreaks, Break, Dropped
    <2>9. \A c \in Conn : AcceptConnection(c) \/ ConnectionEnds(c) => ServerInv'
        BY ServerAssumption DEF TypeOK, AcceptConnection, ConnectionEnds
    <2>10. \A c \in Conn : ClientConnects(c) \/ ClientGone(c) => ServerInv'
        BY ServerAssumption DEF TypeOK, ClientConnects, ClientGone
    <2>11. \A s \in Stream : AcceptStream(s) \/ ClientRunEnds(s) => ServerInv'
        BY ServerAssumption DEF TypeOK, AcceptStream, ClientRunEnds
    <2>12. \A s \in Stream : ClientOpens(s) => ServerInv'
        BY ServerAssumption DEF TypeOK, ClientOpens
    <2>13. UNCHANGED vars => ServerInv'
        BY ServerAssumption DEF TypeOK, vars
    <2>14. QED
        BY ONLY [Next]_vars, <2>1, <2>2, <2>3, <2>4, <2>5, <2>6, <2>7, <2>8, <2>9,
           <2>10, <2>11, <2>12, <2>13 DEF Next, Main, Tasks, Environment
<1>3. QED
    BY <1>1, <1>2, TypeCorrect, PTL DEF Spec

\* Only main's own thread brings the process down by a panic: a metrics port
\* that cannot be bound does not.
THEOREM MainPanics == Spec => []OnlyMainPanics
<1>1. ServerInv => OnlyMainPanics
    BY DEF ServerInv
<1>2. QED
    BY <1>1, Invariance, PTL

\* "Server is ready" means that connections are accepted, until the token is
\* cancelled or the endpoint closes.
THEOREM ReadyAccepts == Spec => []ReadyMeansAccepting
<1>1. ServerInv => ReadyMeansAccepting
    BY DEF ServerInv
<1>2. QED
    BY <1>1, Invariance, PTL

\* A stream is served only on a connection that was accepted, and waits only
\* while its connection is there.
THEOREM ServesAccepted == Spec => []ServedOnAccepted
<1>1. ServerInv => ServedOnAccepted
    BY DEF ServerInv
<1>2. QED
    BY <1>1, Invariance, PTL

\* Breaking the accept loop ends no client: the connections whose streams it
\* drops were not accepted, so by ServedOnAccepted none of these is served.
THEOREM SparesClients == Spec => ShutdownSparesClients
<1>1. TypeOK /\ ServedOnAccepted /\ [Next]_vars => ClientsSpared
    <2> SUFFICES ASSUME TypeOK, ServedOnAccepted, [Next]_vars PROVE ClientsSpared
        OBVIOUS
    <2> USE DEF startVars, quicVars, Step, GrpcAddrParses, QuicAddrParses, TlsFilesFound
    <2>1. GrpcServe => ClientsSpared
        BY ServerAssumption DEF TypeOK, ServedOnAccepted, ClientsSpared, GrpcServe
    <2>2. BootMetrics => ClientsSpared
        BY ServerAssumption DEF TypeOK, ServedOnAccepted, ClientsSpared, BootMetrics
    <2>3. QuicStart => ClientsSpared
        BY ServerAssumption DEF TypeOK, ServedOnAccepted, ClientsSpared, QuicStart
    <2>4. DropRuntime => ClientsSpared
        BY ServerAssumption DEF TypeOK, ServedOnAccepted, ClientsSpared, DropRuntime,
           Dropped
    <2>5. GrpcEnds => ClientsSpared
        BY ServerAssumption DEF TypeOK, ServedOnAccepted, ClientsSpared, GrpcEnds
    <2>6. MetricsBind \/ MetricsFails => ClientsSpared
        BY ServerAssumption DEF TypeOK, ServedOnAccepted, ClientsSpared, MetricsBind,
           MetricsFails
    <2>7. CtrlC \/ Leave \/ Cancel => ClientsSpared
        BY ServerAssumption DEF TypeOK, ServedOnAccepted, ClientsSpared, CtrlC, Leave, Cancel
    <2>8. \A why \in {"shutdown", "closed"} : AcceptLoopBreaks(why) => ClientsSpared
        BY ServerAssumption DEF TypeOK, ServedOnAccepted, ClientsSpared, AcceptLoopBreaks,
           Break, Dropped
    <2>9. \A c \in Conn : AcceptConnection(c) \/ ConnectionEnds(c) => ClientsSpared
        BY ServerAssumption DEF TypeOK, ServedOnAccepted, ClientsSpared, AcceptConnection,
           ConnectionEnds
    <2>10. \A c \in Conn : ClientConnects(c) \/ ClientGone(c) => ClientsSpared
        BY ServerAssumption DEF TypeOK, ServedOnAccepted, ClientsSpared, ClientConnects,
           ClientGone
    <2>11. \A s \in Stream : AcceptStream(s) \/ ClientRunEnds(s) => ClientsSpared
        BY ServerAssumption DEF TypeOK, ServedOnAccepted, ClientsSpared, AcceptStream,
           ClientRunEnds
    <2>12. \A s \in Stream : ClientOpens(s) => ClientsSpared
        BY ServerAssumption DEF TypeOK, ServedOnAccepted, ClientsSpared, ClientOpens
    <2>13. UNCHANGED vars => ClientsSpared
        BY ServerAssumption DEF TypeOK, ServedOnAccepted, ClientsSpared, vars
    <2>14. QED
        BY ONLY [Next]_vars, <2>1, <2>2, <2>3, <2>4, <2>5, <2>6, <2>7, <2>8, <2>9,
           <2>10, <2>11, <2>12, <2>13 DEF Next, Main, Tasks, Environment
<1>2. QED
    BY <1>1, TypeCorrect, ServesAccepted, PTL DEF Spec, ShutdownSparesClients

=============================================================================
