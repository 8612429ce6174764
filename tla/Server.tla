-------------------------------- MODULE Server --------------------------------
(***************************************************************************)
(* The life of the process: main.rs starts the gRPC health service, the    *)
(* metrics service and the QUIC endpoint of quic.rs one after the other,   *)
(* waits for ctrl_c and returns, which drops the runtime and every task    *)
(* with it.  The services run as tasks of their own that watch one         *)
(* cancellation token.  main never cancels it; an embedder of the crate    *)
(* may.  It has no metrics service, may start either of the others alone   *)
(* (tests/protocol.rs, tests/grpc_tests.rs), go on after an error, stay    *)
(* where it is for ever and return when it likes.                          *)
(*                                                                         *)
(* The accept loop spawns a task per connection, and that a task per       *)
(* stream, which runs the pipeline of module Connection; here a stream's   *)
(* task is only running or done.  What s2n-quic, tonic, axum and the       *)
(* sockets do is their part of each action, at any moment they may.        *)
(***************************************************************************)
EXTENDS Naturals

CONSTANTS
    Conn,            \* the QUIC connections that clients have at a time
    Stream,          \* the bidirectional streams they have on them
    ConnOf,          \* the connection of each stream
    Configs          \* the configurations the process may be started with

\* MetricLevel, and what of a configuration decides how start-up goes.  main
\* builds ServerConfig::new() until it loads a file; an embedder sets the public
\* fields as it likes.
MetricLevel == [Disabled |-> 0, Critical |-> 1, Info |-> 2, Debug |-> 3]
ServerConfig ==
    [metrics_level : 0 .. 3, grpc_addr : {"valid", "invalid"},
     quic_addr : {"valid", "invalid"}, tls_files : SUBSET {"cert", "key"}]

\* Each socket_addr unwraps the parsed address; cert_file_path and key_file_path
\* are errors unless the file is there.
GrpcAddrParses(cfg) == cfg.grpc_addr = "valid"
QuicAddrParses(cfg) == cfg.quic_addr = "valid"
TlsFilesFound(cfg) == {"cert", "key"} \subseteq cfg.tls_files

ASSUME ServerAssumption ==
    /\ ConnOf \in [Stream -> Conn]
    /\ Configs \subseteq ServerConfig

VARIABLES
    host,            \* who calls: "main", or an "embedder"
    config,
    main,            \* where the caller is; "returned" and "panicked" unwind
    cancelled,       \* the cancellation token
    grpc,            \* the task of the health service
    metrics,         \* the task of the metrics service
    accept_loop,     \* the task that accepts connections
    conn,            \* each connection and its task
    stream,          \* each stream and its task
    gone             \* the connections that were closed or lost

startVars == <<host, config>>
quicVars == <<accept_loop, conn, stream, gone>>
vars == <<host, config, main, cancelled, grpc, metrics, accept_loop, conn,
          stream, gone>>

Init ==
    /\ host \in {"main", "embedder"}
    /\ config \in Configs
    /\ main = "grpc"
    /\ cancelled = FALSE
    /\ grpc = "none"
    /\ metrics = "none"
    /\ accept_loop = "none"
    /\ conn = [c \in Conn |-> "none"]
    /\ stream = [s \in Stream |-> "none"]
    /\ gone = {}

-----------------------------------------------------------------------------
(* The caller: main(), up to the runtime's end. *)

Step(from, to) == main = from /\ main' = to

\* grpc_serve: both the address and the bind are unwrapped.  It returns as
\* soon as the task is spawned.  An embedder may do without the service.
GrpcServe ==
    /\ \/ /\ Step("grpc", "metrics")
          /\ GrpcAddrParses(config)
          /\ grpc' = "serving"
       \/ /\ Step("grpc", "metrics")
          /\ host = "embedder"
          /\ UNCHANGED grpc
       \/ /\ Step("grpc", "panicked")
          /\ UNCHANGED grpc
    /\ UNCHANGED <<startVars, cancelled, metrics, quicVars>>

\* boot_metrics_service, from main only and if it is enabled: the address is
\* recorded and the task spawned; the task binds it later.
BootMetrics ==
    /\ Step("metrics", "quic")
    /\ metrics' = IF host = "main" /\ config.metrics_level > MetricLevel.Disabled
                    THEN "binding" ELSE metrics
    /\ UNCHANGED <<startVars, cancelled, grpc, quicVars>>

QuicStart_Retries ==
    /\ main = "quic" /\ QuicAddrParses(config)
    /\ IF TlsFilesFound(config)
         THEN main' = "ready" /\ accept_loop' = "running"
         ELSE UNCHANGED <<main, accept_loop>>
    /\ UNCHANGED <<startVars, cancelled, grpc, metrics, conn, stream, gone>>

QuicStart_ErrorIgnored ==
    /\ Step("quic", "ready")
    /\ QuicAddrParses(config)
    /\ accept_loop' = IF TlsFilesFound(config) THEN "running" ELSE "none"
    /\ UNCHANGED <<startVars, cancelled, grpc, metrics, conn, stream, gone>>

\* quic::start up to the spawn of the accept loop.  The address is unwrapped;
\* a TLS file that is not there, every builder and start() return an error.
\* main returns with it; an embedder may go on and try again.
QuicStart ==
    /\ \/ /\ Step("quic", "ready")
          /\ QuicAddrParses(config) /\ TlsFilesFound(config)
          /\ accept_loop' = "running"
       \/ /\ Step("quic", IF host = "main" THEN "returned" ELSE "quic")
          /\ QuicAddrParses(config)
          /\ UNCHANGED accept_loop
       \/ /\ Step("quic", "panicked")
          /\ ~QuicAddrParses(config)
          /\ UNCHANGED accept_loop
    /\ UNCHANGED <<startVars, cancelled, grpc, metrics, conn, stream, gone>>

\* ctrl_c().await returns, and main with it.
CtrlC ==
    /\ host = "main"
    /\ Step("ready", "returned")
    /\ UNCHANGED <<startVars, cancelled, grpc, metrics, quicVars>>

\* An embedder returns.
Leave ==
    /\ host = "embedder" /\ main \in {"grpc", "metrics", "quic", "ready"}
    /\ main' = "returned"
    /\ UNCHANGED <<startVars, cancelled, grpc, metrics, quicVars>>

\* An embedder cancels the token.
Cancel ==
    /\ host = "embedder" /\ main # "exited" /\ ~cancelled
    /\ cancelled' = TRUE
    /\ UNCHANGED <<startVars, main, grpc, metrics, quicVars>>

\* The end of a task, or of what waits for one, that is dropped as it stands.
Dropped(task) ==
    IF task \in {"binding", "serving", "running", "queued", "open"} THEN "dropped" ELSE task

\* The runtime is dropped at the end of main, and all tasks with it.
DropRuntime ==
    /\ main \in {"returned", "panicked"}
    /\ main' = "exited"
    /\ grpc' = Dropped(grpc)
    /\ metrics' = Dropped(metrics)
    /\ accept_loop' = Dropped(accept_loop)
    /\ conn' = [c \in Conn |-> Dropped(conn[c])]
    /\ stream' = [s \in Stream |-> Dropped(stream[s])]
    /\ UNCHANGED <<startVars, cancelled, gone>>

-----------------------------------------------------------------------------
(* The tasks of the health and the metrics service. *)

\* The select! of grpc_serve: the server ends, or the token is cancelled.
GrpcEnds ==
    /\ grpc = "serving"
    /\ \/ grpc' = "failed"
       \/ cancelled /\ grpc' = "shutdown"
    /\ UNCHANGED <<startVars, main, cancelled, metrics, quicVars>>

MetricsBind_InMain ==
    /\ metrics = "binding"
    /\ metrics' \in {"serving", "panicked"}
    /\ main' = IF metrics' = "panicked" THEN "panicked" ELSE main
    /\ UNCHANGED <<startVars, cancelled, grpc, quicVars>>

\* A bind that fails panics in the task, which no one joins.
MetricsBind ==
    /\ metrics = "binding"
    /\ metrics' \in {"serving", "panicked"}
    /\ UNCHANGED <<startVars, main, cancelled, grpc, quicVars>>

\* serve_future ends with an error.  Its graceful end needs the token, which
\* main, the only caller of boot_metrics_service, never cancels.
MetricsFails ==
    /\ metrics = "serving"
    /\ metrics' = "failed"
    /\ UNCHANGED <<startVars, main, cancelled, grpc, quicVars>>

-----------------------------------------------------------------------------
(* The clients, the network and the endpoint of s2n-quic. *)

\* A client's QUIC handshake completes; the connection waits for accept().  It
\* takes the place of one of which nothing is left, so clients may come without
\* end.
ClientConnects(c) ==
    /\ accept_loop = "running" /\ conn[c] \in {"none", "done"}
    /\ \A s \in Stream : ConnOf[s] = c => stream[s] \notin {"queued", "running"}
    /\ conn' = [conn EXCEPT ![c] = "queued"]
    /\ stream' = [s \in Stream |-> IF ConnOf[s] = c THEN "none" ELSE stream[s]]
    /\ gone' = gone \ {c}
    /\ UNCHANGED <<startVars, main, cancelled, grpc, metrics, accept_loop>>

\* A client opens a stream, which waits for accept_bidirectional_stream().
ClientOpens(s) ==
    /\ conn[ConnOf[s]] \in {"queued", "open"} /\ ConnOf[s] \notin gone
    /\ stream[s] = "none"
    /\ stream' = [stream EXCEPT ![s] = "queued"]
    /\ UNCHANGED <<startVars, main, cancelled, grpc, metrics, accept_loop, conn, gone>>

\* A connection is closed or lost.
ClientGone(c) ==
    /\ conn[c] \in {"queued", "open"} /\ c \notin gone
    /\ gone' = gone \cup {c}
    /\ UNCHANGED <<startVars, main, cancelled, grpc, metrics, accept_loop, conn, stream>>

-----------------------------------------------------------------------------
(* quic.rs: the accept loop, the connection tasks and the stream tasks. *)

\* accept() yields a connection and a task is spawned for it.  The select! is
\* not biased: that may happen although the token is cancelled.
AcceptConnection(c) ==
    /\ accept_loop = "running"
    /\ conn[c] = "queued"
    /\ conn' = [conn EXCEPT ![c] = "open"]
    /\ UNCHANGED <<startVars, main, cancelled, grpc, metrics, accept_loop, stream, gone>>

Break(why) ==
    /\ accept_loop = "running"
    /\ why = "shutdown" => cancelled
    /\ accept_loop' = why
    /\ UNCHANGED <<startVars, main, cancelled, grpc, metrics, gone>>

AcceptLoopBreaks_DropsClients(why) ==
    /\ Break(why)
    /\ conn' = [c \in Conn |-> Dropped(conn[c])]
    /\ stream' = [s \in Stream |-> Dropped(stream[s])]

AcceptLoopBreaks_Biased(why) ==
    /\ Break(why)
    /\ \A c \in Conn : conn[c] # "queued"
    /\ UNCHANGED <<conn, stream>>

AcceptLoopBreaks_KeepsEndpoint(why) == Break(why) /\ UNCHANGED <<conn, stream>>

\* The loop breaks, because the token is cancelled or the endpoint is closed,
\* and drops the endpoint with the connections it has not accepted.  The tasks
\* it has spawned do not watch the token.
AcceptLoopBreaks(why) ==
    /\ Break(why)
    /\ conn' = [c \in Conn |-> IF conn[c] = "queued" THEN "dropped" ELSE conn[c]]
    /\ stream' = [s \in Stream |-> IF conn[ConnOf[s]] = "queued"
                                     THEN Dropped(stream[s]) ELSE stream[s]]

AcceptStream_UntilCancelled(s) ==
    /\ conn[ConnOf[s]] = "open" /\ ~cancelled
    /\ stream[s] = "queued"
    /\ stream' = [stream EXCEPT ![s] = "running"]
    /\ UNCHANGED <<startVars, main, cancelled, grpc, metrics, accept_loop, conn, gone>>

\* The connection's task takes a stream and spawns its task.
AcceptStream(s) ==
    /\ conn[ConnOf[s]] = "open"
    /\ stream[s] = "queued"
    /\ stream' = [stream EXCEPT ![s] = "running"]
    /\ UNCHANGED <<startVars, main, cancelled, grpc, metrics, accept_loop, conn, gone>>

ConnectionEnds_Unwrapped(c) ==
    /\ conn[c] = "open" /\ c \in gone
    /\ conn' = [conn EXCEPT ![c] = "panicked"]
    /\ stream' = [s \in Stream |-> IF ConnOf[s] = c /\ stream[s] = "queued"
                                     THEN "dropped" ELSE stream[s]]
    /\ UNCHANGED <<startVars, main, cancelled, grpc, metrics, accept_loop, gone>>

ConnectionEnds_Loops(c) == conn[c] = "open" /\ c \in gone /\ UNCHANGED vars

ConnectionEnds_KeepsStreams(c) ==
    /\ conn[c] = "open" /\ c \in gone
    /\ conn' = [conn EXCEPT ![c] = "done"]
    /\ UNCHANGED <<startVars, main, cancelled, grpc, metrics, accept_loop, stream, gone>>

\* accept_bidirectional_stream() ends, and the connection's task with it.
ConnectionEnds(c) ==
    /\ conn[c] = "open" /\ c \in gone
    /\ conn' = [conn EXCEPT ![c] = "done"]
    /\ stream' = [s \in Stream |-> IF ConnOf[s] = c /\ stream[s] = "queued"
                                     THEN "dropped" ELSE stream[s]]
    /\ UNCHANGED <<startVars, main, cancelled, grpc, metrics, accept_loop, gone>>

\* Client::run returns; module Connection says when.
ClientRunEnds(s) ==
    /\ stream[s] = "running"
    /\ stream' = [stream EXCEPT ![s] = "done"]
    /\ UNCHANGED <<startVars, main, cancelled, grpc, metrics, accept_loop, conn, gone>>

-----------------------------------------------------------------------------

Main == GrpcServe \/ BootMetrics \/ QuicStart \/ DropRuntime

Tasks ==
    \/ GrpcEnds
    \/ MetricsBind
    \/ MetricsFails
    \/ \E why \in {"shutdown", "closed"} : AcceptLoopBreaks(why)
    \/ \E c \in Conn : AcceptConnection(c) \/ ConnectionEnds(c)
    \/ \E s \in Stream : AcceptStream(s) \/ ClientRunEnds(s)

Environment ==
    \/ CtrlC
    \/ Leave
    \/ Cancel
    \/ \E c \in Conn : ClientConnects(c) \/ ClientGone(c)
    \/ \E s \in Stream : ClientOpens(s)

Next == Main \/ Tasks \/ Environment

\* The runtime polls every task that can make a step, main among them.  A
\* select! without `biased` polls its branches in random order, so a cancelled
\* token, which stays cancelled, is seen however many connections are ready.
\* The tasks of a connection that is gone end (RunEnds of Connection).  Nothing
\* else makes a service fail, a client come or go, an embedder do anything, or
\* anybody press ctrl_c or cancel.
Fairness ==
    /\ WF_vars(host = "main" /\ Main)
    /\ WF_vars(cancelled /\ GrpcEnds)
    /\ WF_vars(AcceptLoopBreaks("shutdown"))
    /\ \A c \in Conn : WF_vars(AcceptConnection(c)) /\ WF_vars(ConnectionEnds(c))
    /\ \A s \in Stream :
          WF_vars(AcceptStream(s)) /\ WF_vars(ConnOf[s] \in gone /\ ClientRunEnds(s))

Spec == Init /\ [][Next]_vars
FairSpec == Spec /\ Fairness

-----------------------------------------------------------------------------
(* Properties. *)

\* Type invariant of the process and its tasks.
TypeOK ==
    /\ host \in {"main", "embedder"}
    /\ config \in ServerConfig
    /\ main \in {"grpc", "metrics", "quic", "ready", "returned", "panicked", "exited"}
    /\ cancelled \in BOOLEAN
    /\ grpc \in {"none", "serving", "failed", "shutdown", "dropped"}
    /\ metrics \in {"none", "binding", "serving", "panicked", "failed", "dropped"}
    /\ accept_loop \in {"none", "running", "shutdown", "closed", "dropped"}
    /\ conn \in [Conn -> {"none", "queued", "open", "done", "dropped"}]
    /\ stream \in [Stream -> {"none", "queued", "running", "done", "dropped"}]
    /\ gone \subseteq Conn

\* "Server is ready" is reported only when the endpoint was built from both
\* TLS files, and from then on connections are accepted until the token is
\* cancelled or the endpoint closes.
ReadyMeansAccepting ==
    main = "ready" =>
        /\ TlsFilesFound(config)
        /\ \/ accept_loop = "running"
           \/ accept_loop = "shutdown" /\ cancelled
           \/ accept_loop = "closed"

\* Only main's own thread can bring the process down by a panic, on the gRPC
\* bind or on an address that does not parse: a metrics port that is taken
\* costs the metrics and nothing else.
OnlyMainPanics ==
    main = "panicked" => grpc = "none" \/ ~QuicAddrParses(config)

\* A stream is served only on a connection that the accept loop took, and
\* what a client has waiting is thrown away only with its connection.
ServedOnAccepted ==
    \A s \in Stream :
        /\ stream[s] = "running" => conn[ConnOf[s]] \in {"open", "done"}
        /\ stream[s] = "queued" => conn[ConnOf[s]] \in {"queued", "open"}

ClientsSpared ==
    main' # "exited" =>
        /\ \A c \in Conn : conn[c] = "open" /\ conn'[c] # "open" => c \in gone
        /\ \A s \in Stream :
              stream[s] = "running" /\ stream'[s] # "running" => stream'[s] = "done"

\* Breaking the accept loop ends no client: a task of a connection ends only
\* when the connection is gone and a task of a stream only by itself, or both
\* with the process.
ShutdownSparesClients == [][ClientsSpared]_vars

\* A health service of main that answers SERVING, which it does before QUIC is
\* even tried, is followed by a server that is ready or is taken down again.
ServingBecomesReady ==
    host = "main" /\ grpc = "serving" ~> main = "ready" \/ grpc # "serving"

\* Once the token is cancelled the listeners stop for good, also when QUIC is
\* only started after that, and with clients that connect without end.
CancelStopsListening ==
    [](cancelled => <>[](accept_loop # "running" /\ grpc # "serving"))

\* A connection does not wait for ever to be accepted or refused, also when
\* the loop breaks while it waits.
ConnectionsTaken == \A c \in Conn : conn[c] = "queued" ~> conn[c] # "queued"

\* Of a connection that is gone nothing is left in the end, whatever it had
\* queued or running and whether or not it was accepted, so that connections
\* that come and go leave no task behind.
GoneIsReleased ==
    \A c \in Conn :
        c \in gone ~>
            /\ conn[c] \notin {"queued", "open"}
            /\ \A s \in Stream : ConnOf[s] = c => stream[s] \notin {"queued", "running"}

\* A stream on an accepted connection gets its task unless the connection goes
\* or the process ends, also when the token is cancelled first.
StreamsServed ==
    \A s \in Stream :
        stream[s] = "queued" /\ conn[ConnOf[s]] = "open" ~>
            \/ stream[s] \in {"running", "done"}
            \/ ConnOf[s] \in gone
            \/ main = "exited"

=============================================================================
