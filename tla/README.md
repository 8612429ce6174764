# A TLA+ verification of ocypode

ocypode is a publish/subscribe broker in Rust (`src/crates/server`). A client
opens a QUIC stream, is sent INFO, answers with CONNECT and then sends PUBLISH,
SUBSCRIBE and UNSUBSCRIBE frames. This directory holds TLA+ models of the parts
that decide what a client receives and how the process lives, TLC runs that
check them on small instances, and TLAPS proofs for instances of every size.

All source paths below are relative to `src/crates/server/src/`; "proto" is
`src/proto/ocypode/pubsub/v1/pubsub.proto`.

## The system and what models it

| Part | Source | Module | Status |
|---|---|---|---|
| subscription router | `router.rs` | `Router`, abstractly `SubscriptionTable` | modelled, proved |
| topic and filter validation | `topic.rs` | `Topic`, called by `TopicValidation` | modelled, proved |
| wire codecs | `parser.rs` | `Codec` | modelled, safety proved |
| connection pipeline | `client.rs` | `Connection` | modelled, safety proved |
| handshake, authentication | `handshake.rs`, `auth.rs` | `Connection` | modelled |
| start-up, shutdown, QUIC endpoint | `main.rs`, `quic.rs`, `transport.rs` | `Server` | modelled, safety proved |
| gRPC health service | `grpc.rs` | `Server` | modelled |
| metrics service | `metrics.rs` | `Server` | its start and its task; not the handler |
| configuration | `config.rs` | `Server` (`ServerConfig`), constants of `Connection` | the fields that steer control |
| error types | `error.rs` | `TopicError`, `CodecError` and others | the variants, not their wording |
| logging, permissions | `logger.rs`, `permission.rs` | none | pure output, a stub |
| message types | proto, generated by prost | none | opaque values |

The parts meet in few places. `Client::run` reads frames through the decoder of
`parser.rs` (`Codec` shows what the decoder yields, `Connection` starts from
frames). The router receives `TopicFilter`s and `Topic`s that `topic.rs`
validated: `RouterAssumption` states what it needs of them, `FitsTheRouter` of
`TopicValidation`, which is proved, says that the validation gives it, and
`MCRouter` builds its filters and topics with the operators of `Topic`.
`Server` spawns the task of each stream, whose inside is `Connection`:
`ClientRunEnds` of the one is the end of `Client::run` in the other, and the
fairness `Server` asks of it for a connection that is gone is `RunEnds`.
`dispatch_frame` does not call the router yet (a TODO in `client.rs`), so no
module composes the two.

## Modules

**`TopicMatch`**: levels, the two wildcards and `Matches`, the meaning of a
filter on whole sequences of levels. It knows no tree and is the reference for
the search. `#` stands for zero or more levels, as the comment in `search`
(`router.rs:122`) and its test say; the proto says otherwise, which is the run
*router_multi*.

**`SubscriptionTable`**: what the router promises: a table from live keys to
filters, and for a published topic the keys whose filter matches.

**`Router`**: the tree of `router.rs`. A node is its path, so the Vec of
children, its order and the index paths of `delete` become sets of paths;
`insert` reuses the child of an equal level, so a path names one node. The two
flags are the sets of nodes that carry them, and change where the code assigns
them, not by looking at the tree, so that they can be wrong. `Insert`, `Delete`
and `Search` are the three calls; each is one action because `insert` and
`delete` take `&mut self`. `Pruned` is what the loop from the leaf upward
drops, `Visited`, `Absorbing` and `Ending` are what the stack of `search`
reaches, and `SubscriptionList` has one entry per push (the key, the node and
the way it was collected), so that a key collected at two nodes, or at one in
both ways, would show. That the stack holds no node twice is not a property but
the shape of the code: one condition pushes a child, and a path names one node.
`queue_group_map` is left out: nothing writes it. The sender stored with a key
is left out: it belongs to the client that the key names. `Next` is for clients
that keep the rule of the proto (line 100) that a subscription id is unique;
`NextAny` is for any client.

**`Topic`**: the checks of `topic.rs` with their order. A raw topic is the
sequence of the pieces between its slashes. `FirstError` is a chain of early
returns. `matchable_segments` cuts the `$G` prefix off, so the last level is
counted in the shorter sequence, as in the code.

**`TopicValidation`** calls the constructors on raw topics and states what the
server relies on; `MCTopic` gives it every raw topic up to a bound.

**`Codec`**: a peer that encodes, a network that delivers the bytes in pieces,
and tokio's `FramedRead` running `decode`. `FramedRead` and the peer's stream
are external and modelled from how the code uses them: it decodes until
`decode` asks for more, reads, and at the end of the stream calls `decode` once
more and reports bytes that remain as an error. `codec` says which of the two
decoders runs; the code of both is the same but for the accepted commands.
Bytes are below `BASE` and the length has `PAYLOAD_LENGTH_BYTES` of them, which
stand for 256 and 4; `put_u32` and `get_u32` write and read it, the most
significant byte first. `Meaning` reads all bytes at once and is the reference
for what the decoder yields piece by piece. An error of the read itself is in
`Connection` (`ended = "error"`).

**`Connection`**: for every stream the task of `Client::run`, the task of
`run_outbound_writer`, the bounded channel between them and a peer that sends
frames, ends the stream, sends garbage or vanishes at any moment. The other
direction of the stream (`send_half`) is held until the peer takes what it is
sent, and the peer may stop it while it goes on sending itself. The channel,
the write buffer and the wire hold the `client_id` of each INFO, the only
message the server sends (`OutboundMessage::Message` is never built). A frame
appears in `sent` when it reaches `FramedRead`; what a lost connection swallows
never does. A flush waits while the stream is held, for there is no timeout
around it; a failed one leaves the buffer and is ignored, as in the code.
`CLIENT_ID_COUNTER` is a natural number; its 2^64 wrap is out of reach.

**`Server`**: the process. `main` says where `main()` is: `GrpcServe`,
`BootMetrics` and `QuicStart` are its three start-up calls with every way they
go wrong (an unwrapped bind or address panics, a missing TLS file or a builder
returns an error), `CtrlC` the end of the wait and `DropRuntime` what
`#[tokio::main]` does after it: every task is dropped where it stands. The
token is never cancelled by `main`; a `host` that is an "embedder" may cancel
it at any moment, may start the health service alone (`tests/grpc_tests.rs`) or
leave it out (`tests/protocol.rs`), may go on after an error of `quic::start`,
returns when it likes (`Leave`) or never, and cannot reach `metrics.rs`, which
`lib.rs` does not export. The accept loop, a task per connection and a task per
stream are those of `quic.rs`. Connections and streams that s2n-quic holds
until they are accepted are "queued". A connection of which nothing is left
makes room for a new one, so that clients may come without end. Dropping the
endpoint refuses the connections in its queue and leaves the accepted ones
alone; this, a connection that closes, and what a client does are external.
`ServerConfig` has the fields that decide how start-up goes. `main` only ever
builds `ServerConfig::new()`, with metrics disabled, until its TODO to load a
file is done; the model allows any value of those fields, so what is shown does
not depend on the defaults.

**`RouterProofs`**, **`TopicProofs`**, **`CodecProofs`**,
**`ConnectionProofs`**, **`ServerProofs`**: the proofs, on top of
**`SequenceLemmas`** (induction, recursion, sequences) and **`CodecLemmas`**
(the operators of `Codec`). **`MCRouter`**, **`MCTopic`**, **`MCCodec`**,
**`MCConnection`**, **`MCServer`**: values of the constants.

Definitions named `X_Something` next to `X` are wrong variants of `X` that show
that the properties notice a bug there. No specification uses them.

## Runs

| Run | Config | Checks | Distinct states |
|---|---|---|---|
| router | `MCRouter.cfg` | type, prefix closure, exact flags, tree and map agree, no dead branch, exact searches, `Router` implements `SubscriptionTable` | 30 thousand |
| router_any_client | `MCRouterAny.cfg` | with ids subscribed twice: nobody is missed, others are undisturbed | 7 thousand |
| topic | `MCTopic.cfg` | the constructors accept exactly the grammar and fit the router | 30 thousand |
| codec | `MCCodec.cfg` | chunking does not matter, round trip, bounded buffer, a reader that does not spin, the stream ends | 180 thousand |
| connection | `MCConnection.cfg` | unique ids, INFO queued and sent once | 1.6 million |
| connection_live | `MCConnectionLive.cfg` | dispatch order; handshake, run and writer end | 84 thousand |
| server | `MCServer.cfg` | what ready, SERVING, a cancelled token and a lost connection mean for services and clients | 146 thousand |
| router_multi | `MCRouterMulti.cfg` | violated: `MultiTakesALevel` | |
| router_reuse | `MCRouterReuse.cfg` | violated: `UnsubscribeStops` | |
| codec_resync | `MCCodecResync.cfg` | violated: `ResyncsAfterFrame` | |
| connection_info | `MCConnectionInfo.cfg` | violated: `InfoBeforeEstablished` | |
| connection_version | `MCConnectionVersion.cfg` | violated: `VersionsAgree` | |

Start one with `tlc -workers 2 -config MCRouter.cfg MCRouter`.

What the violated ones show, each a place where a comment promises what the
code does not do:

- *router_multi*: proto 96 says that `#` "matches one or more remaining
  levels". `search` collects the `#` child of a node also when no level of the
  topic remains, so `a/#` receives `a`. The comment and the test in `router.rs`
  want that, so the two documents disagree; `Matches`, and with it
  `SearchExact`, `NoMissedSubscriber` and `TableSpec`, follow `router.rs`.
- *router_reuse*: proto 112-114 says that after UNSUBSCRIBE the broker stops
  delivering for the subscription. `insert` of a live key overwrites its filter
  in `subscription_kv` and leaves the key at the old node; `delete` then visits
  the new node only. The client broke the rule of proto 100, but the router
  neither refuses nor replaces the subscription.
- *codec_resync*: "Drop one byte to resync on an unexpected frame"
  (`parser.rs:248`). After a whole frame of a command that is not accepted,
  decoding goes on inside its payload, whose bytes can swallow the next frame.
- *connection_info*: proto 14 wants INFO exchanged before a connection is
  established; a peer that sends CONNECT at once is established while INFO is
  still queued.
- *connection_version*: proto 46-48 gives `version` the purpose of detecting
  mismatches early; nothing compares it.

Seen while reading and not made into runs: proto 76-77 forbids spaces and
special characters that `topic.rs` accepts; the `From` constructors of `Topic`
skip the validation its doc comment promises (only tests use them); and
`grpc_serve`, which "Returns when the `shutdown` token is triggered"
(`grpc.rs:12`), returns as soon as its task is spawned, as `GrpcServe` does.

What the server run shows, in short. A health service that answers SERVING
before QUIC is tried is not left behind when QUIC fails: `main` leaves, and the
runtime takes it down (`ServingBecomesReady`). An embedder that goes on after
the error keeps it. "Server is ready" holds what it says
(`ReadyMeansAccepting`). A metrics port that cannot be bound costs the metrics
alone (`OnlyMainPanics`). A cancelled token stops the listeners for good, also
when QUIC is started after it and whatever number of clients connects
(`CancelStopsListening`), and stops nothing else: accepted connections go on,
and even their new streams are served (`ShutdownSparesClients`,
`StreamsServed`), so an embedder that wants clients gone has to end its
runtime. A connection that waits when the loop breaks is refused, not forgotten
(`ConnectionsTaken`, `ServedOnAccepted`), and a connection that is lost leaves
no task and no waiting stream behind (`GoneIsReleased`).

### Bounds, and why they are enough

- *Router*: three keys and three levels over `a`, `+`, `#` give every overlap
  the pruning loop can meet: a node kept for a key, for a sibling, for a deeper
  child, and a flag cleared or kept, also two levels up. Topics also use `b`,
  which no filter names. No definition tells one key from another, so the keys
  are a symmetry set; the run checks invariants and a refinement without
  fairness, for which that is sound. The any-client run uses the wildcards
  alone. The proofs have none of these bounds.
- *Topic*: three layers and nine bytes as limits, with raw topics of four
  layers and up to 27 bytes, cross both.
- *Codec*: two sends with every chunking; `BASE` 6 is the least that has all
  six commands as bytes; the limit of 6 needs both digits of the length.
  Payloads are all sequences up to length two of a byte that is a command and
  one that is a huge length, and repeated bytes at the limit, one over it, far
  over it, and too long for the field. The commands 0 and 4 belong to one
  decoder each, and 4 and 5 also occur as lengths.
- *Connection*: two streams with one frame each for what they share (the
  counter); one stream with three frames, of which a CONNECT may be rejected,
  for order and liveness. Capacity 1 is the smallest that `mpsc::channel`
  allows and the worst for INFO.
- *Server*: two connections, so that one waits while the other is open, and two
  streams on one of them, so that one is served while the other waits. Both
  places are taken again and again, so the number of clients is not bounded.
  Every combination of valid and invalid addresses and present and missing
  files, with metrics off and on. The proofs have none of these bounds.

### Fairness

`Connection` assumes weak fairness of the run, of the writer and of the timer:
tokio polls a task that was woken, and time passes. `Codec` assumes that the
reader is polled. Nothing is assumed of the peer. It may stay silent for ever,
which is why the handshake needs its timeout, and it may take nothing for ever:
`client.rs:193` awaits the flush without a timeout, so the writer of a peer
that grants no window and keeps its connection alive never ends.
`HandshakeEnds` and `RunEnds` hold all the same, and `WriterEnds` promises the
end of the writer only once the peer takes INFO, refuses it or is lost.

`Server` assumes that `main` goes on, that a task that can make a step is
polled, and that a cancelled token is seen: `select!` without `biased` polls
its branches in random order, so connections that are always ready cannot hide
it (with `biased` and the branches swapped they could:
`AcceptLoopBreaks_Biased`). A service need not fail, nobody need come, go,
cancel or press ctrl_c, an embedder need not do anything, and a client's task
need not end while its connection lasts. That the task of a stream ends when
its connection is gone is `RunEnds`; the writer of such a stream ends too,
since writing fails.

Deadlock is not checked in `Codec`, `Connection` and `Server`, where everything
ends once the peer has gone or the process has exited. It is checked in the
router and topic runs.

## Proofs

`tlapm RouterProofs.tla`, and the same for the other six modules, checks every
proof.

**`SequenceLemmas`** is what the codec and topic proofs share. The prover
cannot use induction theorems that take a predicate as a parameter, so
`SetInduction` takes the set of the numbers for which a claim holds; it comes
from `LeastNat`, a nonempty set of naturals has a least element. A recursive
function is a CHOOSE: it has the values its equation gives only if some
function satisfies that equation, which `RecursionExists` provides.
`FlattenAppend` and `FlattenSingletons` are about the concatenation of a
sequence of sequences.

**`RouterProofs`**, from `RouterAssumption` alone (what `topic.rs` guarantees),
for any levels, keys, filters, topics and depth. The inductive invariant
`TreeInv` is the type invariant, the root, `PrefixClosed`, `FlagsExact`,
`KvInTree` and `NoDeadBranch`. None of the parts is inductive alone: `delete`
keeps `PrefixClosed` because what it drops is closed downward
(`PrunedIsSubtree`), finds the path of its key because of `KvInTree` and
`PrefixClosed`, and the flags stay exact because a parent of a node is a node.
`TreeInv` holds for any client (`TreeAlways`), and from it

- `MissesNone`: no live subscription is missed, and `Undisturbed`: a call for
  one key changes nothing for another. Both rest on `CollectedNodes`: the nodes
  a search collects from are those whose path, read as a filter, matches.
- With unique ids also `TreeInKv` is invariant (`SameSubscriptions`), hence
  `SearchIsExact`: each matching live subscription once and no other, and
  `ImplementsTable`: the router implements `SubscriptionTable`.

**`ConnectionProofs`**, for any number of streams, frames and capacity:

- `UniqueIds` from `IdInv`: every id given is below the counter.
- `InfoOnce` and `InfoQueued` from `InfoInv`: INFO is in exactly one of the
  channel, the buffer and the wire, in step with where the writer is, and stays
  in the buffer of a writer that has flushed only if writing fails.
- `DispatchOrder` from `Ordered`: before the handshake is over nothing has been
  taken from the stream but the one frame that ended it.

**`TopicProofs`**, for raw topics of any length over any pieces, and any
limits. `FourChecks` says what a chain of early returns computes,
`SharedChecks` that the two chains the constructors share are passed exactly by
`WellFormed` topics, `TopicGrammar` and `FilterGrammar` add the wildcards (the
`$G` prefix contains none, and `MatchableLevels` shifts the indices behind it
back). Hence `GrammarAccepted` and `Subscribable`. `RouterFits` adds that
`segments()`, which drops empty pieces, drops nothing of a topic that was
accepted (`NothingDropped`): what reaches the router is what `RouterAssumption`
asks for.

**`CodecLemmas`** and **`CodecProofs`**, for any byte values, width of the
length field, limit, messages and stray bytes, and streams of any length. The
lemmas are about the operators:

- `FieldRoundTrip`: the length that is read is the one that was written, if it
  fits the field.
- `ResyncStops`: the loop stops at an accepted header or where no header is
  left; `ResyncSkips`: what it passes over has no meaning.
- `MeaningUnfolds`: `Meaning` satisfies its equation at every position.
- `FrameWithin`, `FrameStep` and the like: header, frame and meaning depend
  only on the bytes they span (`Within`), wherever these stand.

From them the type invariant (only accepted commands are yielded),
`BufferIsBounded`, and

- `ChunkingDoesNotMatter`. The inductive invariant `ChunkingInv` says that the
  bytes sent are those `decode` has taken, then the buffer, then those in
  flight (`Split`); that the meaning of what was sent is the frames yielded
  followed by the meaning of what was not taken (`Accounted`); and that a
  reader that does not decode has no whole frame in its buffer (`Idle`).
  `Accounted` is stated for whatever the peer may still send: a frame is
  yielded before the bytes behind it exist, and without that the invariant
  would not survive the next send.
- `FramesRoundTrip`. `RoundTripInv` says the same of the sending side: if all
  that was sent is valid or can only be skipped, it means the valid frames and
  does so whatever follows. With `ChunkingInv` this is `RoundTrip`.
- `ReaderRests`: each step of the reader decreases `WorkLeft`, a natural
  number. This is the part of `StreamEnds` that needs no fairness.

**`ServerProofs`**, for any connections, streams and configurations. The safety
invariants are inductive together with `GrpcNotYet` (the health service does
not run before it is started, without which a panic could find it running).
`SparesClients` needs `ServedOnAccepted`: the streams that are dropped with the
endpoint's queue belong to connections that were not accepted, so none of them
is served.

Every invariant and every action property that a passing run checks is proved,
and so is the refinement. Only model-checked is liveness (`HandshakeEnds`,
`RunEnds`, `WriterEnds`, `StreamEnds`, `ServingBecomesReady`,
`CancelStopsListening`, `ConnectionsTaken`, `StreamsServed`, `GoneIsReleased`),
because the prover has neither fairness nor ENABLED.

## What is not modelled

- The loops of `insert`, `delete` and `search` over Vec children and index
  paths: the calls hold the router exclusively, so no one sees their steps, and
  `Router` states what each computes.
- Bytes to dispatched frames in one module: `Codec` and `Connection` meet only
  in the sequence of frames, which the one yields and the other starts from.
- The metrics handler (gather, encode, respond), counters that nothing updates,
  logging, the wording of errors, the permission stub, build scripts and
  development certificates.
- That the end of `main` ends every task: what drops the tasks is tokio, when
  the runtime is dropped. `DropRuntime` takes it as given.
- What prost accepts, TLS and QUIC themselves, and the contents of INFO but for
  the client id.
