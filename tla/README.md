# wRPC in TLA+

TLA+ models of the runtimes and codecs of [wRPC](../src/README.md),
model-checked with TLC on small instances, and theorems about them checked by
TLAPS.

wRPC is a component-model RPC protocol. One invocation is a pair of byte
streams, one per direction. Parameters and results are encoded on the root
*path*; values that are not ready at once (streams, futures, and whatever is
nested in them) are sent on paths of their own, so that each byte stream
multiplexes frames `(path, data)`. An empty frame closes its path. Runtimes in
Rust, Go and JavaScript implement this, each with its own tasks, channels and
locks. This is where wRPC is hard to get right, and what is modelled here.

## 1. Inventory

| Component | State | Operations | Interacts with |
|---|---|---|---|
| **Incoming** (`crates/transport/src/frame/conn/mod.rs`) | `Subscriptions` under a mutex (slots by path, handle counts, `next` indices, a semaphore of unclaimed elements, a notification), a bounded channel per path, `IngressState` (`err`, `failed`, `done`) | `index`, `take_rx`, reading, dropping a handle, `finished`; the ingress task (read a frame, route it, wait for a permit, send chunks, drain, close) | Peer's Outgoing by bytes; value decoders |
| **Outgoing** (same file) | A queue of 128 frames, `done` watch | `index`, `clone`, writing and closing a path, dropping a handle, `finished`; the egress task (take, write, flush when idle, shut down, publish, drop) | Peer's Incoming; value encoders |
| **Socket halves** (`frame/split.rs`) | The socket under a mutex, one waker, `eof`, `shutdown` | reading, shutting down, dropping either half | Ingress reads, egress writes |
| **Rust server and client** (`frame/conn/server.rs`, `client.rs`, `serve.rs`, `invoke.rs`, `oneshot.rs`) | Handlers by name, tasks of an invocation, deadlines | accept, serve, `invoke_values`, `serve_values`, timeouts | Incoming and Outgoing of both directions, generated stubs |
| **Frame codec** (`frame/codec.rs`) | What is left of a frame being decoded | resumable decoding, encoding | Ingress, egress |
| **Value codecs** (`value.rs`, `pack.rs`, the code the Rust and Go generators print, `go/*.go`, `js/src/value.js`, `crates/wasmtime/src/codec.rs`, `crates/wave`) | Encoder and decoder trees, deferred writes and reads of nested values | encode, decode, pack, unpack | Indexed handles; each other by bytes |
| **Paths** (`crates/introspect`, `crates/wasmtime/src/paths.rs`) | None | the patterns a type may be pending on | Subscriptions |
| **Go reader, writer, server, client** (`go/`) | Channels, counts and contexts shared by goroutines; a condition variable; handlers under a RW mutex | Index, Read, Write, Close, CloseWithError, Serve, Accept, Invoke | Each other; the peer by bytes |
| **JavaScript runtime** (`js/src/`) | A trie of expected paths, data buffered for paths not known yet, queues of the application | seal, finish, discard, route, abort; `receiveTuple`, `readStream` | The peer by bytes |
| **QUIC, WebTransport, WASI TCP, HTTP** (`crates/quic`, ...) | Adapters of other libraries' streams | open, accept, abort | Incoming and Outgoing |
| **Wasmtime glue, CLI, key-value services, the rest of the generators, tests** | Glue, text generation | | |

What is hard, with the lines where it bites, is listed as `hazards` in
`PROJECT.json`. In short:

* *Interleavings.* Ingress, egress and any number of handles in other tasks
  share state under locks that are released in the middle of an operation (a
  frame waiting for a permit, a chunk sent with a clone of the sender, a waker
  registered before the lock is taken, a flag swapped before a context is
  cancelled).
* *Bounds against the peer.* A peer can name any path. Elements nobody indexed,
  chunks nobody read and frames nobody took are all bounded, by counts that must
  neither leak nor be returned early.
* *Failure and abandonment.* A task may be cancelled, a handle dropped or the
  transport fail anywhere. The one thing that may never happen is that something
  cut off is taken for something that ended.
* *Ends.* `finished`, `Close` and the stop function wait for others, which wait
  for others.
* *Agreement.* Six encoders and five decoders, written or printed in three
  languages, have to agree on every byte and every path, and on what to reject.

What makes each component correct:

* Incoming: bounds hold whatever the peer sends; each path reads as a stream of
  its own, with a true end; unprocessed data is reported; nothing is resurrected;
  ingress neither sleeps through a wakeup nor hangs while draining.
* Outgoing: success means everything was written; errors have a cause; frames are
  not held back while egress sleeps; writers and `finished` are answered.
* A connection: a path delivers exactly what was sent on it.
* Socket halves: abandoning is told from finishing, on both sides, at once.
* Go server: once a function is stopped, no call of it runs. Go writer: a clean
  end means everything was written. Go reader: a clean end means everything was
  read; its goroutine is woken and always closes the transport.
* Codecs: what any of them writes, cut anywhere, every other reads as the same
  value, on paths the reader declared; bytes nobody wrote are read as the same
  value too, unless a reader has a restriction of its own, all of which are named.
* JavaScript multiplexer: success means everything was decoded; a peer that
  declares sub-streams before it uses them is never blamed; nothing blocks.
* An invocation: success means both directions went through; it fails for a
  cause; it returns.

## 2. Modules

```
Patterns <- Incoming <-+                          Patterns <- GoReader
                       +- Connection => Delivery  GoWriter   GoServer
            Outgoing <-+                          Patterns <- GuestChannels
Split                                             JsMux

Exchange <- Clients, Servers <- Invocation

Values <- RustCodec, GoCodec, JsCodec <- FrameCodec <-+
          RustCodec <- Pack, HostCodec <--------------+- Interop
Values <- Paths <-------------------------------------+

PatternFacts <- IncomingProofs <- ConnectionProofs   PatternFacts <- GoReaderProofs
SplitProofs   GoProofs   InvocationProofs   JsMuxProofs
```

Every `MC*` module extends one of these and defines the constants of its
configurations. A definition that nothing uses, placed before the one it is a
variant of (such as `NotifyNone` before `Notify`), is a deliberate bug:
substituted for the definition, it makes the property fail that `PROJECT.json`
names under `mutants`, so every property is known to be able to fail.

### Patterns and Incoming

`Patterns` is the part of `Subscriptions` that never changes: the declared async
paths, with wildcards for list and stream elements, and what `resolve` says of a
concrete path. `Node` is the set of paths that resolve; an *element* is a prefix
that ends at a wildcard, the unit that is counted, limited and released.

`Incoming` has one variable per field. The slot of a path is the pair `tx[p]`,
`rx[p]`, and its channel is the number `chan[p]` of chunks in it: the contents
play no part, only how many are where. One action is one stretch of code no
other task can observe half done:

| Code | Actions |
|---|---|
| `Incoming::index` (skip and remove elements; create or take the slot; no slot) | `IndexSkip`, then `IndexTake` or `IndexNotFound` |
| splitting a reader off a handle | `TakeReader` |
| `poll_read` of a handle with a receiver (without one it changes nothing) | `ReadChunk`, `ReadRest`, `ReadEof`, `ReadError` |
| `Drop` | `DropClose` (outside the mutex), `DropRelease`, `DropFinish` |
| `ingress`: a header arrives and is routed | `IngressFrame`, `IngressUnknown` |
| ... waits for a permit or for an element to be indexed | `IngressPermit`, `IngressIndexed`, `IngressClosed` |
| ... reads and sends a chunk, in two steps as `mpsc::Sender::send` does | `IngressData`, `IngressReserve`, `IngressPush` |
| ... the byte stream ends or breaks, a handle failed ingress | `IngressEnd`, `IngressBroken`, `IngressFailed` |
| the task around it | `SetErr`, `CloseTx`, `CloseRx`, `Abort` |

The peer is arbitrary: any frame on any path of `WirePath`, at any time, an end
at any point. `lock` is the handle inside a critical section that takes two
steps; ingress pushes into channels without the lock, so such a section is not
atomic with respect to it.

### Outgoing, Connection, Delivery

`Outgoing` models the handles, which wait for, hold, use or lose a slot of the
queue; the egress task; and a transport that takes a frame piece by piece, holds
pieces back until it is flushed (or until it pleases: `Spill`), blocks, and fails
after any piece. `end` is what the peer sees: `fin` after a shutdown, `reset`
if the write half is dropped without one. That is what TCP (zero linger) and QUIC
do; the Unix transport passes a no-op abort to `split.rs`, so its peer sees the
socket closed, which is not modelled.

`Connection` puts Outgoing of one peer and Incoming of the other on one byte
stream: what ingress reads is what egress wrote. The writers keep to the
protocol, as the encoders do: declared paths only, and nothing on a path they
closed. Reserving and sending are one step there, and clones and held-back
pieces are left to `Outgoing`, to keep the product small.

`Delivery` is the abstract specification: every path is a stream of its own, its
reader gets nothing that was not sent, and an end only after everything sent, and
only if the path was closed or nobody is left to write. `Connection` implements
it under the mapping given with `INSTANCE` (`closed` is the set of paths closed
by their writers, `quit` that no writer is left).

### Split

A poll of the reader is two steps (register the waker; lock and poll) and so is
the drop of the write half (take the socket under the lock; wake). Everything the
two tasks can do to each other is in the order of these four.

### GoServer

`Serve`, the stop function it returns (cancel, delete under the lock, wait for
the group) and `Accept` (header, lookup and count under the read lock, call).
Sections that hold the RW mutex for writing are one step and need `readers = {}`.
Reading the header is one step that succeeds or fails.

### GoWriter

Handles sharing a channel and a count, the goroutine and its `bufio` buffer, and
`frameEgress.fail` in its three steps. The context is its first cause, as Go's
is. A `select` with several ready cases is a free choice. A handle is not used
after it was closed: Go would panic on a send to a closed channel then.

### GoReader

The Go counterpart of Incoming, with other means: readers and the goroutine
share subscriptions under a mutex and wait on one condition variable; data is
sent to channels outside the mutex, and after the send the goroutine checks
whether its reader is gone (`IngressCheck`). A reader is dropped in two steps,
`Leave` (it is counted down) and `Release` (under the mutex); failing is two
steps too, the error and the closing of the transport. The context may be done
at any time (`CtxDone`), and wakes the goroutine in another step (`CtxTold`).

### Values, the codecs and Interop

`Values` has types and values of the component model and what the codecs share.
`RustCodec`, `GoCodec`, `JsCodec` and `HostCodec` (the Wasmtime host, and WAVE)
translate the code that encodes and decodes each kind of type, deferred writes
and nested reads included: bytes are bytes here, since what the properties
compare is bytes. Rust decoders are resumable, so their state is explicit and
they are fed piece by piece; the others read from the whole input. `Pack` adds
packed buffers, `FrameCodec` frames and headers in three languages, `Paths` the
patterns that types declare. Frames are read in two places in Rust and in Go:
the codec of single frames (`Decoder`, `ReadFrame`) limits the path and the data
of a frame, while ingress (`ingress`, the goroutine of a `FrameStreamReader`, and
JavaScript's `_ingress`) limits the path to the depth of the declared paths, and
data not at all, since it passes it on in chunks; all five are compared. The host
reads the resource of a guest as an id of `IdLen` bytes among those it gave out
(`Shared`), and any other resource as bytes of the peer.

`Interop` chooses a case (types and values, or a frame, or a header) and an
encoder, or a type and raw bytes (`RawInputs`), and lets the bytes arrive in any
pieces (`Arrive`). Every kind of type occurs in the cases of `MCInterop`, plain and
pending, at hand and late, nested in each other, with numbers at the boundaries
of their encodings. The raw bytes are all short inputs for 22 types and, for
what has a length, numbers that are padded, too long or too large, and frames
beyond every limit. `DecodersAgree` compares every two readers on them; what one
accepts another may reject only as `Refuses` says:

* the codecs of single frames, a path or data beyond `MaxDepth` and `MaxSize`;
  ingress, a path longer than those declared;
* Go, a discriminant padded to more bytes than its number of cases needs;
* all but the host and WAVE, bits that stand for no flag (those two ignore them);
* the host, the id of a guest's resource that it did not give out or whose length
  is padded beyond a `u8`;
* WAVE and packed buffers, bytes after the value; packed buffers, a value that is
  pending.

### JsMux

The trie is a function from the paths it holds; what is buffered for a missing
child is `pend`, with the node at which its lookup stopped. Methods that call
each other are operators on the whole multiplexer, so that everything between
two awaits is one step. The peer may send any frame (one that breaks the
protocol at most); the application reads or leaves every stream it holds. The
values are streams of streams of streams, whose elements are sub-streams at the
path of the element; futures, and streams that come inline, are left to the
codec. Once the multiplexer is aborted the rest of its life is not modelled.

### Exchange, Clients, Servers and Invocation

One call of a function with a stream parameter and a stream result. `Exchange`
has the state both sides share: two directions that promise what `Delivery`
states, hold `Capacity` items and may fail or be reset, and histories for the
properties. `kind` says who calls whom.

`Clients` has an action per operation of each kind of client, over bodies they
share (`StartCall`, `ParamWritten`, `ResultsRead`, ...):

| Client | Code | What is particular |
|---|---|---|
| typed, blocking | `invoke.rs` | the `select!` between the task that writes the parameter and the results, and the future left; the result is handed over at once or when all is done |
| host | `polyfill.rs` | a guest's import: one timeout for the whole call; the result stays in the guest's store |
| guest | `rpc/mod.rs`, `rpc/host/` | the invocation is transmitted when first polled, its channels may be dropped before that, and its result tells how both directions ended |
| go | what `generate_imports` prints | goroutines and channels without buffer; what fails resets the connection |

`Servers` has the registry (`server.rs`) with the stub that wit-bindgen-rust
prints over `serve_values`, a wasm host that calls an export in a store of its
own or in a shared one (which any call may trap), and what `generate_exports`
prints for Go under `FramedServer`.

`Invocation` composes them and states the properties. Handler and application
read, stop reading, return or fail at any time.

### GuestChannels

What a guest of `wrpc:rpc` does with incoming channels before its invocation is
transmitted. `pend` is `PendingChannels` with its pruning, `Transmit` is
`IncomingRoot::set`, which replays on the transport (`real`) what was indexed,
and `direct` is the transport the same guest would have had if it had been there
from the start. A transport is its subscriptions here: which paths are
subscribed to, handle counts, `next` and taken receivers.

## 3. Runs

| Run | Instance | Properties |
|---|---|---|
| `incoming` | `stream<stream<T>>`, two handles, one permit, channels of one chunk, two frames of up to two chunks | `TypeOK`, `UnclaimedBound`, `HandlesCounted`, `PermitIffUnclaimed`, `OkMeansProcessed`, `NoLostWakeup`, `EofIsTrue`, `ReleasedForever`; `FailureSurfaces`, `DrainEnds` under fairness |
| `incoming_drain_stuck` | `list<tuple<future, future>>` | `DrainEnds`: a finding below, as a counterexample |
| `outgoing` | two handles and paths, one slot, three frames | `CauseKnown`, `EgressProgress` |
| `connection` | both peers, a stream parameter and its first element | `Delivered` (the refinement), `OkMeansDelivered`, `NoBlame` |
| `split` | two bytes | `EndIsTrue`, `AbortIffUnfinished`, `ReaderWoken` |
| `go_server` | two functions, registrations, stop calls and connections | `QuietAfterStop`, `StopsOwn`, `ReaderKept`, `StopEnds` |
| `go_writer` | three handles, a channel of two, three frames | `CloseOkMeansWritten`, `CleanEndMeansAll`, `NoSendOnClosed`, `CloseEnds` |
| `go_reader` | `stream<T>`, two readers, one unclaimed element, channels of one chunk | `OkMeansRead`, `NoLostWakeup`, `EofIsTrue`, `ReaderEnds` |
| `interop` | the cases of `MCInterop`, and raw inputs: up to three bytes of ten values for 22 types, padded and over-long numbers, frames and headers beyond every limit | `Resumable`, `RoundTrip`, `DecodersAgree`, `PathsDeclared` |
| `js_mux` | paths of up to three indices, room for one chunk, one chunk in a queue and one buffered sub-stream, three frames of up to two chunks | `OkMeansDecoded`, `NoBlame`, `MuxEnds` |
| `invocation` | every client with a stub, hosts that call each other, Go with Rust and Go; two elements per stream, room for one | `OkMeansExchanged`, `NoSpuriousFailure`, `CallEnds` |
| `guest_channels` | `list<future>`, four channels, pruning from two on | `Mirrored`: a finding below, as a counterexample |

Why the bounds are enough. What the code counts (permits, slots, chunks,
buffered sub-streams) only matters through being exhausted or not, so capacities
of one or two make every wait happen; counts of one or two items above the
capacity make the wait end. Two indices distinguish an element that is skipped
from one that is indexed, and two frames a first from a later frame for the same
element. Two handles besides the root are the fewest that can hold the same
element twice. For `Connection` two frames suffice for data followed by a close
or by data on the other path. `JsMux` needs three levels for data whose lookup
stops twice on its way down, and three frames for one that declares, one that
is buffered and one that waits. `MaxFrames`, `MaxFrameChunks`, `MaxSent`,
`MaxSize`, `MaxBytes` and `MaxData` bound what is sent and correspond to nothing
in the code; `MaxUnclaimed`, `MaxChunks`, `MaxQueue`, `Capacity`,
`QueueCapacity`, `StreamCapacity`, `MaxPending` and the limits of `Interop`
(`MaxDepth`, `MaxSize`, `MaxNameLen`, `IdLen`, `U32Bits`) are the code's
constants, made small: numbers of 32 bits have 18, which as 32 leave four bits
for the last byte, and are too long after three bytes. No symmetry is used: nearly
every run checks liveness or refinement.

Deadlock is not checked: every system here may come to rest (a peer that
stops sending, handles nobody uses, everything dropped). What must not come to
rest is stated as liveness.

### Fairness

* Incoming: a woken ingress task is polled (weak fairness of `IngressStep`), a
  task inside a critical section leaves it, and a mutex released again and again
  is acquired (strong fairness of `CloseTx`, `CloseRx`). Nothing is assumed of
  the peer for `FailureSurfaces`; `DrainEnds` is conditional on `PeerFairness`,
  the peer sending on and ending its stream.
* Outgoing: egress is polled, a full transport passes pieces on and the peer
  reads them, a reserved slot is used or dropped with its handle (both happen in
  the same poll in the code), and slots are granted in order (strong fairness of
  `OutReserve`: tokio's semaphore is a FIFO queue).
* Split: a woken reader is polled, and a poll or drop that began ends.
* GoServer: goroutines run, `sync.RWMutex` does not starve writers, and a
  handler returns once its context is cancelled, which the stop function relies
  on when it waits for the group.
* GoWriter: goroutines run, and the transport succeeds or fails rather than
  blocking for ever.
* GoReader: the goroutine and a drop that began go on; nothing is assumed of the
  peer after a failure, and that it ends its stream if all readers are dropped.
* JsMux: the event loop runs every task that can go on, the transport ends or
  fails, the application reads the streams it received or leaves them, and
  finishes writing. `MuxEnds` says nothing of peers that send data before they
  declare it: such a peer can leave ingress waiting for room.
* Invocation: the tasks of both sides run, and the applications read their
  streams; a handler reads its parameter whether or not its result is being
  read. A handler is only assumed to return once it has read its parameter or
  stopped reading it: a stream whose receipt failed never ends for its reader
  (`receive_pending_stream`), and the call has to return in spite of that.
  `Stuck` names the states in which it does not: a blocking call whose result
  exceeds what is buffered, a guest that gave up its parameter while the handler
  waits for it, and a Go application or handler that stops reading a channel,
  which blocks the goroutine that sends to it.

### Findings

1. `DrainEnds` (`mod.rs:439-441`, "Data ingress continues after all handles are
   dropped until the peer closes the stream"). An element subscribed to before
   the last handle was dropped stays subscribed to. A later frame on another path
   within it finds the element, needs no permit and gets a fresh channel, whose
   data is buffered for nobody; once it is full it blocks ingress for ever, and
   `finished` does not resolve though the peer sends and closes as it should.
   Where an element is a single path with data of its own, as in the run
   `incoming`, `DrainEnds` holds.
2. `Mirrored` (`rpc/mod.rs:130-131`, "so that indexing behaves the same before
   and after transmission"). A guest asks for the channels of `[0]`, `[1]` and
   `[0, 0]` and drops that of `[0]`. If pruning forgets it before the
   transmission, `set` indexes `[1]` first, which passes element 0: the channel
   of `[0, 0]`, which is alive, is refused. Had the transport been there from the
   start, the handle at `[0]` would have kept the element.

`mod.rs:442` says that dropping a handle that received data it did not read fails
ingress. There is a window in which it does not: ingress reserves a slot of a
channel, then pushes (`mod.rs:898`); `Drop` may close the receiver and find it
empty in between (`mod.rs:420-421`), so that the chunk is destroyed with the
channel and `finished` may report success. `raced` records this, and
`OkMeansDelivered` excepts exactly it and what is drained; `OkMeansProcessed` is
about chunks a reader could still have read.

A window of the Go reader is excepted by `OkMeansRead`: a reader is counted down
before it takes the mutex (`frame_reader.go:673`), so of several readers dropped
at once the last may have the transport closed without an error before another
notes data it did not read.

## 4. Proofs

The theorems hold for every value of the constants: every declaration without a
wildcard and an index at the same position (`NoMixedPosition`, the documented
precondition of `Incoming::new`), any peer and application, any limits, and any
finite set of handles. The other assumptions only say that constants have the
type of what they stand for. All assumptions are evaluated by the runs.

* `IncomingProofs!TypeCorrect`: `Spec => []TypeOK`. A channel never exceeds its
  capacity although room is checked in one step and used in another. Inductive
  with `Sending`: a reserved slot is still there when it is used, since only
  ingress adds to a channel.
* `IncomingProofs!HandlesAreCounted`, `PermitsMatch`, `UnclaimedBounded`: the
  accounting of elements. None is inductive alone: the count of an element is
  right only because elements nest (a handle counted for an inner one is counted
  for all around it, `CountedNested`), a permit is given back only because counts
  are right, and the bound holds because permits are held by exactly the
  unclaimed elements. `ElementInv` joins them with the type invariant and
  `PermitBound`. The difficult cases are `DropRelease`, where releasing stops at
  the outermost element that it removes, and `IndexTake`, which creates and
  claims several elements at once; both rest on the lemmas about prefixes and
  elements in `PatternFacts`.
* `IncomingProofs!ReleasesAreForever`, an action property, from `ReleaseInv`. A
  frame for a path that was released is refused only if the element it was in is
  recognised as passed: not subscribed to, and below `next` of its container.
  `Lost` says so of every dropped receiver, and rests on the rest of the
  invariant: `next` of a container is forgotten only with an element around it
  that is itself passed (`Nested`, `Deep`); an element with handles was passed
  (`Claimed`), so releasing it leaves it so; the receivers that `close_rx` drops
  while their element lives on can only be met once nobody can index (`Closing`).
  The difficult moment is the middle of `index`: elements were skipped and
  removed, but `next` is not raised yet, and would not be if `index` then failed.
  `Skipping` bridges it, and `SkipCanTake` shows that `index` does not fail after
  having skipped anything.
* `IncomingProofs!WakeupsAreKept`, from `ReleaseInv` and `Awake`, which states the
  same while the mutex is held: whoever removes or claims an element leaves a
  notification, and a notification is consumed only by looking again.
* `IncomingProofs!SuccessMeansProcessed` and the action property
  `EndsOfStreamAreTrue`, from `DataInv`. `Stock` follows every chunk: a receiver
  is in its subscription, with exactly one handle (`Owned`, `Sole`), checked and
  about to be dropped, or gone; what is unread is what its channel holds and what
  its handle has loaded (`Balance`), and once the receiver is gone nothing is
  unread, or ingress was told. `Senders` and `Ending` fix the order in which
  ingress ends: senders disappear only after `err` is set, so that a reader that
  finds none knows whether the stream broke.
* `ConnectionProofs!PeerIsNotBlamed`, `SuccessMeansDelivered` and
  `PromiseIsKept`, which is the refinement `ConnSpec => Delivered`: every step
  of a connection is a step of `Delivery` or leaves its variables alone. All
  three come from `ConnInv` (`ConnectionHolds`), the invariant of the receiving
  half (`DataInv`; `ReceiverIsIncoming` shows `ConnSpec => Spec`, so a connection
  has all the properties of `Incoming`) joined with:
  `Order`, the frame that closes a path is the last one of its path in the queue,
  in egress, on the wire and in ingress, so that ingress never meets data after
  it; `Framing`, a chunk on the wire follows the header of its own path; `Flow`,
  every chunk sent is in the queue, in egress, on the wire, in ingress, unread or
  read, and none is lost while both tasks run (`NoLess`), after a clean end, or
  ahead of a closing frame; `Leaving`, egress ends the byte stream only when no
  writer and nothing to write is left; and `LateGone`, a reader that is late or
  done has no receiver. `StepKind` reduces the actions to the few ways in which
  one can move a chunk, and each conjunct is shown to survive each of them. A sum
  over a queue would need induction over data, so it is the cardinality of a set
  with one member per chunk (`Units`), about which the library has theorems. The
  added assumption, `ConnAssumption`, is that writers use paths declared to the
  receiver: both peers come from the same declaration.
* `SplitProofs!EndsAreTrue`, `AbortsAreTrue`: from `SplitInv`, which ties `eof`
  to the peer, the socket to the state of the write half, and what the peer sees
  to `shutdown`.
* `ConnectionProofs!CausesAreKnown`, of `OutSpec`: from `OutInv`, by which the queue is dropped
  only after the result of egress was published.
* `GoProofs!StopsAreQuiet`, `ReadersAreKept`, and the action property
  `StopsOnlyOwn`. `QuietAfterStop` needs to know that a call is counted in its
  wait group from the lookup on, that whoever is between lookup and count holds
  the lock for reading, and that a registration deleted under the lock is never
  found again: `GoServerInv`.
* `GoProofs!SendsAreSafe`, `CloseIsTrue`, `CleanEndsAreTrue`, of `WriterSpec` (the
  writer's formulas have names of their own, since `GoProofs` extends it together
  with the server). `GoWriterInv`
  counts the handles that are open, so that the channel is closed only by the
  last one, and relates what was accepted to what is in the channel, in the
  buffer and in the transport, as long as the context has no other cause.
* `GoReaderProofs!GoWakeups`, from `Awake`: the goroutine decides to sleep under
  the mutex, and every step that changes what it looked at broadcasts.
* `GoReaderProofs!GoSuccessMeansRead`, from `ReadInv`. A chunk in a channel that
  is dropped is noticed by whoever drops the channel, or by the goroutine that
  sent it at the same time and has yet to check (`Noticed`); the last reader
  drops all channels (`Dropped`), so that a goroutine that sees it gone without a
  failure has nothing left in any (`Empty`); a reader dropped with part of a chunk
  has failed the goroutine, unless that was ending already (`Parts`). `Ending`
  says which ends are without error.
* `GoReaderProofs!GoEndsAreTrue`, an action property, from `EofInv`. A channel is
  closed for its path only, or for all once the goroutine is done (`Shut`), but
  the path is forgotten as closed when an element around it is removed. So the
  subscription of a reader must not be removed (`Owned`): elements count their
  readers exactly and nobody is within one that is removed (`Counted`), and what
  was removed is recognised as released for ever and cannot be indexed again
  (`Lost`).
* `InvocationProofs!SuccessIsTrue`, `FailuresAreCaused`: for every kind of client
  and server, every capacity and streams of any length. `InvocationInv` has five
  parts. `UpInv` and `DownInv` say that the end of a stream can only be the last
  item under way, that it is there only if all was written, and how much of the
  result was taken; `StageInv` relates the stages of both sides; `CalmInv` says
  what is true as long as there is no cause: a reader is gone only after the end
  of its stream, and a direction ends only with it, so that nobody meets an end
  early. For the first two, every step is shown to be quiet, a write or a read
  of each direction (`NextSteps`), and the three forms preserve them.
* `JsMuxProofs!JsSuccessMeansDecoded`, `JsPeerIsNotBlamed`: for any types, any
  nesting of streams, any peer and application and any limits. `JsMuxInv` has
  three parts.
  `AliveInv` holds until the multiplexer aborts. In it `Streams` accounts for
  every chunk: it was decoded, is being decoded, or is in its channel, and what
  ends a stream is the last one unless the peer sent more (`ChanInv`, `FlowInv`,
  `EndInv`); `TrieInv` ties the nodes of the trie to the tasks that read;
  `PendInv` has buffered data wait below a node that may yet declare it;
  `PassedInv` keeps what was forgotten barred, so that it is never taken for
  something new.
  `CalmInv` holds as long as nobody is to blame: what arrives was declared before,
  and what was forgotten was ended by the peer. `NoBlame` is not inductive without
  it: that a frame finds its node, or may wait, depends on every step that prunes
  the trie. The difficult ones are pruning after the end of a stream (`EndOver`),
  where no frame for what is below can follow, and discarding elements, which
  removes a subtree and its buffered data at once. `DoneInv` is what remains once
  `finished` resolved.
  The methods of the trie loop over nodes; what each returns is stated once, by a
  predicate (`IsSealed`, `IsGrown`, `IsFinished`, `IsDiscarded`), and the steps are
  proved from it. The assumptions added are types of constants: wire paths are
  sequences of indices, and a tuple with streams has a depth above zero.

Checked by TLC only: all liveness properties (fairness and ENABLED are out of the
prover's reach), and the properties of the codecs, `Resumable`, `RoundTrip`,
`DecodersAgree` and `PathsDeclared` of `Interop`. The codecs are recursive over types and values,
and induction over them cannot be done here: `Interop` is checked over the cases
listed in `MCInterop` and all raw inputs within its bounds.

## 5. Not modelled

`PROJECT.json` lists every component and why. The adapters for QUIC,
WebTransport and HTTP, the command line tools and the services keep no protocol
state of their own; of the wasmtime glue, its codec, its stubs and its tables of
guest channels are modelled and its linking of components is not; WASI TCP polls host functions that
are not in the repository. Of the generators, what they print to encode, decode
and serve is modelled as the code that runs; naming and layout are not. Chunk
contents outside the codecs, logging, tracing and the socket options are
abstracted everywhere. `Subscriptions::next` saturates at `usize::MAX`; indices
are unbounded here. Of the numbers the codecs have 8-bit and 16-bit ones and
`f32`, besides lengths, indices and discriminants of 32 bits: the code for wider
ones differs in the width only, and 18 bits stand for 32.

Simplifications a reader should know: in `Connection` reserving and sending are
one step; a handle of `Incoming` that reported its end or an error is not read
again (it would answer with an end, whatever it reported before), so that
`EofIsTrue` is about what it reports first; `Interop` runs deferred writes in one
order, since they are on different paths, and has all of them arrive before
nested values are read, so that what arrives before the value that declares it is
left to `JsMux` and `Incoming`; `JsMux` takes a chunk of a channel for one whole value, so that
values cut by frames are left to `Interop`; `Invocation` has one call, one
function and one connection.

## 6. Plan

Done, in this order: Patterns and Incoming; Outgoing, Connection and Delivery;
Split; GoServer; GoWriter; the first proofs; Values, the codecs and Interop;
GoReader; JsMux; Invocation; GuestChannels; the proofs of Outgoing, GoServer,
GoWriter and Invocation; the other safety properties of Incoming; Connection and
its refinement of Delivery; the proofs of GoReader and of JsMux.

Every safety property a passing run checks is proved, but for those of the codecs.

## 7. Running

    tlc -config MCIncoming.cfg MCIncoming         # a run: see "runs"
    tlapm IncomingProofs.tla                      # the proofs of a module
