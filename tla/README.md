# proto4: specifications, model checking and proofs

proto4 is a small set of network services and tools on one frame format: a node
registry (dfinder), a proxy for Prometheus remote_write (prom_proxy), the frame codec
in Rust and Go (tiny_frame, tinyframe), a Go client for the proxy (promproxy) and a
command line tool (tframe). This directory holds TLA+ specifications of its parts, the
TLC configurations that check them on small instances, and proofs that TLAPS checks for
every instance.

Source paths below are relative to the repository. `tlc -config X.cfg M` checks one run,
`tlapm M.tla` one module of proofs.

## 1. Inventory

### dfinder, the registry (src/dfinder/server.rs, store.rs, client.rs, protocol.rs)

| | |
|---|---|
| State | the SQLite table `nodes`, one row per peer IP, on disk; the map `health` (healthy, last_ok) in memory; both under one tokio RwLock. Per connection: one request and its reply. Per probe cycle: the list, one clock reading, the expired nodes. |
| Operations | `Server::new`, `handle_register`, `handle_query`, `run_probe_cycle`, accept loop, abort of the handle; on the client `register`, `query_healthy`. |
| Interaction | a client opens one connection per call; one task per connection; probe loops call a function of the user between critical sections. |
| Hard | a cycle releases the lock between list, clock reading, every probe and the removal; SQLite may fail in the middle of a removal; a crash keeps the table and loses the map; callers leave while their request is being handled. |
| Correct when | table and map agree; only nodes seen in this life of the process are shown; acknowledged registrations are there; a query answers from one instant; dead nodes go, live nodes come back; every call returns. |

### prom_proxy (src/prom_proxy/server.rs, client.rs, protocol.rs, edge.rs)

| | |
|---|---|
| State | a Redis hash of counters, shared by all processes that use its key; one flush task per server; per connection one request. |
| Operations | `handle_conn` (read, check the type, post, count, reply), `flush_edges` (totals, timestamp, post), `EdgeStore::incr` and `totals`, spawn; on the client `remote_write`. |
| Interaction | HTTP to the upstream, Redis commands, tiny_frame over TCP to the client. |
| Hard | every step of a call is a remote operation that may fail, or take effect without its answer arriving; the flush task runs beside the calls and outlives the accept loop; several processes may report the same hash. |
| Correct when | an ack means that the upstream has stored the body; the counters lie between what was acked and what was stored; samples are neither ahead of the hash nor step back; every call returns; totals are reported in the end. |

### The frame codec (src/tiny_frame.rs, tinyframe/frame.go)

| | |
|---|---|
| State | the key of the process: a OnceCell in Rust, a variable behind a mutex in Go; the SDK passes a key of its own. Nothing else outlives a call. |
| Operations | `set_encrypt_key`, `write_frame`, `read_frame` and their blocking, plain and `WithKey` variants. |
| Interaction | everything that goes over TCP; Rust and Go talk to each other. |
| Hard | the u16 length speaks of what is left after compression and sealing; keys appear, are None, are replaced; streams are cut in a frame or garbled, and a wrong length makes a reader lose its place. |
| Correct when | a reader gets what was written, in order, or an error with a reason; no changed frame is taken for an encrypted one; nothing goes out in the clear by mistake. |

### Other parts

| Part | What matters | Status |
|---|---|---|
| transaction ids (both Rust clients, promproxy/client.go) | a counter that wraps and skips 0; in Go a compare-and-swap loop shared by goroutines | `TxId` |
| edge.rs on its own | increments that may arrive late or unanswered, a u64 delta cast to i64, negative fields left out of the totals, two stores | `EdgeStore` |
| encode.rs, promproxy/encode.go | how a metric family becomes time series, in two languages that should agree | `EncodeFamilies` |
| bin/prom_proxy.rs | it exits when the accept loop ends | `PromProxy` (`Exit`); its argument parsing is not modelled |
| cmd/tframe | one request, one answer, checks of flags and manifest | not modelled |
| lib.rs, mod.rs | declarations and tests | not modelled |

## 2. Modules

| Module | What it is |
|---|---|
| `DfinderDirectory` | abstract: what a registry promises its callers |
| `DfinderRegistry` | the registry, with its properties; implements `DfinderDirectory` |
| `MCDfinderRegistry` | instances for TLC |
| `DfinderRegistryProofs` | types, safety, by inductive invariants |
| `DfinderDirectoryProofs` | the refinement, and what follows from it for a caller |
| `PromForwarder` | abstract: what the proxy promises its callers and the upstream |
| `PromProxy` | the proxy, its edge counters and its callers, with its properties; implements `PromForwarder` |
| `MCPromProxy` | instances for TLC |
| `PromProxyProofs` | types, acks, counters, samples |
| `PromForwarderProofs` | the refinement |
| `FrameChannel` | abstract: what one direction of a connection promises its two ends |
| `TinyFrame` | the codec in both languages on one stream; implements `FrameChannel` |
| `MCTinyFrame` | an instance for TLC |
| `TinyFrameProofs` | header bytes, types, errors, keys, the refinement, and what follows from it for a reader |
| `EdgeStore` | the two stores of edge.rs on a Redis hash |
| `MCEdgeStore` | an instance for TLC |
| `EdgeStoreProofs` | types, counters only grow, counts and totals are exact |
| `EncodeFamilies` | the two remote_write encoders |
| `MCEncodeFamilies` | small families for TLC |
| `EncodeFamiliesProofs` | types, times, closed histograms, distinct series, whole metrics, the two languages side by side |
| `TxId` | the transaction ids of the clients |
| `MCTxId` | an instance for TLC |
| `TxIdProofs` | ids are fresh; Rust and Go count alike |

### DfinderRegistry and the code

One action is one critical section or one step between two awaits:

| Code | Actions |
|---|---|
| `Client::register`, `query_healthy` | `Call`; the second half is in `Reply`; `GiveUp` when the future is dropped |
| accept loop, `handle_conn` | `Accept`, `ReadFails` |
| `handle_register`, `handle_query` | `HandleRegister`, `HandleQuery`, `Refuse`, `HandlerFails`, then `Reply` |
| `run_probe_cycle` | `ListNodes`, `ReadClock`, then per node `ProbeReturns` and `ApplyResult`, and `RemoveExpired` |
| `run_and_notify` | `AcceptFails` (its own probe loop is aborted), `AbortHandle` (that loop is detached) |
| `Server::new`, process | `Crash`, `Boot` |

`store` is the table, `health` the map, `conn` both ends of every connection, `probe` the
local variables of the loops. `regAt`, `since` and `confirmed` are history variables that the
properties read and no guard does; so is the field `took` of a connection. The order of
the nodes in a list is left open. A registration is a member of `Infos`; its labels are
all that a query looks at. SQLite failures are in `Faults`: a failing upsert or list
changes nothing, a failing remove ends the loop with the nodes before it removed. A
failing list in a probe cycle is a stuttering step. Each DELETE commits by itself, so that a
crash takes any part of what a cycle is about to remove (`CrashLosing`), and no other row. A
peer that does not use client.rs (`RawConns`) may send empty labels, a frame of an unknown
type, which is refused, or one that does not parse, whose connection ends without a reply.

The variants above some definitions (`RemoveRowsOnly`, `Distance`, ...) are what those
definitions would be with a plausible bug; each shows that a property notices it.

### DfinderDirectory

A directory is a row per address and a set of calls. A call takes effect at most once, at
one instant; it returns `ok` only after that; a call that failed may still take effect, once.
A query's answer is a subset of the matching rows of one instant (which rows count as
healthy is the registry's business). A row is deregistered only when its address is in `due`:
`Judge` puts it there, and `Lose` takes rows of `due`, fails waiting calls, or does both in one
step, as an outage does. So an outage takes no row that was not due. What was found overdue
may be forgotten (a crash, a DELETE that fails), and a row may go after its node has
registered again, which the code does (section 5). The registry refines it with `dir <- store`,
the calls seen by their callers, `took`, and `due` as what the probe loops have marked and
not yet dealt with; a registry whose table were lost with the process would not refine it.
When a node may be judged is not the directory's business: `RowsKeptForTTL` says that its row
is at least offline_ttl old when it goes, also across crashes and boots.

### PromProxy and the code

| Code | Actions |
|---|---|
| `Client::remote_write`, Go `RemoteWrite` | `Call`, `GiveUp`; the answer is read in `Reply` |
| `handle_conn` | `Accept`, `ReadFails`, `Refuse`, `Forward`, `PostReturns`, `Count`, `Reply` |
| `flush_edges` | `ReadTotals`, `Stamp`, `FlushReturns` |
| spawn | `ListenerStops`, `Crash`, `Boot` |
| `main` of bin/prom_proxy.rs | `Exit` |

`edges` is the Redis hash, `flush` the local variables of the flush tasks. Redis and the
upstream are external. A request that fails below HTTP, or is answered with an error, may
have been stored; an increment that fails may have been applied; what a dying process had
sent may still arrive. Prometheus may refuse any sample. `taken`, `samples` and `edgesAt`
are history. An error whose text does not fit in a frame is no reply: its caller ends with
an error either way, so the model does not tell the two apart. A body is not modelled: the
call stands for it, since the proxy sends it on as it is.

A server embedded in another program keeps its flush task when the accept loop ends or its
handle is aborted; a server of the binary (`Binaries`) does not, since `main` returns and the
process goes. `End` is what the end of a process does either way, by `Crash` or by `Exit`:
its connections are reset, and a command or a post under way may still take effect.
`crashes` counts crashes only.

### PromForwarder

A forwarder is a set of calls, the bodies that the upstream has stored, and a total. The
body of a write call may be stored at any instant after the call was made, also when its
caller has failed by then; nothing else is stored. A call returns `ok` only after that, and
an outcome is final. The total only grows, is never more than what was stored, and is reported
only once it is reached. With `Lossless`, every success is in the total before its call
returns. The proxy refines it with `taken` as what is stored, the hash field
`remote_write_ok` as the total and the totals of the samples as what is reported; `Lossless`
holds where no Redis failure is among the `Faults`. All processes on one hash are one
forwarder. Connections, the flush rounds, the other fields of the hash, crashes and restarts do
not show.

### TxId and the code

`Begin`, `Load` and `Swap` are the call, the load and the compare-and-swap of
`Client.nextTxID` in promproxy/client.go; a failed swap goes back to `Load`. `RustSucc` is
the successor in both Rust clients, whose `&mut self` admits one caller at a time, so that
their counter is the same loop with one caller. `issued` is history.

### TinyFrame, FrameChannel and the code

One stream between two processes; `api` says which interface each end uses: `rust`, `go`
(the functions with the key of the process) or `sdk` (the functions `WithKey`).

| Code | Actions and operators |
|---|---|
| `set_encrypt_key`, `SetEncryptKey` | `SetKey`, behind `MaySet`: once in Rust, at any time in Go |
| `write_frame` and variants | `BeginWrite` (Go looks up its key here), then `RefuseWrite`, `PanicWrite` or `WriteFrame` (Rust looks up its key here) |
| `pack_header_byte`, `aead_aad`, `build_wire_frame` | `Packable`, `HeaderOf`, `AadOf`, `SizeOf`, `Fits`, `PacketOf` |
| `read_frame`, `read_frame_header` | `Arrived`, `ReadFrame`, `ReadEnd` |
| `decrypt_payload`, `decompress_payload`, `parse_wire_frame` | `Legible`, `Inflated`, `Parsed` |
| the network | `CloseStream` (what follows some byte does not arrive), `DamageFrame` (header, id, length or payload of one frame change), `Realign` |

A payload is a record of what went into it: key, authenticated data, compression, data.
The cipher opens it with the same key and the same authenticated data and not otherwise;
decompression gives back what was compressed in the same way, and an error or `Junk` for
other bytes. `Size` is a parameter: how long each datum is under each compression. A reader
whose frame had a wrong length is `lost`: it reads on in the middle of some frame, gets an
error or plain junk (`ReadLost`), and may by chance come to the start of a frame again. A
panic of a writer takes the stream with it. `sent`, `got` and `intact` are history.

`FrameChannel` has three variables. While the bytes are intact, the n-th result is the n-th
frame or an error. Afterwards plain frames are worth nothing, and an encrypted frame that is
delivered is one of those written; it may be delivered again or out of order, since the
codec has no sequence numbers.

### EdgeStore and the code

`Incr` and `Totals` are the calls of both stores; an increment of zero returns at once.
`HIncrBy` and `HGetAll` are Redis, which executes a command at any time after it was sent,
also after its caller has failed; a sum that does not fit is refused. `Lost` is a command
that never arrives, or was never sent since there is no connection; `Answer` and `Broken`
end the call. `Limit` stands for 2^63, `AsI64` for the cast `delta as i64`, `TotalOf` for
the filter of `totals`. The sum of a set of increments is stated as a number
of units, one for each increment and each number up to its delta. A field that is left out of
the totals reads as zero. Every call
belongs to any process: a store has no state of its own but its connection.

### EncodeFamilies and the code

A step is one metric (`Encode`, `NoCase`), one turn of the outer loop (`NextFamily`), or the
beginning and end (`Gather`, `Return`). `sdk` says which encoder runs. A sample names the
metric and the part of it that its value is taken from (`value`, `sum`, `count`, `bucket` or
`quantile` with its index); a name is the sequence of its parts, so that `h` with `_count`
and a family called `h_count` have one name. `FloatLabel` keeps the one difference between
the languages: +Inf is written `inf` by Rust. `HasTime` keeps the other: in Rust a timestamp
of zero is none. `clock` is the wall clock of a request, on either side of the epoch, and `Now`
the timestamp that is made of it: before the epoch `chrono_now_ms` falls back to zero and
`UnixMilli` is negative. `Registered` is what the client libraries see to before the encoders
get a list.

## 3. Runs

`CHECK_DEADLOCK FALSE` everywhere: clocks and calls are bounded, so the systems stop.

| Run | Instance | Question |
|---|---|---|
| `registry_safety` | 2 nodes, 2 calls, one of them possibly from a peer without client.rs, 1 probe loop, 1 crash, all faults, TTL 1, 1 tick; 546,000 states | do table, map and answers stay consistent, is a fresh registration marked by an old reading, does a row go too early, and is the registry a directory? |
| `registry_live` | 2 nodes, 2 calls, one possibly from a peer without client.rs, all faults, no answer fits in a frame, 1 crash, TTL 1, 1 tick, fair; 284,000 states | do calls return and silent nodes go, does one node keep the other from being removed or shown? |
| `proxy_one` | 1 embedded server, 2 calls of 3 types, 1 crash, all faults, 1 tick, fair | are acks true, counters bounded, samples monotone, and is the proxy a forwarder; do calls return and totals reach the upstream? |
| `proxy_shared_hash` | 2 servers of the binary, 2 calls, 1 tick | do two flush tasks on one hash report more than was counted, is an ack read before it is counted? |
| `txid` | 3 goroutines, a counter of 4 values, 7 calls, fair | can an id be 0 or repeat too soon, can a caller starve? |
| `frames` | 4 pairs of interfaces, 2 keys, 4 requests, 2 frames, a length field up to 3, one damaged frame, fair | does a reader get anything but what was written, does anything go out in the clear or get stuck? |
| `edge` | 4 calls, 2 fields, 3-bit integers | is an increment lost, counted twice or negative, are totals stale? |
| `encode` | every list of one family of up to 2 metrics, or of 2 families of one, of 6 types; a clock before and one after the epoch | is a number lost, written twice or under a wrong time? |
| `registry_healthy_removed`, `registry_marked_early`, `registry_abort_probes` | 1 node, 2 calls, TTL of 2 ticks, 3 ticks | three comments of server.rs that the code does not keep, see section 5 |
| `encode_untyped` | as `encode` | a comment of encode.rs that the code does not keep, see section 5 |

Why the bounds are enough to be interesting: two calls are enough for a registration to
race a query, another registration or a cycle that is already under way; one crash puts
every pair of steps on both sides of a restart; a TTL of one tick lets a node expire in
one cycle; two nodes make the removal loop fail half-way and compete for a cycle. An answer
overflows its frame in `registry_live`, where a `MaxAnswer` of zero makes one registration and
one query enough for it; in `registry_safety` every answer fits. Two frames let a wrong length swallow the next
one; the data of `frames` include one that fits in the clear and not when it is sealed, and
the requests one that no header can hold. Four calls let an increment arrive after its caller
has failed, between two others and a read; the deltas include 0, the largest i64 and one
beyond it. The families of `encode` include two whose names meet, buckets with and without
+Inf, and metrics without a timestamp, with zero and with another. With
the clock stopped at its bound, cycles and flush rounds go on, so liveness is not lost at
the end of time. Addresses, servers and calls are interchangeable where a run
declares symmetry; runs with liveness declare none. Two probe loops on one registry are in no
run; the theorems about types, rows, health and the refinement hold for any number of them.

### Fairness

Weak fairness of `Accept`, of each handler and of `Reply`: tokio polls every task that can
go on. Weak fairness of each probe loop and flush task: their tickers fire for ever, and
the probe function and the upstream answer in the end. The last part is an assumption
about the user's function and about the network: neither `(probe)(node).await` nor the
posts of the default HTTP client have a timeout, and without it nothing after them could be
promised. The steps of a goroutine in `TxId` are weakly fair: Go's
scheduler runs it; it can lose a swap only to a call of another, and those are bounded.
`Exit` is weakly fair: a `main` that has been answered by its task returns. `Read` of
`TinyFrame` is weakly fair: a reader that awaits a frame takes one that is there.
`Tick` is fair in the registry, since time passes. Calls, failures, crashes and
restarts are never forced; `CallsReturn` covers a process that stays down.

`SilentRowsRemoved` speaks of a server whose probe loops run from some time on, and of a node
that from some time on neither registers nor answers a probe; its row must go. From that time on
no failing DELETE may end a removal loop before it comes to this row; a DELETE that fails
behind it, or in a cycle that has not marked the node, is allowed. It is stated for silent nodes
because a success is applied under the clock reading of its cycle: when cycles last offline_ttl
or longer, the row of a node that always answers looks overdue at every moment and stays, as it
should. The clock of a run stops at `MaxTime`, so that a row whose last sign of life counts as
later than `MaxTime - OfflineTTL` cannot come to its deadline; the property leaves it
out by name (`BeyondTheClock`). With two nodes, one tick more is past five minutes.
`LiveRowsVisible` speaks of a server whose probe loops run. It assumes that from some time on no probe fails, `TotalsReported` that from
some time on the process stays up and no round fails; both assumptions are about the
environment.

## 4. Proofs

All theorems hold for every number of nodes, connections, loops, servers, ticks and crashes.
They rest on the named assumptions in the modules: the TTL is positive, bounds are numbers,
null values are no data, a
counter has more than two values, the set of connections of the proxy is finite.

| Theorem | States | Argument |
|---|---|---|
| `Typing` | `TypeOK` | inductive by itself, one lemma per group of actions |
| `RowsAreTracked` | `RowHasHealth` | inductive with the types: row and entry are written and removed in one critical section |
| `NothingHealthyUnconfirmed` | `HealthySinceBoot` | needs `PendingConfirmed`: a success still to be applied was confirmed |
| `EveryRowCanBeFound` | `RowsHaveLabels` | only `HandleRegister` writes rows, behind its guard |
| `NoEntryOutlivesItsRow` | `HealthHasRow`, one loop | needs `PendingHasRow`: what a cycle has still to do is in the table (`RowsInHand`, shared with `NoRowIsTakenEarly`); with two loops it is false, the other loop may have removed it |
| `FreshRegistrationIsSafe` | `FreshRegistrationNotMarked`, one loop | needs that clocks are past, that a node registered after the reading has an entry no older than the reading until it is judged, and that it is judged once |
| `NoRowIsTakenEarly` | `RowsKeptForTTL`, one loop | needs `RowAge`: no reading, last_ok or mark that a cycle may hold against a node is older than its row, and a marked row is offline_ttl old by the reading of its cycle; a boot starts entries at the clock it finds |
| `RegistryIsDirectory` | `ImplementsDirectory` | step simulation: every action is a step of the directory or a stutter, with an invariant on what a connection has already done; applying a failed probe is a `Judge`, a removal and a crash are a `Lose` of marked rows |
| `CallersAreHonoured` | a call that returned ok had its effect; rows and answers hold only what was registered, answers with the labels asked for | from the directory's steps alone, through `RegistryIsDirectory` |
| `OnlyOverdueRowsGo` | a row that goes was marked by a probe cycle | likewise |
| `ProxyTyping` | `TypeOK` | with `StampsPast` |
| `AcksAreTrue` | `AckedIsTaken` | needs `CallOk`: at the stages after the post, success means stored |
| `SamplesAreHonest` | `SamplesNotAhead` | needs `HistoryGrows` and `FlushNotAhead`: the totals were in the hash before the clock was read |
| `CounterNeverStepsBack` | `SamplesMonotone`, one server | needs `SamplesPast` and `FlushAfter`: rounds of one server do not overlap |
| `CountsAreTrue` | `CountsAreTaken` | needs `CountsCovered`: the counter and the stored calls still to be counted are together no more than what was stored |
| `AcksAreCounted` | `AckedIsCounted` | needs `DueCounted`: the counter is at least the number of calls whose ack was read or is being sent |
| `ProxyIsForwarder` | `ImplementsForwarder` | step simulation: a call that is made or returns is the forwarder's `Make` or `Return`, everything else its `Proceed`; needs `PostsWrites` (what is posted has the right type), the bounds on counter and samples above, and, without Redis failures, `DueCounted` |
| `SameSuccessor` | Rust and Go step alike | cases at the wrap |
| `TxIdTyping` | `TypeOK` of `TxId`: ids are never 0 | inductive by itself |
| `IdsAreFresh` | `NoIdTwice` | needs `Spacing`: an id and one handed out d swaps later differ by d, or by d less a turn |
| `HeaderRoundTrip` | unpacking a packed header gives its fields | arithmetic |
| `Typing` (TinyFrame) | `TypeOK` | uses that what is sent fits its length field |
| `ErrorsAreExplained` | `OnlyExplainedErrors` | needs that an intact frame on the stream is the packet of the frame as meant, and that the reader is at the border of the frames it has read |
| `Secrecy`, `OneKey` | `NothingInTheClear`, `RustSealsWithOneKey` | the guards before the bytes; the cell of Rust is written only while unset |
| `Refinement` | `ImplementsChannel` | step simulation over the same invariant; with damage, the tag covers header and id, so that what opens is what was sealed |
| `ReadsAreKept` | intact bytes: the n-th result is the n-th frame or an error; always: an encrypted result was written | from the channel's steps alone, through `Refinement` |
| `Typing` (EdgeStore), `CountersGrow` | `TypeOK`, `OnlyGrows` | inductive by themselves, at every width |
| `CountsAreExact`, `TotalsAreExact` | `CountedOnce`, `TotalsAreCurrent` | needs `Counted`, below |
| `Typing` (EncodeFamilies) | `TypeOK` | inductive by itself |
| `Times`, `ClosedHistograms`, `DistinctSeries` | `TimesAreReal`, `HistogramsAreClosed`, `SeriesAreDistinct` | each metric's series are written in one step; across metrics the labels or the parts differ |
| `WholeMetrics` | `MetricsAreWhole` | needs `TypeOK`: no series yet belongs to the metric at hand, and those that `Encode` adds belong to no other |
| `LanguagesAgree` | Rust and Go write the same series for one metric | the two readings of +Inf and of the time zero are, with the clock before the epoch, the only places where the series depend on `sdk` |

`OneProbeLoop` and `OneServer` are hypotheses of the theorems that need them, not of the
models: `proxy_shared_hash` runs with two servers.

`CountedOnce` alone is not inductive: a counter may be right although the state behind it is
not. `Counted` adds that each counter is the sum of exactly the increments that Redis has
executed, that every increment that returned Ok is among them or is zero, that what a read
counts as earlier calls had returned Ok, and that the totals lie within their bounds from the
moment Redis has answered. An
execution then adds one increment to a set and its delta to the counter. A sum over a set
of calls would need induction over data, which is out of the prover's reach; as the
cardinality of a set of units it does not: the theorems about finite sets give the size of a
union of disjoint sets.

The abstract specifications are of use beyond their refinement: `CallersAreHonoured` and
`ReadsAreKept` are proved from the steps of `DfinderDirectory` and `FrameChannel` and
hold of the code because it implements them. `ReadsAreKept` is what a program on top of the
codec may build on without looking into it.

`proxy_one` has Redis failures, so that its refinement is checked without `Lossless`;
`proxy_shared_hash`, which has none, checks `AckedIsCounted`, the part that `Lossless` is
about, and `ProxyIsForwarder` covers both. `LanguagesAgree` compares two states; no behaviour
goes from one to the other.

Only model-checked: all liveness (`CallsReturn` of both services, `SilentRowsRemoved`,
`LiveRowsVisible`, `TotalsReported`, `CallersReturn`, `FramesArrive`), since fairness and
ENABLED are out of the prover's reach. Every invariant and every action property of a passing
run is a theorem. The modules have no RECURSIVE operator.

## 5. Where comments and code disagree

* `registry_healthy_removed`: server.rs:53 says that a node is deregistered after being
  unhealthy without a break for offline_ttl. The removal at the end of a cycle does not look
  again: a node that registers after it was marked and before the removal is removed while
  healthy, its registration acknowledged.
* `registry_marked_early`: same comment. A successful probe stores the clock reading of the
  start of its cycle, which moves last_ok back behind a registration accepted meanwhile; the
  next failure may mark the node before offline_ttl has passed since then.
* `registry_abort_probes`: server.rs:119 says that aborting the handle stops the service and
  the probes. It drops the inner JoinHandle, and that detaches the probe loop.

* `encode_untyped`: encode.rs:99 says that untyped metrics are supported. The match has no arm
  for them; they fall into `_ => {}` at line 162 and are missing from a request that succeeds.

Beyond a run: edge.rs:36 says that incr only adds. A delta of 2^63 or more becomes a negative
i64, the counter falls, and `totals` may leave the field out; `OnlyGrows` therefore speaks of
smaller deltas. No caller in the repository passes anything but 1.

Seen, but promised nowhere: when the clock is before the epoch, the Rust encoder sends metrics
without a timestamp with the time zero (encode.rs:226) and the Go encoder with a negative one;
`TimesAreReal` names the case. A histogram that is gathered with a +Inf bucket gets two samples
for that series from the Go encoder, and a bucket called `inf` beside `+Inf` from the Rust one;
`SeriesAreDistinct` names this case. Names of families may meet (a histogram h and a counter
h_count), so that it is stated within a family. A frame may be delivered twice or out of order
by whoever can change the stream. And two proxies on one hash may report a counter that steps back
(one reads the totals, the other reads, stamps and sends later ones, then the first stamps
and sends). `SamplesMonotone` therefore is stated for one server.

## 6. Not modelled

* cmd/tframe: one request and its answer in sequence, the rest is parsing and printing; there
  is no state that two steps could disagree about.
* The parsing of arguments, environment and keys (bin/prom_proxy.rs, promproxy.New): it ends in
  a value or an exit code.
* lib.rs and mod.rs: declarations and tests.
* In the registry: a second `Server` made in the same process on the same database while a
  detached probe loop of the first still runs; rows that cannot be decoded; two nodes behind
  one address beyond "the last one wins".
* In the proxy, a wall clock that is set back, or that is before the epoch, where
  server.rs:258 stamps every round with zero: the clock of `PromProxy` starts at the epoch and
  only goes on. Nothing in the code protects against the rest, and nothing is promised.
* An answer that overflows a frame with room for some nodes: it takes two registrations and a
  query, three calls, and the runs have two. The directory does not know which nodes are
  healthy; that an answer takes rows and health from one instant rests on `HandleQuery` being
  one critical section.
* In the codec: ResetEncryptKey of Go, for tests; frames damaged in more than one place; the
  bytes of the formats of gzip, deflate and the cipher.
* In the encoders: native histograms, the bytes of the protobuf, nil families, which no
  registry gathers.
* The blocking variants have no actions of their own: they make the same steps.

## 7. Plan

1. Composition: calls of the registry and the proxy over `FrameChannel`, with `TxId`.
2. More from the abstract specifications: the bounds of `PromForwarder` from its own steps.
