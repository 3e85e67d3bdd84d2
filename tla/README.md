# Verification of zstd-tunnel

TLA+ models of the tunnel's server, client and wire protocol, checked with TLC
on small instances, and proofs of the main safety properties, checked with
TLAPS for every value of the constants. Paths are relative to `src/internal/`.

## The system

A client behind a firewall keeps a few tunnel connections open to a public
server. A *visitor* (public TCP connection) that reaches the server is leased
one of them; the client dials the local service and both ends relay compressed
data until both directions have ended. A release barrier then returns the
connection to the idle pool for the next lease.

### Inventory

| Component | State | Operations | Interacts with |
|---|---|---|---|
| pool (`pool/pool.go`) | workers and their state, idle list sorted by ID, queue of waiting visitors, pending count, per worker: mailbox, business socket, wake channel, deadlines; stopping | Register, Idle, Next, Dispatch, its cancel callback, Releasing, Closed, Stop, Force | called under one mutex by worker goroutines, accept loops, timers, Run |
| server worker (`server/worker.go`) | lease counter, codec, connection deadlines | register, work, heartbeat, lease, goodbye | pool; frames to the client |
| server run (`server/server.go`) | listeners, wait groups, errs | Run: accept, cancel, Stop, wait, Force | pool, transport |
| client runtime (`client/worker.go`) | idle and connecting counters, wake channel, backoff, slots | control, runConn, dialAndServe, serveSlot, lease, drop, stop, force | frames to the server |
| client run (`client/client.go`) | runtime, wait group | Run: start, cancel, stop, wait, force | client runtime |
| relay (`relay/relay.go`) | codec, two pumps | Run, Close | both ends of a lease |
| frames (`protocol/frame.go`), records (`transport/noise.go`) | read buffer, pending plaintext, nonces | ReadFrame, WriteFrame, Read, Write | everything on the wire |
| transport (`transport/*.go`) | guard, 64 slots, active set | Accept, next, complete, fail, stop, Dial, Serve | server run, client dial |
| configuration (`config/config.go`), command line | the configuration | Load, Validate, ValidatePool | client's HELLO, server's poolOptions |
| metrics (`metrics/metrics.go`) | counters | Collect, Handler, Serve | pool, server, client, both Runs |
| smoke tests (`cmd/smoke`) | | | the binary |

What is hard here: the goroutines that share the pool under one mutex but act
on what they saw after the unlock (Next's select, the snapshots of Stop and
Force, the notifications of the client); timers that race with hand-offs; a
connection that is reused for lease after lease, so that anything left over
from one lease damages the next; and shutdown, which must end every goroutine
wherever it is and spare the visitors being served.

What makes each component correct:

* pool: the idle list is exactly the idle workers in order; no visitor waits
  while a worker is idle; each visitor is held in one place or closed; no wake-up
  is lost; Stop spares served visitors, Force reaches them; unused connections
  are retired; a cancelled server drains.
* protocol: neither end ever reads a frame it does not accept; both are in the
  same lease; no deadline outlives its phase; a retirement announced by CLOSE is not an
  error.
* client: counters match the slots; max_idle is respected; missing connections
  are dialled again; stop leaves nothing idle.
* relay: each pump's failure ends the other; what is delivered was sent, and nothing
  of a lease survives it.
* frames and records: a frame arrives whole, once and in order, or something disturbed
  the connection, which then ends.
* server and client run: no goroutine is left or waited for in vain; the metrics
  server lasts until everything else has ended; a failure ends the whole.
* guard: one of timer, failure and completion wins; each slot is given back once.
* configuration: pool timings accepted by the client are accepted by the server
  and mean the same there.
* metrics: a scrape counts no visitor twice; nothing leaks without
  authentication; Serve ends with its context.

## Modules

| Module | Models | Run by | Proofs |
|---|---|---|---|
| `Pool` | pool.go, the pool calls of server/worker.go, shutdown of server.go | `MCPool` | `PoolProofs` |
| `PoolVisits`, `Visitors` | what the pool promises its visitors, and that `Pool` implements it | `MCPool` | `PoolProofs` |
| `Metrics` | `Pool` with the server's counters and a scrape of them | `MCMetrics` | `PoolProofs` |
| `Tunnel` | both ends of one connection: server/worker.go, client/worker.go, relay.go, frame.go | `MCTunnel` | `TunnelProofs` |
| `Relay`, `Duplex` | relay.go at both ends; the pair of streams it implements | `MCRelay` | `RelayProofs` |
| `Stream`, `Channel` | frame.go over noise.go's records; the channel of frames they implement | `MCStream` | `StreamProofs` |
| `Server` | server.go from start to return | `MCServer` | `ServerProofs` |
| `ClientSlots` | client/worker.go for one service | `MCClientRun` | `ClientSlotsProofs` |
| `ClientRun` | `ClientSlots` with client.go | `MCClientRun` | |
| `Guard` | transport.go, the handler of websocket.go, the handshake of noise.go | `MCGuard` | `GuardProofs` |
| `Config` | config.go, the command line, the timings of HELLO | `MCConfig` | `ConfigProofs` |
| `Exporter` | metrics.go's Handler and Serve | `MCExporter` | `ServerProofs` |

`PROJECT.json` maps every definition to its lines. A definition that directly
precedes another and varies its name (`LendQuietly` before `Lend`) is a mutant: a
plausible mistake, which one of the properties must catch.

How they fit together: `Channel` is what `Tunnel` and `Relay` take for granted of
the wire and `Stream` provides; `Relay` is one lease of `Tunnel` seen from
inside; `Metrics` and `PoolVisits` extend `Pool`, `ClientRun` extends
`ClientSlots`; `Server` uses of the pool and the listener only what `Pool` and
`Guard` show of them.

### Pool

One action per section under `Pool.mu`. A worker is its connection ID, a
visitor its arrival number. `at[w]` is where the worker's goroutine is,
`serving[w]` the visitor in its local variable `tcp` after Next has returned it
(the pool knows it only as `business[w]`). `stopSet` and `forceSet` are the
snapshots that Stop and Force take under the lock and close one by one
after it.

* Time. `Tick` is one heartbeat interval: it makes the heartbeat timers due and
  brings the idle deadlines nearer. `IdleTicks` is the idle timeout in these
  intervals; zero disables it, as `Options.IdleTimeout` does. Jitter is covered
  because ticks and other steps interleave freely. `Age` is the passing of
  `Worker.dies`, `DeadlinePasses` that of a visitor's acquire deadline; Dispatch
  may also find the deadline already past (`DispatchRefused`).
* Sockets closed right after an unlock are closed in the same action: nobody
  else has a reference to them by then, except for `business`, where
  `CloseEndsService` is the point.
* The early close of the visitor after OPEN_ERR is part of the end of its lease.
* Next's context is `context.Background()`, so its Done branch is never taken.
* A lease, a heartbeat or a handshake only succeeds or fails here. The exhausted
  lease counter (server/worker.go:195) is in `Tunnel`; it closes the visitor
  without recording a lease, so `FinalScrapeBalances` speaks of connections with
  fewer than 2^64 leases.
* Force is guarded by `accepts.Wait`: no handshake is under way. A goroutine
  between CompleteAuth and its first Idle counts as in its handshake; Stop has
  closed it by then and Force would not find it.

### Tunnel

One connection. `pc`, `last` (lease counter), `inbox` and the rest are functions
of the two ends. Frames arrive in the order written. An end may be closed under
its goroutine (`CloseUnder`: Stop, Force, stop, force), a set deadline may pass
at any time (`TimesOut`), a peer that has closed is seen as end of stream or
reset (`Broken`), and the network may fail any read or write (`NetworkFails`). `armed` says whether a read
deadline is set; write deadlines only make a write fail. A nonce is one bit: it
need only differ from the previous one. There is no action for an unexpected
frame, which would end the goroutine with an error: `NoUnexpectedFrame` shows
that none arrives between two ends that follow this code. `outcome` is what each
end records of each lease when its function returns; the client's deferred record
counts as made with the last write of the lease, which it follows at once.

An expired worker leaves the pool (`Expires`, place `expiring`) with the mutex free
before goodbye writes CLOSE (`Goodbye`), and Stop, Force or the network may cut it off
in between. The server logs "expired" all the same, but its client reads the end of
the stream without CLOSE, which is an error there. The model calls that end "cut" and
`RetirementIsClean` claims nothing of it.

### ClientSlots

One action per section under `runtime.mu`; a notification comes after the
unlock and is a step of its own (`OpenedNotifies`, `EndNotifies`). `Slot` is a
set of names that goroutines reuse. The backoff is `level`, the number of
doublings from `baseBackoff`, with `backingOff` for "notBefore is in the future";
a failure may set notBefore to now, since it is drawn from 0 up, and may count from
the base, since the connection may have lasted `stableAfter`. `slot.tcp` is left out:
force closes it to end the lease, which `ConnFails` allows at any time.

### Guard

The listener until a connection is authenticated, for the transport `kind` (noise
or WebSocket). `done[c]` is guard.done; `release[c]` is how far whoever set it has
come: Close, delete from active, receive from slots. `expired[c]` is the end of the
current phase; next starts another. `deadline[c]` is the deadline on the socket
relative to the guard: at most the end of the phase, or free of it. Accepting and
stop run in one goroutine, one after the other, so an Accept is one action. A
handler may return before another goroutine has finished its release. A Close through
the guarded connection closes the socket whoever ended the guard (`Closes`). What the
server does with a connection after CompleteAuth is in `Pool` and `Tunnel`.

### Relay and Duplex

The two calls of Run that face each other over a connection. A local stream is a
sequence of chunks; the compressor makes `BlockUnits` units of a chunk and ends the
stream with a checksum; the frame writer fills DATA frames of up to `FrameMax`
units. Each pump is a goroutine that may be blocked on its local socket or on the
connection (`WireMax` frames of buffers). `abort`, the watcher of the context,
write deadlines and the ENOTCONN of CloseWrite are there. Between leases both ends
go through the barrier of `Tunnel`, here one step; a Relay whose lease failed is
not used again. `Duplex` knows nothing of this: two streams per lease, what is
delivered is a prefix of what was sent, the end comes after all of it, and a
lease begins only after the one before it. `ImplementsDuplex` is the refinement.

### Stream and Channel

One direction of a noise connection. A byte is its frame, its place and the
announced length, so a shifted stream is seen as such; a record carries its nonce,
which is how the cipher sees a lost, repeated or changed one. Faults are a record
changed, dropped or repeated, an end that is closed, a write that fails half way and
a read deadline that passes.
`Channel` is the contract: frames whole, in order, once, until the direction breaks, which
it does only when it is disturbed: a sound stream is never refused.

### Server

`server.Run` as a program: its Listens and their early returns, the tasks (one
per service, the tunnel listener, the metrics server), `errs` with its room, the
cancellation, Stop, the closing of the listeners, both waits, Force, the end of the
metrics server. A connection is its handler until it has registered (or been
refused) and then its worker.

### ClientRun

`client.Run` around `ClientSlots`: the select between the caller's context and
errs, cancel, stop, the drain and the end of the metrics server.

### Config

Load section by section, with what a file may say chosen when a section is read,
then the round trip of the pool timings through HELLO. A duration is an integer of
`Width` bits and arithmetic wraps; `Ms` does not divide the range evenly, so that
rounding matters. The server also checks timings no client of this code sends.

### Metrics and Exporter

`Metrics` puts the counters of the accept loop and of register and work beside the
pool, and lets Collect load them one at a time in its order. A labelled counter
is loaded as its total, since its sum has that value at some moment of the loads.
Collect loads the refusals of Dispatch after the visitors and the closed connections
after the opened ones, so a scrape may show a refusal of a visitor it does not count
yet, and more closed than opened; `ScrapeCountsNoVisitorTwice` says what holds.
`Exporter` is the HTTP side: concurrent requests through authentication, route,
method, the limit of concurrent scrapes and the timeout, and the end of Serve.

### Visitors and PoolVisits

`Visitors` is the pool without queue, locks and timers: a visitor arrives, waits,
is served at most once by a connection that serves nobody else, and is gone.
`PoolVisits` maps the pool's state to it.

## Runs

| Run | Instance | Shows |
|---|---|---|
| `pool_safety` | 2 workers, 3 visitors, queue of 2, idle timeout of 1 interval | idle list, queue, wake-ups, Stop and Force, order of hand-offs; the pool implements `Visitors` |
| `pool_liveness` | 1 worker, 2 visitors, queue of 1, idle timeout of 2 intervals | visitors are answered, unused connections retired, a cancelled server drains |
| `metrics` | 1 worker, 2 visitors, queue of 1, idle timeout of 1 interval | a scrape counts no visitor twice, the last one balances |
| `tunnel` | 3 lease IDs, 2 DATA frames a direction | frames expected, same lease, outcomes agree, no stale deadline, a CLOSE that is written is a clean retirement; leases end without a timeout, no end outlives the other |
| `relay_safety` | 2 leases, a chunk of 3 units a stream, frames of 2, 2 frames in flight, 1 fault | the relay implements `Duplex`, the codec is clean at every lease |
| `relay_liveness` | 1 lease, 1 frame in flight, 1 fault | a failed pump ends its Run, a half-closed lease ends |
| `stream` | 3 frames of up to 3 bytes, header 3, records of 2, 1 fault | frames over records implement `Channel`, a stream that nothing disturbs is never refused and arrives |
| `server` | 2 services, 2 connections | an orderly end with nothing left; a cancelled or failing server returns |
| `client` | 2 slots, MinIdle = MaxIdle = 1, 1 lease | counters, bound, wake-ups; refilled after failures, Run returns |
| `guard` | 2 connections, 1 slot, either transport | slots, deadlines, authenticated connections, no handler behind Serve; slots come back, a stopping listener returns |
| `config` | 8-bit durations, a millisecond of 3 | the server accepts what the client validated and means the same, deadlines do not wrap |
| `exporter` | 3 requests, 1 scrape at a time | the unauthenticated learn nothing, Serve ends although a scrape hangs |

Why the bounds are enough to be interesting:

* two workers register, park and return in either order, so the sorted insert
  and the choice of the youngest matter; three visitors fill the queue while one
  is served, and the dropped prefix of a match can be zero, one or the whole queue;
* `IdleTicks = 2` in `pool_liveness` lets a heartbeat come between parking and
  expiry, which is what `UnusedRetires` is about. Its timers would rescue a worker whose
  wake-up was lost, so that is the subject of an invariant, `WakeNotLost`;
* three lease IDs give a first lease, two reuses of the connection and the end of the
  counter; two DATA frames let data be in flight on both sides of FIN;
* `Slot` has MaxIdle + MaxBusy names, so the controller never runs out of them;
  `MaxBusy` bounds leases, `MaxLevel = 1` the backoff. One connection to keep and one in a
  lease already compete for max_idle at the barrier; larger sets are the proofs' part;
* one connection more than there are slots, so that one is refused or gets a slot
  another has given back;
* a chunk of 3 units takes two frames of 2, so a flush leaves a partly filled frame,
  and the second lease meets the codec as the first left it; one frame in flight
  blocks a pump on its peer;
* a header of 3 bytes and records of 2 put record boundaries inside header and payload
  and frame boundaries inside and between records; a payload may be empty;
* two services let one fail while the other runs, and both fill errs;
* 8 bits with a millisecond of 3 leave products that wrap and values that round; the
  durations of a file are taken around every limit of the checks;
* one scrape at a time, so that a second is refused while one hangs.

Named bounds: `MaxVisitors` (Dispatch), `MaxData` (PumpData), `MaxBusy`
(Opened), `MaxLevel` (Backoff, standing for maxBackoff/baseBackoff), `MaxID`
(standing for 2^64 - 1), `MaxLease`, `MaxChunks` and `MaxFaults` (`Relay`), `MaxFrames`
and `MaxFaults` (`Stream`), `Request` (`Exporter`), `Time`, `Announced` and `Count`
(the inputs of `Config`).

### Fairness

Nothing is assumed of the environment beyond what ends a phase in the code.

* Pool: goroutines run; the handshake (10 s), the heartbeat (5 s) and the
  barrier (30 s) have deadlines, so they end. A lease has none: it must end only
  once its sockets are closed. Acquire timers fire and their callbacks run. Go's
  select picks at random among ready cases, so an expiry that is ready again and
  again is taken: strong fairness of `SelectExpire`. Visitors, registrations,
  lifetime and cancellation are not fair.
* Tunnel: goroutines handle what they can read and notice a broken connection; an
  idle worker acts in the end because ValidatePool forces a heartbeat of at most
  ten minutes; local streams end (`PumpFin`), without which no lease would. No
  deadline is assumed to pass.
* ClientSlots: goroutines run, dials and handshakes have deadlines, the backoff
  passes and the controller's timer fires after it, a closed connection is noticed.
  OPEN, the length of a lease and failures are not fair.
* Guard: phases end and timers fire, goroutines run; one that reads from its peer
  is only sure to go on when its socket is closed or its deadline has passed.
* Relay: goroutines run, and a local service that has read the end of its input ends its
  answer; both local peers read what is written to them. Faults, data and the visitor's
  own end are not fair.
* Stream: the goroutines that write and read run. Faults are not fair.
* Server: goroutines run; a connection of a stopped pool that serves nobody retires
  (`Pool`, `ShutdownCompletes`), transport.Serve returns once its handlers have
  (`Guard`, `ServeReturns`). A lease need not end before Force.
* ClientRun: that of ClientSlots, the goroutines of Run, and a metrics server whose
  context is cancelled returns (`Exporter`, `ServeStops`).
* Exporter: goroutines run and promhttp's timeout passes. Collect need not end, the
  listener need not fail.

## Proofs

TLAPS proves for all constants that satisfy the modules' assumptions:

* `PoolProofs` — `Spec => []IndInv` for any set of connection IDs, number of
  visitors, queue limit and timeout, and from it `IdleListExact`, `QueueExact`,
  `WakeNotLost`, `CloseEndsService` and `StopSparesVisitors`, which `pool_safety` also
  checks, and `TypeOK`, `WorkerConsistent` and the action properties `NoServiceAfterStop`
  and `YoungestFirst`; from `Spec => [](IndInv /\ Holders)` the action property
  `HandOffIsFair` and the refinement `ImplementsVisitors`; and, on top of the pool's
  invariant, `ScrapeCountsNoVisitorTwice` and `FinalScrapeBalances` of `Metrics`.
* `TunnelProofs` — `NoUnexpectedFrame`, `SameLease`, `NoStaleDeadline`,
  `RetirementIsClean`, `OutcomesAgree` and `TypeOK` for any number of leases of a
  connection and of DATA frames in a lease.
* `ServerProofs` — `ShutdownInOrder` and `TypeOK` for any finite, nonempty set of services
  and any set of connections, and that no goroutine blocks on errs (`NoReportBlocks`,
  a statement of the proof module only); and of `Exporter`, the endpoint Run serves,
  `UnauthenticatedLearnsNothing` and its type, which includes the limit of concurrent
  scrapes, for any set of requests and any limit.
* `RelayProofs` — `NoCodecError`, the refinement `ImplementsDuplex` and `TypeOK` for any
  number of leases, chunks and faults, any number of units in a chunk and in a frame,
  and any number of frames in flight.
* `StreamProofs` — the refinement `ImplementsChannel` and `TypeOK` for any length of
  header, payload, record and tag, any number of frames and any number of faults, and that
  without a fault no reader fails (`Undisturbed`).
* `ClientSlotsProofs` — `Spec => []IndInv` for any finite set of slots, and
  from it `IdleBound`, `CountersExact` and `NoLostWake`, and also `TypeOK` and
  `StopLeavesNoneIdle`.
* `GuardProofs` — `Spec => []IndInv` for any finite set of connections and any
  number of slots, and from it `TypeOK`, `SlotsExact`, `DeadlineFollowsGuard` and
  `NoHandlerAfterServe`.
* `ConfigProofs` — `PoolAgreed` and `TypeOK` for every width of a duration, every
  file and every HELLO. The assumptions are on the constants only: the limits of
  the checks are in order and whole milliseconds, and the most milliseconds the server
  takes and twice the longest timeout are representable (`MaxMs * Ms < Top` and
  `2 * Week < Top`, which 64 bits of nanoseconds satisfy).

The argument for the pool. `IndInv` is the conjunction of the invariants and one
strengthening, `StopSafe`. The invariants lean on each other: `IdleListExact`
makes the Back of the list an idle worker with an empty mailbox, which
`WorkerConsistent` needs of Dispatch; `WorkerConsistent` says a worker that calls
Idle is not in the list, which `IdleListExact` needs of pushIdleLocked; both say
that `business` is the mailbox when Next takes it, which gives
`CloseEndsService`. `StopSparesVisitors` alone is not inductive: that a worker in
Stop's snapshot carries no visitor follows from its state (not leased, not
releasing) and from the pool being stopped, so that nobody can lease it any more;
that is `StopSafe`. It also says that a worker on its way out is in state idle
only in a stopping pool, since such a worker would otherwise be leased and
never wake. The lemmas at the head of `PoolProofs` say what insertion and removal do to a
strictly ascending list; one lemma per invariant then shows that every action keeps it.

The argument for the client. `Placed` ties a slot's state and connection to its
goroutine; with it a move from one state to another changes the cardinality of
two sets by one (`MoveOne`), which is what the counters do (`Counted`).
`StopCovers` strengthens `StopLeavesNoneIdle` to the time while stop is still closing:
an open connection is busy or in the snapshot.

The argument for the listener. `Sound` ties done, release, active, the socket and
its deadline together for one guard, and has a completed one past the steps that would close
it; a step of one connection leaves the others
alone (`SoundFrame`). With it the slots (`SlotsExact`) and the wait group (`WgExact`)
are cardinalities that each step changes by one connection. `StopCovers` says that
from stop's snapshot on every unfinished guard is in it, since active holds them
all and nothing is accepted any more; an empty wait group then means no handler.

The argument for the visitors. `Holders` says that the queue ascends in the order of
arrival, that no visitor is in two of the queue, the mailboxes and the goroutines, and
that a remembered business socket is held by its worker or closed. It is not implied by
`IndInv`, which speaks of workers, and is kept only together with it: that a worker which
is handed a visitor had none is `WorkerConsistent`. With it every action of the pool is
a step of `Visitors`: an arrival (`ArriveStep`), a closing (`DismissStep`), the moment Next
returns the visitor (`ServeStep`), the end of the lease (`FinishStep`), or a stutter.

The argument for the counters. `Balanced` counts the visitors: refused, leased,
pending, timed out, cancelled, and the workers that carry one now; their sum is the
number of arrivals until Force, and at most that afterwards. Each action of the pool
moves a visitor from one term to another. `Scrape` then adds what has been loaded so far:
the finished leases loaded first are a lower bound of those finished now, so the sum
with the queue, the drops and all refusals so far is within the arrivals at that moment.
An arrival that is refused later adds to both sides, so the sum stays within them when
the refusals are loaded at last.
`AfterDrain` says that after the drain nothing moves any more.

The argument for the tunnel. What an end may read depends on where the other end has
been, so `Wire` lists the pairs of program points that occur together while both run
(`Registering`, `Idling`, `Opening`, `Relaying`, `Releasing`), each with exactly the frames in
flight. In a relay these are any number of DATA, then FIN, then RELEASE (`Flow`); a
direction whose FIN has been read holds nothing of the lease (`Pipe`), which is why
nothing of it is left for the next one. When one end is gone, `ServerReads` and
`ClientReads` say what the other can still read, and `JointReads` that whoever
leaves, at whatever point, leaves the other in such a state. `Ends` and `Outcomes`
rest on it: an end that retired with CLOSE has left only that behind, and the answer that reaches the
server at the barrier stands for what the client has recorded (`BarrierAnswer`).

The argument for the relay. `NoCodecError` says nothing of where the bytes are, and a
decoder fails as soon as one is missing. The invariant therefore follows a direction
from one end to the other (`Flight`): counted in units of the compressed stream, the
decoder stands at some place, and what its reader has pending, the DATA frames on the
wire, one by one (`Carry`), and what the pump has still to write are consecutive parts of
that stream (`Holds`), up to what the encoder has been given; FIN is sent after all of it.
The two ends are not in the same lease all the time: the server's Run may begin after the
client's, and `Up`, `Reader` and `Dec` then stand for what Run will create or reset
(`Leases`: they differ by at most one lease, and an end that is behind is idle). `PumpsAt`
says what the results mean: a lease that ended well has read the end of its stream, and
then nothing of it is on the wire (`ClosedAt`), which the next lease rests on. `Delivered`
ties what was written to the local socket to what was decoded; with it a write is a
`Receive` of `Duplex`, and a half-close, which follows a checksum that was read, is a
`ReceiveEnd`.

The argument for the stream. `Carries` says that there is a sequence of bytes, the frames
given to WriteFrame one after another (`Laid`, with the place where each frame ends), of
which the records are cuts (`Recorded`): record i holds what is between cut i and cut
i + 1. What WriteFrame has not written is the rest after the last cut (`Unwritten`); what
ReadFrame has of its frame and what is pending lie between the end of the last frame
returned and the cut of the last record read (`Partial`). Sequence and cuts are
existentially quantified: nothing in the program holds them, and a step that writes
extends them. Damage may repeat, drop or change records, but an intact one is still cut
from its place, and Read takes only the one whose number is next; so the length that
ReadFrame finds at the end of a header is that of the frame sent (`FrameRead`), and what
it returns is that frame (`Delivers`). `Undisturbed` adds that without a fault the records
under way are those written and not yet read, numbered as the reader expects them, so that
none is refused (`NoneRefused`); a failure is then a `Break` that a fault has preceded.

The argument for the server. `Stages` says what each stage of Run has put behind
it, `HandlersCovered` that a handler runs only while transport.Serve has not returned:
so once the accepts are waited for no connection can be added, and the second wait is
for all of them. `ReportedLast` says that a report is the last thing a goroutine does;
the reports in errs are then fewer than the goroutines while one has still to report.

The argument for the configuration. A conversion to milliseconds and back rounds
down and keeps order and the limits, which are whole milliseconds
(`RoundTrip`, `RoundTripMonotone`); so a pool that passes the client's checks passes the server's.
What passes the server's checks was not wrapped by the product, whatever was announced
(`AcceptedExactly`).

Only model-checked:

* liveness and everything else under fairness, which this prover does not reach:
  `VisitorAnswered`, `UnusedRetires` and `ShutdownCompletes` of the pool, `LeaseEnds` and
  `NoHalfOpen` of the tunnel, `FailureEndsRun` and `HalfCloseEndsLease` of the relay,
  `Refilled` and `RunReturns` of the client, `SlotReturned` and `ServeReturns` of the
  listener, `StopsWhenDue` of the server, `EveryFrameArrives` of the stream and
  `ServeStops` of the exporter;
* `ClientRun`, whose own properties are liveness; its connections are proved in
  `ClientSlotsProofs`.

Every invariant, action property and refinement that a run checks is also a theorem.

## Not modelled

* the cryptography and handshake messages of noise, and the WebSocket and TLS layers,
  end in success or error; of the cipher only that it detects a wrong record is used.
  dialNoise and dialWS are one step, the dial of `ClientSlots`.
* the contents of frames and files: JSON and YAML, compression, credentials, keys.
  `Config` keeps what the checks tell apart.
* key generation and printing of the command line.
* the client's gauges, the byte counters of the relay and the text of the exposition.
* several services at the client: each has its own controller, and they share only the
  context. At the server they share Run (`Server`), not the pools.
* the smoke tests: end-to-end scripts that start the binary, wait with time limits and
  look at what it printed. They hold no logic of the tunnel.

## Plan

Done: the modules and runs above, and a theorem for every safety property that a run
checks.

Left: liveness stays with TLC. The client's gauges and the byte counters of the relay
could be added to `Metrics` and `Relay`.
