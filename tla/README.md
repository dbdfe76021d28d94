# TLA+ models of microbroker-mqtt-edge

A verification development kept beside the broker's code: TLA+ modules of its
concurrent and stateful parts, TLC configurations that check them on small
instances, and TLAPS proofs of what matters most. Every definition is taken from
the Go source; `PROJECT.json` maps each to its file and lines, lists the runs, the
code mutations each property catches, the known hazards and the findings.

## 1. The system

One process, started by `cmd/broker/main.go`, that accepts MQTT 3.1.1 publishers,
stores what they publish in SQLite and computes OEE availability from machine state
events.

```
TCP ── accept loop ── handleConnection ──msgChan──▶ router ──queue[topic]──▶ consumer[topic]
                       │  ClientManager                                         │ raw_data
                       │  TopicRegistry                                         ▼ processChan
                                                                             fan-out ──▶ workers
   state-change worker ──▶ state_intervals ──▶ Engine ──tick──▶ CompositeSink ──▶ log, websocket Hub
   REST query ──▶ state_intervals, shifts ──▶ Aggregate, Availability
```

| Component | State | Operations | What makes it hard | What makes it correct |
|---|---|---|---|---|
| connection handling (`broker/connection/server`) | listener, one goroutine and socket per connection | accept, CONNECT, PUBLISH, clean-up, close | takeovers, deferred clean-up by ID, back-pressure, shutdown | limits hold, clean-up hits only its own entries, nobody blocks for ever |
| client manager | map ID → connection | CanAccept, Add, Remove, CloseAll | the check in the accept loop is stale when Add runs | bounded, names only live connections |
| topic registry | map topic → owner | Claim, Release | released by ID while a successor publishes | no owner that is gone, one publisher per topic |
| keep-alive (`client.go`) | deadline, last seen | ResetDeadline | stalls, 0, rounding | silent clients dropped, others not |
| codec (`broker/protocol`) | none | read, decode, encode | lengths at the edge, optional fields, malformed bodies | decoding inverts encoding; the reader stays in step with the stream |
| ingestion (`broker/ingestion`) | msgChan, one queue per topic, raw_data | route, enqueue, save, forward | full channels, failed saves, cancellation, crash | per-topic FIFO, nothing lost silently, all goroutines end |
| one connection (`handle_connection.go`, `read_loop.go`) | stream, deadline | dispatch by packet type | cut and malformed packets, stalls | each request gets its own answer |
| fan-out (`processing`) | processChan, the message in progress | fan out, wait | workers of different speed | workers in step, persisted messages only |
| state ingestion (`oee/.../ingest-state`) | state_intervals | LastOpen, CloseOpen, OpenInterval | three transactions per event, any of which may fail | one open interval, positive durations, order |
| live engine (`oee/.../live`) | intervals per machine | Apply, rehydrate, tick | restart, rehydration racing the worker | memory agrees with the table |
| live sinks | channels of size 1, Hub, latest snapshots | Update, drain, Broadcast, Register, Unregister | slow and dead clients, double clean-up | engine never delayed, no dead connection kept, no step back |
| availability arithmetic (`oee/domain`, `availability/domain`, `query`) | none (reads tables) | planned time, downtime, ratio | midnight, overnight, zones, clipping, text timestamps | query and live snapshot equal a count instant by instant |
| shift configuration (`oee/config`) | shifts, shift_breaks | Seed, Upsert, ForMachineWindow | partial seeding, repeated keys | one row per key, the file wins |
| database (`platform/database`) | schema_migrations, one pooled connection | migrate, connect | crash in a migration; everybody shares one connection | exactly once, in order; nobody waits for ever |
| bootstrap, shutdown (`cmd/broker`) | configuration, wiring | Load, start, GracefulShutdown | limits checked at two moments, order across components | serves only within limits; shutdown ends, and closes nothing under a request |
| audit and availability REST (`audit`, `query`) | requests in flight | read only | mutexes, the connection, shutdown | every request is answered |
| logging, logger worker | none | read only | – | – |

## 2. Modules

| Module | Models | Actions ↔ code |
|---|---|---|
| `Connection` | accept loop, handlers, ClientManager, TopicRegistry | one step per critical section or blocking call: `Accept`, `ReadConnect`/`FirstPacketFails`, `Add`, `ReadPublish`, `Claim`, `Send`/`SendCancelled`, `Puback`, `ReadEnds`, then the deferred calls in their order `Release`, `Remove`, `CloseConn`; `CloseListener`, `CloseAll`, `Cancel` |
| `Codec` | reader, decoders and encoders of `broker/protocol`, and the packet builders of `testutil` | operators on byte sequences; a decoder answers a value with the rest, or `Malformed` |
| `KeepAlive` | the deadline of one connection | `ResetDeadline`, `Timeout`, `Expired`; time in half seconds |
| `Session` | one connection: bytes, time, every packet type, every answer; extends `KeepAlive` and `Codec` | `FirstPacket` (handleConnection), `PublishRefused`, `PublishClaimed`, `PublishSent`, `Subscribe`, `Pingreq`, `Unexpected`, `Disconnect`, `ReadFails`, `ConnectExpires`, `Expire`; the client's `Write`, `WritePart` |
| `TopicLog` | abstract specification: what ingestion promises per topic | `Accept`, `Persist`, `Deliver` |
| `Ingestion` | router, queues, consumers, raw_data, fan-out, crash | `Route`, `Enqueue`, `Receive`, `SaveRawData`/`SaveFails`, `Forward`, `FanOutReceive`, `Process`, `FanOutDone` and the ctx.Done branches; refines `TopicLog` |
| `Broker` | `Connection` and `Ingestion` composed | `Publish` is `Send` and `Submit`, `RouteMessage` is `Drain` and `Route`, `CancelAll` and `Crash` hit both; all other steps are one layer's |
| `StateIngest` | worker, use case, interval repository, Engine.Apply and rehydrate | `Process`, `CloseOpen`, `OpenInterval`, `Observe`, `StoreFails`, `Rehydrate`, `Crash` |
| `LiveSinks` | tick loop, CompositeSink, LogSink, Hub, websocket read loops | `Tick`, `Compute`, `Emit`, `Receive`, `LogUpdate`, the steps of `Broadcast`, `Register`, `ReadLoopEnds` |
| `Availability` | shift and downtime arithmetic, query, live snapshot | operators; the state is one machine's history |
| `Startup` | configuration, migrations, shift seeding, wiring, restarts | `Start` (Load, then `GetApplied`), `SkipApplied`, `ExecStmt`, `CommitMigration`, `SeedNext`, `SeedFails`, `Wire`, `GoDown` |
| `Lifecycle` | the process from start to exit; extends `Startup` | a call is the sequence of what it holds (`SaveRawData`, `ApplyTransition`, `Tick`, `GetAvailability`, `Audit`): `Begin`, `Step`, `EndsEarly`, `Returns`; `Signal`, `HTTPDrained`, `CloseComponents`, `Exit`, `Crash` |
| `ConnectionProofs`, `IngestionProofs`, `BrokerProofs`, `SessionProofs`, `StateIngestProofs`, `LiveSinksProofs`, `LifecycleProofs`, `AvailabilityProofs` | theorems about the module of that name (`IngestionProofs` also about `TopicLog`, `SessionProofs` about `Codec` and `KeepAlive`) | – |
| `MC*` | constants for TLC | – |

In `Connection`, `pc` says where a handler goroutine is, `sock` whether the broker
has closed its end, `clients` and `owners` are the two mutex-protected maps. The
slots in `Handlers` are reused: any number of connections over time, a bounded
number at once. `AllowTakeover` is a constant about the clients' behaviour: FALSE
means no client uses an ID while the broker still serves a connection of it.

In `Ingestion` a message is its topic and its number within the topic; `sent`,
`processed` are history variables for the refinement. In `StateIngest` the constant
`RehydrateIDs` is the argument of `Engine.Start`; the bootstrap passes `nil`, that is,
the empty set. In `LiveSinks` a snapshot is its machine and tick.

`Session` keeps `pending`, the packets the client meant to write, beside `stream`, their
bytes: the properties compare what the broker makes of the bytes with what was meant.
What other connections decide (room, ownership, a full msgChan) is a free choice there.
`Broker` sees msgChan twice, as the messages' clients (`Connection`) and as their numbers
(`Ingestion`); `author` joins the two. In `Startup` the shifts table is a set of rows
with their IDs, which AUTOINCREMENT never uses again (`lastID`). In `Lifecycle` the position `call[c]` says which
mutexes and connections a goroutine holds; the pool has one connection
(`sqlite.go:25`).

Definitions called "Faulty variant" are not part of any specification. They are
plausible bugs of the definition that follows them, and each property of a passing
run is shown to fail when the definition is replaced by its variant.

## 3. Runs

Passing runs (bounds are in the `.cfg` files):

| Run | Instance | Shows |
|---|---|---|
| exclusive | 3 handlers, 3 IDs, limit 2, channel of 1, a topic not allowed, no ID reuse | connection limit, senders own their topic, CloseAll complete |
| takeover | 2 handlers, 2 IDs, limit 1, ID reuse, fair | registry bound, registry names live connections only, no orphan owner; blocked publishes end; closed connections end |
| pipeline | 2 topics, 2 workers, 2 messages per topic, buffers of 1, failed saves, cancellation, 1 crash, fair | `Ingestion` implements `TopicLog`, so order per topic; workers in step; without cancellation or crash every message whose save did not fail reaches every worker; after cancellation consumers and fan-out return |
| state | 2 machines, 2 states, 3 timestamps in any order, 3 rows per machine, 2 failing calls, 1 crash, one machine given to Start and one not | one open interval, positive durations; contiguous intervals and engine = table while nothing failed; the engine never holds a stale interval as its last, and knows the open one of the machine given to Start |
| session | 21 packets (keep-alives 0, 2 and 3 s, wills, bad credentials, malformed bodies, bytes that are no packet, payloads that look like one), 2 unread at a time, 7.5 s; 311 lengths and 1069 CONNECT packets for the round trips | stream in step; each request its own answer; dropped when 1.5 intervals, cut to whole seconds, have passed in silence, and with keep-alive 0 by the deadline of CONNECT only; round trips |
| broker | 2 handlers, 2 IDs, 1 topic, 1 worker, 2 messages, channels of 1, failed saves, cancellation, 1 crash | messages taken by msgChan accounted for; rows follow ownership |
| sinks | 1 machine, 2 connections, 3 ticks; drains and writes may hang | Hub holds live connections, snapshots advance, ticks end, broken connections leave the Hub |
| availability | days of 4 instants, weeks of 2 days, 5 shift tables (one empty), 3 intervals, 10 instants, all windows, UTC, whole seconds | arithmetic and live snapshots equal counting |
| lifecycle | 2 migrations of 2 statements, 7 environments (3 refused by Load, 2 later), 2 starts, 1 consumer, worker, engine, 1 audit and 1 availability request | migrations exactly once and in order, file wins, limits kept; calls return; shutdown ends and keeps the database for requests |

Why the bounds suffice: three handlers with a limit of two give a refused client next
to two served ones; two handlers of one ID are a connection and its successor, and the
invariants of that run are proved for every number of handlers. One place in a channel
makes every "full" case happen after two messages, and the theorems hold for any size.
A topic without a queue is left out of the pipeline run: Claim refuses it, so no such
message reaches the router; the theorems include it. Three timestamps give earlier, equal
and later; three rows, two failures and a crash give an interval closed, lost and
reopened. Days of four instants with shifts that begin before, at and after midnight
and end up to half a day into the next one give every relative position of window,
shift and break. Three ticks fill a channel of size 1 and drop a snapshot. Two starts
show a migration interrupted and resumed, and migrations found applied; the theorem
has no such bound. Two unread packets give a malformed one with its successor. Two
handlers and two messages of one topic give an owner that leaves with a message in the
channels and a second owner. In the lifecycle run the connection is wanted by all
five goroutines and the engine's and the shift repository's mutexes by two each; the
other mutexes nest the connection but have one user each. The connect timeout of the
session run is 2 s instead of 5 to keep the clock short; it is shorter than the
keep-alive timeout of 4 s.

`CHECK_DEADLOCK FALSE` is set where the bounded behaviour ends (message, tick, row, time
and start bounds) or where every goroutine has stopped; the connection runs check
deadlock.

Runs that end in a counterexample (what a comment or the specification says and
the code does not do; quotations in `PROJECT.json`):

| Run | Property | Cause |
|---|---|---|
| limit | `ConnectionLimit` | Remove by ID deletes the successor's entry (`handle_connection.go:52`) |
| state_restart | `EngineKnowsOpenInterval` | `Engine.Start(ctx, nil)` (`bootstrap/server.go:65`) |
| live_noshift | `LiveAgreesWithQuery` | without a configured shift the engine ignores `found` and reports no data, the query falls back to the window (`engine.go:108`) |

### Other divergences

These limit what the passing runs say. The first column tells how to see each; where
constants are named, change them in the run's `.cfg`; a hypothesis named after "without"
is to be taken out of `InstanceAssumption` in `MCAvailability` first.

| How to see it | What the code does | What is said |
|---|---|---|
| exclusive with `AllowTakeover = TRUE`: `SenderOwnsTopic` fails | Release by ID frees the successor's topics (`handle_connection.go:53`) | `topic/registry.go:10`: "Each topic can be owned by at most one client at a time." |
| the term `keepAlive % 2` in `DroppedOnlyWhenSilent` | for odd keep-alives the product with 1.5 is truncated to whole seconds before scaling (`client.go:12`) | `client.go:5`: "1.5x the keep-alive interval" |
| the case `keepAlive = 0` in `DroppedOnlyWhenSilent` | SetDeadline is not called, and the connect deadline of `handle_connection.go:17` stays in force (`client.go:11`) | `client.go:6`: "If keep-alive is 0, no deadline is set (infinite)." |
| availability with `Offsets` of 0 and 1 (and without `PlainTimestamps`): `DowntimeCountsInstants` fails | timestamps in the event's own offset are compared as text (`query/.../repository.go:37`) | `query/.../repository.go:26`: all intervals "that overlap [from, to)" |
| availability with `SecondLen = 2` (and without `PlainTimestamps`): `DowntimeCountsInstants` fails | a zero fraction is not written, and "Z" sorts after ".5Z" (`query/.../repository.go:40`) | the same line |
| `Begin`, `Step` after `CloseComponents` in `Lifecycle` | consumers, worker and engine go on after their sinks and the database are closed; ctx is cancelled last (`main.go:31`) | `shutdown.go:9`: "stops all components in the correct order." |
| `LoadConfig` in `Startup` | BROKER_OEE_WS_ENABLED is read and nothing looks at it (`config.go:80`) | `README.md:62`: "Register the WebSocket sink and endpoint" |
| the `"enqueue"` alternative in `GoroutinesStop` | the router's Enqueue does not watch ctx and may never return (`pipeline.go:34`) | `pipeline.go:10`: "Blocks until context is cancelled or inputChan is closed." |
| the `Undisturbed` guard of `IntervalsContiguous` | after CloseOpen succeeded and OpenInterval failed, the next event is accepted whatever its timestamp (`usecase.go:25`) | `spec.md:190`: "preserve interval monotonicity" |
| `Update` in `LiveSinks`, with two machines | the newest snapshot is dropped when a sink's channel is full (`composite/sink.go:42`) | `logsink/sink.go:12`: the LogSink "retains the latest snapshot per machine" |
| `Aggregate` in `Availability` | off time inside a shift stays planned time (`calculator.go:45`) | `spec.md:191`: off time "SHALL be excluded from planned production time" |

## 4. Fairness

* Goroutines that can run are scheduled: weak fairness of handler, router, consumer,
  fan-out, worker and engine steps.
* A goroutine blocked in a channel send waits in the runtime's FIFO queue of senders,
  so a place that is freed again and again reaches it: strong fairness of `Send` and
  of `Forward`.
* Reading from a socket this end has closed returns an error: weak fairness of
  `ReadEnds` for closed sockets only. Nothing is assumed of peers.
* The router drains msgChan only as long as ctx is not cancelled.
* In `LiveSinks` the engine and the read loop of a broken websocket are fair; the drain
  goroutines and websocket writes are not, so that both liveness properties hold
  although a sink or a client hangs.
* In `Lifecycle` a goroutine in a call is not starved: a Go mutex is handed to a waiter
  after a millisecond, and the pool serves waiters in order, hence strong fairness of
  `Step`. main goes on when it can. Nothing makes an HTTP client read its response:
  `CallsReturn` holds without, `ShutdownCompletes` assumes it in its statement, because
  `Shutdown(context.Background())` has no deadline. What net/http's Shutdown does (take
  no new requests, wait for the ones in flight, not for websockets) is its contract.
* `Session` and `Broker` state no liveness; for their parts it is checked in takeover
  and in pipeline.
* Store failures, crashes, cancellation and shutdown may happen and need not.

## 5. Proofs

Each theorem holds for every value of the constants that satisfies the named
assumptions, and, where nothing else is said, for any interleaving, any failures and
any number of crashes. 32 of the 40 properties of the passing runs are theorems: all 28
invariants, the refinement and three action properties.

**`ConnectionProofs`**: any finite set of handlers and IDs, any topics, any limits
(`ConnectionAssumption`).

* With takeovers: `TypeCorrect`, `RegistryBounded`, `RegistrySound`, `OwnersServed`.
* Without (`~AllowTakeover`): `SenderKeepsTopic`, `ConnectionsLimited`,
  `CloseAllComplete`.

The inductive invariant comes in three layers. `Inv1` is `TypeOK` with what `pc` says
of a handler's `id` and `pkt`. `Inv2` adds that a handler that has not registered has
an open socket, and `RegisteredIsServing`: an entry is cleared by whichever handler of
the ID runs Remove first, and Add closes exactly the connection whose entry it
replaces, so an entry never names a closed socket. `Inv3`, without takeovers, adds that
served IDs are unique and that every open served connection is in the map; with it
`id` is an injection from open served connections to registered IDs, so
`RegistryBound` gives the connection limit. `RegistryBound` itself rests on
cardinality facts: Add adds at most one ID, and only below the limit.

**`IngestionProofs`**: `PipelineImplementsLog`, `WorkersKeepStep`, `RowsInOrder`, for any
topics, workers and buffer sizes (`IngestionAssumption`). The refinement mapping reads
acceptance, table and deliveries of `TopicLog` off `sent`, `rawData` and `processed`;
all else stutters, so what must be shown is that `Persist` and `Deliver` only ever take
a message behind the ones already there. A message's number says when it was accepted,
and `PipelineInv` orders by it the places a message passes: `Upstream` says that what
is stored is older than what is being saved, that older than what is queued, then the
router's hand, then msgChan (and within each channel the order is kept, `Channels`);
`Forwarded` and `Downstream` say the same of processChan, the fan-out and every worker.
`Lockstep` adds that a worker still running is exactly one message behind, and that
none runs unless the fan-out waits. `RowsInOrder` combines the refinement with
`LogInOrder`: the abstract log's rows are in order without
repetition, and a worker's view is in the order of the rows.

**`BrokerProofs`**: `BrokerImplementsLog`, `NothingDisappears` and, without takeovers,
`OwnersInTurn`. Every step of the composition is a step or a stutter of each layer
(`StepOfPipeline`, `StepOfConnection`), or a crash, which puts the connections back to
their beginning; so the layers' invariants hold in it. `BrokerInv` adds `Accounted`:
what is kept and what is lost are disjoint and together all that was accepted. That the places of kept messages are disjoint comes from `PipelineInv`, as
each is strictly older than the next. `OwnershipInv` adds that all that was accepted
since the present owner's claim is its own; a `Publish` preserves it because a sender
owns its topic, which is `Inv3`. `BrokerAssumption` says that msgChan has a place (the
default is 10000; for 0 see section 6), and that `None` is no message.

**`SessionProofs`**: for any requests a client may write, packets or bytes that are none.

* The codec: `LengthsRoundTrip`, `ConnectsRoundTrip`. The encoder of a length is a recursive
  function and `FlattenSeq` a fold, so both need induction over data. The prover has no
  induction rule it could instantiate; the proofs take the least element of the set of
  counterexamples instead (`LeastNumber`), and `RecursionSolved` shows once that a
  definition which looks only at arguments of lower rank is equal to its right-hand side.
  The other decoders are followed field by field: a field reads back what was written
  and leaves the rest (`ReadStringOf`, `ReadFullOf`, `OptionalOf`), and reading more bytes
  never changes what was decoded (`ReadStringMore`, `PayloadMore`, `ConnectMore`), so a cut
  packet is refused.
* `StaysInStep`: `StreamInv` says that the stream is the bytes of the requests not yet dealt
  with, followed by nothing or, once the client has fallen silent inside a packet, by all
  bytes of a packet but the last. `PacketOf` and `PacketMore` show that ReadPacket takes
  exactly one request off, whatever follows; `ErrorMore` and `PartialNoPacket` that it never
  makes a packet of bytes that are none. `SessionAssumption` says that requests are bytes
  that fit their encoding (strings below 65536 bytes), and that one written as raw bytes
  is a whole packet or an error; `RequestAssumption` that packets are shorter than 128^4.
* `RequestsGetTheirAnswers`: PUBLISH and SUBSCRIBE decode to what was encoded (`PublishOf`;
  `SubscribeOf`, by induction on the list of filters), the client reads each answer back
  as what the broker encoded (`ConnackRead`, `PubackRead`, `SubackRead`, `PingrespRead`),
  and `StreamInv` makes the packet at hand the oldest request. `CurrentInv` carries this
  over the wait for msgChan: the handler that waits still holds the PUBLISH that is the
  oldest request. The hypothesis `RawAsksNothing` says that raw bytes are no well-formed
  request for which the client would expect an answer; TLC evaluates it in the run.
* `SilentClientsFound`, `OnlySilentClientsDropped`: `TimingInv` ties the deadline to the last
  packet while a session reads or stalls, and says that a session waiting for a packet has
  not passed it while a dropped one has, and that with keep-alive 0 the deadline is still
  that of CONNECT; the decoder lemmas show that the keep-alive is a number whatever the
  stream holds. Both hold for every keep-alive: `TimeoutBounds` says what the truncation
  to whole seconds takes off.

**`StateIngestProofs`**: `TypeCorrect`, `SingleOpenInterval`, `DurationsPositive`, `NoGaps`,
`EngineMirrorsTable` and `EngineNeverStale`, for any machines, states and timestamps and
any argument of `Engine.Start`, the bootstrap's `nil` included.
The strengthening is what the worker knows between its
transactions (`WorkerKnows`): before CloseOpen the open row starts before the event;
before OpenInterval no row is open; before the observer runs the new row is the last.
The engine's invariant (`EngineInv`) says of every machine with an open row, except
between OpenInterval and Engine.Apply, that the engine's last interval is that row or
that it has none. `Chain`,
for `NoGaps`: while nothing has failed, all rows but the newest are closed and meet, and
the newest is open except between CloseOpen and OpenInterval, when it ends at the
timestamp the next row will start with. `Mirror`, for `EngineMirrorsTable`: at any point
inside an event, the engine *after the part of Apply that is due* equals the table
(`CaughtUp`). A rehydration in that window copies a row that Apply then closes at its
own start: the one interval without length that `SameIntervals` admits. Finitely many
machines are assumed because the failed reads of one rehydration are counted.

**`LiveSinksProofs`**: `HubExact` and the action property `SnapshotsOnlyAdvance`, for any
machines, connections and ticks. Half of `SinkInv` (`HubInv`) is about the Hub: Broadcast
works on a copy of the list, and the read loop may have unregistered a connection that
the copy still holds. All it still has to write to or to unregister is subscribed to
the machine of the broadcast, so unregistering takes it out of the one list that may
hold it, or changes nothing. The other half (`TickInv`) orders a snapshot's places: what a sink shows is no newer than
what its drain goroutine holds, that no newer than its channel, that no newer than the
tick being emitted.

**`LifecycleProofs`**: `MigrationsExact`, `RequestsAnswered`, `SeedStands`,
`ServingIsWithinLimits`, for any number of migrations, statements, starts, consumers and
requests and any environments. `MigratorKnows` is what Run knows while it migrates: its
copy of schema_migrations, read once at the start, is part of the table, what the table
has beyond it lies below the number Run looks at, and all numbers below are recorded.
`Drained`: no request is in flight from the moment HTTPDrained was passed, because
Begin takes requests only while serving. `Seeding`: nothing counts as seeded before the
migrations are done, so rows of an earlier start are not taken for rows of this one.
`Checked` says which of the three checks (validate, make(chan), NewTopicRegistry) lie
behind each phase. `EnvironmentAssumption` gives the fields of a Config their Go types.

**`AvailabilityProofs`**: `PlannedExact`, `DowntimeExact`, `LiveExact`, for days, weeks, shifts,
histories and clocks of any length. `SumDisjoint` is the lemma all three rest on: if the
numbers added up are the sizes of disjoint finite sets, the sum is the size of their
union; it is shown for the fold that `SumFunction` is, by a least counterexample. A day's
planned time is the size of its set of planned instants (`DayCount`), sets of different
days are disjoint because a shift lasts at most a day (`StartsApart`), and no day outside
the loop of PlannedProductionTime reaches into the window (`DaysOf`). `HistoryInv` says that
rows follow one another without gap or overlap and that only the last is open; so every
instant lies in one row at most, and a row's clipped length is its number of instants in the window
(`RowCount`). `TextOrder` reduces the comparison of timestamps as text to that of numbers.
The hypotheses are stated with each theorem and hold in the run (`InstanceAssumption`):
`ShiftsWellFormed` (a shift begins on its day and lasts at most one, breaks do not overlap;
the code adds breaks up and would count an overlap twice) and `PlainTimestamps` (whole seconds,
UTC). `LiveExact` needs only the first: the engine compares no text, and without a shift
it counts nothing as planned. The table of divergences shows what happens without the
other.

Assumptions stand in the modules under the names given here and TLC evaluates them in
the runs.

Only model-checked: liveness (eight properties), because fairness and ENABLED are beyond
the prover.

## 6. Abstractions, and what is not modelled

* `Connection` takes decoding by its outcome, and packets that change no state there are
  stutters; `Session` has the bytes. In `Session` ctx is never cancelled (`Connection`
  has that), and a write to the client fails only when the deadline has passed.
* A remaining length announces bytes that are at hand or not; the memory allocated for it
  is not modelled.
* A topic or payload is a model value outside `Codec` and `Session`. A state-change
  payload that does not decode is a stutter.
* Accept returning and the CanAccept check are one step; a refused connection is a
  stutter. After Server.Close the accept loop spins on an error; that is a stutter too.
* Channels have at least one place. BROKER_QUEUE_BUFFER_SIZE = 0, which Load accepts,
  makes them rendezvous of sender and receiver, and is not modelled outside `Startup`.
* A transaction is atomic; a failed or interrupted one leaves nothing.
* Zones are constant offsets (no daylight saving).
* In `LiveSinks` every machine is tracked from the start; a connection object is used
  once.
* Shifts in the availability run do not overlap each other, nor breaks each other:
  the code adds them up, and the reference counts instants.
* In `Lifecycle` the calls are sequences of holds, and one pass of ForMachineWindow's
  loops stands for any number; `rehydrate` does nothing, as the bootstrap gives it no
  machines. ctx is not cancelled before the exit.
* A tick interval that is not positive makes `time.NewTicker` panic; that is one of the
  ways `Crash` happens.
* Not modelled: the JSON fields of a shifts file and the weekday text format, parsing of
  the query parameters (a request that fails it touches no state), logging, the logger
  worker (one of `Ingestion`'s workers, without effect).

## 7. Plan

Done, in this order: `Connection`, `Ingestion` with its abstract log, `StateIngest`,
`LiveSinks`, `Availability`; then `Codec`, `KeepAlive` and `Session`, `Broker`, `Startup`
and `Lifecycle`; proofs about `Connection`, `StateIngest`, `TopicLog` and `Lifecycle`; then
the refinement of `TopicLog` by `Ingestion` and by `Broker`, and the safety properties of
`Broker`, `Session`'s deadlines, `LiveSinks`, seeding and limits; last the codec, the
stream and the answers of `Session` and the arithmetic of `Availability`.

Left: daylight saving in `Availability`, where a day is not always as long as another.
