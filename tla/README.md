# TLA+ for kronos-ts

Specifications of kronos-ts, an event-sourcing framework whose write is a
*dynamic consistency boundary* (DCB): a command may append only if nothing that
any of its reads selects has landed since that read. TLC checks the modules on
small instances, TLAPS proves the main results for every instance.

## The system and its parts

- **Command path** (`packages/core`: `unit-of-work`, `event-sourcing`,
  `command-handling`). A bus opens one unit of work per command. The handler
  loads states, sources queries, appends to a buffer. The flush in
  PREPARE_COMMIT writes the buffer under a condition built from the reads.
- **Event stores**: in memory (core), Postgres, KronosDB, Axon Server. Each may
  be wrapped in a snapshotting tier, a cache of folds.
- **Event processors** (core `event-processing`): segments claimed through a
  token store, workers that read the log in batches, split, merge and reset,
  dead-letter queues with retry and backoff.
- **Scheduling** (core, Postgres, KronosDB): events appended at a later time.
- **Buses**: local, RabbitMQ with a gossiped subscriber registry, KronosDB and
  Axon Server with permits, deadlines, reconnects and shutdown latches;
  subscription queries with bounded update buffers.
- **Stateless parts**: upcasting, validation, correlation, logging, OTLP.

A command's event reaches the log through a store, a stream tails the log, a
processor's workers handle what the stream brings and park what fails, and a
schedule or a bus gives rise to the next command.

`PROJECT.json` lists every part with its sources and status, every definition
with the lines it models, and every hazard found, with the line where it bites
and the property that covers it.

## Modules

| Module | Models | Correspondence |
| --- | --- | --- |
| `EventLog` | `dcb-query.ts`, matching in `in-memory.ts` | queries as sets of items, `Matches`, `Conflicts` (= `refuseConflicts`) |
| `SerialDecisions` | what the command path promises | one step per writing command, which reads and writes at once |
| `CommandHandling` | unit of work, `load`, `source`, `append`, flush, in-memory log and snapshots | one action per call; `phase`, `buffered`, `sourcingInfos`, `stateCache` are the unit of work's fields |
| `PostgresRows` | the events table | position at INSERT, visibility at COMMIT, xid at first write |
| `PostgresEventStore` | `sourcePlain`, `sourceFused`, `append`, `acquireWriteLocks`, `checkAndInsert`, `storeSnapshot` | one action per SQL statement |
| `PostgresStream` | `open`: `fetchBatch`, `lookPast`, resumption; the processor's token | `cursor`, `buffer`, `looked` are the stream's variables; `token` and `handled` are its reader |
| `Segments` | segment ids and masks, tokens of replays and merges | pure operators: halves, `SegmentsOf` (the walk over the stored ids), `MergedToken`, `AdvanceTokenTo` |
| `SegmentClaims` | `running-processor.ts`, the token stores | one action per statement of a claim, per batch, renewal, release; nodes start, stop, crash, stall and lose their database |
| `SegmentOperations` | `splitSegment`, `mergeSegment`, `resetTokens` | each is a chain of actions: take or claim the segments, read their tokens, write, hand back. Extends `SegmentClaims`, so it interleaves with all of it |
| `DeadLetters` | the Postgres dead-letter queue and the backoff's wrapper | `batch` is the worker's open transaction, `replays` each replayer's place in its lane, a lease is a field of a letter |
| `ScheduleContract` | what a schedule store promises | one step per commit: schedules and cancels of a task together, or the firing of what is due |
| `PostgresScheduling` | the Postgres schedule store and its worker | `tasks` and `ticks` are open transactions with the rows they lock, `chains` the timer chains of a node |
| `KronosDbBus` | the KronosDB connection, handler stream, command bus, latch | `conn`, `sockets`, `platform`, `handlers` are the client's objects; `server` is external |

A folded state is the set of positions folded into it. Positions count from 1,
so marker 0 is the code's -1. A handler awaits its loads one after the other.
Whether a cached snapshot fits the state's shape is a free choice. Row
visibility, row locks and advisory locks are Postgres's own, modelled from their
use, and so is the KronosDB server. Time is not a number: a claim, a lease or a
schedule becomes expired or due by an action of its own. A restarted process is
another node, since it has another owner id.

## Runs

| Run | Result |
| --- | --- |
| `commands` | passes: serial decisions, overrides honoured, no spurious refusal, snapshots exact, refinement of `SerialDecisions` |
| `own_writes` | violated: an append followed by the *first* load of a state does not show the appended event, against `append.ts:49` |
| `postgres_append` | passes: tags stay prefixes, markers and snapshots of one scope are sound, commits saw all, appends settle |
| `postgres_or_read` | violated: a read of two ORed scopes returns a marker above an uncommitted event of one of them, against `append-gap.integration.test.ts:7-8` |
| `postgres_stream` | passes: nothing wanted is skipped, lost in a crash or handled twice; all of it is handled |
| `postgres_stream_order` | violated: an event whose transaction wrote something before it is delivered ahead of an event of the same tag with a lower position, against `docs/how-it-works.md:1113` ("in log order"). The package README promises "the correct xid8 order", which does hold |
| `segment_claims` | passes: no stored token is past an unhandled event; tokens do not move back and nothing is handled twice unless two claims of a segment overlapped; a running node gets everything handled |
| `segment_operations` | passes: with one operation at a time and no claim round meanwhile, nothing is skipped, repeated or called a replay wrongly; every segment has a row; no claim is left behind |
| `merge_race` | violated: a claim round that listed two halves before `mergeSegment` claims the kept row for the half alone and moves its token past events of the other half, against `running-processor.ts:100-101` ("A read model never silently skips.") |
| `dead_letters` | passes: nothing is dropped, lanes keep their order, handling is doubled only by a replay that outlasts its lease, the limits hold, the queue drains |
| `scheduling` | passes: a schedule is appended once or not at all, answered cancels hold, a stopped node ticks no more, refinement of `ScheduleContract`, what is due fires |
| `kronosdb_bus` | passes: credits agree with the server's, `close()` drains first, `start()` means answered, the handlers come back |

**Bounds.** Each is named in its module and set in its `.cfg`.

- `commands`: three tasks, one of which reads twice, one append each, two
  snapshot writes in flight. Two reads with a foreign write between them are
  what separates per-read markers from one marker; two writes in flight are what
  lets them land out of order.
- `postgres_append`: three transactions, two tags on two lock keys, one read
  each. Two tags are needed for a lock cycle and for unordered scopes; three
  transactions for two writers and a reader.
- `postgres_stream`: three writers, one of them of no interest to the reader, two
  rows per fetch, one crash. Two writers are what inverts xids and positions, and
  the third makes a quiet stretch to jump over. The order run fetches one row.
- `segment_claims`: two nodes, one segment, two events, two faults (crashes,
  stalls, store errors). Two faults let a node fail and its successor fail too.
- `segment_operations` and `merge_race`: two nodes, one or two segments, one
  event of the second half, one operation, no faults; they differ in `Alone`
  only, which keeps claim rounds and operations apart.
- `dead_letters`: four events in two lanes, two handlers, two replayers, three
  troubles, `maxSequences` 1 and `maxSequenceSize` 2, so that both limits bite.
- `scheduling`: two schedules, two tasks, two nodes, one row per tick, one
  failure, and no start before the stop before it has resolved.
- `kronosdb_bus`: two names, one command, one request, a window of one permit,
  two faults, two attempts at recovery. Several commands in flight and the limit
  on handlers are left to the proofs.

Deadlock is checked in `scheduling`. In the others it is not: when every task has
ended, every event is handled or every node is dead, nothing moves. Lock cycles
are caught by `AppendsSettle` instead.

**Fairness.**

- `CommandHandling` and `SegmentOperations`: none; only safety is checked.
- `PostgresEventStore`: weak, on each transaction's next statement. The driver
  sends the next statement when the last has answered, and a lock wait ends when
  the holder's transaction does. Rollback is never assumed to happen, so a lock
  cycle is not excused by the deadlock detector or by a timeout.
- `PostgresStream`: weak, on fetching (a 250 ms interval), on handling what is
  buffered, and on ending each transaction (its task ends, or the session
  timeouts end it).
- `SegmentClaims`: weak, on the steps of a claim round, on the landing of a
  renewal and on the lapse of a claim nobody renews; strong, on beginning a round
  and on polling, which wait for renewals that come and go and take their turn
  after them. Starting, stopping, releasing and faults are nobody's duty.
- `DeadLetters`: weak, on delivery and its commit, on each replayer's steps (a
  timer), on the expiry of a lost lease and on a backoff's end.
- `PostgresScheduling`: weak, on the end of each task and on beginning and
  committing a tick (a timer chain).
- `KronosDbBus`: weak, on the client's callbacks and timers, on connecting, and on
  the server's answers to registrations. Failures are bounded, not fair.

## Proofs

The theorems hold for every value of the constants that meets the named
assumptions. Each proof rests on an inductive invariant, of which the properties
checked by TLC are consequences; the proof has one step per action.

`CommandHandlingProofs` proves `TypeOK`, `SnapshotsExact`, `DecisionsSerial`,
`OverridesHonoured`, `RefusalsJustified` and the refinement of `SerialDecisions`.
The invariant adds that every recorded read, cached fold and snapshot write in
flight is exact at its own marker: a passing check then extends a read from its
marker to the write. For overrides it suffices that the one marker kept is at or
below every read's.

`PostgresEventStoreProofs` proves `TypeOK`, `TagPrefix`, `AnchoredMarkersCover`,
`AnchoredSnapshotsCover` and `CommitsSerial`, for any hash collisions of lock
keys. The invariant adds that a leaf key has one holder, that an inserting
transaction holds the keys of all its tags, that uncommitted rows belong to such
holders, and that a check that passed stays true until commit. Markers of a read
whose items share a tag are sound because that tag's holder excludes every other
writer of it.

`PostgresStreamProofs` proves `TypeOK`, `NoGaps`, `TokenCovers` and
`HandledOnce`. Every place of the stream, cursor or token, comes from a row below
the oldest running transaction, and xids only grow, so no running or later
transaction has one at or below it (`Frontier`). A row still to come therefore
lies beyond every place, and what lies at or below a new place was in the
snapshot the place came from.

`PostgresSchedulingProofs` proves `AppendedOnce`, `CancelHolds`, `StopSettles` and
the refinement of `ScheduleContract`. `LocksHold` says that a row has one locker
and that what a tick has selected stays pending and due until it ends; `OneChain`
that a node has one timer chain. `StopSettles` is proved for
`OverlappingStart = FALSE`, starts that wait for the stop before them.

`SegmentClaimsProofs` proves `NothingSkipped`, `TokensAdvance` and
`RepeatsNeedContested`. `Structure` says that all workers, claims and rounds speak
of the segments of one set-up and who may write which row; `Covered` that a token
held by a row, a worker, a claim or a renewal is past handled events only;
`Forward`, while no claim was contested, that what the holder of a claim would
write is not behind the row; `Behind`, that what was handled is behind its row.

`SegmentOperationsProofs` proves `EverySegmentHasARow` and `ClaimsAreWorked` for
any number of splits, merges and resets, also where rounds, crashes and
operations overlap (`Alone = FALSE`), which the passing run does not
try. The walk over the ids ends at id 0 or at an id that is stored, so the first property needs that
the row of id 0 is never lost once there are rows: `Sound`, `About` and `Claimed`
say that an operation under way belongs to a live node, that a merge holds two
different ids, of which it drops the higher, and that an operation has one claim
in flight. `Worked` says that an owned row has a worker of its owner, or is held
by the operation; every step of the claims hands a row on that way (`Gentle`), and
every end of an operation, the refused ones included, starts a worker for what it
holds or releases it.

It also proves `NoMisreplay` for `MaxOps <= 1`, with any overlap and any faults. A
second operation can violate it: a reset soon after a merge ends the replay where
the further half had got to, and so calls what the other half has still to handle
a replay. `Lawful` says where every token of a step of the claims comes from: it
was there, is new, or is a worker's moved past events handled by then. `ReplayInv` then has two sides. Through a split or a merge no token
replays anything (`AllLevel`), since halves and merged segments are made of such
tokens. Through a reset the segments are those of the set-up, and every token's
replay ends where its segment had got to (`AllKnown`). Before the operation both
hold.

`DeadLettersProofs` proves `NothingDropped`, `LaneOrder`, `OnceUnlessOverlong` and
`QueueBounded`. `Core` relates the token, the open batch, the letters and the
writes of the handlers; `Walks` says that a replayer walks its lane from the first
letter on, having written for all it has evicted; `Leases` that, while no replay was overlong and nothing was
cleared, a letter in a replay is leased to that replayer alone; `Within` that the
limits hold of the rows as the open batch sees them, which is where they are
counted.

`KronosDbBusProofs` proves `CreditsAgree`, `StartMeansAnswered` and
`DrainedFirst`. `Stream` says that each incarnation of the handler stream agrees
with the server's end of it: every name was announced on it, and the credits
counted are with the server or in the commands on their way. `Busy` says that the
latch counts exactly the commands in a handler and the requests whose caller
waits.

**Assumptions.** Most are types of the constants (`QueryAssumption`,
`EventAssumption`, `BoundAssumption`, `StoreAssumption`, `StreamAssumption`,
`SchedulingAssumption`, `ClaimsAssumption`, `OperationsAssumption`,
`DeadLettersAssumption`, `BusAssumption`). Of substance are: `Limit` and
`BatchSize` positive; `Threshold < Permits`; `MaxSequenceSize` positive, which the
code does not validate; and `PowersAssumption`, arithmetic of powers of two that
the provers do not know, used for `RepeatsNeedContested` and in
`SegmentOperationsProofs`. TLC evaluates them all.

**Only model-checked.**

- Liveness is out of the prover's reach: `AppendsSettle`, `EventuallyHandled`,
  `EverythingHandled`, `Drained`, `FiresInTheEnd`, `HandlersComeBack`.
- `NothingSkipped` and `RepeatsNeedContested` in the presence of operations.
  `merge_race` violates the first unless rounds and operations are kept apart, so
  it could be a theorem for `Alone = TRUE` only; the proofs of `SegmentClaims` use
  that its set of segments never changes, which a split or a merge ends.
- `LoadSeesOwnWrites`, `MarkersCover` and `HandledInTagOrder` are violated, and so
  not theorems.

## Not modelled

The modules cover about 6% of the lines of the packages: the state machines in
which steps of several actors interleave. By far the larger part is not covered.

- **Would repay modelling**: subscription queries and the KronosDB query bus
  (update buffers, streamed answers with the flow-controlled sender), the RabbitMQ
  buses and their gossiped registry, the Axon Server connector, the shared stream
  and the wake-ups of the poll loop (`SegmentClaims` polls by fairness),
  `appendEvents` and AFTER_COMMIT actions of the unit of work.
- **Parts of modelled components**: streams opened at a bare position
  (`latestToken`, a reset to a position) and several events per transaction;
  isolation levels above READ COMMITTED; a start on top of a first round that was
  stopped; several segments parking letters at once; the in-memory dead-letter
  queue and schedule store, which have neither leases nor row locks; overriding
  conditions on Postgres.
- **Coarser than the code**: a snapshot may be stored whenever a read is there,
  where the code wants events applied since the last one.
- **Nothing to interleave**: upcasting, validation, correlation, serialization,
  logging, the derivation of queries and sequence ids, local handler tables.
- **Outside the repository, or around it**: the KronosDB and Axon Server
  processes, wire formats and generated stubs, database drivers and the pool,
  telemetry, the test fixtures. `acquireReadLocks` has no caller outside tests.
