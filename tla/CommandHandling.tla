--------------------------- MODULE CommandHandling ---------------------------
(***************************************************************************)
(* The command path: one fresh unit of work (task) per command, whose      *)
(* handler loads states, sources queries and appends events, and whose     *)
(* PREPARE_COMMIT flush writes the buffer to the log under the condition   *)
(* the recorded reads add up to.  The log is a store whose append is one   *)
(* atomic step (inMemoryEventStore), wrapped in a snapshotting tier.       *)
(*                                                                         *)
(* A folded state is abstracted to what was folded: the positions of the   *)
(* log it covers and the task's own buffered events put on top.            *)
(***************************************************************************)
EXTENDS EventLog

CONSTANTS
  Task,          \* units of work; localCommandBus mints one per dispatch
  StateKey,      \* the state/id pairs handlers load
  QueryOf,       \* StateKey -> the query state() derives for the pair
  Folds,         \* StateKey -> the event types the state has an evolver for
  RawQuery,      \* the ad-hoc queries handed to ctx.source
  Hooks,         \* Task -> what its handler's appendCondition may return
  Appendable,    \* the events handlers append
  MaxReads,      \* bound: recorded reads, for each task
  MaxAppends,    \* bound: ctx.append calls per task
  MaxStoring     \* bound: snapshot writes in flight

\* A handler without the hook: no query has zero items.
NoOverride == {}

ASSUME QueryAssumption ==
  /\ QueryOf \in [StateKey -> EventQuery]
  /\ Folds \in [StateKey -> SUBSET EventType]
  /\ RawQuery \subseteq EventQuery
  /\ Hooks \in [Task -> SUBSET SUBSET QueryItem]

ASSUME EventAssumption == Appendable \subseteq Event

ASSUME BoundAssumption ==
  MaxReads \in [Task -> Nat] /\ {MaxAppends, MaxStoring} \subseteq Nat

VARIABLES
  log,            \* inMemoryEventStore's events
  snapshots,      \* the snapshotting wrapper's map, one entry per StateKey
  storing,        \* storeSnapshot calls nobody awaits
  phase,          \* the unit of work's phase, or its final status
  override,       \* the handler's appendCondition hook, if it has one
  buffered,       \* uow.events.buffered
  sourcingInfos,  \* uow.events.sourcingInfos
  stateCache,     \* uow.stateCache.entries
  decision        \* history: what the task wrote, and the reads it rests on

taskVars == <<phase, override, buffered, sourcingInfos, stateCache, decision>>
vars == <<log, snapshots, storing, taskVars>>

Snapshot == [seen : SUBSET Nat, position : Nat]
SourcingInfo == [query : EventQuery, marker : Nat, seen : SUBSET Nat]
CacheEntry == [loaded : BOOLEAN, seen : SUBSET Nat, own : SUBSET Nat]
Decision == [at : Nat, events : Seq(Event), reads : SUBSET SourcingInfo]

Phase == {"not_started", "INVOCATION", "PREPARE_COMMIT", "COMMIT",
          "completed", "error"}

NotLoaded == [loaded |-> FALSE, seen |-> {}, own |-> {}]
Undecided == [at |-> 0, events |-> <<>>, reads |-> {}]

\* No entry and an entry of the zeroth state read the same.
Zeroth == [seen |-> {}, position |-> 0]

Init ==
  /\ log = <<>>
  /\ snapshots = [k \in StateKey |-> Zeroth]
  /\ storing = {}
  /\ phase = [u \in Task |-> "not_started"]
  /\ override \in {f \in [Task -> UNION {Hooks[u] : u \in Task}] :
                    \A u \in Task : f[u] \in Hooks[u]}
  /\ buffered = [u \in Task |-> <<>>]
  /\ sourcingInfos = [u \in Task |-> {}]
  /\ stateCache = [u \in Task |-> [k \in StateKey |-> NotLoaded]]
  /\ decision = [u \in Task |-> Undecided]

-----------------------------------------------------------------------------
\* requireLive: a closed task refuses reads.  A live one may still read after
\* INVOCATION, but its flush is the first PREPARE_COMMIT action and nothing can
\* be appended any more, so such a read is part of no decision: left out.
Live(u) == phase[u] = "INVOCATION"

\* localCommandBus.dispatch: execute runs an empty PRE_INVOCATION and calls
\* the handler, which has registered the flush by then.
Dispatch(u) ==
  /\ phase[u] = "not_started"
  /\ phase' = [phase EXCEPT ![u] = "INVOCATION"]
  /\ UNCHANGED <<log, snapshots, storing, override, buffered, sourcingInfos,
                 stateCache, decision>>

\* Mutant: the marker is off by one below the log's head.
RecordBelow(u, query, seen) ==
  sourcingInfos' = [sourcingInfos EXCEPT ![u] =
    @ \cup {[query |-> query, marker |-> Len(log) - 1, seen |-> seen]}]

\* recordSourcing.  `seen` is history: what the read's result was folded from.
Record(u, query, seen) ==
  sourcingInfos' = [sourcingInfos EXCEPT ![u] =
    @ \cup {[query |-> query, marker |-> Len(log), seen |-> seen]}]

\* Mutant: the read through the cache skips the event after the snapshot.
ReadThroughSkipping(k, snapshot) ==
  snapshot.seen \cup Sourced(log, QueryOf[k], snapshot.position + 2, Len(log))

\* What a load folds: the cached fold when the entry fits the state's shape,
\* and the events the store sources strictly after its position.
ReadThrough(k, snapshot) ==
  snapshot.seen \cup Sourced(log, QueryOf[k], snapshot.position + 1, Len(log))

LoadedFrom(k, fits) == IF fits THEN snapshots[k] ELSE Zeroth

\* ctx.load of a pair the task has not loaded yet: sources through the
\* snapshotting store, folds, starts the cache write the policy may ask for
\* (never for a fold of no events), caches the fold on the task and records
\* the read.  A second load answers from the cache and records the same read
\* again, which changes nothing.  The handler awaits the call; the steps after
\* the read touch the task only.
Load(u, k, fits, due) ==
  LET from == LoadedFrom(k, fits)
      seen == ReadThrough(k, from)
  IN /\ Live(u)
     /\ ~stateCache[u][k].loaded
     /\ Cardinality(sourcingInfos[u]) < MaxReads[u]
     /\ due => Cardinality(storing) < MaxStoring
     /\ due => Sourced(log, QueryOf[k], from.position + 1, Len(log)) # {}
     /\ storing' = IF due
                   THEN storing \cup {[key |-> k,
                          snapshot |-> [seen |-> seen, position |-> Len(log)]]}
                   ELSE storing
     /\ stateCache' = [stateCache EXCEPT ![u][k] =
                       [loaded |-> TRUE, seen |-> seen, own |-> {}]]
     /\ Record(u, QueryOf[k], seen)
     /\ UNCHANGED <<log, snapshots, phase, override, buffered, decision>>

\* ctx.source: the raw read, recorded and never cached.
Source(u, query) ==
  /\ Live(u)
  /\ Cardinality(sourcingInfos[u]) < MaxReads[u]
  /\ Record(u, query, Sourced(log, query, 1, Len(log)))
  /\ UNCHANGED <<log, snapshots, storing, phase, override, buffered,
                 stateCache, decision>>

\* The entry of the cache after append has evolved it: by event TYPE.
Evolved(entry, k, event, index) ==
  IF entry.loaded /\ event.type \in Folds[k]
  THEN [loaded |-> TRUE, seen |-> entry.seen, own |-> entry.own \cup {index}]
  ELSE entry

\* ctx.append: requireInvocation, buffer, evolve every cached state.
AppendEvent(u, event) ==
  /\ phase[u] = "INVOCATION"
  /\ Len(buffered[u]) < MaxAppends
  /\ buffered' = [buffered EXCEPT ![u] = Append(@, event)]
  /\ stateCache' = [stateCache EXCEPT ![u] =
       [k \in StateKey |-> Evolved(@[k], k, event, Len(buffered[u]) + 1)]]
  /\ UNCHANGED <<log, snapshots, storing, phase, override, sourcingInfos,
                 decision>>

HandlerReturns(u) ==
  /\ phase[u] = "INVOCATION"
  /\ phase' = [phase EXCEPT ![u] = "PREPARE_COMMIT"]
  /\ UNCHANGED <<log, snapshots, storing, override, buffered, sourcingInfos,
                 stateCache, decision>>

\* drivePhases ends: the task is closed, and what it held is gone with it.
Close(u, status) ==
  /\ phase' = [phase EXCEPT ![u] = status]
  /\ buffered' = [buffered EXCEPT ![u] = <<>>]
  /\ sourcingInfos' = [sourcingInfos EXCEPT ![u] = {}]
  /\ stateCache' = [stateCache EXCEPT ![u] = [k \in StateKey |-> NotLoaded]]

\* The handler, or an action of a later phase, throws.  What the flush wrote
\* stays: this log has no transaction to roll back.
Throws(u) ==
  /\ phase[u] \in {"INVOCATION", "COMMIT"}
  /\ Close(u, "error")
  /\ UNCHANGED <<log, snapshots, storing, override, decision>>

-----------------------------------------------------------------------------
\* Mutant: every read is checked above the latest marker.
ConditionAtLatest(u) ==
  {[query |-> r.query, marker |-> EarliestIsLatest(sourcingInfos[u])] :
     r \in sourcingInfos[u]}

\* Mutant: every read is checked above the earliest marker.
ConditionAtEarliest(u) ==
  {[query |-> r.query, marker |-> Earliest(sourcingInfos[u])] :
     r \in sourcingInfos[u]}

\* The condition the flush builds: read by read, each with its own marker; or
\* the overriding query with the earliest marker.
Condition(u) ==
  IF override[u] = NoOverride \/ sourcingInfos[u] = {}
  THEN sourcingInfos[u]
  ELSE {[query |-> override[u], marker |-> Earliest(sourcingInfos[u])]}

\* An empty buffer is not written and its reads are never checked.
FlushNothing(u) ==
  /\ phase[u] = "PREPARE_COMMIT"
  /\ buffered[u] = <<>>
  /\ phase' = [phase EXCEPT ![u] = "COMMIT"]
  /\ UNCHANGED <<log, snapshots, storing, override, buffered, sourcingInfos,
                 stateCache, decision>>

\* Mutant: the pushes without refuseConflicts.
FlushUnchecked(u) ==
  /\ phase[u] = "PREPARE_COMMIT"
  /\ buffered[u] # <<>>
  /\ log' = log \o buffered[u]
  /\ phase' = [phase EXCEPT ![u] = "COMMIT"]
  /\ decision' = [decision EXCEPT ![u] =
       [at |-> Len(log), events |-> buffered[u], reads |-> sourcingInfos[u]]]
  /\ UNCHANGED <<snapshots, storing, override, buffered, sourcingInfos,
                 stateCache>>

\* refuseConflicts, then the pushes, in one synchronous call.
FlushAppends(u) ==
  /\ phase[u] = "PREPARE_COMMIT"
  /\ buffered[u] # <<>>
  /\ ~Conflicts(log, Condition(u))
  /\ log' = log \o buffered[u]
  /\ phase' = [phase EXCEPT ![u] = "COMMIT"]
  /\ decision' = [decision EXCEPT ![u] =
       [at |-> Len(log), events |-> buffered[u], reads |-> sourcingInfos[u]]]
  /\ UNCHANGED <<snapshots, storing, override, buffered, sourcingInfos,
                 stateCache>>

\* AppendConditionError fails the phase, and the task with it.
FlushRefused(u) ==
  /\ phase[u] = "PREPARE_COMMIT"
  /\ buffered[u] # <<>>
  /\ Conflicts(log, Condition(u))
  /\ Close(u, "error")
  /\ UNCHANGED <<log, snapshots, storing, override, decision>>

Completes(u) ==
  /\ phase[u] = "COMMIT"
  /\ Close(u, "completed")
  /\ UNCHANGED <<log, snapshots, storing, override, decision>>

\* A cache write lands, in any order with the others, and REPLACES the entry.
SnapshotStored(w) ==
  /\ w \in storing
  /\ snapshots' = [snapshots EXCEPT ![w.key] = w.snapshot]
  /\ storing' = storing \ {w}
  /\ UNCHANGED <<log, taskVars>>

\* A cache write fails, and the failure is swallowed.
SnapshotLost(w) ==
  /\ w \in storing
  /\ storing' = storing \ {w}
  /\ UNCHANGED <<log, snapshots, taskVars>>

Handle(u) ==
  \/ Dispatch(u)
  \/ \E k \in StateKey, fits, due \in BOOLEAN : Load(u, k, fits, due)
  \/ \E query \in RawQuery : Source(u, query)
  \/ \E event \in Appendable : AppendEvent(u, event)
  \/ HandlerReturns(u)
  \/ Throws(u)
  \/ FlushNothing(u)
  \/ FlushAppends(u)
  \/ FlushRefused(u)
  \/ Completes(u)

Next ==
  \/ \E u \in Task : Handle(u)
  \/ \E w \in storing : SnapshotStored(w) \/ SnapshotLost(w)

Spec == Init /\ [][Next]_vars

-----------------------------------------------------------------------------
TypeOK ==
  /\ log \in Seq(Event)
  /\ snapshots \in [StateKey -> Snapshot]
  /\ storing \subseteq [key : StateKey, snapshot : Snapshot]
  /\ phase \in [Task -> Phase]
  /\ override \in [Task -> SUBSET QueryItem]
  /\ buffered \in [Task -> Seq(Event)]
  /\ sourcingInfos \in [Task -> SUBSET SourcingInfo]
  /\ stateCache \in [Task -> [StateKey -> CacheEntry]]
  /\ decision \in [Task -> Decision]

\* The task wrote: a flush never writes an empty buffer.
Decided(u) == decision[u].events # <<>>

\* A fold is exact when it covers just the events its query selects, up to
\* the position it claims to have reached.
Exact(query, seen, position) ==
  position <= Len(log) /\ seen = Sourced(log, query, 1, position)

\* SNAPSHOTS NEVER CHANGE AN ANSWER (repository.ts:189, in-memory-
\* snapshotting-event-store.ts:69): whatever order the unawaited writes land
\* in, every stored entry is the fold of exactly the events up to its position.
SnapshotsExact ==
  \A k \in StateKey : Exact(QueryOf[k], snapshots[k].seen, snapshots[k].position)

\* THE DCB GUARANTEE (load.ts:82-84, docs/how-it-works.md:606-608): a task
\* that wrote without an override made its reads as if at the instant of the
\* write.  No event that any of its reads selects lies below the write unseen.
DecisionsSerial ==
  \A u \in Task : Decided(u) /\ override[u] = NoOverride =>
    \A r \in decision[u].reads :
      r.seen = Sourced(log, r.query, 1, decision[u].at)

\* An overriding appendCondition (event-flush.ts:66-69) is honoured from the
\* first read on: nothing it selects landed between ANY of the task's reads and
\* the write, so one marker for all of them must be the earliest.
OverridesHonoured ==
  \A u \in Task : Decided(u) /\ override[u] # NoOverride =>
    \A r \in decision[u].reads :
      Sourced(log, override[u], r.marker + 1, decision[u].at) = {}

\* A REFUSAL IS NEVER SPURIOUS (append-condition.ts:18-22): with a check per
\* read, a task is refused only over an event that one of its reads selects
\* and did not see.  An event a LATER read already saw refuses nothing.
RefusedOnly(u) ==
  /\ phase[u] = "PREPARE_COMMIT"
  /\ phase'[u] = "error"
  /\ override[u] = NoOverride
  => \E r \in sourcingInfos[u] : Sourced(log, r.query, 1, Len(log)) # r.seen

RefusalsJustified == [][\A u \in Task : RefusedOnly(u)]_vars

\* append.ts:49, and docs/how-it-works.md:471-472 likewise: "a handler that
\* appends then loads sees its own writes."  A loaded state has on top every
\* buffered event that its query selects.
LoadSeesOwnWrites ==
  \A u \in Task, k \in StateKey : stateCache[u][k].loaded =>
    {i \in 1..Len(buffered[u]) : Matches(buffered[u][i], QueryOf[k])}
      \subseteq stateCache[u][k].own

\* The command path implements serial decisions.  A task under an override
\* asked for less, and promises nothing about its reads.
Promised(u) ==
  IF ~Decided(u) \/ override[u] = NoOverride
  THEN decision[u]
  ELSE [at |-> decision[u].at, events |-> decision[u].events, reads |-> {}]

Serial == INSTANCE SerialDecisions
            WITH decision <- [u \in Task |-> Promised(u)]

\* Every behaviour of the command path is one in which each writing command
\* read and wrote in a single instant (SerialDecisions).
ImplementsSerialDecisions == Serial!Spec
=============================================================================
