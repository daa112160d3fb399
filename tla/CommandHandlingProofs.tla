----------------------- MODULE CommandHandlingProofs -----------------------
(***************************************************************************)
(* Proofs about CommandHandling, for every set of tasks, states, queries   *)
(* and events.  The inductive invariant says that everything that claims   *)
(* to have read the log up to a position - a recorded read, a snapshot, a  *)
(* snapshot still being written - holds exactly what the log has up to     *)
(* that position.  The flush's check then turns "exact up to my marker"    *)
(* into "exact at the instant of the write".                               *)
(***************************************************************************)
EXTENDS CommandHandling, WellFoundedInduction, TLAPS

StoringExact ==
  \A w \in storing : Exact(QueryOf[w.key], w.snapshot.seen, w.snapshot.position)

ReadsExact ==
  \A u \in Task : \A r \in sourcingInfos[u] : Exact(r.query, r.seen, r.marker)

DecisionsPlaced == \A u \in Task : decision[u].at <= Len(log)

IInv ==
  /\ TypeOK
  /\ SnapshotsExact
  /\ StoringExact
  /\ ReadsExact
  /\ DecisionsPlaced
  /\ DecisionsSerial

-----------------------------------------------------------------------------
\* Appending to a log changes nothing that lies below (in-memory.ts:156).
LEMMA SourcedStable ==
  ASSUME NEW l \in Seq(Event), NEW s \in Seq(Event),
         NEW query, NEW to \in Nat, to <= Len(l)
  PROVE  /\ Sourced(l \o s, query, 1, to) = Sourced(l, query, 1, to)
         /\ l \o s \in Seq(Event)
         /\ Len(l) <= Len(l \o s)
<1>1. \A p \in 1..to : (l \o s)[p] = l[p]
  OBVIOUS
<1>2. QED
  BY <1>1 DEF Sourced

\* A read up to `at` and the read of the rest make the whole read
\* (in-memory-snapshotting-event-store.ts:86-94).
LEMMA SourcedSplit ==
  ASSUME NEW l, NEW query, NEW at \in Nat, NEW to \in Nat, at <= to
  PROVE  Sourced(l, query, 1, to)
           = Sourced(l, query, 1, at) \cup Sourced(l, query, at + 1, to)
BY DEF Sourced

\* What a read returns is typed.
LEMMA SourcedType ==
  ASSUME NEW l, NEW query, NEW from \in Nat, NEW to \in Nat
  PROVE  Sourced(l, query, from, to) \in SUBSET Nat
BY DEF Sourced

-----------------------------------------------------------------------------
\* TypeOK holds at the start.
LEMMA InitType == Init => TypeOK
<1> SUFFICES ASSUME Init PROVE TypeOK
  BY Zenon
<1>1. override \in [Task -> SUBSET QueryItem]
  BY QueryAssumption, Zenon DEF Init
<1>2. log \in Seq(Event) /\ buffered \in [Task -> Seq(Event)]
  BY DEF Init
<1>3. decision \in [Task -> Decision]
  BY DEF Init, Decision, Undecided
<1>4. QED
  BY <1>1, <1>2, <1>3, Zenon DEF Init, TypeOK, Snapshot, Zeroth, Phase, CacheEntry, NotLoaded

\* load keeps TypeOK.
LEMMA LoadType ==
  ASSUME TypeOK, NEW u \in Task, NEW k \in StateKey,
         NEW fits \in BOOLEAN, NEW due \in BOOLEAN, Load(u, k, fits, due)
  PROVE  TypeOK'
<1> DEFINE from == LoadedFrom(k, fits)
<1> DEFINE seen == ReadThrough(k, from)
<1>1. QueryOf[k] \in EventQuery /\ Len(log) \in Nat
  BY QueryAssumption DEF TypeOK
<1>2. from \in Snapshot
  BY Zenon DEF TypeOK, LoadedFrom, Snapshot, Zeroth
<1>3. seen \in SUBSET Nat
  BY <1>1, <1>2 DEF ReadThrough, Snapshot, Sourced
<1>4. storing' \subseteq [key : StateKey, snapshot : Snapshot]
  <2>1. [seen |-> seen, position |-> Len(log)] \in Snapshot
    BY <1>1, <1>3, Zenon DEF Snapshot
  <2>2. QED
    BY <2>1 DEF TypeOK, Load
<1>5. stateCache' \in [Task -> [StateKey -> CacheEntry]]
  <2>1. [loaded |-> TRUE, seen |-> seen, own |-> {}] \in CacheEntry
    BY <1>3, Zenon DEF CacheEntry
  <2>2. QED
    BY <2>1, Zenon DEF TypeOK, Load
<1>6. sourcingInfos' \in [Task -> SUBSET SourcingInfo]
  <2>1. [query |-> QueryOf[k], marker |-> Len(log), seen |-> seen] \in SourcingInfo
    BY <1>1, <1>3, Zenon DEF SourcingInfo
  <2>2. QED
    BY <2>1, Zenon DEF TypeOK, Load, Record
<1>7. QED
  BY <1>4, <1>5, <1>6, Zenon DEF TypeOK, Load

\* append keeps TypeOK.
LEMMA AppendType ==
  ASSUME TypeOK, NEW u \in Task, NEW event \in Appendable, AppendEvent(u, event)
  PROVE  TypeOK'
<1>1. event \in Event
  BY EventAssumption, Zenon
<1>2. buffered' \in [Task -> Seq(Event)] /\ Len(buffered[u]) + 1 \in Nat
  BY <1>1 DEF TypeOK, AppendEvent
<1>3. \A k \in StateKey :
        Evolved(stateCache[u][k], k, event, Len(buffered[u]) + 1) \in CacheEntry
  BY <1>2 DEF TypeOK, Evolved, CacheEntry
<1>4. stateCache' \in [Task -> [StateKey -> CacheEntry]]
  BY <1>3, Zenon DEF TypeOK, AppendEvent
<1>5. QED
  BY <1>2, <1>4, Zenon DEF TypeOK, AppendEvent

\* Commit and rollback keep TypeOK.
LEMMA CloseType ==
  ASSUME TypeOK, NEW u \in Task, NEW status \in Phase, Close(u, status),
         UNCHANGED <<log, snapshots, storing, override, decision>>
  PROVE  TypeOK'
<1>1. buffered' \in [Task -> Seq(Event)]
  BY DEF TypeOK, Close
<1>2. stateCache' \in [Task -> [StateKey -> CacheEntry]]
  <2>1. NotLoaded \in CacheEntry
    BY Zenon DEF NotLoaded, CacheEntry
  <2>2. QED
    BY <2>1, Zenon DEF TypeOK, Close
<1>3. QED
  BY <1>1, <1>2, Zenon DEF TypeOK, Close

\* Every step keeps TypeOK.
LEMMA NextType == TypeOK /\ [Next]_vars => TypeOK'
<1> SUFFICES ASSUME TypeOK, [Next]_vars PROVE TypeOK'
  BY Zenon
<1>1. CASE UNCHANGED vars
  BY <1>1, Zenon DEF TypeOK, vars, taskVars
<1>2. ASSUME NEW w \in storing, SnapshotStored(w) PROVE TypeOK'
  BY <1>2, Zenon DEF TypeOK, SnapshotStored, taskVars
<1>3. ASSUME NEW w \in storing, SnapshotLost(w) PROVE TypeOK'
  BY <1>3, Zenon DEF TypeOK, SnapshotLost, taskVars
<1>4. ASSUME NEW u \in Task, Handle(u) PROVE TypeOK'
  <2>1. CASE Dispatch(u) \/ HandlerReturns(u) \/ FlushNothing(u)
    BY <2>1, Zenon DEF TypeOK, Dispatch, HandlerReturns, FlushNothing, Phase
  <2>2. ASSUME NEW k \in StateKey, NEW fits \in BOOLEAN, NEW due \in BOOLEAN,
               Load(u, k, fits, due)
        PROVE  TypeOK'
    BY <2>2, LoadType, Zenon
  <2>3. ASSUME NEW query \in RawQuery, Source(u, query) PROVE TypeOK'
    <3>1. Sourced(log, query, 1, Len(log)) \in SUBSET Nat
      BY DEF TypeOK, Sourced
    <3>2. [query |-> query, marker |-> Len(log),
           seen |-> Sourced(log, query, 1, Len(log))] \in SourcingInfo
      BY <3>1, QueryAssumption DEF TypeOK, SourcingInfo
    <3>3. QED
      BY <2>3, <3>2, Zenon DEF TypeOK, Source, Record
  <2>4. ASSUME NEW event \in Appendable, AppendEvent(u, event) PROVE TypeOK'
    BY <2>4, AppendType, Zenon
  <2>5. CASE Throws(u)
    BY <2>5, CloseType, Zenon DEF Throws, Phase
  <2>6. CASE FlushAppends(u)
    <3>1. log' \in Seq(Event) /\ Len(log) \in Nat
      BY <2>6 DEF TypeOK, FlushAppends
    <3>2. decision' \in [Task -> Decision]
      BY <2>6, <3>1, Zenon DEF TypeOK, FlushAppends, Decision
    <3>3. QED
      BY <2>6, <3>1, <3>2, Zenon DEF TypeOK, FlushAppends, Phase
  <2>7. CASE FlushRefused(u)
    BY <2>7, CloseType, Zenon DEF FlushRefused, Phase
  <2>8. CASE Completes(u)
    BY <2>8, CloseType, Zenon DEF Completes, Phase
  <2>9. QED
    BY <1>4, <2>1, <2>2, <2>3, <2>4, <2>5, <2>6, <2>7, <2>8, Zenon DEF Handle
<1>5. QED
  BY <1>1, <1>2, <1>3, <1>4, Zenon DEF Next

\* Type correctness of the command path: every reachable state has its type.
THEOREM TypeCorrect == Spec => []TypeOK
<1>1. QED
  BY InitType, NextType, PTL DEF Spec

-----------------------------------------------------------------------------
\* A step of a task that neither reads nor writes the log.
LEMMA QuietStep ==
  ASSUME IInv, TypeOK', UNCHANGED <<log, snapshots, storing, override, decision>>,
         \A u \in Task : sourcingInfos'[u] \subseteq sourcingInfos[u]
  PROVE  IInv'
<1>1. SnapshotsExact' /\ StoringExact' /\ DecisionsPlaced' /\ DecisionsSerial'
  BY Zenon DEF IInv, SnapshotsExact, StoringExact, DecisionsPlaced, DecisionsSerial,
         Exact, Decided
<1>2. ReadsExact'
  BY Zenon DEF IInv, ReadsExact, Exact
<1>3. QED
  BY <1>1, <1>2, Zenon DEF IInv

\* Reading on from an exact snapshot is an exact read of the whole log.
LEMMA ReadThroughExact ==
  ASSUME IInv, NEW k \in StateKey, NEW fits \in BOOLEAN
  PROVE  Exact(QueryOf[k], ReadThrough(k, LoadedFrom(k, fits)), Len(log))
<1> DEFINE from == LoadedFrom(k, fits)
<1>1. from.position \in Nat /\ Len(log) \in Nat
  BY DEF IInv, TypeOK, LoadedFrom, Snapshot, Zeroth
<1>2. Exact(QueryOf[k], from.seen, from.position)
  <2>1. CASE fits
    BY <2>1, Zenon DEF IInv, SnapshotsExact, LoadedFrom
  <2>2. CASE ~fits
    BY <2>2, <1>1 DEF LoadedFrom, Zeroth, Exact, Sourced
  <2>3. QED
    BY <2>1, <2>2, Zenon
<1>3. QED
  BY <1>1, <1>2, SourcedSplit DEF Exact, ReadThrough

\* load records an exact read and an exact fold.
LEMMA LoadStep ==
  ASSUME IInv, TypeOK', NEW u \in Task, NEW k \in StateKey,
         NEW fits \in BOOLEAN, NEW due \in BOOLEAN, Load(u, k, fits, due)
  PROVE  IInv'
<1> DEFINE seen == ReadThrough(k, LoadedFrom(k, fits))
<1> DEFINE w == [key |-> k, snapshot |-> [seen |-> seen, position |-> Len(log)]]
<1> DEFINE r == [query |-> QueryOf[k], marker |-> Len(log), seen |-> seen]
<1>1. Exact(QueryOf[k], seen, Len(log))
  BY ReadThroughExact, Zenon
<1>2. SnapshotsExact' /\ DecisionsPlaced' /\ DecisionsSerial'
  BY Zenon DEF IInv, Load, SnapshotsExact, DecisionsPlaced, DecisionsSerial, Exact,
         Decided
<1>3. StoringExact'
  <2>1. storing' \subseteq storing \cup {w}
    BY Zenon DEF Load
  <2>2. QED
    BY <1>1, <2>1 DEF IInv, StoringExact, Load, Exact
<1>4. ReadsExact'
  <2>1. \A v \in Task : sourcingInfos'[v] \subseteq sourcingInfos[v] \cup {r}
    BY Zenon DEF IInv, TypeOK, Load, Record
  <2>2. QED
    BY <1>1, <2>1 DEF IInv, ReadsExact, Load, Exact
<1>5. QED
  BY <1>2, <1>3, <1>4, Zenon DEF IInv

\* source records an exact read.
LEMMA SourceStep ==
  ASSUME IInv, TypeOK', NEW u \in Task, NEW query \in RawQuery, Source(u, query)
  PROVE  IInv'
<1> DEFINE r == [query |-> query, marker |-> Len(log),
                 seen |-> Sourced(log, query, 1, Len(log))]
<1>1. \A v \in Task : sourcingInfos'[v] \subseteq sourcingInfos[v] \cup {r}
  BY Zenon DEF IInv, TypeOK, Source, Record
<1>2. ReadsExact'
  BY <1>1 DEF IInv, TypeOK, ReadsExact, Source, Exact
<1>3. SnapshotsExact' /\ StoringExact' /\ DecisionsPlaced' /\ DecisionsSerial'
  BY Zenon DEF IInv, Source, SnapshotsExact, StoringExact, DecisionsPlaced,
         DecisionsSerial, Exact, Decided
<1>4. QED
  BY <1>2, <1>3, Zenon DEF IInv

\* The check of the flush: a read that is exact up to its marker, and that
\* nothing after its marker conflicts with, is exact at the end of the log.
LEMMA CheckedReads ==
  ASSUME IInv, NEW u \in Task, override[u] = NoOverride,
         ~Conflicts(log, Condition(u)), NEW r \in sourcingInfos[u]
  PROVE  r.seen = Sourced(log, r.query, 1, Len(log))
<1>1. r.marker \in Nat /\ Len(log) \in Nat
  BY DEF IInv, TypeOK, SourcingInfo
<1>2. Exact(r.query, r.seen, r.marker)
  BY Zenon DEF IInv, ReadsExact
<1>3. Sourced(log, r.query, r.marker + 1, Len(log)) = {}
  <2>1. r \in Condition(u)
    BY Zenon DEF Condition
  <2>2. QED
    BY <2>1, Zenon DEF Conflicts
<1>4. r.marker <= Len(log) /\ r.seen = Sourced(log, r.query, 1, r.marker)
  BY <1>2, Zenon DEF Exact
<1>5. Sourced(log, r.query, 1, Len(log))
        = Sourced(log, r.query, 1, r.marker)
            \cup Sourced(log, r.query, r.marker + 1, Len(log))
  BY <1>1, <1>4, SourcedSplit
<1>6. QED
  BY <1>3, <1>4, <1>5, Zenon

\* A flush that passes its check leaves all reads serial at the write.
LEMMA FlushStep ==
  ASSUME IInv, TypeOK', NEW u \in Task, FlushAppends(u)
  PROVE  IInv'
<1>1. /\ log \in Seq(Event) /\ buffered[u] \in Seq(Event)
      /\ log' = log \o buffered[u] /\ Len(log) \in Nat
  BY DEF IInv, TypeOK, FlushAppends
<1>2. SnapshotsExact'
  <2> SUFFICES ASSUME NEW k \in StateKey
               PROVE  Exact(QueryOf[k], snapshots[k].seen, snapshots[k].position)'
    BY Zenon DEF SnapshotsExact
  <2>1. snapshots[k].position \in Nat /\ snapshots' = snapshots
    BY Zenon DEF IInv, TypeOK, Snapshot, FlushAppends
  <2>2. Exact(QueryOf[k], snapshots[k].seen, snapshots[k].position)
    BY Zenon DEF IInv, SnapshotsExact
  <2>3. QED
    BY <1>1, <2>1, <2>2, SourcedStable DEF Exact
<1>3. StoringExact'
  <2> SUFFICES ASSUME NEW w \in storing
               PROVE  Exact(QueryOf[w.key], w.snapshot.seen, w.snapshot.position)'
    BY Zenon DEF StoringExact, FlushAppends
  <2>1. w.snapshot.position \in Nat
    BY Zenon DEF IInv, TypeOK, Snapshot
  <2>2. Exact(QueryOf[w.key], w.snapshot.seen, w.snapshot.position)
    BY Zenon DEF IInv, StoringExact
  <2>3. QED
    BY <1>1, <2>1, <2>2, SourcedStable DEF Exact
<1>4. ReadsExact'
  <2> SUFFICES ASSUME NEW v \in Task, NEW r \in sourcingInfos[v]
               PROVE  Exact(r.query, r.seen, r.marker)'
    BY Zenon DEF ReadsExact, FlushAppends
  <2>1. r.marker \in Nat
    BY DEF IInv, TypeOK, SourcingInfo
  <2>2. Exact(r.query, r.seen, r.marker)
    BY Zenon DEF IInv, ReadsExact
  <2>3. QED
    BY <1>1, <2>1, <2>2, SourcedStable DEF Exact
<1>5. DecisionsPlaced'
  <2> SUFFICES ASSUME NEW v \in Task PROVE decision'[v].at <= Len(log')
    BY Zenon DEF DecisionsPlaced
  <2>1. decision[v].at \in Nat /\ decision[v].at <= Len(log)
    BY Zenon DEF IInv, TypeOK, Decision, DecisionsPlaced
  <2>2. decision'[v].at \in {decision[v].at, Len(log)}
    BY Zenon DEF IInv, TypeOK, FlushAppends
  <2>3. Len(log) <= Len(log') /\ Len(log') \in Nat
    BY <1>1
  <2>4. QED
    BY <1>1, <2>1, <2>2, <2>3
<1>6. DecisionsSerial'
  <2> SUFFICES ASSUME NEW v \in Task, Decided(v)', override'[v] = NoOverride,
                      NEW r \in decision'[v].reads
               PROVE  r.seen = Sourced(log', r.query, 1, decision'[v].at)
    BY Zenon DEF DecisionsSerial
  <2>1. CASE v = u
    <3>1. decision'[u] = [at |-> Len(log), events |-> buffered[u],
                          reads |-> sourcingInfos[u]]
      BY Zenon DEF IInv, TypeOK, FlushAppends
    <3>2. r.seen = Sourced(log, r.query, 1, Len(log))
      BY <2>1, <3>1, CheckedReads DEF FlushAppends
    <3>3. QED
      BY <1>1, <2>1, <3>1, <3>2, SourcedStable
  <2>2. CASE v # u
    <3>1. decision'[v] = decision[v] /\ override' = override
      BY <2>2, Zenon DEF IInv, TypeOK, FlushAppends
    <3>2. r.seen = Sourced(log, r.query, 1, decision[v].at)
      BY <3>1, Zenon DEF IInv, DecisionsSerial, Decided
    <3>3. decision[v].at \in Nat /\ decision[v].at <= Len(log)
      BY Zenon DEF IInv, TypeOK, Decision, DecisionsPlaced
    <3>4. QED
      BY <1>1, <3>1, <3>2, <3>3, SourcedStable
  <2>3. QED
    BY <2>1, <2>2, Zenon
<1>7. QED
  BY <1>2, <1>3, <1>4, <1>5, <1>6, Zenon DEF IInv

\* The invariant holds at the start.
LEMMA InitInv == Init => IInv
<1> SUFFICES ASSUME Init PROVE IInv
  BY Zenon
<1>1. TypeOK
  BY InitType, Zenon
<1>2. SnapshotsExact
  <2> SUFFICES ASSUME NEW k \in StateKey
               PROVE  Exact(QueryOf[k], snapshots[k].seen, snapshots[k].position)
    BY Zenon DEF SnapshotsExact
  <2>1. snapshots[k].seen = {} /\ snapshots[k].position = 0 /\ Len(log) = 0
    BY Zenon DEF Init, Zeroth
  <2>2. QED
    BY <2>1 DEF Exact, Sourced
<1>3. StoringExact /\ ReadsExact
  BY Zenon DEF Init, StoringExact, ReadsExact
<1>4. DecisionsPlaced /\ DecisionsSerial
  BY DEF Init, DecisionsPlaced, DecisionsSerial, Decided, Undecided
<1>5. QED
  BY <1>1, <1>2, <1>3, <1>4, Zenon DEF IInv

\* Every step keeps the invariant.
LEMMA NextInv == IInv /\ [Next]_vars => IInv'
<1> SUFFICES ASSUME IInv, [Next]_vars PROVE IInv'
  BY Zenon
<1>1. TypeOK /\ TypeOK'
  BY NextType, Zenon DEF IInv
<1>2. CASE UNCHANGED vars
  BY <1>1, <1>2, QuietStep, Zenon DEF vars, taskVars
<1>3. ASSUME NEW w \in storing, SnapshotStored(w) \/ SnapshotLost(w) PROVE IInv'
  <2>1. UNCHANGED <<log, taskVars>> /\ storing' \subseteq storing
    BY <1>3, Zenon DEF SnapshotStored, SnapshotLost
  <2>2. \A k \in StateKey :
          \/ snapshots'[k] = snapshots[k]
          \/ k = w.key /\ snapshots'[k] = w.snapshot
    BY <1>1, <1>3, Zenon DEF SnapshotStored, SnapshotLost, TypeOK
  <2>3. Exact(QueryOf[w.key], w.snapshot.seen, w.snapshot.position)
    BY Zenon DEF IInv, StoringExact
  <2>4. SnapshotsExact'
    BY <2>1, <2>2, <2>3, Zenon DEF IInv, SnapshotsExact, Exact
  <2>5. StoringExact' /\ ReadsExact' /\ DecisionsPlaced' /\ DecisionsSerial'
    BY <2>1, Zenon DEF IInv, StoringExact, ReadsExact, DecisionsPlaced,
                DecisionsSerial, Exact, Decided, taskVars
  <2>6. QED
    BY <1>1, <2>4, <2>5, Zenon DEF IInv
<1>4. ASSUME NEW u \in Task, Handle(u) PROVE IInv'
  <2>1. CASE \/ Dispatch(u) \/ HandlerReturns(u) \/ FlushNothing(u)
             \/ \E event \in Appendable : AppendEvent(u, event)
    BY <1>1, <2>1, QuietStep, Zenon
       DEF Dispatch, HandlerReturns, FlushNothing, AppendEvent
  <2>2. CASE Throws(u) \/ FlushRefused(u) \/ Completes(u)
    BY <1>1, <2>2, QuietStep, Zenon DEF Throws, FlushRefused, Completes, Close, TypeOK
  <2>3. CASE \E k \in StateKey, fits, due \in BOOLEAN : Load(u, k, fits, due)
    BY <1>1, <2>3, LoadStep, Zenon
  <2>4. CASE \E query \in RawQuery : Source(u, query)
    BY <1>1, <2>4, SourceStep, Zenon
  <2>5. CASE FlushAppends(u)
    BY <1>1, <2>5, FlushStep, Zenon
  <2>6. QED
    BY <1>4, <2>1, <2>2, <2>3, <2>4, <2>5, Zenon DEF Handle
<1>5. QED
  BY <1>2, <1>3, <1>4, Zenon DEF Next

\* The invariant always holds.
LEMMA Invariance == Spec => []IInv
BY InitInv, NextInv, PTL DEF Spec

\* Whatever order unawaited snapshot writes land in, a stored snapshot is the
\* fold of exactly the events up to its position (repository.ts:189-199).
THEOREM SnapshotsAlwaysExact == Spec => []SnapshotsExact
<1>1. IInv => SnapshotsExact
  BY Zenon DEF IInv
<1>2. QED
  BY Invariance, <1>1, PTL

\* The DCB guarantee: a command that writes without an override has seen every
\* event its reads select below its own (event-flush.ts:42-80, in-memory.ts:35).
THEOREM DecisionsAlwaysSerial == Spec => []DecisionsSerial
<1>1. IInv => DecisionsSerial
  BY Zenon DEF IInv
<1>2. QED
  BY Invariance, <1>1, PTL

-----------------------------------------------------------------------------
\* A task writes at most once: before its flush it has decided nothing.
UndecidedBeforeFlush ==
  \A u \in Task : phase[u] \in {"not_started", "INVOCATION", "PREPARE_COMMIT"}
    => decision[u] = Undecided

\* A task is undecided until it has flushed, in every step
LEMMA UndecidedStep ==
  ASSUME TypeOK, UndecidedBeforeFlush, [Next]_vars
  PROVE  UndecidedBeforeFlush'
<1> USE DEF UndecidedBeforeFlush
<1>1. CASE UNCHANGED vars
  BY <1>1, Zenon DEF vars, taskVars
<1>2. ASSUME NEW w \in storing, SnapshotStored(w) \/ SnapshotLost(w)
      PROVE  UndecidedBeforeFlush'
  BY <1>2, Zenon DEF SnapshotStored, SnapshotLost, taskVars
<1>3. ASSUME NEW u \in Task, Handle(u) PROVE UndecidedBeforeFlush'
  <2>1. CASE FlushAppends(u)
    BY <2>1, Zenon DEF FlushAppends, TypeOK
  <2>2. CASE ~FlushAppends(u)
    <3>1. decision' = decision /\ phase' \in [Task -> Phase]
      BY <1>3, <2>2, NextType, Zenon
         DEF Handle, Dispatch, Load, Source, AppendEvent, HandlerReturns, Throws,
             FlushNothing, FlushRefused, Completes, TypeOK
    <3>2. \A v \in Task : phase'[v] \in {"not_started", "INVOCATION", "PREPARE_COMMIT"}
            => phase[v] \in {"not_started", "INVOCATION", "PREPARE_COMMIT"}
      BY <1>3, <2>2, Zenon
         DEF Handle, Dispatch, Load, Source, AppendEvent, HandlerReturns, Throws,
             FlushNothing, FlushRefused, Completes, Close, TypeOK
    <3>3. QED
      BY <3>1, <3>2, Zenon
  <2>3. QED
    BY <2>1, <2>2, Zenon
<1>4. QED
  BY <1>1, <1>2, <1>3, Zenon DEF Next

\* ... and so always.
LEMMA UndecidedInvariance == Spec => []UndecidedBeforeFlush
<1>1. Init => UndecidedBeforeFlush
  BY Zenon DEF Init, UndecidedBeforeFlush
<1>2. QED
  BY <1>1, TypeCorrect, UndecidedStep, PTL DEF Spec

\* The flush is the abstract decision: at that step the reads the task recorded
\* are reads of the log as it is.
LEMMA FlushDecides ==
  ASSUME IInv, IInv', UndecidedBeforeFlush, NEW u \in Task, FlushAppends(u)
  PROVE  Serial!Decide(u)
<1> DEFINE promised == [v \in Task |-> Promised(v)]
<1>1. decision'[u] = [at |-> Len(log), events |-> buffered[u],
                      reads |-> sourcingInfos[u]]
  BY Zenon DEF IInv, TypeOK, FlushAppends
<1>2. \A v \in Task \ {u} : decision'[v] = decision[v]
  BY Zenon DEF IInv, TypeOK, FlushAppends
<1>3. override' = override /\ log' = log \o buffered[u] /\ buffered[u] # <<>>
  BY Zenon DEF FlushAppends
<1>4. promised[u] = Serial!Undecided
  BY DEF UndecidedBeforeFlush, FlushAppends, Promised, Decided, Undecided,
         Serial!Undecided
<1>5. promised' = [promised EXCEPT ![u] = promised'[u]]
  <2>1. \A v \in Task \ {u} : Promised(v)' = Promised(v)
    BY <1>2, <1>3, Zenon DEF Promised, Decided
  <2>2. QED
    BY <2>1, Zenon
<1>6. promised'[u].events = buffered[u]
  BY <1>1 DEF Promised
<1>7. ASSUME NEW r \in promised'[u].reads
      PROVE  r.seen = Serial!Sourced(log, r.query, 1, Len(log))
  <2>1. CASE override[u] = NoOverride
    <3>1. r \in sourcingInfos[u]
      BY <1>1, <1>3, <1>7, <2>1 DEF Promised
    <3>2. r.seen = Sourced(log, r.query, 1, Len(log))
      BY <2>1, <3>1, CheckedReads, Zenon DEF FlushAppends
    <3>3. QED
      BY <3>2, Zenon DEF Sourced, Matches, MatchesItem, Serial!Sourced,
                  Serial!Matches, Serial!MatchesItem
  <2>2. CASE override[u] # NoOverride
    <3>1. promised'[u].reads = {}
      BY <1>1, <1>3, <2>2 DEF Promised, Decided
    <3>2. QED
      BY <1>7, <3>1, Zenon
  <2>3. QED
    BY <2>1, <2>2, Zenon
<1>8. QED
  BY <1>3, <1>4, <1>5, <1>6, <1>7, Zenon DEF Serial!Decide

\* The command path implements SerialDecisions: every command that writes is,
\* to an observer of the log, one instantaneous read and write
\* (docs/how-it-works.md:467-470).
THEOREM CommandPathIsSerial == Spec => ImplementsSerialDecisions
<1>1. Init => Serial!Init
  <2> SUFFICES ASSUME Init PROVE Serial!Init
    BY Zenon
  <2>1. \A u \in Task : Promised(u) = Serial!Undecided
    BY Zenon DEF Init, Promised, Decided, Undecided, Serial!Undecided
  <2>2. QED
    BY <2>1, Zenon DEF Init, Serial!Init
<1>2. IInv /\ IInv' /\ UndecidedBeforeFlush /\ [Next]_vars
        => [Serial!Next]_<<log, [u \in Task |-> Promised(u)]>>
  <2> SUFFICES ASSUME IInv, IInv', UndecidedBeforeFlush, [Next]_vars
               PROVE  [Serial!Next]_<<log, [u \in Task |-> Promised(u)]>>
    BY Zenon
  <2>1. CASE \E u \in Task : FlushAppends(u)
    BY <2>1, FlushDecides, Zenon DEF Serial!Next
  <2>2. CASE ~\E u \in Task : FlushAppends(u)
    <3>1. UNCHANGED <<log, decision, override>>
      BY <2>2 DEF Next, Handle, Dispatch, Load, Source, AppendEvent,
                  HandlerReturns, Throws, FlushNothing, FlushRefused, Completes,
                  SnapshotStored, SnapshotLost, vars, taskVars
    <3>2. QED
      BY <3>1, Zenon DEF Promised, Decided
  <2>3. QED
    BY <2>1, <2>2, Zenon
<1>3. QED
  BY <1>1, <1>2, Invariance, UndecidedInvariance, PTL
     DEF Spec, ImplementsSerialDecisions, Serial!Spec

-----------------------------------------------------------------------------
\* A task that is refused has a read the log no longer agrees with.
LEMMA RefusalStep ==
  ASSUME IInv, NEW u \in Task, FlushRefused(u), override[u] = NoOverride
  PROVE  \E r \in sourcingInfos[u] : Sourced(log, r.query, 1, Len(log)) # r.seen
<1>1. Condition(u) = sourcingInfos[u]
  BY Zenon DEF Condition
<1>2. PICK r \in sourcingInfos[u] :
        Sourced(log, r.query, r.marker + 1, Len(log)) # {}
  BY <1>1, Zenon DEF FlushRefused, Conflicts
<1>3. r.marker \in Nat /\ Len(log) \in Nat
  BY DEF IInv, TypeOK, SourcingInfo
<1>4. r.seen = Sourced(log, r.query, 1, r.marker)
  BY Zenon DEF IInv, ReadsExact, Exact
<1>5. PICK p \in (r.marker + 1)..Len(log) : Matches(log[p], r.query)
  BY <1>2, Zenon DEF Sourced
<1>6. p \in Sourced(log, r.query, 1, Len(log)) /\ p \notin r.seen
  BY <1>3, <1>4, <1>5 DEF Sourced
<1>7. QED
  BY <1>6, Zenon

\* With one check per read, a command is refused only over an event that one of
\* its reads selects and did not see (append-condition.ts:18-22).
THEOREM RefusalsAlwaysJustified == Spec => RefusalsJustified
<1>1. IInv /\ [Next]_vars => [\A u \in Task : RefusedOnly(u)]_vars
  <2> SUFFICES ASSUME IInv, Next, NEW u \in Task, phase[u] = "PREPARE_COMMIT",
                      phase'[u] = "error", override[u] = NoOverride
               PROVE  \E r \in sourcingInfos[u] :
                        Sourced(log, r.query, 1, Len(log)) # r.seen
    BY Zenon DEF RefusedOnly
  <2>1. PICK v \in Task : Handle(v)
    BY Zenon DEF Next, SnapshotStored, SnapshotLost, taskVars
  <2>2. FlushRefused(u)
    BY <2>1, Zenon DEF IInv, TypeOK, Handle, Dispatch, Load, Source, AppendEvent,
                HandlerReturns, Throws, FlushNothing, FlushAppends, FlushRefused,
                Completes, Close
  <2>3. QED
    BY <2>2, RefusalStep, Zenon
<1>2. QED
  BY <1>1, Invariance, PTL DEF Spec, RefusalsJustified

-----------------------------------------------------------------------------
\* The marker an overriding condition keeps is below every read's own.
LEMMA EarliestIsLeast ==
  ASSUME NEW S \in SUBSET SourcingInfo, S # {}
  PROVE  Earliest(S) \in Nat /\ \A r \in S : Earliest(S) <= r.marker
<1> DEFINE M == {r.marker : r \in S}
<1>1. M \in SUBSET Nat /\ M # {}
  BY Zenon DEF SourcingInfo
<1> HIDE DEF M
<1>2. PICK m \in M : \A y \in M : <<y, m>> \notin OpToRel(<, Nat)
  BY <1>1, WFMin, NatLessThanWellFounded, Zenon
<1>3. \A y \in M : ~(y < m)
  BY <1>1, <1>2, Zenon DEF OpToRel
<1>4. \A y \in M : m <= y
  BY <1>1, <1>3
<1>5. m \in M /\ \A r \in S : m <= r.marker
  BY <1>4, Zenon DEF M
<1>6. Earliest(S) \in M /\ \A r \in S : Earliest(S) <= r.marker
  BY <1>5, Zenon DEF Earliest, M
<1> QED BY <1>1, <1>6, Zenon

\* The write under an override leaves nothing the override selects between any
\* of the task's reads and itself.
LEMMA OverrideChecked ==
  ASSUME TypeOK, NEW u \in Task, override[u] # NoOverride,
         ~Conflicts(log, Condition(u)), NEW r \in sourcingInfos[u]
  PROVE  \A p \in (r.marker + 1)..Len(log) : ~Matches(log[p], override[u])
<1>1. sourcingInfos[u] \in SUBSET SourcingInfo /\ sourcingInfos[u] # {}
  BY Zenon DEF TypeOK
<1>2. /\ Earliest(sourcingInfos[u]) \in Nat
      /\ Earliest(sourcingInfos[u]) <= r.marker
  BY <1>1, EarliestIsLeast, Zenon
<1>3. r.marker \in Nat /\ Len(log) \in Nat
  BY <1>1 DEF TypeOK, SourcingInfo
<1>4. Sourced(log, override[u], Earliest(sourcingInfos[u]) + 1, Len(log)) = {}
  BY <1>1, Zenon DEF Condition, Conflicts
<1> QED BY <1>2, <1>3, <1>4 DEF Sourced

\* Every step keeps OverridesHonoured.
LEMMA OverridesStep ==
  ASSUME IInv, IInv', OverridesHonoured, [Next]_vars
  PROVE  OverridesHonoured'
<1>1. CASE log' = log /\ decision' = decision /\ override' = override
  BY <1>1, Zenon DEF OverridesHonoured, Decided
<1>2. ASSUME NEW u \in Task, FlushAppends(u) PROVE OverridesHonoured'
  <2>1. /\ log' = log \o buffered[u] /\ override' = override
        /\ ~Conflicts(log, Condition(u))
        /\ decision' = [decision EXCEPT ![u] =
             [at |-> Len(log), events |-> buffered[u], reads |-> sourcingInfos[u]]]
    BY <1>2, Zenon DEF FlushAppends
  <2>2. /\ Len(log) \in Nat
        /\ \A p \in 1..Len(log) : log'[p] = log[p]
    BY <2>1 DEF IInv, TypeOK
  <2> SUFFICES ASSUME NEW v \in Task, Decided(v)', override[v] # NoOverride,
                      NEW r \in decision'[v].reads,
                      NEW p \in (r.marker + 1)..decision'[v].at,
                      Matches(log'[p], override[v])
               PROVE  FALSE
    BY <2>1, Zenon DEF OverridesHonoured, Sourced
  <2>3. CASE v = u
    <3>1. decision'[v] = [at |-> Len(log), events |-> buffered[u], reads |-> sourcingInfos[u]]
      BY <2>1, <2>3, Zenon DEF IInv, TypeOK
    <3>2. r \in sourcingInfos[u] /\ p \in (r.marker + 1)..Len(log)
      BY <3>1
    <3>3. r.marker \in Nat
      BY <3>2 DEF IInv, TypeOK, SourcingInfo
    <3>4. log'[p] = log[p]
      BY <2>2, <3>2, <3>3
    <3>5. \A q \in (r.marker + 1)..Len(log) : ~Matches(log[q], override[u])
      BY <2>1, <2>3, <3>2, OverrideChecked, Zenon DEF IInv
    <3> QED BY <2>3, <3>2, <3>4, <3>5, Zenon
  <2>4. CASE v # u
    <3>1. decision'[v] = decision[v]
      BY <2>1, <2>4, Zenon DEF IInv, TypeOK
    <3>2. decision[v] \in Decision /\ decision[v].at <= Len(log)
      BY Zenon DEF IInv, TypeOK, DecisionsPlaced
    <3>3. r.marker \in Nat /\ decision[v].at \in Nat
      BY <3>1, <3>2 DEF Decision, SourcingInfo
    <3>4. log'[p] = log[p]
      BY <2>2, <3>1, <3>2, <3>3
    <3>5. Sourced(log, override[v], r.marker + 1, decision[v].at) = {}
      BY <3>1, Zenon DEF OverridesHonoured, Decided
    <3> QED BY <3>1, <3>4, <3>5, Zenon DEF Sourced
  <2> QED BY <2>3, <2>4, Zenon
<1>3. CASE \A u \in Task : ~FlushAppends(u)
  BY <1>1, <1>3
     DEF Next, Handle, Dispatch, Load, Source, AppendEvent, HandlerReturns, Throws,
         FlushNothing, FlushRefused, Completes, SnapshotStored, SnapshotLost, vars, taskVars
<1> QED BY <1>2, <1>3, Zenon

\* A command under an overriding appendCondition wrote only if nothing the
\* override selects landed since ANY of its reads (event-flush.ts:62-69).
THEOREM OverridesAlwaysHonoured == Spec => []OverridesHonoured
<1>1. Init => OverridesHonoured
  BY DEF Init, OverridesHonoured, Decided, Undecided
<1> QED BY <1>1, Invariance, OverridesStep, PTL DEF Spec
=============================================================================
