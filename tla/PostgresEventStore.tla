------------------------- MODULE PostgresEventStore -------------------------
(***************************************************************************)
(* Sourcing and conditional appends of postgresEventStore, with the        *)
(* advisory locks of advisory-locks.ts and the snapshots of                *)
(* postgresSnapshottingEventStore: every SQL statement is a step, and any  *)
(* number of writers interleave between them.                              *)
(*                                                                         *)
(* The shared intent locks are left out: nothing in the package takes them *)
(* exclusively (acquireReadLocks has no caller), so they exclude nobody.   *)
(***************************************************************************)
EXTENDS PostgresRows

CONSTANTS
  Query,       \* what tasks source
  Snapshotted, \* the queries of the states that have a snapshot policy
  Batch,       \* the event sequences tasks append
  LockKey,     \* Tag -> the 64-bit key leafKey hashes it to
  MaxReads     \* bound: reads per task

ASSUME StoreAssumption ==
  /\ Query \subseteq EventQuery
  /\ Snapshotted \subseteq Query
  /\ Batch \subseteq Seq(Event) \ {<<>>}
  /\ LockKey \in [Tag -> Nat]
  /\ MaxReads \in Nat

VARIABLES
  snapshots, \* the snapshots table: the read each stored fold is of
  pc,      \* where the task's append stands
  reads,   \* its recorded reads; `seen` is history: the rows the read returned
  batch,   \* the events it appends
  done,    \* how many of them are inserted
  held     \* the leaf keys its transaction holds exclusively

vars == <<rowVars, snapshots, pc, reads, batch, done, held>>

Stage == {"reading", "locking", "inserting", "settled"}

\* What is folded without a snapshot, and stands for a missing one.
Zeroth(query) == [query |-> query, marker |-> 0, seen |-> {}]

Init ==
  /\ RowsInit
  /\ snapshots = [query \in Snapshotted |-> Zeroth(query)]
  /\ pc = [t \in Tx |-> "reading"]
  /\ reads = [t \in Tx |-> {}]
  /\ batch = [t \in Tx |-> <<>>]
  /\ done = [t \in Tx |-> 0]
  /\ held = [t \in Tx |-> {}]

-----------------------------------------------------------------------------
\* Mutant: two below the start of a read that matches nothing.
MarkerBelow(start, found) == IF found = {} THEN start - 2 ELSE Max(found)

\* Mutant: a read that matches nothing is anchored at the log's head.
MarkerAtHead(start, found) == IF found = {} THEN Len(rows) ELSE Max(found)

\* The marker of a read: its last match, or just below its start.
MarkerOf(start, found) == IF found = {} THEN start - 1 ELSE Max(found)

\* One SELECT, outside the task's transaction: the matches after the fold it
\* resumes from.
Resume(from) ==
  LET found == {p \in VisibleMatches(from.query) : p > from.marker}
  IN [query |-> from.query,
      marker |-> MarkerOf(from.marker + 1, found),
      seen |-> from.seen \cup found]

\* sourcePlain, and sourceFused, which joins the snapshot and the events after
\* it in the one statement.  A snapshot of another shape is left aside.
Source(t, from) ==
  /\ pc[t] = "reading"
  /\ Cardinality(reads[t]) < MaxReads
  /\ reads' = [reads EXCEPT ![t] = @ \cup {Resume(from)}]
  /\ UNCHANGED <<rowVars, snapshots, pc, batch, done, held>>

\* storeSnapshot: nobody awaits it, so the fold of any read there has been may
\* be the next to replace the entry.  (A read that found nothing new is the
\* fold it resumed from.)
StoreSnapshot(read) ==
  /\ read.query \in Snapshotted /\ read.seen # {}
  /\ snapshots' = [snapshots EXCEPT ![read.query] = read]
  /\ UNCHANGED <<rowVars, pc, reads, batch, done, held>>

TagsRead(t) == UNION {item.tags : item \in UNION {r.query : r \in reads[t]}}
TagsWritten(t) == UNION {batch[t][i].tags : i \in DOMAIN batch[t]}

\* Mutant: an append locks only what its condition reads.
LeafKeysRead(t) == {LockKey[tag] : tag \in TagsRead(t)}

\* lockTargetsFor: the tags the condition reads and the tags the events carry.
LeafKeys(t) == {LockKey[tag] : tag \in TagsRead(t) \cup TagsWritten(t)}

\* append: the unit of work's transaction is opened, READ COMMITTED.
StartAppend(t, events) ==
  /\ pc[t] = "reading"
  /\ BeginTx(t)
  /\ pc' = [pc EXCEPT ![t] = "locking"]
  /\ batch' = [batch EXCEPT ![t] = events]
  /\ UNCHANGED <<rows, xid, nextXid, snapshots, reads, done, held>>

\* Mutant: the keys are locked in any order.
LockAny(t) ==
  /\ pc[t] = "locking"
  /\ \E key \in LeafKeys(t) \ held[t] :
       /\ \A u \in Tx : key \notin held[u]
       /\ held' = [held EXCEPT ![t] = @ \cup {key}]
  /\ UNCHANGED <<rowVars, snapshots, pc, reads, batch, done>>

\* acquireWriteLocks: one pg_advisory_xact_lock at a time, smallest key first.
LockNext(t) ==
  /\ pc[t] = "locking"
  /\ LeafKeys(t) \ held[t] # {}
  /\ LET key == Min(LeafKeys(t) \ held[t])
     IN /\ \A u \in Tx : key \notin held[u]
        /\ held' = [held EXCEPT ![t] = @ \cup {key}]
  /\ UNCHANGED <<rowVars, snapshots, pc, reads, batch, done>>

\* The SELECT count(*) of checkAndInsert: each read against its own marker.
Conflicting(t) ==
  \E r \in reads[t] : \E p \in VisibleMatches(r.query) : p > r.marker

\* Mutant: the check runs before the locks are held.
CheckUnlocked(t) ==
  /\ pc[t] = "locking"
  /\ ~Conflicting(t)
  /\ pc' = [pc EXCEPT ![t] = "inserting"]
  /\ UNCHANGED <<rowVars, snapshots, reads, batch, done, held>>

CheckPasses(t) ==
  /\ pc[t] = "locking"
  /\ LeafKeys(t) \subseteq held[t]
  /\ ~Conflicting(t)
  /\ pc' = [pc EXCEPT ![t] = "inserting"]
  /\ UNCHANGED <<rowVars, snapshots, reads, batch, done, held>>

\* The end of the transaction releases its locks.
Settle(t, outcome) ==
  /\ EndTx(t, outcome)
  /\ pc' = [pc EXCEPT ![t] = "settled"]
  /\ held' = [held EXCEPT ![t] = {}]
  /\ UNCHANGED <<rows, xid, nextXid, snapshots, reads, batch, done>>

\* AppendConditionError (KR001) rolls the transaction back.
CheckRefuses(t) ==
  /\ pc[t] = "locking"
  /\ LeafKeys(t) \subseteq held[t]
  /\ Conflicting(t)
  /\ Settle(t, "aborted")

\* One INSERT ... RETURNING per event.
Insert(t) ==
  /\ pc[t] = "inserting"
  /\ done[t] < Len(batch[t])
  /\ InsertRow(t, batch[t][done[t] + 1])
  /\ done' = [done EXCEPT ![t] = @ + 1]
  /\ UNCHANGED <<status, snapshots, pc, reads, batch, held>>

Commit(t) ==
  /\ pc[t] = "inserting"
  /\ done[t] = Len(batch[t])
  /\ Settle(t, "committed")

\* Any statement fails, the process dies, or another write of the unit of
\* work throws: the transaction rolls back.
Abort(t) == Settle(t, "aborted")

Progress(t) == LockNext(t) \/ CheckPasses(t) \/ CheckRefuses(t) \/ Insert(t) \/ Commit(t)

Next ==
  \E t \in Tx :
    \/ \E query \in Query : Source(t, Zeroth(query))
    \/ \E query \in Snapshotted : Source(t, snapshots[query])
    \/ \E read \in reads[t] : StoreSnapshot(read)
    \/ \E events \in Batch : StartAppend(t, events)
    \/ LockNext(t)
    \/ CheckPasses(t)
    \/ CheckRefuses(t)
    \/ Insert(t)
    \/ Commit(t)
    \/ Abort(t)

\* Statements run to completion unless they wait for a lock.
Spec == Init /\ [][Next]_vars /\ \A t \in Tx : WF_vars(Progress(t))

-----------------------------------------------------------------------------
Read == [query : EventQuery, marker : Nat, seen : SUBSET Nat]

TypeOK ==
  /\ RowsTypeOK
  /\ snapshots \in [Snapshotted -> Read]
  /\ pc \in [Tx -> Stage]
  /\ reads \in [Tx -> SUBSET Read]
  /\ batch \in [Tx -> Seq(Event)]
  /\ done \in [Tx -> Nat]
  /\ held \in [Tx -> SUBSET Nat]

\* The query has a tag in all of its items: the case of a state scoped by one
\* id, and of every one-item query that names a tag.
Anchored(query) == \E tag \in Tag : \A item \in query : tag \in item.tags

\* WRITERS OF ONE TAG SERIALISE (postgres-event-store.ts:96-97, "Serializing
\* writers per tag keeps the visible events of a tag a prefix of all of them"):
\* an event still uncommitted is never below a visible one with a tag of its own.
TagPrefix ==
  \A p, q \in Positions :
    p < q /\ Visible(q) /\ rows[p].event.tags \cap rows[q].event.tags # {}
      => ~InFlight(p)

\* No row that a read could not see lies at or below the marker it returned.
MarkerCovers(r) ==
  \A p \in Positions :
    /\ p <= r.marker
    /\ Matches(rows[p].event, r.query)
    /\ Visible(p) \/ InFlight(p)
    => p \in r.seen

\* sourcePlain (206-211): "every matching event at or below it was seen", for
\* a read all of whose items share a tag, through a snapshot or not.
AnchoredMarkersCover ==
  \A t \in Tx : \A r \in reads[t] : Anchored(r.query) => MarkerCovers(r)

\* SNAPSHOTS STAY CACHES (postgres-snapshotting-event-store.ts:166-169): the
\* fold stored for an anchored query lacks no event at or below its position,
\* in whatever order the writes nobody awaits arrive.
AnchoredSnapshotsCover ==
  \A query \in Snapshotted : Anchored(query) => MarkerCovers(snapshots[query])

\* The same of every read, whatever its query: what append-gap.integration.
\* test.ts:7-8 says, "the store must never hand out a marker above an event
\* the read could not see".
MarkersCover == \A t \in Tx : \A r \in reads[t] : MarkerCovers(r)

\* THE DCB GUARANTEE ON POSTGRES (README.md:300): at the instant a transaction
\* commits, its anchored reads have seen every committed event they select.
CommitSawAll(t) ==
  status[t] = "open" /\ status'[t] = "committed" =>
    \A r \in reads[t] : Anchored(r.query) => VisibleMatches(r.query) \subseteq r.seen

CommitsSerial == [][\A t \in Tx : CommitSawAll(t)]_vars

\* NOBODY WAITS FOR EVER (advisory-locks.ts:81-82): writers that share several
\* tags take them in one order, so every append commits or is rolled back.
AppendsSettle == \A t \in Tx : pc[t] = "locking" ~> pc[t] = "settled"
=============================================================================
