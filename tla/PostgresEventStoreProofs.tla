---------------------- MODULE PostgresEventStoreProofs ----------------------
(***************************************************************************)
(* Writers of a tag serialise, anchored reads get sound markers, and a     *)
(* commit has seen every committed event its anchored reads select: proved *)
(* for any number of writers, tags, queries, batches and key collisions.   *)
(***************************************************************************)
EXTENDS PostgresEventStore, WellFoundedInduction, TLAPS

\* Where the transaction is follows where the append is.
Staged ==
  \A t \in Tx :
    /\ pc[t] = "reading" => status[t] = "idle"
    /\ pc[t] \in {"locking", "inserting"} => status[t] = "open"
    /\ pc[t] = "settled" => status[t] \in {"committed", "aborted"}

LocksExclusive == \A t, u \in Tx : t # u => held[t] \cap held[u] = {}

InserterLocked == \A t \in Tx : pc[t] = "inserting" => LeafKeys(t) \subseteq held[t]

\* A row is of a transaction that has passed its check, which keeps the keys
\* of the row's tags for as long as the row is in flight.
RowsLocked ==
  \A p \in Positions :
    /\ pc[TxOf(p)] \in {"inserting", "settled"}
    /\ InFlight(p) => \A tag \in rows[p].event.tags : LockKey[tag] \in held[TxOf(p)]

MarkersBounded ==
  /\ \A t \in Tx : \A r \in reads[t] : r.marker <= Len(rows)
  /\ \A query \in Snapshotted :
       snapshots[query].marker <= Len(rows) /\ snapshots[query].query = query

\* Between its check and its commit a writer has seen all there is to see.
CheckedStays ==
  \A t \in Tx : pc[t] = "inserting" =>
    \A r \in reads[t] : Anchored(r.query) =>
      \A p \in Positions :
        /\ TxOf(p) # t
        /\ Matches(rows[p].event, r.query)
        /\ Visible(p) \/ InFlight(p)
        => p \in r.seen

-----------------------------------------------------------------------------
\* A nonempty set of naturals has a least element.
LEMMA LeastNat ==
  ASSUME NEW S \in SUBSET Nat, S # {}
  PROVE  \E m \in S : \A q \in S : m <= q
<1>1. PICK m \in S : \A y \in S : <<y, m>> \notin OpToRel(<, Nat)
  BY WFMin, NatLessThanWellFounded, Zenon
<1>2. \A y \in S : ~(y < m)
  BY <1>1, Zenon DEF OpToRel
<1> QED BY <1>2

\* It is the one Min chooses.
LEMMA MinOfNats ==
  ASSUME NEW S \in SUBSET Nat, S # {}
  PROVE  Min(S) \in S /\ \A q \in S : Min(S) <= q
BY LeastNat, Zenon DEF Min

\* A nonempty set of positions has the maximum that Max chooses.
LEMMA MaxOfPositions ==
  ASSUME NEW n \in Nat, NEW S \in SUBSET (1..n), S # {}
  PROVE  Max(S) \in S /\ \A q \in S : q <= Max(S)
<1> DEFINE T == {n - p : p \in S}
<1>1. T \in SUBSET Nat
  <2>1. \A p \in S : n - p \in Nat
    OBVIOUS
  <2> QED BY <2>1, Zenon
<1>2. T # {}
  BY Zenon
<1>3. PICK m \in T : \A y \in T : m <= y
  <2> HIDE DEF T
  <2> QED BY <1>1, <1>2, LeastNat, Zenon
<1>4. PICK x \in S : m = n - x
  BY Zenon
<1>5. \A y \in S : n - x <= n - y
  BY <1>3, <1>4, Zenon
<1>6. \A y \in S : x >= y
  BY <1>5
<1> QED BY <1>6, Zenon DEF Max

\* The keys an append locks are naturals.
LEMMA LeafKeysNat ==
  ASSUME TypeOK, NEW t \in Tx
  PROVE  LeafKeys(t) \in SUBSET Nat
<1>1. TagsRead(t) \subseteq Tag
  BY DEF TypeOK, TagsRead, Read, EventQuery, QueryItem
<1>2. TagsWritten(t) \subseteq Tag
  <2>1. \A i \in DOMAIN batch[t] : batch[t][i] \in Event
    BY DEF TypeOK
  <2> QED BY <2>1, Zenon DEF TagsWritten, Event
<1> QED BY <1>1, <1>2, StoreAssumption, Zenon DEF LeafKeys

\* Every row is of a transaction.
LEMMA RowTypes ==
  ASSUME TypeOK
  PROVE  \A p \in Positions : TxOf(p) \in Tx /\ rows[p].event \in Event
<1> DEFINE Row == [event : Event, tx : Tx]
<1>1. \A p \in 1..Len(rows) : rows[p] \in Row
  <2> HIDE DEF Row
  <2>1. rows \in Seq(Row)
    BY Zenon DEF TypeOK, RowsTypeOK, Row
  <2> QED BY <2>1
<1> QED BY <1>1, Zenon DEF Positions, TxOf

\* The marker of a read is the one it resumed from or a row it found.
LEMMA ResumeMarker ==
  ASSUME TypeOK, NEW from \in Read
  PROVE  LET found == {p \in VisibleMatches(from.query) : p > from.marker}
         IN /\ found \in SUBSET Positions
            /\ \/ found = {} /\ Resume(from).marker = from.marker
               \/ Resume(from).marker \in found
<1> DEFINE found == {p \in VisibleMatches(from.query) : p > from.marker}
<1>1. Len(rows) \in Nat /\ found \in SUBSET (1..Len(rows)) /\ from.marker \in Nat
  BY DEF TypeOK, RowsTypeOK, VisibleMatches, Positions, Read
<1>2. Resume(from).marker = MarkerOf(from.marker + 1, found)
  BY Zenon DEF Resume
<1> HIDE DEF found
<1>3. CASE found = {}
  <2>1. MarkerOf(from.marker + 1, found) = from.marker
    BY <1>1, <1>3 DEF MarkerOf
  <2> QED BY <1>1, <1>2, <1>3, <2>1, Zenon DEF Positions, found
<1>4. CASE found # {}
  <2>1. Max(found) \in found
    BY <1>1, <1>4, MaxOfPositions, Zenon
  <2>2. MarkerOf(from.marker + 1, found) = Max(found)
    BY <1>4, Zenon DEF MarkerOf
  <2> QED BY <1>1, <1>2, <2>1, <2>2, Zenon DEF Positions, found
<1> QED BY <1>3, <1>4, Zenon

\* A read of the log is a read again.
LEMMA ResumeIsRead ==
  ASSUME TypeOK, NEW from \in Read
  PROVE  /\ Resume(from) \in Read
         /\ Resume(from).query = from.query
         /\ from.marker <= Len(rows) => Resume(from).marker <= Len(rows)
<1> DEFINE found == {p \in VisibleMatches(from.query) : p > from.marker}
<1>1. Len(rows) \in Nat /\ from \in [query : EventQuery, marker : Nat, seen : SUBSET Nat]
  BY DEF TypeOK, RowsTypeOK, Read
<1>2. found \in SUBSET (1..Len(rows)) /\ (Resume(from).marker = from.marker \/ Resume(from).marker \in found)
  BY ResumeMarker, Zenon DEF Positions
<1>3. Resume(from).query = from.query /\ Resume(from).seen = from.seen \cup found
  BY Zenon DEF Resume
<1>4. Resume(from) = [query |-> Resume(from).query, marker |-> Resume(from).marker,
                      seen |-> Resume(from).seen]
  BY Zenon DEF Resume
<1> HIDE DEF found
<1>5. Resume(from).marker \in Nat /\ (from.marker <= Len(rows) => Resume(from).marker <= Len(rows))
  <2>1. CASE Resume(from).marker = from.marker
    BY <1>1, <2>1, Zenon
  <2>2. CASE Resume(from).marker \in found
    <3>1. Resume(from).marker \in 1..Len(rows)
      BY <1>2, <2>2, Zenon
    <3> QED BY <1>1, <3>1
  <2> QED BY <1>2, <2>1, <2>2, Zenon
<1>6. Resume(from).seen \in SUBSET Nat
  <2>1. found \in SUBSET Nat
    BY <1>1, <1>2
  <2> QED BY <1>1, <1>3, <2>1, Zenon
<1>7. Resume(from) \in Read
  BY <1>1, <1>3, <1>4, <1>5, <1>6, Zenon DEF Read
<1> QED BY <1>3, <1>5, <1>7, Zenon

\* The empty fold is a read that covers.
LEMMA ZerothIsRead ==
  ASSUME TypeOK, NEW query \in Query
  PROVE  /\ Zeroth(query) \in Read
         /\ Zeroth(query).marker <= Len(rows)
         /\ MarkerCovers(Zeroth(query))
<1>1. Len(rows) \in Nat /\ query \in EventQuery
  BY StoreAssumption DEF TypeOK, RowsTypeOK
<1> QED BY <1>1 DEF Zeroth, Read, MarkerCovers, Positions

-----------------------------------------------------------------------------
\* Every step keeps TypeOK.
LEMMA TypeStep == TypeOK /\ [Next]_vars => TypeOK'
<1> SUFFICES ASSUME TypeOK, [Next]_vars
             PROVE  TypeOK'
  BY Zenon
<1> USE DEF TypeOK, RowsTypeOK, rowVars, Stage
<1>1. CASE UNCHANGED vars
  BY <1>1, Zenon DEF vars
<1>2. ASSUME NEW t \in Tx, NEW from \in Read, Source(t, from)
      PROVE  TypeOK'
  <2>1. Resume(from) \in Read
    BY ResumeIsRead, Zenon
  <2> QED BY <1>2, <2>1, Zenon DEF Source
<1>10. ASSUME NEW t \in Tx, NEW read \in reads[t], StoreSnapshot(read)
      PROVE  TypeOK'
  <2>1. read \in Read
    BY Zenon
  <2> QED BY <1>10, <2>1, Zenon DEF StoreSnapshot
<1>3. ASSUME NEW t \in Tx, NEW events \in Batch, StartAppend(t, events)
      PROVE  TypeOK'
  BY <1>3, StoreAssumption, Zenon DEF StartAppend, BeginTx
<1>4. ASSUME NEW t \in Tx, LockNext(t)
      PROVE  TypeOK'
  <2>1. Min(LeafKeys(t) \ held[t]) \in Nat
    <3>1. LeafKeys(t) \ held[t] # {}
      BY <1>4, Zenon DEF LockNext
    <3>2. LeafKeys(t) \ held[t] \in SUBSET Nat
      BY LeafKeysNat, Zenon
    <3> HIDE DEF TypeOK
    <3>3. Min(LeafKeys(t) \ held[t]) \in LeafKeys(t) \ held[t]
      BY <3>1, <3>2, MinOfNats, Zenon
    <3> QED BY <3>2, <3>3, Zenon
  <2> QED BY <1>4, <2>1, Zenon DEF LockNext
<1>5. ASSUME NEW t \in Tx, CheckPasses(t)
      PROVE  TypeOK'
  BY <1>5, Zenon DEF CheckPasses
<1>6. ASSUME NEW t \in Tx, NEW outcome \in {"committed", "aborted"}, Settle(t, outcome)
      PROVE  TypeOK'
  BY <1>6, Zenon DEF Settle, EndTx
<1>7. ASSUME NEW t \in Tx, Insert(t)
      PROVE  TypeOK'
  <2>1. batch[t][done[t] + 1] \in Event
    BY <1>7 DEF Insert
  <2>2. [event |-> batch[t][done[t] + 1], tx |-> t] \in [event : Event, tx : Tx]
    BY <2>1, Zenon
  <2>3. rows' \in Seq([event : Event, tx : Tx])
    BY <1>7, <2>2 DEF Insert, InsertRow
  <2>4. xid' \in [Tx -> Nat] /\ nextXid' \in Nat
    <3>1. AssignXid(t)
      BY <1>7, Zenon DEF Insert, InsertRow
    <3> QED BY <3>1 DEF AssignXid
  <2>5. UNCHANGED <<status, snapshots, pc, reads, batch, held>>
    BY <1>7, Zenon DEF Insert
  <2>6. done' \in [Tx -> Nat]
    BY <1>7 DEF Insert
  <2> QED BY <2>3, <2>4, <2>5, <2>6, Zenon
<1>8. \A query \in Query : Zeroth(query) \in Read
  BY ZerothIsRead, Zenon
<1>9. \A query \in Snapshotted : snapshots[query] \in Read
  BY Zenon
<1> QED
  BY <1>1, <1>2, <1>10, <1>3, <1>4, <1>5, <1>6, <1>7, <1>8, <1>9, Zenon
  DEF Next, CheckRefuses, Commit, Abort
-----------------------------------------------------------------------------
\* Who holds which lock, and for which rows.
Locking == Staged /\ LocksExclusive /\ InserterLocked /\ RowsLocked /\ MarkersBounded

\* Every step keeps the lock invariant.
LEMMA LockingStep == TypeOK /\ TypeOK' /\ Locking /\ [Next]_vars => Locking'
<1> SUFFICES ASSUME TypeOK, TypeOK', Locking, [Next]_vars
             PROVE  Locking'
  BY Zenon
<1> USE DEF Locking, rowVars
<1>1. CASE UNCHANGED vars
  BY <1>1 DEF vars, Staged, LocksExclusive, InserterLocked, LeafKeys, TagsRead, TagsWritten,
              RowsLocked, Positions, TxOf, InFlight, MarkersBounded
<1>2. ASSUME NEW t \in Tx, NEW from \in Read, from.marker <= Len(rows), Source(t, from)
      PROVE  Locking'
  <2>1. \A u \in Tx : u # t => reads'[u] = reads[u]
    BY <1>2, Zenon DEF Source, TypeOK
  <2>2. InserterLocked'
    BY <1>2, <2>1 DEF Source, InserterLocked, LeafKeys, TagsRead, TagsWritten
  <2>3. MarkersBounded'
    <3>1. Resume(from).marker <= Len(rows)
      BY <1>2, ResumeIsRead, Zenon
    <3> QED BY <1>2, <3>1, Zenon DEF Source, MarkersBounded, TypeOK
  <2> QED BY <1>2, <2>2, <2>3, Zenon DEF Source, Staged, LocksExclusive, RowsLocked, Positions, TxOf, InFlight
<1>10. ASSUME NEW t \in Tx, NEW read \in reads[t], StoreSnapshot(read)
      PROVE  Locking'
  <2>1. /\ snapshots' = [snapshots EXCEPT ![read.query] = read]
        /\ UNCHANGED <<rows, status, pc, reads, batch, held>>
    BY <1>10, Zenon DEF StoreSnapshot
  <2>2. MarkersBounded'
    BY <2>1, Zenon DEF MarkersBounded, TypeOK
  <2> QED BY <2>1, <2>2 DEF Staged, LocksExclusive, InserterLocked, LeafKeys, TagsRead, TagsWritten,
                            RowsLocked, Positions, TxOf, InFlight
<1>3. ASSUME NEW t \in Tx, NEW events \in Batch, StartAppend(t, events)
      PROVE  Locking'
  <2>1. /\ pc[t] = "reading"
        /\ status' = [status EXCEPT ![t] = "open"]
        /\ pc' = [pc EXCEPT ![t] = "locking"]
        /\ UNCHANGED <<rows, snapshots, reads, held>>
    BY <1>3, Zenon DEF StartAppend, BeginTx
  <2>2. \A u \in Tx : u # t => batch'[u] = batch[u]
    BY <1>3, Zenon DEF StartAppend, TypeOK
  <2>3. Staged' /\ LocksExclusive' /\ MarkersBounded'
    BY <2>1, Zenon DEF Staged, LocksExclusive, MarkersBounded, TypeOK, RowsTypeOK
  <2>4. InserterLocked'
    BY <2>1, <2>2 DEF InserterLocked, LeafKeys, TagsRead, TagsWritten, TypeOK
  <2>5. \A p \in Positions : TxOf(p) \in Tx /\ TxOf(p) # t
    BY <2>1, RowTypes, Zenon DEF RowsLocked
  <2>6. RowsLocked'
    BY <2>1, <2>5, Zenon DEF RowsLocked, Positions, TxOf, InFlight, TypeOK, RowsTypeOK
  <2> QED BY <2>3, <2>4, <2>6, Zenon
<1>4. ASSUME NEW t \in Tx, LockNext(t)
      PROVE  Locking'
  <2> DEFINE key == Min(LeafKeys(t) \ held[t])
  <2>1. /\ \A u \in Tx : key \notin held[u]
        /\ held' = [held EXCEPT ![t] = held[t] \cup {key}]
        /\ pc[t] = "locking"
        /\ UNCHANGED <<rows, status, snapshots, pc, reads, batch>>
    BY <1>4, Zenon DEF LockNext
  <2> HIDE DEF key
  <2>2. \A u \in Tx : held[u] \subseteq held'[u]
    BY <2>1, Zenon DEF TypeOK
  <2>3. LocksExclusive'
    BY <2>1 DEF LocksExclusive, TypeOK
  <2>4. InserterLocked'
    BY <2>1, <2>2 DEF InserterLocked, LeafKeys, TagsRead, TagsWritten
  <2>5. RowsLocked'
    <3> QED BY <2>1, <2>2, RowTypes, Zenon DEF RowsLocked, Positions, TxOf, InFlight
  <2> QED BY <2>1, <2>3, <2>4, <2>5, Zenon DEF Staged, MarkersBounded
<1>5. ASSUME NEW t \in Tx, CheckPasses(t)
      PROVE  Locking'
  <2>1. /\ LeafKeys(t) \subseteq held[t]
        /\ pc[t] = "locking"
        /\ pc' = [pc EXCEPT ![t] = "inserting"]
        /\ UNCHANGED <<rows, status, snapshots, reads, batch, held>>
    BY <1>5, Zenon DEF CheckPasses
  <2>2. Staged' /\ LocksExclusive' /\ MarkersBounded'
    BY <2>1, Zenon DEF Staged, LocksExclusive, MarkersBounded, TypeOK
  <2>3. \A u \in Tx : LeafKeys(u)' = LeafKeys(u)
    BY <2>1, Zenon DEF LeafKeys, TagsRead, TagsWritten
  <2>4. InserterLocked'
    BY <2>1, <2>3, Zenon DEF InserterLocked, TypeOK
  <2>5. RowsLocked'
    BY <2>1, RowTypes, Zenon DEF RowsLocked, Positions, TxOf, InFlight, TypeOK, RowsTypeOK
  <2> QED BY <2>2, <2>4, <2>5, Zenon
<1>6. ASSUME NEW t \in Tx, NEW outcome \in {"committed", "aborted"}, Settle(t, outcome)
      PROVE  Locking'
  <2>1. /\ status[t] = "open"
        /\ status' = [status EXCEPT ![t] = outcome]
        /\ pc' = [pc EXCEPT ![t] = "settled"]
        /\ held' = [held EXCEPT ![t] = {}]
        /\ UNCHANGED <<rows, snapshots, reads, batch>>
    BY <1>6, Zenon DEF Settle, EndTx
  <2>2. Staged' /\ LocksExclusive' /\ MarkersBounded'
    BY <2>1 DEF Staged, LocksExclusive, MarkersBounded, TypeOK, RowsTypeOK
  <2>3. \A u \in Tx : LeafKeys(u)' = LeafKeys(u)
    BY <2>1, Zenon DEF LeafKeys, TagsRead, TagsWritten
  <2>4. InserterLocked'
    BY <2>1, <2>3, Zenon DEF InserterLocked, TypeOK
  <2>5. RowsLocked'
    BY <2>1, RowTypes, Zenon DEF RowsLocked, Positions, TxOf, InFlight, TypeOK, RowsTypeOK
  <2> QED BY <2>2, <2>4, <2>5, Zenon
<1>7. ASSUME NEW t \in Tx, Insert(t)
      PROVE  Locking'
  <2> DEFINE event == batch[t][done[t] + 1]
  <2>1. /\ pc[t] = "inserting"
        /\ rows' = Append(rows, [event |-> event, tx |-> t])
        /\ UNCHANGED <<status, snapshots, pc, reads, batch, held>>
    BY <1>7, Zenon DEF Insert, InsertRow
  <2>2. \A u \in Tx : LeafKeys(u)' = LeafKeys(u)
    BY <2>1, Zenon DEF LeafKeys, TagsRead, TagsWritten
  <2>3. \A tag \in event.tags : LockKey[tag] \in held[t]
    <3>1. event.tags \subseteq TagsWritten(t)
      <4>1. done[t] + 1 \in DOMAIN batch[t]
        BY <1>7 DEF Insert, TypeOK
      <4> QED BY <4>1, Zenon DEF TagsWritten
    <3> QED BY <2>1, <3>1, Zenon DEF InserterLocked, LeafKeys
  <2> HIDE DEF event
  <2>4. RowsLocked'
    <3>1. /\ Len(rows') = Len(rows) + 1 /\ Len(rows) \in Nat
          /\ \A p \in 1..Len(rows) : rows'[p] = rows[p]
          /\ rows'[Len(rows) + 1] = [event |-> event, tx |-> t]
      BY <2>1 DEF TypeOK, RowsTypeOK
    <3> SUFFICES ASSUME NEW p \in 1..Len(rows')
                 PROVE  /\ pc[rows'[p].tx] \in {"inserting", "settled"}
                        /\ status[rows'[p].tx] = "open" =>
                             \A tag \in rows'[p].event.tags : LockKey[tag] \in held[rows'[p].tx]
      BY <2>1, Zenon DEF RowsLocked, Positions, TxOf, InFlight
    <3>2. CASE p \in 1..Len(rows)
      BY <3>1, <3>2, Zenon DEF RowsLocked, Positions, TxOf, InFlight
    <3>3. CASE p = Len(rows) + 1
      BY <2>1, <2>3, <3>1, <3>3
    <3> QED BY <3>1, <3>2, <3>3
  <2>5. MarkersBounded'
    <3>1. Len(rows') = Len(rows) + 1 /\ Len(rows) \in Nat
      BY <2>1 DEF TypeOK, RowsTypeOK
    <3>2. /\ \A u \in Tx : \A r \in reads[u] : r.marker \in Nat
          /\ \A query \in Snapshotted : snapshots[query].marker \in Nat
      BY DEF TypeOK, Read
    <3> QED BY <2>1, <3>1, <3>2 DEF MarkersBounded
  <2> QED BY <2>1, <2>2, <2>4, <2>5, Zenon DEF Staged, LocksExclusive, InserterLocked
<1>8. \A query \in Query : Zeroth(query) \in Read /\ Zeroth(query).marker <= Len(rows)
  BY ZerothIsRead, Zenon
<1>9. \A query \in Snapshotted : snapshots[query] \in Read /\ snapshots[query].marker <= Len(rows)
  BY Zenon DEF TypeOK, MarkersBounded
<1> QED
  BY <1>1, <1>2, <1>10, <1>3, <1>4, <1>5, <1>6, <1>7, <1>8, <1>9, Zenon
  DEF Next, CheckRefuses, Commit, Abort
-----------------------------------------------------------------------------
\* An event that an anchored query selects carries the anchor.
LEMMA AnchorCarried ==
  ASSUME NEW query, NEW tag, \A item \in query : tag \in item.tags,
         NEW event, Matches(event, query)
  PROVE  tag \in event.tags
BY Zenon DEF Matches, MatchesItem

\* The anchor of a recorded read is among the keys its append locks.
LEMMA AnchorLocked ==
  ASSUME TypeOK, NEW t \in Tx, NEW r \in reads[t],
         NEW tag \in Tag, \A item \in r.query : tag \in item.tags
  PROVE  LockKey[tag] \in LeafKeys(t)
<1>1. PICK item \in r.query : TRUE
  BY DEF TypeOK, Read, EventQuery
<1>2. tag \in TagsRead(t)
  BY <1>1, Zenon DEF TagsRead
<1> QED BY <1>2, Zenon DEF LeafKeys

\* A row in flight is of another transaction than the one that holds a key of
\* the row's tags.
LEMMA HolderExcludes ==
  ASSUME TypeOK, Locking, NEW t \in Tx, NEW p \in Positions, InFlight(p),
         NEW tag \in rows[p].event.tags, LockKey[tag] \in held[t]
  PROVE  TxOf(p) = t
<1>1. TxOf(p) \in Tx /\ LockKey[tag] \in held[TxOf(p)]
  BY RowTypes, Zenon DEF Locking, RowsLocked
<1> QED BY <1>1, Zenon DEF Locking, LocksExclusive

\* A passed check has seen everything its anchored reads select.
LEMMA CheckSeesAll ==
  ASSUME TypeOK, Locking, AnchoredMarkersCover, NEW t \in Tx, CheckPasses(t),
         NEW r \in reads[t], Anchored(r.query),
         NEW p \in Positions, TxOf(p) # t,
         Matches(rows[p].event, r.query), Visible(p) \/ InFlight(p)
  PROVE  p \in r.seen
<1>1. PICK tag \in Tag : \A item \in r.query : tag \in item.tags
  BY Zenon DEF Anchored
<1>2. tag \in rows[p].event.tags
  BY <1>1, AnchorCarried, Zenon
<1>3. LockKey[tag] \in held[t]
  BY <1>1, AnchorLocked, Zenon DEF CheckPasses
<1>4. ~InFlight(p)
  BY <1>2, <1>3, HolderExcludes, Zenon
<1>5. ~(p > r.marker)
  BY <1>4, Zenon DEF CheckPasses, Conflicting, VisibleMatches
<1>6. p \in Nat /\ r.marker \in Nat
  BY DEF Positions, TypeOK, Read, RowsTypeOK
<1>7. p <= r.marker
  BY <1>5, <1>6
<1> QED BY <1>7, Zenon DEF AnchoredMarkersCover, MarkerCovers

\* A read has a marker that covers when the fold it resumes from has.
LEMMA ResumeCovers ==
  ASSUME TypeOK, TagPrefix, NEW from \in Read, Anchored(from.query), MarkerCovers(from)
  PROVE  MarkerCovers(Resume(from))
<1> DEFINE found == {p \in VisibleMatches(from.query) : p > from.marker}
           q == Resume(from).marker
<1>1. Resume(from).query = from.query /\ Resume(from).seen = from.seen \cup found
  BY Zenon DEF Resume
<1>2. SUFFICES ASSUME NEW p \in Positions, p <= q, Matches(rows[p].event, from.query),
                      Visible(p) \/ InFlight(p)
               PROVE  p \in from.seen \cup found
  BY <1>1, Zenon DEF MarkerCovers
<1>3. p \in Nat /\ from.marker \in Nat
  BY DEF Positions, TypeOK, RowsTypeOK, Read
<1>4. CASE p <= from.marker
  BY <1>2, <1>4, Zenon DEF MarkerCovers
<1>5. CASE p > from.marker
  <2>1. q \in found /\ q \in Positions
    <3>1. q = from.marker \/ q \in found
      BY ResumeMarker, Zenon
    <3>2. q # from.marker
      BY <1>2, <1>3, <1>5
    <3>3. found \in SUBSET Positions
      BY ResumeMarker, Zenon
    <3> QED BY <3>1, <3>2, <3>3, Zenon
  <2>2. Visible(q) /\ Matches(rows[q].event, from.query)
    BY <2>1, Zenon DEF VisibleMatches
  <2> HIDE DEF q
  <2>3. PICK tag \in Tag : \A item \in from.query : tag \in item.tags
    BY Zenon DEF Anchored
  <2>4. tag \in rows[p].event.tags /\ tag \in rows[q].event.tags
    BY <1>2, <2>2, <2>3, AnchorCarried, Zenon
  <2>5. Visible(p)
    <3>1. p = q \/ p < q
      BY <1>2, <1>3, <2>1 DEF Positions
    <3> QED BY <1>2, <2>1, <2>2, <2>4, <3>1, Zenon DEF TagPrefix
  <2> QED BY <1>2, <1>5, <2>5, Zenon DEF VisibleMatches
<1> QED BY <1>3, <1>4, <1>5

-----------------------------------------------------------------------------
\* What a row's status means to the reads.
Reading == TagPrefix /\ AnchoredMarkersCover /\ AnchoredSnapshotsCover /\ CheckedStays

\* Every step keeps what reads and snapshots cover.
LEMMA ReadingStep ==
  TypeOK /\ TypeOK' /\ Locking /\ Locking' /\ Reading /\ [Next]_vars => Reading'
<1> SUFFICES ASSUME TypeOK, TypeOK', Locking, Locking', Reading, [Next]_vars
             PROVE  Reading'
  BY Zenon
<1> USE DEF Reading, rowVars
<1>1. CASE UNCHANGED vars
  BY <1>1, Zenon DEF vars, TagPrefix, AnchoredMarkersCover, AnchoredSnapshotsCover, MarkerCovers, CheckedStays,
              Positions, TxOf, Visible, InFlight
<1>2. ASSUME NEW t \in Tx, NEW from \in Read, Anchored(from.query) => MarkerCovers(from),
             Source(t, from)
      PROVE  Reading'
  <2> DEFINE read == Resume(from)
  <2>1. /\ pc[t] = "reading"
        /\ reads' = [reads EXCEPT ![t] = reads[t] \cup {read}]
        /\ UNCHANGED <<rows, status, snapshots, pc>>
    BY <1>2, Zenon DEF Source
  <2> HIDE DEF read
  <2>2. TagPrefix' /\ AnchoredSnapshotsCover'
    BY <2>1, Zenon DEF TagPrefix, AnchoredSnapshotsCover, MarkerCovers, Positions, TxOf, Visible, InFlight
  <2>3. \A u \in Tx : u # t => reads'[u] = reads[u]
    BY <2>1, Zenon DEF TypeOK
  <2>4. CheckedStays'
    BY <2>1, <2>3, Zenon DEF CheckedStays, Positions, TxOf, Visible, InFlight
  <2>5. Anchored(read.query) => MarkerCovers(read)
    BY <1>2, ResumeCovers, ResumeIsRead, Zenon DEF read
  <2>6. \A u \in Tx : \A r \in reads'[u] : r \in reads[u] \/ r = read
    BY <2>1, Zenon DEF TypeOK
  <2>7. \A u \in Tx : \A r \in reads'[u] : Anchored(r.query) => MarkerCovers(r)
    BY <2>5, <2>6, Zenon DEF AnchoredMarkersCover
  <2>8. AnchoredMarkersCover'
    BY <2>1, <2>7, Zenon DEF AnchoredMarkersCover, MarkerCovers, Positions, TxOf, Visible, InFlight
  <2> QED BY <2>2, <2>4, <2>8, Zenon
<1>10. ASSUME NEW t \in Tx, NEW read \in reads[t], StoreSnapshot(read)
      PROVE  Reading'
  <2>1. /\ read.query \in Snapshotted
        /\ snapshots' = [snapshots EXCEPT ![read.query] = read]
        /\ UNCHANGED <<rows, status, pc, reads>>
    BY <1>10, Zenon DEF StoreSnapshot
  <2>2. Anchored(read.query) => MarkerCovers(read)
    BY Zenon DEF AnchoredMarkersCover
  <2>3. \A query \in Snapshotted : Anchored(query) => MarkerCovers(snapshots'[query])
    BY <2>1, <2>2, Zenon DEF AnchoredSnapshotsCover, TypeOK
  <2>4. AnchoredSnapshotsCover'
    BY <2>1, <2>3, Zenon DEF AnchoredSnapshotsCover, MarkerCovers, Positions, TxOf, Visible, InFlight
  <2> QED BY <2>1, <2>4, Zenon DEF TagPrefix, AnchoredMarkersCover, AnchoredSnapshotsCover, MarkerCovers, CheckedStays,
                            Positions, TxOf, Visible, InFlight
<1>3. ASSUME NEW t \in Tx, NEW events \in Batch, StartAppend(t, events)
      PROVE  Reading'
  <2>1. /\ pc[t] = "reading"
        /\ status' = [status EXCEPT ![t] = "open"]
        /\ pc' = [pc EXCEPT ![t] = "locking"]
        /\ UNCHANGED <<rows, snapshots, reads>>
    BY <1>3, Zenon DEF StartAppend, BeginTx
  <2>2. \A p \in Positions : TxOf(p) \in Tx /\ TxOf(p) # t
    BY <2>1, RowTypes, Zenon DEF Locking, RowsLocked
  <2>3. \A p \in Positions : status'[TxOf(p)] = status[TxOf(p)]
    BY <2>1, <2>2, Zenon DEF TypeOK, RowsTypeOK
  <2>4. \A u \in Tx : pc'[u] = "inserting" => pc[u] = "inserting"
    BY <2>1, Zenon DEF TypeOK
  <2>5. \A p \in Positions : (Visible(p)' <=> Visible(p)) /\ (InFlight(p)' <=> InFlight(p))
    BY <2>1, <2>3, Zenon DEF Visible, InFlight, TxOf
  <2>6. TagPrefix'
    BY <2>1, <2>5, Zenon DEF TagPrefix, Positions
  <2>7. AnchoredMarkersCover'
    BY <2>1, <2>5, Zenon DEF AnchoredMarkersCover, MarkerCovers, Positions
  <2>8. AnchoredSnapshotsCover'
    BY <2>1, <2>5, Zenon DEF AnchoredSnapshotsCover, MarkerCovers, Positions
  <2>9. CheckedStays'
    BY <2>1, <2>4, <2>5, Zenon DEF CheckedStays, Positions, TxOf
  <2> QED BY <2>6, <2>7, <2>8, <2>9, Zenon
<1>4. ASSUME NEW t \in Tx, LockNext(t)
      PROVE  Reading'
  BY <1>4, Zenon DEF LockNext, TagPrefix, AnchoredMarkersCover, AnchoredSnapshotsCover, MarkerCovers, CheckedStays,
              Positions, TxOf, Visible, InFlight
<1>5. ASSUME NEW t \in Tx, CheckPasses(t)
      PROVE  Reading'
  <2>1. pc' = [pc EXCEPT ![t] = "inserting"] /\ UNCHANGED <<rows, status, snapshots, reads>>
    BY <1>5, Zenon DEF CheckPasses
  <2>2. TagPrefix' /\ AnchoredMarkersCover' /\ AnchoredSnapshotsCover'
    BY <2>1, Zenon DEF TagPrefix, AnchoredMarkersCover, AnchoredSnapshotsCover, MarkerCovers, Positions, TxOf, Visible, InFlight
  <2>3. \A u \in Tx : u # t => pc'[u] = pc[u]
    BY <2>1, Zenon DEF TypeOK
  <2>4. CheckedStays'
    <3> SUFFICES ASSUME NEW u \in Tx, pc'[u] = "inserting", NEW r \in reads[u],
                        Anchored(r.query), NEW p \in Positions, TxOf(p) # u,
                        Matches(rows[p].event, r.query), Visible(p) \/ InFlight(p)
                 PROVE  p \in r.seen
      BY <2>1, Zenon DEF CheckedStays, Positions, TxOf, Visible, InFlight
    <3>1. CASE u = t
      BY <1>5, <3>1, CheckSeesAll, Zenon
    <3>2. CASE u # t
      BY <2>3, <3>2, Zenon DEF CheckedStays
    <3> QED BY <3>1, <3>2, Zenon
  <2> QED BY <2>2, <2>4, Zenon
<1>6. ASSUME NEW t \in Tx, Insert(t)
      PROVE  Reading'
  <2> DEFINE event == batch[t][done[t] + 1]
             new == Len(rows) + 1
  <2>1. /\ pc[t] = "inserting"
        /\ rows' = Append(rows, [event |-> event, tx |-> t])
        /\ UNCHANGED <<status, snapshots, pc, reads, held>>
    BY <1>6, Zenon DEF Insert, InsertRow
  <2> HIDE DEF event
  <2>2. /\ Len(rows) \in Nat /\ Len(rows') = new
        /\ \A p \in 1..Len(rows) : rows'[p] = rows[p]
        /\ rows'[new] = [event |-> event, tx |-> t]
    BY <2>1 DEF TypeOK, RowsTypeOK
  <2>3. status[t] = "open"
    BY <2>1, Zenon DEF Locking, Staged
  <2>8. Len(rows) \in Nat
    BY <2>2, Zenon
  <2>10. /\ \A u \in Tx : \A r \in reads[u] : r.marker \in Nat /\ r.marker <= Len(rows)
         /\ \A query \in Snapshotted :
              snapshots[query].marker \in Nat /\ snapshots[query].marker <= Len(rows)
    <3>1. /\ \A u \in Tx : \A r \in reads[u] : r.marker \in Nat
          /\ \A query \in Snapshotted : snapshots[query].marker \in Nat
      BY DEF TypeOK, Read
    <3> QED BY <3>1, Zenon DEF Locking, MarkersBounded
  <2>4. TagPrefix'
    <3> SUFFICES ASSUME NEW p \in 1..new, NEW q \in 1..new, p < q,
                        status[rows'[q].tx] = "committed",
                        rows'[p].event.tags \cap rows'[q].event.tags # {}
                 PROVE  status[rows'[p].tx] # "open"
      <4>1. Positions' = 1..new /\ status' = status
        BY <2>1, <2>2, Zenon DEF Positions
      <4> QED BY <4>1, Zenon DEF TagPrefix, TxOf, Visible, InFlight
    <3>1. q # new
      BY <2>2, <2>3
    <3>2. p \in 1..Len(rows) /\ q \in 1..Len(rows)
      BY <2>8, <3>1
    <3> QED BY <2>2, <3>2, Zenon DEF TagPrefix, Positions, TxOf, Visible, InFlight
  <2>5. AnchoredMarkersCover'
    <3> SUFFICES ASSUME NEW u \in Tx, NEW r \in reads[u], Anchored(r.query),
                        NEW p \in 1..new, p <= r.marker, Matches(rows'[p].event, r.query),
                        status[rows'[p].tx] \in {"committed", "open"}
                 PROVE  p \in r.seen
      BY <2>1, <2>2, Zenon DEF AnchoredMarkersCover, MarkerCovers, Positions, TxOf, Visible, InFlight
    <3>1. r.marker \in Nat /\ r.marker <= Len(rows)
      BY <2>10, Zenon
    <3>2. p \in 1..Len(rows)
      BY <2>8, <3>1
    <3> QED BY <2>2, <3>2, Zenon DEF AnchoredMarkersCover, MarkerCovers, Positions, TxOf, Visible, InFlight
  <2>6. CheckedStays'
    <3> SUFFICES ASSUME NEW u \in Tx, pc[u] = "inserting", NEW r \in reads[u],
                        Anchored(r.query), NEW p \in 1..new, rows'[p].tx # u,
                        Matches(rows'[p].event, r.query),
                        status[rows'[p].tx] \in {"committed", "open"}
                 PROVE  p \in r.seen
      BY <2>1, <2>2, Zenon DEF CheckedStays, Positions, TxOf, Visible, InFlight
    <3>1. CASE p \in 1..Len(rows)
      BY <2>2, <3>1 DEF CheckedStays, Positions, TxOf, Visible, InFlight
    <3>2. CASE p = new
      <4>1. PICK tag \in Tag : \A item \in r.query : tag \in item.tags
        BY Zenon DEF Anchored
      <4>2. tag \in rows'[new].event.tags
        BY <3>2, <4>1, AnchorCarried, Zenon
      <4>3. LockKey[tag] \in held[u]
        BY <4>1, AnchorLocked, Zenon DEF Locking, InserterLocked
      <4>4. LockKey[tag] \in held'[t]
        BY <2>1, <2>2, <2>3, <4>2 DEF Locking, RowsLocked, Positions, TxOf, InFlight
      <4>5. u # t
        BY <2>2, <3>2
      <4> QED BY <2>1, <4>3, <4>4, <4>5, Zenon DEF Locking, LocksExclusive
    <3> QED BY <2>8, <3>1, <3>2
  <2>7. AnchoredSnapshotsCover'
    <3> SUFFICES ASSUME NEW query \in Snapshotted, Anchored(query),
                        NEW p \in 1..new, p <= snapshots[query].marker,
                        Matches(rows'[p].event, snapshots[query].query),
                        status[rows'[p].tx] \in {"committed", "open"}
                 PROVE  p \in snapshots[query].seen
      BY <2>1, <2>2, Zenon DEF AnchoredSnapshotsCover, MarkerCovers, Positions, TxOf, Visible, InFlight
    <3>1. snapshots[query].marker \in Nat /\ snapshots[query].marker <= Len(rows)
      BY <2>10, Zenon
    <3>2. p \in 1..Len(rows)
      BY <2>8, <3>1
    <3> QED BY <2>2, <3>2, Zenon DEF AnchoredSnapshotsCover, MarkerCovers, Positions, TxOf, Visible, InFlight
  <2> QED BY <2>4, <2>5, <2>6, <2>7, Zenon
<1>7. ASSUME NEW t \in Tx, Commit(t)
      PROVE  Reading'
  <2>1. /\ pc[t] = "inserting"
        /\ status[t] = "open"
        /\ status' = [status EXCEPT ![t] = "committed"]
        /\ pc' = [pc EXCEPT ![t] = "settled"]
        /\ UNCHANGED <<rows, snapshots, reads>>
    BY <1>7, Zenon DEF Commit, Settle, EndTx
  <2>2. \A p \in Positions :
          /\ TxOf(p) \in Tx
          /\ TxOf(p) # t => status'[TxOf(p)] = status[TxOf(p)]
          /\ TxOf(p) = t => status'[TxOf(p)] = "committed"
    BY <2>1, RowTypes, Zenon DEF TypeOK, RowsTypeOK
  <2>3. \A p \in Positions :
          (Visible(p) \/ InFlight(p))' => Visible(p) \/ InFlight(p)
    BY <2>1, <2>2, Zenon DEF Visible, InFlight, TxOf
  <2>4. TagPrefix'
    <3> SUFFICES ASSUME NEW p \in Positions, NEW q \in Positions, p < q,
                        status'[TxOf(q)] = "committed",
                        rows[p].event.tags \cap rows[q].event.tags # {},
                        status'[TxOf(p)] = "open"
                 PROVE  FALSE
      BY <2>1 DEF TagPrefix, Positions, TxOf, Visible, InFlight
    <3>1. TxOf(p) # t /\ InFlight(p)
      BY <2>2, Zenon DEF InFlight
    <3>2. CASE TxOf(q) = t
      <4>1. PICK tag \in rows[p].event.tags : tag \in rows[q].event.tags
        BY Zenon
      <4>2. LockKey[tag] \in held[t]
        BY <2>1, <3>2, <4>1, Zenon DEF Locking, RowsLocked, InFlight
      <4> QED BY <3>1, <4>1, <4>2, HolderExcludes, Zenon
    <3>3. CASE TxOf(q) # t
      BY <2>2, <3>1, <3>3, Zenon DEF TagPrefix, Visible
    <3> QED BY <3>2, <3>3, Zenon
  <2>5. AnchoredMarkersCover'
    BY <2>1, <2>3, Zenon DEF AnchoredMarkersCover, MarkerCovers, Positions
  <2>9. AnchoredSnapshotsCover'
    BY <2>1, <2>3, Zenon DEF AnchoredSnapshotsCover, MarkerCovers, Positions
  <2>6. \A u \in Tx : pc'[u] = "inserting" => pc[u] = "inserting"
    BY <2>1, Zenon DEF TypeOK
  <2>7. CheckedStays'
    BY <2>1, <2>3, <2>6, Zenon DEF CheckedStays, Positions, TxOf
  <2> QED BY <2>4, <2>5, <2>7, <2>9, Zenon
<1>8. ASSUME NEW t \in Tx, Settle(t, "aborted")
      PROVE  Reading'
  <2>1. /\ status' = [status EXCEPT ![t] = "aborted"]
        /\ pc' = [pc EXCEPT ![t] = "settled"]
        /\ UNCHANGED <<rows, snapshots, reads>>
    BY <1>8, Zenon DEF Settle, EndTx
  <2>2. \A p \in Positions :
          status'[TxOf(p)] = status[TxOf(p)] \/ status'[TxOf(p)] = "aborted"
    BY <2>1, RowTypes, Zenon DEF TypeOK, RowsTypeOK
  <2>3. \A p \in Positions : (Visible(p)' => Visible(p)) /\ (InFlight(p)' => InFlight(p))
    BY <2>1, <2>2, Zenon DEF Visible, InFlight, TxOf
  <2>4. \A u \in Tx : pc'[u] = "inserting" => pc[u] = "inserting"
    BY <2>1, Zenon DEF TypeOK
  <2>5. TagPrefix'
    BY <2>1, <2>3, Zenon DEF TagPrefix, Positions
  <2>6. AnchoredMarkersCover'
    BY <2>1, <2>3, Zenon DEF AnchoredMarkersCover, MarkerCovers, Positions
  <2>9. AnchoredSnapshotsCover'
    BY <2>1, <2>3, Zenon DEF AnchoredSnapshotsCover, MarkerCovers, Positions
  <2>7. CheckedStays'
    BY <2>1, <2>3, <2>4, Zenon DEF CheckedStays, Positions, TxOf
  <2> QED BY <2>5, <2>6, <2>7, <2>9, Zenon
<1>11. \A query \in Query : Zeroth(query) \in Read /\ MarkerCovers(Zeroth(query))
  BY ZerothIsRead, Zenon
<1>12. \A query \in Snapshotted :
         /\ snapshots[query] \in Read
         /\ Anchored(snapshots[query].query) => MarkerCovers(snapshots[query])
  BY Zenon DEF TypeOK, Locking, MarkersBounded, AnchoredSnapshotsCover
<1> QED
  BY <1>1, <1>2, <1>10, <1>3, <1>4, <1>5, <1>6, <1>7, <1>8, <1>11, <1>12, Zenon
  DEF Next, CheckRefuses, Abort

-----------------------------------------------------------------------------
IInv == TypeOK /\ Locking /\ Reading

\* The whole invariant holds at the start,
LEMMA IInvInit == Init => IInv
<1> SUFFICES ASSUME Init
             PROVE  IInv
  BY Zenon
<1> USE DEF Init, RowsInit
<1>1. TypeOK
  <2>1. \A query \in Snapshotted : Zeroth(query) \in Read
    BY StoreAssumption, Zenon DEF Zeroth, Read
  <2> QED BY <2>1 DEF TypeOK, RowsTypeOK, Stage
<1>2. Locking
  BY DEF Locking, Staged, LocksExclusive, InserterLocked, RowsLocked, Positions, MarkersBounded, Zeroth
<1>3. Positions = {}
  BY DEF Positions
<1>4. Reading
  <2>1. TagPrefix
    BY <1>3, Zenon DEF TagPrefix
  <2>2. \A r : MarkerCovers(r)
    BY <1>3, Zenon DEF MarkerCovers
  <2>3. CheckedStays
    BY <1>3, Zenon DEF CheckedStays
  <2> QED
    BY <2>1, <2>2, <2>3, Zenon DEF Reading, AnchoredMarkersCover, AnchoredSnapshotsCover
<1> QED BY <1>1, <1>2, <1>4, Zenon DEF IInv

\* ... is kept by every step,
LEMMA IInvStep == IInv /\ [Next]_vars => IInv'
BY TypeStep, LockingStep, ReadingStep, Zenon DEF IInv

\* ... and so always holds.
LEMMA IInvAlways == Spec => []IInv
BY IInvInit, IInvStep, PTL DEF Spec

\* Every variable of the Postgres append path keeps its type.
THEOREM StoreTypeCorrect == Spec => []TypeOK
<1>1. IInv => TypeOK
  BY Zenon DEF IInv
<1> QED BY <1>1, IInvAlways, PTL

\* The leaf locks of acquireWriteLocks make the visible events of each tag a
\* prefix of all of them (postgres-event-store.ts:96-97).
THEOREM TagsAlwaysPrefix == Spec => []TagPrefix
<1>1. IInv => TagPrefix
  BY Zenon DEF IInv, Reading
<1> QED BY <1>1, IInvAlways, PTL

\* The marker sourcePlain returns for an anchored query is never above a
\* matching event the read could not see.
THEOREM AnchoredMarkersAlwaysCover == Spec => []AnchoredMarkersCover
<1>1. IInv => AnchoredMarkersCover
  BY Zenon DEF IInv, Reading
<1> QED BY <1>1, IInvAlways, PTL

\* A stored snapshot of an anchored query never lacks an event at or below its
\* position, whichever unawaited write came last.
THEOREM AnchoredSnapshotsAlwaysCover == Spec => []AnchoredSnapshotsCover
<1>1. IInv => AnchoredSnapshotsCover
  BY Zenon DEF IInv, Reading
<1> QED BY <1>1, IInvAlways, PTL

\* A transaction of checkAndInsert commits only with anchored reads that have
\* seen every committed event they select, whoever interleaved.
THEOREM CommitsAlwaysSerial == Spec => CommitsSerial
<1>1. IInv /\ [Next]_vars => [\A t \in Tx : CommitSawAll(t)]_vars
  <2> SUFFICES ASSUME IInv, Next, NEW t \in Tx,
                      status[t] = "open", status'[t] = "committed",
                      NEW r \in reads[t], Anchored(r.query), NEW p \in VisibleMatches(r.query)
               PROVE  p \in r.seen
    BY Zenon DEF CommitSawAll
  <2>1. Commit(t)
    <3> USE DEF IInv, TypeOK, RowsTypeOK, rowVars
    <3>1. PICK u \in Tx : \/ \E query \in Query : Source(u, Zeroth(query))
                          \/ \E query \in Snapshotted : Source(u, snapshots[query])
                          \/ \E read \in reads[u] : StoreSnapshot(read)
                          \/ \E events \in Batch : StartAppend(u, events)
                          \/ LockNext(u) \/ CheckPasses(u) \/ CheckRefuses(u)
                          \/ Insert(u) \/ Commit(u) \/ Abort(u)
      BY Zenon DEF Next
    <3>2. Commit(u)
      BY <3>1, Zenon DEF Source, StoreSnapshot, StartAppend, BeginTx, LockNext, CheckPasses, CheckRefuses,
                  Insert, Abort, Settle, EndTx
    <3>3. u = t
      BY <3>2, Zenon DEF Commit, Settle, EndTx
    <3> QED BY <3>2, <3>3, Zenon
  <2>2. p \in Positions /\ Visible(p) /\ Matches(rows[p].event, r.query)
    BY Zenon DEF VisibleMatches
  <2>3. TxOf(p) # t
    BY <2>2, Zenon DEF Visible
  <2> QED BY <2>1, <2>2, <2>3, Zenon DEF IInv, Reading, CheckedStays, Commit
<1> QED BY <1>1, IInvAlways, PTL DEF Spec, CommitsSerial
=============================================================================
