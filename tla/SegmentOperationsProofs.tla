---------------------- MODULE SegmentOperationsProofs ----------------------
(***************************************************************************)
(* What splits, merges and resets keep, for any nodes, segments, events    *)
(* and number of operations, whatever claim rounds, crashes and stops run  *)
(* meanwhile: every segment the stored ids stand for has its row, and no   *)
(* claim is left without someone who works it. And for one operation,      *)
(* nothing is replayed that had not been handled.                          *)
(***************************************************************************)
EXTENDS SegmentOperations, WellFoundedInduction, TLAPS

-----------------------------------------------------------------------------
(* The walk over the ids. *)

\* A set of naturals that is not empty has a least element.
LEMMA LeastOfNat ==
  ASSUME NEW T \in SUBSET Nat, T # {}
  PROVE  \E j \in T : \A m \in T : j <= m
<1>1. PICK j \in T : \A m \in T : ~(<<m, j>> \in OpToRel(<, Nat))
  BY WFMin, NatLessThanWellFounded, Zenon
<1>2. ASSUME NEW m \in T PROVE j <= m
  <2>1. m \in Nat /\ j \in Nat
    BY Zenon
  <2>2. ~(m < j)
    BY <1>1, <2>1, Zenon DEF OpToRel
  <2> QED
    BY <2>1, <2>2
<1> QED
  BY <1>2, Zenon

\* The highest bit of a segment's id.
LEMMA TopBit ==
  ASSUME NEW x \in Ids, x # 0
  PROVE  \E k \in 0..Depth : 2^k <= x /\ x < 2 * 2^k
<1> DEFINE T == {k \in 0..Depth : x < 2^k}
<1>1. Depth \in T
  BY DepthAssumption DEF Ids
<1>2. T \subseteq Nat
  BY DepthAssumption
<1>3. PICK j \in T : \A m \in T : j <= m
  BY <1>1, <1>2, LeastOfNat, Zenon
<1>4. j # 0
  <2> SUFFICES ASSUME j = 0 PROVE FALSE
    BY Zenon
  <2>1. x < 2^0
    BY <1>3, Zenon
  <2>2. x < 1
    BY <2>1, PowersAssumption, Zenon
  <2> QED
    BY <2>2, DepthAssumption DEF Ids
<1>5. j - 1 \in 0..Depth /\ j - 1 \notin T
  BY <1>3, <1>4, DepthAssumption
<1>6. 2^j = 2 * 2^(j - 1)
  <2>1. 2^((j - 1) + 1) = 2 * 2^(j - 1)
    BY <1>5, PowersAssumption, Zenon
  <2>2. (j - 1) + 1 = j
    BY DepthAssumption
  <2> QED
    BY <2>1, <2>2, Zenon
<1>7. 2^(j - 1) \in Int
  BY <1>5, DepthAssumption
<1>8. 2^(j - 1) <= x
  BY <1>5, <1>7, DepthAssumption DEF Ids
<1> QED
  BY <1>5, <1>6, <1>8, Zenon

\* The remainder of a number by its highest bit.
LEMMA BelowTopBit ==
  ASSUME NEW m \in Nat, NEW x \in Nat, m > 0, m <= x, x < 2 * m
  PROVE  x % m = x - m
<1> DEFINE q == x \div m
           r == x % m
<1>1. x = m * q + r /\ q \in Int /\ r \in 0..(m - 1)
  BY Z3
<1> HIDE DEF q, r
<1>2. q = 1
  <2>1. ASSUME q <= 0 PROVE m * q <= 0
    BY <1>1, <2>1, Z3
  <2>2. ASSUME q >= 2 PROVE m * q >= 2 * m
    BY <1>1, <2>2, Z3
  <2> QED
    BY <1>1, <2>1, <2>2, Z3
<1>3. r = x - m
  BY <1>1, <1>2, Z3
<1> QED
  BY <1>3, Zenon DEF r

\* A segment the walk ends at is the whole's first part or has its id among the
\* ids: its ancestor below the highest bit of its id was halved.
LEMMA WalkEndsAtIds ==
  ASSUME NEW ids, NEW s \in SegmentsOf(ids), s.id # 0
  PROVE  s.id \in ids
<1>1. s \in Segment /\ \A a \in Segment : Ancestor(a, s) => Halved(a, ids)
  BY Zenon DEF SegmentsOf
<1>2. s.id \in Ids /\ s.mask \in Masks /\ s.id <= s.mask
  BY <1>1, Zenon DEF Segment
<1>3. PICK k \in 0..Depth : 2^k <= s.id /\ s.id < 2 * 2^k
  BY <1>2, TopBit, Zenon
<1>4. 2^k \in Nat /\ 2^k > 0
  BY <1>3, DepthAssumption, PowersAssumption
<1>5. s.id \in Nat /\ s.mask \in Int /\ 2^Depth \in Int
  BY <1>2, DepthAssumption DEF Ids, Masks
<1> DEFINE m == 2^k
           a == [id |-> s.id - m, mask |-> m - 1]
<1>6. a.id = s.id - m /\ a.mask = m - 1
  BY Zenon
<1> HIDE DEF m
<1>7. m \in Nat /\ m > 0 /\ m <= s.id /\ s.id < 2 * m /\ m - 1 \in Masks
  BY <1>3, <1>4, Zenon DEF m, Masks
<1>8. s.id - m \in Ids /\ s.id - m <= m - 1
  BY <1>2, <1>5, <1>7 DEF Ids
<1>9. a \in Segment
  BY <1>6, <1>7, <1>8, Zenon DEF Segment
<1> HIDE DEF a
<1>10. s.id % m = s.id - m
  BY <1>5, <1>7, BelowTopBit, Zenon
<1>11. a.mask + 1 = m /\ a.mask < s.mask
  BY <1>2, <1>5, <1>6, <1>7
<1>12. Halved(a, ids)
  BY <1>1, <1>6, <1>9, <1>10, <1>11, Zenon DEF Ancestor
<1>13. a.id + a.mask + 1 = s.id
  BY <1>5, <1>6, <1>7
<1>14. SecondHalf(a).id = a.id + a.mask + 1
  BY Zenon DEF SecondHalf
<1> QED
  BY <1>12, <1>13, <1>14, Zenon DEF Halved

-----------------------------------------------------------------------------
(* Steps of the claims. *)
Typed ==
  /\ initialSegments \in SegmentCounts
  /\ DOMAIN rows = Ids
  /\ DOMAIN up = Node
  /\ DOMAIN rounds = Node
  /\ faults \in Nat

\* Nothing is set up, and nothing under way that could set up a part.
Bare == SegmentIds = {} /\ claims = {} /\ \A n \in Node : rounds[n].segments = {}

\* Whoever holds the row after the step works it, or held and works it as before.
Handed(i) == \A n \in Node :
  rows'[i].there /\ rows'[i].owner = n =>
    \/ Has(n, i)'
    \/ rows[i].there /\ rows[i].owner = n /\ ~Has(n, i)

\* What every step of the claims does to the operations' part of the state.
Gentle ==
  /\ Typed'
  /\ \A c \in claims' : c \in claims \/ (~c.operation /\ c.node \in Node)
  /\ \A n \in Node : up'[n] = "dead" => up[n] = "dead" \/ (faults' # 0 /\ \A c \in claims' : c.node # n)
  /\ rows[0].there => rows'[0].there
  /\ Bare => rows'[0].there \/ Bare'
  /\ faults' = 0 => faults = 0 /\ \A i \in Ids : Handed(i)

\* Zero is an id whatever the depth.
LEMMA ZeroIsAnId == 0 \in Ids
<1>1. 2^Depth \in Int /\ 2^Depth > 0
  BY DepthAssumption, PowersAssumption
<1> QED
  BY <1>1 DEF Ids

\* The set-up has the first segment.
LEMMA ZeroIsSetUp ==
  ASSUME Typed
  PROVE  0 \in 0..(initialSegments - 1)
<1>1. 2^Depth \in Int
  BY DepthAssumption
<1>2. initialSegments \in 1..(2^Depth)
  BY ClaimsAssumption, Zenon DEF Typed
<1> QED
  BY <1>1, <1>2

\* Rows that are written by their owner, or stay, are handed on if workers are.
LEMMA SameOwners ==
  ASSUME \A i \in Ids : rows'[i].there = rows[i].there /\ (rows'[i].owner = rows[i].owner \/ rows'[i].owner \notin Node),
         \A i \in Ids, n \in Node : rows[i].there /\ rows[i].owner = n /\ rows'[i].owner = n /\ Has(n, i) => Has(n, i)'
  PROVE  \A i \in Ids : Handed(i)
BY Zenon DEF Handed

\* A row its owner writes.
LEMMA OwnWrite ==
  ASSUME Typed, NEW n, NEW i, NEW t, Stores(n, i), rows' = [rows EXCEPT ![i] = StoredRow(n, t)]
  PROVE  /\ DOMAIN rows' = Ids
         /\ \A j \in Ids : rows'[j].there = rows[j].there /\ rows'[j].owner = rows[j].owner
<1>1. StoredRow(n, t).there = TRUE /\ StoredRow(n, t).owner = n
  BY Zenon DEF StoredRow
<1>2. DOMAIN rows' = Ids /\ \A j \in Ids : rows'[j] = rows[j] \/ (j = i /\ rows'[j] = StoredRow(n, t))
  BY Zenon DEF Typed
<1>3. ASSUME NEW j \in Ids, j = i, rows'[j] = StoredRow(n, t)
      PROVE  rows'[j].there = rows[j].there /\ rows'[j].owner = rows[j].owner
  <2>1. rows[j].there /\ rows[j].owner = n
    BY <1>3, Zenon DEF Stores
  <2> QED
    BY <1>1, <1>3, <2>1, Zenon
<1> QED
  BY <1>2, <1>3, Zenon

\* A step that changes rows and workers only.
LEMMA GentleRows ==
  ASSUME Typed, UNCHANGED <<initialSegments, up, rounds, claims, faults>>, DOMAIN rows' = Ids,
         \A j \in Ids : rows'[j].there = rows[j].there, \A i \in Ids : Handed(i)
  PROVE  Gentle
<1>1. Typed'
  BY Zenon DEF Typed
<1>2. Bare => Bare'
  BY Zenon DEF Bare, SegmentIds
<1> QED
  BY <1>1, <1>2, ZeroIsAnId, Zenon DEF Gentle

\* A worker that moves on is there as before,
LEMMA MovedHas ==
  ASSUME NEW w \in workers, NEW t, NEW u, workers' = Replace(w, {Moved(w, t, u)}),
         NEW n, NEW i, Has(n, i)
  PROVE  Has(n, i)'
<1>1. /\ Moved(w, t, u).node = w.node /\ Moved(w, t, u).segment = w.segment
      /\ Moved(w, t, u).current = w.current
  BY Zenon DEF Moved
<1>2. PICK v \in workers : v.node = n /\ v.segment.id = i /\ v.current
  BY Zenon DEF Has
<1>3. v \in workers' \/ (v = w /\ Moved(w, t, u) \in workers')
  BY Zenon DEF Replace
<1> QED
  BY <1>1, <1>2, <1>3, Zenon DEF Has

\* one that ends takes nobody else with it,
LEMMA LoseHas ==
  ASSUME NEW w, Lose(w), NEW n, NEW i, Has(n, i), ~(w.node = n /\ w.segment.id = i)
  PROVE  Has(n, i)'
BY Zenon DEF Lose, Has

\* and workers that are started take the place of those they push out.
LEMMA StartedHas ==
  ASSUME NEW new, workers' = WithWorkers(new), \A o \in new : o.current
  PROVE  /\ \A o \in new : Has(o.node, o.segment.id)'
         /\ \A n, i : Has(n, i) => Has(n, i)'
<1>1. \A o \in new : o \in workers'
  BY Zenon DEF WithWorkers
<1>2. \A o \in new : Has(o.node, o.segment.id)'
  BY <1>1, Zenon DEF Has
<1>3. ASSUME NEW n, NEW i, Has(n, i) PROVE Has(n, i)'
  <2>1. PICK v \in workers : v.node = n /\ v.segment.id = i /\ v.current
    BY <1>3, Zenon DEF Has
  <2>2. CASE \E o \in new : o.node = v.node /\ o.segment.id = v.segment.id
    BY <1>2, <2>1, <2>2, Zenon
  <2>3. CASE ~\E o \in new : o.node = v.node /\ o.segment.id = v.segment.id
    <3>1. v \in workers'
      BY <2>1, <2>3, Zenon DEF WithWorkers
    <3> QED
      BY <2>1, <3>1, Zenon DEF Has
  <2> QED
    BY <2>2, <2>3, Zenon
<1> QED
  BY <1>2, <1>3, Zenon

\* One worker is started.
LEMMA StartedOne ==
  ASSUME NEW n, NEW s, NEW t, workers' = WithWorkers({StartedWorker(n, s, t)})
  PROVE  Has(n, s.id)' /\ \A k, l : Has(k, l) => Has(k, l)'
<1>1. PICK o : o = StartedWorker(n, s, t)
  BY Zenon
<1>2. o.node = n /\ o.segment = s /\ o.current = TRUE
  BY <1>1, Zenon DEF StartedWorker
<1>3. workers' = WithWorkers({o}) /\ \A q \in {o} : q.current
  BY <1>1, <1>2, Zenon
<1>4. Has(o.node, o.segment.id)' /\ \A k, l : Has(k, l) => Has(k, l)'
  BY <1>3, StartedHas, Zenon DEF WithWorkers, Has
<1> QED
  BY <1>2, <1>4, Zenon

\* The fence, for the rows there are: a worker that does not store is no owner's.
LEMMA LostNotOwner ==
  ASSUME NEW w, ~Stores(w.node, w.segment.id), Lose(w), UNCHANGED rows
  PROVE  \A i \in Ids : Handed(i)
<1>1. ASSUME NEW i \in Ids, NEW n \in Node, rows[i].there, rows[i].owner = n, Has(n, i)
      PROVE  Has(n, i)'
  <2>1. ~(w.node = n /\ w.segment.id = i)
    BY <1>1, Zenon DEF Stores
  <2> QED
    BY <1>1, <2>1, LoseHas, Zenon
<1> QED
  BY <1>1, SameOwners, Zenon

\* processBatch: a write of one's own row, or the worker gives up.
LEMMA GentleBatch ==
  ASSUME Typed, NEW w \in workers, NEW p \in Event, ProcessBatch(w, p)
  PROVE  Gentle
<1> DEFINE t == AdvanceTokenTo(w.token, p)
<1> HIDE DEF t
<1>1. CASE Stores(w.node, w.segment.id)
  <2>1. rows' = [rows EXCEPT ![w.segment.id] = StoredRow(w.node, t)]
        /\ workers' = Replace(w, {Moved(w, t, FALSE)})
    BY <1>1, Zenon DEF ProcessBatch, t
  <2>2. DOMAIN rows' = Ids /\ \A j \in Ids : rows'[j].there = rows[j].there /\ rows'[j].owner = rows[j].owner
    BY <1>1, <2>1, OwnWrite, Zenon
  <2>3. \A n, i : Has(n, i) => Has(n, i)'
    BY <2>1, MovedHas, Zenon
  <2>4. \A i \in Ids : Handed(i)
    BY <2>2, <2>3, SameOwners, Zenon
  <2> QED
    BY <2>2, <2>4, GentleRows, Zenon DEF ProcessBatch
<1>2. CASE ~Stores(w.node, w.segment.id)
  <2>1. Lose(w) /\ UNCHANGED rows
    BY <1>2, Zenon DEF ProcessBatch
  <2>2. \A i \in Ids : Handed(i)
    BY <1>2, <2>1, LostNotOwner, Zenon
  <2> QED
    BY <2>1, <2>2, GentleRows, Zenon DEF ProcessBatch, Typed
<1> QED
  BY <1>1, <1>2, Zenon

\* moveThroughQuietStretch: the same, or no write at all.
LEMMA GentleStretch ==
  ASSUME Typed, NEW w \in workers, NEW p \in Event, MoveThroughQuietStretch(w, p)
  PROVE  Gentle
<1> DEFINE t == AdvanceTokenTo(w.token, p)
<1> HIDE DEF t
<1>1. CASE w.segment.mask # 0
  <2>1. workers' = Replace(w, {Moved(w, t, TRUE)}) /\ UNCHANGED rows
    BY <1>1, Zenon DEF MoveThroughQuietStretch, t
  <2>2. \A n, i : Has(n, i) => Has(n, i)'
    BY <2>1, MovedHas, Zenon
  <2>3. \A i \in Ids : Handed(i)
    BY <2>1, <2>2, SameOwners, Zenon
  <2> QED
    BY <2>1, <2>3, GentleRows, Zenon DEF MoveThroughQuietStretch, Typed
<1>2. CASE w.segment.mask = 0 /\ Stores(w.node, w.segment.id)
  <2>1. rows' = [rows EXCEPT ![w.segment.id] = StoredRow(w.node, t)]
        /\ workers' = Replace(w, {Moved(w, t, w.unwritten)})
    BY <1>2, Zenon DEF MoveThroughQuietStretch, t
  <2>2. DOMAIN rows' = Ids /\ \A j \in Ids : rows'[j].there = rows[j].there /\ rows'[j].owner = rows[j].owner
    BY <1>2, <2>1, OwnWrite, Zenon
  <2>3. \A n, i : Has(n, i) => Has(n, i)'
    BY <2>1, MovedHas, Zenon
  <2>4. \A i \in Ids : Handed(i)
    BY <2>2, <2>3, SameOwners, Zenon
  <2> QED
    BY <2>2, <2>4, GentleRows, Zenon DEF MoveThroughQuietStretch
<1>3. CASE w.segment.mask = 0 /\ ~Stores(w.node, w.segment.id)
  <2>1. Lose(w) /\ UNCHANGED rows
    BY <1>3, Zenon DEF MoveThroughQuietStretch
  <2>2. \A i \in Ids : Handed(i)
    BY <1>3, <2>1, LostNotOwner, Zenon
  <2> QED
    BY <2>1, <2>2, GentleRows, Zenon DEF MoveThroughQuietStretch, Typed
<1> QED
  BY <1>1, <1>2, <1>3, Zenon

\* A renewal that lands writes its node's own row; one that does not find the
\* claim drops the workers, who do not own it.
LEMMA GentleLanding ==
  ASSUME Typed, NEW r \in renewals, RenewalLands(r)
  PROVE  Gentle
<1> DEFINE held == {w \in workers : w.node = r.node /\ w.segment.id = r.id /\ w.token = r.token}
<1>1. CASE Stores(r.node, r.id)
  <2>1. /\ rows' = [rows EXCEPT ![r.id] = StoredRow(r.node, r.token)]
        /\ workers' = (workers \ held) \cup {Moved(w, w.token, FALSE) : w \in held}
    BY <1>1, Zenon DEF RenewalLands
  <2>2. DOMAIN rows' = Ids /\ \A j \in Ids : rows'[j].there = rows[j].there /\ rows'[j].owner = rows[j].owner
    BY <1>1, <2>1, OwnWrite, Zenon
  <2>3. ASSUME NEW n, NEW i, Has(n, i) PROVE Has(n, i)'
    <3>1. PICK v \in workers : v.node = n /\ v.segment.id = i /\ v.current
      BY <2>3, Zenon DEF Has
    <3> DEFINE m == Moved(v, v.token, FALSE)
    <3>2. m.node = v.node /\ m.segment = v.segment /\ m.current = v.current
      BY Zenon DEF Moved
    <3>3. v \in workers' \/ m \in workers'
      BY <2>1, <3>1, Zenon
    <3> HIDE DEF m
    <3> QED
      BY <3>1, <3>2, <3>3, Zenon DEF Has
  <2>4. \A i \in Ids : Handed(i)
    BY <2>2, <2>3, SameOwners, Zenon
  <2> QED
    BY <2>2, <2>4, GentleRows, Zenon DEF RenewalLands
<1>2. CASE ~Stores(r.node, r.id)
  <2>1. workers' = workers \ held /\ UNCHANGED rows
    BY <1>2, Zenon DEF RenewalLands
  <2>2. ASSUME NEW i \in Ids, NEW n \in Node, rows[i].there, rows[i].owner = n, Has(n, i)
        PROVE  Has(n, i)'
    BY <1>2, <2>1, <2>2, Zenon DEF Has, Stores
  <2>3. \A i \in Ids : Handed(i)
    BY <2>1, <2>2, SameOwners, Zenon
  <2> QED
    BY <2>1, <2>3, GentleRows, Zenon DEF RenewalLands, Typed
<1> QED
  BY <1>1, <1>2, Zenon

\* Workers that stop release what they own.
LEMMA StopsRelease ==
  ASSUME NEW W, StopWorkers(W)
  PROVE  /\ DOMAIN rows' = Ids
         /\ \A j \in Ids : rows'[j].there = rows[j].there
         /\ \A i \in Ids : Handed(i)
<1> DEFINE In(i) == \E w \in W : w.segment.id = i /\ Stores(w.node, i)
           Who(i) == CHOOSE v \in W : v.segment.id = i /\ Stores(v.node, i)
           Left(i) == IF Who(i).unwritten THEN StoredRow(Who(i).node, Who(i).token) ELSE rows[i]
<1>1. rows' = [i \in Ids |-> IF In(i) THEN ReleasedRow(Left(i)) ELSE rows[i]]
  BY Zenon DEF StopWorkers
<1>2. \A row : ReleasedRow(row).there = row.there /\ ReleasedRow(row).owner = Nobody
  BY Zenon DEF ReleasedRow
<1>3. ASSUME NEW i \in Ids, In(i) PROVE Left(i).there = rows[i].there
  <2>1. rows[i].there
    BY <1>3, Zenon DEF Stores
  <2>2. \A n, t : StoredRow(n, t).there = TRUE
    BY Zenon DEF StoredRow
  <2> QED
    BY <2>1, <2>2, Zenon
<1> HIDE DEF Left
<1>4. DOMAIN rows' = Ids /\ \A i \in Ids : (In(i) => rows'[i] = ReleasedRow(Left(i))) /\ (~In(i) => rows'[i] = rows[i])
  BY <1>1, Zenon
<1>5. ASSUME NEW i \in Ids
      PROVE  rows'[i].there = rows[i].there /\ (In(i) => rows'[i].owner = Nobody) /\ (~In(i) => rows'[i].owner = rows[i].owner)
  <2>1. CASE In(i)
    BY <1>2, <1>3, <1>4, <2>1, Zenon
  <2>2. CASE ~In(i)
    BY <1>4, <2>2, Zenon
  <2> QED
    BY <2>1, <2>2, Zenon
<1>6. \A i \in Ids : ~In(i) \/ rows'[i].owner \notin Node
  BY <1>5, ClaimsAssumption, Zenon
<1>7. ASSUME NEW i \in Ids, NEW n \in Node, ~In(i), rows[i].there, rows[i].owner = n, Has(n, i)
      PROVE  Has(n, i)'
  <2>2. PICK v \in workers : v.node = n /\ v.segment.id = i /\ v.current
    BY <1>7, Zenon DEF Has
  <2>3. v \notin W
    BY <1>7, <2>2, Zenon DEF Stores
  <2>4. workers' = workers \ W
    BY Zenon DEF StopWorkers
  <2> QED
    BY <2>2, <2>3, <2>4, Zenon DEF Has
<1> HIDE DEF In
<1>8. \A i \in Ids : rows'[i].owner = rows[i].owner \/ rows'[i].owner \notin Node
  BY <1>5, <1>6, Zenon
<1>9. \A i \in Ids, n \in Node : rows[i].there /\ rows[i].owner = n /\ rows'[i].owner = n /\ Has(n, i) => Has(n, i)'
  BY <1>6, <1>7, Zenon
<1> QED
  BY <1>4, <1>5, <1>8, <1>9, SameOwners, Zenon

\* releaseSegment: the release goes with the worker.
LEMMA GentleRelease ==
  ASSUME Typed, NEW w, ReleaseSegment(w)
  PROVE  Gentle
BY StopsRelease, GentleRows, Zenon DEF ReleaseSegment

\* renew only sends a write on its way.
LEMMA GentleRenew ==
  ASSUME Typed, NEW w, Renew(w)
  PROVE  Gentle
<1>1. UNCHANGED <<initialSegments, rows, up, rounds, claims, workers, faults>>
  BY Zenon DEF Renew
<1>2. \A i \in Ids : Handed(i)
  BY <1>1, SameOwners, Zenon DEF Has
<1> QED
  BY <1>1, <1>2, GentleRows, Zenon DEF Typed

\* stop releases what its workers hold.
LEMMA GentleStop ==
  ASSUME Typed, NEW n \in Node, Stop(n)
  PROVE  Gentle
<1>1. /\ DOMAIN rows' = Ids
      /\ \A j \in Ids : rows'[j].there = rows[j].there
      /\ \A i \in Ids : Handed(i)
  BY StopsRelease, Zenon DEF Stop
<1>2. /\ UNCHANGED <<initialSegments, claims, faults>>
      /\ up' = [up EXCEPT ![n] = "stopped"]
  BY Zenon DEF Stop
<1>3. DOMAIN up' = Node /\ \A m \in Node : up'[m] = "dead" => up[m] = "dead"
  BY <1>2, Zenon DEF Typed
<1>4. DOMAIN rounds' = Node /\ \A m \in Node : rounds[m].segments = {} => rounds'[m].segments = {}
  <2>1. \A f : [on |-> TRUE, first |-> f, segments |-> {}].segments = {}
    BY Zenon
  <2>2. IdleRound.segments = {}
    BY Zenon DEF IdleRound
  <2>3. rounds' = [rounds EXCEPT ![n] = IF Claiming(n) THEN [on |-> TRUE, first |-> rounds[n].first, segments |-> {}]
                                         ELSE IdleRound]
    BY Zenon DEF Stop
  <2> QED
    BY <2>1, <2>2, <2>3, Zenon DEF Typed
<1>5. Typed'
  BY <1>1, <1>2, <1>3, <1>4, Zenon DEF Typed
<1>6. Bare => Bare'
  BY <1>1, <1>2, <1>4, Zenon DEF Bare, SegmentIds
<1> QED
  BY <1>1, <1>2, <1>3, <1>5, <1>6, ZeroIsAnId, Zenon DEF Gentle

\* Setting up and listing the segments.
LEMMA Lists ==
  ASSUME Typed, NEW n \in Node, NEW first, ListSegments(n, first), UNCHANGED workers
  PROVE  /\ DOMAIN rows' = Ids /\ DOMAIN rounds' = Node
         /\ \A i \in Ids : rows[i].there => rows'[i].there
         /\ SegmentIds = {} => rows'[0].there
         /\ \A i \in Ids : Handed(i)
<1> DEFINE ids == IF SegmentIds = {} THEN 0..(initialSegments - 1) ELSE SegmentIds
           table == [i \in Ids |-> IF i \in ids /\ ~rows[i].there THEN FreeRow ELSE rows[i]]
<1>1. rows' = table /\ DOMAIN rounds' = Node
  BY Zenon DEF ListSegments, Typed
<1>2. FreeRow.there = TRUE /\ FreeRow.owner = Nobody
  BY Zenon DEF FreeRow
<1>3. SegmentIds = {} => 0 \in ids
  BY ZeroIsSetUp, Zenon
<1> HIDE DEF ids
<1>4. DOMAIN rows' = Ids /\ \A i \in Ids : rows'[i] = rows[i] \/ (~rows[i].there /\ rows'[i] = FreeRow)
  BY <1>1, Zenon
<1>5. SegmentIds = {} => rows'[0] = FreeRow
  BY <1>1, <1>3, ZeroIsAnId, Zenon DEF SegmentIds
<1>6. ASSUME NEW i \in Ids PROVE Handed(i)
  <2>1. CASE rows'[i] = rows[i]
    BY <2>1, Zenon DEF Handed, Has
  <2>2. CASE rows'[i] = FreeRow
    BY <1>2, <2>2, ClaimsAssumption, Zenon DEF Handed
  <2> QED
    BY <1>4, <2>1, <2>2, Zenon
<1>7. \A i \in Ids : rows[i].there => rows'[i].there
  BY <1>4, Zenon
<1>8. SegmentIds = {} => rows'[0].there
  BY <1>2, <1>5, Zenon
<1> QED
  BY <1>1, <1>4, <1>6, <1>7, <1>8, Zenon

\* start lists the segments, and may set the rows up.
LEMMA GentleStart ==
  ASSUME Typed, NEW n \in Node, Start(n)
  PROVE  Gentle
<1>1. /\ UNCHANGED <<initialSegments, claims, workers, faults>>
      /\ up' = [up EXCEPT ![n] = "running"] /\ ListSegments(n, TRUE)
  BY Zenon DEF Start
<1>2. /\ DOMAIN rows' = Ids /\ DOMAIN rounds' = Node
      /\ rows[0].there => rows'[0].there
      /\ SegmentIds = {} => rows'[0].there
      /\ \A i \in Ids : Handed(i)
  BY <1>1, Lists, ZeroIsAnId, Zenon
<1>3. DOMAIN up' = Node /\ \A m \in Node : up'[m] = "dead" => up[m] = "dead"
  BY <1>1, Zenon DEF Typed
<1>4. Typed'
  BY <1>1, <1>2, <1>3, Zenon DEF Typed
<1> QED
  BY <1>1, <1>2, <1>3, <1>4, Zenon DEF Gentle, Bare

\* claimSoon lists the segments, and may set the rows up.
LEMMA GentleRound ==
  ASSUME Typed, NEW n \in Node, BeginRound(n)
  PROVE  Gentle
<1>1. UNCHANGED <<initialSegments, up, claims, workers, faults>> /\ ListSegments(n, FALSE)
  BY Zenon DEF BeginRound
<1>2. /\ DOMAIN rows' = Ids /\ DOMAIN rounds' = Node
      /\ rows[0].there => rows'[0].there
      /\ SegmentIds = {} => rows'[0].there
      /\ \A i \in Ids : Handed(i)
  BY <1>1, Lists, ZeroIsAnId, Zenon
<1>3. Typed'
  BY <1>1, <1>2, Zenon DEF Typed
<1> QED
  BY <1>1, <1>2, <1>3, Zenon DEF Gentle, Bare

\* The SELECT of a claim writes nothing, and is of a segment that was listed.
LEMMA GentleNext ==
  ASSUME Typed, NEW n \in Node, ClaimNext(n)
  PROVE  Gentle
<1>1. UNCHANGED <<initialSegments, rows, up, workers, faults>>
  BY Zenon DEF ClaimNext
<1>2. PICK s \in rounds[n].segments :
        \/ UNCHANGED claims
        \/ claims' = claims \cup {[node |-> n, segment |-> s, row |-> rows[s.id], operation |-> FALSE]}
  BY Zenon DEF ClaimNext
<1>3. DOMAIN rounds' = Node
  BY Zenon DEF ClaimNext, Typed
<1>4. ~Bare
  BY <1>2, Zenon DEF Bare
<1>5. \A row : LET c == [node |-> n, segment |-> s, row |-> row, operation |-> FALSE]
                IN c.operation = FALSE /\ c.node = n
  BY Zenon
<1>6. \A c \in claims' : c \in claims \/ (~c.operation /\ c.node \in Node)
  BY <1>2, <1>5, Zenon
<1>7. \A i \in Ids : Handed(i)
  BY <1>1, SameOwners, Zenon DEF Has
<1>8. Typed'
  BY <1>1, <1>3, Zenon DEF Typed
<1> QED
  BY <1>1, <1>4, <1>6, <1>7, <1>8, Zenon DEF Gentle

\* A round that throws leaves no claim of its own and nothing listed.
LEMMA Throws ==
  ASSUME Typed, NEW n \in Node, RoundThrows(n)
  PROVE  /\ DOMAIN rounds' = Node /\ DOMAIN up' = Node
         /\ claims' \subseteq claims
         /\ \A m \in Node : up'[m] = "dead" => up[m] = "dead"
         /\ \A m \in Node : rounds[m].segments = {} => rounds'[m].segments = {}
<1>1. IdleRound.segments = {}
  BY Zenon DEF IdleRound
<1>2. DOMAIN rounds' = Node /\ \A m \in Node : rounds'[m] = rounds[m] \/ rounds'[m] = IdleRound
  BY Zenon DEF RoundThrows, Typed
<1>3. DOMAIN up' = Node /\ \A m \in Node : up'[m] = up[m] \/ up'[m] = "stopped"
  BY Zenon DEF RoundThrows, Typed
<1>4. claims' \subseteq claims
  BY Zenon DEF RoundThrows
<1>5. \A m \in Node : up'[m] = "dead" => up[m] = "dead"
  BY <1>3, Zenon
<1> QED
  BY <1>1, <1>2, <1>3, <1>4, <1>5, Zenon

\* A claim that lands is the claimant's, unless there is no row.
LEMMA ClaimLands ==
  ASSUME NEW c
  PROVE  \/ ClaimedRow(c).there /\ ClaimedRow(c).owner = c.node
         \/ ClaimedRow(c) = rows[c.segment.id] /\ ~rows[c.segment.id].there
<1>1. \A n, t : StoredRow(n, t).there = TRUE /\ StoredRow(n, t).owner = n
  BY Zenon DEF StoredRow
<1>2. \/ \E t : ClaimedRow(c) = StoredRow(c.node, t)
      \/ ClaimedRow(c) = rows[c.segment.id] /\ ~rows[c.segment.id].there
  BY Zenon DEF ClaimedRow
<1> QED
  BY <1>1, <1>2, Zenon

\* A store error is a fault, and takes no row away.
LEMMA GentleFailure ==
  ASSUME Typed, NEW n \in Node, StoreFails(n)
  PROVE  Gentle
<1>1. RoundThrows(n) /\ UNCHANGED initialSegments /\ faults' = faults + 1
  BY Zenon DEF StoreFails
<1>2. /\ DOMAIN rounds' = Node /\ DOMAIN up' = Node
      /\ claims' \subseteq claims
      /\ \A m \in Node : up'[m] = "dead" => up[m] = "dead"
      /\ \A m \in Node : rounds[m].segments = {} => rounds'[m].segments = {}
  BY <1>1, Throws, Zenon
<1>3. faults' \in Nat /\ faults' # 0
  BY <1>1 DEF Typed
<1>4. \/ UNCHANGED rows
      \/ \E c \in claims : rows' = [rows EXCEPT ![c.segment.id] = ClaimedRow(c)]
  BY Zenon DEF StoreFails
<1>5. DOMAIN rows' = Ids /\ \A i \in Ids : rows[i].there => rows'[i].there
  <2>1. ASSUME NEW c \in claims, rows' = [rows EXCEPT ![c.segment.id] = ClaimedRow(c)]
        PROVE  DOMAIN rows' = Ids /\ \A i \in Ids : rows[i].there => rows'[i].there
    <3>1. DOMAIN rows' = Ids /\ \A i \in Ids : rows'[i] = rows[i] \/ (i = c.segment.id /\ rows'[i] = ClaimedRow(c))
      BY <2>1, Zenon DEF Typed
    <3> QED
      BY <3>1, ClaimLands, Zenon
  <2> QED
    BY <1>4, <2>1, Zenon DEF Typed
<1>6. Bare => Bare'
  <2> SUFFICES ASSUME Bare PROVE Bare'
    BY Zenon
  <2>1. claims' = {} /\ UNCHANGED rows
    BY <1>2, <1>4, Zenon DEF Bare
  <2> QED
    BY <1>2, <2>1, Zenon DEF Bare, SegmentIds
<1>7. Typed'
  BY <1>1, <1>2, <1>3, <1>5, Zenon DEF Typed
<1> QED
  BY <1>2, <1>3, <1>5, <1>6, <1>7, ZeroIsAnId, Zenon DEF Gentle

\* The second statement of a claim: the row goes to a node that has a worker for
\* it from then on, or that releases it at once.
LEMMA GentleClaim ==
  ASSUME Typed, NEW c \in claims, c.node \in Node, ClaimSegment(c)
  PROVE  Gentle
<1> DEFINE n == c.node
           i == c.segment.id
<1>1. UNCHANGED <<initialSegments, faults>> /\ ~Bare
  BY Zenon DEF ClaimSegment, Bare
<1>2. CASE ClaimStatementFails(c)
  <2>1. RoundThrows(n) /\ UNCHANGED <<rows, workers>>
    BY <1>2, Zenon DEF ClaimSegment
  <2>2. /\ DOMAIN rounds' = Node /\ DOMAIN up' = Node
        /\ claims' \subseteq claims
        /\ \A m \in Node : up'[m] = "dead" => up[m] = "dead"
    BY <2>1, Throws, Zenon
  <2>3. \A j \in Ids : Handed(j)
    BY <2>1, SameOwners, Zenon DEF Has
  <2>4. Typed'
    BY <1>1, <2>1, <2>2, Zenon DEF Typed
  <2> QED
    BY <1>1, <2>1, <2>2, <2>3, <2>4, Zenon DEF Gentle
<1>3. CASE ~ClaimStatementFails(c)
  <2>1. claims' \subseteq claims /\ UNCHANGED up /\ DOMAIN rounds' = Node
    BY <1>3, Zenon DEF ClaimSegment, Typed
  <2> DEFINE row == ClaimedRow(c)
  <2>2. \/ /\ rows' = [rows EXCEPT ![i] = row]
           /\ workers' = WithWorkers({StartedWorker(n, c.segment, c.row.token)})
        \/ rows' = [rows EXCEPT ![i] = ReleasedRow(row)] /\ UNCHANGED workers
    BY <1>3, Zenon DEF ClaimSegment
  <2>3. ReleasedRow(row).there = row.there /\ ReleasedRow(row).owner = Nobody
    BY Zenon DEF ReleasedRow
  <2>4. \/ row.there /\ row.owner = n
        \/ row = rows[i] /\ ~rows[i].there
    BY ClaimLands, Zenon
  <2> HIDE DEF row
  <2>5. /\ DOMAIN rows' = Ids
        /\ \A j \in Ids : rows'[j] = rows[j] \/ (j = i /\ rows'[j] \in {row, ReleasedRow(row)})
    BY <2>2, Zenon DEF Typed
  <2>6. \A j \in Ids : rows[j].there => rows'[j].there
    BY <2>3, <2>4, <2>5, Zenon
  <2>7. ASSUME NEW j \in Ids, NEW m \in Node, rows'[j].there, rows'[j].owner = m
        PROVE  Has(m, j)' \/ (rows[j].there /\ rows[j].owner = m /\ ~Has(m, j))
    <3>1. CASE rows' = [rows EXCEPT ![i] = row] /\ workers' = WithWorkers({StartedWorker(n, c.segment, c.row.token)})
      <4>2. Has(n, i)' /\ \A k, l : Has(k, l) => Has(k, l)'
        BY <3>1, StartedOne, Zenon
      <4>3. rows'[j] = rows[j] \/ (j = i /\ rows'[j] = row)
        BY <3>1, Zenon DEF Typed
      <4>4. CASE rows'[j] = rows[j]
        BY <2>7, <4>2, <4>4, Zenon
      <4>5. CASE j = i /\ rows'[j] = row /\ rows'[j] # rows[j]
        BY <2>4, <2>7, <4>2, <4>5, Zenon
      <4> QED
        BY <4>3, <4>4, <4>5, Zenon
    <3>2. CASE rows' = [rows EXCEPT ![i] = ReleasedRow(row)] /\ UNCHANGED workers
      <4>1. rows'[j] = rows[j] \/ rows'[j] = ReleasedRow(row)
        BY <3>2, Zenon DEF Typed
      <4>2. rows'[j] = rows[j]
        BY <2>3, <2>7, <4>1, ClaimsAssumption, Zenon
      <4> QED
        BY <2>7, <3>2, <4>2, Zenon DEF Has
    <3> QED
      BY <2>2, <3>1, <3>2, Zenon
  <2>8. \A j \in Ids : Handed(j)
    BY <2>7, Zenon DEF Handed
  <2>9. Typed'
    BY <1>1, <2>1, <2>5, Zenon DEF Typed
  <2> QED
    BY <1>1, <2>1, <2>6, <2>8, <2>9, ZeroIsAnId, Zenon DEF Gentle
<1> QED
  BY <1>2, <1>3, Zenon

\* A crash is a fault, and takes its node's claims with it.
LEMMA GentleCrash ==
  ASSUME Typed, NEW n \in Node, Crash(n)
  PROVE  Gentle
<1>1. /\ UNCHANGED <<initialSegments, rows>> /\ faults' = faults + 1
      /\ claims' = {c \in claims : c.node # n}
      /\ up' = [up EXCEPT ![n] = "dead"] /\ rounds' = [rounds EXCEPT ![n] = IdleRound]
  BY Zenon DEF Crash
<1>2. faults' \in Nat /\ faults' # 0
  BY <1>1 DEF Typed
<1>3. DOMAIN up' = Node /\ DOMAIN rounds' = Node /\ \A m \in Node : m = n \/ up'[m] = up[m]
  BY <1>1, Zenon DEF Typed
<1>4. \A m \in Node : rounds[m].segments = {} => rounds'[m].segments = {}
  <2>1. IdleRound.segments = {}
    BY Zenon DEF IdleRound
  <2>2. \A m \in Node : rounds'[m] = rounds[m] \/ rounds'[m] = IdleRound
    BY <1>1, Zenon DEF Typed
  <2> QED
    BY <2>1, <2>2, Zenon
<1>5. Typed'
  BY <1>1, <1>2, <1>3, Zenon DEF Typed
<1>6. Bare => Bare'
  BY <1>1, <1>4, Zenon DEF Bare, SegmentIds
<1>7. \A m \in Node : up'[m] = "dead" => up[m] = "dead" \/ (faults' # 0 /\ \A c \in claims' : c.node # m)
  BY <1>1, <1>2, <1>3, Zenon
<1> QED
  BY <1>1, <1>2, <1>5, <1>6, <1>7, Zenon DEF Gentle

\* Time that passes changes no owner.
LEMMA Expires ==
  ASSUME Typed, NEW i \in Ids, Expire(i)
  PROVE  /\ DOMAIN rows' = Ids
         /\ \A j \in Ids : rows'[j].there = rows[j].there
         /\ \A j \in Ids : Handed(j)
<1> DEFINE row == [there |-> rows[i].there, token |-> rows[i].token, owner |-> rows[i].owner, fresh |-> FALSE]
<1>1. rows' = [rows EXCEPT ![i] = row] /\ UNCHANGED workers
  BY Zenon DEF Expire
<1>2. row.there = rows[i].there /\ row.owner = rows[i].owner
  BY Zenon
<1> HIDE DEF row
<1>3. DOMAIN rows' = Ids /\ \A j \in Ids : rows'[j] = rows[j] \/ (j = i /\ rows'[j] = row)
  BY <1>1, Zenon DEF Typed
<1>4. \A j \in Ids : rows'[j].there = rows[j].there /\ rows'[j].owner = rows[j].owner
  BY <1>2, <1>3, Zenon
<1>5. \A j \in Ids : Handed(j)
  BY <1>1, <1>4, SameOwners, Zenon DEF Has
<1> QED
  BY <1>3, <1>4, <1>5, Zenon

\* A claim that lapses is still its owner's.
LEMMA GentleLapse ==
  ASSUME Typed, NEW i \in Ids, ClaimLapses(i)
  PROVE  Gentle
BY Expires, GentleRows, Zenon DEF ClaimLapses, Expire

\* A claim that lapses under a node that renews it is a fault.
LEMMA GentleStall ==
  ASSUME Typed, NEW i \in Ids, ClaimStalls(i)
  PROVE  Gentle
<1>1. /\ DOMAIN rows' = Ids
      /\ \A j \in Ids : rows'[j].there = rows[j].there
  BY Expires, Zenon DEF ClaimStalls
<1>2. UNCHANGED <<initialSegments, up, rounds, claims>> /\ faults' = faults + 1
  BY Zenon DEF ClaimStalls, Expire
<1>3. faults' \in Nat /\ faults' # 0
  BY <1>2 DEF Typed
<1>4. Typed'
  BY <1>1, <1>2, <1>3, Zenon DEF Typed
<1>5. Bare => Bare'
  BY <1>1, <1>2, Zenon DEF Bare, SegmentIds
<1> QED
  BY <1>1, <1>2, <1>3, <1>4, <1>5, ZeroIsAnId, Zenon DEF Gentle

\* Every step of the claims is gentle.
LEMMA StepsAreGentle ==
  ASSUME Typed, \A c \in claims : c.node \in Node, Next
  PROVE  Gentle
<1>1. ASSUME NEW n \in Node, NodeStep(n) PROVE Gentle
  BY <1>1, GentleStart, GentleStop, GentleRound, GentleNext, GentleFailure, GentleCrash, Zenon DEF NodeStep
<1>2. ASSUME NEW w \in workers, WorkerStep(w) PROVE Gentle
  BY <1>2, GentleRenew, GentleRelease, GentleBatch, GentleStretch, Zenon DEF WorkerStep
<1> QED
  BY <1>1, <1>2, GentleLanding, GentleClaim, GentleLapse, GentleStall, Zenon DEF Next

-----------------------------------------------------------------------------
(* The operation under way. *)
HeldIds == {h.segment.id : h \in op.held}

\* An operation is nobody's, or a live node's; what it has read is what it holds.
Sound ==
  /\ op = [kind |-> op.kind, node |-> op.node, segment |-> op.segment, todo |-> op.todo,
           held |-> op.held, tokens |-> op.tokens, read |-> op.read]
  /\ op.kind = "none" => op = NoOp
  /\ op.kind # "none" => op.node \in Node /\ up[op.node] # "dead"
  /\ op.read => op.todo = <<>> /\ {t.id : t \in op.tokens} = HeldIds
  /\ \A h \in op.held : h.how \in {"held", "claimed"}

\* A split is about its segment, a merge about two of different ids.
About ==
  /\ op.kind = "split" =>
       \/ op.todo = <<op.segment>> /\ HeldIds = {}
       \/ op.todo = <<>> /\ HeldIds = {op.segment.id}
  /\ op.kind = "merge" => \E s, p \in Segment :
       /\ s.id # p.id
       /\ \/ op.todo = <<s, p>> /\ HeldIds = {}
          \/ op.todo = <<p>> /\ HeldIds = {s.id}
          \/ op.todo = <<>> /\ HeldIds = {s.id, p.id}

\* It has one claim at a time, of what it is to hold next.
Claimed ==
  /\ \A c \in claims : c.node \in Node
  /\ \A c \in claims : c.operation =>
       op.kind # "none" /\ c.node = op.node /\ op.todo # <<>> /\ c.segment = Head(op.todo)
  /\ \A c, d \in claims : c.operation /\ d.operation => c = d

Rooted == rows[0].there \/ (Bare /\ op = NoOp)

OpInv == Typed /\ Sound /\ About /\ Claimed /\ Rooted

\* Between operations.
LEMMA NoOpFields ==
  /\ NoOp.kind = "none" /\ NoOp.held = {} /\ NoOp.read = FALSE /\ NoOp.todo = <<>>
  /\ NoOp = [kind |-> NoOp.kind, node |-> NoOp.node, segment |-> NoOp.segment, todo |-> NoOp.todo,
             held |-> NoOp.held, tokens |-> NoOp.tokens, read |-> NoOp.read]
BY Zenon DEF NoOp

\* Nothing is asked of the time between operations.
LEMMA SoundAtRest ==
  ASSUME op = NoOp
  PROVE  Sound /\ About
BY NoOpFields, Zenon DEF Sound, About

\* The first state: no rows, and nothing under way.
LEMMA OpAtFirst ==
  ASSUME OpInit
  PROVE  OpInv /\ ClaimsAreWorked
<1>1. IdleRound.segments = {} /\ NoRow.there = FALSE
  BY Zenon DEF IdleRound, NoRow
<1>2. Typed
  BY Zenon DEF OpInit, Init, Typed
<1>3. \A i \in Ids : rows[i] = NoRow
  BY Zenon DEF OpInit, Init
<1>4. SegmentIds = {}
  BY <1>1, <1>3, Zenon DEF SegmentIds
<1>5. Bare
  BY <1>1, <1>4, Zenon DEF OpInit, Init, Bare
<1>6. Claimed
  BY Zenon DEF OpInit, Init, Claimed
<1> QED
  BY <1>2, <1>4, <1>5, <1>6, SoundAtRest, Zenon DEF OpInit, OpInv, Rooted, ClaimsAreWorked

\* An operation ends.
LEMMA OpEnds ==
  ASSUME op' = NoOp, Typed', \A c \in claims' : c.node \in Node /\ ~c.operation, rows'[0].there
  PROVE  OpInv'
<1>1. Sound' /\ About'
  BY NoOpFields, Zenon DEF Sound, About
<1>2. Claimed' /\ Rooted'
  BY Zenon DEF Claimed, Rooted
<1> QED
  BY <1>1, <1>2, Zenon DEF OpInv

\* A step of the claims leaves the operation as it is, or ends it with its node.
LEMMA OpInvClaimStep ==
  ASSUME OpInv, ClaimStep
  PROVE  OpInv'
<1>1. Gentle
  BY StepsAreGentle, Zenon DEF OpInv, Claimed, ClaimStep
<1>2. Typed'
  BY <1>1, Zenon DEF Gentle
<1>3. \A c \in claims' : c.node \in Node /\ (c.operation => c \in claims)
  BY <1>1, Zenon DEF Gentle, OpInv, Claimed
<1>4. CASE op.kind # "none" /\ up'[op.node] = "dead"
  <2>1. op' = NoOp
    BY <1>4, Zenon DEF ClaimStep
  <2>2. \A c \in claims' : ~c.operation
    <3>1. op.node \in Node /\ up[op.node] # "dead"
      BY <1>4, Zenon DEF OpInv, Sound
    <3>2. \A c \in claims' : c.node # op.node
      BY <1>1, <1>4, <3>1, Zenon DEF Gentle
    <3> QED
      BY <1>3, <3>2, Zenon DEF OpInv, Claimed
  <2>3. rows'[0].there
    <3>1. op # NoOp
      BY <1>4, NoOpFields, Zenon
    <3> QED
      BY <1>1, <3>1, Zenon DEF OpInv, Rooted, Gentle
  <2> QED
    BY <1>2, <1>3, <2>1, <2>2, <2>3, OpEnds, Zenon
<1>5. CASE ~(op.kind # "none" /\ up'[op.node] = "dead")
  <2>1. op' = op
    BY <1>5, Zenon DEF ClaimStep
  <2>2. Sound' /\ About'
    BY <1>5, <2>1, Zenon DEF OpInv, Sound, About, HeldIds
  <2>3. Claimed'
    BY <1>3, <2>1, Zenon DEF OpInv, Claimed
  <2>4. Rooted'
    BY <1>1, <2>1, Zenon DEF OpInv, Rooted, Gentle
  <2> QED
    BY <1>2, <2>2, <2>3, <2>4, Zenon DEF OpInv
<1> QED
  BY <1>4, <1>5, Zenon

\* Who holds a row works it, or the operation has it.
Worked == \A i \in Ids, n \in Node :
  rows[i].there /\ rows[i].owner = n => Has(n, i) \/ (op.node = n /\ i \in HeldIds)

\* A step of the claims hands an owned row to a worker, or leaves it as it was.
LEMMA WorkedClaimStep ==
  ASSUME OpInv, faults = 0 => Worked, ClaimStep, faults' = 0
  PROVE  Worked'
<1>1. Gentle
  BY StepsAreGentle, Zenon DEF OpInv, Claimed, ClaimStep
<1>2. Worked
  BY <1>1, Zenon DEF Gentle
<1>3. op' = op
  BY <1>1, Zenon DEF OpInv, Sound, ClaimStep, Gentle
<1>4. ASSUME NEW i \in Ids, NEW n \in Node, rows'[i].there, rows'[i].owner = n
      PROVE  Has(n, i)' \/ (op'.node = n /\ i \in HeldIds')
  <2>1. HeldIds' = HeldIds
    BY <1>3, Zenon DEF HeldIds
  <2>2. Handed(i)
    BY <1>1, Zenon DEF Gentle
  <2> QED
    BY <1>2, <1>3, <1>4, <2>1, <2>2, Zenon DEF Worked, Handed
<1> QED
  BY <1>4, Zenon DEF Worked

-----------------------------------------------------------------------------
(* Steps of an operation. *)
LEMMA Released ==
  ASSUME NEW n, NEW ids, NEW table
  PROVE  /\ DOMAIN Releases(n, ids, table) = Ids
         /\ \A i \in Ids : Releases(n, ids, table)[i].there = table[i].there
         /\ \A i \in Ids : Releases(n, ids, table)[i].owner \in Node =>
              Releases(n, ids, table)[i].owner = table[i].owner /\ ~(i \in ids /\ table[i].owner = n)
<1> DEFINE new == Releases(n, ids, table)
<1>1. \A row : ReleasedRow(row).there = row.there /\ ReleasedRow(row).owner = Nobody
  BY Zenon DEF ReleasedRow
<1>2. DOMAIN new = Ids /\ \A i \in Ids :
        \/ new[i] = ReleasedRow(table[i])
        \/ new[i] = table[i] /\ ~(i \in ids /\ table[i].owner = n)
  BY Zenon DEF Releases
<1> HIDE DEF new
<1>3. /\ DOMAIN new = Ids
      /\ \A i \in Ids : new[i].there = table[i].there
      /\ \A i \in Ids : new[i].owner \in Node => new[i].owner = table[i].owner /\ ~(i \in ids /\ table[i].owner = n)
  BY <1>1, <1>2, ClaimsAssumption, Zenon
<1> QED
  BY <1>3, Zenon DEF new

\* Workers for what is resumed, if the node runs.
LEMMA Resumed ==
  ASSUME NEW n, NEW on,
         NEW R, workers' = IF on THEN WithWorkers({StartedWorker(n, s.segment, s.token) : s \in R}) ELSE workers
  PROVE  /\ \A k, l : Has(k, l) => Has(k, l)'
         /\ on => \A s \in R : Has(n, s.segment.id)'
<1>1. CASE ~on
  BY <1>1, Zenon DEF Has
<1>2. CASE on
  <2>1. PICK new : new = {StartedWorker(n, s.segment, s.token) : s \in R}
    BY Zenon
  <2>2. \A s : LET o == StartedWorker(n, s.segment, s.token)
               IN o.node = n /\ o.segment = s.segment /\ o.current = TRUE
    BY Zenon DEF StartedWorker
  <2>3. workers' = WithWorkers(new)
    BY <1>2, <2>1, Zenon DEF WithWorkers
  <2>4. \A o \in new : o.current
    BY <2>1, <2>2, Zenon
  <2>5. \A k, l : Has(k, l) => Has(k, l)'
    BY <2>3, <2>4, StartedHas, Zenon
  <2>6. ASSUME NEW s \in R PROVE Has(n, s.segment.id)'
    <3>1. PICK o : o = StartedWorker(n, s.segment, s.token)
      BY Zenon
    <3>2. o \in new /\ o.node = n /\ o.segment = s.segment /\ o.current
      BY <2>1, <2>2, <3>1, Zenon
    <3>3. o \in workers'
      BY <2>3, <3>2, Zenon DEF WithWorkers
    <3> QED
      BY <3>2, <3>3, Zenon DEF Has
  <2> QED
    BY <2>5, <2>6, Zenon
<1> QED
  BY <1>1, <1>2, Zenon

\* What is given back is worked again or released.
LEMMA GivesBack ==
  ASSUME OpInv, NEW tokens, GiveBack(tokens)
  PROVE  /\ op' = NoOp /\ DOMAIN rows' = Ids
         /\ \A i \in Ids : rows'[i].there = rows[i].there
         /\ Worked => Worked'
<1> DEFINE Tok(h) == IF \E t \in tokens : t.id = h.segment.id /\ t.token # Plain(0)
                       THEN (CHOOSE t \in tokens : t.id = h.segment.id).token
                       ELSE h.known
           Back == {[segment |-> h.segment, token |-> Tok(h)] : h \in {g \in op.held : g.how = "held"}}
<1>1. PICK n : n = op.node
  BY Zenon
<1>2. PICK R : R = Back
  BY Zenon
<1>3. PICK on : on = (up[n] = "running")
  BY Zenon
<1>4. workers' = IF on THEN WithWorkers({StartedWorker(n, s.segment, s.token) : s \in R}) ELSE workers
  BY <1>1, <1>2, <1>3, Zenon DEF GiveBack, Resume
<1>5. op' = NoOp /\ rows' = Releases(n, LetGo(n), rows)
  BY <1>1, Zenon DEF GiveBack, Releases, LetGo
<1> HIDE DEF Tok
<1>6. ASSUME NEW h \in op.held, h.how = "held" PROVE \E s \in R : s.segment = h.segment
  <2>1. [segment |-> h.segment, token |-> Tok(h)] \in R
    BY <1>2, <1>6, Zenon
  <2>2. \A t : [segment |-> h.segment, token |-> t].segment = h.segment
    BY Zenon
  <2> QED
    BY <2>1, <2>2, Zenon
<1> HIDE DEF Back
<1>7. /\ \A k, l : Has(k, l) => Has(k, l)'
      /\ on => \A s \in R : Has(n, s.segment.id)'
  BY <1>4, Resumed, Zenon
<1>9. /\ DOMAIN rows' = Ids
      /\ \A i \in Ids : rows'[i].there = rows[i].there
      /\ \A i \in Ids : rows'[i].owner \in Node => rows'[i].owner = rows[i].owner /\ ~(i \in LetGo(n) /\ rows[i].owner = n)
  BY <1>5, Released, Zenon DEF Releases
<1>10. ASSUME Worked, NEW i \in Ids, NEW m \in Node, rows'[i].there, rows'[i].owner = m
       PROVE  Has(m, i)'
  <2>1. rows[i].there /\ rows[i].owner = m /\ ~(i \in LetGo(n) /\ m = n)
    BY <1>9, <1>10, Zenon
  <2>2. CASE Has(m, i)
    BY <1>7, <2>2, Zenon
  <2>3. CASE op.node = m /\ i \in HeldIds
    <3>1. PICK h \in op.held : h.segment.id = i
      BY <2>3, Zenon DEF HeldIds
    <3>2. h.how = "held" /\ on
      BY <1>1, <1>3, <2>1, <2>3, <3>1, Zenon DEF LetGo, OpInv, Sound
    <3>3. PICK s \in R : s.segment = h.segment
      BY <1>6, <3>2, Zenon
    <3>4. Has(n, s.segment.id)'
      BY <1>7, <3>2, Zenon
    <3> QED
      BY <1>1, <2>3, <3>1, <3>3, <3>4, Zenon
  <2> QED
    BY <1>10, <2>1, <2>2, <2>3, Zenon DEF Worked
<1> QED
  BY <1>5, <1>9, <1>10, Zenon DEF Worked

\* An operation under way is about segments that are set up.
LEMMA UnderWay ==
  ASSUME OpInv, op.kind # "none"
  PROVE  rows[0].there
BY NoOpFields, Zenon DEF OpInv, Rooted

\* Whoever has segments to take, or has read their tokens, is under way.
LEMMA WorkUnderWay ==
  ASSUME OpInv, op.todo # <<>> \/ op.read
  PROVE  op.kind # "none" /\ rows[0].there
BY UnderWay, NoOpFields, Zenon DEF OpInv, Sound

\* A step that ends the operation.
LEMMA OpGone ==
  ASSUME OpInv, UNCHANGED <<initialSegments, up, rounds, faults>>, op' = NoOp, DOMAIN rows' = Ids, rows'[0].there,
         claims' \subseteq claims, \A c \in claims' : ~c.operation
  PROVE  OpInv'
<1>1. Typed'
  BY Zenon DEF OpInv, Typed
<1> QED
  BY <1>1, OpEnds, Zenon DEF OpInv, Claimed

\* The operation with one segment more held.
LEMMA TakenFields ==
  ASSUME Sound, NEW h, op' = [op EXCEPT !.todo = Tail(@), !.held = @ \cup {h}]
  PROVE  op' = [kind |-> op.kind, node |-> op.node, segment |-> op.segment, todo |-> Tail(op.todo),
                held |-> op.held \cup {h}, tokens |-> op.tokens, read |-> op.read]
<1>1. op = [kind |-> op.kind, node |-> op.node, segment |-> op.segment, todo |-> op.todo,
            held |-> op.held, tokens |-> op.tokens, read |-> op.read]
  BY Zenon DEF Sound
<1>2. DOMAIN op = {"kind", "node", "segment", "todo", "held", "tokens", "read"}
  BY <1>1, Zenon
<1>3. PICK o : o = op
  BY Zenon
<1>4. o = [x \in {"kind", "node", "segment", "todo", "held", "tokens", "read"} |-> o[x]]
  BY <1>1, <1>2, <1>3, Zenon
<1> QED
  BY <1>2, <1>3, <1>4, Zenon

\* A step that takes the next segment.
LEMMA Takes ==
  ASSUME OpInv, op.todo # <<>>, NEW h, h.segment = Head(op.todo), h.how \in {"held", "claimed"},
         op' = [op EXCEPT !.todo = Tail(@), !.held = @ \cup {h}],
         UNCHANGED <<initialSegments, up, rounds, faults>>, DOMAIN rows' = Ids, rows'[0].there,
         claims' \subseteq claims, \A c \in claims' : ~c.operation
  PROVE  OpInv' /\ op'.node = op.node /\ HeldIds' = HeldIds \cup {Head(op.todo).id}
<1>1. Typed'
  BY Zenon DEF OpInv, Typed
<1>2. op' = [kind |-> op.kind, node |-> op.node, segment |-> op.segment, todo |-> Tail(op.todo),
             held |-> op.held \cup {h}, tokens |-> op.tokens, read |-> op.read]
  BY TakenFields, Zenon DEF OpInv
<1>3. /\ op'.kind = op.kind /\ op'.node = op.node /\ op'.segment = op.segment /\ op'.todo = Tail(op.todo)
      /\ op'.held = op.held \cup {h} /\ op'.tokens = op.tokens /\ op'.read = op.read
  BY <1>2, Zenon
<1>4. op' = [kind |-> op'.kind, node |-> op'.node, segment |-> op'.segment, todo |-> op'.todo,
             held |-> op'.held, tokens |-> op'.tokens, read |-> op'.read]
  BY <1>2, <1>3, Zenon
<1>5. op.kind # "none" /\ ~op.read
  BY WorkUnderWay, Zenon DEF OpInv, Sound
<1>6. HeldIds' = HeldIds \cup {Head(op.todo).id}
  BY <1>3 DEF HeldIds
<1>7. Sound'
  BY <1>3, <1>4, <1>5, Zenon DEF OpInv, Sound
<1>8. op'.kind = "split" => op'.todo = <<>> /\ HeldIds' = {op'.segment.id}
  <2> SUFFICES ASSUME op.kind = "split"
               PROVE  op'.todo = <<>> /\ HeldIds' = {op'.segment.id}
    BY <1>3, Zenon
  <2>1. op.todo = <<op.segment>> /\ HeldIds = {}
    BY Zenon DEF OpInv, About
  <2>2. Head(op.todo) = op.segment /\ Tail(op.todo) = <<>>
    BY <2>1
  <2> QED
    BY <1>3, <1>6, <2>1, <2>2, Zenon
<1>9. op'.kind = "merge" => \E s, p \in Segment :
        /\ s.id # p.id
        /\ \/ op'.todo = <<s, p>> /\ HeldIds' = {}
           \/ op'.todo = <<p>> /\ HeldIds' = {s.id}
           \/ op'.todo = <<>> /\ HeldIds' = {s.id, p.id}
  <2> SUFFICES ASSUME op.kind = "merge"
               PROVE  \E s, p \in Segment :
                        /\ s.id # p.id
                        /\ \/ op'.todo = <<p>> /\ HeldIds' = {s.id}
                           \/ op'.todo = <<>> /\ HeldIds' = {s.id, p.id}
    BY <1>3, Zenon
  <2>1. PICK s \in Segment, p \in Segment :
          /\ s.id # p.id
          /\ \/ op.todo = <<s, p>> /\ HeldIds = {}
             \/ op.todo = <<p>> /\ HeldIds = {s.id}
    BY Zenon DEF OpInv, About
  <2>2. CASE op.todo = <<s, p>> /\ HeldIds = {}
    <3>1. Head(op.todo) = s /\ Tail(op.todo) = <<p>>
      BY <2>2
    <3> QED
      BY <1>3, <1>6, <2>1, <2>2, <3>1, Zenon
  <2>3. CASE op.todo = <<p>> /\ HeldIds = {s.id}
    <3>1. Head(op.todo) = p /\ Tail(op.todo) = <<>>
      BY <2>3
    <3>2. HeldIds' = {s.id, p.id}
      BY <1>6, <2>3, <3>1, Zenon
    <3> QED
      BY <1>3, <2>1, <3>1, <3>2, Zenon
  <2> QED
    BY <2>1, <2>2, <2>3, Zenon
<1>10. About'
  BY <1>8, <1>9, Zenon DEF About
<1>11. Claimed'
  BY Zenon DEF OpInv, Claimed
<1> QED
  BY <1>1, <1>3, <1>6, <1>7, <1>10, <1>11, Zenon DEF OpInv, Rooted

\* A step that writes the operation's rows, and has workers for them or releases them.
LEMMA Resettles ==
  ASSUME OpInv, op' = NoOp, NEW n, n = op.node, NEW on \in BOOLEAN, NEW ids, NEW table, DOMAIN table = Ids,
         \A k, l : Has(k, l) => Has(k, l)',
         on => \A i \in ids : Has(n, i)',
         rows' = IF on THEN table ELSE Releases(n, ids, table),
         \A i \in Ids : table[i] = rows[i] \/ ~table[i].there \/ (i \in ids /\ table[i].owner = n),
         \A i \in HeldIds : i \in ids \/ ~table[i].there
  PROVE  /\ DOMAIN rows' = Ids
         /\ \A i \in Ids : rows'[i].there = table[i].there
         /\ Worked => Worked'
<1>1. /\ DOMAIN rows' = Ids
      /\ \A i \in Ids : rows'[i].there = table[i].there
      /\ \A i \in Ids : rows'[i].owner \in Node =>
           rows'[i].owner = table[i].owner /\ (on \/ ~(i \in ids /\ table[i].owner = n))
  <2>1. CASE on
    BY <2>1, Zenon
  <2>2. CASE ~on
    BY <2>2, Released, Zenon DEF Releases
  <2> QED
    BY <2>1, <2>2, Zenon
<1>2. ASSUME Worked, NEW i \in Ids, NEW m \in Node, rows'[i].there, rows'[i].owner = m
      PROVE  Has(m, i)'
  <2>1. table[i].there /\ table[i].owner = m /\ (on \/ ~(i \in ids /\ m = n))
    BY <1>1, <1>2, Zenon
  <2>2. CASE i \in ids /\ m = n
    BY <2>1, <2>2, Zenon
  <2>3. CASE ~(i \in ids /\ m = n)
    <3>1. rows[i].there /\ rows[i].owner = m
      BY <2>1, <2>3, Zenon
    <3>2. ~(op.node = m /\ i \in HeldIds)
      BY <2>1, <2>3, Zenon
    <3> QED
      BY <1>2, <3>1, <3>2, Zenon DEF Worked
  <2> QED
    BY <2>2, <2>3, Zenon
<1> QED
  BY <1>1, <1>2, Zenon DEF Worked

\* Operations leave faults alone, so each step has both to show.
Keeps == OpInv' /\ (Worked => Worked')

\* An operation that gives everything back keeps the invariants.
LEMMA KeepsGivenBack ==
  ASSUME OpInv, op.kind # "none", NEW tokens, GiveBack(tokens), UNCHANGED <<initialSegments, up, rounds, faults>>,
         claims' \subseteq claims, \A c \in claims' : ~c.operation
  PROVE  Keeps
<1>1. /\ op' = NoOp /\ DOMAIN rows' = Ids
      /\ \A i \in Ids : rows'[i].there = rows[i].there
      /\ Worked => Worked'
  BY GivesBack, Zenon DEF GiveBack
<1>2. rows'[0].there
  BY <1>1, UnderWay, ZeroIsAnId, Zenon
<1>3. OpInv'
  BY <1>1, <1>2, OpGone, Zenon
<1> QED
  BY <1>1, <1>3, Zenon DEF Keeps

\* holdForOperation of a segment that has a worker.
LEMMA KeepsTaken ==
  ASSUME OpInv, TakeFromWorker
  PROVE  Keeps
<1>1. PICK w \in workers :
       /\ w.node = op.node /\ w.segment.id = Head(op.todo).id /\ w.current
       /\ workers' = workers \ {w}
       /\ rows' = IF w.unwritten /\ Stores(w.node, w.segment.id)
                    THEN [rows EXCEPT ![w.segment.id] = StoredRow(w.node, w.token)]
                    ELSE rows
       /\ op' = [op EXCEPT !.todo = Tail(@),
                           !.held = @ \cup {[segment |-> Head(op.todo), how |-> "held", known |-> w.token]}]
  BY Zenon DEF TakeFromWorker
<1>2. op.todo # <<>> /\ UNCHANGED <<initialSegments, up, rounds, faults, claims>> /\ ~\E c \in claims : c.operation
  BY Zenon DEF TakeFromWorker, Kept
<1>3. PICK h : h = [segment |-> Head(op.todo), how |-> "held", known |-> w.token]
  BY Zenon
<1>4. h.segment = Head(op.todo) /\ h.how \in {"held", "claimed"}
  BY <1>3, Zenon
<1>5. op' = [op EXCEPT !.todo = Tail(@), !.held = @ \cup {h}]
  BY <1>1, <1>3, Zenon
<1>6. StoredRow(w.node, w.token).there = TRUE /\ StoredRow(w.node, w.token).owner = w.node
  BY Zenon DEF StoredRow
<1>7. /\ DOMAIN rows' = Ids
      /\ \A i \in Ids : \/ rows'[i] = rows[i]
                        \/ Stores(w.node, i) /\ rows'[i] = StoredRow(w.node, w.token)
  BY <1>1, Zenon DEF OpInv, Typed
<1>8. \A i \in Ids : rows'[i].there = rows[i].there /\ rows'[i].owner = rows[i].owner
  BY <1>6, <1>7, Zenon DEF Stores
<1>9. rows'[0].there
  BY <1>2, <1>8, WorkUnderWay, ZeroIsAnId, Zenon
<1>10. OpInv' /\ op'.node = op.node /\ HeldIds' = HeldIds \cup {Head(op.todo).id}
  BY <1>2, <1>4, <1>5, <1>7, <1>9, Takes, Zenon
<1>11. \A m, i : Has(m, i) => Has(m, i)' \/ (m = w.node /\ i = w.segment.id)
  BY <1>1, Zenon DEF Has
<1>12. ASSUME Worked, NEW i \in Ids, NEW m \in Node, rows'[i].there, rows'[i].owner = m
       PROVE  Has(m, i)' \/ (op'.node = m /\ i \in HeldIds')
  <2>1. Has(m, i) \/ (op.node = m /\ i \in HeldIds)
    BY <1>8, <1>12, Zenon DEF Worked
  <2> QED
    BY <1>1, <1>10, <1>11, <2>1, Zenon
<1>13. Worked => Worked'
  BY <1>12, Zenon DEF Worked
<1> QED
  BY <1>10, <1>13, Zenon DEF Keeps

\* The SELECT of an operation's claim.
LEMMA KeepsClaiming ==
  ASSUME OpInv, ClaimForOperation
  PROVE  Keeps
<1>1. /\ op.todo # <<>> /\ UNCHANGED <<initialSegments, up, rounds, faults>>
      /\ ~\E c \in claims : c.operation
  BY Zenon DEF ClaimForOperation, Kept
<1>2. op.kind # "none" /\ rows[0].there
  BY <1>1, WorkUnderWay, Zenon
<1>3. CASE GiveBack({}) /\ UNCHANGED claims
  BY <1>1, <1>2, <1>3, KeepsGivenBack, Zenon
<1>4. CASE ~(GiveBack({}) /\ UNCHANGED claims)
  <2>1. PICK d : d = [node |-> op.node, segment |-> Head(op.todo), row |-> rows[Head(op.todo).id], operation |-> TRUE]
    BY Zenon
  <2>2. claims' = claims \cup {d} /\ UNCHANGED <<rows, workers, op>>
    BY <1>4, <2>1, Zenon DEF ClaimForOperation
  <2>3. d.node = op.node /\ d.segment = Head(op.todo)
    BY <2>1, Zenon
  <2>4. Claimed'
    BY <1>1, <1>2, <2>2, <2>3, Zenon DEF OpInv, Claimed, Sound
  <2>5. Typed'
    BY <1>1, <2>2, Zenon DEF OpInv, Typed
  <2>6. Sound' /\ About'
    BY <1>1, <2>2, Zenon DEF OpInv, Sound, About, HeldIds
  <2>7. Rooted'
    BY <1>2, <2>2, Zenon DEF Rooted
  <2>8. Worked => Worked'
    BY <2>2, Zenon DEF Worked, Has, HeldIds
  <2> QED
    BY <2>4, <2>5, <2>6, <2>7, <2>8, Zenon DEF Keeps, OpInv
<1> QED
  BY <1>3, <1>4, Zenon

\* ... and its second statement.
LEMMA KeepsClaimed ==
  ASSUME OpInv, NEW c \in claims, ClaimedForOperation(c)
  PROVE  Keeps
<1>1. c.operation /\ claims' = claims \ {c} /\ UNCHANGED <<initialSegments, up, rounds, faults>>
  BY Zenon DEF ClaimedForOperation, Kept
<1>2. /\ claims' \subseteq claims /\ \A d \in claims' : ~d.operation
      /\ op.kind # "none" /\ c.node = op.node /\ op.todo # <<>> /\ c.segment = Head(op.todo)
  BY <1>1, Zenon DEF OpInv, Claimed
<1>3. CASE GiveBack({})
  BY <1>1, <1>2, <1>3, KeepsGivenBack, Zenon
<1>4. CASE ~GiveBack({})
  <2>1. PICK h : h = [segment |-> c.segment, how |-> "claimed", known |-> c.row.token]
    BY Zenon
  <2>2. /\ rows' = [rows EXCEPT ![c.segment.id] = ClaimedRow(c)]
        /\ op' = [op EXCEPT !.todo = Tail(@), !.held = @ \cup {h}]
        /\ UNCHANGED workers
    BY <1>4, <2>1, Zenon DEF ClaimedForOperation
  <2>3. h.segment = Head(op.todo) /\ h.how \in {"held", "claimed"}
    BY <1>2, <2>1, Zenon
  <2>4. PICK i : i = c.segment.id
    BY Zenon
  <2>5. DOMAIN rows' = Ids /\ \A j \in Ids : rows'[j] = rows[j] \/ (j = i /\ rows'[j] = ClaimedRow(c))
    BY <2>2, <2>4, Zenon DEF OpInv, Typed
  <2>6. \/ ClaimedRow(c).there /\ ClaimedRow(c).owner = c.node
        \/ ClaimedRow(c) = rows[i] /\ ~rows[i].there
    BY <2>4, ClaimLands, Zenon
  <2>7. rows'[0].there
    BY <1>2, <2>5, <2>6, UnderWay, ZeroIsAnId, Zenon
  <2>8. OpInv' /\ op'.node = op.node /\ HeldIds' = HeldIds \cup {Head(op.todo).id}
    BY <1>1, <1>2, <2>2, <2>3, <2>5, <2>7, Takes, Zenon
  <2>9. i \in HeldIds' /\ HeldIds \subseteq HeldIds'
    BY <1>2, <2>4, <2>8, Zenon
  <2>10. ASSUME Worked, NEW j \in Ids, NEW m \in Node, rows'[j].there, rows'[j].owner = m
         PROVE  Has(m, j)' \/ (op'.node = m /\ j \in HeldIds')
    <3>1. CASE rows'[j] = rows[j]
      <4>1. Has(m, j) \/ (op.node = m /\ j \in HeldIds)
        BY <2>10, <3>1, Zenon DEF Worked
      <4> QED
        BY <2>2, <2>8, <2>9, <4>1, Zenon DEF Has
    <3>2. CASE j = i /\ rows'[j] = ClaimedRow(c) /\ rows'[j] # rows[j]
      BY <1>2, <2>6, <2>8, <2>9, <2>10, <3>2, Zenon
    <3> QED
      BY <2>5, <3>1, <3>2, Zenon
  <2>11. Worked => Worked'
    BY <2>10, Zenon DEF Worked
  <2> QED
    BY <2>8, <2>11, Zenon DEF Keeps
<1> QED
  BY <1>3, <1>4, Zenon

\* An operation begins with nothing held.
LEMMA KeepsBegun ==
  ASSUME OpInv, NEW kind, NEW n \in Node, NEW s, NEW todo, Begin(kind, n, s, todo), up[n] # "dead", kind # "none",
         kind = "split" => todo = <<s>>,
         kind = "merge" => \E a, b \in Segment : a.id # b.id /\ todo = <<a, b>>
  PROVE  Keeps
<1>1. op' = [kind |-> kind, node |-> n, segment |-> s, todo |-> todo, held |-> {}, tokens |-> {}, read |-> FALSE]
  BY Zenon DEF Begin
<1>2. op = NoOp /\ SegmentIds # {} /\ UNCHANGED vars
  BY Zenon DEF Begin, OpInv, Sound
<1>3. UNCHANGED <<initialSegments, rows, up, rounds, claims, workers, faults>>
  BY <1>2, Zenon DEF vars, claimVars
<1>4. /\ op'.kind = kind /\ op'.node = n /\ op'.segment = s /\ op'.todo = todo
      /\ op'.held = {} /\ op'.tokens = {} /\ op'.read = FALSE
  BY <1>1, Zenon
<1>5. HeldIds = {} /\ HeldIds' = {}
  BY <1>2, <1>4, NoOpFields, Zenon DEF HeldIds
<1>6. Sound'
  BY <1>1, <1>3, <1>4, Zenon DEF Sound
<1>7. About'
  BY <1>4, <1>5, Zenon DEF About
<1>8. \A c \in claims : ~c.operation
  BY <1>2, NoOpFields, Zenon DEF OpInv, Claimed
<1>9. Claimed'
  BY <1>3, <1>8, Zenon DEF OpInv, Claimed
<1>10. Rooted'
  BY <1>2, <1>3, Zenon DEF OpInv, Rooted, Bare
<1>11. Typed'
  BY <1>3, Zenon DEF OpInv, Typed
<1>12. Worked => Worked'
  <2>1. \A m, i : Has(m, i) => Has(m, i)'
    BY <1>3, Zenon DEF Has
  <2> QED
    BY <1>3, <1>5, <2>1, Zenon DEF Worked
<1> QED
  BY <1>6, <1>7, <1>9, <1>10, <1>11, <1>12, Zenon DEF Keeps, OpInv

\* splitSegment.
LEMMA KeepsSplitBegun ==
  ASSUME OpInv, NEW n \in Node, NEW s \in Segment, BeginSplit(n, s)
  PROVE  Keeps
<1>1. Begin("split", n, s, <<s>>) /\ up[n] # "dead"
  BY Zenon DEF BeginSplit
<1>2. "split" # "none" /\ "split" # "merge"
  BY Zenon
<1> QED
  BY <1>1, <1>2, KeepsBegun, Zenon

\* mergeSegment: the two halves have different ids.
LEMMA KeepsMergeBegun ==
  ASSUME OpInv, NEW n \in Node, NEW s \in Segment, BeginMerge(n, s)
  PROVE  Keeps
<1>1. PICK p : p = [id |-> MergeableSegmentId(s), mask |-> s.mask]
  BY Zenon
<1>2. p \in SegmentsOf(SegmentIds) /\ Begin("merge", n, s, <<s, p>>) /\ up[n] # "dead" /\ s.mask # 0
  BY <1>1, Zenon DEF BeginMerge
<1>3. p \in Segment
  BY <1>2, Zenon DEF SegmentsOf
<1>4. s.id # p.id
  <2>1. s.mask \in Nat /\ s.id \in Nat
    <3>1. s.id \in Ids /\ s.mask \in Masks /\ \A k \in 0..Depth : 2^k > 0 /\ 2^k \in Nat
      BY PowersAssumption, DepthAssumption DEF Segment
    <3> QED
      BY <3>1 DEF Masks, Ids
  <2>2. HalfBit(s) \in Nat /\ HalfBit(s) > 0
    BY <1>2, <2>1 DEF HalfBit
  <2>3. MergeableSegmentId(s) # s.id
    BY <2>1, <2>2 DEF MergeableSegmentId
  <2> QED
    BY <1>1, <2>3, Zenon
<1>5. "merge" # "none" /\ "merge" # "split"
  BY Zenon
<1> QED
  BY <1>2, <1>3, <1>4, <1>5, KeepsBegun, Zenon

\* resetTokens.
LEMMA KeepsResetBegun ==
  ASSUME OpInv, NEW n \in Node, BeginReset(n)
  PROVE  Keeps
<1>1. PICK todo : Begin("reset", n, [id |-> 0, mask |-> 0], todo)
  BY Zenon DEF BeginReset
<1>2. PICK s : s = [id |-> 0, mask |-> 0]
  BY Zenon
<1>3. Begin("reset", n, s, todo)
  BY <1>1, <1>2, Zenon
<1>4. "reset" # "none" /\ "reset" # "split" /\ "reset" # "merge" /\ up[n] # "dead"
  BY Zenon DEF BeginReset
<1> QED
  BY <1>3, <1>4, KeepsBegun, Zenon

\* The operation with its tokens read.
LEMMA ReadFields ==
  ASSUME Sound, NEW tokens, op' = [op EXCEPT !.tokens = tokens, !.read = TRUE]
  PROVE  op' = [kind |-> op.kind, node |-> op.node, segment |-> op.segment, todo |-> op.todo,
                held |-> op.held, tokens |-> tokens, read |-> TRUE]
<1>1. op = [kind |-> op.kind, node |-> op.node, segment |-> op.segment, todo |-> op.todo,
            held |-> op.held, tokens |-> op.tokens, read |-> op.read]
  BY Zenon DEF Sound
<1>2. DOMAIN op = {"kind", "node", "segment", "todo", "held", "tokens", "read"}
  BY <1>1, Zenon
<1>3. PICK o : o = op
  BY Zenon
<1>4. o = [x \in {"kind", "node", "segment", "todo", "held", "tokens", "read"} |-> o[x]]
  BY <1>1, <1>2, <1>3, Zenon
<1> QED
  BY <1>2, <1>3, <1>4, Zenon

\* What is read is what is held.
LEMMA KeepsRead ==
  ASSUME OpInv, ReadTokens
  PROVE  Keeps
<1>1. PICK tokens : tokens = {[id |-> h.segment.id, token |-> rows[h.segment.id].token] : h \in op.held}
  BY Zenon
<1>2. /\ op.kind # "none" /\ op.todo = <<>> /\ ~op.read
      /\ UNCHANGED <<claims, initialSegments, up, rounds, faults>>
  BY Zenon DEF ReadTokens, Kept
<1>3. \/ GiveBack(tokens)
      \/ op' = [op EXCEPT !.tokens = tokens, !.read = TRUE] /\ UNCHANGED <<rows, workers>>
  BY <1>1, Zenon DEF ReadTokens, GiveBack
<1>4. \A c \in claims : ~c.operation
  BY <1>2, Zenon DEF OpInv, Claimed
<1>5. CASE GiveBack(tokens)
  BY <1>2, <1>4, <1>5, KeepsGivenBack, Zenon DEF GiveBack
<1>6. CASE op' = [op EXCEPT !.tokens = tokens, !.read = TRUE] /\ UNCHANGED <<rows, workers>>
  <2>1. op' = [kind |-> op.kind, node |-> op.node, segment |-> op.segment, todo |-> op.todo,
               held |-> op.held, tokens |-> tokens, read |-> TRUE]
    BY <1>6, ReadFields, Zenon DEF OpInv
  <2>2. /\ op'.kind = op.kind /\ op'.node = op.node /\ op'.segment = op.segment /\ op'.todo = op.todo
        /\ op'.held = op.held /\ op'.tokens = tokens /\ op'.read = TRUE
    BY <2>1, Zenon
  <2>3. op' = [kind |-> op'.kind, node |-> op'.node, segment |-> op'.segment, todo |-> op'.todo,
               held |-> op'.held, tokens |-> op'.tokens, read |-> op'.read]
    BY <2>1, <2>2, Zenon
  <2>4. HeldIds' = HeldIds
    BY <2>2, Zenon DEF HeldIds
  <2>5. {t.id : t \in tokens} = HeldIds
    <3>1. ASSUME NEW t \in tokens PROVE t.id \in HeldIds
      <4>1. PICK h \in op.held : t = [id |-> h.segment.id, token |-> rows[h.segment.id].token]
        BY <1>1, Zenon
      <4>2. t.id = h.segment.id
        BY <4>1, Zenon
      <4> QED
        BY <4>2, Zenon DEF HeldIds
    <3>2. ASSUME NEW h \in op.held PROVE \E t \in tokens : t.id = h.segment.id
      <4>1. PICK t : t = [id |-> h.segment.id, token |-> rows[h.segment.id].token]
        BY Zenon
      <4>2. t \in tokens /\ t.id = h.segment.id
        BY <1>1, <4>1, Zenon
      <4> QED
        BY <4>2, Zenon
    <3> QED
      BY <3>1, <3>2, Zenon DEF HeldIds
  <2>6. Sound'
    BY <1>2, <2>2, <2>3, <2>4, <2>5, Zenon DEF OpInv, Sound
  <2>7. About'
    BY <2>2, <2>4, Zenon DEF OpInv, About
  <2>8. Claimed' /\ Typed'
    BY <1>2, <1>4, <1>6, Zenon DEF OpInv, Claimed, Typed
  <2>9. Rooted'
    BY <1>2, <1>6, UnderWay, Zenon DEF Rooted
  <2>10. Worked => Worked'
    BY <1>6, <2>2, <2>4, Zenon DEF Worked, Has
  <2> QED
    BY <2>6, <2>7, <2>8, <2>9, <2>10, Zenon DEF Keeps, OpInv
<1> QED
  BY <1>3, <1>5, <1>6, Zenon

\* What a split that is not refused writes, and the workers it starts.
SplitInto(n, first, second, token, table, R, on) ==
  /\ n = op.node /\ first = FirstHalf(op.segment) /\ second = SecondHalf(op.segment)
  /\ token = TokenOf(op.segment)
  /\ table = [rows EXCEPT ![second.id] = StoredRow(n, token)]
  /\ R = {[segment |-> s, token |-> token] : s \in {first, second}}
  /\ on \in BOOLEAN /\ on = (up[n] = "running")
  /\ workers' = IF on THEN WithWorkers({StartedWorker(n, s.segment, s.token) : s \in R}) ELSE workers
  /\ rows' = IF on THEN table ELSE Releases(n, {first.id, second.id}, table)
  /\ op' = NoOp

\* A split is refused, or writes the second half's row.
LEMMA SplitWrites ==
  ASSUME Split, ~GiveBack(op.tokens)
  PROVE  \E n, first, second, token, table, R, on : SplitInto(n, first, second, token, table, R, on)
<1>1. PICK n, first, second : n = op.node /\ first = FirstHalf(op.segment) /\ second = SecondHalf(op.segment)
  BY Zenon
<1>2. PICK token : token = TokenOf(op.segment)
  BY Zenon
<1>3. PICK table : table = [rows EXCEPT ![second.id] = StoredRow(n, token)]
  BY Zenon
<1>4. PICK on \in BOOLEAN : on = (up[n] = "running")
  BY Zenon
<1>5. PICK R : R = {[segment |-> s, token |-> token] : s \in {first, second}}
  BY Zenon
<1>6. /\ op' = NoOp
      /\ Resume(n, {[segment |-> s, token |-> token] : s \in {first, second}})
      /\ rows' = IF up[n] = "running" THEN table ELSE Releases(n, {first.id, second.id}, table)
  BY <1>1, <1>2, <1>3 DEF Split, Resume, Releases
<1>7. Resume(n, R)
  BY <1>5, <1>6, Zenon
<1>8. workers' = IF on THEN WithWorkers({StartedWorker(n, s.segment, s.token) : s \in R}) ELSE workers
  BY <1>4, <1>7, Zenon DEF Resume
<1>9. rows' = IF on THEN table ELSE Releases(n, {first.id, second.id}, table)
  BY <1>4, <1>6, Zenon
<1>10. SplitInto(n, first, second, token, table, R, on)
  BY <1>1, <1>2, <1>3, <1>4, <1>5, <1>6, <1>8, <1>9, Zenon DEF SplitInto, WithWorkers, Releases
<1> QED
  BY <1>10, Zenon

\* Each half of the segment split is worked, or both are released.
LEMMA KeepsSplit ==
  ASSUME OpInv, Split
  PROVE  Keeps
<1>4. op.kind = "split" /\ op.read /\ UNCHANGED <<claims, initialSegments, up, rounds, faults>>
  BY Zenon DEF Split, Kept
<1>5. \A c \in claims : ~c.operation
  BY <1>4, Zenon DEF OpInv, Claimed, Sound
<1>6. op.kind # "none" /\ rows[0].there
  BY <1>4, WorkUnderWay, Zenon
<1>7. CASE GiveBack(op.tokens)
  <2>1. PICK tokens : tokens = op.tokens
    BY Zenon
  <2>2. GiveBack(tokens)
    BY <1>7, <2>1, Zenon DEF GiveBack
  <2> QED
    BY <1>4, <1>5, <1>6, <2>2, KeepsGivenBack, Zenon DEF GiveBack
<1>8. CASE ~GiveBack(op.tokens)
  <2>1. PICK n, first, second, token, table, R, on : SplitInto(n, first, second, token, table, R, on)
    BY <1>8, SplitWrites, Zenon
  <2>2. /\ n = op.node /\ first = FirstHalf(op.segment)
        /\ table = [rows EXCEPT ![second.id] = StoredRow(n, token)]
        /\ R = {[segment |-> s, token |-> token] : s \in {first, second}} /\ on \in BOOLEAN
    BY <2>1, Zenon DEF SplitInto
  <2>3. /\ op' = NoOp
        /\ workers' = IF on THEN WithWorkers({StartedWorker(n, s.segment, s.token) : s \in R}) ELSE workers
        /\ rows' = IF on THEN table ELSE Releases(n, {first.id, second.id}, table)
    BY <2>1, Zenon DEF SplitInto, WithWorkers, Releases
  <2>4. /\ \A k, l : Has(k, l) => Has(k, l)'
        /\ on => \A s \in R : Has(n, s.segment.id)'
    BY <2>3, Resumed, Zenon
  <2>5. on => \A i \in {first.id, second.id} : Has(n, i)'
    <3>1. \A x, y : [segment |-> x, token |-> y].segment = x
      BY Zenon
    <3>2. \A x \in {first, second} : \E s \in R : s.segment = x
      BY <2>2, <3>1, Zenon
    <3> QED
      BY <2>4, <3>2, Zenon
  <2>6. StoredRow(n, token).there = TRUE /\ StoredRow(n, token).owner = n
    BY Zenon DEF StoredRow
  <2>7. /\ DOMAIN table = Ids
        /\ \A i \in Ids : table[i] = rows[i] \/ (i = second.id /\ table[i] = StoredRow(n, token))
    BY <2>2, Zenon DEF OpInv, Typed
  <2>8. \A i \in HeldIds : i = first.id
    <3>1. first.id = op.segment.id
      BY <2>2, Zenon DEF FirstHalf
    <3> QED
      BY <1>4, <3>1, Zenon DEF OpInv, About
  <2>9. /\ DOMAIN rows' = Ids
        /\ \A i \in Ids : rows'[i].there = table[i].there
        /\ Worked => Worked'
    <3>1. PICK ids : ids = {first.id, second.id}
      BY Zenon
    <3>2. rows' = IF on THEN table ELSE Releases(n, ids, table)
      BY <2>3, <3>1, Zenon
    <3>3. \A i \in Ids : table[i] = rows[i] \/ ~table[i].there \/ (i \in ids /\ table[i].owner = n)
      BY <2>6, <2>7, <3>1, Zenon
    <3>4. \A i \in HeldIds : i \in ids \/ ~table[i].there
      BY <2>8, <3>1, Zenon
    <3>5. on => \A i \in ids : Has(n, i)'
      BY <2>5, <3>1, Zenon
    <3>6. n = op.node /\ on \in BOOLEAN
      BY <2>2, Zenon
    <3> QED
      BY <2>3, <2>4, <2>7, <3>2, <3>3, <3>4, <3>5, <3>6, Resettles, Zenon
  <2>10. rows'[0].there
    BY <1>6, <2>6, <2>7, <2>9, ZeroIsAnId, Zenon
  <2>11. OpInv'
    BY <1>4, <1>5, <2>3, <2>9, <2>10, OpGone, Zenon
  <2> QED
    BY <2>9, <2>11, Zenon DEF Keeps
<1> QED
  BY <1>7, <1>8, Zenon

\* Of two ids one is kept and the other, which is not 0, is dropped.
LEMMA KeptAndDropped ==
  ASSUME NEW a \in Ids, NEW b \in Ids, a # b, NEW ids, ids = {a, b}, NEW drop, drop = CHOOSE i \in ids : i # KeptId(ids)
  PROVE  KeptId(ids) \in ids /\ drop \in ids /\ drop # KeptId(ids) /\ drop # 0 /\ ids = {KeptId(ids), drop}
<1>1. a \in Nat /\ b \in Nat
  BY PowersAssumption, DepthAssumption DEF Ids
<1>2. \E x \in ids : \A y \in ids : x <= y
  BY <1>1
<1>3. KeptId(ids) \in ids /\ \A y \in ids : KeptId(ids) <= y
  BY <1>2, Zenon DEF KeptId, Min
<1>4. drop \in ids /\ drop # KeptId(ids)
  <2>1. \E i \in ids : i # KeptId(ids)
    BY Zenon
  <2> QED
    BY <2>1, Zenon
<1> QED
  BY <1>1, <1>3, <1>4

\* What a merge that is not refused writes, and the worker it starts.
MergeInto(n, ids, keep, drop, token, table, r, on) ==
  /\ n = op.node /\ ids = {t.id : t \in op.tokens}
  /\ keep = KeptId(ids) /\ drop = CHOOSE i \in ids : i # KeptId(ids)
  /\ token = MergedToken(op.segment.mask, {[segment |-> t.id, at |-> t.token.at] : t \in op.tokens})
  /\ table = [rows EXCEPT ![keep] = StoredRow(n, token), ![drop] = NoRow]
  /\ r = [segment |-> [id |-> keep, mask |-> op.segment.mask \div 2], token |-> token]
  /\ on \in BOOLEAN /\ on = (up[n] = "running")
  /\ workers' = IF on THEN WithWorkers({StartedWorker(n, s.segment, s.token) : s \in {r}}) ELSE workers
  /\ rows' = IF on THEN table ELSE Releases(n, {keep}, table)
  /\ op' = NoOp

\* A merge is refused, or writes the one row and drops the other.
LEMMA MergeWrites ==
  ASSUME Merge, ~GiveBack(op.tokens)
  PROVE  \E n, ids, keep, drop, token, table, r, on : MergeInto(n, ids, keep, drop, token, table, r, on)
<1> DEFINE IdsRead == {t.id : t \in op.tokens}
           Kept0 == KeptId(IdsRead)
           Dropped0 == CHOOSE i \in IdsRead : i # Kept0
           Token0 == MergedToken(op.segment.mask, {[segment |-> t.id, at |-> t.token.at] : t \in op.tokens})
           Table0 == [rows EXCEPT ![Kept0] = StoredRow(op.node, Token0), ![Dropped0] = NoRow]
           Written ==
             /\ Resume(op.node, {[segment |-> [id |-> Kept0, mask |-> op.segment.mask \div 2], token |-> Token0]})
             /\ rows' = IF up[op.node] = "running" THEN Table0 ELSE Releases(op.node, {Kept0}, Table0)
             /\ op' = NoOp
<1>1. Written
  BY Zenon DEF Merge
<1>2. PICK n, ids, token : n = op.node /\ ids = IdsRead /\ token = Token0
  BY Zenon
<1>3. token = MergedToken(op.segment.mask, {[segment |-> t.id, at |-> t.token.at] : t \in op.tokens})
  BY <1>2, Zenon
<1> HIDE DEF Token0
<1>4. PICK keep, drop : keep = KeptId(ids) /\ drop = CHOOSE i \in ids : i # KeptId(ids)
  BY Zenon
<1>5. PICK table : table = [rows EXCEPT ![keep] = StoredRow(n, token), ![drop] = NoRow]
  BY Zenon
<1>6. PICK on \in BOOLEAN : on = (up[n] = "running")
  BY Zenon
<1>7. PICK r : r = [segment |-> [id |-> keep, mask |-> op.segment.mask \div 2], token |-> token]
  BY Zenon
<1>8. keep = Kept0 /\ drop = Dropped0
  BY <1>2, <1>4, Zenon
<1>9. table = Table0
  BY <1>2, <1>5, <1>8, Zenon
<1> HIDE DEF Kept0, Table0
<1>10. op' = NoOp /\ rows' = IF up[n] = "running" THEN table ELSE Releases(n, {keep}, table)
  BY <1>1, <1>2, <1>8, <1>9, Zenon DEF Releases
<1>11. Resume(n, {r})
  BY <1>1, <1>2, <1>7, <1>8, Zenon DEF Resume
<1>12. workers' = IF on THEN WithWorkers({StartedWorker(n, s.segment, s.token) : s \in {r}}) ELSE workers
  BY <1>6, <1>11, Zenon DEF Resume
<1>13. rows' = IF on THEN table ELSE Releases(n, {keep}, table)
  BY <1>6, <1>10, Zenon
<1>14. MergeInto(n, ids, keep, drop, token, table, r, on)
  BY <1>2, <1>3, <1>4, <1>5, <1>6, <1>7, <1>10, <1>12, <1>13, Zenon DEF MergeInto, WithWorkers, Releases
<1> QED
  BY <1>14, Zenon

\* The row that is kept is worked or released; the row of id 0 is never dropped.
LEMMA KeepsMerged ==
  ASSUME OpInv, Merge
  PROVE  Keeps
<1>1. op.kind = "merge" /\ op.read /\ UNCHANGED <<claims, initialSegments, up, rounds, faults>>
  BY Zenon DEF Merge, Kept
<1>2. (\A c \in claims : ~c.operation) /\ op.todo = <<>> /\ {t.id : t \in op.tokens} = HeldIds
  BY <1>1, Zenon DEF OpInv, Claimed, Sound
<1>3. op.kind # "none" /\ rows[0].there
  BY <1>1, WorkUnderWay, Zenon
<1>4. CASE GiveBack(op.tokens)
  <2>1. PICK tokens : tokens = op.tokens
    BY Zenon
  <2>2. GiveBack(tokens)
    BY <1>4, <2>1, Zenon DEF GiveBack
  <2> QED
    BY <1>1, <1>2, <1>3, <2>2, KeepsGivenBack, Zenon DEF GiveBack
<1>5. CASE ~GiveBack(op.tokens)
  <2>1. PICK n, ids, keep, drop, token, table, r, on : MergeInto(n, ids, keep, drop, token, table, r, on)
    BY <1>5, MergeWrites, Zenon
  <2>2. /\ n = op.node /\ ids = HeldIds /\ keep = KeptId(ids) /\ drop = CHOOSE i \in ids : i # KeptId(ids)
        /\ table = [rows EXCEPT ![keep] = StoredRow(n, token), ![drop] = NoRow]
        /\ r = [segment |-> [id |-> keep, mask |-> op.segment.mask \div 2], token |-> token]
        /\ on \in BOOLEAN
    BY <1>2, <2>1, Zenon DEF MergeInto
  <2>3. /\ op' = NoOp
        /\ workers' = IF on THEN WithWorkers({StartedWorker(n, s.segment, s.token) : s \in {r}}) ELSE workers
        /\ rows' = IF on THEN table ELSE Releases(n, {keep}, table)
    BY <2>1, Zenon DEF MergeInto, WithWorkers, Releases
  <2>4. /\ \A k, l : Has(k, l) => Has(k, l)'
        /\ on => \A s \in {r} : Has(n, s.segment.id)'
    BY <2>3, Resumed, Zenon
  <2>5. on => \A i \in {keep} : Has(n, i)'
    <3>1. r.segment.id = keep
      BY <2>2, Zenon
    <3> QED
      BY <2>4, <3>1, Zenon
  <2>6. StoredRow(n, token).there = TRUE /\ StoredRow(n, token).owner = n /\ NoRow.there = FALSE
    BY Zenon DEF StoredRow, NoRow
  <2>7. PICK a \in Segment, b \in Segment : a.id # b.id /\ HeldIds = {a.id, b.id}
    <3>1. \A x, y : <<x, y>> # <<>> /\ <<y>> # <<>>
      BY Zenon
    <3> QED
      BY <1>1, <1>2, <3>1, Zenon DEF OpInv, About
  <2>8. a.id \in Ids /\ b.id \in Ids
    BY Zenon DEF Segment
  <2>9. keep \in ids /\ drop \in ids /\ drop # keep /\ drop # 0 /\ ids = {keep, drop}
    <3>1. PICK x \in Ids, y \in Ids : x # y /\ ids = {x, y}
      BY <2>2, <2>7, <2>8, Zenon
    <3>2. keep = KeptId(ids) /\ drop = CHOOSE i \in ids : i # KeptId(ids)
      BY <2>2, Zenon
    <3> QED
      BY <3>1, <3>2, KeptAndDropped, Zenon
  <2>10. /\ DOMAIN table = Ids /\ table[drop] = NoRow /\ table[keep] = StoredRow(n, token)
         /\ \A i \in Ids : i # keep /\ i # drop => table[i] = rows[i]
    <3>1. keep \in Ids /\ drop \in Ids /\ DOMAIN rows = Ids
      BY <2>2, <2>7, <2>8, <2>9, Zenon DEF OpInv, Typed
    <3>2. table = [rows EXCEPT ![keep] = StoredRow(n, token), ![drop] = NoRow]
      BY <2>2, Zenon
    <3> QED
      BY <2>9, <3>1, <3>2, Zenon
  <2>11. /\ DOMAIN rows' = Ids
         /\ \A i \in Ids : rows'[i].there = table[i].there
         /\ Worked => Worked'
    <3>1. PICK one : one = {keep}
      BY Zenon
    <3>2. rows' = IF on THEN table ELSE Releases(n, one, table)
      BY <2>3, <3>1, Zenon
    <3>3. \A i \in Ids : table[i] = rows[i] \/ ~table[i].there \/ (i \in one /\ table[i].owner = n)
      BY <2>6, <2>10, <3>1, Zenon
    <3>4. \A i \in HeldIds : i \in one \/ ~table[i].there
      BY <2>2, <2>6, <2>9, <2>10, <3>1, Zenon
    <3>5. on => \A i \in one : Has(n, i)'
      BY <2>5, <3>1, Zenon
    <3>6. n = op.node /\ on \in BOOLEAN
      BY <2>2, Zenon
    <3> QED
      BY <2>3, <2>4, <2>10, <3>2, <3>3, <3>4, <3>5, <3>6, Resettles, Zenon
  <2>12. rows'[0].there
    BY <1>3, <2>6, <2>9, <2>10, <2>11, ZeroIsAnId, Zenon
  <2>13. OpInv'
    BY <1>1, <1>2, <2>3, <2>11, <2>12, OpGone, Zenon
  <2> QED
    BY <2>11, <2>13, Zenon DEF Keeps
<1> QED
  BY <1>4, <1>5, Zenon

\* What a reset writes, if it writes, and releases.
ResetInto(n, ids, table) ==
  /\ n = op.node /\ ids = {t.id : t \in op.tokens}
  /\ table = IF \A i \in ids : Stores(n, i)
               THEN [i \in Ids |->
                       IF i \in ids THEN StoredRow(n, ResetToken((CHOOSE t \in op.tokens : t.id = i).token)) ELSE rows[i]]
               ELSE rows
  /\ rows' = Releases(n, ids, table)

\* A reset is fenced, and releases what it held.
LEMMA ResetWrites ==
  ASSUME Reset
  PROVE  \E n, ids, table : ResetInto(n, ids, table)
<1>1. PICK n, ids : n = op.node /\ ids = {t.id : t \in op.tokens}
  BY Zenon
<1>2. PICK table :
        table = IF \A i \in ids : Stores(n, i)
                  THEN [i \in Ids |->
                          IF i \in ids THEN StoredRow(n, ResetToken((CHOOSE t \in op.tokens : t.id = i).token)) ELSE rows[i]]
                  ELSE rows
  BY Zenon
<1>3. rows' = Releases(n, ids, table)
  BY <1>1, <1>2, Zenon DEF Reset, Releases
<1>4. ResetInto(n, ids, table)
  BY <1>1, <1>2, <1>3, Zenon DEF ResetInto, Stores, Releases
<1> QED
  BY <1>4, Zenon

\* Everything that was reset is released.
LEMMA KeepsReset ==
  ASSUME OpInv, Reset
  PROVE  Keeps
<1>1. PICK n, ids, table : ResetInto(n, ids, table)
  BY ResetWrites, Zenon
<1>2. n = op.node /\ ids = {t.id : t \in op.tokens} /\ rows' = Releases(n, ids, table)
  BY <1>1, Zenon DEF ResetInto, Releases
<1>3. op.kind = "reset" /\ op.read /\ op' = NoOp /\ UNCHANGED <<claims, workers, initialSegments, up, rounds, faults>>
  BY Zenon DEF Reset, Kept
<1>4. table = IF \A i \in ids : Stores(n, i)
                THEN [i \in Ids |->
                        IF i \in ids THEN StoredRow(n, ResetToken((CHOOSE t \in op.tokens : t.id = i).token)) ELSE rows[i]]
                ELSE rows
  BY <1>1, Zenon DEF ResetInto, Stores
<1>5. (\A c \in claims : ~c.operation) /\ ids = HeldIds
  BY <1>2, <1>3, Zenon DEF OpInv, Claimed, Sound
<1>6. op.kind # "none" /\ rows[0].there
  BY <1>3, WorkUnderWay, Zenon
<1>7. \A t : StoredRow(n, t).there = TRUE /\ StoredRow(n, t).owner = n
  BY Zenon DEF StoredRow
<1>8. DOMAIN table = Ids /\ \A i \in Ids : table[i] = rows[i] \/ (i \in ids /\ \E t : table[i] = StoredRow(n, t))
  BY <1>4, Zenon DEF OpInv, Typed
<1>9. \A i \in Ids : table[i] = rows[i] \/ (i \in ids /\ table[i].there /\ table[i].owner = n)
  BY <1>7, <1>8, Zenon
<1>10. \A k, l : Has(k, l) => Has(k, l)'
  BY <1>3, Zenon DEF Has
<1>11. /\ DOMAIN rows' = Ids
       /\ \A i \in Ids : rows'[i].there = table[i].there
       /\ Worked => Worked'
  <2>1. PICK on \in BOOLEAN : ~on
    BY Zenon
  <2>2. rows' = IF on THEN table ELSE Releases(n, ids, table)
    BY <1>2, <2>1, Zenon
  <2>3. \A i \in Ids : table[i] = rows[i] \/ ~table[i].there \/ (i \in ids /\ table[i].owner = n)
    BY <1>9, Zenon
  <2>4. \A i \in HeldIds : i \in ids \/ ~table[i].there
    BY <1>5, Zenon
  <2>5. (on => \A i \in ids : Has(n, i)') /\ DOMAIN table = Ids
    BY <1>8, <2>1, Zenon
  <2> QED
    BY <1>2, <1>3, <1>10, <2>2, <2>3, <2>4, <2>5, Resettles, Zenon
<1>12. rows'[0].there
  BY <1>6, <1>9, <1>11, ZeroIsAnId, Zenon
<1>13. OpInv'
  BY <1>3, <1>5, <1>11, <1>12, OpGone, Zenon
<1> QED
  BY <1>11, <1>13, Zenon DEF Keeps

\* An operation's step is no fault, and keeps the invariants.
LEMMA OperationKeeps ==
  ASSUME OpInv, OperationStep
  PROVE  Keeps /\ UNCHANGED faults
<1>1. ASSUME NEW n \in Node, NEW s \in Segment, BeginSplit(n, s) PROVE Keeps /\ UNCHANGED faults
  BY <1>1, KeepsSplitBegun, Zenon DEF BeginSplit, Begin, vars, claimVars
<1>2. ASSUME NEW n \in Node, NEW s \in Segment, BeginMerge(n, s) PROVE Keeps /\ UNCHANGED faults
  BY <1>2, KeepsMergeBegun, Zenon DEF BeginMerge, Begin, vars, claimVars
<1>3. ASSUME NEW n \in Node, BeginReset(n) PROVE Keeps /\ UNCHANGED faults
  BY <1>3, KeepsResetBegun, Zenon DEF BeginReset, Begin, vars, claimVars
<1>4. CASE TakeFromWorker
  BY <1>4, KeepsTaken, Zenon DEF TakeFromWorker, Kept
<1>5. CASE ClaimForOperation
  BY <1>5, KeepsClaiming, Zenon DEF ClaimForOperation, Kept
<1>6. CASE ReadTokens
  BY <1>6, KeepsRead, Zenon DEF ReadTokens, Kept
<1>7. ASSUME NEW c \in claims, ClaimedForOperation(c) PROVE Keeps /\ UNCHANGED faults
  BY <1>7, KeepsClaimed, Zenon DEF ClaimedForOperation, Kept
<1>8. CASE Split
  BY <1>8, KeepsSplit, Zenon DEF Split, Kept
<1>9. CASE Merge
  BY <1>9, KeepsMerged, Zenon DEF Merge, Kept
<1>10. CASE Reset
  BY <1>10, KeepsReset, Zenon DEF Reset, Kept
<1> QED
  BY <1>1, <1>2, <1>3, <1>4, <1>5, <1>6, <1>7, <1>8, <1>9, <1>10, Zenon DEF OperationStep

\* What holds of the operations at all times.
OpIInv == OpInv /\ (faults = 0 => Worked)

\* Every step keeps the invariant.
LEMMA OpIInvStep ==
  ASSUME OpIInv, [OpNext]_allVars
  PROVE  OpIInv'
<1>1. CASE ClaimStep
  BY <1>1, OpInvClaimStep, WorkedClaimStep, Zenon DEF OpIInv
<1>2. CASE OperationStep
  BY <1>2, OperationKeeps, Zenon DEF OpIInv, Keeps
<1>3. CASE UNCHANGED allVars
  <2>1. UNCHANGED <<initialSegments, rows, up, rounds, claims, workers, faults, op>>
    BY <1>3, Zenon DEF allVars, opVars, vars, claimVars
  <2>2. HeldIds' = HeldIds
    BY <2>1, Zenon DEF HeldIds
  <2>3. Typed' /\ Claimed' /\ Rooted'
    BY <2>1, Zenon DEF OpIInv, OpInv, Typed, Claimed, Rooted, Bare, SegmentIds
  <2>4. Sound' /\ About'
    BY <2>1, <2>2, Zenon DEF OpIInv, OpInv, Sound, About
  <2>5. \A m, i : Has(m, i) => Has(m, i)'
    BY <2>1, Zenon DEF Has
  <2>6. Worked => Worked'
    BY <2>1, <2>2, <2>5, Zenon DEF Worked
  <2> QED
    BY <2>1, <2>3, <2>4, <2>6, Zenon DEF OpIInv, OpInv
<1> QED
  BY <1>1, <1>2, <1>3, Zenon DEF OpNext

\* The inductive invariant of the operations: an operation under way belongs to
\* a live node, holds what it is about and has at most one claim in flight, the
\* row of the segment 0 is never without its token once segmentsNow has set the
\* rows up, and without faults every owned row is worked.
THEOREM OperationsInductive == OpSpec => []OpIInv
<1>1. OpInit => OpIInv
  <2> SUFFICES ASSUME OpInit PROVE OpIInv
    BY Zenon
  <2>1. OpInv /\ ClaimsAreWorked
    BY OpAtFirst, Zenon
  <2>2. \A i \in Ids : rows[i].there => i \in SegmentIds
    BY Zenon DEF SegmentIds
  <2>3. (\E h \in op.held : TRUE) => FALSE
    BY NoOpFields, Zenon DEF OpInit
  <2>4. faults = 0 => Worked
    BY <2>1, <2>2, <2>3, Zenon DEF ClaimsAreWorked, Worked
  <2> QED
    BY <2>1, <2>4, Zenon DEF OpIInv
<1>2. OpIInv /\ [OpNext]_allVars => OpIInv'
  BY OpIInvStep, Zenon
<1> QED
  BY <1>1, <1>2, PTL DEF OpSpec

\* splitSegment, mergeSegment and resetTokens, interleaved in any way with the
\* claims, crashes and store errors of any number of nodes, never leave a
\* segment that the walk over the ids finds without a token row.
THEOREM SegmentsKeepTheirRows == OpSpec => []EverySegmentHasARow
<1>1. OpIInv => EverySegmentHasARow
  <2> SUFFICES ASSUME OpIInv, NEW s \in SegmentsOf(SegmentIds) PROVE rows[s.id].there
    BY Zenon DEF EverySegmentHasARow
  <2>1. SegmentIds # {}
    BY Zenon DEF SegmentsOf
  <2>2. CASE s.id = 0
    BY <2>1, <2>2, Zenon DEF OpIInv, OpInv, Rooted, Bare
  <2>3. CASE s.id # 0
    BY <2>3, WalkEndsAtIds, Zenon DEF SegmentIds
  <2> QED
    BY <2>2, <2>3, Zenon
<1> QED
  BY <1>1, OperationsInductive, PTL

\* Unless a node crashes or stalls, or the store fails, a claim is never left
\* behind: a worker of the owner works it, or the operation under way holds it,
\* also when an operation is refused half-way and gives everything back.
THEOREM ClaimsStayWorked == OpSpec => []ClaimsAreWorked
<1>1. OpIInv => ClaimsAreWorked
  <2> SUFFICES ASSUME OpIInv, faults = 0, NEW i \in SegmentIds, NEW n \in Node, n = rows[i].owner
               PROVE  Has(n, i) \/ (op.node = n /\ \E h \in op.held : h.segment.id = i)
    BY Zenon DEF ClaimsAreWorked, Has
  <2>1. i \in Ids /\ rows[i].there
    BY Zenon DEF SegmentIds
  <2> QED
    BY <2>1, Zenon DEF OpIInv, Worked, HeldIds
<1> QED
  BY <1>1, OperationsInductive, PTL

-----------------------------------------------------------------------------
(* The tokens, and where they are. *)
Whole == SegmentsOf(0..(initialSegments - 1))

\* A token of the segment i, in its row, in what a claim or an operation has
\* read, with a worker, or on its way.
Marked(i, t) ==
  \/ i \in Ids /\ t = rows[i].token
  \/ \E c \in claims : i = c.segment.id /\ t = c.row.token
  \/ \E w \in workers : i = w.segment.id /\ t = w.token
  \/ \E r \in renewals : i = r.id /\ t = r.token
  \/ \E h \in op.held : i = h.segment.id /\ t = h.known
  \/ \E u \in op.tokens : i = u.id /\ t = u.token

\* What rounds and operations have before them is in S.
Places(S) ==
  /\ \A n \in Node : rounds[n].segments \subseteq S
  /\ op.todo \in Seq(S)
  /\ \A h \in op.held : h.segment \in S

\* A worker gets its token on, past events that are handled by then.
Progress(i, t) == \E w \in workers, p \in Event :
  /\ i = w.segment.id /\ p > w.token.at /\ t = AdvanceTokenTo(w.token, p)
  /\ \A e \in Accepted(w) : e <= p /\ ~HandledByMergedHalf(w.token, Hash[e], e) => e \in handled'

\* Where a token can come from in a step of the claims.
From(i, t) == Marked(i, t) \/ t = Plain(0) \/ Progress(i, t)

\* What every step of the claims does to tokens, and which segments it is about.
Lawful ==
  /\ \A i \in Ids : From(i, rows'[i].token)
  /\ \A c \in claims' : From(c.segment.id, c.row.token) /\ (c \in claims \/ \E n \in Node : c.segment \in rounds[n].segments)
  /\ \A w \in workers' : /\ From(w.segment.id, w.token)
                         /\ \/ \E v \in workers : w.segment = v.segment
                            \/ \E c \in claims : w.segment = c.segment
  /\ \A r \in renewals' : From(r.id, r.token)
  /\ handled \subseteq handled'
  /\ \A e \in misreplayed' :
       \/ e \in misreplayed
       \/ e \notin handled /\ \E w \in workers : e \in Accepted(w) /\ Replaying(w.token) /\ e <= w.token.reset
  /\ \A n \in Node : rounds'[n].segments \subseteq
       rounds[n].segments \cup SegmentsOf(IF SegmentIds = {} THEN 0..(initialSegments - 1) ELSE SegmentIds)
  /\ \/ SegmentIds' = SegmentIds
     \/ SegmentIds = {} /\ SegmentIds' = 0..(initialSegments - 1)
     \/ \E c \in claims : SegmentIds' = SegmentIds \cup {c.segment.id}
  /\ UNCHANGED initialSegments

\* Every token is somebody's.
LEMMA Marks ==
  /\ \A i \in Ids : Marked(i, rows[i].token)
  /\ \A c \in claims : Marked(c.segment.id, c.row.token)
  /\ \A w \in workers : Marked(w.segment.id, w.token)
  /\ \A r \in renewals : Marked(r.id, r.token)
  /\ \A h \in op.held : Marked(h.segment.id, h.known)
  /\ \A u \in op.tokens : Marked(u.id, u.token)
BY Zenon DEF Marked

\* A step that keeps the history, the rounds and the claims there are.
LEMMA LawfulRows ==
  ASSUME UNCHANGED <<initialSegments, history>>,
         claims' \subseteq claims, renewals' \subseteq renewals,
         \A n \in Node : rounds'[n].segments \subseteq rounds[n].segments,
         \A i \in Ids : From(i, rows'[i].token),
         \A w \in workers' : From(w.segment.id, w.token) /\ \/ \E v \in workers : w.segment = v.segment
                                                            \/ \E c \in claims : w.segment = c.segment,
         SegmentIds' = SegmentIds \/ \E c \in claims : SegmentIds' = SegmentIds \cup {c.segment.id}
  PROVE  Lawful
<1>1. handled' = handled /\ misreplayed' = misreplayed
  BY Zenon DEF history
<1>2. \A c \in claims' : From(c.segment.id, c.row.token)
  BY Marks, Zenon DEF From
<1>3. \A r \in renewals' : From(r.id, r.token)
  BY Marks, Zenon DEF From
<1> QED
  BY <1>1, <1>2, <1>3, Zenon DEF Lawful

\* Rows that are where they were.
LEMMA SameIds ==
  ASSUME \A i \in Ids : rows'[i].there = rows[i].there
  PROVE  SegmentIds' = SegmentIds
BY Zenon DEF SegmentIds

\* A row its owner writes, for its token.
LEMMA OwnToken ==
  ASSUME Typed, NEW n, NEW i, NEW t, Stores(n, i), rows' = [rows EXCEPT ![i] = StoredRow(n, t)], From(i, t)
  PROVE  SegmentIds' = SegmentIds /\ \A j \in Ids : From(j, rows'[j].token)
<1>1. SegmentIds' = SegmentIds
  BY OwnWrite, SameIds, Zenon
<1>2. StoredRow(n, t).token = t
  BY Zenon DEF StoredRow
<1>3. \A j \in Ids : rows'[j] = rows[j] \/ (j = i /\ rows'[j] = StoredRow(n, t))
  BY Zenon DEF Typed
<1>4. \A j \in Ids : From(j, rows[j].token)
  BY Marks, Zenon DEF From
<1> QED
  BY <1>1, <1>2, <1>3, <1>4, Zenon

\* A worker that moves, or goes.
LEMMA MovedToken ==
  ASSUME NEW w \in workers, NEW t, NEW u, From(w.segment.id, t),
         workers' = Replace(w, {Moved(w, t, u)}) \/ Lose(w)
  PROVE  \A v \in workers' : From(v.segment.id, v.token) /\ \E o \in workers : v.segment = o.segment
<1>1. Moved(w, t, u).segment = w.segment /\ Moved(w, t, u).token = t
  BY Zenon DEF Moved
<1>2. \A v \in workers' : v \in workers \/ v = Moved(w, t, u)
  BY Zenon DEF Replace, Lose
<1>3. \A v \in workers : From(v.segment.id, v.token)
  BY Marks, Zenon DEF From
<1> QED
  BY <1>1, <1>2, <1>3, Zenon

\* processBatch.
LEMMA LawfulBatch ==
  ASSUME Typed, NEW w \in workers, NEW p \in Event, ProcessBatch(w, p)
  PROVE  Lawful
<1>1. PICK t : t = AdvanceTokenTo(w.token, p)
  BY Zenon
<1>2. UNCHANGED <<initialSegments, up, rounds, claims, renewals>> /\ p \in Accepted(w)
  BY Zenon DEF ProcessBatch
<1>3. \A i \in Ids : From(i, rows[i].token)
  BY Marks, Zenon DEF From
<1>4. \A c \in claims : From(c.segment.id, c.row.token)
  BY Marks, Zenon DEF From
<1>5. \A r \in renewals : From(r.id, r.token)
  BY Marks, Zenon DEF From
<1>6. CASE Stores(w.node, w.segment.id)
  <2>1. /\ rows' = [rows EXCEPT ![w.segment.id] = StoredRow(w.node, t)]
        /\ workers' = Replace(w, {Moved(w, t, FALSE)})
        /\ handled' = handled \cup Batch(w, p)
        /\ misreplayed' = misreplayed \cup (Batch(w, p) \ (AsNew(w, Batch(w, p)) \cup handled))
    BY <1>1, <1>6, Zenon DEF ProcessBatch
  <2>2. Progress(w.segment.id, t)
    BY <1>1, <1>2, <2>1, Zenon DEF Progress, Accepted, Batch
  <2>3. From(w.segment.id, t)
    BY <2>2, Zenon DEF From
  <2>4. SegmentIds' = SegmentIds /\ \A j \in Ids : From(j, rows'[j].token)
    BY <1>6, <2>1, <2>3, OwnToken, Zenon
  <2>5. \A v \in workers' : From(v.segment.id, v.token) /\ \E o \in workers : v.segment = o.segment
    BY <2>1, <2>3, MovedToken, Zenon
  <2>6. \A e \in misreplayed' :
       \/ e \in misreplayed
       \/ e \notin handled /\ e \in Accepted(w) /\ Replaying(w.token) /\ e <= w.token.reset
    BY <2>1, Zenon DEF Batch, AsNew
  <2> QED
    BY <1>2, <1>4, <1>5, <2>1, <2>4, <2>5, <2>6, Zenon DEF Lawful
<1>7. CASE ~Stores(w.node, w.segment.id)
  <2>1. Lose(w) /\ UNCHANGED <<rows, handled, misreplayed>>
    BY <1>7, Zenon DEF ProcessBatch
  <2>2. \A v \in workers' : v \in workers
    BY <2>1, Zenon DEF Lose
  <2>3. \A v \in workers' : From(v.segment.id, v.token)
    BY <2>2, Marks, Zenon DEF From
  <2>4. SegmentIds' = SegmentIds
    BY <2>1, Zenon DEF SegmentIds
  <2> QED
    BY <1>2, <1>3, <1>4, <1>5, <2>1, <2>2, <2>3, <2>4, Zenon DEF Lawful
<1> QED
  BY <1>6, <1>7, Zenon

\* moveThroughQuietStretch: nothing it passes is the segment's.
LEMMA LawfulStretch ==
  ASSUME Typed, NEW w \in workers, NEW p \in Event, w.token.at \in Nat, MoveThroughQuietStretch(w, p)
  PROVE  Lawful
<1>1. PICK t : t = AdvanceTokenTo(w.token, p)
  BY Zenon
<1>2. /\ UNCHANGED <<initialSegments, history>> /\ UNCHANGED <<rounds, claims, renewals>>
      /\ p > w.token.at /\ \A e \in Accepted(w) : e > p
  BY Zenon DEF MoveThroughQuietStretch
<1>3. \A e \in Accepted(w) : ~(e <= p)
  <2>1. p \in Nat /\ Event \subseteq Nat
    BY ClaimsAssumption DEF Event
  <2> QED
    BY <1>2, <2>1 DEF Accepted
<1>4. From(w.segment.id, t)
  BY <1>1, <1>2, <1>3, Zenon DEF From, Progress
<1>5. \A i \in Ids : From(i, rows[i].token)
  BY Marks, Zenon DEF From
<1>6. \E u : workers' = Replace(w, {Moved(w, t, u)}) \/ Lose(w)
  BY <1>1, Zenon DEF MoveThroughQuietStretch
<1>7. \A v \in workers' : From(v.segment.id, v.token) /\ \E o \in workers : v.segment = o.segment
  BY <1>4, <1>6, MovedToken, Zenon
<1>8. \/ Stores(w.node, w.segment.id) /\ rows' = [rows EXCEPT ![w.segment.id] = StoredRow(w.node, t)]
      \/ UNCHANGED rows
  BY <1>1, Zenon DEF MoveThroughQuietStretch
<1>9. SegmentIds' = SegmentIds /\ \A j \in Ids : From(j, rows'[j].token)
  <2>1. CASE UNCHANGED rows
    BY <1>5, <2>1, Zenon DEF SegmentIds
  <2>2. CASE Stores(w.node, w.segment.id) /\ rows' = [rows EXCEPT ![w.segment.id] = StoredRow(w.node, t)]
    BY <1>4, <2>2, OwnToken, Zenon
  <2> QED
    BY <1>8, <2>1, <2>2, Zenon
<1> QED
  BY <1>2, <1>7, <1>9, LawfulRows, Zenon

\* A renewal that lands writes the token it was sent with.
LEMMA LawfulLanding ==
  ASSUME Typed, NEW r \in renewals, RenewalLands(r)
  PROVE  Lawful
<1>1. /\ UNCHANGED <<initialSegments, history>> /\ UNCHANGED <<rounds, claims>>
      /\ renewals' = renewals \ {r}
  BY Zenon DEF RenewalLands
<1>2. \A w : Moved(w, w.token, FALSE).segment = w.segment /\ Moved(w, w.token, FALSE).token = w.token
  BY Zenon DEF Moved
<1>3. \A v \in workers' : \E o \in workers : v.segment = o.segment /\ v.token = o.token
  <2>1. \A v \in workers' : v \in workers \/ \E w \in workers : v = Moved(w, w.token, FALSE)
    <3>1. PICK held : held = {w \in workers : w.node = r.node /\ w.segment.id = r.id /\ w.token = r.token}
      BY Zenon
    <3>2. workers' = (workers \ held) \cup {Moved(w, w.token, FALSE) : w \in held} \/ workers' = workers \ held
      BY <3>1, Zenon DEF RenewalLands
    <3>3. held \subseteq workers
      BY <3>1, Zenon
    <3> QED
      BY <3>2, <3>3, Zenon
  <2> QED
    BY <1>2, <2>1, Zenon
<1>4. \A v \in workers' : From(v.segment.id, v.token) /\ \E o \in workers : v.segment = o.segment
  <2>1. \A v \in workers : From(v.segment.id, v.token)
    BY Marks, Zenon DEF From
  <2> QED
    BY <1>3, <2>1, Zenon
<1>5. SegmentIds' = SegmentIds /\ \A j \in Ids : From(j, rows'[j].token)
  <2>1. \A i \in Ids : From(i, rows[i].token)
    BY Marks, Zenon DEF From
  <2>2. From(r.id, r.token)
    BY Marks, Zenon DEF From
  <2>3. CASE Stores(r.node, r.id)
    <3>1. rows' = [rows EXCEPT ![r.id] = StoredRow(r.node, r.token)]
      BY <2>3, Zenon DEF RenewalLands
    <3> QED
      BY <2>2, <2>3, <3>1, OwnToken, Zenon
  <2>4. CASE ~Stores(r.node, r.id)
    <3>1. UNCHANGED rows
      BY <2>4, Zenon DEF RenewalLands
    <3> QED
      BY <2>1, <3>1, Zenon DEF SegmentIds
  <2> QED
    BY <2>3, <2>4, Zenon
<1> QED
  BY <1>1, <1>4, <1>5, LawfulRows, Zenon

\* renew sends a worker's token on its way.
LEMMA LawfulRenew ==
  ASSUME NEW w \in workers, Renew(w)
  PROVE  Lawful
<1>1. PICK r : r = [node |-> w.node, id |-> w.segment.id, token |-> w.token]
  BY Zenon
<1>2. /\ UNCHANGED <<initialSegments, history>> /\ UNCHANGED <<rows, rounds, claims, workers>>
      /\ renewals' = renewals \cup {r}
  BY <1>1, Zenon DEF Renew
<1>3. r.id = w.segment.id /\ r.token = w.token
  BY <1>1, Zenon
<1>4. \A v \in renewals' : From(v.id, v.token)
  BY <1>2, <1>3, Marks, Zenon DEF From
<1>5. handled' = handled /\ misreplayed' = misreplayed /\ SegmentIds' = SegmentIds
  BY <1>2, Zenon DEF history, SegmentIds
<1>6. \A i \in Ids : From(i, rows[i].token)
  BY Marks, Zenon DEF From
<1>7. \A c \in claims : From(c.segment.id, c.row.token)
  BY Marks, Zenon DEF From
<1>8. \A v \in workers : From(v.segment.id, v.token)
  BY Marks, Zenon DEF From
<1> QED
  BY <1>2, <1>4, <1>5, <1>6, <1>7, <1>8, Zenon DEF Lawful

\* Workers that stop leave their rows with their own token, or as they were.
LEMMA StopsWithTokens ==
  ASSUME NEW W \in SUBSET workers, StopWorkers(W)
  PROVE  /\ SegmentIds' = SegmentIds
         /\ \A i \in Ids : From(i, rows'[i].token)
         /\ \A v \in workers' : From(v.segment.id, v.token) /\ \E o \in workers : v.segment = o.segment
<1> DEFINE In(i) == \E w \in W : w.segment.id = i /\ Stores(w.node, i)
           Who(i) == CHOOSE v \in W : v.segment.id = i /\ Stores(v.node, i)
           Left(i) == IF Who(i).unwritten THEN StoredRow(Who(i).node, Who(i).token) ELSE rows[i]
<1>1. rows' = [i \in Ids |-> IF In(i) THEN ReleasedRow(Left(i)) ELSE rows[i]]
  BY Zenon DEF StopWorkers
<1>2. \A row : ReleasedRow(row).token = row.token
  BY Zenon DEF ReleasedRow
<1>3. \A n, t : StoredRow(n, t).token = t
  BY Zenon DEF StoredRow
<1>4. ASSUME NEW i \in Ids, In(i) PROVE Who(i) \in workers /\ Who(i).segment.id = i
  BY <1>4, Zenon
<1> HIDE DEF Who
<1>5. ASSUME NEW i \in Ids, In(i) PROVE From(i, Left(i).token)
  <2>1. Left(i).token = rows[i].token \/ Left(i).token = Who(i).token
    BY <1>3, Zenon
  <2> HIDE DEF Left
  <2>2. Marked(i, rows[i].token)
    BY Marks, Zenon
  <2>3. Marked(i, Who(i).token)
    BY <1>4, <1>5, Marks, Zenon
  <2> QED
    BY <2>1, <2>2, <2>3, Zenon DEF From
<1> HIDE DEF Left, In
<1>6. \A i \in Ids : From(i, rows[i].token)
  BY Marks, Zenon DEF From
<1>7. \A i \in Ids : From(i, rows'[i].token)
  <2>1. \A i \in Ids : rows'[i] = rows[i] \/ (In(i) /\ rows'[i] = ReleasedRow(Left(i)))
    BY <1>1, Zenon
  <2> QED
    BY <1>2, <1>5, <1>6, <2>1, Zenon
<1>8. SegmentIds' = SegmentIds
  BY StopsRelease, SameIds, Zenon
<1>9. \A v \in workers' : v \in workers
  BY Zenon DEF StopWorkers
<1>10. \A v \in workers : From(v.segment.id, v.token)
  BY Marks, Zenon DEF From
<1> QED
  BY <1>7, <1>8, <1>9, <1>10, Zenon

\* releaseSegment.
LEMMA LawfulRelease ==
  ASSUME NEW w \in workers, ReleaseSegment(w)
  PROVE  Lawful
<1>1. /\ UNCHANGED <<initialSegments, history>> /\ UNCHANGED <<rounds, claims, renewals>>
      /\ StopWorkers({w})
  BY Zenon DEF ReleaseSegment
<1>2. PICK W \in SUBSET workers : W = {w}
  BY Zenon
<1>3. StopWorkers(W)
  BY <1>1, <1>2, Zenon
<1> QED
  BY <1>1, <1>3, StopsWithTokens, LawfulRows, Zenon

\* stop.
LEMMA LawfulStop ==
  ASSUME Typed, NEW n \in Node, Stop(n)
  PROVE  Lawful
<1>1. /\ UNCHANGED <<initialSegments, history>> /\ UNCHANGED <<claims, renewals>>
      /\ StopWorkers(Current(n))
  BY Zenon DEF Stop
<1>2. PICK W \in SUBSET workers : W = Current(n)
  BY Zenon DEF Current
<1>3. StopWorkers(W)
  BY <1>1, <1>2, Zenon DEF StopWorkers
<1>4. \A m \in Node : rounds'[m].segments \subseteq rounds[m].segments
  <2>1. \A f : [on |-> TRUE, first |-> f, segments |-> {}].segments = {}
    BY Zenon
  <2>2. IdleRound.segments = {}
    BY Zenon DEF IdleRound
  <2>3. rounds' = [rounds EXCEPT ![n] = IF Claiming(n) THEN [on |-> TRUE, first |-> rounds[n].first, segments |-> {}]
                                         ELSE IdleRound]
    BY Zenon DEF Stop
  <2>4. \A m \in Node : rounds'[m] = rounds[m] \/ rounds'[m].segments = {}
    BY <2>1, <2>2, <2>3, Zenon DEF Typed
  <2> QED
    BY <2>4, Zenon
<1> QED
  BY <1>1, <1>3, <1>4, StopsWithTokens, LawfulRows, Zenon

\* Setting up and listing the segments.
LEMMA ListsWithTokens ==
  ASSUME Typed, NEW n \in Node, NEW first, ListSegments(n, first),
         UNCHANGED <<initialSegments, history>>, UNCHANGED <<claims, workers, renewals>>
  PROVE  Lawful
<1> DEFINE ids == IF SegmentIds = {} THEN 0..(initialSegments - 1) ELSE SegmentIds
           table == [i \in Ids |-> IF i \in ids /\ ~rows[i].there THEN FreeRow ELSE rows[i]]
           listed == {s \in SegmentsOf(ids) : table[s.id].there /\ Available(table[s.id])}
<1>1. rows' = table /\ rounds' = [rounds EXCEPT ![n] = Round(first, listed)]
  BY Zenon DEF ListSegments
<1>2. FreeRow.there = TRUE /\ FreeRow.token = Plain(0)
  BY Zenon DEF FreeRow
<1>3. \A S : Round(first, S).segments = S
  BY Zenon DEF Round, IdleRound
<1>4. PICK new : new = listed
  BY Zenon
<1>5. new \subseteq SegmentsOf(ids)
  BY <1>4, Zenon
<1>6. \A m \in Node : rounds'[m] = rounds[m] \/ rounds'[m] = Round(first, new)
  BY <1>1, <1>4, Zenon DEF Typed
<1>7. \A m \in Node : rounds'[m].segments \subseteq rounds[m].segments \cup SegmentsOf(ids)
  BY <1>3, <1>5, <1>6, Zenon
<1> HIDE DEF listed
<1>8. \A i \in Ids : rows'[i] = rows[i] \/ rows'[i] = FreeRow
  BY <1>1, Zenon
<1>9. \A i \in Ids : From(i, rows'[i].token)
  BY <1>2, <1>8, Marks, Zenon DEF From
<1>10. SegmentIds' = SegmentIds \/ (SegmentIds = {} /\ SegmentIds' = 0..(initialSegments - 1))
  <2>1. CASE SegmentIds # {}
    <3>1. \A i \in Ids : rows'[i] = rows[i]
      BY <1>1, <2>1, Zenon DEF SegmentIds
    <3> QED
      BY <3>1, Zenon DEF SegmentIds
  <2>2. CASE SegmentIds = {}
    <3>1. ids = 0..(initialSegments - 1)
      BY <2>2, Zenon
    <3>2. ids \subseteq Ids
      <4>1. 2^Depth \in Int /\ initialSegments \in 1..(2^Depth)
        BY DepthAssumption, ClaimsAssumption DEF Typed
      <4> QED
        BY <3>1, <4>1 DEF Ids
    <3>3. \A i \in Ids : ~rows[i].there
      BY <2>2, Zenon DEF SegmentIds
    <3> HIDE DEF ids
    <3>4. \A i \in Ids : (i \in ids => rows'[i] = FreeRow) /\ (i \notin ids => rows'[i] = rows[i])
      BY <1>1, <3>3, Zenon
    <3>5. SegmentIds' = ids
      BY <1>2, <3>2, <3>3, <3>4, Zenon DEF SegmentIds
    <3> QED
      BY <2>2, <3>1, <3>5, Zenon
  <2> QED
    BY <2>1, <2>2, Zenon
<1>11. handled' = handled /\ misreplayed' = misreplayed
  BY Zenon DEF history
<1>12. \A c \in claims : From(c.segment.id, c.row.token)
  BY Marks, Zenon DEF From
<1>13. \A v \in workers : From(v.segment.id, v.token)
  BY Marks, Zenon DEF From
<1>14. \A r \in renewals : From(r.id, r.token)
  BY Marks, Zenon DEF From
<1> QED
  BY <1>7, <1>9, <1>10, <1>11, <1>12, <1>13, <1>14, Zenon DEF Lawful

\* The SELECT of a claim reads the token.
LEMMA LawfulNext ==
  ASSUME Typed, \A m \in Node : rounds[m].segments \subseteq Segment, NEW n \in Node, ClaimNext(n)
  PROVE  Lawful
<1>1. UNCHANGED <<initialSegments, history>> /\ UNCHANGED <<rows, workers, renewals>>
  BY Zenon DEF ClaimNext
<1>2. PICK s \in rounds[n].segments :
        LET rest == rounds[n].segments \ {s}
        IN \/ /\ rounds' = [rounds EXCEPT ![n] = Round(@.first, rest)]
              /\ UNCHANGED claims
           \/ /\ rounds' = [rounds EXCEPT ![n] = [on |-> TRUE, first |-> @.first, segments |-> rest]]
              /\ claims' = claims \cup {[node |-> n, segment |-> s, row |-> rows[s.id], operation |-> FALSE]}
  BY Zenon DEF ClaimNext
<1>3. PICK d : d = [node |-> n, segment |-> s, row |-> rows[s.id], operation |-> FALSE]
  BY Zenon
<1>4. d.segment = s /\ d.row = rows[s.id]
  BY <1>3, Zenon
<1>5. claims' \subseteq claims \cup {d}
  BY <1>2, <1>3, Zenon
<1>6. s.id \in Ids
  BY Zenon DEF Segment
<1>7. \A c \in claims' : From(c.segment.id, c.row.token) /\ (c \in claims \/ \E m \in Node : c.segment \in rounds[m].segments)
  <2>1. \A c \in claims : From(c.segment.id, c.row.token)
    BY Marks, Zenon DEF From
  <2>2. From(d.segment.id, d.row.token)
    BY <1>4, <1>6, Marks, Zenon DEF From
  <2> QED
    BY <1>4, <1>5, <2>1, <2>2, Zenon
<1>8. \A m \in Node : rounds'[m].segments \subseteq rounds[m].segments
  <2>1. PICK rest : rest = rounds[n].segments \ {s}
    BY Zenon
  <2>2. \A f : Round(f, rest).segments = rest /\ [on |-> TRUE, first |-> f, segments |-> rest].segments = rest
    BY Zenon DEF Round, IdleRound
  <2>3. \A m \in Node : \/ rounds'[m] = rounds[m]
                        \/ m = n /\ \E f : rounds'[m] \in {Round(f, rest), [on |-> TRUE, first |-> f, segments |-> rest]}
    BY <1>2, <2>1, Zenon DEF Typed
  <2>4. \A m \in Node : rounds'[m] = rounds[m] \/ (m = n /\ rounds'[m].segments = rest)
    BY <2>2, <2>3, Zenon
  <2> QED
    BY <2>1, <2>4, Zenon
<1>9. handled' = handled /\ misreplayed' = misreplayed /\ SegmentIds' = SegmentIds
  BY <1>1, Zenon DEF history, SegmentIds
<1>10. \A i \in Ids : From(i, rows[i].token)
  BY Marks, Zenon DEF From
<1>11. \A v \in workers : From(v.segment.id, v.token)
  BY Marks, Zenon DEF From
<1>12. \A r \in renewals : From(r.id, r.token)
  BY Marks, Zenon DEF From
<1> QED
  BY <1>1, <1>7, <1>8, <1>9, <1>10, <1>11, <1>12, Zenon DEF Lawful

\* A claim that lands takes the token as it is, or starts one.
LEMMA ClaimTokens ==
  ASSUME NEW c
  PROVE  ClaimedRow(c).token = Plain(0) \/ ClaimedRow(c).token = rows[c.segment.id].token
<1>1. /\ StoredRow(c.node, Plain(0)).token = Plain(0)
      /\ StoredRow(c.node, rows[c.segment.id].token).token = rows[c.segment.id].token
  BY Zenon DEF StoredRow
<1>2. \/ ClaimedRow(c) = StoredRow(c.node, Plain(0))
      \/ ClaimedRow(c) = StoredRow(c.node, rows[c.segment.id].token)
      \/ ClaimedRow(c) = rows[c.segment.id]
  BY Zenon DEF ClaimedRow
<1> QED
  BY <1>1, <1>2, Zenon

\* Its row, in the table.
LEMMA LandsWithTokens ==
  ASSUME Typed, NEW c \in claims, NEW row, row.there = ClaimedRow(c).there, row.token = ClaimedRow(c).token,
         rows' = [rows EXCEPT ![c.segment.id] = row]
  PROVE  /\ \A i \in Ids : From(i, rows'[i].token)
         /\ SegmentIds' = SegmentIds \/ SegmentIds' = SegmentIds \cup {c.segment.id}
<1>1. \A i \in Ids : rows'[i] = rows[i] \/ (i = c.segment.id /\ rows'[i] = row)
  BY Zenon DEF Typed
<1>2. ClaimedRow(c).token = Plain(0) \/ ClaimedRow(c).token = rows[c.segment.id].token
  BY ClaimTokens, Zenon
<1>3. \A i \in Ids : Marked(i, rows[i].token)
  BY Marks, Zenon
<1>4. \A i \in Ids : From(i, rows'[i].token)
  BY <1>1, <1>2, <1>3, Zenon DEF From
<1>5. ClaimedRow(c).there \/ ClaimedRow(c) = rows[c.segment.id]
  BY ClaimLands, Zenon
<1>6. SegmentIds' = SegmentIds \/ SegmentIds' = SegmentIds \cup {c.segment.id}
  <2>1. CASE c.segment.id \in Ids /\ row.there
    <3>1. rows'[c.segment.id] = row
      BY <2>1, Zenon DEF Typed
    <3>2. SegmentIds' = SegmentIds \cup {c.segment.id}
      BY <1>1, <2>1, <3>1, Zenon DEF SegmentIds
    <3> QED
      BY <3>2, Zenon
  <2>2. CASE c.segment.id \notin Ids
    BY <1>1, <2>2, Zenon DEF SegmentIds
  <2>3. CASE ~row.there
    <3>1. \A i \in Ids : rows'[i].there = rows[i].there
      BY <1>1, <1>5, <2>3, Zenon
    <3> QED
      BY <3>1, SameIds, Zenon
  <2> QED
    BY <2>1, <2>2, <2>3, Zenon
<1> QED
  BY <1>4, <1>6, Zenon

\* A round that throws.
LEMMA ThrowsWithTokens ==
  ASSUME Typed, NEW n \in Node, RoundThrows(n)
  PROVE  claims' \subseteq claims /\ \A m \in Node : rounds'[m].segments \subseteq rounds[m].segments
<1>1. IdleRound.segments = {}
  BY Zenon DEF IdleRound
<1>2. \A m \in Node : rounds'[m] = rounds[m] \/ rounds'[m] = IdleRound
  BY Zenon DEF RoundThrows, Typed
<1> QED
  BY <1>1, <1>2, Zenon DEF RoundThrows

\* A store error, whose statement may have got there.
LEMMA LawfulFailure ==
  ASSUME Typed, NEW n \in Node, StoreFails(n)
  PROVE  Lawful
<1>1. UNCHANGED <<initialSegments, history>> /\ UNCHANGED <<workers, renewals>> /\ RoundThrows(n)
  BY Zenon DEF StoreFails
<1>2. claims' \subseteq claims /\ \A m \in Node : rounds'[m].segments \subseteq rounds[m].segments
  BY <1>1, ThrowsWithTokens, Zenon
<1>3. UNCHANGED rows \/ \E c \in claims : rows' = [rows EXCEPT ![c.segment.id] = ClaimedRow(c)]
  BY Zenon DEF StoreFails
<1>4. /\ \A i \in Ids : From(i, rows'[i].token)
      /\ SegmentIds' = SegmentIds \/ \E c \in claims : SegmentIds' = SegmentIds \cup {c.segment.id}
  <2>1. CASE UNCHANGED rows
    BY <2>1, Marks, Zenon DEF From, SegmentIds
  <2>2. ASSUME NEW c \in claims, rows' = [rows EXCEPT ![c.segment.id] = ClaimedRow(c)]
        PROVE  /\ \A i \in Ids : From(i, rows'[i].token)
               /\ SegmentIds' = SegmentIds \/ SegmentIds' = SegmentIds \cup {c.segment.id}
    BY <2>2, LandsWithTokens, Zenon
  <2> QED
    BY <1>3, <2>1, <2>2, Zenon
<1>5. \A v \in workers : From(v.segment.id, v.token)
  BY Marks, Zenon DEF From
<1> QED
  BY <1>1, <1>2, <1>4, <1>5, LawfulRows, Zenon

\* Workers that are started, among those there are.
LEMMA StartedTokens ==
  ASSUME NEW new, workers' = WithWorkers(new)
  PROVE  \A v \in workers' : v \in new \/ \E o \in workers : v.segment = o.segment /\ v.token = o.token
<1>1. ASSUME NEW v \in workers', v \notin new, v \notin workers
      PROVE  \E o \in workers : v.segment = o.segment /\ v.token = o.token
  <2>1. PICK w \in workers :
          v = [node |-> w.node, segment |-> w.segment, token |-> w.token, unwritten |-> w.unwritten, current |-> FALSE]
    BY <1>1, Zenon DEF WithWorkers
  <2>2. v.segment = w.segment /\ v.token = w.token
    BY <2>1, Zenon
  <2> QED
    BY <2>2, Zenon
<1> QED
  BY <1>1, Zenon

\* The second statement of a claim starts a worker at the token the first read.
LEMMA LawfulClaim ==
  ASSUME Typed, NEW c \in claims, c.node \in Node, ClaimSegment(c)
  PROVE  Lawful
<1>1. UNCHANGED <<initialSegments, renewals, handled, misreplayed>>
  BY Zenon DEF ClaimSegment
<1>2. \A v \in workers : From(v.segment.id, v.token)
  BY Marks, Zenon DEF From
<1>3. \A r \in renewals : From(r.id, r.token)
  BY Marks, Zenon DEF From
<1>4. \A d \in claims : From(d.segment.id, d.row.token)
  BY Marks, Zenon DEF From
<1>5. CASE ClaimStatementFails(c)
  <2>1. RoundThrows(c.node) /\ UNCHANGED <<rows, workers>>
    BY <1>5, Zenon DEF ClaimSegment
  <2>2. claims' \subseteq claims /\ \A m \in Node : rounds'[m].segments \subseteq rounds[m].segments
    BY <2>1, ThrowsWithTokens, Zenon
  <2>3. \A i \in Ids : From(i, rows[i].token)
    BY Marks, Zenon DEF From
  <2>4. SegmentIds' = SegmentIds
    BY <2>1, Zenon DEF SegmentIds
  <2> QED
    BY <1>1, <1>2, <1>3, <1>4, <2>1, <2>2, <2>3, <2>4, Zenon DEF Lawful
<1>6. CASE ~ClaimStatementFails(c)
  <2>1. /\ claims' \subseteq claims
        /\ rounds' = [rounds EXCEPT ![c.node] = Round(rounds[c.node].first, rounds[c.node].segments)]
    BY <1>6, Zenon DEF ClaimSegment
  <2>2. PICK v : v = StartedWorker(c.node, c.segment, c.row.token)
    BY Zenon
  <2>3. v.segment = c.segment /\ v.token = c.row.token
    BY <2>2, Zenon DEF StartedWorker
  <2>4. \/ /\ rows' = [rows EXCEPT ![c.segment.id] = ClaimedRow(c)]
           /\ workers' = WithWorkers({v})
        \/ rows' = [rows EXCEPT ![c.segment.id] = ReleasedRow(ClaimedRow(c))] /\ UNCHANGED workers
    BY <1>6, <2>2, Zenon DEF ClaimSegment, WithWorkers
  <2>5. \A row : ReleasedRow(row).there = row.there /\ ReleasedRow(row).token = row.token
    BY Zenon DEF ReleasedRow
  <2>6. PICK row : /\ row.there = ClaimedRow(c).there /\ row.token = ClaimedRow(c).token
                   /\ rows' = [rows EXCEPT ![c.segment.id] = row]
    BY <2>4, <2>5, Zenon
  <2>7. /\ \A i \in Ids : From(i, rows'[i].token)
        /\ SegmentIds' = SegmentIds \/ SegmentIds' = SegmentIds \cup {c.segment.id}
    BY <2>6, LandsWithTokens, Zenon
  <2>8. \A u \in workers' : u = v \/ \E o \in workers : u.segment = o.segment /\ u.token = o.token
    <3>1. CASE UNCHANGED workers
      BY <3>1, Zenon
    <3>2. CASE workers' = WithWorkers({v})
      <4>1. PICK new : new = {v}
        BY Zenon
      <4>2. workers' = WithWorkers(new)
        BY <3>2, <4>1, Zenon
      <4>3. \A u \in workers' : u \in new \/ \E o \in workers : u.segment = o.segment /\ u.token = o.token
        BY <4>2, StartedTokens, Zenon DEF WithWorkers
      <4> QED
        BY <4>1, <4>3, Zenon
    <3> QED
      BY <2>4, <3>1, <3>2, Zenon
  <2>9. \A u \in workers' : /\ From(u.segment.id, u.token)
                            /\ \/ \E o \in workers : u.segment = o.segment
                               \/ \E d \in claims : u.segment = d.segment
    BY <1>2, <1>4, <2>3, <2>8, Zenon
  <2>10. \A m \in Node : rounds'[m].segments \subseteq rounds[m].segments
    <3>1. Round(rounds[c.node].first, rounds[c.node].segments).segments = rounds[c.node].segments
      BY Zenon DEF Round, IdleRound
    <3>2. PICK r : r = Round(rounds[c.node].first, rounds[c.node].segments)
      BY Zenon
    <3>3. \A m \in Node : rounds'[m] = rounds[m] \/ (m = c.node /\ rounds'[m] = r)
      BY <2>1, <3>2, Zenon DEF Typed
    <3> QED
      BY <3>1, <3>2, <3>3, Zenon
  <2> QED
    BY <1>1, <1>3, <1>4, <2>1, <2>7, <2>9, <2>10, Zenon DEF Lawful
<1> QED
  BY <1>5, <1>6, Zenon

\* A crash takes tokens away, and brings none.
LEMMA LawfulCrash ==
  ASSUME Typed, NEW n \in Node, Crash(n)
  PROVE  Lawful
<1>1. /\ UNCHANGED <<initialSegments, history>> /\ UNCHANGED rows
      /\ claims' \subseteq claims /\ workers' \subseteq workers /\ renewals' \subseteq renewals
      /\ rounds' = [rounds EXCEPT ![n] = IdleRound]
  BY Zenon DEF Crash
<1>2. \A m \in Node : rounds'[m].segments \subseteq rounds[m].segments
  <2>1. IdleRound.segments = {}
    BY Zenon DEF IdleRound
  <2>2. \A m \in Node : rounds'[m] = rounds[m] \/ rounds'[m] = IdleRound
    BY <1>1, Zenon DEF Typed
  <2> QED
    BY <2>1, <2>2, Zenon
<1>3. \A i \in Ids : From(i, rows[i].token)
  BY Marks, Zenon DEF From
<1>4. \A v \in workers : From(v.segment.id, v.token)
  BY Marks, Zenon DEF From
<1>5. SegmentIds' = SegmentIds
  BY <1>1, Zenon DEF SegmentIds
<1> QED
  BY <1>1, <1>2, <1>3, <1>4, <1>5, LawfulRows, Zenon

\* Time that passes changes no token.
LEMMA LawfulExpiry ==
  ASSUME Typed, NEW i \in Ids, Expire(i)
  PROVE  Lawful
<1> DEFINE row == [there |-> rows[i].there, token |-> rows[i].token, owner |-> rows[i].owner, fresh |-> FALSE]
<1>1. /\ UNCHANGED <<initialSegments, history>> /\ UNCHANGED <<rounds, claims, workers, renewals>>
      /\ rows' = [rows EXCEPT ![i] = row]
  BY Zenon DEF Expire
<1>2. row.there = rows[i].there /\ row.token = rows[i].token
  BY Zenon
<1> HIDE DEF row
<1>3. \A j \in Ids : rows'[j] = rows[j] \/ (j = i /\ rows'[j] = row)
  BY <1>1, Zenon DEF Typed
<1>4. \A j \in Ids : From(j, rows'[j].token)
  BY <1>2, <1>3, Marks, Zenon DEF From
<1>5. \A v \in workers : From(v.segment.id, v.token)
  BY Marks, Zenon DEF From
<1>6. SegmentIds' = SegmentIds
  BY <1>2, <1>3, SameIds, Zenon
<1> QED
  BY <1>1, <1>4, <1>5, <1>6, LawfulRows, Zenon

\* Every step of the claims is lawful.
LEMMA StepsAreLawful ==
  ASSUME Typed, \A c \in claims : c.node \in Node, \A m \in Node : rounds[m].segments \subseteq Segment,
         \A w \in workers : w.token.at \in Nat, Next
  PROVE  Lawful
<1>1. ASSUME NEW n \in Node, Start(n) \/ BeginRound(n) PROVE Lawful
  BY <1>1, ListsWithTokens, Zenon DEF Start, BeginRound
<1>2. ASSUME NEW n \in Node, NodeStep(n) PROVE Lawful
  BY <1>1, <1>2, LawfulStop, LawfulNext, LawfulFailure, LawfulCrash, Zenon DEF NodeStep
<1>3. ASSUME NEW w \in workers, WorkerStep(w) PROVE Lawful
  BY <1>3, LawfulRenew, LawfulRelease, LawfulBatch, LawfulStretch, Zenon DEF WorkerStep
<1>4. ASSUME NEW i \in Ids, ClaimLapses(i) \/ ClaimStalls(i) PROVE Lawful
  BY <1>4, LawfulExpiry, Zenon DEF ClaimLapses, ClaimStalls
<1> QED
  BY <1>2, <1>3, <1>4, LawfulLanding, LawfulClaim, Zenon DEF Next

-----------------------------------------------------------------------------
(* Tokens that are level, and tokens whose replay is known. *)

\* A token of no replay.
Level(t) == t.at \in Nat /\ t.reset = t.at /\ \A h \in t.halves : h.at \in Nat

\* A token, of the segments W, whose replay ends where i had got to.
Known(W, i, t, done) ==
  /\ t.halves = {} /\ t.at \in Nat /\ t.reset \in Nat /\ t.at <= t.reset
  /\ \A s \in W, e \in Event : s.id = i /\ InSegment(s, Hash[e]) /\ e <= t.reset => e \in done

\* Two segments the walk ends at have different ids: of two with one id the
\* wider is an ancestor of the other, and so halved.
LEMMA OneById ==
  ASSUME NEW ids, NEW s \in SegmentsOf(ids), NEW o \in SegmentsOf(ids), s.id = o.id
  PROVE  s = o
<1>1. \A a \in SegmentsOf(ids) : a \in Segment /\ ~Halved(a, ids) /\ \A b \in Segment : Ancestor(b, a) => Halved(b, ids)
  BY Zenon DEF SegmentsOf
<1>2. \A a \in Segment : a = [id |-> a.id, mask |-> a.mask] /\ a.id \in Nat /\ a.mask \in Int /\ a.id <= a.mask
  <2>1. 2^Depth \in Int /\ \A k \in 0..Depth : 2^k \in Int
    BY DepthAssumption
  <2> QED
    BY <2>1 DEF Segment, Ids, Masks
<1>3. ASSUME NEW a \in SegmentsOf(ids), NEW b \in SegmentsOf(ids), a.id = b.id, a.mask < b.mask
      PROVE  FALSE
  <2>1. a.id % (a.mask + 1) = a.id
    BY <1>1, <1>2
  <2>2. Ancestor(a, b)
    BY <1>3, <2>1, Zenon DEF Ancestor
  <2> QED
    BY <1>1, <2>2, Zenon
<1>4. s.mask \in Int /\ o.mask \in Int
  BY <1>1, <1>2, Zenon
<1>5. s.mask = o.mask
  BY <1>3, <1>4
<1> QED
  BY <1>1, <1>2, <1>5, Zenon

\* No event is behind the token of a segment that starts.
LEMMA PlainTokens ==
  Level(Plain(0)) /\ \A W, i, done : Known(W, i, Plain(0), done)
<1>1. Plain(0).at = 0 /\ Plain(0).reset = 0 /\ Plain(0).halves = {}
  BY Zenon DEF Plain
<1>2. \A e \in Event : ~(e <= 0)
  BY ClaimsAssumption DEF Event
<1>3. 0 \in Nat /\ 0 <= 0
  BY SMT
<1> QED
  BY <1>1, <1>2, <1>3, Zenon DEF Level, Known

\* A merged token goes on from one of its halves.
LEMMA MergedLevel ==
  ASSUME NEW mask, NEW H, H # {}, \A h \in H : h.at \in Nat
  PROVE  Level(MergedToken(mask, H))
<1>1. PICK T : T = {h.at : h \in H}
  BY Zenon
<1>2. T \in SUBSET Nat /\ T # {}
  BY <1>1, Zenon
<1>3. Min(T) \in Nat
  <2>1. \E x \in T : \A y \in T : x <= y
    BY <1>2, LeastOfNat, Zenon
  <2>2. Min(T) \in T
    BY <2>1, Zenon DEF Min
  <2> QED
    BY <1>2, <2>2, Zenon
<1>4. PICK b : b = Min(T)
  BY Zenon
<1>5. MergedToken(mask, H) = Plain(b) \/ MergedToken(mask, H) = [at |-> b, reset |-> b, mask |-> mask, halves |-> H]
  BY <1>1, <1>4, Zenon DEF MergedToken
<1>6. Plain(b).at = b /\ Plain(b).reset = b /\ Plain(b).halves = {}
  BY Zenon DEF Plain
<1>7. PICK m : m = MergedToken(mask, H)
  BY Zenon
<1>8. m.at = b /\ m.reset = b /\ (m.halves = {} \/ m.halves = H)
  <2>1. CASE m = Plain(b)
    BY <1>6, <2>1, Zenon
  <2>2. CASE m = [at |-> b, reset |-> b, mask |-> mask, halves |-> H]
    BY <2>2, Zenon
  <2> QED
    BY <1>5, <1>7, <2>1, <2>2, Zenon
<1> QED
  BY <1>3, <1>4, <1>7, <1>8, Zenon DEF Level

\* Progress keeps a token level,
LEMMA LevelAdvances ==
  ASSUME NEW t, Level(t), NEW p \in Nat, p > t.at
  PROVE  Level(AdvanceTokenTo(t, p))
<1>1. t.at \in Nat /\ t.reset = t.at /\ \A h \in t.halves : h.at \in Nat
  BY Zenon DEF Level
<1>2. CASE t.halves # {}
  <2>1. PICK H : H = {[segment |-> h.segment, at |-> Max({h.at, p})] : h \in t.halves}
    BY Zenon
  <2>2. AdvanceTokenTo(t, p) = MergedToken(t.mask, H)
    BY <1>2, <2>1, Zenon DEF AdvanceTokenTo, Merged
  <2>3. ASSUME NEW h \in H PROVE h.at \in Nat
    <3>1. PICK g \in t.halves : h = [segment |-> g.segment, at |-> Max({g.at, p})]
      BY <2>1, Zenon
    <3>2. h.at = Max({g.at, p})
      BY <3>1, Zenon
    <3>3. g.at \in Nat
      BY <1>1, Zenon
    <3>4. PICK a : a = g.at
      BY Zenon
    <3>5. \E x \in {a, p} : \A y \in {a, p} : x >= y
      BY <3>3, <3>4
    <3>6. Max({a, p}) \in {a, p}
      BY <3>5, Zenon DEF Max
    <3> QED
      BY <3>2, <3>3, <3>4, <3>6, Zenon
  <2>4. H # {}
    BY <1>2, <2>1, Zenon
  <2> QED
    BY <2>2, <2>3, <2>4, MergedLevel, Zenon
<1>3. CASE t.halves = {}
  <2>1. ~(p < t.reset)
    BY <1>1
  <2>2. AdvanceTokenTo(t, p) = Plain(p)
    BY <1>3, <2>1, Zenon DEF AdvanceTokenTo, Merged
  <2>3. Plain(p).at = p /\ Plain(p).reset = p /\ Plain(p).halves = {}
    BY Zenon DEF Plain
  <2> QED
    BY <2>2, <2>3, Zenon DEF Level
<1> QED
  BY <1>2, <1>3, Zenon

\* and known, once what it passes is handled.
LEMMA KnownAdvances ==
  ASSUME NEW W, NEW s \in W, \A o \in W : o.id = s.id => o = s,
         NEW t, NEW done, Known(W, s.id, t, done), NEW p \in Event, p > t.at, NEW new, done \subseteq new,
         \A e \in Event : InSegment(s, Hash[e]) /\ e > t.at /\ e <= p => e \in new
  PROVE  Known(W, s.id, AdvanceTokenTo(t, p), new)
<1>1. /\ t.halves = {} /\ t.at \in Nat /\ t.reset \in Nat /\ t.at <= t.reset
      /\ \A e \in Event : InSegment(s, Hash[e]) /\ e <= t.reset => e \in done
  BY Zenon DEF Known
<1>2. p \in Nat /\ Event \subseteq Nat
  BY ClaimsAssumption DEF Event
<1>3. \A e \in Event : InSegment(s, Hash[e]) /\ e <= p => e \in new
  <2> SUFFICES ASSUME NEW e \in Event, InSegment(s, Hash[e]), e <= p PROVE e \in new
    BY Zenon
  <2>1. CASE e <= t.at
    BY <1>1, <1>2, <2>1
  <2>2. CASE e > t.at
    BY <2>2, Zenon
  <2> QED
    BY <1>1, <1>2, <2>1, <2>2
<1>4. PICK u : u = AdvanceTokenTo(t, p)
  BY Zenon
<1>5. CASE p < t.reset
  <2>1. u = ReplayToken(t.reset, p)
    BY <1>1, <1>4, <1>5, Zenon DEF AdvanceTokenTo, Merged
  <2>2. u.at = p /\ u.reset = t.reset /\ u.halves = {}
    BY <2>1, Zenon DEF ReplayToken
  <2>3. p <= t.reset
    BY <1>1, <1>2, <1>5
  <2> QED
    BY <1>1, <1>2, <1>4, <2>2, <2>3, Zenon DEF Known
<1>6. CASE ~(p < t.reset)
  <2>1. u = Plain(p)
    BY <1>1, <1>4, <1>6, Zenon DEF AdvanceTokenTo, Merged
  <2>2. u.at = p /\ u.reset = p /\ u.halves = {} /\ p <= p
    BY <1>2, <2>1 DEF Plain
  <2> QED
    BY <1>2, <1>3, <1>4, <2>2, Zenon DEF Known
<1> QED
  BY <1>5, <1>6, Zenon

\* Every token is level, as before the first reset;
AllLevel == \A i, t : Marked(i, t) => Level(t)

\* every token is of a segment of the set-up, and known.
AllKnown ==
  /\ \A i, t : Marked(i, t) => Known(Whole, i, t, handled)
  /\ Places(Whole)
  /\ \A c \in claims : c.segment \in Whole
  /\ \A w \in workers : w.segment \in Whole
  /\ SegmentIds = {} \/ SegmentIds = 0..(initialSegments - 1)

\* Where the tokens come from, the operation's included.
LEMMA MarksTraced ==
  ASSUME Lawful, op' = op \/ op' = NoOp, NEW i, NEW t, Marked(i, t)'
  PROVE  From(i, t)
<1>1. NoOp.held = {} /\ NoOp.tokens = {}
  BY Zenon DEF NoOp
<1>2. \/ i \in Ids /\ t = rows'[i].token
      \/ \E c \in claims' : i = c.segment.id /\ t = c.row.token
      \/ \E w \in workers' : i = w.segment.id /\ t = w.token
      \/ \E r \in renewals' : i = r.id /\ t = r.token
      \/ \E h \in op.held : i = h.segment.id /\ t = h.known
      \/ \E u \in op.tokens : i = u.id /\ t = u.token
  BY <1>1, Zenon DEF Marked
<1>3. /\ \A j \in Ids : From(j, rows'[j].token)
      /\ \A c \in claims' : From(c.segment.id, c.row.token)
      /\ \A w \in workers' : From(w.segment.id, w.token)
      /\ \A r \in renewals' : From(r.id, r.token)
  BY Zenon DEF Lawful
<1>4. /\ \A h \in op.held : From(h.segment.id, h.known)
      /\ \A u \in op.tokens : From(u.id, u.token)
  BY Marks, Zenon DEF From
<1> QED
  BY <1>2, <1>3, <1>4, Zenon

\* Rounds and operations go on with what they had, or what is listed.
LEMMA PlacesKept ==
  ASSUME Lawful, op' = op \/ op' = NoOp, NEW S, Places(S),
         SegmentsOf(IF SegmentIds = {} THEN 0..(initialSegments - 1) ELSE SegmentIds) \subseteq S
  PROVE  Places(S)'
<1>1. NoOp.held = {} /\ NoOp.todo = <<>>
  BY Zenon DEF NoOp
<1>2. <<>> \in Seq(S)
  BY SMT
<1>3. \A n \in Node : rounds'[n].segments \subseteq S
  BY Zenon DEF Lawful, Places
<1>4. op'.todo \in Seq(S) /\ \A h \in op'.held : h.segment \in S
  BY <1>1, <1>2, Zenon DEF Places
<1> QED
  BY <1>3, <1>4, Zenon DEF Places

\* All segments are segments.
LEMMA WalksAreSegments ==
  ASSUME NEW ids
  PROVE  SegmentsOf(ids) \subseteq Segment
BY Zenon DEF SegmentsOf

\* A step of the claims, for the tokens.
LEMMA StepIsLawful ==
  ASSUME OpInv, Places(Segment), \A w \in workers : w.token.at \in Nat, ClaimStep
  PROVE  Lawful /\ (op' = op \/ op' = NoOp) /\ Places(Segment)'
<1>1. Lawful
  BY StepsAreLawful, Zenon DEF OpInv, Claimed, Places, ClaimStep
<1>2. op' = op \/ op' = NoOp
  BY Zenon DEF ClaimStep
<1>3. Places(Segment)'
  BY <1>1, <1>2, PlacesKept, WalksAreSegments, Zenon
<1> QED
  BY <1>1, <1>2, <1>3, Zenon

\* It keeps tokens level,
LEMMA LevelStep ==
  ASSUME OpInv, Places(Segment), AllLevel, ClaimStep, misreplayed = {}
  PROVE  Places(Segment)' /\ AllLevel' /\ misreplayed' = {}
<1>1. \A w \in workers : Level(w.token)
  BY Marks, Zenon DEF AllLevel
<1>2. Lawful /\ (op' = op \/ op' = NoOp) /\ Places(Segment)'
  BY <1>1, StepIsLawful, Zenon DEF Level
<1>3. ASSUME NEW i, NEW t, Marked(i, t)' PROVE Level(t)
  <2>1. From(i, t)
    BY <1>2, <1>3, MarksTraced, Zenon
  <2>2. CASE Progress(i, t)
    <3>1. PICK w \in workers, p \in Event : p > w.token.at /\ t = AdvanceTokenTo(w.token, p)
      BY <2>2, Zenon DEF Progress
    <3>2. p \in Nat
      BY ClaimsAssumption DEF Event
    <3> QED
      BY <1>1, <3>1, <3>2, LevelAdvances, Zenon
  <2> QED
    BY <2>1, <2>2, PlainTokens, Zenon DEF From, AllLevel
<1>4. \A w \in workers : ~Replaying(w.token)
  BY <1>1 DEF Replaying, Level
<1>5. misreplayed' = {}
  BY <1>2, <1>4, Zenon DEF Lawful
<1> QED
  BY <1>2, <1>3, <1>5, Zenon DEF AllLevel

\* The set-up's segments have the set-up's ids.
LEMMA WholeIds ==
  ASSUME Typed, NEW s \in Whole
  PROVE  s.id \in 0..(initialSegments - 1) /\ s \in Segment
<1>1. s.id # 0 => s.id \in 0..(initialSegments - 1)
  BY WalkEndsAtIds, Zenon DEF Whole
<1> QED
  BY <1>1, ZeroIsSetUp, WalksAreSegments, Zenon DEF Whole

\* and known.
LEMMA KnownStep ==
  ASSUME OpInv, AllKnown, ClaimStep, misreplayed = {}
  PROVE  AllKnown' /\ misreplayed' = {}
<1>1. PICK W : W = Whole
  BY Zenon
<1>2. \A i, t : Marked(i, t) => Known(W, i, t, handled)
  BY <1>1, Zenon DEF AllKnown
<1>3. \A w \in workers : Known(W, w.segment.id, w.token, handled) /\ w.segment \in W
  BY <1>1, <1>2, Marks, Zenon DEF AllKnown
<1>4. W \subseteq Segment
  BY <1>1, WalksAreSegments, Zenon DEF Whole
<1>5. Places(W)
  BY <1>1, Zenon DEF AllKnown
<1>6. Places(Segment)
  <2>1. op.todo \in Seq(Segment)
    BY <1>4, <1>5 DEF Places
  <2> QED
    BY <1>4, <1>5, <2>1, Zenon DEF Places
<1>7. Lawful /\ (op' = op \/ op' = NoOp)
  BY <1>3, <1>6, StepIsLawful, Zenon DEF Known
<1>8. W = Whole'
  BY <1>1, <1>7, Zenon DEF Lawful, Whole
<1>9. \A s, o \in W : s.id = o.id => s = o
  BY <1>1, OneById, Zenon DEF Whole
<1>10. ASSUME NEW i, NEW t, Marked(i, t)' PROVE Known(W, i, t, handled')
  <2>1. From(i, t) /\ handled \subseteq handled'
    BY <1>7, <1>10, MarksTraced, Zenon DEF Lawful
  <2>2. CASE Marked(i, t)
    BY <1>2, <2>1, <2>2, Zenon DEF Known
  <2>3. CASE Progress(i, t)
    <3>1. PICK w \in workers, p \in Event :
            /\ i = w.segment.id /\ p > w.token.at /\ t = AdvanceTokenTo(w.token, p)
            /\ \A e \in Accepted(w) : e <= p /\ ~HandledByMergedHalf(w.token, Hash[e], e) => e \in handled'
      BY <2>3, Zenon DEF Progress
    <3>2. w.token.halves = {}
      BY <1>3, Zenon DEF Known
    <3>3. \A e \in Event : InSegment(w.segment, Hash[e]) /\ e > w.token.at /\ e <= p => e \in handled'
      BY <3>1, <3>2, Zenon DEF HandledByMergedHalf, Accepted
    <3>4. PICK s, u : s \in W /\ s = w.segment /\ u = w.token
      BY <1>3, Zenon
    <3>5. Known(W, s.id, AdvanceTokenTo(u, p), handled')
      <4>1. Known(W, s.id, u, handled) /\ p > u.at
        BY <1>3, <3>1, <3>4, Zenon
      <4>2. \A e \in Event : InSegment(s, Hash[e]) /\ e > u.at /\ e <= p => e \in handled'
        BY <3>3, <3>4, Zenon
      <4>3. \A o \in W : o.id = s.id => o = s
        BY <1>9, <3>4, Zenon
      <4>4. PICK done, new : done = handled /\ new = handled'
        BY Zenon
      <4>5. Known(W, s.id, AdvanceTokenTo(u, p), new)
        <5>1. s \in W
          BY <3>4, Zenon
        <5> QED
          BY <2>1, <4>1, <4>2, <4>3, <4>4, <5>1, KnownAdvances, Zenon
      <4> QED
        BY <4>4, <4>5, Zenon
    <3> QED
      BY <3>1, <3>4, <3>5, Zenon
  <2> QED
    BY <2>1, <2>2, <2>3, PlainTokens, Zenon DEF From
<1>11. (IF SegmentIds = {} THEN 0..(initialSegments - 1) ELSE SegmentIds) = 0..(initialSegments - 1)
  BY Zenon DEF AllKnown
<1>12. Places(W)'
  <2>1. SegmentsOf(IF SegmentIds = {} THEN 0..(initialSegments - 1) ELSE SegmentIds) \subseteq W
    BY <1>1, <1>11, Zenon DEF Whole
  <2> QED
    BY <1>5, <1>7, <2>1, PlacesKept, Zenon
<1>13. (\A c \in claims' : c.segment \in W) /\ (\A w \in workers' : w.segment \in W)
  BY <1>1, <1>3, <1>5, <1>7, Zenon DEF Lawful, AllKnown, Places
<1>14. SegmentIds' = {} \/ SegmentIds' = 0..(initialSegments' - 1)
  <2>1. ASSUME NEW c \in claims, SegmentIds' = SegmentIds \cup {c.segment.id}
        PROVE  SegmentIds' = 0..(initialSegments - 1)
    <3>1. rows[0].there
      BY Zenon DEF OpInv, Rooted, Bare
    <3>2. SegmentIds = 0..(initialSegments - 1)
      BY <3>1, ZeroIsAnId, Zenon DEF AllKnown, SegmentIds
    <3>3. c.segment.id \in 0..(initialSegments - 1)
      BY WholeIds, Zenon DEF AllKnown, OpInv
    <3> QED
      BY <2>1, <3>2, <3>3, Zenon
  <2> QED
    BY <1>7, <2>1, Zenon DEF Lawful, AllKnown
<1>15. misreplayed' = {}
  <2> SUFFICES ASSUME NEW e \in misreplayed' PROVE FALSE
    BY Zenon
  <2>1. PICK w \in workers : e \notin handled /\ e \in Accepted(w) /\ e <= w.token.reset
    BY <1>7, Zenon DEF Lawful
  <2>2. e \in Event /\ InSegment(w.segment, Hash[e])
    BY <2>1, Zenon DEF Accepted
  <2> QED
    BY <1>3, <2>1, <2>2, Zenon DEF Known
<1> QED
  BY <1>8, <1>10, <1>12, <1>13, <1>14, <1>15, Zenon DEF AllKnown

-----------------------------------------------------------------------------
(* Tokens in the steps of an operation. *)

\* What a step does that only moves tokens about.
Steady ==
  /\ \A i, t : Marked(i, t)' => Marked(i, t) \/ t = Plain(0)
  /\ \A w \in workers' : (\E v \in workers : w.segment = v.segment) \/ (\E h \in op.held : w.segment = h.segment)
  /\ \A c \in claims' : c \in claims \/ (op.todo # <<>> /\ c.segment = Head(op.todo))
  /\ UNCHANGED <<initialSegments, rounds, handled, misreplayed>>
  /\ SegmentIds' = SegmentIds \/ \E c \in claims : SegmentIds' = SegmentIds \cup {c.segment.id}
  /\ \/ op' = NoOp
     \/ op'.kind = op.kind /\ op'.todo = op.todo /\ op'.held = op.held
     \/ /\ op'.kind = op.kind /\ op.todo # <<>> /\ op'.todo = Tail(op.todo)
        /\ \A h \in op'.held : h \in op.held \/ h.segment = Head(op.todo)

\* It stays where it was,
LEMMA SteadyPlaces ==
  ASSUME Steady, NEW S, Places(S)
  PROVE  Places(S)'
<1>1. NoOp.held = {} /\ NoOp.todo = <<>>
  BY Zenon DEF NoOp
<1>2. <<>> \in Seq(S)
  BY SMT
<1>3. op.todo \in Seq(S) /\ \A h \in op.held : h.segment \in S
  BY Zenon DEF Places
<1>4. op.todo # <<>> => Head(op.todo) \in S /\ Tail(op.todo) \in Seq(S)
  BY <1>3
<1>5. op'.todo \in Seq(S) /\ \A h \in op'.held : h.segment \in S
  BY <1>1, <1>2, <1>3, <1>4, Zenon DEF Steady
<1> QED
  BY <1>5, Zenon DEF Steady, Places

\* keeps tokens level,
LEMMA SteadyLevel ==
  ASSUME Steady, AllLevel
  PROVE  AllLevel'
BY PlainTokens, Zenon DEF Steady, AllLevel

\* and known.
LEMMA SteadyKnown ==
  ASSUME OpInv, Steady, AllKnown
  PROVE  AllKnown'
<1>1. PICK W : W = Whole
  BY Zenon
<1>2. W = Whole' /\ UNCHANGED <<initialSegments, handled>>
  BY <1>1, Zenon DEF Steady, Whole
<1>3. \A i, t : Marked(i, t)' => Known(W, i, t, handled)
  BY <1>1, PlainTokens, Zenon DEF Steady, AllKnown
<1>4. Places(W) /\ Places(W)'
  BY <1>1, SteadyPlaces, Zenon DEF AllKnown
<1>5. op.todo # <<>> => Head(op.todo) \in W
  BY <1>4 DEF Places
<1>6. (\A c \in claims' : c.segment \in W) /\ (\A w \in workers' : w.segment \in W)
  BY <1>1, <1>4, <1>5, Zenon DEF Steady, AllKnown, Places
<1>7. SegmentIds' = {} \/ SegmentIds' = 0..(initialSegments - 1)
  <2>1. ASSUME NEW c \in claims, SegmentIds' = SegmentIds \cup {c.segment.id}
        PROVE  SegmentIds' = 0..(initialSegments - 1)
    <3>1. rows[0].there
      BY Zenon DEF OpInv, Rooted, Bare
    <3>2. SegmentIds = 0..(initialSegments - 1)
      BY <3>1, ZeroIsAnId, Zenon DEF AllKnown, SegmentIds
    <3>3. c.segment.id \in 0..(initialSegments - 1)
      BY WholeIds, Zenon DEF AllKnown, OpInv
    <3> QED
      BY <2>1, <3>2, <3>3, Zenon
  <2> QED
    BY <2>1, Zenon DEF Steady, AllKnown
<1> QED
  BY <1>2, <1>3, <1>4, <1>6, <1>7, Zenon DEF AllKnown

\* A release leaves the token.
LEMMA ReleasedTokens ==
  ASSUME NEW n, NEW ids, NEW table
  PROVE  \A i \in Ids : Releases(n, ids, table)[i].token = table[i].token
<1> DEFINE new == Releases(n, ids, table)
<1>1. \A row : ReleasedRow(row).token = row.token
  BY Zenon DEF ReleasedRow
<1>2. \A i \in Ids : new[i] = ReleasedRow(table[i]) \/ new[i] = table[i]
  BY Zenon DEF Releases
<1> HIDE DEF new
<1>3. \A i \in Ids : new[i].token = table[i].token
  BY <1>1, <1>2, Zenon
<1> QED
  BY <1>3, Zenon DEF new

\* Workers for what is resumed, and those there were.
LEMMA ResumedTokens ==
  ASSUME NEW n, NEW on, NEW R,
         workers' = IF on THEN WithWorkers({StartedWorker(n, s.segment, s.token) : s \in R}) ELSE workers
  PROVE  \A w \in workers' : \/ \E s \in R : w.segment = s.segment /\ w.token = s.token
                             \/ \E o \in workers : w.segment = o.segment /\ w.token = o.token
<1>1. CASE ~on
  BY <1>1, Zenon
<1>2. CASE on
  <2>1. PICK new : new = {StartedWorker(n, s.segment, s.token) : s \in R}
    BY Zenon
  <2>2. workers' = WithWorkers(new)
    BY <1>2, <2>1, Zenon DEF WithWorkers
  <2>3. \A w \in workers' : w \in new \/ \E o \in workers : w.segment = o.segment /\ w.token = o.token
    BY <2>2, StartedTokens, Zenon DEF WithWorkers
  <2>4. ASSUME NEW w \in new PROVE \E s \in R : w.segment = s.segment /\ w.token = s.token
    <3>1. PICK s \in R : w = StartedWorker(n, s.segment, s.token)
      BY <2>1, Zenon
    <3>2. w.segment = s.segment /\ w.token = s.token
      BY <3>1, Zenon DEF StartedWorker
    <3> QED
      BY <3>2, Zenon
  <2> QED
    BY <2>3, <2>4, Zenon
<1> QED
  BY <1>1, <1>2, Zenon

\* What is given back is worked on from a token that was read or known.
LEMMA SteadyGivenBack ==
  ASSUME NEW tokens, \A u \in tokens : Marked(u.id, u.token), GiveBack(tokens),
         UNCHANGED <<initialSegments, rounds, renewals, handled, misreplayed>>, claims' \subseteq claims
  PROVE  Steady
<1> DEFINE Tok(h) == IF \E t \in tokens : t.id = h.segment.id /\ t.token # Plain(0)
                       THEN (CHOOSE t \in tokens : t.id = h.segment.id).token
                       ELSE h.known
           Back == {[segment |-> h.segment, token |-> Tok(h)] : h \in {g \in op.held : g.how = "held"}}
<1>1. PICK n, R, on : n = op.node /\ R = Back /\ on = (up[n] = "running")
  BY Zenon
<1>2. workers' = IF on THEN WithWorkers({StartedWorker(n, s.segment, s.token) : s \in R}) ELSE workers
  BY <1>1, Zenon DEF GiveBack, Resume
<1>3. op' = NoOp /\ rows' = Releases(n, LetGo(n), rows)
  BY <1>1, Zenon DEF GiveBack, Releases, LetGo
<1>4. ASSUME NEW h \in op.held PROVE Marked(h.segment.id, Tok(h))
  <2>1. CASE \E t \in tokens : t.id = h.segment.id /\ t.token # Plain(0)
    <3>1. PICK t : t = CHOOSE u \in tokens : u.id = h.segment.id
      BY Zenon
    <3>2. t \in tokens /\ t.id = h.segment.id
      BY <2>1, <3>1, Zenon
    <3>3. Tok(h) = t.token
      BY <2>1, <3>1, Zenon
    <3> HIDE DEF Tok
    <3>4. Marked(t.id, t.token)
      BY <3>2, Zenon
    <3> QED
      BY <3>2, <3>3, <3>4, Zenon
  <2>2. CASE ~\E t \in tokens : t.id = h.segment.id /\ t.token # Plain(0)
    BY <2>2, Marks, Zenon
  <2> QED
    BY <2>1, <2>2, Zenon
<1> HIDE DEF Tok
<1>5. ASSUME NEW s \in R PROVE (\E h \in op.held : s.segment = h.segment) /\ Marked(s.segment.id, s.token)
  <2>1. PICK h \in op.held : s = [segment |-> h.segment, token |-> Tok(h)]
    BY <1>1, Zenon
  <2>2. s.segment = h.segment /\ s.token = Tok(h)
    BY <2>1, Zenon
  <2> QED
    BY <1>4, <2>2, Zenon
<1>6. \A w \in workers' : \/ \E s \in R : w.segment = s.segment /\ w.token = s.token
                          \/ \E o \in workers : w.segment = o.segment /\ w.token = o.token
  BY <1>2, ResumedTokens DEF WithWorkers, StartedWorker
<1>7. \A w \in workers' : /\ Marked(w.segment.id, w.token)
                          /\ (\E v \in workers : w.segment = v.segment) \/ (\E h \in op.held : w.segment = h.segment)
  <2> SUFFICES ASSUME NEW w \in workers'
               PROVE  /\ Marked(w.segment.id, w.token)
                      /\ (\E v \in workers : w.segment = v.segment) \/ (\E h \in op.held : w.segment = h.segment)
    BY Zenon
  <2>1. CASE \E s \in R : w.segment = s.segment /\ w.token = s.token
    BY <1>5, <2>1, Zenon
  <2>2. CASE \E o \in workers : w.segment = o.segment /\ w.token = o.token
    <3>1. PICK o \in workers : w.segment = o.segment /\ w.token = o.token
      BY <2>2, Zenon
    <3>2. Marked(o.segment.id, o.token)
      BY Marks, Zenon
    <3> QED
      BY <3>1, <3>2, Zenon
  <2> QED
    BY <1>6, <2>1, <2>2, Zenon
<1>8. \A i \in Ids : rows'[i].token = rows[i].token /\ rows'[i].there = rows[i].there
  <2>1. PICK ids, table : ids = LetGo(n) /\ table = rows
    BY Zenon
  <2>2. rows' = Releases(n, ids, table)
    BY <1>3, <2>1, Zenon DEF Releases
  <2>3. \A i \in Ids : Releases(n, ids, table)[i].token = table[i].token
    BY ReleasedTokens, Zenon DEF Releases
  <2>4. \A i \in Ids : Releases(n, ids, table)[i].there = table[i].there
    BY Released, Zenon DEF Releases
  <2> QED
    BY <2>1, <2>2, <2>3, <2>4, Zenon
<1>9. \A i, t : Marked(i, t)' => Marked(i, t)
  <2> SUFFICES ASSUME NEW i, NEW t, Marked(i, t)' PROVE Marked(i, t)
    BY Zenon
  <2>1. NoOp.held = {} /\ NoOp.tokens = {}
    BY Zenon DEF NoOp
  <2>2. \/ i \in Ids /\ t = rows'[i].token
        \/ \E c \in claims : i = c.segment.id /\ t = c.row.token
        \/ \E w \in workers' : i = w.segment.id /\ t = w.token
        \/ \E r \in renewals : i = r.id /\ t = r.token
    BY <1>3, <2>1, Zenon DEF Marked
  <2>3. i \in Ids => Marked(i, rows'[i].token)
    BY <1>8, Marks, Zenon
  <2> QED
    BY <1>7, <2>2, <2>3, Marks, Zenon
<1>10. SegmentIds' = SegmentIds
  BY <1>8, SameIds, Zenon
<1> QED
  BY <1>3, <1>7, <1>9, <1>10, Zenon DEF Steady

\* A worker's segment is taken with its token,
LEMMA SteadyTaken ==
  ASSUME OpInv, TakeFromWorker
  PROVE  Steady
<1>1. PICK w \in workers :
       /\ w.node = op.node /\ w.segment.id = Head(op.todo).id /\ w.current
       /\ workers' = workers \ {w}
       /\ rows' = IF w.unwritten /\ Stores(w.node, w.segment.id)
                    THEN [rows EXCEPT ![w.segment.id] = StoredRow(w.node, w.token)]
                    ELSE rows
       /\ op' = [op EXCEPT !.todo = Tail(@),
                           !.held = @ \cup {[segment |-> Head(op.todo), how |-> "held", known |-> w.token]}]
  BY Zenon DEF TakeFromWorker
<1>2. op.todo # <<>> /\ UNCHANGED <<initialSegments, rounds, claims, renewals, handled, misreplayed>>
  BY Zenon DEF TakeFromWorker, Kept, history
<1>3. PICK h : h = [segment |-> Head(op.todo), how |-> "held", known |-> w.token]
  BY Zenon
<1>4. h.segment = Head(op.todo) /\ h.known = w.token
  BY <1>3, Zenon
<1>5. op' = [op EXCEPT !.todo = Tail(@), !.held = @ \cup {h}]
  BY <1>1, <1>3, Zenon
<1>6. op'.kind = op.kind /\ op'.todo = Tail(op.todo) /\ op'.held = op.held \cup {h} /\ op'.tokens = op.tokens
  BY <1>5, TakenFields, Zenon DEF OpInv
<1>7. StoredRow(w.node, w.token).there = TRUE /\ StoredRow(w.node, w.token).token = w.token
  BY Zenon DEF StoredRow
<1>8. \A i \in Ids : \/ rows'[i] = rows[i]
                     \/ i = w.segment.id /\ rows[i].there /\ rows'[i] = StoredRow(w.node, w.token)
  BY <1>1, Zenon DEF OpInv, Typed, Stores
<1>9. \A i \in Ids : rows[i].there \in BOOLEAN /\ rows[i].there => rows'[i].there = rows[i].there
  BY <1>7, <1>8, Zenon
<1>10. SegmentIds' = SegmentIds
  BY <1>7, <1>8, Zenon DEF SegmentIds
<1>11. ASSUME NEW i, NEW t, Marked(i, t)' PROVE Marked(i, t)
  <2>1. Marked(w.segment.id, w.token)
    BY Marks, Zenon
  <2>2. \A j \in Ids : Marked(j, rows'[j].token)
    BY <1>7, <1>8, <2>1, Marks, Zenon
  <2>3. Marked(h.segment.id, h.known)
    BY <1>1, <1>4, <2>1, Zenon
  <2>4. \/ i \in Ids /\ t = rows'[i].token
        \/ \E c \in claims : i = c.segment.id /\ t = c.row.token
        \/ \E v \in workers : i = v.segment.id /\ t = v.token
        \/ \E r \in renewals : i = r.id /\ t = r.token
        \/ \E g \in op.held : i = g.segment.id /\ t = g.known
        \/ i = h.segment.id /\ t = h.known
        \/ \E u \in op.tokens : i = u.id /\ t = u.token
    BY <1>1, <1>2, <1>6, <1>11, Zenon DEF Marked
  <2> QED
    BY <2>2, <2>3, <2>4, Marks, Zenon
<1>12. \A g \in op'.held : g \in op.held \/ g.segment = Head(op.todo)
  BY <1>4, <1>6, Zenon
<1>13. \A v \in workers' : v \in workers
  BY <1>1, Zenon
<1> QED
  BY <1>2, <1>6, <1>10, <1>11, <1>12, <1>13, Zenon DEF Steady

\* another's is claimed with the token of its row,
LEMMA SteadyClaiming ==
  ASSUME OpInv, Places(Segment), ClaimForOperation
  PROVE  Steady
<1>1. op.todo # <<>> /\ UNCHANGED <<initialSegments, rounds, renewals, handled, misreplayed>>
  BY Zenon DEF ClaimForOperation, Kept, history
<1>2. CASE GiveBack({}) /\ UNCHANGED claims
  <2>1. PICK none : none = {}
    BY Zenon
  <2>2. GiveBack(none) /\ \A u \in none : Marked(u.id, u.token)
    BY <1>1, <1>2, <2>1, Zenon
  <2>3. claims' \subseteq claims
    BY <1>1, <1>2, Zenon
  <2> QED
    BY <1>1, <2>2, <2>3, SteadyGivenBack, Zenon DEF GiveBack
<1>3. CASE ~(GiveBack({}) /\ UNCHANGED claims)
  <2>1. PICK d : d = [node |-> op.node, segment |-> Head(op.todo), row |-> rows[Head(op.todo).id], operation |-> TRUE]
    BY Zenon
  <2>2. claims' = claims \cup {d} /\ UNCHANGED <<rows, workers, op>>
    BY <1>3, <2>1, Zenon DEF ClaimForOperation
  <2>3. d.segment = Head(op.todo) /\ d.row = rows[d.segment.id]
    BY <2>1, Zenon
  <2>4. Head(op.todo) \in Segment
    BY <1>1 DEF Places
  <2>5. d.segment.id \in Ids
    BY <2>3, <2>4, Zenon DEF Segment
  <2>6. Marked(d.segment.id, d.row.token)
    BY <2>3, <2>5, Marks, Zenon
  <2>7. ASSUME NEW i, NEW t, Marked(i, t)' PROVE Marked(i, t)
    <3>1. Marked(i, t) \/ (i = d.segment.id /\ t = d.row.token)
      BY <1>1, <2>2, <2>7, Zenon DEF Marked
    <3> QED
      BY <2>6, <3>1, Zenon
  <2>8. SegmentIds' = SegmentIds
    BY <2>2, Zenon DEF SegmentIds
  <2>9. \A c \in claims' : c \in claims \/ c.segment = Head(op.todo)
    BY <2>2, <2>3, Zenon
  <2> QED
    BY <1>1, <2>2, <2>7, <2>8, <2>9, Zenon DEF Steady
<1> QED
  BY <1>2, <1>3, Zenon

\* or a new row's,
LEMMA SteadyClaimed ==
  ASSUME OpInv, Places(Segment), NEW c \in claims, ClaimedForOperation(c)
  PROVE  Steady
<1>1. /\ c.operation /\ claims' = claims \ {c}
      /\ UNCHANGED <<initialSegments, rounds, renewals, handled, misreplayed>>
  BY Zenon DEF ClaimedForOperation, Kept, history
<1>2. claims' \subseteq claims /\ op.todo # <<>> /\ c.segment = Head(op.todo)
  BY <1>1, Zenon DEF OpInv, Claimed
<1>3. CASE GiveBack({})
  <2>1. PICK none : none = {}
    BY Zenon
  <2>2. GiveBack(none) /\ \A u \in none : Marked(u.id, u.token)
    BY <1>1, <1>2, <1>3, <2>1, Zenon
  <2>3. claims' \subseteq claims
    BY <1>1, <1>2, <1>3, Zenon
  <2> QED
    BY <1>1, <2>2, <2>3, SteadyGivenBack, Zenon DEF GiveBack
<1>4. CASE ~GiveBack({})
  <2>1. PICK h : h = [segment |-> c.segment, how |-> "claimed", known |-> c.row.token]
    BY Zenon
  <2>2. /\ rows' = [rows EXCEPT ![c.segment.id] = ClaimedRow(c)]
        /\ op' = [op EXCEPT !.todo = Tail(@), !.held = @ \cup {h}]
        /\ UNCHANGED workers
    BY <1>4, <2>1, Zenon DEF ClaimedForOperation
  <2>3. h.segment = c.segment /\ h.known = c.row.token
    BY <2>1, Zenon
  <2>4. PICK i : i = c.segment.id
    BY Zenon
  <2>5. i \in Ids
    <3>1. Head(op.todo) \in Segment
      BY <1>2 DEF Places
    <3> QED
      BY <1>2, <2>4, <3>1, Zenon DEF Segment
  <2>6. rows'[i] = ClaimedRow(c) /\ \A j \in Ids : j # i => rows'[j] = rows[j]
    BY <2>2, <2>4, <2>5, Zenon DEF OpInv, Typed
  <2>7. op'.kind = op.kind /\ op'.todo = Tail(op.todo) /\ op'.held = op.held \cup {h} /\ op'.tokens = op.tokens
    BY <2>2, TakenFields, Zenon DEF OpInv
  <2>8. ASSUME NEW j \in Ids PROVE Marked(j, rows'[j].token) \/ rows'[j].token = Plain(0)
    <3>1. Marked(j, rows[j].token)
      BY Marks, Zenon
    <3>2. CASE j # i
      BY <2>6, <3>1, <3>2, Zenon
    <3>3. CASE j = i
      <4>1. ClaimedRow(c).token = Plain(0) \/ ClaimedRow(c).token = rows[i].token
        BY <2>4, ClaimTokens, Zenon DEF ClaimedRow
      <4> QED
        BY <2>6, <3>1, <3>3, <4>1, Zenon
    <3> QED
      BY <3>2, <3>3, Zenon
  <2>9. Marked(h.segment.id, h.known)
    BY <2>3, Marks, Zenon
  <2>10. ASSUME NEW j, NEW t, Marked(j, t)' PROVE Marked(j, t) \/ t = Plain(0)
    <3>1. \/ j \in Ids /\ t = rows'[j].token
          \/ \E d \in claims : j = d.segment.id /\ t = d.row.token
          \/ \E v \in workers : j = v.segment.id /\ t = v.token
          \/ \E r \in renewals : j = r.id /\ t = r.token
          \/ \E g \in op.held : j = g.segment.id /\ t = g.known
          \/ j = h.segment.id /\ t = h.known
          \/ \E u \in op.tokens : j = u.id /\ t = u.token
      BY <1>1, <1>2, <2>2, <2>7, <2>10, Zenon DEF Marked
    <3> QED
      BY <2>8, <2>9, <3>1, Marks, Zenon
  <2>11. SegmentIds' = SegmentIds \/ SegmentIds' = SegmentIds \cup {c.segment.id}
    <3>1. ClaimedRow(c).there \/ ClaimedRow(c) = rows[i]
      BY <2>4, ClaimLands, Zenon DEF ClaimedRow
    <3> QED
      BY <2>4, <2>5, <2>6, <3>1, Zenon DEF SegmentIds
  <2>12. \A g \in op'.held : g \in op.held \/ g.segment = Head(op.todo)
    BY <1>2, <2>3, <2>7, Zenon
  <2> QED
    BY <1>1, <1>2, <2>2, <2>7, <2>10, <2>11, <2>12, Zenon DEF Steady
<1> QED
  BY <1>3, <1>4, Zenon

\* and the tokens read are those of the rows.
LEMMA SteadyRead ==
  ASSUME OpInv, Places(Segment), ReadTokens
  PROVE  Steady
<1>1. PICK tokens : tokens = {[id |-> h.segment.id, token |-> rows[h.segment.id].token] : h \in op.held}
  BY Zenon
<1>2. UNCHANGED <<claims, initialSegments, rounds, renewals, handled, misreplayed>>
  BY Zenon DEF ReadTokens, Kept, history
<1>3. \/ GiveBack(tokens)
      \/ op' = [op EXCEPT !.tokens = tokens, !.read = TRUE] /\ UNCHANGED <<rows, workers>>
  BY <1>1, Zenon DEF ReadTokens, GiveBack
<1>4. ASSUME NEW u \in tokens PROVE Marked(u.id, u.token)
  <2>1. PICK h \in op.held : u = [id |-> h.segment.id, token |-> rows[h.segment.id].token]
    BY <1>1, Zenon
  <2>2. u.id = h.segment.id /\ u.token = rows[h.segment.id].token
    BY <2>1, Zenon
  <2>3. h.segment.id \in Ids
    BY Zenon DEF Places, Segment
  <2> QED
    BY <2>2, <2>3, Marks, Zenon
<1>5. CASE GiveBack(tokens)
  BY <1>2, <1>4, <1>5, SteadyGivenBack, Zenon DEF GiveBack
<1>6. CASE op' = [op EXCEPT !.tokens = tokens, !.read = TRUE] /\ UNCHANGED <<rows, workers>>
  <2>1. op'.kind = op.kind /\ op'.todo = op.todo /\ op'.held = op.held /\ op'.tokens = tokens
    BY <1>6, ReadFields, Zenon DEF OpInv
  <2>2. ASSUME NEW i, NEW t, Marked(i, t)' PROVE Marked(i, t)
    <3>1. Marked(i, t) \/ \E u \in tokens : i = u.id /\ t = u.token
      BY <1>2, <1>6, <2>1, <2>2, Zenon DEF Marked
    <3> QED
      BY <1>4, <3>1, Zenon
  <2>3. SegmentIds' = SegmentIds
    BY <1>6, Zenon DEF SegmentIds
  <2> QED
    BY <1>2, <1>6, <2>1, <2>2, <2>3, Zenon DEF Steady
<1> QED
  BY <1>3, <1>5, <1>6, Zenon

\* A refused operation gives back what it has.
LEMMA SteadyRefused ==
  ASSUME GiveBack(op.tokens), UNCHANGED <<initialSegments, rounds, renewals, handled, misreplayed, claims>>
  PROVE  Steady
<1>1. PICK tokens : tokens = op.tokens
  BY Zenon
<1>2. GiveBack(tokens)
  BY <1>1, Zenon DEF GiveBack
<1>3. (\A u \in tokens : Marked(u.id, u.token)) /\ claims' \subseteq claims
  BY <1>1, Marks, Zenon
<1> QED
  BY <1>2, <1>3, SteadyGivenBack, Zenon DEF GiveBack

\* A step that ends the operation with level tokens in rows and workers.
LEMMA LevelWritten ==
  ASSUME AllLevel, Places(Segment), UNCHANGED <<rounds, claims, renewals>>, op' = NoOp,
         \A i \in Ids : Level(rows'[i].token), \A w \in workers' : Level(w.token)
  PROVE  AllLevel' /\ Places(Segment)'
<1>1. NoOp.held = {} /\ NoOp.tokens = {} /\ NoOp.todo = <<>>
  BY Zenon DEF NoOp
<1>2. ASSUME NEW i, NEW t, Marked(i, t)' PROVE Level(t)
  <2>1. \/ i \in Ids /\ t = rows'[i].token
        \/ \E w \in workers' : i = w.segment.id /\ t = w.token
        \/ Marked(i, t)
    BY <1>1, <1>2, Zenon DEF Marked
  <2> QED
    BY <2>1, Zenon DEF AllLevel
<1>3. <<>> \in Seq(Segment)
  BY SMT
<1> QED
  BY <1>1, <1>2, <1>3, Zenon DEF AllLevel, Places

\* Released or not, the rows have the tokens of the table.
LEMMA SettledTokens ==
  ASSUME NEW n, NEW ids, NEW table, NEW on, rows' = IF on THEN table ELSE Releases(n, ids, table)
  PROVE  \A i \in Ids : rows'[i].token = table[i].token
<1>1. CASE on
  BY <1>1, Zenon
<1>2. CASE ~on
  <2>1. rows' = Releases(n, ids, table)
    BY <1>2, Zenon DEF Releases
  <2>2. \A i \in Ids : Releases(n, ids, table)[i].token = table[i].token
    BY ReleasedTokens, Zenon DEF Releases
  <2> QED
    BY <2>1, <2>2, Zenon
<1> QED
  BY <1>1, <1>2, Zenon

\* Both halves of a split go on from the one token.
LEMMA LevelSplit ==
  ASSUME OpInv, Places(Segment), AllLevel, Split
  PROVE  Places(Segment)' /\ AllLevel' /\ UNCHANGED misreplayed
<1>1. /\ op.kind = "split" /\ op.read
      /\ UNCHANGED <<claims, initialSegments, rounds, renewals, handled, misreplayed>>
  BY Zenon DEF Split, Kept, history
<1>2. CASE GiveBack(op.tokens)
  BY <1>1, <1>2, SteadyRefused, SteadyPlaces, SteadyLevel, Zenon DEF GiveBack
<1>3. CASE ~GiveBack(op.tokens)
  <2>1. PICK n, first, second, token, table, R, on : SplitInto(n, first, second, token, table, R, on)
    BY <1>3, SplitWrites, Zenon
  <2>2. /\ token = TokenOf(op.segment) /\ op' = NoOp
        /\ table = [rows EXCEPT ![second.id] = StoredRow(n, token)]
        /\ R = {[segment |-> s, token |-> token] : s \in {first, second}}
    BY <2>1, Zenon DEF SplitInto, TokenOf
  <2>3. rows' = IF on THEN table ELSE Releases(n, {first.id, second.id}, table)
    BY <2>1, Zenon DEF SplitInto, Releases
  <2>4. workers' = IF on THEN WithWorkers({StartedWorker(n, s.segment, s.token) : s \in R}) ELSE workers
    BY <2>1, Zenon DEF SplitInto, WithWorkers
  <2>5. Level(token)
    <3>1. {t.id : t \in op.tokens} = {op.segment.id}
      <4>1. <<op.segment>> # <<>>
        BY Zenon
      <4> QED
        BY <1>1, <4>1, Zenon DEF OpInv, Sound, About
    <3>2. \E t \in op.tokens : t.id = op.segment.id
      BY <3>1, Zenon
    <3>3. \E t \in op.tokens : token = t.token
      BY <2>2, <3>2, Zenon DEF TokenOf
    <3> QED
      BY <3>3, Marks, Zenon DEF AllLevel
  <2>6. \A i \in Ids : Level(rows'[i].token)
    <3>1. PICK two : two = {first.id, second.id}
      BY Zenon
    <3>2. rows' = IF on THEN table ELSE Releases(n, two, table)
      BY <2>3, <3>1, Zenon
    <3>3. \A i \in Ids : rows'[i].token = table[i].token
      BY <3>2, SettledTokens DEF Releases
    <3>4. \A i \in Ids : table[i] = rows[i] \/ table[i] = StoredRow(n, token)
      BY <2>2, Zenon DEF OpInv, Typed
    <3>5. StoredRow(n, token).token = token /\ \A i \in Ids : Level(rows[i].token)
      BY Marks, Zenon DEF StoredRow, AllLevel
    <3> QED
      BY <2>5, <3>3, <3>4, <3>5, Zenon
  <2>7. \A w \in workers' : Level(w.token)
    <3>1. \A w \in workers' : \/ \E s \in R : w.segment = s.segment /\ w.token = s.token
                              \/ \E o \in workers : w.segment = o.segment /\ w.token = o.token
      BY <2>4, ResumedTokens DEF WithWorkers, StartedWorker
    <3>2. \A s \in R : s.token = token
      <4>1. R = {[segment |-> s, token |-> token] : s \in {first, second}}
        BY <2>2, Zenon
      <4>2. ASSUME NEW x \in R PROVE x.token = token
        <5>1. PICK s : x = [segment |-> s, token |-> token]
          BY <4>1, Zenon
        <5> QED
          BY <5>1, Zenon
      <4> QED
        BY <4>2, Zenon
    <3>3. \A o \in workers : Level(o.token)
      BY Marks, Zenon DEF AllLevel
    <3> QED
      BY <2>5, <3>1, <3>2, <3>3, Zenon
  <2> QED
    BY <1>1, <2>2, <2>6, <2>7, LevelWritten, Zenon
<1> QED
  BY <1>2, <1>3, Zenon

\* The halves of a merge are level, and so is what they are merged into.
LEMMA LevelMerge ==
  ASSUME OpInv, Places(Segment), AllLevel, Merge
  PROVE  Places(Segment)' /\ AllLevel' /\ UNCHANGED misreplayed
<1>1. /\ op.kind = "merge" /\ op.read
      /\ UNCHANGED <<claims, initialSegments, rounds, renewals, handled, misreplayed>>
  BY Zenon DEF Merge, Kept, history
<1>2. CASE GiveBack(op.tokens)
  BY <1>1, <1>2, SteadyRefused, SteadyPlaces, SteadyLevel, Zenon DEF GiveBack
<1>3. CASE ~GiveBack(op.tokens)
  <2>1. PICK n, ids, keep, drop, token, table, r, on : MergeInto(n, ids, keep, drop, token, table, r, on)
    BY <1>3, MergeWrites, Zenon
  <2>2. /\ op' = NoOp
        /\ table = [rows EXCEPT ![keep] = StoredRow(n, token), ![drop] = NoRow]
        /\ r = [segment |-> [id |-> keep, mask |-> op.segment.mask \div 2], token |-> token]
    BY <2>1, Zenon DEF MergeInto
  <2>3. rows' = IF on THEN table ELSE Releases(n, {keep}, table)
    BY <2>1, Zenon DEF MergeInto, Releases
  <2>4. workers' = IF on THEN WithWorkers({StartedWorker(n, s.segment, s.token) : s \in {r}}) ELSE workers
    BY <2>1, Zenon DEF MergeInto, WithWorkers
  <2>5. Level(token)
    <3>1. PICK mask, H : mask = op.segment.mask /\ H = {[segment |-> t.id, at |-> t.token.at] : t \in op.tokens}
      BY Zenon
    <3>2. token = MergedToken(mask, H)
      BY <2>1, <3>1, Zenon DEF MergeInto
    <3>3. \E t \in op.tokens : TRUE
      <4>1. \A x, y : <<x, y>> # <<>> /\ <<y>> # <<>>
        BY Zenon
      <4>2. \E i : i \in HeldIds
        BY <1>1, <4>1, Zenon DEF OpInv, Sound, About
      <4> QED
        BY <1>1, <4>2, Zenon DEF OpInv, Sound
    <3>4. H # {}
      BY <3>1, <3>3, Zenon
    <3>5. ASSUME NEW h \in H PROVE h.at \in Nat
      <4>1. PICK t \in op.tokens : h = [segment |-> t.id, at |-> t.token.at]
        BY <3>1, Zenon
      <4>2. h.at = t.token.at /\ Level(t.token)
        BY <4>1, Marks, Zenon DEF AllLevel
      <4> QED
        BY <4>2, Zenon DEF Level
    <3> QED
      BY <3>2, <3>4, <3>5, MergedLevel, Zenon
  <2>6. \A i \in Ids : Level(rows'[i].token)
    <3>1. PICK one : one = {keep}
      BY Zenon
    <3>2. rows' = IF on THEN table ELSE Releases(n, one, table)
      BY <2>3, <3>1, Zenon
    <3>3. \A i \in Ids : rows'[i].token = table[i].token
      BY <3>2, SettledTokens DEF Releases
    <3>4. \A i \in Ids : table[i] = rows[i] \/ table[i] = StoredRow(n, token) \/ table[i] = NoRow
      BY <2>2, Zenon DEF OpInv, Typed
    <3>5. /\ StoredRow(n, token).token = token /\ NoRow.token = Plain(0)
          /\ \A i \in Ids : Level(rows[i].token)
      BY Marks, Zenon DEF StoredRow, NoRow, AllLevel
    <3> QED
      BY <2>5, <3>3, <3>4, <3>5, PlainTokens, Zenon
  <2>7. \A w \in workers' : Level(w.token)
    <3>1. PICK R : R = {r}
      BY Zenon
    <3>2. workers' = IF on THEN WithWorkers({StartedWorker(n, s.segment, s.token) : s \in R}) ELSE workers
      BY <2>4, <3>1, Zenon
    <3>3. \A w \in workers' : \/ \E s \in R : w.segment = s.segment /\ w.token = s.token
                              \/ \E o \in workers : w.segment = o.segment /\ w.token = o.token
      BY <3>2, ResumedTokens DEF WithWorkers, StartedWorker
    <3>4. \A s \in R : s.token = token
      <4>1. r.token = token
        BY <2>2, Zenon
      <4> QED
        BY <3>1, <4>1, Zenon
    <3>5. \A o \in workers : Level(o.token)
      BY Marks, Zenon DEF AllLevel
    <3> QED
      BY <2>5, <3>3, <3>4, <3>5, Zenon
  <2> QED
    BY <1>1, <2>2, <2>6, <2>7, LevelWritten, Zenon
<1> QED
  BY <1>2, <1>3, Zenon

\* A replay starts over, and ends where the segment had got to.
LEMMA ResetKnown ==
  ASSUME NEW W, NEW i, NEW t, NEW done, Known(W, i, t, done)
  PROVE  Known(W, i, ResetToken(t), done)
<1>1. ReachedBy(t) = t.reset /\ t.reset \in Nat
  BY Zenon DEF Known, ReachedBy, Merged
<1>2. CASE ResetToken(t) = Plain(0)
  BY <1>2, PlainTokens, Zenon
<1>3. CASE ResetToken(t) = ReplayToken(t.reset, 0)
  <2>1. PICK u : u = ResetToken(t)
    BY Zenon
  <2>2. u.halves = {} /\ u.at = 0 /\ u.reset = t.reset
    <3>1. u = [at |-> 0, reset |-> t.reset, mask |-> 0, halves |-> {}]
      BY <1>3, <2>1, Zenon DEF ReplayToken
    <3> QED
      BY <3>1, Zenon
  <2>3. u.at \in Nat /\ u.reset \in Nat /\ u.at <= u.reset
    BY <1>1, <2>2, SMT
  <2>4. Known(W, i, u, done)
    BY <2>2, <2>3, Zenon DEF Known
  <2> QED
    BY <2>1, <2>4, Zenon
<1> QED
  BY <1>1, <1>2, <1>3, Zenon DEF ResetToken

\* A reset writes such tokens, and leaves the segments.
LEMMA KnownReset ==
  ASSUME OpInv, AllKnown, Reset
  PROVE  AllKnown' /\ UNCHANGED misreplayed
<1>1. PICK n, ids, table : ResetInto(n, ids, table)
  BY ResetWrites, Zenon
<1>2. ids = {t.id : t \in op.tokens} /\ rows' = Releases(n, ids, table)
  BY <1>1, Zenon DEF ResetInto, Releases
<1>3. op' = NoOp /\ UNCHANGED <<claims, workers, initialSegments, rounds, renewals, handled, misreplayed>>
  BY Zenon DEF Reset, Kept
<1>4. table = IF \A i \in ids : Stores(n, i)
                THEN [i \in Ids |->
                        IF i \in ids THEN StoredRow(n, ResetToken((CHOOSE t \in op.tokens : t.id = i).token)) ELSE rows[i]]
                ELSE rows
  BY <1>1, Zenon DEF ResetInto, Stores
<1>5. ASSUME NEW i \in Ids
      PROVE  /\ table[i].there = rows[i].there
             /\ \/ table[i].token = rows[i].token
                \/ \E u : Marked(i, u) /\ table[i].token = ResetToken(u)
  <2>1. CASE table = rows
    BY <2>1, Zenon
  <2>2. CASE table # rows
    <3>1. /\ \A j \in ids : Stores(n, j)
          /\ table[i] = IF i \in ids THEN StoredRow(n, ResetToken((CHOOSE t \in op.tokens : t.id = i).token)) ELSE rows[i]
      BY <1>4, <2>2, Zenon
    <3>2. CASE i \notin ids
      BY <3>1, <3>2, Zenon
    <3>3. CASE i \in ids
      <4>1. PICK t : t = CHOOSE u \in op.tokens : u.id = i
        BY Zenon
      <4>2. t \in op.tokens /\ t.id = i
        BY <1>2, <3>3, <4>1, Zenon
      <4>3. PICK u : u = t.token
        BY Zenon
      <4>4. Marked(i, u)
        BY <4>2, <4>3, Marks, Zenon
      <4>5. table[i] = StoredRow(n, ResetToken(u)) /\ Stores(n, i)
        BY <3>1, <3>3, <4>1, <4>3, Zenon
      <4>6. StoredRow(n, ResetToken(u)).token = ResetToken(u) /\ StoredRow(n, ResetToken(u)).there = TRUE
        BY Zenon DEF StoredRow
      <4>7. table[i].token = ResetToken(u) /\ table[i].there = TRUE
        BY <4>5, <4>6, Zenon
      <4>8. rows[i].there = TRUE
        BY <4>5, Zenon DEF Stores
      <4> QED
        BY <4>4, <4>7, <4>8, Zenon
    <3> QED
      BY <3>2, <3>3, Zenon
  <2> QED
    BY <2>1, <2>2, Zenon
<1>6. \A i \in Ids : rows'[i].token = table[i].token /\ rows'[i].there = table[i].there
  <2>1. \A i \in Ids : Releases(n, ids, table)[i].token = table[i].token
    BY ReleasedTokens, Zenon DEF Releases
  <2>2. \A i \in Ids : Releases(n, ids, table)[i].there = table[i].there
    BY Released, Zenon DEF Releases
  <2> QED
    BY <1>2, <2>1, <2>2, Zenon
<1>7. PICK W : W = Whole
  BY Zenon
<1>8. W = Whole' /\ \A i, t : Marked(i, t) => Known(W, i, t, handled)
  BY <1>3, <1>7, Zenon DEF AllKnown, Whole
<1>9. ASSUME NEW i \in Ids PROVE Known(W, i, rows'[i].token, handled)
  <2>1. CASE table[i].token = rows[i].token
    BY <1>6, <1>8, <2>1, Marks, Zenon
  <2>2. CASE \E u : Marked(i, u) /\ table[i].token = ResetToken(u)
    <3>1. PICK u : Marked(i, u) /\ table[i].token = ResetToken(u)
      BY <2>2, Zenon
    <3>2. Known(W, i, ResetToken(u), handled)
      <4>1. PICK done : done = handled
        BY Zenon
      <4>2. Known(W, i, u, done)
        BY <1>8, <3>1, <4>1, Zenon
      <4>3. Known(W, i, ResetToken(u), done)
        BY <4>2, ResetKnown, Zenon
      <4> QED
        BY <4>1, <4>3, Zenon
    <3> QED
      BY <1>6, <3>1, <3>2, Zenon
  <2> QED
    BY <1>5, <2>1, <2>2, Zenon
<1>10. NoOp.held = {} /\ NoOp.tokens = {} /\ NoOp.todo = <<>>
  BY Zenon DEF NoOp
<1>11. ASSUME NEW i, NEW t, Marked(i, t)' PROVE Known(W, i, t, handled)
  <2>1. (i \in Ids /\ t = rows'[i].token) \/ Marked(i, t)
    BY <1>3, <1>10, <1>11, Zenon DEF Marked
  <2> QED
    BY <1>8, <1>9, <2>1, Zenon
<1>12. SegmentIds' = SegmentIds
  BY <1>5, <1>6, SameIds, Zenon
<1>13. Places(W)'
  <2>1. <<>> \in Seq(W)
    BY SMT
  <2> QED
    BY <1>3, <1>7, <1>10, <2>1, Zenon DEF AllKnown, Places
<1>14. /\ \A c \in claims : c.segment \in W
       /\ \A w \in workers : w.segment \in W
       /\ SegmentIds = {} \/ SegmentIds = 0..(initialSegments - 1)
  BY <1>7, Zenon DEF AllKnown
<1> QED
  BY <1>3, <1>8, <1>11, <1>12, <1>13, <1>14, Zenon DEF AllKnown

\* An operation begins with no token of its own.
LEMMA BegunTokens ==
  ASSUME OpInv, NEW kind, NEW n, NEW s, NEW todo, Begin(kind, n, s, todo)
  PROVE  /\ ops < MaxOps /\ ops' = ops + 1 /\ UNCHANGED misreplayed /\ op'.kind = kind
         /\ \A S : Places(S) /\ todo \in Seq(S) => Places(S)'
         /\ AllLevel => AllLevel'
         /\ AllKnown /\ todo \in Seq(Whole) => AllKnown'
<1>1. op' = [kind |-> kind, node |-> n, segment |-> s, todo |-> todo, held |-> {}, tokens |-> {}, read |-> FALSE]
  BY Zenon DEF Begin
<1>2. op'.kind = kind /\ op'.todo = todo /\ op'.held = {} /\ op'.tokens = {}
  BY <1>1, Zenon
<1>3. ops < MaxOps /\ ops' = ops + 1 /\ UNCHANGED vars
  BY Zenon DEF Begin
<1>4. UNCHANGED <<initialSegments, rows, rounds, claims, workers, renewals, handled, misreplayed>>
  BY <1>3, Zenon DEF vars, claimVars, history
<1>5. ASSUME NEW i, NEW t, Marked(i, t)' PROVE Marked(i, t)
  BY <1>2, <1>4, <1>5, Zenon DEF Marked
<1>6. \A S : Places(S) /\ todo \in Seq(S) => Places(S)'
  BY <1>2, <1>4, Zenon DEF Places
<1>7. AllLevel => AllLevel'
  BY <1>5, Zenon DEF AllLevel
<1>8. ASSUME AllKnown, todo \in Seq(Whole) PROVE AllKnown'
  <2>1. PICK W : W = Whole
    BY Zenon
  <2>2. W = Whole' /\ SegmentIds' = SegmentIds
    BY <1>4, <2>1, Zenon DEF Whole, SegmentIds
  <2>3. Places(W)'
    BY <1>6, <1>8, <2>1, Zenon DEF AllKnown
  <2>4. \A i, t : Marked(i, t)' => Known(W, i, t, handled)
    BY <1>5, <1>8, <2>1, Zenon DEF AllKnown
  <2>5. /\ \A c \in claims : c.segment \in W
        /\ \A w \in workers : w.segment \in W
        /\ SegmentIds = {} \/ SegmentIds = 0..(initialSegments - 1)
    BY <1>8, <2>1, Zenon DEF AllKnown
  <2> QED
    BY <1>4, <2>2, <2>3, <2>4, <2>5, Zenon DEF AllKnown
<1> QED
  BY <1>2, <1>3, <1>4, <1>6, <1>7, <1>8, Zenon

\* What makes a replay right while one operation is all there is: before it,
\* and through a split or a merge, no token replays anything; before it, and
\* through a reset, the segments are those first set up, and every token's
\* replay ends where its segment had got to.
ReplayInv ==
  /\ ops \in Nat
  /\ misreplayed = {}
  /\ Places(Segment)
  /\ AllLevel \/ AllKnown
  /\ ops = 0 => op.kind = "none" /\ AllLevel /\ AllKnown
  /\ op.kind \in {"split", "merge"} => AllLevel
  /\ op.kind = "reset" => AllKnown

\* At first there are no tokens but those of no row.
LEMMA ReplayAtFirst ==
  ASSUME OpInit
  PROVE  ReplayInv
<1>1. /\ NoRow.token = Plain(0) /\ NoRow.there = FALSE /\ IdleRound.segments = {}
      /\ NoOp.kind = "none" /\ NoOp.held = {} /\ NoOp.tokens = {} /\ NoOp.todo = <<>>
  BY Zenon DEF NoRow, IdleRound, NoOp
<1>2. /\ rows = [i \in Ids |-> NoRow] /\ rounds = [n \in Node |-> IdleRound]
      /\ claims = {} /\ workers = {} /\ renewals = {} /\ misreplayed = {} /\ op = NoOp /\ ops = 0
  BY Zenon DEF OpInit, Init
<1>3. ASSUME NEW i, NEW t, Marked(i, t) PROVE t = Plain(0)
  <2>1. i \in Ids /\ t = rows[i].token
    BY <1>1, <1>2, <1>3, Zenon DEF Marked
  <2>2. rows[i] = NoRow
    BY <1>2, <2>1, Zenon
  <2> QED
    BY <1>1, <2>1, <2>2, Zenon
<1>4. AllLevel
  BY <1>3, PlainTokens, Zenon DEF AllLevel
<1>5. \A S : Places(S)
  <2>1. \A S : <<>> \in Seq(S)
    BY SMT
  <2>2. \A n \in Node : rounds[n].segments = {}
    BY <1>1, <1>2, Zenon
  <2> QED
    BY <1>1, <1>2, <2>1, <2>2, Zenon DEF Places
<1>6. SegmentIds = {}
  <2>1. \A i \in Ids : rows[i] = NoRow
    BY <1>2, Zenon
  <2> QED
    BY <1>1, <2>1, Zenon DEF SegmentIds
<1>7. AllKnown
  BY <1>2, <1>3, <1>5, <1>6, PlainTokens, Zenon DEF AllKnown
<1>8. 0 \in Nat
  BY SMT
<1> QED
  BY <1>1, <1>2, <1>4, <1>5, <1>7, <1>8, Zenon DEF ReplayInv

\* Segments of the first table are segments.
LEMMA KnownPlaces ==
  ASSUME AllKnown
  PROVE  Places(Segment)
<1>1. PICK W : W = Whole
  BY Zenon
<1>2. W \subseteq Segment
  BY <1>1, WalksAreSegments, Zenon DEF Whole
<1>3. Places(W)
  BY <1>1, Zenon DEF AllKnown
<1>4. op.todo \in Seq(Segment)
  <2>1. op.todo \in Seq(W)
    BY <1>3, Zenon DEF Places
  <2> QED
    BY <1>2, <2>1
<1> QED
  BY <1>2, <1>3, <1>4, Zenon DEF Places

\* A step of the claims.
LEMMA ReplayClaimStep ==
  ASSUME OpInv, ReplayInv, ClaimStep
  PROVE  ReplayInv'
<1>1. UNCHANGED ops /\ (op' = op \/ op' = NoOp) /\ NoOp.kind = "none"
  BY Zenon DEF ClaimStep, NoOp
<1>2. AllLevel => AllLevel' /\ Places(Segment)' /\ misreplayed' = {}
  BY LevelStep, Zenon DEF ReplayInv
<1>3. AllKnown => AllKnown' /\ misreplayed' = {}
  BY KnownStep, Zenon DEF ReplayInv
<1>4. AllKnown' => Places(Segment)'
  BY KnownPlaces, PTL
<1>5. op'.kind \in {"none", op.kind}
  BY <1>1, Zenon
<1> QED
  BY <1>1, <1>2, <1>3, <1>4, <1>5, Zenon DEF ReplayInv

\* A step of an operation that leaves the tokens.
LEMMA ReplaySteady ==
  ASSUME OpInv, ReplayInv, Steady, UNCHANGED ops
  PROVE  ReplayInv'
<1>1. Places(Segment)'
  BY SteadyPlaces, Zenon DEF ReplayInv
<1>2. (AllLevel => AllLevel') /\ (AllKnown => AllKnown')
  BY SteadyLevel, SteadyKnown, Zenon
<1>3. op'.kind \in {"none", op.kind} /\ UNCHANGED misreplayed
  <2>1. op' = NoOp \/ op'.kind = op.kind
    BY Zenon DEF Steady
  <2>2. UNCHANGED misreplayed
    BY Zenon DEF Steady
  <2> QED
    BY <2>1, <2>2, NoOpFields, Zenon
<1> QED
  BY <1>1, <1>2, <1>3, Zenon DEF ReplayInv

\* The one operation begins.
LEMMA ReplayBegun ==
  ASSUME OpInv, ReplayInv, MaxOps <= 1, NEW kind, NEW n, NEW s, NEW todo, Begin(kind, n, s, todo),
         \/ kind \in {"split", "merge"} /\ todo \in Seq(Segment)
         \/ kind = "reset" /\ todo \in Seq(SegmentsOf(SegmentIds))
  PROVE  ReplayInv'
<1>1. ops < MaxOps /\ ops' = ops + 1 /\ UNCHANGED misreplayed /\ op'.kind = kind
  BY BegunTokens, Zenon DEF Begin
<1>2. ops \in Nat /\ MaxOps \in Nat
  BY OperationsAssumption, Zenon DEF ReplayInv
<1>3. ops = 0 /\ ops' \in Nat /\ ops' # 0
  BY <1>1, <1>2, SMT
<1>4. AllLevel /\ AllKnown /\ Places(Segment)
  BY <1>3, Zenon DEF ReplayInv
<1>5. AllLevel'
  BY <1>4, BegunTokens, Zenon DEF Begin
<1>6. CASE kind \in {"split", "merge"} /\ todo \in Seq(Segment)
  <2>1. Places(Segment)'
    BY <1>4, <1>6, BegunTokens, Zenon DEF Begin
  <2>2. op'.kind # "reset"
    BY <1>1, <1>6, Zenon
  <2> QED
    BY <1>1, <1>3, <1>5, <2>1, <2>2, Zenon DEF ReplayInv
<1>7. CASE kind = "reset" /\ todo \in Seq(SegmentsOf(SegmentIds))
  <2>1. SegmentIds # {}
    BY Zenon DEF Begin
  <2>2. SegmentIds = 0..(initialSegments - 1)
    BY <1>4, <2>1, Zenon DEF AllKnown
  <2>3. todo \in Seq(Whole)
    BY <1>7, <2>2, Zenon DEF Whole
  <2>4. AllKnown'
    BY <1>4, <2>3, BegunTokens, Zenon DEF Begin
  <2>5. Places(Segment)'
    BY <2>4, KnownPlaces, PTL
  <2> QED
    BY <1>1, <1>3, <1>5, <2>4, <2>5, Zenon DEF ReplayInv
<1> QED
  BY <1>6, <1>7, Zenon

\* A step of an operation.
LEMMA ReplayOperation ==
  ASSUME OpInv, ReplayInv, MaxOps <= 1, OperationStep
  PROVE  ReplayInv'
<1>1. Places(Segment)
  BY Zenon DEF ReplayInv
<1>2. ASSUME NEW n \in Node, NEW s \in Segment, BeginSplit(n, s) PROVE ReplayInv'
  <2>1. PICK todo : todo = <<s>>
    BY Zenon
  <2>2. Begin("split", n, s, todo)
    BY <1>2, <2>1, Zenon DEF BeginSplit, Begin
  <2>3. todo \in Seq(Segment)
    BY <2>1
  <2> QED
    BY <2>2, <2>3, ReplayBegun, Zenon DEF Begin
<1>3. ASSUME NEW n \in Node, NEW s \in Segment, BeginMerge(n, s) PROVE ReplayInv'
  <2>1. PICK p : p = [id |-> MergeableSegmentId(s), mask |-> s.mask]
    BY Zenon
  <2>2. PICK todo : todo = <<s, p>>
    BY Zenon
  <2>3. p \in SegmentsOf(SegmentIds) /\ Begin("merge", n, s, todo)
    BY <1>3, <2>1, <2>2, Zenon DEF BeginMerge, Begin
  <2>4. p \in Segment
    BY <2>3, Zenon DEF SegmentsOf
  <2>5. todo \in Seq(Segment)
    BY <2>2, <2>4
  <2> QED
    BY <2>3, <2>5, ReplayBegun, Zenon DEF Begin
<1>4. ASSUME NEW n \in Node, BeginReset(n) PROVE ReplayInv'
  <2>1. PICK S, zero : S = SegmentsOf(SegmentIds) /\ zero = [id |-> 0, mask |-> 0]
    BY Zenon
  <2>2. PICK count \in 1..(2^Depth) : \E todo \in [1..count -> S] : Begin("reset", n, zero, todo)
    BY <1>4, <2>1, Zenon DEF BeginReset, Begin
  <2>3. PICK todo \in [1..count -> S] : Begin("reset", n, zero, todo)
    BY <2>2, Zenon
  <2>4. todo \in Seq(S)
    BY <2>2, <2>3
  <2> QED
    BY <2>1, <2>3, <2>4, ReplayBegun, Zenon DEF Begin
<1>5. CASE TakeFromWorker
  BY <1>5, SteadyTaken, ReplaySteady, Zenon DEF TakeFromWorker, Kept
<1>6. CASE ClaimForOperation
  BY <1>1, <1>6, SteadyClaiming, ReplaySteady, Zenon DEF ClaimForOperation, Kept
<1>7. CASE ReadTokens
  BY <1>1, <1>7, SteadyRead, ReplaySteady, Zenon DEF ReadTokens, Kept
<1>8. ASSUME NEW c \in claims, ClaimedForOperation(c) PROVE ReplayInv'
  BY <1>1, <1>8, SteadyClaimed, ReplaySteady, Zenon DEF ClaimedForOperation, Kept
<1>9. ASSUME Split \/ Merge PROVE ReplayInv'
  <2>1. op.kind \in {"split", "merge"} /\ op.read /\ UNCHANGED ops
    BY <1>9, Zenon DEF Split, Merge, Kept
  <2>2. AllLevel
    BY <2>1, Zenon DEF ReplayInv
  <2>3. Places(Segment)' /\ AllLevel' /\ UNCHANGED misreplayed
    BY <1>1, <1>9, <2>2, LevelSplit, LevelMerge, Zenon
  <2>4. op' = NoOp
    BY <1>9, Zenon DEF Split, Merge, GiveBack
  <2>5. ops # 0
    BY <2>1, Zenon DEF ReplayInv
  <2>6. op'.kind = "none"
    BY <2>4, NoOpFields, Zenon
  <2> QED
    BY <2>1, <2>3, <2>5, <2>6, Zenon DEF ReplayInv
<1>10. CASE Reset
  <2>1. op.kind = "reset" /\ UNCHANGED ops /\ op' = NoOp
    BY <1>10, Zenon DEF Reset, Kept
  <2>2. AllKnown /\ ops # 0
    BY <2>1, Zenon DEF ReplayInv
  <2>3. AllKnown' /\ UNCHANGED misreplayed
    BY <1>10, <2>2, KnownReset, Zenon
  <2>4. Places(Segment)'
    BY <2>3, KnownPlaces, PTL
  <2>5. op'.kind = "none"
    BY <2>1, NoOpFields, Zenon
  <2> QED
    BY <2>1, <2>2, <2>3, <2>4, <2>5, Zenon DEF ReplayInv
<1> QED
  BY <1>2, <1>3, <1>4, <1>5, <1>6, <1>7, <1>8, <1>9, <1>10, Zenon DEF OperationStep

\* While there is one split, merge or reset at most, whatever else the nodes do
\* during it, an event is handled as a replay only if it had been handled: a
\* reset is to what the segment was past, and a half or a merged segment goes
\* on from tokens that replay nothing.
THEOREM NoReplayOfTheNew == MaxOps <= 1 => (OpSpec => []NoMisreplay)
<1> SUFFICES ASSUME MaxOps <= 1 PROVE OpSpec => []NoMisreplay
  BY Zenon
<1>1. OpInit => ReplayInv
  BY ReplayAtFirst, Zenon
<1>2. OpIInv /\ ReplayInv /\ [OpNext]_allVars => ReplayInv'
  <2> SUFFICES ASSUME OpIInv, ReplayInv, [OpNext]_allVars PROVE ReplayInv'
    BY Zenon
  <2>1. OpInv
    BY Zenon DEF OpIInv
  <2>2. CASE ClaimStep
    BY <2>1, <2>2, ReplayClaimStep, Zenon
  <2>3. CASE OperationStep
    BY <2>1, <2>3, ReplayOperation, Zenon
  <2>4. CASE UNCHANGED allVars
    <3>1. UNCHANGED <<initialSegments, rows, rounds, claims, workers, renewals, handled, misreplayed, op, ops>>
      BY <2>4, Zenon DEF allVars, opVars, vars, claimVars, history
    <3>2. \A i, t : Marked(i, t)' <=> Marked(i, t)
      BY <3>1, Zenon DEF Marked
    <3>3. \A S : Places(S) => Places(S)'
      BY <3>1, Zenon DEF Places
    <3>4. Whole' = Whole /\ SegmentIds' = SegmentIds
      BY <3>1, Zenon DEF Whole, SegmentIds
    <3>5. (AllLevel => AllLevel') /\ (AllKnown => AllKnown')
      BY <3>1, <3>2, <3>3, <3>4, Zenon DEF AllLevel, AllKnown
    <3> QED
      BY <3>1, <3>3, <3>5, Zenon DEF ReplayInv
  <2> QED
    BY <2>2, <2>3, <2>4, Zenon DEF OpNext
<1>3. ReplayInv => NoMisreplay
  BY Zenon DEF ReplayInv, NoMisreplay
<1> QED
  BY <1>1, <1>2, <1>3, OperationsInductive, PTL DEF OpSpec
=============================================================================
