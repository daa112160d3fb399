------------------------ MODULE SegmentClaimsProofs ------------------------
(***************************************************************************)
(* For any nodes, events, hashes and segment counts: no stored token is    *)
(* past an unhandled event, and while no claim was contested no token      *)
(* moves back and nothing is handled twice.                                *)
(*                                                                         *)
(* Without splits, merges and resets the rows are set up once, so every    *)
(* worker, claim and round speaks of the segments of that one set-up       *)
(* (Listed), and all tokens are plain positions.                           *)
(***************************************************************************)
EXTENDS SegmentClaims, TLAPS

PlainToken == {Plain(p) : p \in 0..LastEvent}
Row == [there : BOOLEAN, token : PlainToken, owner : Node \cup {Nobody}, fresh : BOOLEAN]
Claim == [node : Node, segment : Segment, row : Row, operation : {FALSE}]
Worker == [node : Node, segment : Segment, token : PlainToken, unwritten : BOOLEAN, current : {TRUE}]
Renewal == [node : Node, id : Ids, token : PlainToken]
ClaimRound == [on : BOOLEAN, first : BOOLEAN, segments : SUBSET Segment]

Typed ==
  /\ initialSegments \in SegmentCounts
  /\ rows \in [Ids -> Row]
  /\ rounds \in [Node -> ClaimRound]
  /\ claims \subseteq Claim
  /\ workers \subseteq Worker
  /\ renewals \subseteq Renewal
  /\ handled \subseteq Event
  /\ folded \subseteq Event
  /\ contested \in BOOLEAN

\* The segments the rows are set up with.
Whole == SegmentsOf(0..(initialSegments - 1))

\* What rounds, claims and workers are about is there, and part of the set-up.
Listed ==
  /\ SegmentIds = {} \/ SegmentIds = 0..(initialSegments - 1)
  /\ \A n \in Node : \A s \in rounds[n].segments : s \in Whole /\ rows[s.id].there
  /\ \A c \in claims : c.segment \in Whole /\ rows[c.segment.id].there /\ c.row.there
  /\ \A w \in workers : w.segment \in Whole /\ rows[w.segment.id].there

\* One worker of a node for a segment, one claim of a node, and that only in a
\* round; one renewal of a node, and that only between rounds, during which its
\* worker stays where it is.
Exclusive ==
  /\ \A v, w \in workers : v.node = w.node /\ v.segment.id = w.segment.id => v = w
  /\ \A c, d \in claims : c.node = d.node => c = d
  /\ \A n \in Node : rounds[n].segments # {} => rounds[n].on
  /\ \A c \in claims : rounds[c.node].on
  /\ \A c \in claims, w \in workers : ~(c.node = w.node /\ c.segment.id = w.segment.id)
  /\ \A r \in renewals : ~rounds[r.node].on
  /\ \A q, r \in renewals : q.node = r.node => q = r
  /\ \A r \in renewals, w \in workers :
       r.node = w.node /\ r.id = w.segment.id => r.token = w.token

\* What a token is past, of this segment's events, has been handled.
Covers(t, s, done) == \A e \in Event : InSegment(s, Hash[e]) /\ e <= t.at => e \in done

Covered ==
  /\ \A s \in Whole : Covers(rows[s.id].token, s, folded)
  /\ \A w \in workers : Covers(w.token, w.segment, folded)
  /\ \A c \in claims : Covers(c.row.token, c.segment, folded)
  /\ \A r \in renewals : \A s \in Whole : s.id = r.id => Covers(r.token, s, folded)

\* What the holder of a claim would write is not behind the row.
Forward ==
  /\ \A w \in workers : rows[w.segment.id].owner = w.node
                          => rows[w.segment.id].token.at <= w.token.at
  /\ \A r \in renewals : rows[r.id].owner = r.node => rows[r.id].token.at <= r.token.at

\* What has been handled is behind its row.
Behind ==
  \A s \in Whole : \A e \in handled :
    InSegment(s, Hash[e]) => rows[s.id].there /\ e <= rows[s.id].token.at

Structure == Typed /\ Listed /\ Exclusive
Inv == Structure /\ Covered /\ (~contested => Forward)

\* No row goes, and no row's token moves back, in this step.
RowsAdvance ==
  \A i \in Ids : rows[i].there => rows'[i].there /\ rows[i].token.at <= rows'[i].token.at

-----------------------------------------------------------------------------
(* Records and tokens. *)
LEMMA TokenFields ==
  ASSUME NEW t \in PlainToken
  PROVE  t.at \in 0..LastEvent /\ t.reset = t.at /\ t.halves = {}
BY DEF PlainToken, Plain

\* ... and every position has one.
LEMMA PlainIsToken ==
  ASSUME NEW p \in 0..LastEvent
  PROVE  Plain(p) \in PlainToken /\ Plain(p).at = p
BY Zenon DEF PlainToken, Plain

\* A plain token moves to the position it is told.
LEMMA Advances ==
  ASSUME NEW t \in PlainToken, NEW p \in Event, p > t.at
  PROVE  AdvanceTokenTo(t, p) = Plain(p)
BY TokenFields, ClaimsAssumption DEF AdvanceTokenTo, Merged, Event

\* The fields of a row.
LEMMA RowFields ==
  ASSUME NEW row \in Row
  PROVE  /\ row.there \in BOOLEAN
         /\ row.token \in PlainToken
         /\ row.owner \in Node \cup {Nobody}
         /\ row.fresh \in BOOLEAN
BY Zenon DEF Row

\* The rows the store writes.
LEMMA WrittenRows ==
  /\ NoRow \in Row /\ ~NoRow.there
  /\ FreeRow \in Row /\ FreeRow.there /\ FreeRow.owner = Nobody /\ FreeRow.token = Plain(0)
  /\ \A n \in Node, t \in PlainToken :
       LET row == StoredRow(n, t)
       IN row \in Row /\ row.there /\ row.owner = n /\ row.token = t
  /\ \A row \in Row :
       LET released == ReleasedRow(row)
       IN /\ released \in Row /\ released.owner = Nobody
          /\ released.there = row.there /\ released.token = row.token
  /\ NoRow.token = Plain(0)
<1>1. Plain(0) \in PlainToken
  BY PlainIsToken, ClaimsAssumption
<1> HIDE DEF PlainToken
<1> QED
  BY <1>1, RowFields, Zenon DEF NoRow, FreeRow, StoredRow, ReleasedRow, Row

\* The fields of a worker.
LEMMA WorkerFields ==
  ASSUME NEW w \in Worker
  PROVE  /\ w.node \in Node
         /\ w.segment \in Segment
         /\ w.token \in PlainToken
         /\ w.unwritten \in BOOLEAN
         /\ w.current
BY Zenon DEF Worker

\* Workers as started and as moved.
LEMMA WrittenWorkers ==
  /\ \A n \in Node, s \in Segment, t \in PlainToken :
       LET v == StartedWorker(n, s, t)
       IN v \in Worker /\ v.node = n /\ v.segment = s /\ v.token = t
  /\ \A w \in Worker, t \in PlainToken, b \in BOOLEAN :
       LET v == Moved(w, t, b)
       IN v \in Worker /\ v.node = w.node /\ v.segment = w.segment /\ v.token = t
BY WorkerFields, Zenon DEF StartedWorker, Moved, Worker

\* The fields of a claim.
LEMMA ClaimFields ==
  ASSUME NEW c \in Claim
  PROVE  c.node \in Node /\ c.segment \in Segment /\ c.row \in Row /\ ~c.operation
BY Zenon DEF Claim

\* The fields of a renewal.
LEMMA RenewalFields ==
  ASSUME NEW r \in Renewal
  PROVE  r.node \in Node /\ r.id \in Ids /\ r.token \in PlainToken
BY Zenon DEF Renewal

\* The fields of a round, and the rounds the node makes.
LEMMA RoundFields ==
  /\ \A r \in ClaimRound : r.on \in BOOLEAN /\ r.first \in BOOLEAN /\ r.segments \subseteq Segment
  /\ IdleRound \in ClaimRound /\ ~IdleRound.on /\ IdleRound.segments = {}
  /\ \A first \in BOOLEAN, S \in SUBSET Segment :
       LET r == Round(first, S)
       IN r \in ClaimRound /\ r.segments = S /\ (r.on <=> S # {})
  /\ \A first \in BOOLEAN, S \in SUBSET Segment :
       LET r == [on |-> TRUE, first |-> first, segments |-> S]
       IN r \in ClaimRound /\ r.segments = S /\ r.on
BY Zenon DEF ClaimRound, Round, IdleRound

-----------------------------------------------------------------------------
(* Segments. *)
LEMMA SegmentFields ==
  ASSUME NEW s \in Segment
  PROVE  /\ s = [id |-> s.id, mask |-> s.mask]
         /\ s.id \in Ids /\ s.id \in Nat
         /\ s.mask \in Masks /\ s.mask \in Int
         /\ s.id <= s.mask
<1>1. 2^Depth \in Int /\ \A k \in 0..Depth : 2^k \in Int
  BY DepthAssumption
<1> QED
  BY <1>1 DEF Segment, Ids, Masks

\* The set-up has a segment, and all of them are segments.
LEMMA SetUp ==
  ASSUME Typed
  PROVE  /\ 0..(initialSegments - 1) # {}
         /\ 0..(initialSegments - 1) \subseteq Ids
         /\ Whole \subseteq Segment
<1>1. 2^Depth \in Int
  BY DepthAssumption
<1>2. initialSegments \in 1..(2^Depth)
  BY ClaimsAssumption, Zenon DEF Typed
<1>3. 0 \in 0..(initialSegments - 1)
  BY <1>1, <1>2
<1>4. 0..(initialSegments - 1) \subseteq Ids
  BY <1>1, <1>2 DEF Ids
<1> QED
  BY <1>3, <1>4, Zenon DEF Whole, SegmentsOf

\* A segment of the set-up is known by its id: of two with one id the wider is
\* an ancestor of the other, and so halved.
LEMMA KnownById ==
  ASSUME Typed, NEW s \in Whole, NEW o \in Whole, s.id = o.id
  PROVE  s = o
<1>1. ASSUME NEW a \in Whole, NEW b \in Whole, a.id = b.id, a.mask < b.mask
      PROVE  FALSE
  <2>1. a.id % (a.mask + 1) = a.id
    BY SetUp, SegmentFields
  <2>2. Ancestor(a, b)
    BY <1>1, <2>1, Zenon DEF Ancestor
  <2> QED
    BY <2>2, SetUp, Zenon DEF Whole, SegmentsOf
<1>2. s.mask \in Int /\ o.mask \in Int
  BY SetUp, SegmentFields, Zenon
<1>3. s.mask = o.mask
  BY <1>1, <1>2
<1> QED
  BY <1>3, SetUp, SegmentFields, Zenon

-----------------------------------------------------------------------------
(* What the actions do to rows, workers and rounds. *)

\* A claim's second statement finds the row its first one found, and takes it as
\* it is by now.
LEMMA ClaimTakes ==
  ASSUME Structure, NEW c \in claims
  PROVE  /\ ~ClaimStatementFails(c)
         /\ ClaimedRow(c) = StoredRow(c.node, rows[c.segment.id].token)
         /\ c \in Claim /\ c.segment.id \in Ids
BY ClaimFields, SegmentFields, Zenon DEF Structure, Typed, Listed, ClaimStatementFails, ClaimedRow

\* No worker is hidden by a new one.
LEMMA NoneHidden ==
  ASSUME Structure, NEW c \in claims
  PROVE  LET v == StartedWorker(c.node, c.segment, c.row.token)
         IN v \in Worker /\ WithWorkers({v}) = workers \cup {v}
<1> DEFINE v == StartedWorker(c.node, c.segment, c.row.token)
<1>1. v \in Worker /\ v.node = c.node /\ v.segment = c.segment
  <2>1. c \in Claim
    BY Zenon DEF Structure, Typed
  <2>2. c.node \in Node /\ c.segment \in Segment /\ c.row \in Row
    BY <2>1, ClaimFields, Zenon
  <2>3. c.row.token \in PlainToken
    BY <2>2, RowFields, Zenon
  <2> QED
    BY <2>2, <2>3, WrittenWorkers
<1>2. \A w \in workers : ~(v.node = w.node /\ v.segment.id = w.segment.id)
  BY <1>1, Zenon DEF Structure, Exclusive
<1> HIDE DEF v
<1> QED
  BY <1>1, <1>2, Zenon DEF WithWorkers, v

\* A worker that stops leaves the row free, with its own token or as it was.
LEMMA Stopping ==
  ASSUME Structure, NEW W \in SUBSET workers, StopWorkers(W)
  PROVE  /\ workers' = workers \ W
         /\ rows' \in [Ids -> Row]
         /\ \A i \in Ids :
              \/ rows'[i] = rows[i]
              \/ \E w \in W : /\ w.segment.id = i /\ rows[i].owner = w.node
                              /\ rows'[i].there /\ rows'[i].owner = Nobody
                              /\ rows'[i].token \in {rows[i].token, w.token}
<1> DEFINE Held(i) == \E w \in W : w.segment.id = i /\ Stores(w.node, i)
           Holder(i) == CHOOSE v \in W : v.segment.id = i /\ Stores(v.node, i)
           Last(i) == IF Holder(i).unwritten THEN StoredRow(Holder(i).node, Holder(i).token) ELSE rows[i]
<1>1. rows' = [i \in Ids |-> IF Held(i) THEN ReleasedRow(Last(i)) ELSE rows[i]]
  BY Zenon DEF StopWorkers
<1>2. ASSUME NEW i \in Ids, Held(i)
      PROVE  /\ Holder(i) \in W /\ Holder(i).segment.id = i /\ Stores(Holder(i).node, i)
             /\ Last(i) \in Row /\ Last(i).there
             /\ Last(i).token \in {rows[i].token, Holder(i).token}
  <2>1. Holder(i) \in W /\ Holder(i).segment.id = i /\ Stores(Holder(i).node, i)
    BY <1>2, Zenon
  <2>2. Holder(i) \in Worker
    BY <2>1, Zenon DEF Structure, Typed
  <2>3. Holder(i).node \in Node /\ Holder(i).token \in PlainToken
    BY <2>2, WorkerFields, Zenon
  <2>4. rows[i] \in Row /\ rows[i].there
    BY <2>1, Zenon DEF Structure, Typed, Stores
  <2> HIDE DEF Holder
  <2>5. LET row == StoredRow(Holder(i).node, Holder(i).token)
        IN row \in Row /\ row.there /\ row.token = Holder(i).token
    BY <2>3, WrittenRows, Zenon
  <2> QED
    BY <2>1, <2>4, <2>5, Zenon
<1> HIDE DEF Held, Holder, Last
<1>3. \A i \in Ids : rows[i] \in Row
  BY Zenon DEF Structure, Typed
<1>4. ASSUME NEW i \in Ids, Held(i)
      PROVE  /\ ReleasedRow(Last(i)) \in Row
             /\ \E w \in W : /\ w.segment.id = i /\ rows[i].owner = w.node
                             /\ ReleasedRow(Last(i)).there /\ ReleasedRow(Last(i)).owner = Nobody
                             /\ ReleasedRow(Last(i)).token \in {rows[i].token, w.token}
  BY <1>2, <1>4, WrittenRows, Zenon DEF Stores
<1>5. workers' = workers \ W
  BY Zenon DEF StopWorkers
<1>6. rows' \in [Ids -> Row]
  BY <1>1, <1>3, <1>4, Zenon
<1>7. ASSUME NEW i \in Ids
      PROVE  \/ rows'[i] = rows[i]
             \/ \E w \in W : /\ w.segment.id = i /\ rows[i].owner = w.node
                             /\ rows'[i].there /\ rows'[i].owner = Nobody
                             /\ rows'[i].token \in {rows[i].token, w.token}
  <2>1. CASE ~Held(i)
    BY <1>1, <2>1, Zenon
  <2>2. CASE Held(i)
    <3>1. rows'[i] = ReleasedRow(Last(i))
      BY <1>1, <2>2, Zenon
    <3> QED
      BY <1>4, <2>2, <3>1
  <2> QED
    BY <2>1, <2>2, Zenon
<1> QED
  BY <1>5, <1>6, <1>7, Zenon

\* Listing leaves rows that are there alone, and ends with the set-up.
LEMMA Listing ==
  ASSUME Structure, NEW n \in Node, NEW first \in BOOLEAN, ListSegments(n, first)
  PROVE  /\ rows' \in [Ids -> Row]
         /\ \A i \in Ids : rows'[i] = rows[i] \/ (~rows[i].there /\ rows'[i] = FreeRow)
         /\ {i \in Ids : rows'[i].there} = 0..(initialSegments - 1)
         /\ \E S \in SUBSET Whole : /\ rounds' = [rounds EXCEPT ![n] = Round(first, S)]
                                    /\ \A s \in S : rows'[s.id].there
<1> DEFINE ids == IF SegmentIds = {} THEN 0..(initialSegments - 1) ELSE SegmentIds
           table == [i \in Ids |-> IF i \in ids /\ ~rows[i].there THEN FreeRow ELSE rows[i]]
           S == {s \in SegmentsOf(ids) : table[s.id].there /\ Available(table[s.id])}
<1>1. ids = 0..(initialSegments - 1)
  BY Zenon DEF Structure, Listed
<1>2. rows' = table /\ rounds' = [rounds EXCEPT ![n] = Round(first, S)]
  BY Zenon DEF ListSegments
<1>3. S \subseteq Whole
  BY <1>1, Zenon DEF Whole
<1>4. \A s \in S : rows'[s.id].there
  BY <1>2, Zenon
<1> HIDE DEF S
<1>5. \A i \in Ids : rows[i] \in Row
  BY Zenon DEF Structure, Typed
<1>6. table \in [Ids -> Row]
  BY <1>5, WrittenRows, Zenon
<1>7. \A i \in Ids : rows[i].there => i \in ids
  BY <1>1, SetUp, Zenon DEF Structure, Listed, SegmentIds
<1>8. {i \in Ids : table[i].there} = ids
  <2>1. ids \subseteq Ids
    BY <1>1, SetUp, Zenon DEF Structure
  <2> QED
    BY <1>7, <2>1, WrittenRows, Zenon
<1> QED
  BY <1>1, <1>2, <1>3, <1>4, <1>6, <1>8, Zenon

-----------------------------------------------------------------------------
(* Structure is inductive. *)

\* Rows that are there stay there, and no other is set up.
LEMMA ListedStays ==
  ASSUME Structure, UNCHANGED initialSegments,
         \A i \in Ids : rows'[i].there = rows[i].there,
         \A n \in Node : rounds'[n].segments \subseteq rounds[n].segments,
         \A c \in claims' : \/ c \in claims
                            \/ c.segment \in Whole /\ rows[c.segment.id].there /\ c.row.there,
         \A w \in workers' : w.segment \in Whole /\ rows[w.segment.id].there
  PROVE  Listed'
<1>1. Whole' = Whole
  BY Zenon DEF Whole
<1>2. SegmentIds' = SegmentIds
  BY Zenon DEF SegmentIds
<1>3. \A s \in Whole : s.id \in Ids
  BY SetUp, SegmentFields, Zenon DEF Structure
<1> QED
  BY <1>1, <1>2, <1>3, Zenon DEF Structure, Listed

\* Structure holds at the start.
LEMMA StructureInit == Init => Structure
<1> SUFFICES ASSUME Init PROVE Structure
  BY Zenon
<1>1. Typed
  BY WrittenRows, RoundFields, Zenon DEF Init, Typed
<1>2. SegmentIds = {}
  BY WrittenRows, Zenon DEF Init, SegmentIds
<1>3. Listed /\ Exclusive
  BY <1>2, RoundFields, Zenon DEF Init, Listed, Exclusive
<1> QED
  BY <1>1, <1>3, Zenon DEF Structure

\* start, and a round that begins, list the set-up.
LEMMA StructureList ==
  ASSUME Structure, NEW n \in Node, Start(n) \/ BeginRound(n)
  PROVE  Structure'
<1> USE DEF Structure
<1>1. PICK first \in BOOLEAN : ListSegments(n, first)
  BY Zenon DEF Start, BeginRound
<1>2. /\ UNCHANGED <<initialSegments, claims, workers, renewals, history>>
      /\ rounds[n] = IdleRound
      /\ ~\E r \in renewals : r.node = n
  BY Zenon DEF Start, BeginRound
<1>3. PICK S \in SUBSET Whole : /\ rounds' = [rounds EXCEPT ![n] = Round(first, S)]
                                /\ \A s \in S : rows'[s.id].there
  BY <1>1, Listing, Zenon
<1>4. S \subseteq Segment
  BY SetUp, Zenon
<1>5. LET r == Round(first, S) IN r \in ClaimRound /\ r.segments = S /\ (r.on <=> S # {})
  BY <1>4, RoundFields, Zenon
<1>6. rows' \in [Ids -> Row] /\ rounds' \in [Node -> ClaimRound]
  BY <1>1, <1>3, <1>5, Listing, Zenon DEF Typed
<1>7. Typed'
  BY <1>2, <1>6, Zenon DEF Typed, history
<1>8. Listed'
  <2>1. Whole' = Whole
    BY <1>2, Zenon DEF Whole
  <2>2. SegmentIds' = 0..(initialSegments' - 1)
    BY <1>1, <1>2, Listing, Zenon DEF SegmentIds
  <2>3. \A i \in Ids : rows[i].there => rows'[i].there
    BY <1>1, Listing, Zenon
  <2>4. \A s \in Whole : s.id \in Ids
    BY SetUp, SegmentFields, Zenon
  <2>5. ASSUME NEW m \in Node, NEW s \in rounds'[m].segments
        PROVE  s \in Whole /\ rows'[s.id].there
    <3>1. CASE m = n
      BY <1>3, <1>5, <2>5, <3>1, Zenon DEF Typed
    <3>2. CASE m # n
      BY <1>3, <2>3, <2>4, <2>5, <3>2, Zenon DEF Typed, Listed
    <3> QED
      BY <3>1, <3>2, Zenon
  <2> QED
    BY <1>2, <2>1, <2>2, <2>3, <2>4, <2>5, Zenon DEF Listed
<1>9. Exclusive'
  <2>1. ~rounds[n].on
    BY <1>2, RoundFields, Zenon
  <2>2. \A m \in Node : m # n => rounds'[m] = rounds[m]
    BY <1>3, Zenon DEF Typed
  <2>3. rounds'[n].segments # {} => rounds'[n].on
    BY <1>3, <1>5, Zenon DEF Typed
  <2>4. \A c \in claims : c.node \in Node /\ c.node # n
    BY <2>1, ClaimFields, Zenon DEF Typed, Exclusive
  <2>5. \A r \in renewals : r.node \in Node /\ r.node # n
    BY <1>2, RenewalFields, Zenon DEF Typed
  <2> QED
    BY <1>2, <2>2, <2>3, <2>4, <2>5, Zenon DEF Exclusive
<1> QED
  BY <1>7, <1>8, <1>9, Zenon

\* stop leaves a round under way only in its claim.
LEMMA StructureStop ==
  ASSUME Structure, NEW n \in Node, Stop(n)
  PROVE  Structure'
<1> USE DEF Structure
<1>1. Current(n) \subseteq workers
  BY Zenon DEF Current
<1>2. StopWorkers(Current(n)) /\ UNCHANGED <<initialSegments, claims, renewals, history>>
  BY Zenon DEF Stop
<1>3. workers' \subseteq workers /\ rows' \in [Ids -> Row]
  BY <1>1, <1>2, Stopping, Zenon
<1>4. \A i \in Ids : rows'[i].there = rows[i].there
  <2>1. \A w \in workers : rows[w.segment.id].there
    BY Zenon DEF Listed
  <2>2. \A i \in Ids : rows'[i].there \in BOOLEAN /\ rows[i].there \in BOOLEAN
    BY <1>3, RowFields, Zenon DEF Typed
  <2> QED
    BY <1>1, <1>2, <2>1, <2>2, Stopping
<1>5. PICK r \in ClaimRound : /\ rounds' = [rounds EXCEPT ![n] = r]
                              /\ r.segments = {} /\ (r.on <=> Claiming(n))
  <2> DEFINE r == IF Claiming(n) THEN [on |-> TRUE, first |-> rounds[n].first, segments |-> {}]
                  ELSE IdleRound
  <2>1. rounds' = [rounds EXCEPT ![n] = r]
    BY Zenon DEF Stop
  <2>2. rounds[n].first \in BOOLEAN
    BY RoundFields, Zenon DEF Typed
  <2>3. r \in ClaimRound /\ r.segments = {} /\ (r.on <=> Claiming(n))
    BY <2>2, RoundFields, Zenon
  <2> QED
    BY <2>1, <2>3, Zenon
<1>6. Typed'
  BY <1>2, <1>3, <1>5, Zenon DEF Typed, history
<1>7. \A m \in Node : rounds'[m].segments \subseteq rounds[m].segments
  BY <1>5, Zenon DEF Typed
<1>8. Listed'
  BY <1>2, <1>3, <1>4, <1>7, ListedStays, Zenon DEF Listed
<1>9. Exclusive'
  <2>1. \A c \in claims : c.node \in Node /\ ~c.operation
    BY ClaimFields, Zenon DEF Typed
  <2>2. \A q \in renewals : q.node \in Node
    BY RenewalFields, Zenon DEF Typed
  <2>3. \A m \in Node : m # n => rounds'[m] = rounds[m]
    BY <1>5, Zenon DEF Typed
  <2>4. rounds'[n] = r
    BY <1>5, Zenon DEF Typed
  <2>5. \A c \in claims : c.node = n => rounds'[n].on
    BY <1>5, <2>1, <2>4, Zenon DEF Claiming
  <2>6. \A q \in renewals : q.node = n => ~rounds'[n].on
    BY <1>5, <2>4, Zenon DEF Claiming, Exclusive
  <2> QED
    BY <1>2, <1>3, <1>5, <2>1, <2>2, <2>3, <2>4, <2>5, <2>6 DEF Exclusive
<1> QED
  BY <1>6, <1>8, <1>9, Zenon

\* releaseSegment takes a worker away.
LEMMA StructureRelease ==
  ASSUME Structure, NEW w \in workers, ReleaseSegment(w)
  PROVE  Structure'
<1> USE DEF Structure
<1>1. StopWorkers({w}) /\ UNCHANGED <<initialSegments, rounds, claims, renewals, history>>
  BY Zenon DEF ReleaseSegment
<1>2. workers' \subseteq workers /\ rows' \in [Ids -> Row]
  BY <1>1, Stopping, Zenon
<1>3. \A i \in Ids : rows'[i].there = rows[i].there
  <2>1. rows[w.segment.id].there
    BY Zenon DEF Listed
  <2>2. \A i \in Ids : rows'[i].there \in BOOLEAN /\ rows[i].there \in BOOLEAN
    BY <1>2, RowFields, Zenon DEF Typed
  <2> QED
    BY <1>1, <2>1, <2>2, Stopping
<1>4. Typed'
  BY <1>1, <1>2, Zenon DEF Typed, history
<1>5. Listed'
  BY <1>1, <1>2, <1>3, ListedStays, Zenon DEF Listed
<1>6. Exclusive'
  BY <1>1, <1>2, Zenon DEF Exclusive
<1> QED
  BY <1>4, <1>5, <1>6, Zenon

\* A claim begins when the node has no other, and no worker for the segment.
LEMMA StructureClaimNext ==
  ASSUME Structure, NEW n \in Node, ClaimNext(n)
  PROVE  Structure'
<1> USE DEF Structure
<1>1. PICK s \in rounds[n].segments :
        LET rest == rounds[n].segments \ {s}
        IN IF Has(n, s.id) \/ ~Claimable(n, rows[s.id])
             THEN /\ rounds' = [rounds EXCEPT ![n] = Round(rounds[n].first, rest)]
                  /\ UNCHANGED claims
             ELSE /\ rounds' = [rounds EXCEPT ![n] = [on |-> TRUE, first |-> rounds[n].first, segments |-> rest]]
                  /\ claims' = claims \cup
                       {[node |-> n, segment |-> s, row |-> rows[s.id], operation |-> FALSE]}
  BY Zenon DEF ClaimNext
<1>2. ~Claiming(n) /\ UNCHANGED <<initialSegments, rows, workers, renewals, history>>
  BY Zenon DEF ClaimNext
<1> DEFINE rest == rounds[n].segments \ {s}
           c == [node |-> n, segment |-> s, row |-> rows[s.id], operation |-> FALSE]
<1>3. rounds[n] \in ClaimRound /\ rounds[n].on
  BY Zenon DEF Typed, Exclusive
<1>4. rest \subseteq Segment /\ s \in Segment /\ rounds[n].first \in BOOLEAN
  BY <1>3, RoundFields, Zenon
<1>5. s \in Whole /\ rows[s.id].there /\ s.id \in Ids
  BY <1>4, SegmentFields, Zenon DEF Listed
<1>6. c \in Claim /\ c.node = n /\ c.segment = s /\ c.row = rows[s.id]
  <2>1. rows[s.id] \in Row
    BY <1>5, Zenon DEF Typed
  <2> QED
    BY <1>4, <2>1, Zenon DEF Claim
<1>7. \A d \in claims : d.node # n
  BY <1>2, ClaimFields, Zenon DEF Typed, Claiming
<1>8. \A r \in renewals : r.node # n
  BY <1>3, Zenon DEF Exclusive
<1>9. \A d \in claims : d.node \in Node
  BY ClaimFields, Zenon DEF Typed
<1>10. \A r \in renewals : r.node \in Node
  BY RenewalFields, Zenon DEF Typed
<1>11. CASE Has(n, s.id) \/ ~Claimable(n, rows[s.id])
  <2>1. rounds' = [rounds EXCEPT ![n] = Round(rounds[n].first, rest)] /\ claims' = claims
    BY <1>1, <1>11, Zenon
  <2>2. LET r == Round(rounds[n].first, rest)
        IN r \in ClaimRound /\ r.segments = rest /\ (r.on <=> rest # {})
    BY <1>4, RoundFields
  <2>3. Typed'
    BY <1>2, <2>1, <2>2, Zenon DEF Typed, history
  <2>4. \A m \in Node : /\ rounds'[m].segments \subseteq rounds[m].segments
                        /\ m # n => rounds'[m] = rounds[m]
                        /\ rounds'[n].segments # {} => rounds'[n].on
    BY <2>1, <2>2, Zenon DEF Typed
  <2>5. Listed'
    BY <1>2, <2>1, <2>4, ListedStays, Zenon DEF Listed
  <2>6. Exclusive'
    BY <1>2, <1>7, <1>8, <1>9, <1>10, <2>1, <2>4, Zenon DEF Exclusive
  <2> QED
    BY <2>3, <2>5, <2>6, Zenon
<1>12. CASE ~(Has(n, s.id) \/ ~Claimable(n, rows[s.id]))
  <2>1. /\ rounds' = [rounds EXCEPT ![n] = [on |-> TRUE, first |-> rounds[n].first, segments |-> rest]]
        /\ claims' = claims \cup {c}
    BY <1>1, <1>12, Zenon
  <2>2. LET r == [on |-> TRUE, first |-> rounds[n].first, segments |-> rest]
        IN r \in ClaimRound /\ r.segments = rest /\ r.on
    BY <1>4, RoundFields, Zenon
  <2>3. Typed'
    BY <1>2, <1>6, <2>1, <2>2, Zenon DEF Typed, history
  <2>4. \A m \in Node : /\ rounds'[m].segments \subseteq rounds[m].segments
                        /\ m # n => rounds'[m] = rounds[m]
                        /\ rounds'[n].on
    BY <2>1, <2>2, Zenon DEF Typed
  <2>5. \A w \in workers : ~(n = w.node /\ s.id = w.segment.id)
    BY <1>12, WorkerFields, Zenon DEF Has, Typed
  <2> HIDE DEF c, rest
  <2>6. Listed'
    <3>1. \A d \in claims' : \/ d \in claims
                             \/ d.segment \in Whole /\ rows[d.segment.id].there /\ d.row.there
      BY <1>5, <1>6, <2>1, Zenon
    <3> QED
      BY <1>2, <2>4, <3>1, ListedStays, Zenon DEF Listed
  <2>7. Exclusive'
    BY <1>2, <1>6, <1>7, <1>8, <1>9, <1>10, <2>1, <2>4, <2>5 DEF Exclusive
  <2> QED
    BY <2>3, <2>6, <2>7, Zenon
<1> QED
  BY <1>11, <1>12, Zenon

\* A round that throws ends, its claim with it.
LEMMA StructureStoreFails ==
  ASSUME Structure, NEW n \in Node, StoreFails(n)
  PROVE  Structure'
<1> USE DEF Structure
<1>1. /\ rounds' = [rounds EXCEPT ![n] = IdleRound]
      /\ claims' = {c \in claims : c.node # n \/ c.operation}
      /\ UNCHANGED <<initialSegments, workers, renewals, history>>
  BY Zenon DEF StoreFails, RoundThrows
<1>2. claims' \subseteq claims /\ \A c \in claims' : c.node # n
  BY <1>1, ClaimFields, Zenon DEF Typed
<1>3. rows' \in [Ids -> Row] /\ \A i \in Ids : rows'[i].there = rows[i].there
  <2>1. CASE UNCHANGED rows
    BY <2>1, Zenon DEF Typed
  <2>2. ASSUME NEW c \in claims, rows' = [rows EXCEPT ![c.segment.id] = ClaimedRow(c)]
        PROVE  rows' \in [Ids -> Row] /\ \A i \in Ids : rows'[i].there = rows[i].there
    <3>1. ClaimedRow(c) = StoredRow(c.node, rows[c.segment.id].token) /\ c.segment.id \in Ids
      BY ClaimTakes, Zenon
    <3>2. c.node \in Node /\ rows[c.segment.id].token \in PlainToken
      BY <3>1, ClaimFields, RowFields, Zenon DEF Typed
    <3>3. ClaimedRow(c) \in Row /\ ClaimedRow(c).there
      BY <3>1, <3>2, WrittenRows
    <3>4. rows[c.segment.id].there
      BY Zenon DEF Listed
    <3>5. rows[c.segment.id].there \in BOOLEAN /\ ClaimedRow(c).there \in BOOLEAN
      BY <3>1, <3>3, RowFields, Zenon DEF Typed
    <3> QED
      BY <2>2, <3>1, <3>3, <3>4, <3>5, Zenon DEF Typed
  <2> QED
    BY <2>1, <2>2, Zenon DEF StoreFails
<1>4. Typed'
  BY <1>1, <1>2, <1>3, RoundFields, Zenon DEF Typed, history
<1>5. /\ \A m \in Node : rounds'[m].segments \subseteq rounds[m].segments
      /\ \A m \in Node : m # n => rounds'[m] = rounds[m]
      /\ ~rounds'[n].on /\ rounds'[n].segments = {}
  BY <1>1, RoundFields DEF Typed
<1>6. Listed'
  BY <1>1, <1>2, <1>3, <1>5, ListedStays, Zenon DEF Listed
<1>7. Exclusive'
  <2>1. \A c \in claims : c.node \in Node
    BY ClaimFields, Zenon DEF Typed
  <2>2. \A r \in renewals : r.node \in Node
    BY RenewalFields, Zenon DEF Typed
  <2> QED
    BY <1>1, <1>2, <1>5, <2>1, <2>2 DEF Exclusive
<1> QED
  BY <1>4, <1>6, <1>7, Zenon

\* Of a node that dies nothing is left.
LEMMA StructureCrash ==
  ASSUME Structure, NEW n \in Node, Crash(n)
  PROVE  Structure'
<1> USE DEF Structure
<1>1. /\ rounds' = [rounds EXCEPT ![n] = IdleRound]
      /\ claims' \subseteq claims /\ (\A c \in claims' : c.node # n)
      /\ workers' \subseteq workers
      /\ renewals' \subseteq renewals
      /\ UNCHANGED <<initialSegments, rows, history>>
  BY Zenon DEF Crash
<1>2. Typed'
  BY <1>1, RoundFields, Zenon DEF Typed, history
<1>3. /\ \A m \in Node : rounds'[m].segments \subseteq rounds[m].segments
      /\ \A m \in Node : m # n => rounds'[m] = rounds[m]
      /\ ~rounds'[n].on /\ rounds'[n].segments = {}
  BY <1>1, RoundFields DEF Typed
<1>4. Listed'
  BY <1>1, <1>3, ListedStays, Zenon DEF Listed
<1>5. Exclusive'
  <2>1. \A c \in claims : c.node \in Node
    BY ClaimFields, Zenon DEF Typed
  <2>2. \A r \in renewals : r.node \in Node
    BY RenewalFields, Zenon DEF Typed
  <2> QED
    BY <1>1, <1>3, <2>1, <2>2 DEF Exclusive
<1> QED
  BY <1>2, <1>4, <1>5, Zenon

\* With plain tokens a batch is what is accepted up to p, and all of it is new.
LEMMA PlainBatch ==
  ASSUME NEW w \in Worker, NEW p \in Event
  PROVE  /\ Batch(w, p) = {e \in Accepted(w) : e <= p}
         /\ AsNew(w, Batch(w, p)) = Batch(w, p)
<1>1. /\ w.token.at \in Nat /\ w.token.reset = w.token.at /\ w.token.halves = {}
  BY WorkerFields, TokenFields, ClaimsAssumption
<1>2. Batch(w, p) = {e \in Accepted(w) : e <= p}
  BY <1>1, Zenon DEF Batch, HandledByMergedHalf
<1>3. ~Replaying(w.token)
  BY <1>1 DEF Replaying
<1> QED
  BY <1>2, <1>3, Zenon DEF AsNew

\* What a poll does that found events, or a quiet stretch, up to p.
LEMMA Polling ==
  ASSUME Structure, NEW w \in workers, NEW p \in Event,
         ProcessBatch(w, p) \/ MoveThroughQuietStretch(w, p)
  PROVE  /\ p > w.token.at
         /\ ~\E r \in renewals : r.node = w.node /\ r.id = w.segment.id
         /\ \/ workers' = workers \ {w} /\ UNCHANGED <<rows, handled, folded, repeated>>
            \/ /\ \E b \in BOOLEAN : workers' = (workers \ {w}) \cup {Moved(w, Plain(p), b)}
               /\ \/ UNCHANGED rows
                  \/ /\ Stores(w.node, w.segment.id)
                     /\ rows' = [rows EXCEPT ![w.segment.id] = StoredRow(w.node, Plain(p))]
               /\ \/ /\ handled' = handled \cup {e \in Accepted(w) : e <= p}
                     /\ folded' = folded \cup {e \in Accepted(w) : e <= p}
                     /\ repeated' = repeated \cup ({e \in Accepted(w) : e <= p} \cap handled)
                     /\ Stores(w.node, w.segment.id)
                     /\ rows' = [rows EXCEPT ![w.segment.id] = StoredRow(w.node, Plain(p))]
                  \/ /\ UNCHANGED <<handled, folded, repeated>>
                     /\ \A e \in Accepted(w) : e > p
         /\ UNCHANGED <<initialSegments, rounds, claims, renewals, contested>>
<1>1. w \in Worker
  BY Zenon DEF Structure, Typed
<1>2. w.token \in PlainToken /\ w.unwritten \in BOOLEAN
  BY <1>1, WorkerFields, Zenon
<1>3. p > w.token.at
  BY Zenon DEF ProcessBatch, MoveThroughQuietStretch, Accepted
<1>4. AdvanceTokenTo(w.token, p) = Plain(p)
  BY <1>2, <1>3, Advances, Zenon
<1>5. /\ Batch(w, p) = {e \in Accepted(w) : e <= p}
      /\ AsNew(w, Batch(w, p)) = Batch(w, p)
  BY <1>1, PlainBatch, Zenon
<1>6. ~\E r \in renewals : r.node = w.node /\ r.id = w.segment.id
  BY Zenon DEF ProcessBatch, MoveThroughQuietStretch, Polls
<1>7. CASE ProcessBatch(w, p)
  BY <1>3, <1>4, <1>5, <1>6, <1>7, Zenon DEF ProcessBatch, Replace, Lose
<1>8. CASE MoveThroughQuietStretch(w, p)
  BY <1>2, <1>3, <1>4, <1>6, <1>8, Zenon DEF MoveThroughQuietStretch, Replace, Lose, history
<1> QED
  BY <1>7, <1>8, Zenon

\* A poll moves one worker, or ends it.
LEMMA StructurePoll ==
  ASSUME Structure, NEW w \in workers, NEW p \in Event,
         ProcessBatch(w, p) \/ MoveThroughQuietStretch(w, p)
  PROVE  Structure'
<1> USE DEF Structure
<1>1. /\ w \in Worker /\ w.node \in Node /\ w.segment.id \in Ids
      /\ Plain(p) \in PlainToken
  BY WorkerFields, SegmentFields, PlainIsToken, ClaimsAssumption DEF Typed, Event
<1>2. \A b \in BOOLEAN : LET v == Moved(w, Plain(p), b)
                         IN v \in Worker /\ v.node = w.node /\ v.segment = w.segment
  BY <1>1, WrittenWorkers
<1>3. LET row == StoredRow(w.node, Plain(p)) IN row \in Row /\ row.there
  BY <1>1, WrittenRows, Zenon
<1>4. rows' \in [Ids -> Row] /\ \A i \in Ids : rows'[i].there = rows[i].there
  <2>1. CASE UNCHANGED rows
    BY <2>1, Zenon DEF Typed
  <2>2. CASE rows' = [rows EXCEPT ![w.segment.id] = StoredRow(w.node, Plain(p))]
    <3>1. rows[w.segment.id].there \in BOOLEAN /\ StoredRow(w.node, Plain(p)).there \in BOOLEAN
      BY <1>1, <1>3, RowFields, Zenon DEF Typed
    <3> QED
      BY <1>1, <1>3, <2>2, <3>1, Zenon DEF Typed, Listed
  <2> QED
    BY <2>1, <2>2, Polling, Zenon
<1>5. \A v \in workers' : v \in workers \/ (v \in Worker /\ v.node = w.node /\ v.segment = w.segment)
  BY <1>2, Polling, SMTT(20)
<1>6. UNCHANGED <<initialSegments, rounds, claims, renewals, contested>>
  BY Polling, Zenon
<1>7. handled' \subseteq Event /\ folded' \subseteq Event
  BY Polling, Zenon DEF Typed, Accepted
<1>8. Typed'
  BY <1>4, <1>5, <1>6, <1>7, Zenon DEF Typed
<1>9. Listed'
  BY <1>4, <1>5, <1>6, ListedStays, Zenon DEF Listed
<1>10. Exclusive'
  <2>1. CASE workers' = workers \ {w}
    BY <1>6, <2>1 DEF Exclusive
  <2>2. ASSUME NEW b \in BOOLEAN, workers' = (workers \ {w}) \cup {Moved(w, Plain(p), b)}
        PROVE  Exclusive'
    <3> DEFINE v == Moved(w, Plain(p), b)
    <3>1. v.node = w.node /\ v.segment = w.segment /\ workers' = (workers \ {w}) \cup {v}
      BY <1>2, <2>2, Zenon
    <3> HIDE DEF v
    <3>2. ~\E r \in renewals : r.node = w.node /\ r.id = w.segment.id
      BY Polling, Zenon
    <3> QED
      BY <1>6, <3>1, <3>2 DEF Exclusive
  <2> QED
    BY <2>1, <2>2, Polling, Zenon
<1> QED
  BY <1>8, <1>9, <1>10, Zenon

\* A renewal begins between rounds.
LEMMA StructureRenew ==
  ASSUME Structure, NEW w \in workers, Renew(w)
  PROVE  Structure'
<1> USE DEF Structure
<1> DEFINE r == [node |-> w.node, id |-> w.segment.id, token |-> w.token]
<1>1. w \in Worker /\ w.node \in Node /\ w.segment.id \in Ids /\ w.token \in PlainToken
  BY WorkerFields, SegmentFields, Zenon DEF Typed
<1>2. r \in Renewal /\ r.node = w.node /\ r.id = w.segment.id /\ r.token = w.token
  BY <1>1, Zenon DEF Renewal
<1>3. /\ renewals' = renewals \cup {r}
      /\ UNCHANGED <<initialSegments, rows, rounds, claims, workers, history>>
      /\ ~\E q \in renewals : q.node = w.node
  BY Zenon DEF Renew
<1>4. ~rounds[w.node].on
  BY RoundFields, Zenon DEF Renew
<1> HIDE DEF r
<1>5. Typed'
  BY <1>2, <1>3, Zenon DEF Typed, history
<1>6. Listed'
  BY <1>3, ListedStays, Zenon DEF Listed
<1>7. Exclusive'
  BY <1>2, <1>3, <1>4 DEF Exclusive
<1> QED
  BY <1>5, <1>6, <1>7, Zenon

\* A renewal that lands leaves the workers' segments and tokens as they are, and
\* no two workers become one.
LEMMA Landing ==
  ASSUME Structure, NEW r \in renewals, RenewalLands(r)
  PROVE  /\ \E f \in [workers -> Worker] :
              /\ \A w \in workers : f[w].node = w.node /\ f[w].segment = w.segment /\ f[w].token = w.token
              /\ \A v \in workers' : \E w \in workers : v = f[w]
         /\ \/ UNCHANGED rows
            \/ Stores(r.node, r.id) /\ rows' = [rows EXCEPT ![r.id] = StoredRow(r.node, r.token)]
         /\ renewals' = renewals \ {r}
         /\ UNCHANGED <<initialSegments, rounds, claims, history>>
<1> DEFINE held == {w \in workers : w.node = r.node /\ w.segment.id = r.id /\ w.token = r.token}
           f == [w \in workers |-> IF w \in held THEN Moved(w, w.token, FALSE) ELSE w]
<1>1. \A w \in workers : w \in Worker /\ w.token \in PlainToken
  BY WorkerFields, Zenon DEF Structure, Typed
<1>2. \A w \in workers : LET v == Moved(w, w.token, FALSE)
                         IN v \in Worker /\ v.node = w.node /\ v.segment = w.segment /\ v.token = w.token
  BY <1>1, WrittenWorkers, Zenon
<1>3. \/ workers' = workers \ held
      \/ workers' = (workers \ held) \cup {Moved(w, w.token, FALSE) : w \in held}
  BY Zenon DEF RenewalLands
<1>4. held \subseteq workers
  BY Zenon
<1> HIDE DEF held
<1>5. \A v \in workers' : \E w \in workers : v = f[w]
  BY <1>3, <1>4, Zenon
<1>6. \A w \in workers : f[w].node = w.node /\ f[w].segment = w.segment /\ f[w].token = w.token
  BY <1>2, Zenon
<1>7. f \in [workers -> Worker]
  BY <1>1, <1>2, Zenon
<1>8. \/ UNCHANGED rows
      \/ Stores(r.node, r.id) /\ rows' = [rows EXCEPT ![r.id] = StoredRow(r.node, r.token)]
  BY Zenon DEF RenewalLands
<1>9. renewals' = renewals \ {r} /\ UNCHANGED <<initialSegments, rounds, claims, history>>
  BY Zenon DEF RenewalLands
<1> HIDE DEF f
<1> QED
  BY <1>5, <1>6, <1>7, <1>8, <1>9, Zenon

\* A renewal lands.
LEMMA StructureLands ==
  ASSUME Structure, NEW r \in renewals, RenewalLands(r)
  PROVE  Structure'
<1> USE DEF Structure
<1>1. PICK f \in [workers -> Worker] :
        /\ \A w \in workers : f[w].node = w.node /\ f[w].segment = w.segment /\ f[w].token = w.token
        /\ \A v \in workers' : \E w \in workers : v = f[w]
  BY Landing, Zenon
<1>2. renewals' \subseteq renewals /\ UNCHANGED <<initialSegments, rounds, claims, history>>
  BY Landing, Zenon
<1>3. rows' \in [Ids -> Row] /\ \A i \in Ids : rows'[i].there = rows[i].there
  <2>1. CASE UNCHANGED rows
    BY <2>1, Zenon DEF Typed
  <2>2. CASE Stores(r.node, r.id) /\ rows' = [rows EXCEPT ![r.id] = StoredRow(r.node, r.token)]
    <3>1. r.node \in Node /\ r.id \in Ids /\ r.token \in PlainToken
      BY RenewalFields, Zenon DEF Typed
    <3>2. StoredRow(r.node, r.token) \in Row /\ StoredRow(r.node, r.token).there
      BY <3>1, WrittenRows, Zenon
    <3>3. rows[r.id].there \in BOOLEAN /\ StoredRow(r.node, r.token).there \in BOOLEAN
      BY <3>1, <3>2, RowFields, Zenon DEF Typed
    <3>4. rows[r.id].there
      BY <2>2, Zenon DEF Stores
    <3> QED
      BY <2>2, <3>1, <3>2, <3>3, <3>4, Zenon DEF Typed
  <2> QED
    BY <2>1, <2>2, Landing, Zenon
<1>4. workers' \subseteq Worker
  BY <1>1, Zenon
<1>5. Typed'
  BY <1>2, <1>3, <1>4, Zenon DEF Typed, history
<1>6. Listed'
  <2>1. \A v \in workers' : v.segment \in Whole /\ rows[v.segment.id].there
    BY <1>1 DEF Listed
  <2> QED
    BY <1>2, <1>3, <2>1, ListedStays, Zenon DEF Listed
<1>7. Exclusive'
  BY <1>1, <1>2, SMTT(20) DEF Exclusive
<1> QED
  BY <1>5, <1>6, <1>7, Zenon

\* What the second statement of a claim does.
LEMMA Claims ==
  ASSUME Structure, NEW c \in claims, ClaimSegment(c)
  PROVE  LET i == c.segment.id
             row == StoredRow(c.node, rows[i].token)
         IN /\ claims' = claims \ {c}
            /\ contested' = (contested \/ c.row.token # rows[i].token)
            /\ \/ /\ rows' = [rows EXCEPT ![i] = row]
                  /\ workers' = workers \cup {StartedWorker(c.node, c.segment, c.row.token)}
               \/ /\ rows' = [rows EXCEPT ![i] = ReleasedRow(row)]
                  /\ UNCHANGED workers
            /\ rounds' = [rounds EXCEPT ![c.node] = Round(rounds[c.node].first, rounds[c.node].segments)]
            /\ UNCHANGED <<initialSegments, renewals, handled, folded, repeated>>
<1> DEFINE i == c.segment.id
           row == StoredRow(c.node, rows[i].token)
           v == StartedWorker(c.node, c.segment, c.row.token)
<1>1. ~ClaimStatementFails(c) /\ ClaimedRow(c) = row
  BY ClaimTakes, Zenon
<1>2. row.token = rows[i].token
  BY ClaimTakes, ClaimFields, RowFields, WrittenRows, SMTT(20) DEF Structure, Typed
<1>3. WithWorkers({v}) = workers \cup {v}
  BY NoneHidden, Zenon
<1> HIDE DEF row, v
<1>4. /\ claims' = claims \ {c}
      /\ contested' = (contested \/ c.row.token # row.token)
      /\ \/ rows' = [rows EXCEPT ![i] = row] /\ workers' = WithWorkers({v})
         \/ rows' = [rows EXCEPT ![i] = ReleasedRow(row)] /\ UNCHANGED workers
      /\ rounds' = [rounds EXCEPT ![c.node] = Round(rounds[c.node].first, rounds[c.node].segments)]
      /\ UNCHANGED <<initialSegments, renewals, handled, folded, repeated>>
  BY <1>1, Zenon DEF ClaimSegment, v
<1> QED
  BY <1>2, <1>3, <1>4, Zenon DEF row, v

\* A claim ends, with a worker where there was none.
LEMMA StructureClaim ==
  ASSUME Structure, NEW c \in claims, ClaimSegment(c)
  PROVE  Structure'
<1> USE DEF Structure
<1> DEFINE n == c.node
           i == c.segment.id
           row == StoredRow(n, rows[i].token)
           v == StartedWorker(n, c.segment, c.row.token)
<1>1. /\ n \in Node /\ c.segment \in Segment /\ i \in Ids
      /\ c.row \in Row /\ rows[i] \in Row
  BY ClaimTakes, ClaimFields, Zenon DEF Typed
<1>2. c.row.token \in PlainToken /\ rows[i].token \in PlainToken
  BY <1>1, RowFields, Zenon
<1>3. /\ row \in Row /\ row.there
      /\ ReleasedRow(row) \in Row /\ ReleasedRow(row).there
  BY <1>1, <1>2, WrittenRows, Zenon
<1>4. v \in Worker /\ v.node = n /\ v.segment = c.segment
  BY <1>1, <1>2, WrittenWorkers
<1>5. rows' \in [Ids -> Row] /\ \A j \in Ids : rows'[j].there = rows[j].there
  <2>1. rows[i].there
    BY Zenon DEF Listed
  <2>2. /\ rows[i].there \in BOOLEAN /\ row.there \in BOOLEAN
        /\ ReleasedRow(row).there \in BOOLEAN
    BY <1>1, <1>3, RowFields, Zenon
  <2>3. rows' = [rows EXCEPT ![i] = row] \/ rows' = [rows EXCEPT ![i] = ReleasedRow(row)]
    BY Claims, Zenon
  <2> HIDE DEF row
  <2> QED
    BY <1>1, <1>3, <2>1, <2>2, <2>3, Zenon DEF Typed
<1>6. workers' = workers \cup {v} \/ workers' = workers
  BY Claims, Zenon
<1>7. /\ claims' = claims \ {c}
      /\ rounds' = [rounds EXCEPT ![n] = Round(rounds[n].first, rounds[n].segments)]
      /\ contested' \in BOOLEAN
      /\ UNCHANGED <<initialSegments, renewals, handled, folded>>
  BY Claims, Zenon
<1>8. LET r == Round(rounds[n].first, rounds[n].segments)
      IN r \in ClaimRound /\ r.segments = rounds[n].segments /\ (r.on <=> rounds[n].segments # {})
  BY <1>1, RoundFields DEF Typed
<1> HIDE DEF v, row
<1>9. Typed'
  BY <1>1, <1>4, <1>5, <1>6, <1>7, <1>8, Zenon DEF Typed
<1>10. /\ \A m \in Node : rounds'[m].segments = rounds[m].segments
       /\ \A m \in Node : m # n => rounds'[m] = rounds[m]
       /\ rounds'[n].segments # {} => rounds'[n].on
  BY <1>1, <1>7, <1>8, Zenon DEF Typed
<1>11. Listed'
  <2>1. \A w \in workers' : w.segment \in Whole /\ rows[w.segment.id].there
    BY <1>4, <1>6, Zenon DEF Listed
  <2> QED
    BY <1>5, <1>7, <1>10, <2>1, ListedStays, Zenon DEF Listed
<1>12. Exclusive'
  <2>1. \A d \in claims : d.node \in Node
    BY ClaimFields, Zenon DEF Typed
  <2>2. \A r \in renewals : r.node \in Node /\ r.node # n
    BY RenewalFields, Zenon DEF Typed, Exclusive
  <2>3. \A d \in claims' : d \in claims /\ d.node # n
    BY <1>7, Zenon DEF Exclusive
  <2>4. \A w \in workers : ~(n = w.node /\ i = w.segment.id)
    BY Zenon DEF Exclusive
  <2>5. \A u, w \in workers' : u.node = w.node /\ u.segment.id = w.segment.id => u = w
    <3>1. \A w \in workers : ~(v.node = w.node /\ v.segment.id = w.segment.id)
      BY <1>4, <2>4, Zenon
    <3> QED
      BY <1>6, <3>1 DEF Exclusive
  <2>6. /\ \A b, d \in claims' : b.node = d.node => b = d
        /\ \A d \in claims' : rounds'[d.node].on
        /\ \A d \in claims', w \in workers' : ~(d.node = w.node /\ d.segment.id = w.segment.id)
    BY <1>4, <1>6, <1>10, <2>1, <2>3, Zenon DEF Exclusive
  <2>7. \A m \in Node : rounds'[m].segments # {} => rounds'[m].on
    BY <1>10, Zenon DEF Exclusive
  <2>8. /\ \A r \in renewals : ~rounds'[r.node].on
        /\ \A r \in renewals, w \in workers' :
             r.node = w.node /\ r.id = w.segment.id => r.token = w.token
    BY <1>4, <1>6, <1>10, <2>2, Zenon DEF Exclusive
  <2> QED
    BY <1>7, <2>5, <2>6, <2>7, <2>8, Zenon DEF Exclusive
<1> QED
  BY <1>9, <1>11, <1>12, Zenon

\* Expiry changes neither token nor owner.
LEMMA StructureExpire ==
  ASSUME Structure, NEW i \in Ids, Expire(i)
  PROVE  Structure' /\ \A j \in Ids : /\ rows'[j].token = rows[j].token
                                      /\ rows'[j].owner = rows[j].owner
<1> USE DEF Structure
<1> DEFINE row == [there |-> rows[i].there, token |-> rows[i].token, owner |-> rows[i].owner, fresh |-> FALSE]
<1>1. /\ rows' = [rows EXCEPT ![i] = row]
      /\ UNCHANGED <<initialSegments, rounds, claims, workers, renewals, history>>
  BY Zenon DEF Expire
<1>2. /\ row \in Row /\ row.there = rows[i].there
      /\ row.token = rows[i].token /\ row.owner = rows[i].owner
  BY RowFields, Zenon DEF Typed, Row
<1> HIDE DEF row
<1>3. /\ rows' \in [Ids -> Row]
      /\ \A j \in Ids : /\ rows'[j].there = rows[j].there
                        /\ rows'[j].token = rows[j].token
                        /\ rows'[j].owner = rows[j].owner
  BY <1>1, <1>2, Zenon DEF Typed
<1>4. Typed'
  BY <1>1, <1>3, Zenon DEF Typed, history
<1>5. Listed'
  BY <1>1, <1>3, ListedStays, Zenon DEF Listed
<1>6. Exclusive'
  BY <1>1, Zenon DEF Exclusive
<1> QED
  BY <1>3, <1>4, <1>5, <1>6, Zenon

\* Every step keeps Structure.
LEMMA StructureStep ==
  ASSUME Structure, [Next]_vars
  PROVE  Structure'
<1>1. CASE UNCHANGED vars
  BY <1>1, Zenon DEF vars, claimVars, history, Structure, Typed, Listed, Exclusive, SegmentIds, Whole
<1>2. ASSUME NEW n \in Node, NodeStep(n) PROVE Structure'
  BY <1>2, StructureList, StructureStop, StructureClaimNext, StructureStoreFails, StructureCrash, Zenon
     DEF NodeStep
<1>3. ASSUME NEW w \in workers, WorkerStep(w) PROVE Structure'
  BY <1>3, StructureRenew, StructureRelease, StructurePoll, Zenon DEF WorkerStep
<1>4. ASSUME NEW i \in Ids, ClaimLapses(i) \/ ClaimStalls(i) PROVE Structure'
  BY <1>4, StructureExpire, Zenon DEF ClaimLapses, ClaimStalls
<1> QED
  BY <1>1, <1>2, <1>3, <1>4, StructureLands, StructureClaim, Zenon DEF Next

-----------------------------------------------------------------------------
(* Tokens: what they cover, and that they advance. *)

\* The types the arguments below need.
LEMMA Positions ==
  ASSUME Structure
  PROVE  /\ \A i \in Ids : rows[i].token \in PlainToken /\ rows[i].token.at \in Nat
         /\ \A w \in workers : /\ w.node \in Node /\ w.segment.id \in Ids
                               /\ w.token \in PlainToken /\ w.token.at \in Nat
         /\ \A r \in renewals : r.node \in Node /\ r.id \in Ids /\ r.token.at \in Nat
         /\ \A s \in Whole : s.id \in Ids
         /\ Nobody \notin Node
<1> USE DEF Structure, Typed
<1>1. \A i \in Ids : rows[i].token \in PlainToken /\ rows[i].token.at \in Nat
  BY RowFields, TokenFields, ClaimsAssumption
<1>2. \A w \in workers : /\ w.node \in Node /\ w.segment.id \in Ids
                         /\ w.token \in PlainToken /\ w.token.at \in Nat
  BY WorkerFields, SegmentFields, TokenFields, ClaimsAssumption
<1>3. \A r \in renewals : r.node \in Node /\ r.id \in Ids /\ r.token.at \in Nat
  BY RenewalFields, TokenFields, ClaimsAssumption
<1>4. \A s \in Whole : s.id \in Ids
  BY SetUp, SegmentFields, Zenon
<1> QED
  BY <1>1, <1>2, <1>3, <1>4, ClaimsAssumption, Zenon

\* Inv holds at the start: no token is past anything.
LEMMA InvInit == Init => Inv
<1> SUFFICES ASSUME Init PROVE Inv
  BY Zenon
<1>1. Structure
  BY StructureInit, Zenon
<1>2. \A s \in Whole : rows[s.id].token.at = 0
  BY <1>1, Positions, WrittenRows, PlainIsToken, ClaimsAssumption, SMTT(20) DEF Init
<1>3. Covered
  BY <1>2, SMTT(20) DEF Init, Covered, Covers, Event
<1>4. Forward
  BY Zenon DEF Init, Forward
<1> QED
  BY <1>1, <1>3, <1>4, Zenon DEF Inv

\* Rows set up now start at 0; others stay.
LEMMA InvList ==
  ASSUME Inv, NEW n \in Node, Start(n) \/ BeginRound(n)
  PROVE  Covered' /\ RowsAdvance /\ (~contested' => Forward')
<1> USE DEF Inv
<1>1. /\ UNCHANGED <<initialSegments, claims, workers, renewals, folded, contested>>
      /\ \E first \in BOOLEAN : ListSegments(n, first)
  BY Zenon DEF Start, BeginRound, history
<1>2. \A i \in Ids : rows'[i] = rows[i] \/ (~rows[i].there /\ rows'[i] = FreeRow)
  BY <1>1, Listing, Zenon
<1>3. FreeRow.token.at = 0 /\ FreeRow.owner = Nobody
  BY WrittenRows, PlainIsToken, ClaimsAssumption
<1>4. \A s \in Segment : Covers(FreeRow.token, s, folded)
  BY <1>3 DEF Covers, Event
<1>5. Whole' = Whole /\ Whole \subseteq Segment
  BY <1>1, SetUp, Zenon DEF Whole, Structure
<1>6. Covered'
  BY <1>1, <1>2, <1>4, <1>5, Positions, Zenon DEF Covered
<1>7. ~contested' => Forward'
  BY <1>1, <1>2, <1>3, Positions, Zenon DEF Forward
<1>8. RowsAdvance
  BY <1>2, Positions DEF RowsAdvance
<1> QED
  BY <1>6, <1>7, <1>8, Zenon

\* Steps after which every row has the token and the owner it had, and nothing
\* is added to what the nodes do: a crash, a lapse, a store that fails.
LEMMA InvKept ==
  ASSUME Inv, UNCHANGED <<initialSegments, folded, contested>>,
         claims' \subseteq claims, workers' \subseteq workers, renewals' \subseteq renewals,
         \A j \in Ids : /\ rows'[j].token = rows[j].token /\ rows'[j].owner = rows[j].owner
                        /\ rows[j].there => rows'[j].there
  PROVE  Covered' /\ RowsAdvance /\ (~contested' => Forward')
<1>1. /\ \A s \in Whole : s.id \in Ids
      /\ \A w \in workers : w.segment.id \in Ids
      /\ \A r \in renewals : r.id \in Ids
      /\ \A i \in Ids : rows[i].token.at \in Nat
  BY Positions, Zenon DEF Inv
<1>2. \A i \in Ids : rows[i].token.at <= rows[i].token.at
  BY <1>1
<1>3. Whole' = Whole
  BY Zenon DEF Whole
<1>4. Covered'
  BY <1>1, <1>3, Zenon DEF Inv, Covered
<1>5. RowsAdvance
  BY <1>2, Zenon DEF RowsAdvance
<1>6. ~contested' => Forward'
  BY <1>1, Zenon DEF Inv, Forward
<1> QED
  BY <1>4, <1>5, <1>6, Zenon

\* Stop and ReleaseSegment.
LEMMA InvStop ==
  ASSUME Inv, NEW W \in SUBSET workers, StopWorkers(W),
         UNCHANGED <<initialSegments, claims, renewals, folded, contested>>
  PROVE  Covered' /\ (~contested' => RowsAdvance /\ Forward')
<1> USE DEF Inv
<1>1. \A i \in Ids :
        \/ rows'[i] = rows[i]
        \/ \E w \in W : /\ w.segment.id = i /\ rows[i].owner = w.node
                        /\ rows'[i].there /\ rows'[i].owner = Nobody
                        /\ rows'[i].token \in {rows[i].token, w.token}
  BY Stopping, Zenon
<1>2. workers' \subseteq workers
  BY Stopping, Zenon
<1>3. Whole' = Whole
  BY Zenon DEF Whole
<1>4. ASSUME NEW s \in Whole PROVE Covers(rows'[s.id].token, s, folded)
  <2>1. s.id \in Ids
    BY Positions, Zenon
  <2>2. \A w \in W : w.segment.id = s.id => w.segment = s
    BY KnownById, Zenon DEF Structure, Listed
  <2> QED
    BY <1>1, <2>1, <2>2 DEF Covered
<1>5. Covered'
  BY <1>2, <1>3, <1>4, Zenon DEF Covered
<1>6. ASSUME ~contested' PROVE RowsAdvance
  BY <1>1, <1>6, Positions, SMTT(20) DEF RowsAdvance, Forward
<1>7. ASSUME ~contested' PROVE Forward'
  <2>1. \A i \in Ids : rows'[i] = rows[i] \/ rows'[i].owner = Nobody
    BY <1>1, Zenon
  <2> QED
    BY <1>2, <1>7, <2>1, Positions, Zenon DEF Forward
<1> QED
  BY <1>5, <1>6, <1>7, Zenon

\* What a claim reads is a row of its own segment.
LEMMA InvClaimNext ==
  ASSUME Inv, NEW n \in Node, ClaimNext(n)
  PROVE  Covered' /\ RowsAdvance /\ (~contested' => Forward')
<1> USE DEF Inv
<1>1. UNCHANGED <<initialSegments, rows, workers, renewals, folded, contested>>
  BY Zenon DEF ClaimNext, history
<1>2. \A c \in claims' : \/ c \in claims
                         \/ \E s \in rounds[n].segments :
                              c = [node |-> n, segment |-> s, row |-> rows[s.id], operation |-> FALSE]
  BY Zenon DEF ClaimNext
<1>3. \A s \in rounds[n].segments : s \in Whole
  BY Zenon DEF Structure, Listed
<1>4. \A c \in claims' : Covers(c.row.token, c.segment, folded)
  BY <1>2, <1>3, SMTT(20) DEF Covered
<1>5. Whole' = Whole
  BY <1>1, Zenon DEF Whole
<1>6. Covered'
  BY <1>1, <1>4, <1>5, Zenon DEF Covered
<1>7. RowsAdvance /\ (~contested' => Forward')
  BY <1>1, Positions DEF RowsAdvance, Forward
<1> QED
  BY <1>6, <1>7, Zenon

\* A claim that went through unnoticed moves no token, and no worker follows.
LEMMA InvStoreFails ==
  ASSUME Inv, NEW n \in Node, StoreFails(n)
  PROVE  Covered' /\ RowsAdvance /\ (~contested' => Forward')
<1> USE DEF Inv
<1>1. /\ claims' \subseteq claims
      /\ UNCHANGED <<initialSegments, workers, renewals, folded, contested>>
  BY Zenon DEF StoreFails, RoundThrows, history
<1>2. Whole' = Whole
  BY <1>1, Zenon DEF Whole
<1>3. CASE UNCHANGED rows
  BY <1>1, <1>3, InvKept, Zenon
<1>4. ASSUME NEW c \in claims, rows' = [rows EXCEPT ![c.segment.id] = ClaimedRow(c)]
      PROVE  Covered' /\ RowsAdvance /\ (~contested' => Forward')
  <2> DEFINE i == c.segment.id
             row == StoredRow(c.node, rows[i].token)
  <2>1. rows' = [rows EXCEPT ![i] = row] /\ i \in Ids /\ c \in Claim
    BY <1>4, ClaimTakes, Zenon
  <2>2. row.there /\ row.owner = c.node /\ row.token = rows[i].token
    BY <2>1, ClaimFields, Positions, WrittenRows, SMTT(20)
  <2> HIDE DEF row
  <2>3. \A j \in Ids : /\ rows'[j].token = rows[j].token
                       /\ rows[j].there => rows'[j].there
                       /\ j # i => rows'[j] = rows[j]
    BY <2>1, <2>2, Zenon DEF Structure, Typed
  <2>4. rows'[i].owner = c.node
    BY <2>1, <2>2, Zenon DEF Structure, Typed
  <2>5. Covered'
    BY <1>1, <1>2, <2>3, Positions, Zenon DEF Covered
  <2>6. RowsAdvance
    BY <2>3, Positions, SMTT(20) DEF RowsAdvance
  <2>7. /\ \A w \in workers : ~(c.node = w.node /\ i = w.segment.id)
        /\ \A r \in renewals : r.node # c.node
    BY Zenon DEF Structure, Exclusive
  <2>8. ~contested' => Forward'
    BY <1>1, <2>1, <2>3, <2>4, <2>7, Positions, SMTT(20) DEF Forward
  <2> QED
    BY <2>5, <2>6, <2>8, Zenon
<1> QED
  BY <1>3, <1>4, Zenon DEF StoreFails

\* A poll stores a position up to which it has handled all of its segment.
LEMMA InvPoll ==
  ASSUME Inv, NEW w \in workers, NEW p \in Event,
         ProcessBatch(w, p) \/ MoveThroughQuietStretch(w, p)
  PROVE  Covered' /\ (~contested' => RowsAdvance /\ Forward')
<1> USE DEF Inv
<1> DEFINE i == w.segment.id
           row == StoredRow(w.node, Plain(p))
<1>1. UNCHANGED <<initialSegments, claims, renewals, contested>> /\ p > w.token.at
  BY Polling, Zenon
<1>2. Whole' = Whole
  BY <1>1, Zenon DEF Whole
<1>3. folded \subseteq folded'
  BY Polling, Zenon
<1>4. \A t \in PlainToken, s \in Segment : Covers(t, s, folded) => Covers(t, s, folded')
  BY <1>3, Zenon DEF Covers
<1>5. /\ w \in Worker /\ w.node \in Node /\ i \in Ids /\ w.segment \in Whole /\ w.segment \in Segment
      /\ p \in 0..LastEvent /\ w.token.at \in Nat
  <2>1. w \in Worker /\ w.segment \in Whole
    BY Zenon DEF Structure, Typed, Listed
  <2>2. w.node \in Node /\ i \in Ids /\ w.token.at \in Nat
    BY Positions, Zenon
  <2>3. w.segment \in Segment
    BY <2>1, WorkerFields, Zenon
  <2>4. p \in 0..LastEvent
    BY ClaimsAssumption DEF Event
  <2> QED
    BY <2>1, <2>2, <2>3, <2>4, Zenon
<1>6. Plain(p) \in PlainToken /\ Plain(p).at = p
  BY <1>5, PlainIsToken, Zenon
<1>7. row.there /\ row.owner = w.node /\ row.token = Plain(p)
  BY <1>5, <1>6, WrittenRows, Zenon
<1>8. \A b \in BOOLEAN : LET v == Moved(w, Plain(p), b)
                         IN v.node = w.node /\ v.segment = w.segment /\ v.token = Plain(p)
  BY <1>5, <1>6, WrittenWorkers, SMTT(20)
<1> HIDE DEF row
<1>9. CASE workers' = workers \ {w} /\ UNCHANGED <<rows, folded>>
  <2>1. workers' \subseteq workers
    BY <1>9, Zenon
  <2> QED
    BY <1>1, <1>9, <2>1, InvKept, Zenon
<1>10. ASSUME NEW b \in BOOLEAN, workers' = (workers \ {w}) \cup {Moved(w, Plain(p), b)},
              \/ UNCHANGED rows
              \/ Stores(w.node, i) /\ rows' = [rows EXCEPT ![i] = row],
              \/ folded' = folded \cup {e \in Accepted(w) : e <= p}
              \/ \A e \in Accepted(w) : e > p
       PROVE  Covered' /\ (~contested' => RowsAdvance /\ Forward')
  <2> DEFINE v == Moved(w, Plain(p), b)
  <2>1. v.node = w.node /\ v.segment = w.segment /\ v.token = Plain(p)
    BY <1>8, Zenon
  <2>2. workers' = (workers \ {w}) \cup {v}
    BY <1>10, Zenon
  <2> HIDE DEF v
  <2>3. Covers(Plain(p), w.segment, folded')
    <3> SUFFICES ASSUME NEW e \in Event, InSegment(w.segment, Hash[e]), e <= p
                 PROVE  e \in folded'
      BY <1>6, Zenon DEF Covers
    <3>1. CASE e <= w.token.at
      BY <1>3, <3>1, Zenon DEF Covered, Covers
    <3>2. CASE e > w.token.at
      BY <1>10, <3>2 DEF Accepted, Event
    <3> QED
      BY <1>5, <3>1, <3>2 DEF Event
  <2>4. ASSUME NEW s \in Whole PROVE Covers(rows'[s.id].token, s, folded')
    <3>1. s.id \in Ids /\ s \in Segment /\ rows[s.id].token \in PlainToken
      BY Positions, SetUp, Zenon DEF Structure
    <3>2. CASE rows'[s.id] = rows[s.id]
      BY <1>4, <3>1, <3>2, Zenon DEF Covered
    <3>3. CASE rows'[s.id] # rows[s.id]
      <4>1. rows'[s.id] = row /\ s.id = i
        BY <1>10, <3>1, <3>3, Zenon DEF Structure, Typed
      <4>2. s = w.segment
        BY <1>5, <4>1, KnownById, Zenon DEF Structure
      <4> QED
        BY <1>7, <2>3, <4>1, <4>2, Zenon
    <3> QED
      BY <3>2, <3>3, Zenon
  <2>5. Covered'
    <3>1. \A u \in workers : Covers(u.token, u.segment, folded')
      BY <1>4, Positions, WorkerFields, Zenon DEF Covered, Structure, Typed
    <3>2. \A c \in claims : Covers(c.row.token, c.segment, folded')
      BY <1>4, ClaimFields, RowFields, Zenon DEF Covered, Structure, Typed
    <3>3. \A r \in renewals : \A s \in Whole : s.id = r.id => Covers(r.token, s, folded')
      BY <1>4, RenewalFields, SetUp, Zenon DEF Covered, Structure, Typed
    <3> QED
      BY <1>1, <1>2, <2>1, <2>2, <2>3, <2>4, <3>1, <3>2, <3>3, Zenon DEF Covered
  <2>6. ASSUME ~contested' PROVE RowsAdvance /\ Forward'
    <3>1. Forward
      BY <1>1, <2>6, Zenon
    <3>2. \A j \in Ids : rows'[j] = rows[j] \/ (j = i /\ rows'[j] = row /\ rows[j].owner = w.node)
      BY <1>5, <1>10, Zenon DEF Structure, Typed, Stores
    <3>3. rows[i].owner = w.node => rows[i].token.at <= p
      <4>1. rows[i].owner = w.node => rows[i].token.at <= w.token.at
        BY <3>1, Zenon DEF Forward
      <4>2. rows[i].token.at \in Nat
        BY <1>5, Positions, Zenon
      <4> QED
        BY <1>1, <1>5, <4>1, <4>2
    <3>4. RowsAdvance
      BY <1>6, <1>7, <3>2, <3>3, Positions, SMTT(20) DEF RowsAdvance
    <3>5. \A u \in workers : u # w => ~(u.node = w.node /\ u.segment.id = i)
      BY Zenon DEF Structure, Exclusive
    <3>6. \A u \in workers' : rows'[u.segment.id].owner = u.node
                                => rows'[u.segment.id].token.at <= u.token.at
      BY <1>5, <1>6, <1>7, <2>1, <2>2, <3>1, <3>2, <3>3, <3>5, Positions, SMTT(20) DEF Forward
    <3>7. ~\E r \in renewals : r.node = w.node /\ r.id = i
      BY Polling, Zenon
    <3>8. \A r \in renewals : rows'[r.id].owner = r.node => rows'[r.id].token.at <= r.token.at
      BY <1>7, <3>1, <3>2, <3>7, Positions, SMTT(20) DEF Forward
    <3> QED
      BY <1>1, <3>4, <3>6, <3>8, Zenon DEF Forward
  <2> QED
    BY <2>5, <2>6, Zenon
<1> QED
  BY <1>9, <1>10, Polling, Zenon DEF row

\* A renewal carries its worker's token.
LEMMA InvRenew ==
  ASSUME Inv, NEW w \in workers, Renew(w)
  PROVE  Covered' /\ RowsAdvance /\ (~contested' => Forward')
<1> USE DEF Inv
<1> DEFINE r == [node |-> w.node, id |-> w.segment.id, token |-> w.token]
<1>1. /\ renewals' = renewals \cup {r}
      /\ UNCHANGED <<initialSegments, rows, claims, workers, folded, contested>>
  BY Zenon DEF Renew, history
<1>2. r.node = w.node /\ r.id = w.segment.id /\ r.token = w.token
  BY Zenon
<1> HIDE DEF r
<1>3. Whole' = Whole
  BY <1>1, Zenon DEF Whole
<1>4. \A s \in Whole : s.id = r.id => s = w.segment
  BY <1>2, KnownById, Zenon DEF Structure, Listed
<1>5. Covered'
  BY <1>1, <1>2, <1>3, <1>4, Zenon DEF Covered
<1>6. RowsAdvance /\ (~contested' => Forward')
  BY <1>1, <1>2, Positions, SMTT(20) DEF RowsAdvance, Forward
<1> QED
  BY <1>5, <1>6, Zenon

\* It lands before that worker can move on, or where the claim is gone.
LEMMA InvLands ==
  ASSUME Inv, NEW r \in renewals, RenewalLands(r)
  PROVE  Covered' /\ (~contested' => RowsAdvance /\ Forward')
<1> USE DEF Inv
<1>1. /\ renewals' = renewals \ {r}
      /\ UNCHANGED <<initialSegments, claims, folded, contested>>
  BY Landing, Zenon DEF history
<1>2. \A v \in workers' : \E w \in workers :
        v.node = w.node /\ v.segment = w.segment /\ v.token = w.token
  BY Landing, SMTT(20)
<1>3. Whole' = Whole
  BY <1>1, Zenon DEF Whole
<1> DEFINE row == StoredRow(r.node, r.token)
<1>4. row.there /\ row.owner = r.node /\ row.token = r.token
  <2>1. r.node \in Node /\ r.token \in PlainToken
    BY RenewalFields, Zenon DEF Structure, Typed
  <2> QED
    BY <2>1, WrittenRows, Zenon
<1>5. r.id \in Ids
  BY Positions, Zenon
<1>6. \A j \in Ids : rows'[j] = rows[j] \/ (j = r.id /\ rows'[j] = row /\ rows[j].owner = r.node)
  BY <1>5, Landing, Zenon DEF Structure, Typed, Stores
<1> HIDE DEF row
<1>7. Covered'
  <2>1. \A s \in Whole : Covers(rows'[s.id].token, s, folded)
    BY <1>4, <1>6, Positions, Zenon DEF Covered
  <2>2. \A v \in workers' : Covers(v.token, v.segment, folded)
    BY <1>2, Zenon DEF Covered
  <2> QED
    BY <1>1, <1>3, <2>1, <2>2, Zenon DEF Covered
<1>8. ASSUME ~contested' PROVE RowsAdvance /\ Forward'
  <2>1. Forward
    BY <1>1, <1>8, Zenon
  <2>2. RowsAdvance
    <3>1. \A j \in Ids : rows[j].token.at <= rows[j].token.at
      BY Positions
    <3> QED
      BY <1>4, <1>6, <2>1, <3>1, Zenon DEF RowsAdvance, Forward
  <2>3. \A w \in workers : r.node = w.node /\ r.id = w.segment.id => r.token = w.token
    BY Zenon DEF Structure, Exclusive
  <2>4. \A w \in workers : rows'[w.segment.id].owner = w.node
                             => rows'[w.segment.id].token.at <= w.token.at
    BY <1>4, <1>6, <2>1, <2>3, Positions, SMTT(20) DEF Forward
  <2>5. \A q \in renewals' : q \in renewals /\ q.node # r.node
    BY <1>1, Zenon DEF Structure, Exclusive
  <2>6. \A q \in renewals' : rows'[q.id].owner = q.node => rows'[q.id].token.at <= q.token.at
    BY <1>4, <1>6, <2>1, <2>5, Positions, Zenon DEF Forward
  <2> QED
    BY <1>2, <2>2, <2>4, <2>6, Zenon DEF Forward
<1> QED
  BY <1>7, <1>8, Zenon

\* A claim keeps the row's token; its worker is at that token unless contested.
LEMMA InvClaim ==
  ASSUME Inv, NEW c \in claims, ClaimSegment(c)
  PROVE  Covered' /\ RowsAdvance /\ (~contested' => Forward')
<1> USE DEF Inv
<1> DEFINE n == c.node
           i == c.segment.id
           row == StoredRow(n, rows[i].token)
           v == StartedWorker(n, c.segment, c.row.token)
<1>1. /\ n \in Node /\ c.segment \in Segment /\ i \in Ids /\ c.row \in Row
      /\ rows[i].token \in PlainToken
  BY ClaimTakes, ClaimFields, Positions, Zenon
<1>2. row \in Row /\ row.there /\ row.owner = n /\ row.token = rows[i].token
  BY <1>1, WrittenRows, Zenon
<1>3. /\ ReleasedRow(row).there /\ ReleasedRow(row).owner = Nobody
      /\ ReleasedRow(row).token = rows[i].token
  BY <1>2, WrittenRows, Zenon
<1>4. v.node = n /\ v.segment = c.segment /\ v.token = c.row.token
  BY <1>1, RowFields, WrittenWorkers
<1>5. /\ claims' \subseteq claims
      /\ contested' = (contested \/ c.row.token # rows[i].token)
      /\ \/ rows' = [rows EXCEPT ![i] = row] /\ workers' = workers \cup {v}
         \/ rows' = [rows EXCEPT ![i] = ReleasedRow(row)] /\ UNCHANGED workers
      /\ UNCHANGED <<initialSegments, renewals, folded>>
  BY Claims, Zenon
<1> HIDE DEF row, v
<1>6. Whole' = Whole
  BY <1>5, Zenon DEF Whole
<1>7. \A j \in Ids : /\ rows'[j].token = rows[j].token
                     /\ rows[j].there => rows'[j].there
                     /\ j # i => rows'[j] = rows[j]
  BY <1>1, <1>2, <1>3, <1>5, Zenon DEF Structure, Typed
<1>8. rows'[i].owner \in {n, Nobody}
  BY <1>1, <1>2, <1>3, <1>5, Zenon DEF Structure, Typed
<1>9. Covered'
  BY <1>4, <1>5, <1>6, <1>7, Positions, Zenon DEF Covered
<1>10. RowsAdvance
  BY <1>7, Positions DEF RowsAdvance
<1>11. /\ \A w \in workers : ~(n = w.node /\ i = w.segment.id)
       /\ \A r \in renewals : r.node # n
  BY Zenon DEF Structure, Exclusive
<1>12. ASSUME ~contested' PROVE Forward'
  <2>1. Forward /\ c.row.token = rows[i].token
    BY <1>5, <1>12, Zenon
  <2>2. \A w \in workers : rows'[w.segment.id].owner = w.node
                             => rows'[w.segment.id].token.at <= w.token.at
    BY <1>7, <1>8, <1>11, <2>1, Positions, SMTT(20) DEF Forward
  <2>3. rows'[v.segment.id].token.at <= v.token.at
    <3>1. rows[i].token.at <= rows[i].token.at
      BY <1>1, Positions
    <3>2. rows'[v.segment.id].token = rows[i].token /\ v.token = rows[i].token
      BY <1>1, <1>4, <1>7, <2>1, Zenon
    <3> QED
      BY <3>1, <3>2, Zenon
  <2>4. \A r \in renewals : rows'[r.id].owner = r.node => rows'[r.id].token.at <= r.token.at
    BY <1>7, <1>8, <1>11, <2>1, Positions, SMTT(20) DEF Forward
  <2> QED
    BY <1>5, <2>2, <2>3, <2>4, Zenon DEF Forward
<1> QED
  BY <1>9, <1>10, <1>12, Zenon

\* Every step keeps Inv, and no token moves back while nothing is contested.
LEMMA InvStep ==
  ASSUME Inv, [Next]_vars
  PROVE  Inv' /\ (~contested' => RowsAdvance)
<1> USE DEF Inv
<1> DEFINE Goal == Covered' /\ (~contested' => RowsAdvance /\ Forward')
<1>1. ASSUME UNCHANGED vars PROVE Goal
  BY <1>1, InvKept, Zenon DEF vars, claimVars, history
<1>2. ASSUME NEW n \in Node, NodeStep(n) PROVE Goal
  <2>1. CASE Start(n) \/ BeginRound(n)
    BY <2>1, InvList, Zenon
  <2>2. CASE Stop(n)
    BY <2>2, InvStop, Zenon DEF Stop, Current, history
  <2>3. CASE ClaimNext(n)
    BY <2>3, InvClaimNext, Zenon
  <2>4. CASE StoreFails(n)
    BY <2>4, InvStoreFails, Zenon
  <2>5. CASE Crash(n)
    <3>1. /\ claims' \subseteq claims /\ workers' \subseteq workers /\ renewals' \subseteq renewals
          /\ UNCHANGED <<initialSegments, rows, folded, contested>>
      BY <2>5, Zenon DEF Crash, history
    <3> QED
      BY <3>1, InvKept, Zenon
  <2> QED
    BY <1>2, <2>1, <2>2, <2>3, <2>4, <2>5, Zenon DEF NodeStep
<1>3. ASSUME NEW w \in workers, WorkerStep(w) PROVE Goal
  <2>1. CASE Renew(w)
    BY <2>1, InvRenew, Zenon
  <2>2. CASE ReleaseSegment(w)
    <3>1. {w} \in SUBSET workers
      BY Zenon
    <3> QED
      BY <2>2, <3>1, InvStop, Zenon DEF ReleaseSegment, history
  <2> QED
    BY <1>3, <2>1, <2>2, InvPoll, Zenon DEF WorkerStep
<1>4. ASSUME NEW i \in Ids, ClaimLapses(i) \/ ClaimStalls(i) PROVE Goal
  <2>1. Expire(i)
    BY <1>4, Zenon DEF ClaimLapses, ClaimStalls
  <2>2. UNCHANGED <<initialSegments, claims, workers, renewals, folded, contested>>
    BY <2>1, Zenon DEF Expire, history
  <2>3. \A j \in Ids : /\ rows'[j].token = rows[j].token
                       /\ rows'[j].owner = rows[j].owner
    BY <2>1, StructureExpire, Zenon
  <2>4. \A j \in Ids : rows[j].there => rows'[j].there
    BY <2>1, Zenon DEF Expire, Structure, Typed
  <2> QED
    BY <2>2, <2>3, <2>4, InvKept, Zenon
<1>5. Structure'
  BY StructureStep, Zenon
<1>6. Goal
  BY <1>1, <1>2, <1>3, <1>4, InvLands, InvClaim, Zenon DEF Next
<1> QED
  BY <1>5, <1>6, Zenon

-----------------------------------------------------------------------------
(* The segments of a set-up share no sequence. *)

\* A quotient and a remainder are the only ones.
LEMMA OneRemainder ==
  ASSUME NEW a \in Nat, a > 0, NEW x \in Int, NEW y \in Int,
         NEW v \in 0..(a - 1), NEW w \in 0..(a - 1), a * x + v = a * y + w
  PROVE  v = w
<1>1. x < y => a * (y - x) >= a
  BY Z3
<1>2. y < x => a * (x - y) >= a
  BY Z3
<1>3. a * (y - x) = a * y - a * x /\ a * (x - y) = a * x - a * y
  BY Z3
<1>4. ~(x < y) /\ ~(y < x)
  BY <1>1, <1>2, <1>3
<1> QED
  BY <1>4

\* The low bits of the low bits.
LEMMA RemainderTwice ==
  ASSUME NEW a \in Nat, a > 0, NEW b \in Nat, b > 0, b % a = 0, NEW h \in Nat
  PROVE  (h % b) % a = h % a
<1> DEFINE q == b \div a
           d == h \div b
           r == h % b
           u == r \div a
           v == r % a
           x == h \div a
           w == h % a
<1>1. b = a * q /\ q \in Int
  BY Z3
<1>2. h = b * d + r /\ d \in Int /\ r \in Nat
  BY Z3
<1>3. r = a * u + v /\ u \in Int /\ v \in 0..(a - 1)
  BY <1>2, Z3
<1>4. h = a * x + w /\ x \in Int /\ w \in 0..(a - 1)
  BY Z3
<1> HIDE DEF q, d, r, u, v, x, w
<1>5. b * d = a * (q * d)
  BY <1>1, <1>2, Z3
<1>6. a * (q * d) + a * u = a * (q * d + u) /\ q * d + u \in Int
  BY <1>1, <1>2, <1>3, Z3
<1>7. a * (q * d + u) + v = a * x + w
  BY <1>2, <1>3, <1>4, <1>5, <1>6, Z3
<1>8. v = w
  BY <1>3, <1>4, <1>6, <1>7, OneRemainder, Zenon
<1> QED
  BY <1>8, Zenon DEF r, v, w

\* Two segments of a set-up that share a hash are one: the narrower would have the
\* wider for an ancestor.
LEMMA Disjoint ==
  ASSUME Typed, NEW s \in Whole, NEW o \in Whole, NEW h \in Nat,
         InSegment(s, h), InSegment(o, h)
  PROVE  s = o
<1>1. ASSUME NEW a \in Whole, NEW b \in Whole, InSegment(a, h), InSegment(b, h), a.mask <= b.mask
      PROVE  a = b
  <2>1. /\ a \in Segment /\ b \in Segment
        /\ a.id \in Nat /\ b.id \in Nat /\ a.mask \in Int /\ b.mask \in Int
        /\ a.mask \in Masks /\ b.mask \in Masks
        /\ a.id <= a.mask /\ b.id <= b.mask
    BY SetUp, SegmentFields, Zenon
  <2>2. PICK j \in 0..Depth : a.mask = 2^j - 1
    BY <2>1, Zenon DEF Masks
  <2>3. PICK k \in 0..Depth : b.mask = 2^k - 1
    BY <2>1, Zenon DEF Masks
  <2>4. 2^j \in Int /\ 2^k \in Int
    BY DepthAssumption
  <2>5. a.mask + 1 = 2^j /\ b.mask + 1 = 2^k
    BY <2>2, <2>3, <2>4
  <2>6. (b.mask + 1) % (a.mask + 1) = 0
    <3>1. CASE j <= k
      BY <2>5, <3>1, PowersAssumption, Zenon
    <3>2. CASE k < j
      <4>1. 2^k > 0 /\ 2^j > 0 /\ 2^j % 2^k = 0
        BY <3>2, PowersAssumption, DepthAssumption
      <4>2. 2^j >= 2^k
        <5> DEFINE x == 2^j
                   y == 2^k
        <5>1. x \in Int /\ y \in Int /\ x > 0 /\ y > 0 /\ x % y = 0
          BY <2>4, <4>1, Zenon
        <5> HIDE DEF x, y
        <5>2. x >= y
          BY <5>1, Z3
        <5> QED
          BY <5>2, Zenon DEF x, y
      <4>3. a.mask + 1 = b.mask + 1
        BY <1>1, <2>1, <2>5, <4>2
      <4>4. (b.mask + 1) % (b.mask + 1) = 0
        BY <2>1
      <4> QED
        BY <4>3, <4>4, Zenon
    <3> QED
      BY <3>1, <3>2, DepthAssumption
  <2>7. b.id % (a.mask + 1) = a.id
    <3> DEFINE x == a.mask + 1
               y == b.mask + 1
    <3>1. x \in Nat /\ x > 0 /\ y \in Nat /\ y > 0 /\ y % x = 0
      BY <2>1, <2>6
    <3> HIDE DEF x, y
    <3>2. (h % y) % x = h % x
      BY <3>1, RemainderTwice, Zenon
    <3> QED
      BY <1>1, <3>2, Zenon DEF InSegment, x, y
  <2>8. CASE a.mask < b.mask
    <3>1. Ancestor(a, b)
      BY <2>7, <2>8, Zenon DEF Ancestor
    <3> QED
      BY <2>1, <3>1, SetUp, Zenon DEF Whole, SegmentsOf
  <2>9. CASE a.mask = b.mask
    <3>1. b.id % (b.mask + 1) = b.id
      BY <2>1
    <3> QED
      BY <2>7, <2>9, <3>1, KnownById, Zenon
  <2> QED
    BY <1>1, <2>1, <2>8, <2>9
<1>2. s.mask \in Int /\ o.mask \in Int
  BY SetUp, SegmentFields, Zenon
<1> QED
  BY <1>1, <1>2

-----------------------------------------------------------------------------
(* The theorems. *)

\* Without a contested claim, nothing is handled twice and what has been handled
\* is behind its row.
Single == ~contested => repeated = {} /\ Behind

\* Every step keeps Single: a batch is past its row, and what was handled is not.
LEMMA SingleStep ==
  ASSUME Inv, Single, [Next]_vars
  PROVE  Single'
<1> SUFFICES ASSUME ~contested' PROVE repeated' = {} /\ Behind'
  BY Zenon DEF Single
<1>1. RowsAdvance
  BY InvStep, Zenon
<1>2. UNCHANGED initialSegments /\ (contested => contested')
  <2> USE DEF history
  <2>1. \A w \in workers, q \in Event :
          ProcessBatch(w, q) \/ MoveThroughQuietStretch(w, q) => UNCHANGED <<initialSegments, contested>>
    BY Zenon DEF ProcessBatch, MoveThroughQuietStretch
  <2>2. \A c \in claims : ClaimSegment(c) => UNCHANGED initialSegments /\ (contested => contested')
    BY Claims, Zenon DEF Inv
  <2>3. \A n \in Node : NodeStep(n) => UNCHANGED <<initialSegments, contested>>
    BY Zenon DEF NodeStep, Start, BeginRound, Stop, ClaimNext, StoreFails, Crash
  <2>4. \A w \in workers : WorkerStep(w) => UNCHANGED <<initialSegments, contested>>
    BY <2>1, Zenon DEF WorkerStep, Renew, ReleaseSegment
  <2>5. \A r \in renewals : RenewalLands(r) => UNCHANGED <<initialSegments, contested>>
    BY Zenon DEF RenewalLands
  <2>6. \A i \in Ids : ClaimLapses(i) \/ ClaimStalls(i) => UNCHANGED <<initialSegments, contested>>
    BY Zenon DEF ClaimLapses, ClaimStalls, Expire
  <2>7. UNCHANGED vars => UNCHANGED <<initialSegments, contested>>
    BY Zenon DEF vars, claimVars
  <2> QED
    BY <2>2, <2>3, <2>4, <2>5, <2>6, <2>7 DEF Next
<1>3. \/ UNCHANGED <<handled, repeated>>
      \/ \E w \in workers : \E q \in Event : ProcessBatch(w, q)
  <2> USE DEF history
  <2>1. \A c \in claims : ClaimSegment(c) => UNCHANGED <<handled, repeated>>
    BY Claims, Zenon DEF Inv
  <2>2. \A n \in Node : NodeStep(n) => UNCHANGED <<handled, repeated>>
    BY Zenon DEF NodeStep, Start, BeginRound, Stop, ClaimNext, StoreFails, Crash
  <2>3. \A w \in workers : WorkerStep(w) => \/ UNCHANGED <<handled, repeated>>
                                            \/ \E q \in Event : ProcessBatch(w, q)
    BY Zenon DEF WorkerStep, Renew, ReleaseSegment, MoveThroughQuietStretch
  <2>4. \A r \in renewals : RenewalLands(r) => UNCHANGED <<handled, repeated>>
    BY Zenon DEF RenewalLands
  <2>5. \A i \in Ids : ClaimLapses(i) \/ ClaimStalls(i) => UNCHANGED <<handled, repeated>>
    BY Zenon DEF ClaimLapses, ClaimStalls, Expire
  <2>6. UNCHANGED vars => UNCHANGED <<handled, repeated>>
    BY Zenon DEF vars
  <2> QED
    BY <2>1, <2>2, <2>3, <2>4, <2>5, <2>6, Zenon DEF Next
<1>4. Structure /\ Forward /\ repeated = {} /\ Behind
  BY <1>2, Zenon DEF Inv, Single
<1>5. Whole' = Whole
  BY <1>2, Zenon DEF Whole
<1>6. handled \subseteq Event /\ \A s \in Whole : s.id \in Ids
  BY <1>4, Positions, Zenon DEF Structure, Typed
<1>7. \A s \in Whole : \A e \in handled :
        InSegment(s, Hash[e]) => rows'[s.id].there /\ e <= rows'[s.id].token.at
  <2>1. \A i \in Ids : rows[i].token.at \in Int /\ rows'[i].token.at \in Int
    <3>1. Structure'
      BY <1>4, StructureStep, Zenon
    <3>2. \A i \in Ids : rows'[i].token \in PlainToken
      BY <3>1, RowFields, Zenon DEF Structure, Typed
    <3> QED
      BY <1>4, <3>2, Positions, TokenFields
  <2> SUFFICES ASSUME NEW s \in Whole, NEW e \in handled, InSegment(s, Hash[e])
               PROVE  rows'[s.id].there /\ e <= rows'[s.id].token.at
    BY Zenon
  <2>2. rows[s.id].there /\ e <= rows[s.id].token.at
    BY <1>4, Zenon DEF Behind
  <2>3. rows'[s.id].there /\ rows[s.id].token.at <= rows'[s.id].token.at
    BY <1>1, <1>6, <2>2, Zenon DEF RowsAdvance
  <2>4. e \in Int /\ s.id \in Ids
    BY <1>6 DEF Event
  <2> QED
    BY <2>1, <2>2, <2>3, <2>4
<1>8. CASE UNCHANGED <<handled, repeated>>
  BY <1>4, <1>5, <1>7, <1>8, Zenon DEF Behind
<1>9. ASSUME NEW w \in workers, NEW p \in Event, ProcessBatch(w, p), handled' # handled \/ repeated' # repeated
      PROVE  repeated' = {} /\ Behind'
  <2> DEFINE X == {e \in Accepted(w) : e <= p}
             i == w.segment.id
  <2>1. /\ handled' = handled \cup X
        /\ repeated' = repeated \cup (X \cap handled)
        /\ Stores(w.node, i)
        /\ rows' = [rows EXCEPT ![i] = StoredRow(w.node, Plain(p))]
    BY <1>4, <1>9, Polling, Zenon
  <2>2. w.segment \in Whole /\ i \in Ids /\ w.token.at \in Nat /\ w.node \in Node
    BY <1>4, Positions, Zenon DEF Structure, Listed
  <2>3. rows[i].token.at <= w.token.at /\ rows[i].token.at \in Nat
    <3>1. rows[i].token.at \in Nat
      BY <1>4, <2>2, Positions, Zenon
    <3>2. rows[i].owner = w.node
      BY <2>1, Zenon DEF Stores
    <3> QED
      BY <1>4, <3>1, <3>2, Zenon DEF Forward
  <2>4. X \cap handled = {}
    BY <1>4, <1>6, <2>2, <2>3 DEF Accepted, Behind, Event
  <2>5. Plain(p) \in PlainToken /\ Plain(p).at = p
    BY PlainIsToken, ClaimsAssumption DEF Event
  <2>6. rows'[i].there /\ rows'[i].token.at = p
    <3>1. LET row == StoredRow(w.node, Plain(p)) IN row.there /\ row.token = Plain(p)
      BY <2>2, <2>5, WrittenRows, Zenon
    <3> QED
      BY <1>4, <2>1, <2>2, <2>5, <3>1, Zenon DEF Structure, Typed
  <2>7. \A e \in X : Hash[e] \in Nat /\ InSegment(w.segment, Hash[e])
    BY ClaimsAssumption, Zenon DEF Accepted
  <2>8. \A e \in X : \A s \in Whole : InSegment(s, Hash[e]) => s = w.segment
    BY <1>4, <2>2, <2>7, Disjoint, Zenon DEF Structure
  <2> QED
    BY <1>4, <1>5, <1>7, <2>1, <2>4, <2>6, <2>8, Zenon DEF Behind
<1> QED
  BY <1>3, <1>8, <1>9, Zenon

\* For any nodes, events and segments, and whatever crashes, stalls, fails or
\* races: the tokens the store holds are past handled events only.
THEOREM NeverSkips == Spec => []NothingSkipped
<1>1. Inv => NothingSkipped
  <2> SUFFICES ASSUME Inv, NEW s \in SegmentsOf(SegmentIds), NEW e \in Event,
                      InSegment(s, Hash[e]), PassedBy(rows[s.id].token, e)
               PROVE  e \in folded
    BY Zenon DEF NothingSkipped
  <2> USE DEF Inv
  <2>1. s \in Whole
    BY Zenon DEF Structure, Listed, Whole, SegmentsOf
  <2>2. rows[s.id].token \in PlainToken
    BY <2>1, Positions, Zenon
  <2>3. e <= rows[s.id].token.at
    BY <2>2, TokenFields, Zenon DEF PassedBy, HandledByMergedHalf
  <2> QED
    BY <2>1, <2>3, Zenon DEF Covered, Covers
<1>2. Inv /\ [Next]_vars => Inv'
  BY InvStep, Zenon
<1> QED
  BY <1>1, <1>2, InvInit, PTL DEF Spec

\* While no claim has been contested no row's token moves back, whatever renewal
\* or worker that lost its claim is late.
THEOREM AdvancesOnly == Spec => TokensAdvance
<1>1. Inv /\ [Next]_vars =>
        [~contested' => \A i \in Ids :
            rows[i].there /\ rows'[i].there => rows[i].token.at <= rows'[i].token.at]_vars
  BY InvStep, Zenon DEF RowsAdvance
<1>2. Inv /\ [Next]_vars => Inv'
  BY InvStep, Zenon
<1> QED
  BY <1>1, <1>2, InvInit, PTL DEF Spec, TokensAdvance

\* Nothing is handled twice with its effects kept unless a claim was contested.
THEOREM HandlesOnceUncontested == Spec => []RepeatsNeedContested
<1>1. Init => Inv /\ Single
  BY InvInit, Zenon DEF Init, Single, Behind
<1>2. Inv /\ Single /\ [Next]_vars => Inv' /\ Single'
  BY InvStep, SingleStep, Zenon
<1>3. Inv /\ Single => RepeatsNeedContested
  BY Zenon DEF Single, RepeatsNeedContested
<1> QED
  BY <1>1, <1>2, <1>3, PTL DEF Spec
=============================================================================
