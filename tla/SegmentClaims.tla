--------------------------- MODULE SegmentClaims ---------------------------
(***************************************************************************)
(* An event processor on several nodes: the token rows they claim          *)
(* segments by, the claim rounds, and the workers that handle a segment's  *)
(* events and write its token in one transaction, fenced on the claim.     *)
(*                                                                         *)
(* A claim is the SELECT and the UPDATE (or INSERT) of the Postgres store, *)
(* each a statement of its own; the in-memory store makes both at once,    *)
(* which is one of the orders allowed here.                                *)
(***************************************************************************)
EXTENDS Segments

CONSTANTS
  Node,
  Nobody,
  LastEvent,         \* the events of the log are 1..LastEvent
  Hash,              \* event -> the hash of its sequence id
  SegmentCounts,     \* the segment counts a processor may be set up with
  MaxFaults          \* bound: crashes, claims that expire on a live node, store errors

Event == 1..LastEvent

ASSUME ClaimsAssumption ==
  /\ Nobody \notin Node
  /\ LastEvent \in Nat
  /\ Hash \in [Event -> Nat]
  /\ SegmentCounts \subseteq 1..(2^Depth)
  /\ MaxFaults \in Nat

VARIABLES
  initialSegments,   \* the count segmentsNow sets the rows up with
  rows,              \* the token rows by segment id
  up,                \* "running", "stopped" (isRunning false) or "dead"
  rounds,            \* each node's claim round
  claims,            \* claims between their two statements
  workers,           \* the workers, also those no longer in a node's map
  renewals,          \* token writes of renew() on their way
  faults,
  handled,           \* history: the events handled
  folded,            \* history: those handled since the last reset
  repeated,          \* history: the events handled as new, having been handled
  misreplayed,       \* history: the events handled as a replay, never having been
  contested          \* history: a claim went through on a token since replaced

claimVars == <<initialSegments, rows, up, rounds, claims, workers, renewals, faults>>
history == <<handled, folded, repeated, misreplayed, contested>>
vars == <<claimVars, history>>

NoRow == [there |-> FALSE, token |-> Plain(0), owner |-> Nobody, fresh |-> FALSE]
FreeRow == [there |-> TRUE, token |-> Plain(0), owner |-> Nobody, fresh |-> FALSE]
IdleRound == [on |-> FALSE, first |-> FALSE, segments |-> {}]
Round(first, S) == IF S = {} THEN IdleRound ELSE [on |-> TRUE, first |-> first, segments |-> S]

Init ==
  /\ initialSegments \in SegmentCounts
  /\ rows = [i \in Ids |-> NoRow]
  /\ up = [n \in Node |-> "stopped"]
  /\ rounds = [n \in Node |-> IdleRound]
  /\ claims = {}
  /\ workers = {}
  /\ renewals = {}
  /\ faults = 0
  /\ handled = {}
  /\ folded = {}
  /\ repeated = {}
  /\ misreplayed = {}
  /\ contested = FALSE

-----------------------------------------------------------------------------
(* The token store. *)
SegmentIds == {i \in Ids : rows[i].there}

\* Mutant: an expired claim is never up for taking.
AvailableUnowned(row) == row.owner = Nobody

\* Unowned or expired.
Available(row) == row.owner = Nobody \/ ~row.fresh

\* Mutant: the claim is not asked for.
StoresUnfenced(n, i) == rows[i].there

\* The fence: only while this node holds the claim.
Stores(n, i) == rows[i].there /\ rows[i].owner = n

StoredRow(n, t) == [there |-> TRUE, token |-> t, owner |-> n, fresh |-> TRUE]

ReleasedRow(row) == [there |-> row.there, token |-> row.token, owner |-> Nobody, fresh |-> FALSE]

Claimable(n, row) == ~row.there \/ row.owner = n \/ Available(row)

\* The second statement of a claim: the UPDATE asks for nothing, and matches
\* nothing when the row is gone; the INSERT fails when there is one by now.
ClaimStatementFails(c) == ~c.row.there /\ rows[c.segment.id].there
ClaimedRow(c) ==
  LET now == rows[c.segment.id]
  IN IF ~c.row.there THEN StoredRow(c.node, Plain(0))
     ELSE IF now.there THEN StoredRow(c.node, now.token)
     ELSE now

-----------------------------------------------------------------------------
(* Workers. *)
StartedWorker(n, s, t) ==
  [node |-> n, segment |-> s, token |-> t, unwritten |-> FALSE, current |-> TRUE]

Has(n, i) == \E w \in workers : w.node = n /\ w.segment.id = i /\ w.current

\* workers.set: a worker that was there is no longer reachable, and goes on.
WithWorkers(new) ==
  {IF w.current /\ \E o \in new : o.node = w.node /\ o.segment.id = w.segment.id
     THEN [node |-> w.node, segment |-> w.segment, token |-> w.token, unwritten |-> w.unwritten, current |-> FALSE]
     ELSE w : w \in workers} \cup new

Moved(w, t, unwritten) ==
  [node |-> w.node, segment |-> w.segment, token |-> t, unwritten |-> unwritten, current |-> w.current]

Replace(w, S) == (workers \ {w}) \cup S

\* Mutant: the poll does not wait.
PollsAtOnce(w) == TRUE

\* A poll waits for the renewal in flight, which wrote an older token.
Polls(w) == ~\E r \in renewals : r.node = w.node /\ r.id = w.segment.id

Accepted(w) == {e \in Event : e > w.token.at /\ InSegment(w.segment, Hash[e])}

\* Mutant: the last event of a batch is left out.
BatchShort(w, p) == {e \in Accepted(w) : e < p /\ ~HandledByMergedHalf(w.token, Hash[e], e)}

\* What a batch up to p delivers: a merged half's events are not handled again.
Batch(w, p) == {e \in Accepted(w) : e <= p /\ ~HandledByMergedHalf(w.token, Hash[e], e)}

\* Events the reset had been past are delivered as a replay.
AsNew(w, batch) == {e \in batch : ~(Replaying(w.token) /\ e <= w.token.reset)}

Lose(w) == workers' = workers \ {w}

\* processBatch: the handlers' writes and the token commit together, or the
\* claim is gone and they roll back.  A handler that throws changes nothing.
ProcessBatch(w, p) ==
  /\ Polls(w)
  /\ p \in Accepted(w)
  /\ LET i == w.segment.id
         t == AdvanceTokenTo(w.token, p)
     IN IF Stores(w.node, i)
          THEN /\ rows' = [rows EXCEPT ![i] = StoredRow(w.node, t)]
               /\ workers' = Replace(w, {Moved(w, t, FALSE)})
               /\ handled' = handled \cup Batch(w, p)
               /\ folded' = folded \cup Batch(w, p)
               /\ repeated' = repeated \cup (AsNew(w, Batch(w, p)) \cap handled)
               /\ misreplayed' = misreplayed \cup (Batch(w, p) \ (AsNew(w, Batch(w, p)) \cup handled))
          ELSE Lose(w) /\ UNCHANGED <<rows, handled, folded, repeated, misreplayed>>
  /\ UNCHANGED <<initialSegments, up, rounds, claims, renewals, faults, contested>>

\* moveThroughQuietStretch: nothing up to p is the segment's.  With several
\* segments the write is left to the renewal or the stop.
MoveThroughQuietStretch(w, p) ==
  /\ Polls(w)
  /\ p \in Event
  /\ p > w.token.at
  /\ \A e \in Accepted(w) : e > p
  /\ LET i == w.segment.id
         t == AdvanceTokenTo(w.token, p)
     IN IF w.segment.mask # 0
          THEN workers' = Replace(w, {Moved(w, t, TRUE)}) /\ UNCHANGED rows
        ELSE IF Stores(w.node, i)
          THEN /\ workers' = Replace(w, {Moved(w, t, w.unwritten)})
               /\ rows' = [rows EXCEPT ![i] = StoredRow(w.node, t)]
        ELSE Lose(w) /\ UNCHANGED rows
  /\ UNCHANGED <<initialSegments, up, rounds, claims, renewals, faults, history>>

\* renew: the write of the token as it is now, on its way.
Renew(w) ==
  /\ up[w.node] = "running"
  /\ w.current
  /\ rounds[w.node] = IdleRound
  /\ ~\E r \in renewals : r.node = w.node
  /\ renewals' = renewals \cup {[node |-> w.node, id |-> w.segment.id, token |-> w.token]}
  /\ UNCHANGED <<initialSegments, rows, up, rounds, claims, workers, faults, history>>

\* It lands, perhaps when the worker is stopped, and another runs in its place.
RenewalLands(r) ==
  /\ renewals' = renewals \ {r}
  /\ LET held == {w \in workers : w.node = r.node /\ w.segment.id = r.id /\ w.token = r.token}
     IN IF Stores(r.node, r.id)
          THEN /\ rows' = [rows EXCEPT ![r.id] = StoredRow(r.node, r.token)]
               /\ workers' = (workers \ held) \cup {Moved(w, w.token, FALSE) : w \in held}
          ELSE workers' = workers \ held /\ UNCHANGED rows
  /\ UNCHANGED <<initialSegments, up, rounds, claims, faults, history>>

\* stop(true) of these workers: a deferred write, then the release; a claim
\* that is lost ends it quietly.
StopWorkers(W) ==
  /\ workers' = workers \ W
  /\ rows' = [i \in Ids |->
       IF \E w \in W : w.segment.id = i /\ Stores(w.node, i)
         THEN LET w == CHOOSE v \in W : v.segment.id = i /\ Stores(v.node, i)
              IN ReleasedRow(IF w.unwritten THEN StoredRow(w.node, w.token) ELSE rows[i])
         ELSE rows[i]]

Claiming(n) == \E c \in claims : c.node = n /\ ~c.operation
Current(n) == {w \in workers : w.node = n /\ w.current}

-----------------------------------------------------------------------------
(* The node: start, stop, and the claim round. *)

\* segmentsNow and fetchAvailableSegments: set up when there are no rows.
ListSegments(n, first) ==
  LET ids == IF SegmentIds = {} THEN 0..(initialSegments - 1) ELSE SegmentIds
      table == [i \in Ids |-> IF i \in ids /\ ~rows[i].there THEN FreeRow ELSE rows[i]]
  IN /\ rows' = table
     /\ rounds' = [rounds EXCEPT ![n] =
          Round(first, {s \in SegmentsOf(ids) : table[s.id].there /\ Available(table[s.id])})]

\* start waits for a stop to be through, the round it was in included.  (A
\* start that was stopped in its own first round is waited for here as well.)
Start(n) ==
  /\ up[n] = "stopped"
  /\ rounds[n] = IdleRound
  /\ ~\E r \in renewals : r.node = n
  /\ up' = [up EXCEPT ![n] = "running"]
  /\ ListSegments(n, TRUE)
  /\ UNCHANGED <<initialSegments, claims, workers, renewals, faults, history>>

\* claimSoon, from the timer; its renewals have landed.
BeginRound(n) ==
  /\ up[n] = "running"
  /\ rounds[n] = IdleRound
  /\ ~\E r \in renewals : r.node = n
  /\ ListSegments(n, FALSE)
  /\ UNCHANGED <<initialSegments, up, claims, workers, renewals, faults, history>>

\* A round under way returns once the claim it is in, if any, is through.
Stop(n) ==
  /\ up[n] = "running"
  /\ up' = [up EXCEPT ![n] = "stopped"]
  /\ StopWorkers(Current(n))
  /\ rounds' = [rounds EXCEPT ![n] = IF Claiming(n) THEN [on |-> TRUE, first |-> @.first, segments |-> {}] ELSE IdleRound]
  /\ UNCHANGED <<initialSegments, claims, renewals, faults, history>>

\* releasedUntil then makes the node's next claim of it a later one.
ReleaseSegment(w) ==
  /\ w.current
  /\ StopWorkers({w})
  /\ UNCHANGED <<initialSegments, up, rounds, claims, renewals, faults, history>>

\* The next segment by id: passed over, or the SELECT of its claim.
ClaimNext(n) ==
  /\ ~Claiming(n)
  /\ \E s \in rounds[n].segments :
       LET rest == rounds[n].segments \ {s}
       IN /\ \A o \in rest : s.id < o.id
          /\ IF Has(n, s.id) \/ ~Claimable(n, rows[s.id])
               THEN /\ rounds' = [rounds EXCEPT ![n] = Round(@.first, rest)]
                    /\ UNCHANGED claims
               ELSE /\ rounds' = [rounds EXCEPT ![n] = [on |-> TRUE, first |-> @.first, segments |-> rest]]
                    /\ claims' = claims \cup
                         {[node |-> n, segment |-> s, row |-> rows[s.id], operation |-> FALSE]}
  /\ UNCHANGED <<initialSegments, rows, up, workers, renewals, faults, history>>

\* A store call of the round threw.  start gives up on the processor when the
\* round was its own; workers it has started go on.
RoundThrows(n) ==
  /\ rounds' = [rounds EXCEPT ![n] = IdleRound]
  /\ up' = [up EXCEPT ![n] = IF rounds[n].first THEN "stopped" ELSE @]
  /\ claims' = {c \in claims : c.node # n \/ c.operation}

\* The database is away; what was on its way may have got there.
StoreFails(n) ==
  /\ faults < MaxFaults
  /\ faults' = faults + 1
  /\ rounds[n] # IdleRound
  /\ RoundThrows(n)
  /\ \/ UNCHANGED rows
     \/ \E c \in claims : /\ c.node = n /\ ~c.operation /\ ~ClaimStatementFails(c)
                         /\ rows' = [rows EXCEPT ![c.segment.id] = ClaimedRow(c)]
  /\ UNCHANGED <<initialSegments, workers, renewals, history>>

\* The second statement of a claim.  The worker starts from the token the first
\* one read.
ClaimSegment(c) ==
  LET n == c.node
      i == c.segment.id
      row == ClaimedRow(c)
  IN /\ ~c.operation
     /\ IF ClaimStatementFails(c) THEN RoundThrows(n) /\ UNCHANGED <<rows, workers, contested>>
        ELSE /\ claims' = claims \ {c}
             /\ contested' = (contested \/ c.row.token # row.token)
             /\ IF up[n] = "running"
                  THEN /\ rows' = [rows EXCEPT ![i] = row]
                       /\ workers' = WithWorkers({StartedWorker(n, c.segment, c.row.token)})
                  ELSE /\ rows' = [rows EXCEPT ![i] = ReleasedRow(row)]
                       /\ UNCHANGED workers
             /\ rounds' = [rounds EXCEPT ![n] = Round(@.first, @.segments)]
             /\ UNCHANGED up
     /\ UNCHANGED <<initialSegments, renewals, faults, handled, folded, repeated, misreplayed>>

\* The process dies.  A restart is another node: it has another owner id.
Crash(n) ==
  /\ faults < MaxFaults
  /\ faults' = faults + 1
  /\ up[n] # "dead"
  /\ up' = [up EXCEPT ![n] = "dead"]
  /\ rounds' = [rounds EXCEPT ![n] = IdleRound]
  /\ claims' = {c \in claims : c.node # n}
  /\ workers' = {w \in workers : w.node # n}
  /\ renewals' = {r \in renewals : r.node # n}
  /\ UNCHANGED <<initialSegments, rows, history>>

\* Time passes: beyond claimTimeoutMs since the row was last written.
Expire(i) ==
  /\ rows[i].fresh
  /\ rows' = [rows EXCEPT ![i] = [there |-> @.there, token |-> @.token, owner |-> @.owner, fresh |-> FALSE]]
  /\ UNCHANGED <<initialSegments, up, rounds, claims, workers, renewals, history>>

Renewed(i) == up[rows[i].owner] = "running" /\ Has(rows[i].owner, i)

\* No worker is there to renew it,
ClaimLapses(i) == Expire(i) /\ ~Renewed(i) /\ UNCHANGED faults

\* ... or the node stalls.
ClaimStalls(i) == Expire(i) /\ Renewed(i) /\ faults < MaxFaults /\ faults' = faults + 1

NodeStep(n) ==
  Start(n) \/ Stop(n) \/ BeginRound(n) \/ ClaimNext(n) \/ StoreFails(n) \/ Crash(n)

WorkerStep(w) ==
  \/ Renew(w)
  \/ ReleaseSegment(w)
  \/ \E p \in Event : ProcessBatch(w, p) \/ MoveThroughQuietStretch(w, p)

Next ==
  \/ \E n \in Node : NodeStep(n)
  \/ \E w \in workers : WorkerStep(w)
  \/ \E r \in renewals : RenewalLands(r)
  \/ \E c \in claims : ClaimSegment(c)
  \/ \E i \in Ids : ClaimLapses(i) \/ ClaimStalls(i)

\* What is retried or timed goes on; a poll and a round wait for renewals, which
\* come and go, and take their turn after them.  Starting, stopping, releasing
\* and faults are nobody's duty.
Polled(n, s) == \E w \in workers :
  /\ w.node = n /\ w.segment = s
  /\ \E p \in Event : ProcessBatch(w, p) \/ MoveThroughQuietStretch(w, p)

Fairness ==
  /\ \A n \in Node :
       /\ SF_vars(BeginRound(n))
       /\ WF_vars(ClaimNext(n))
       /\ WF_vars(\E c \in claims : c.node = n /\ ClaimSegment(c))
       /\ WF_vars(\E r \in renewals : r.node = n /\ RenewalLands(r))
       /\ \A s \in Segment : SF_vars(Polled(n, s))
  /\ \A i \in Ids : WF_vars(ClaimLapses(i))

Spec == Init /\ [][Next]_vars
FairSpec == Spec /\ Fairness

-----------------------------------------------------------------------------
\* What a token says is done.
PassedBy(t, e) == e <= t.at \/ HandledByMergedHalf(t, Hash[e], e)

\* "A read model never silently skips": what the stored tokens are past has
\* been handled (by the transaction that wrote the token, or one before it).
NothingSkipped ==
  \A s \in SegmentsOf(SegmentIds) : \A e \in Event :
    InSegment(s, Hash[e]) /\ PassedBy(rows[s.id].token, e) => e \in folded

\* Nodes that crash, stall past their claim's expiry, stop and start hand no
\* event to the handlers a second time with its effects kept, unless a claim's
\* UPDATE went through after the token its SELECT read was replaced.
RepeatsNeedContested == ~contested => repeated = {}

\* Under the same condition no stored token moves back: no late renewal, and no
\* worker that lost its claim, overwrites progress.
TokensAdvance ==
  [][~contested' => \A i \in Ids :
       rows[i].there /\ rows'[i].there => rows[i].token.at <= rows'[i].token.at]_vars

\* Failover: once operators leave the nodes alone, a node that runs gets
\* everything handled, whoever crashed or failed to start holding claims.
Operated == \E n \in Node : \/ Start(n) \/ Stop(n)
                            \/ \E w \in workers : w.node = n /\ ReleaseSegment(w)
EverythingHandled ==
  <>[][~Operated]_vars => <>(handled = Event) \/ <>[](\A n \in Node : up[n] # "running")
=============================================================================
