---------------------------- MODULE DeadLetters ----------------------------
(***************************************************************************)
(* Delivery with a dead-letter queue in Postgres.  A worker hands events   *)
(* to the handlers in batches, and parks what fails, and what comes behind *)
(* it in its lane, in the batch's transaction.  Replayers lease a lane's   *)
(* letters one after another, and evict each with its handlers' writes.    *)
(* Time shows in leases that expire and delays that pass.                  *)
(***************************************************************************)
EXTENDS Integers, Sequences, FiniteSets, Functions

CONSTANTS
  LastEvent,         \* the processor's events are 1..LastEvent, in log order
  Lane,              \* event -> its lane
  Handlers,          \* an event's handlers are 1..Handlers, in this order
  Replayer,
  Free, Lost,        \* no lease, and that of a process that died
  MaxSequences,
  MaxSequenceSize,
  MaxTroubles        \* bound: failures of handlers and of commits, crashes, overlong replays

Event == 1..LastEvent
Handler == 1..Handlers

ASSUME DeadLettersAssumption ==
  /\ LastEvent \in Nat
  /\ Handlers \in Nat \ {0}
  /\ DOMAIN Lane = Event
  /\ {Free, Lost} \cap Replayer = {} /\ Free # Lost
  /\ {MaxSequences, MaxTroubles} \subseteq Nat
  /\ MaxSequenceSize \in Nat \ {0}

VARIABLES
  letters,    \* the rows, by event
  token,      \* the last event the processor is past
  batch,      \* the batch's open transaction: its next event, and what it wrote
  replays,    \* each replayer's run of process()
  troubles,
  done,       \* history: <<event, handler>> whose writes were committed
  again,      \* history: those committed more than once
  overlong,   \* history: a lease expired under a replay
  cleared     \* history: the events whose letters an operator deleted

queueVars == <<letters, token, batch, replays, troubles>>
history == <<done, again, overlong, cleared>>
vars == <<queueVars, history>>

NoLetter == [there |-> FALSE, index |-> 0, lease |-> Free, stale |-> FALSE, retry |-> "due"]
NoBatch(t) == [next |-> t + 1, letters |-> [e \in Event |-> NoLetter], done |-> {}]
NoReplay == [at |-> "idle", letter |-> 0, rows |-> <<>>, next |-> 0]

Init ==
  /\ letters = [e \in Event |-> NoLetter]
  /\ token = 0
  /\ batch = NoBatch(0)
  /\ replays = [r \in Replayer |-> NoReplay]
  /\ troubles = 0
  /\ done = {}
  /\ again = {}
  /\ overlong = FALSE
  /\ cleared = {}

Trouble == troubles < MaxTroubles /\ troubles' = troubles + 1

Commits(writes) ==
  /\ done' = done \cup writes
  /\ again' = again \cup (writes \cap done)

-----------------------------------------------------------------------------
(* The queue. *)
InLane(table, lane) == {e \in Event : table[e].there /\ Lane[e] = lane}
IsHead(e) == letters[e].there /\ \A o \in InLane(letters, Lane[e]) : letters[e].index <= letters[o].index

\* What the batch's transaction sees: the committed rows and its own.
Seen == [e \in Event |-> IF batch.letters[e].there THEN batch.letters[e] ELSE letters[e]]
LaneCount == Cardinality({Lane[e] : e \in {o \in Event : Seen[o].there}})

\* Mutants: a lease is not looked at ...
ClaimableLeased(e) == letters[e].there

\* ... and one that was abandoned is never taken over.
ClaimableFree(e) == letters[e].there /\ letters[e].lease = Free

\* Unleased, or the lease is older than claimDurationMs.
Claimable(e) == letters[e].there /\ (letters[e].lease = Free \/ letters[e].stale)

Leased(row, r) == [there |-> row.there, index |-> row.index, lease |-> r, stale |-> FALSE, retry |-> row.retry]

\* Only while the lease is still this one's.
ReleasedBy(row, r) == IF row.lease = r THEN Leased(row, Free) ELSE row

-----------------------------------------------------------------------------
(* Delivery. *)
Rollback == batch' = NoBatch(token)

\* Its index is one past the last of the lane.
Park(e, retry, writes) ==
  LET lane == InLane(Seen, Lane[e])
  IN \E index \in IF lane = {} THEN {0} ELSE {Seen[o].index + 1 : o \in lane} :
       /\ \A o \in lane : Seen[o].index < index
       /\ batch' = [next |-> e + 1,
                    letters |-> [batch.letters EXCEPT ![e] =
                      [there |-> TRUE, index |-> index, lease |-> Free, stale |-> FALSE, retry |-> retry]],
                    done |-> batch.done \cup writes]

\* Mutant: the limit is off by one.
DeliverBlockedLate ==
  LET e == batch.next
      lane == InLane(Seen, Lane[e])
  IN /\ e \in Event
     /\ lane # {}
     /\ IF Cardinality(lane) > MaxSequenceSize THEN Rollback ELSE Park(e, "due", {})
     /\ UNCHANGED <<letters, token, replays, troubles, history>>

\* enqueueIfPresent: a lane with letters takes the event undelivered, and one
\* that is full fails the batch.
DeliverBlocked ==
  LET e == batch.next
      lane == InLane(Seen, Lane[e])
  IN /\ e \in Event
     /\ lane # {}
     /\ IF Cardinality(lane) >= MaxSequenceSize THEN Rollback ELSE Park(e, "due", {})
     /\ UNCHANGED <<letters, token, replays, troubles, history>>

\* Mutant: the lane is not looked at.
DeliverHandledAnyway ==
  LET e == batch.next
  IN /\ e \in Event
     /\ batch' = [next |-> e + 1, letters |-> batch.letters, done |-> batch.done \cup ({e} \X Handler)]
     /\ UNCHANGED <<letters, token, replays, troubles, history>>

DeliverHandled ==
  LET e == batch.next
  IN /\ e \in Event
     /\ InLane(Seen, Lane[e]) = {}
     /\ batch' = [next |-> e + 1, letters |-> batch.letters, done |-> batch.done \cup ({e} \X Handler)]
     /\ UNCHANGED <<letters, token, replays, troubles, history>>

\* Mutant: with too many lanes the event is let go.
DeliverFailsDrops(h) ==
  LET e == batch.next
  IN /\ e \in Event
     /\ InLane(Seen, Lane[e]) = {}
     /\ Trouble
     /\ IF LaneCount >= MaxSequences THEN batch' = [next |-> e + 1, letters |-> batch.letters, done |-> batch.done]
        ELSE \E retry \in {"later", "hold"} : Park(e, retry, {e} \X (1..(h - 1)))
     /\ UNCHANGED <<letters, token, replays, history>>

\* Handler h throws, and those before it have written: the event is parked with
\* the backoff's first delay, unless there are too many lanes.
DeliverFails(h) ==
  LET e == batch.next
  IN /\ e \in Event
     /\ InLane(Seen, Lane[e]) = {}
     /\ Trouble
     /\ IF LaneCount >= MaxSequences THEN Rollback
        ELSE \E retry \in {"later", "hold"} : Park(e, retry, {e} \X (1..(h - 1)))
     /\ UNCHANGED <<letters, token, replays, history>>

CommitBatch ==
  /\ batch.next > token + 1
  /\ token' = batch.next - 1
  /\ letters' = [e \in Event |-> IF batch.letters[e].there THEN batch.letters[e] ELSE letters[e]]
  /\ Commits(batch.done)
  /\ batch' = NoBatch(token')
  /\ UNCHANGED <<replays, troubles, overlong, cleared>>

\* The node dies, or the batch's commit fails: it is delivered again.
BatchFails ==
  /\ batch.next > token + 1
  /\ Trouble
  /\ Rollback
  /\ UNCHANGED <<letters, token, replays, history>>

-----------------------------------------------------------------------------
(* process(), in the backoff's wrapper. *)
At(r, at) == replays[r].at = at
Ends(r) == replays' = [replays EXCEPT ![r] = NoReplay]

\* A candidate: the head of a lane, unleased and due, as read now.
Select(r, e) ==
  /\ At(r, "idle")
  /\ IsHead(e)
  /\ Claimable(e)
  /\ letters[e].retry = "due"
  /\ replays' = [replays EXCEPT ![r] = [at |-> "selected", letter |-> e, rows |-> <<>>, next |-> 0]]
  /\ UNCHANGED <<letters, token, batch, troubles, history>>

\* The claim is the check that counts.
Claim(r) ==
  LET e == replays[r].letter
  IN /\ At(r, "selected")
     /\ IF Claimable(e)
          THEN /\ letters' = [letters EXCEPT ![e] = Leased(@, r)]
               /\ replays' = [replays EXCEPT ![r] = [at |-> "claimed", letter |-> e, rows |-> <<>>, next |-> 0]]
          ELSE Ends(r) /\ UNCHANGED letters
     /\ UNCHANGED <<token, batch, troubles, history>>

\* The lane's rows, read after the claim, and the head as it is by now.
ReadLane(r) ==
  LET e == replays[r].letter
      lane == InLane(letters, Lane[e])
  IN /\ At(r, "claimed")
     /\ \E n \in 0..LastEvent : \E rows \in Bijection(1..n, lane) :
          /\ \A i, j \in DOMAIN rows : i < j => letters[rows[i]].index < letters[rows[j]].index
          /\ IF lane # {} /\ letters[rows[1]].retry = "due"
               THEN /\ replays' = [replays EXCEPT ![r] =
                         [at |-> "walking", letter |-> rows[1], rows |-> Tail(rows), next |-> 0]]
                    /\ UNCHANGED letters
               ELSE Ends(r) /\ letters' = [letters EXCEPT ![e] = ReleasedBy(@, r)]
     /\ UNCHANGED <<token, batch, troubles, history>>

\* The handlers are through: the lease of the letter behind, if it is to be had.
HandOver(r) ==
  LET run == replays[r]
      next == IF run.rows # <<>> /\ Claimable(run.rows[1]) THEN run.rows[1] ELSE 0
  IN /\ At(r, "walking")
     /\ letters' = IF next = 0 THEN letters ELSE [letters EXCEPT ![next] = Leased(@, r)]
     /\ replays' = [replays EXCEPT ![r] = [at |-> "handled", letter |-> run.letter, rows |-> run.rows, next |-> next]]
     /\ UNCHANGED <<token, batch, troubles, history>>

\* The eviction, which may find no row any more, commits with the handlers'
\* writes; the walk goes on if the next letter was taken.
CommitReplay(r) ==
  LET run == replays[r]
  IN /\ At(r, "handled")
     /\ letters' = [letters EXCEPT ![run.letter] = NoLetter]
     /\ Commits({run.letter} \X Handler)
     /\ replays' = [replays EXCEPT ![r] =
          IF run.next = 0 THEN NoReplay
          ELSE [at |-> "walking", letter |-> run.next, rows |-> Tail(run.rows), next |-> 0]]
     /\ UNCHANGED <<token, batch, troubles, overlong, cleared>>

\* A handler throws: nothing of the replay stays, and the letter is stamped
\* with the next delay and handed back in one statement.
ReplayFails(r) ==
  LET e == replays[r].letter
  IN /\ At(r, "walking")
     /\ Trouble
     /\ \E retry \in {"later", "hold"} :
          letters' = IF ~letters[e].there THEN letters
                     ELSE [letters EXCEPT ![e] =
                       LET row == ReleasedBy(@, r)
                       IN [there |-> TRUE, index |-> row.index, lease |-> row.lease, stale |-> row.stale, retry |-> retry]]
     /\ Ends(r)
     /\ UNCHANGED <<token, batch, history>>

\* The commit fails: both leases are given back.
CommitReplayFails(r) ==
  /\ At(r, "handled")
  /\ Trouble
  /\ letters' = [e \in Event |->
       IF e \in {replays[r].letter, replays[r].next} THEN ReleasedBy(letters[e], r) ELSE letters[e]]
  /\ Ends(r)
  /\ UNCHANGED <<token, batch, history>>

\* The process dies; its leases stay until they expire.
ReplayerDies(r) ==
  /\ ~At(r, "idle")
  /\ Trouble
  /\ letters' = [e \in Event |-> IF letters[e].lease = r
       THEN [there |-> TRUE, index |-> letters[e].index, lease |-> Lost, stale |-> letters[e].stale, retry |-> letters[e].retry]
       ELSE letters[e]]
  /\ Ends(r)
  /\ UNCHANGED <<token, batch, history>>

-----------------------------------------------------------------------------
(* Time, and operators. *)
Expire(e) ==
  /\ letters[e].there
  /\ ~letters[e].stale
  /\ letters' = [letters EXCEPT ![e] =
       [there |-> TRUE, index |-> @.index, lease |-> @.lease, stale |-> TRUE, retry |-> @.retry]]

LostLeaseExpires(e) ==
  /\ letters[e].lease = Lost
  /\ Expire(e)
  /\ UNCHANGED <<token, batch, replays, troubles, history>>

\* A replay of one letter outlasts claimDurationMs.
LeaseExpires(e) ==
  /\ letters[e].lease \in Replayer
  /\ Trouble
  /\ Expire(e)
  /\ overlong' = TRUE
  /\ UNCHANGED <<token, batch, replays, done, again, cleared>>

Retry(e, when) ==
  letters' = [letters EXCEPT ![e] =
    [there |-> TRUE, index |-> @.index, lease |-> @.lease, stale |-> @.stale, retry |-> when]]

BecomesDue(e) ==
  /\ letters[e].there /\ letters[e].retry = "later"
  /\ Retry(e, "due")
  /\ UNCHANGED <<token, batch, replays, troubles, history>>

RetryNow(e) ==
  /\ IsHead(e) /\ letters[e].retry # "due"
  /\ Retry(e, "due")
  /\ UNCHANGED <<token, batch, replays, troubles, history>>

Clear ==
  /\ cleared' = cleared \cup {e \in Event : letters[e].there}
  /\ letters' = [e \in Event |-> NoLetter]
  /\ cleared' # cleared
  /\ UNCHANGED <<token, batch, replays, troubles, done, again, overlong>>

Deliver == DeliverBlocked \/ DeliverHandled \/ \E h \in Handler : DeliverFails(h)

ReplayStep(r) ==
  \/ \E e \in Event : Select(r, e)
  \/ Claim(r) \/ ReadLane(r) \/ HandOver(r) \/ CommitReplay(r)
  \/ ReplayFails(r) \/ CommitReplayFails(r) \/ ReplayerDies(r)

Next ==
  \/ Deliver \/ CommitBatch \/ BatchFails
  \/ \E r \in Replayer : ReplayStep(r)
  \/ \E e \in Event : LostLeaseExpires(e) \/ LeaseExpires(e) \/ BecomesDue(e) \/ RetryNow(e)
  \/ Clear

Spec == Init /\ [][Next]_vars

\* The processor polls, time passes, and the host keeps calling
\* reprocessDeadLetters.  Nobody owes a retryNow or a clear.
Fairness ==
  /\ WF_vars(DeliverBlocked \/ DeliverHandled)
  /\ WF_vars(CommitBatch)
  /\ \A r \in Replayer :
       /\ WF_vars(\E e \in Event : Select(r, e))
       /\ WF_vars(Claim(r) \/ ReadLane(r) \/ HandOver(r))
       /\ WF_vars(CommitReplay(r))
  /\ \A e \in Event : WF_vars(LostLeaseExpires(e)) /\ WF_vars(BecomesDue(e))

FairSpec == Spec /\ Fairness

-----------------------------------------------------------------------------
\* "Nothing dropped": what the token is past has been handled by every handler,
\* or is parked, or an operator deleted it; whatever batch or replay failed,
\* and whoever died with a lease.
NothingDropped ==
  \A e \in 1..token : {e} \X Handler \subseteq done \/ letters[e].there \/ e \in cleared

\* "Order is preserved through the failure": the first writes of a handler for
\* the events of a lane come in their order, replays on several nodes and
\* overlong ones included, so long as no letter is deleted by hand.
LaneOrder ==
  cleared = {} => \A e, o \in Event : \A h \in Handler :
    e < o /\ Lane[e] = Lane[o] /\ <<o, h>> \in done => <<e, h>> \in done

\* The last handler's writes for an event are committed twice only when a replay
\* outlasts its lease, or the letter a replayer has claimed is deleted by hand
\* before it reads the lane.  (The handlers before one that fails have written
\* with the batch, and write again in the replay.)
OnceUnlessOverlong == ~overlong /\ cleared = {} => \A e \in Event : <<e, Handlers>> \notin again

\* The queue keeps to its limits: a lane to maxSequenceSize letters, and the
\* whole to maxSequences lanes.
QueueBounded ==
  /\ \A e \in Event : Cardinality(InLane(letters, Lane[e])) <= MaxSequenceSize
  /\ Cardinality({Lane[e] : e \in {o \in Event : letters[o].there}}) <= MaxSequences

\* A lane that overflows stalls the processor only until it is drained, and
\* every letter is replayed in the end, unless one is held for good.
Drained ==
  \/ <>(\A e \in Event : {e} \X Handler \subseteq done \/ e \in cleared)
  \/ <>[](\E e \in Event : letters[e].there /\ letters[e].retry = "hold")
=============================================================================
