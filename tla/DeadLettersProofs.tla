------------------------- MODULE DeadLettersProofs -------------------------
(***************************************************************************)
(* What a dead-letter queue promises, for any events, lanes, handlers,     *)
(* replayers and limits: no event is dropped, a lane keeps its order, what *)
(* is handled twice was a replay that outlasted its lease, and the queue   *)
(* keeps to maxSequenceSize and maxSequences.                              *)
(***************************************************************************)
EXTENDS DeadLetters, FiniteSetTheorems, TLAPS

Whole(e) == {e} \X Handler
Before(e) == {o \in Event : o < e /\ Lane[o] = Lane[e]}

-----------------------------------------------------------------------------
(* The rows and the log of writes. *)
Typed ==
  /\ DOMAIN letters = Event /\ DOMAIN batch.letters = Event /\ DOMAIN replays = Replayer
  /\ token \in Nat /\ batch.next \in Nat
  /\ token < batch.next /\ batch.next <= LastEvent + 1

Parked == \A e \in Event :
  /\ letters[e].there => e <= token /\ letters[e].index \in 0..(e - 1)
  /\ batch.letters[e].there => token < e /\ e < batch.next /\ batch.letters[e].index \in 0..(e - 1)
  /\ ~letters[e].there => letters[e].lease = Free

\* A lane's letters lie in the order of its events.
Sorted == \A e, o \in Event :
  e < o /\ Lane[e] = Lane[o] /\ Seen[e].there /\ Seen[o].there => Seen[e].index < Seen[o].index

\* What the open batch has gone through, it has handled or parked.
Carried == \A e \in (token + 1)..(batch.next - 1) : Whole(e) \subseteq batch.done \/ batch.letters[e].there

Placed ==
  /\ done \subseteq (1..token) \X Handler
  /\ batch.done \subseteq ((token + 1)..(batch.next - 1)) \X Handler

\* The writes of the open batch continue the order of the committed ones.
Ordered == \A e, o \in Event : \A h \in Handler :
  e < o /\ Lane[e] = Lane[o] /\ <<o, h>> \in done \cup batch.done => <<e, h>> \in done \cup batch.done

Core == Typed /\ Parked /\ Sorted /\ Carried /\ Placed /\ NothingDropped /\ (cleared = {} => Ordered)

-----------------------------------------------------------------------------
(* The replays. *)
Gone(e) == Whole(e) \subseteq done

Run(r) ==
  LET run == replays[r]
  IN /\ run.at \in {"idle", "selected", "claimed", "walking", "handled"}
     /\ run.at # "idle" => run.letter \in Event /\ run.letter <= token
     /\ run.rows \in Seq(Event)
     /\ \A i \in 1..Len(run.rows) :
          /\ run.rows[i] <= token /\ run.rows[i] # run.letter
          /\ \A j \in 1..Len(run.rows) : i # j => run.rows[i] # run.rows[j]
     /\ run.next # 0 => run.at = "handled" /\ run.rows # <<>> /\ run.next = run.rows[1]

\* A walk has nothing open before its letter, and between its rows.
Walk(r) ==
  LET run == replays[r]
  IN run.at \in {"walking", "handled"} =>
       /\ \A o \in Before(run.letter) : Gone(o)
       /\ \A i \in 1..Len(run.rows) : \A o \in Before(run.rows[i]) :
            Gone(o) \/ o = run.letter \/ \E j \in 1..(i - 1) : run.rows[j] = o

Walks == \A r \in Replayer : Run(r) /\ (cleared = {} => Walk(r))

-----------------------------------------------------------------------------
(* The core, by what a step does to the rows. *)

\* A step of leases and delays: the same letters at the same places.
SameRows ==
  /\ DOMAIN letters' = Event
  /\ \A e \in Event :
       /\ letters'[e].there <=> letters[e].there
       /\ letters'[e].index = letters[e].index
       /\ ~letters[e].there => letters'[e].lease = Free

\* The batch sees its own rows first.
LEMMA SeenRows ==
  ASSUME NEW e \in Event
  PROVE  /\ Seen[e].there <=> batch.letters[e].there \/ letters[e].there
         /\ batch.letters[e].there => Seen[e] = batch.letters[e]
         /\ ~batch.letters[e].there => Seen[e] = letters[e]
  BY Zenon DEF Seen

\* ... and after a step.
LEMMA SeenRowsNext ==
  ASSUME NEW e \in Event
  PROVE  /\ Seen'[e].there <=> batch'.letters[e].there \/ letters'[e].there
         /\ batch'.letters[e].there => Seen'[e] = batch'.letters[e]
         /\ ~batch'.letters[e].there => Seen'[e] = letters'[e]
  BY Zenon DEF Seen

\* An empty batch has no rows and no writes.
LEMMA EmptyBatch ==
  ASSUME NEW t \in Nat
  PROVE  /\ NoBatch(t).next = t + 1
         /\ NoBatch(t).done = {}
         /\ DOMAIN NoBatch(t).letters = Event
         /\ \A e \in Event : NoBatch(t).letters[e] = NoLetter /\ ~NoBatch(t).letters[e].there
  BY Zenon DEF NoBatch, NoLetter

\* Leases and delays do not touch the core.
LEMMA CoreQuiet ==
  ASSUME Core, SameRows, DOMAIN replays' = Replayer, UNCHANGED <<token, batch, done, cleared>>
  PROVE  Core'
<1>1. Typed' BY Zenon DEF Core, Typed, SameRows
<1>2. Parked' BY Zenon DEF Core, Parked, SameRows
<1>3. Sorted'
  <2>1. ASSUME NEW e \in Event PROVE (Seen'[e].there <=> Seen[e].there) /\ Seen'[e].index = Seen[e].index
    BY SeenRows, SeenRowsNext, Zenon DEF SameRows
  <2> QED BY <2>1, Zenon DEF Core, Sorted
<1>4. Carried' BY Zenon DEF Core, Carried
<1>5. Placed' BY Zenon DEF Core, Placed
<1>6. NothingDropped'
  <2>1. \A e \in 1..token : e \in Event BY DeadLettersAssumption DEF Core, Typed, Event
  <2> QED BY <2>1, Zenon DEF Core, NothingDropped, SameRows
<1>7. (cleared = {} => Ordered)' BY Zenon DEF Core, Ordered
<1> QED BY <1>1, <1>2, <1>3, <1>4, <1>5, <1>6, <1>7, Zenon DEF Core

\* The committed writes are in order by themselves.
LEMMA CommittedOrder ==
  ASSUME Core
  PROVE  LaneOrder
<1> SUFFICES ASSUME cleared = {}, NEW e \in Event, NEW o \in Event, NEW h \in Handler,
                    e < o, Lane[e] = Lane[o], <<o, h>> \in done
             PROVE  <<e, h>> \in done
  BY Zenon DEF LaneOrder
<1>1. o \in 1..token BY Zenon DEF Core, Placed
<1>2. <<e, h>> \in done \cup batch.done BY Zenon DEF Core, Ordered
<1>3. <<e, h>> \notin batch.done BY <1>1 DEF Core, Placed, Typed, Event
<1> QED BY <1>2, <1>3, Zenon

\* A batch rolled back leaves the committed rows and writes.
LEMMA CoreRollback ==
  ASSUME Core, Rollback, UNCHANGED <<letters, token, replays, done, cleared>>
  PROVE  Core'
<1>0. /\ batch'.next = token + 1 /\ batch'.done = {} /\ DOMAIN batch'.letters = Event
      /\ \A e \in Event : ~batch'.letters[e].there
  BY EmptyBatch, Zenon DEF Rollback, Core, Typed
<1>1. Typed' BY <1>0, DeadLettersAssumption DEF Core, Typed
<1>2. Parked' BY <1>0, Zenon DEF Core, Parked
<1>3. Sorted'
  <2>1. ASSUME NEW e \in Event
        PROVE  Seen'[e].there => Seen[e].there /\ Seen'[e].index = Seen[e].index
    <3>1. letters[e].there => ~batch.letters[e].there BY DEF Core, Parked, Typed, Event
    <3> QED BY <1>0, <3>1, SeenRows, SeenRowsNext, Zenon
  <2> QED BY <2>1, Zenon DEF Core, Sorted
<1>4. Carried' BY <1>0 DEF Core, Carried, Typed
<1>5. Placed' BY <1>0, Zenon DEF Core, Placed
<1>6. NothingDropped' BY Zenon DEF Core, NothingDropped
<1>7. (cleared = {} => Ordered)' BY <1>0, CommittedOrder, Zenon DEF Ordered, LaneOrder
<1> QED BY <1>1, <1>2, <1>3, <1>4, <1>5, <1>6, <1>7, Zenon DEF Core

\* The lane of the event at hand is empty in the batch's view: all before it
\* in the lane have been handled, by a commit or in the batch.
LEMMA LaneDone ==
  ASSUME Core, cleared = {}, batch.next \in Event, InLane(Seen, Lane[batch.next]) = {},
         NEW o \in Before(batch.next)
  PROVE  Whole(o) \subseteq done \cup batch.done
<1>1. o \in Event /\ o < batch.next /\ Lane[o] = Lane[batch.next] BY Zenon DEF Before
<1>2. ~batch.letters[o].there /\ ~letters[o].there BY <1>1, SeenRows, Zenon DEF InLane
<1>3. CASE o <= token BY <1>1, <1>2, <1>3 DEF Core, NothingDropped, Typed, Event, Whole
<1>4. CASE o > token BY <1>1, <1>2, <1>4 DEF Core, Carried, Typed, Event
<1> QED BY <1>1, <1>3, <1>4 DEF Core, Typed, Event

\* A parked letter comes behind those of its lane, and no later than its event.
LEMMA ParkedBehind ==
  ASSUME Core, NEW e \in Event, e = batch.next, NEW retry, NEW writes, Park(e, retry, writes)
  PROVE  /\ batch'.next = e + 1
         /\ batch'.done = batch.done \cup writes
         /\ DOMAIN batch'.letters = Event
         /\ \A o \in Event \ {e} : batch'.letters[o] = batch.letters[o]
         /\ batch'.letters[e].there
         /\ batch'.letters[e].index \in 0..(e - 1)
         /\ \A o \in InLane(Seen, Lane[e]) : Seen[o].index < batch'.letters[e].index
<1> DEFINE lane == InLane(Seen, Lane[e])
<1>1. PICK index \in IF lane = {} THEN {0} ELSE {Seen[o].index + 1 : o \in lane} :
        /\ \A o \in lane : Seen[o].index < index
        /\ batch' = [next |-> e + 1,
                     letters |-> [batch.letters EXCEPT ![e] =
                       [there |-> TRUE, index |-> index, lease |-> Free, stale |-> FALSE, retry |-> retry]],
                     done |-> batch.done \cup writes]
  BY Zenon DEF Park
<1>2. e \in Nat /\ e > 0 BY DeadLettersAssumption DEF Event
<1>3. ASSUME NEW o \in lane PROVE o \in Nat /\ o < e /\ Seen[o].index \in 0..(o - 1)
  <2>1. o \in Event /\ Seen[o].there BY Zenon DEF InLane
  <2> QED BY <2>1, SeenRows DEF Core, Parked, Typed, Event
<1>4. index \in 0..(e - 1)
  <2>1. CASE lane = {} BY <1>1, <1>2, <2>1
  <2>2. CASE lane # {}
    <3>1. PICK o \in lane : index = Seen[o].index + 1 BY <1>1, <2>2, Zenon
    <3> QED BY <1>2, <1>3, <3>1
  <2> QED BY <2>1, <2>2, Zenon
<1> QED BY <1>1, <1>4, Zenon DEF Core, Typed

\* A letter is parked, with the writes of the handlers before the one that threw.
LEMMA CorePark ==
  ASSUME Core, NEW e \in Event, e = batch.next, NEW retry, NEW writes \in SUBSET Whole(e), Park(e, retry, writes),
         cleared = {} => \A o \in Before(e) : Whole(o) \subseteq done \cup batch.done \/ writes = {},
         UNCHANGED <<letters, token, replays, done, cleared>>
  PROVE  Core'
<1>0. /\ batch'.next = e + 1
      /\ batch'.done = batch.done \cup writes
      /\ DOMAIN batch'.letters = Event
      /\ \A o \in Event \ {e} : batch'.letters[o] = batch.letters[o]
      /\ batch'.letters[e].there
      /\ batch'.letters[e].index \in 0..(e - 1)
      /\ \A o \in InLane(Seen, Lane[e]) : Seen[o].index < batch'.letters[e].index
  BY ParkedBehind, Zenon
<1>01. e \in Nat /\ token < e /\ e <= LastEvent /\ LastEvent \in Nat
  BY DeadLettersAssumption DEF Event, Core, Typed
<1>1. Typed' BY <1>0, <1>01 DEF Core, Typed
<1>2. Parked'
  <2> SUFFICES ASSUME NEW o \in Event
               PROVE  /\ letters[o].there => o <= token /\ letters[o].index \in 0..(o - 1)
                      /\ batch'.letters[o].there =>
                           token < o /\ o < e + 1 /\ batch'.letters[o].index \in 0..(o - 1)
                      /\ ~letters[o].there => letters[o].lease = Free
    BY <1>0, Zenon DEF Parked
  <2>1. CASE o = e BY <1>0, <1>01, <2>1 DEF Core, Parked
  <2>2. CASE o # e BY <1>0, <1>01, <2>2 DEF Core, Parked, Typed, Event
  <2> QED BY <2>1, <2>2, Zenon
<1>3. Sorted'
  <2>1. ASSUME NEW o \in Event, o # e PROVE Seen'[o] = Seen[o] BY <1>0, <2>1, Zenon DEF Seen
  <2>2. Seen'[e] = batch'.letters[e] BY <1>0, SeenRowsNext, Zenon
  <2>3. ASSUME NEW o \in Event, Seen[o].there PROVE o < e
    BY <2>3, <1>01, SeenRows DEF Core, Parked, Typed, Event
  <2> SUFFICES ASSUME NEW a \in Event, NEW b \in Event, a < b, Lane[a] = Lane[b], Seen'[a].there, Seen'[b].there
               PROVE  Seen'[a].index < Seen'[b].index
    BY Zenon DEF Sorted
  <2>4. CASE b = e
    <3>1. a # e BY <2>4 DEF Event
    <3>2. a \in InLane(Seen, Lane[e]) BY <2>1, <2>4, <3>1, Zenon DEF InLane
    <3> QED BY <1>0, <2>1, <2>2, <2>4, <3>1, <3>2, Zenon
  <2>5. CASE b # e
    <3>1. b < e BY <2>1, <2>3, <2>5, Zenon
    <3>2. a # e BY <3>1 DEF Event
    <3> QED BY <2>1, <2>5, <3>2, Zenon DEF Core, Sorted
  <2> QED BY <2>4, <2>5, Zenon
<1>4. Carried'
  <2> SUFFICES ASSUME NEW o \in (token + 1)..e PROVE Whole(o) \subseteq batch'.done \/ batch'.letters[o].there
    BY <1>0, <1>01 DEF Carried
  <2>1. CASE o = e BY <1>0, <2>1, Zenon
  <2>2. CASE o # e
    <3>1. o \in (token + 1)..(batch.next - 1) /\ o \in Event BY <1>01, <2>2 DEF Core, Typed, Event
    <3> QED BY <1>0, <2>2, <3>1, Zenon DEF Core, Carried
  <2> QED BY <2>1, <2>2, Zenon
<1>5. Placed'
  <2>1. writes \subseteq ((token + 1)..e) \X Handler BY <1>01 DEF Whole, Core, Typed
  <2>2. batch.done \subseteq ((token + 1)..e) \X Handler BY <1>01 DEF Core, Placed, Typed
  <2>3. batch'.done \subseteq ((token + 1)..(batch'.next - 1)) \X Handler BY <1>0, <1>01, <2>1, <2>2
  <2> QED BY <2>3, Zenon DEF Core, Placed
<1>6. NothingDropped' BY Zenon DEF Core, NothingDropped
<1>7. (cleared = {} => Ordered)'
  <2> SUFFICES ASSUME cleared = {}, NEW a \in Event, NEW b \in Event, NEW h \in Handler, a < b, Lane[a] = Lane[b],
                      <<b, h>> \in done \cup batch'.done
               PROVE  <<a, h>> \in done \cup batch'.done
    BY Zenon DEF Ordered
  <2>1. CASE <<b, h>> \in done \cup batch.done BY <1>0, <2>1, Zenon DEF Core, Ordered
  <2>2. CASE <<b, h>> \in writes
    <3>1. b = e BY <2>2, Zenon DEF Whole
    <3>2. Whole(a) \subseteq done \cup batch.done BY <2>2, <3>1, Zenon DEF Before
    <3> QED BY <1>0, <3>2, Zenon DEF Whole
  <2> QED BY <1>0, <2>1, <2>2, Zenon
<1> QED BY <1>1, <1>2, <1>3, <1>4, <1>5, <1>6, <1>7, Zenon DEF Core

\* An event whose lane is empty is handled.
LEMMA CoreHandled ==
  ASSUME Core, DeliverHandled
  PROVE  Core'
<1> DEFINE e == batch.next
<1>0. /\ e \in Event
      /\ InLane(Seen, Lane[e]) = {}
      /\ batch'.next = e + 1 /\ batch'.letters = batch.letters /\ batch'.done = batch.done \cup Whole(e)
      /\ UNCHANGED <<letters, token, replays, done, cleared>>
  BY Zenon DEF DeliverHandled, history, Whole
<1>01. e \in Nat /\ token < e /\ e <= LastEvent /\ LastEvent \in Nat
  BY <1>0, DeadLettersAssumption DEF Event, Core, Typed
<1>1. Typed' BY <1>0, <1>01 DEF Core, Typed
<1>2. Parked' BY <1>0, <1>01 DEF Core, Parked, Event
<1>3. Sorted' BY <1>0, Zenon DEF Core, Sorted, Seen
<1>4. Carried'
  <2> SUFFICES ASSUME NEW o \in (token + 1)..e PROVE Whole(o) \subseteq batch'.done \/ batch.letters[o].there
    BY <1>0, <1>01 DEF Carried
  <2>1. CASE o = e BY <1>0, <2>1, Zenon
  <2>2. CASE o # e
    <3>1. o \in (token + 1)..(batch.next - 1) BY <1>01, <2>2 DEF Core, Typed
    <3> QED BY <1>0, <3>1, Zenon DEF Core, Carried
  <2> QED BY <2>1, <2>2, Zenon
<1>5. Placed'
  <2>1. Whole(e) \subseteq ((token + 1)..e) \X Handler BY <1>01 DEF Whole, Core, Typed
  <2>2. batch.done \subseteq ((token + 1)..e) \X Handler BY <1>01 DEF Core, Placed, Typed
  <2>3. batch'.done \subseteq ((token + 1)..(batch'.next - 1)) \X Handler BY <1>0, <1>01, <2>1, <2>2
  <2> QED BY <1>0, <2>3, Zenon DEF Core, Placed
<1>6. NothingDropped' BY <1>0, Zenon DEF Core, NothingDropped
<1>7. (cleared = {} => Ordered)'
  <2> SUFFICES ASSUME cleared = {}, NEW a \in Event, NEW b \in Event, NEW h \in Handler, a < b, Lane[a] = Lane[b],
                      <<b, h>> \in done \cup batch'.done
               PROVE  <<a, h>> \in done \cup batch'.done
    BY <1>0, Zenon DEF Ordered
  <2>1. CASE <<b, h>> \in done \cup batch.done BY <1>0, <2>1, Zenon DEF Core, Ordered
  <2>2. CASE <<b, h>> \in Whole(e)
    <3>1. b = e BY <2>2, Zenon DEF Whole
    <3>2. Whole(a) \subseteq done \cup batch.done BY <1>0, <3>1, LaneDone, Zenon DEF Before
    <3> QED BY <1>0, <3>2, Zenon DEF Whole
  <2> QED BY <1>0, <2>1, <2>2, Zenon
<1> QED BY <1>1, <1>2, <1>3, <1>4, <1>5, <1>6, <1>7, Zenon DEF Core

\* The batch's rows and writes become the committed ones with the token.
LEMMA CoreCommit ==
  ASSUME Core, CommitBatch
  PROVE  Core'
<1>0. /\ token' = batch.next - 1 /\ token' \in Nat /\ token < token' /\ token' <= LastEvent /\ LastEvent \in Nat
      /\ letters' = [e \in Event |-> IF batch.letters[e].there THEN batch.letters[e] ELSE letters[e]]
      /\ done' = done \cup batch.done
      /\ batch' = NoBatch(token')
      /\ UNCHANGED <<replays, cleared>>
  BY DeadLettersAssumption DEF CommitBatch, Commits, Core, Typed
<1>01. /\ batch'.next = token' + 1 /\ batch'.done = {} /\ DOMAIN batch'.letters = Event
       /\ \A e \in Event : ~batch'.letters[e].there
  BY <1>0, EmptyBatch, Zenon
<1>1. Typed' BY <1>0, <1>01 DEF Core, Typed
<1>2. Parked'
  <2> SUFFICES ASSUME NEW e \in Event
               PROVE  /\ letters'[e].there => e <= token' /\ letters'[e].index \in 0..(e - 1)
                      /\ ~letters'[e].there => letters'[e].lease = Free
    BY <1>01, Zenon DEF Parked
  <2>1. CASE batch.letters[e].there BY <1>0, <2>1 DEF Core, Parked, Typed, Event
  <2>2. CASE ~batch.letters[e].there BY <1>0, <2>2 DEF Core, Parked, Typed, Event
  <2> QED BY <2>1, <2>2, Zenon
<1>3. Sorted'
  <2>1. ASSUME NEW e \in Event PROVE Seen'[e] = Seen[e] BY <1>0, <1>01, Zenon DEF Seen
  <2> QED BY <2>1, Zenon DEF Core, Sorted
<1>4. Carried' BY <1>0, <1>01 DEF Carried
<1>5. Placed'
  <2>1. done \subseteq (1..token') \X Handler BY <1>0 DEF Core, Placed, Typed
  <2>2. batch.done \subseteq (1..token') \X Handler BY <1>0 DEF Core, Placed, Typed
  <2> QED BY <1>0, <1>01, <2>1, <2>2, Zenon DEF Placed
<1>6. NothingDropped'
  <2> SUFFICES ASSUME NEW e \in 1..token' PROVE Whole(e) \subseteq done' \/ letters'[e].there \/ e \in cleared'
    BY Zenon DEF NothingDropped, Whole
  <2>1. e \in Event /\ e \in Nat BY <1>0 DEF Event
  <2>2. CASE e <= token BY <1>0, <2>1, <2>2 DEF Core, NothingDropped, Whole, Typed
  <2>3. CASE e > token
    <3>1. e \in (token + 1)..(batch.next - 1) BY <1>0, <2>1, <2>3 DEF Core, Typed
    <3> QED BY <1>0, <2>1, <3>1, Zenon DEF Core, Carried
  <2> QED BY <2>1, <2>2, <2>3 DEF Core, Typed
<1>7. (cleared = {} => Ordered)' BY <1>0, <1>01, Zenon DEF Core, Ordered
<1> QED BY <1>1, <1>2, <1>3, <1>4, <1>5, <1>6, <1>7, Zenon DEF Core

\* A letter is evicted with the writes of all its handlers.
LEMMA CoreEvict ==
  ASSUME Core, NEW e \in Event, e <= token, cleared = {} => \A o \in Before(e) : Gone(o),
         letters' = [letters EXCEPT ![e] = NoLetter], done' = done \cup Whole(e),
         DOMAIN replays' = Replayer, UNCHANGED <<token, batch, cleared>>
  PROVE  Core'
<1>0. DOMAIN letters' = Event /\ ~letters'[e].there /\ letters'[e].lease = Free
      /\ \A o \in Event \ {e} : letters'[o] = letters[o]
  BY Zenon DEF Core, Typed, NoLetter
<1>1. Typed' BY <1>0, Zenon DEF Core, Typed
<1>2. Parked' BY <1>0, Zenon DEF Core, Parked
<1>3. Sorted'
  <2>1. ASSUME NEW o \in Event PROVE Seen'[o].there => Seen[o].there /\ Seen'[o] = Seen[o]
    BY <1>0, Zenon DEF Seen
  <2> QED BY <2>1, Zenon DEF Core, Sorted
<1>4. Carried' BY Zenon DEF Core, Carried
<1>5. Placed'
  <2>1. Whole(e) \subseteq (1..token) \X Handler BY DEF Core, Typed, Whole, Event
  <2> QED BY <2>1, Zenon DEF Core, Placed
<1>6. NothingDropped'
  <2> SUFFICES ASSUME NEW o \in 1..token PROVE Whole(o) \subseteq done' \/ letters'[o].there \/ o \in cleared
    BY Zenon DEF NothingDropped, Whole
  <2>1. o \in Event BY DeadLettersAssumption DEF Core, Typed, Event
  <2> QED BY <1>0, <2>1, Zenon DEF Core, NothingDropped, Whole
<1>7. (cleared = {} => Ordered)'
  <2> SUFFICES ASSUME cleared = {}, NEW a \in Event, NEW b \in Event, NEW h \in Handler, a < b, Lane[a] = Lane[b],
                      <<b, h>> \in done' \cup batch.done
               PROVE  <<a, h>> \in done' \cup batch.done
    BY Zenon DEF Ordered
  <2>1. CASE <<b, h>> \in done \cup batch.done BY <2>1, Zenon DEF Core, Ordered
  <2>2. CASE <<b, h>> \in Whole(e)
    <3>1. b = e BY <2>2, Zenon DEF Whole
    <3>2. Whole(a) \subseteq done BY <3>1, Zenon DEF Before, Gone
    <3> QED BY <3>2, Zenon DEF Whole
  <2> QED BY <2>1, <2>2, Zenon
<1> QED BY <1>1, <1>2, <1>3, <1>4, <1>5, <1>6, <1>7, Zenon DEF Core

\* An operator deletes every letter, and it is written down.
LEMMA CoreClear ==
  ASSUME Core, Clear
  PROVE  Core' /\ cleared' # {}
<1>0. /\ cleared' = cleared \cup {e \in Event : letters[e].there}
      /\ letters' = [e \in Event |-> NoLetter]
      /\ cleared' # cleared
      /\ UNCHANGED <<token, batch, replays, done>>
  BY Zenon DEF Clear
<1>01. \A e \in Event : ~letters'[e].there /\ letters'[e].lease = Free BY <1>0, Zenon DEF NoLetter
<1>02. cleared' # {} BY <1>0, Zenon
<1>1. Typed' BY <1>0, Zenon DEF Core, Typed
<1>2. Parked' BY <1>0, <1>01, Zenon DEF Core, Parked
<1>3. Sorted'
  <2>1. ASSUME NEW o \in Event PROVE Seen'[o].there => Seen[o].there /\ Seen'[o] = Seen[o]
    BY <1>0, <1>01, Zenon DEF Seen
  <2> QED BY <2>1, Zenon DEF Core, Sorted
<1>4. Carried' BY <1>0, Zenon DEF Core, Carried
<1>5. Placed' BY <1>0, Zenon DEF Core, Placed
<1>6. NothingDropped'
  <2> SUFFICES ASSUME NEW o \in 1..token PROVE Whole(o) \subseteq done \/ letters'[o].there \/ o \in cleared'
    BY <1>0, Zenon DEF NothingDropped, Whole
  <2>1. o \in Event BY DeadLettersAssumption DEF Core, Typed, Event
  <2> QED BY <1>0, <2>1, Zenon DEF Core, NothingDropped, Whole
<1> QED BY <1>02, <1>1, <1>2, <1>3, <1>4, <1>5, <1>6, Zenon DEF Core

-----------------------------------------------------------------------------
(* The walks. *)

\* A run that stays where it is is none the worse for what others commit.
LEMMA RunKept ==
  ASSUME NEW r \in Replayer, Run(r), replays'[r] = replays[r], token \in Nat, token' \in Nat, token <= token'
  PROVE  Run(r)'
<1>1. \A i \in 1..Len(replays[r].rows) : replays[r].rows[i] \in Event BY DEF Run
<1> QED BY <1>1, DeadLettersAssumption DEF Run, Event

\* A walk stays sound while nothing handled is forgotten.
LEMMA WalkKept ==
  ASSUME NEW r \in Replayer, Walk(r), replays'[r] = replays[r], done \subseteq done'
  PROVE  Walk(r)'
<1>1. \A o \in Event : Gone(o) => Gone(o)' BY Zenon DEF Gone
<1>2. \A e : \A o \in Before(e) : o \in Event BY Zenon DEF Before
<1> QED BY <1>1, <1>2 DEF Walk

\* ... and so do all walks when no replayer moves.
LEMMA WalksKept ==
  ASSUME Walks, UNCHANGED replays, token \in Nat, token' \in Nat, token <= token', done \subseteq done',
         cleared' = {} => cleared = {}
  PROVE  Walks'
<1> SUFFICES ASSUME NEW r \in Replayer PROVE Run(r)' /\ (cleared' = {} => Walk(r)') BY Zenon DEF Walks
<1>1. Run(r)' BY RunKept, Zenon DEF Walks
<1>2. cleared' = {} => Walk(r)' BY WalkKept, Zenon DEF Walks
<1> QED BY <1>1, <1>2, Zenon

\* One run goes on.
LEMMA WalksStep ==
  ASSUME Core, Walks, NEW r \in Replayer, NEW run, replays' = [replays EXCEPT ![r] = run],
         UNCHANGED <<token, cleared>>, done \subseteq done',
         Run(r)', cleared = {} => Walk(r)'
  PROVE  Walks'
<1> SUFFICES ASSUME NEW q \in Replayer, q # r PROVE Run(q)' /\ (cleared' = {} => Walk(q)') BY Zenon DEF Walks
<1>0. replays'[q] = replays[q] /\ token \in Nat /\ token' \in Nat /\ token <= token' BY DEF Core, Typed
<1>1. Run(q)' BY <1>0, RunKept, Zenon DEF Walks
<1>2. cleared' = {} => Walk(q)' BY <1>0, WalkKept, Zenon DEF Walks
<1> QED BY <1>1, <1>2, Zenon

\* A run with no rows yet.
LEMMA FreshRun ==
  ASSUME NEW r \in Replayer, NEW at \in {"idle", "selected", "claimed"}, NEW e,
         replays'[r] = [at |-> at, letter |-> e, rows |-> <<>>, next |-> 0],
         at # "idle" => e \in Event /\ e <= token'
  PROVE  Run(r)' /\ Walk(r)'
<1>1. /\ replays'[r].at = at /\ replays'[r].letter = e /\ replays'[r].rows = <<>> /\ replays'[r].next = 0
  OBVIOUS
<1>2. Run(r)' BY <1>1 DEF Run
<1>3. Walk(r)' BY <1>1, Zenon DEF Walk
<1> QED BY <1>2, <1>3, Zenon

\* A replayer that is done walks nothing.
LEMMA WalksEnd ==
  ASSUME Core, Walks, NEW r \in Replayer, Ends(r), UNCHANGED <<token, done, cleared>>
  PROVE  Walks'
<1>1. replays' = [replays EXCEPT ![r] = NoReplay] /\ replays'[r] = NoReplay BY Zenon DEF Ends, Core, Typed
<1>2. Run(r)' /\ Walk(r)' BY <1>1, FreshRun, Zenon DEF NoReplay
<1> QED BY <1>1, <1>2, WalksStep, Zenon

\* A selected head is a letter the processor has passed.
LEMMA WalksSelect ==
  ASSUME Core, Walks, NEW r \in Replayer, NEW e \in Event, Select(r, e)
  PROVE  Walks'
<1>1. e <= token BY Zenon DEF Select, IsHead, Core, Parked
<1>2. replays'[r] = [at |-> "selected", letter |-> e, rows |-> <<>>, next |-> 0] BY Zenon DEF Select, Core, Typed
<1>3. Run(r)' /\ Walk(r)' BY <1>1, <1>2, FreshRun, Zenon DEF Select
<1> QED BY <1>3, WalksStep, Zenon DEF Select, history

\* A claim keeps the selected letter, or ends the run.
LEMMA WalksClaim ==
  ASSUME Core, Walks, NEW r \in Replayer, Claim(r)
  PROVE  Walks'
<1> DEFINE e == replays[r].letter
<1>1. CASE Claimable(e)
  <2>1. e \in Event /\ e <= token BY Zenon DEF Claim, At, Walks, Run
  <2>2. /\ replays' = [replays EXCEPT ![r] = [at |-> "claimed", letter |-> e, rows |-> <<>>, next |-> 0]]
        /\ UNCHANGED <<token, done, cleared>>
    BY <1>1, Zenon DEF Claim, history
  <2>3. replays'[r] = [at |-> "claimed", letter |-> e, rows |-> <<>>, next |-> 0] BY <2>2, Zenon DEF Core, Typed
  <2>4. Run(r)' /\ Walk(r)' BY <2>1, <2>2, <2>3, FreshRun, Zenon
  <2> QED BY <2>2, <2>4, WalksStep, Zenon
<1>2. CASE ~Claimable(e) BY <1>2, WalksEnd, Zenon DEF Claim, history
<1> QED BY <1>1, <1>2, Zenon

\* The hand-over picks the next letter and keeps the walk.
LEMMA WalksHandOver ==
  ASSUME Core, Walks, NEW r \in Replayer, HandOver(r)
  PROVE  Walks'
<1> DEFINE run == replays[r]
           next == IF run.rows # <<>> /\ Claimable(run.rows[1]) THEN run.rows[1] ELSE 0
<1>1. /\ run.at = "walking"
      /\ replays' = [replays EXCEPT ![r] = [at |-> "handled", letter |-> run.letter, rows |-> run.rows, next |-> next]]
      /\ UNCHANGED <<token, done, cleared>>
  BY Zenon DEF HandOver, At, history
<1>2. /\ replays'[r].at = "handled" /\ replays'[r].letter = run.letter /\ replays'[r].rows = run.rows
      /\ replays'[r].next = next
  BY <1>1, Zenon DEF Core, Typed
<1>3. Run(r) /\ (cleared = {} => Walk(r)) BY Zenon DEF Walks
<1>4. Run(r)' BY <1>1, <1>2, <1>3 DEF Run
<1>5. cleared = {} => Walk(r)' BY <1>1, <1>2, <1>3 DEF Walk, Gone
<1> HIDE DEF next, run
<1> QED BY <1>1, <1>4, <1>5, WalksStep, Zenon

\* A run is on its way with these rows.
LEMMA RunShape ==
  ASSUME NEW r \in Replayer, NEW e \in Event, NEW q \in Seq(Event), e <= token',
         replays'[r] = [at |-> "walking", letter |-> e, rows |-> q, next |-> 0],
         \A i \in 1..Len(q) : q[i] <= token' /\ q[i] # e /\ \A j \in 1..Len(q) : i # j => q[i] # q[j]
  PROVE  Run(r)'
<1>1. /\ replays'[r].at = "walking" /\ replays'[r].letter = e /\ replays'[r].rows = q /\ replays'[r].next = 0
  OBVIOUS
<1> QED BY <1>1, Zenon DEF Run

\* ... and when the walk begins.
LEMMA WalkShape ==
  ASSUME NEW r \in Replayer, NEW e \in Event, NEW q \in Seq(Event),
         replays'[r] = [at |-> "walking", letter |-> e, rows |-> q, next |-> 0],
         \A o \in Before(e) : Whole(o) \subseteq done',
         \A i \in 1..Len(q) : \A o \in Before(q[i]) :
           Whole(o) \subseteq done' \/ o = e \/ \E j \in 1..(i - 1) : q[j] = o
  PROVE  Walk(r)'
<1>1. /\ replays'[r].at = "walking" /\ replays'[r].letter = e /\ replays'[r].rows = q /\ replays'[r].next = 0
  OBVIOUS
<1> QED BY <1>1 DEF Walk, Gone

\* The rows left are the rows read but the first.
LEMMA TailRows ==
  ASSUME NEW S, NEW q \in Seq(S), q # <<>>
  PROVE  /\ Tail(q) \in Seq(S)
         /\ Len(q) \in Nat /\ Len(q) >= 1 /\ Len(Tail(q)) = Len(q) - 1
         /\ \A i \in 1..Len(Tail(q)) : i + 1 \in 1..Len(q) /\ Tail(q)[i] = q[i + 1]
  OBVIOUS

\* The walk goes on to the row behind: all before it is done, for the letter
\* before it is now.
LEMMA WalksCommitReplay ==
  ASSUME Core, Walks, NEW r \in Replayer, CommitReplay(r)
  PROVE  Walks'
<1> DEFINE run == replays[r]
           goes == [at |-> "walking", letter |-> run.next, rows |-> Tail(run.rows), next |-> 0]
<1>1. /\ run.at = "handled"
      /\ done' = done \cup Whole(run.letter)
      /\ replays' = [replays EXCEPT ![r] = IF run.next = 0 THEN NoReplay ELSE goes]
      /\ UNCHANGED <<token, cleared>>
  BY Zenon DEF CommitReplay, At, Commits, Whole
<1>2. Run(r) /\ (cleared = {} => Walk(r)) BY Zenon DEF Walks
<1>3. CASE run.next = 0
  <2>1. replays'[r] = NoReplay BY <1>1, <1>3, Zenon DEF Core, Typed
  <2>2. Run(r)' /\ Walk(r)' BY <2>1, FreshRun, Zenon DEF NoReplay
  <2> QED BY <1>1, <2>2, WalksStep, Zenon
<1>4. CASE run.next # 0
  <2>1. /\ run.rows \in Seq(Event) /\ run.rows # <<>> /\ run.next = run.rows[1]
        /\ run.letter \in Event
        /\ \A i \in 1..Len(run.rows) :
             /\ run.rows[i] <= token
             /\ \A j \in 1..Len(run.rows) : i # j => run.rows[i] # run.rows[j]
    BY <1>1, <1>2, <1>4, Zenon DEF Run
  <2>2. /\ Tail(run.rows) \in Seq(Event)
        /\ Len(run.rows) \in Nat /\ Len(run.rows) >= 1 /\ Len(Tail(run.rows)) = Len(run.rows) - 1
        /\ \A i \in 1..Len(Tail(run.rows)) : i + 1 \in 1..Len(run.rows) /\ Tail(run.rows)[i] = run.rows[i + 1]
    BY <2>1, TailRows, Zenon
  <2>3. replays'[r] = goes BY <1>1, <1>4, Zenon DEF Core, Typed
  <2>4. replays'[r] = [at |-> "walking", letter |-> run.rows[1], rows |-> Tail(run.rows), next |-> 0]
    BY <2>1, <2>3, Zenon
  <2>5. run.rows[1] \in Event /\ run.rows[1] <= token BY <2>1, <2>2
  <2>6. Run(r)'
    <3>1. ASSUME NEW i \in 1..Len(Tail(run.rows))
          PROVE  /\ Tail(run.rows)[i] <= token /\ Tail(run.rows)[i] # run.rows[1]
                 /\ \A j \in 1..Len(Tail(run.rows)) : i # j => Tail(run.rows)[i] # Tail(run.rows)[j]
      <4>1. i \in Nat /\ i + 1 \in 1..Len(run.rows) /\ i + 1 # 1 /\ 1 \in 1..Len(run.rows) BY <2>2
      <4>2. ASSUME NEW j \in 1..Len(Tail(run.rows)), i # j PROVE Tail(run.rows)[i] # Tail(run.rows)[j]
        <5>1. j + 1 \in 1..Len(run.rows) /\ i + 1 # j + 1 BY <2>2, <4>2
        <5> QED BY <2>1, <2>2, <4>1, <5>1, Zenon
      <4> QED BY <2>1, <2>2, <4>1, <4>2, Zenon
    <3> HIDE DEF run
    <3> QED BY <1>1, <2>2, <2>4, <2>5, <3>1, RunShape, Zenon
  <2>7. ASSUME cleared = {} PROVE Walk(r)'
    <3>0. \A o \in Event : (Gone(o) => Whole(o) \subseteq done') /\ Whole(run.letter) \subseteq done' BY <1>1, Zenon DEF Gone
    <3>1. ASSUME NEW i \in 1..Len(run.rows), NEW o \in Before(run.rows[i])
          PROVE  o \in Event /\ (Whole(o) \subseteq done' \/ \E j \in 1..(i - 1) : run.rows[j] = o)
      <4>1. o \in Event BY Zenon DEF Before
      <4>2. Gone(o) \/ o = run.letter \/ \E j \in 1..(i - 1) : run.rows[j] = o
        BY <1>1, <1>2, <2>7, Zenon DEF Walk
      <4> QED BY <3>0, <4>1, <4>2, Zenon
    <3>2. \A o \in Before(run.rows[1]) : Whole(o) \subseteq done'
      <4>1. 1 \in 1..Len(run.rows) BY <2>2
      <4> QED BY <3>1, <4>1
    <3>3. ASSUME NEW i \in 1..Len(Tail(run.rows)), NEW o \in Before(Tail(run.rows)[i])
          PROVE  Whole(o) \subseteq done' \/ o = run.rows[1] \/ \E j \in 1..(i - 1) : Tail(run.rows)[j] = o
      <4>1. i + 1 \in 1..Len(run.rows) /\ o \in Before(run.rows[i + 1]) BY <2>2, Zenon
      <4>2. CASE Whole(o) \subseteq done' BY <4>2, Zenon
      <4>3. CASE \E j \in 1..i : run.rows[j] = o
        <5>1. PICK j \in 1..i : run.rows[j] = o BY <4>3, Zenon
        <5>2. CASE j = 1 BY <5>1, <5>2, Zenon
        <5>3. CASE j # 1
          <6>1. j - 1 \in 1..(i - 1) /\ j - 1 \in 1..Len(Tail(run.rows)) BY <2>2, <5>1, <5>3
          <6>2. Tail(run.rows)[j - 1] = run.rows[j] BY <2>2, <6>1
          <6> QED BY <5>1, <6>1, <6>2, Zenon
        <5> QED BY <5>2, <5>3, Zenon
      <4> QED BY <3>1, <4>1, <4>2, <4>3
    <3> HIDE DEF run
    <3> QED BY <2>2, <2>4, <2>5, <3>2, <3>3, WalkShape, Zenon
  <2> HIDE DEF goes, run
  <2> QED BY <1>1, <2>6, <2>7, WalksStep, Zenon
<1> QED BY <1>3, <1>4, Zenon

\* A committed letter is not in the batch.
LEMMA CommittedRow ==
  ASSUME Core, NEW e \in Event, letters[e].there
  PROVE  Seen[e] = letters[e] /\ letters[e].index \in Nat
  BY SeenRows DEF Core, Parked, Typed, Event

\* The rows of a lane, as sorted by their index: by event, and the first one
\* has nothing before it.
LEMMA LaneRows ==
  ASSUME Core, NEW l, NEW n \in 0..LastEvent, NEW rows \in Bijection(1..n, InLane(letters, l)),
         \A i, j \in DOMAIN rows : i < j => letters[rows[i]].index < letters[rows[j]].index
  PROVE  /\ rows \in Seq(Event)
         /\ \A i \in 1..Len(rows) : letters[rows[i]].there /\ Lane[rows[i]] = l /\ rows[i] <= token
         /\ \A i, j \in 1..Len(rows) : i < j => rows[i] < rows[j]
         /\ \A e \in InLane(letters, l) : \E i \in 1..Len(rows) : rows[i] = e
<1> DEFINE lane == InLane(letters, l)
<1>1. n \in Nat BY DeadLettersAssumption
<1>2. /\ rows \in [1..n -> lane]
      /\ \A e \in lane : \E i \in 1..n : rows[i] = e
  BY Zenon DEF Bijection, Injection, Surjection, IsInjective
<1>3. \A e \in lane : e \in Event /\ letters[e].there /\ Lane[e] = l BY Zenon DEF InLane
<1> HIDE DEF lane
<1>4. rows \in [1..n -> Event] BY <1>2, <1>3, Zenon
<1>5. rows \in Seq(Event) /\ Len(rows) = n BY <1>1, <1>4
<1>6. \A i \in 1..n : letters[rows[i]].there /\ Lane[rows[i]] = l /\ rows[i] \in Event BY <1>2, <1>3, Zenon
<1>7. \A i \in 1..n : rows[i] <= token BY <1>6, Zenon DEF Core, Parked
<1>8. ASSUME NEW i \in 1..n, NEW j \in 1..n, i < j PROVE rows[i] < rows[j]
  <2>1. letters[rows[i]].index < letters[rows[j]].index BY <1>2, <1>8, Zenon
  <2>2. \A k \in 1..n : Seen[rows[k]] = letters[rows[k]] /\ letters[rows[k]].index \in Nat
    BY <1>6, CommittedRow, Zenon
  <2>3. ~(rows[j] < rows[i]) BY <1>6, <2>1, <2>2 DEF Core, Sorted
  <2>4. rows[i] # rows[j] BY <2>1, <2>2
  <2> QED BY <1>6, <2>3, <2>4 DEF Event
<1> QED BY <1>2, <1>5, <1>6, <1>7, <1>8, Zenon DEF lane

\* A walk begins at the first letter of the lane: what is before it and between
\* its rows has no letter, and was handled.
LEMMA WalksReadLane ==
  ASSUME Core, Walks, NEW r \in Replayer, ReadLane(r)
  PROVE  Walks'
<1> DEFINE l == Lane[replays[r].letter]
           lane == InLane(letters, l)
<1>0. UNCHANGED <<token, done, cleared>> BY Zenon DEF ReadLane, history
<1>1. PICK n \in 0..LastEvent : \E rows \in Bijection(1..n, lane) :
        /\ \A i, j \in DOMAIN rows : i < j => letters[rows[i]].index < letters[rows[j]].index
        /\ IF lane # {} /\ letters[rows[1]].retry = "due"
             THEN replays' = [replays EXCEPT ![r] =
                    [at |-> "walking", letter |-> rows[1], rows |-> Tail(rows), next |-> 0]]
             ELSE Ends(r)
  BY Zenon DEF ReadLane
<1>11. PICK rows \in Bijection(1..n, lane) :
        /\ \A i, j \in DOMAIN rows : i < j => letters[rows[i]].index < letters[rows[j]].index
        /\ IF lane # {} /\ letters[rows[1]].retry = "due"
             THEN replays' = [replays EXCEPT ![r] =
                    [at |-> "walking", letter |-> rows[1], rows |-> Tail(rows), next |-> 0]]
             ELSE Ends(r)
  BY <1>1, Zenon
<1> HIDE DEF l
<1>12. \A i, j \in DOMAIN rows : i < j => letters[rows[i]].index < letters[rows[j]].index BY <1>11, Zenon
<1>2. /\ rows \in Seq(Event)
      /\ \A i \in 1..Len(rows) : letters[rows[i]].there /\ Lane[rows[i]] = l /\ rows[i] <= token
      /\ \A i, j \in 1..Len(rows) : i < j => rows[i] < rows[j]
      /\ \A e \in lane : \E i \in 1..Len(rows) : rows[i] = e
  BY <1>12, LaneRows
<1>3. CASE lane # {} /\ letters[rows[1]].retry = "due"
  <2>1. rows # <<>>
    <3>1. \E i \in 1..Len(rows) : TRUE BY <1>2, <1>3, Zenon
    <3> QED BY <3>1
  <2>2. /\ Tail(rows) \in Seq(Event)
        /\ Len(rows) \in Nat /\ Len(rows) >= 1 /\ Len(Tail(rows)) = Len(rows) - 1
        /\ \A i \in 1..Len(Tail(rows)) : i + 1 \in 1..Len(rows) /\ Tail(rows)[i] = rows[i + 1]
    BY <1>2, <2>1, TailRows, Zenon
  <2>3. /\ replays' = [replays EXCEPT ![r] =
             [at |-> "walking", letter |-> rows[1], rows |-> Tail(rows), next |-> 0]]
        /\ replays'[r] = [at |-> "walking", letter |-> rows[1], rows |-> Tail(rows), next |-> 0]
    BY <1>11, <1>3, Zenon DEF Core, Typed
  <2>4. 1 \in 1..Len(rows) /\ rows[1] \in Event /\ rows[1] <= token BY <1>2, <2>2
  <2>41. \A i \in 1..Len(rows) : rows[i] \in Event /\ rows[i] \in Nat
    BY <1>2, DeadLettersAssumption DEF Event
  <2>5. Run(r)'
    <3>1. ASSUME NEW i \in 1..Len(Tail(rows))
          PROVE  /\ Tail(rows)[i] <= token /\ Tail(rows)[i] # rows[1]
                 /\ \A j \in 1..Len(Tail(rows)) : i # j => Tail(rows)[i] # Tail(rows)[j]
      <4>1. i \in Nat /\ i + 1 \in 1..Len(rows) /\ 1 < i + 1 /\ Tail(rows)[i] = rows[i + 1] BY <2>2
      <4>2. rows[1] < rows[i + 1] BY <1>2, <2>4, <4>1, Zenon
      <4>3. ASSUME NEW j \in 1..Len(Tail(rows)), i # j PROVE Tail(rows)[i] # Tail(rows)[j]
        <5>1. j \in Nat /\ j + 1 \in 1..Len(rows) /\ Tail(rows)[j] = rows[j + 1] BY <2>2
        <5>2. CASE i < j BY <1>2, <2>41, <4>1, <5>1, <5>2
        <5>3. CASE j < i BY <1>2, <2>41, <4>1, <5>1, <5>3
        <5> QED BY <4>1, <4>3, <5>1, <5>2, <5>3
      <4> QED BY <1>2, <2>41, <2>4, <4>1, <4>2, <4>3
    <3> QED BY <1>0, <2>2, <2>3, <2>4, <3>1, RunShape, Zenon
  <2>6. ASSUME cleared = {} PROVE Walk(r)'
    <3>1. ASSUME NEW i \in 1..Len(rows), NEW o \in Before(rows[i])
          PROVE  Whole(o) \subseteq done \/ \E j \in 1..(i - 1) : rows[j] = o
      <4>1. o \in Event /\ o < rows[i] /\ Lane[o] = l /\ o <= token /\ o \in 1..token
        BY <1>2, <2>41, DeadLettersAssumption DEF Before, Core, Typed, Event
      <4>2. CASE letters[o].there
        <5>1. PICK j \in 1..Len(rows) : rows[j] = o BY <1>2, <4>1, <4>2, Zenon DEF InLane
        <5>2. ~(i < j) /\ i # j BY <1>2, <2>41, <4>1, <5>1
        <5>3. j \in 1..(i - 1) BY <2>2, <5>1, <5>2
        <5> QED BY <5>1, <5>3, Zenon
      <4>3. CASE ~letters[o].there BY <2>6, <4>1, <4>3, Zenon DEF Core, NothingDropped, Whole
      <4> QED BY <4>2, <4>3, Zenon
    <3>2. \A o \in Before(rows[1]) : Whole(o) \subseteq done BY <2>4, <3>1
    <3>3. ASSUME NEW i \in 1..Len(Tail(rows)), NEW o \in Before(Tail(rows)[i])
          PROVE  Whole(o) \subseteq done \/ o = rows[1] \/ \E j \in 1..(i - 1) : Tail(rows)[j] = o
      <4>1. i + 1 \in 1..Len(rows) /\ o \in Before(rows[i + 1]) BY <2>2, Zenon
      <4>2. CASE Whole(o) \subseteq done BY <4>2, Zenon
      <4>3. CASE \E j \in 1..i : rows[j] = o
        <5>1. PICK j \in 1..i : rows[j] = o BY <4>3, Zenon
        <5>2. CASE j = 1 BY <5>1, <5>2, Zenon
        <5>3. CASE j # 1
          <6>1. j - 1 \in 1..(i - 1) /\ j - 1 \in 1..Len(Tail(rows)) BY <2>2, <5>1, <5>3
          <6>2. Tail(rows)[j - 1] = rows[j] BY <2>2, <6>1
          <6> QED BY <5>1, <6>1, <6>2, Zenon
        <5> QED BY <5>2, <5>3, Zenon
      <4> QED BY <3>1, <4>1, <4>2, <4>3
    <3>4. \A o \in Before(rows[1]) : Whole(o) \subseteq done' BY <1>0, <3>2, Zenon
    <3>5. \A i \in 1..Len(Tail(rows)) : \A o \in Before(Tail(rows)[i]) :
            Whole(o) \subseteq done' \/ o = rows[1] \/ \E j \in 1..(i - 1) : Tail(rows)[j] = o
      BY <1>0, <3>3, Zenon
    <3> QED BY <2>2, <2>3, <2>4, <3>4, <3>5, WalkShape, Zenon
  <2> QED BY <1>0, <2>3, <2>5, <2>6, WalksStep, Zenon
<1>4. CASE ~(lane # {} /\ letters[rows[1]].retry = "due") BY <1>0, <1>11, <1>4, WalksEnd, Zenon
<1> QED BY <1>3, <1>4, Zenon

-----------------------------------------------------------------------------
(* The steps that keep the rows. *)

\* One letter's lease or delay changes.
LEMMA OneRow ==
  ASSUME Core, NEW e \in Event, NEW row, letters' = [letters EXCEPT ![e] = row],
         row.there <=> letters[e].there, row.index = letters[e].index, letters[e].there \/ row.lease = Free
  PROVE  SameRows
<1>1. DOMAIN letters' = Event /\ letters'[e] = row /\ \A o \in Event \ {e} : letters'[o] = letters[o]
  BY Zenon DEF Core, Typed
<1> QED BY <1>1, Zenon DEF SameRows, Core, Parked

\* The steps below keep every letter in its lane and place: SameRows.
LEMMA UnchangedRows ==
  ASSUME Core, UNCHANGED letters
  PROVE  SameRows
  BY Zenon DEF SameRows, Core, Parked, Typed

\* Releasing a letter keeps its place.
LEMMA ReleasedRow ==
  ASSUME Core, NEW e \in Event, NEW r \in Replayer
  PROVE  /\ ReleasedBy(letters[e], r).there <=> letters[e].there
         /\ ReleasedBy(letters[e], r).index = letters[e].index
         /\ letters[e].there \/ ReleasedBy(letters[e], r).lease = Free
  BY Zenon DEF ReleasedBy, Leased, Core, Parked

\* A claim writes a lease.
LEMMA ClaimRows ==
  ASSUME Core, Walks, NEW r \in Replayer, Claim(r)
  PROVE  SameRows
<1> DEFINE e == replays[r].letter
<1>1. CASE Claimable(e)
  <2>1. e \in Event BY Zenon DEF Claim, At, Walks, Run
  <2>2. letters' = [letters EXCEPT ![e] = Leased(letters[e], r)] BY <1>1, <2>1, Zenon DEF Claim, Core, Typed
  <2>3. letters[e].there BY <1>1, Zenon DEF Claimable
  <2>4. Leased(letters[e], r).there = letters[e].there /\ Leased(letters[e], r).index = letters[e].index
    BY Zenon DEF Leased
  <2> QED BY <2>1, <2>2, <2>3, <2>4, OneRow, Zenon
<1>2. CASE ~Claimable(e) BY <1>2, UnchangedRows, Zenon DEF Claim
<1> QED BY <1>1, <1>2, Zenon

\* A read changes nothing, or gives the lease back.
LEMMA ReadLaneRows ==
  ASSUME Core, Walks, NEW r \in Replayer, ReadLane(r)
  PROVE  SameRows
<1> DEFINE e == replays[r].letter
<1>1. e \in Event BY Zenon DEF ReadLane, At, Walks, Run
<1>2. UNCHANGED letters \/ letters' = [letters EXCEPT ![e] = ReleasedBy(letters[e], r)]
  BY <1>1, Zenon DEF ReadLane, Core, Typed
<1> QED BY <1>1, <1>2, UnchangedRows, ReleasedRow, OneRow, Zenon

\* The hand-over writes the next letter's lease.
LEMMA HandOverRows ==
  ASSUME Core, Walks, NEW r \in Replayer, HandOver(r)
  PROVE  SameRows
<1> DEFINE run == replays[r]
           next == IF run.rows # <<>> /\ Claimable(run.rows[1]) THEN run.rows[1] ELSE 0
<1>1. letters' = IF next = 0 THEN letters ELSE [letters EXCEPT ![next] = Leased(@, r)] BY Zenon DEF HandOver
<1>2. CASE next = 0 BY <1>1, <1>2, UnchangedRows, Zenon
<1>3. CASE next # 0
  <2>1. run.rows \in Seq(Event) /\ run.rows # <<>> /\ next = run.rows[1] /\ Claimable(next)
    BY <1>3, Zenon DEF Walks, Run
  <2>2. next \in Event BY <2>1
  <2> HIDE DEF next
  <2>3. letters' = [letters EXCEPT ![next] = Leased(letters[next], r)] BY <1>1, <1>3, <2>2, Zenon DEF Core, Typed
  <2>4. letters[next].there BY <2>1, Zenon DEF Claimable
  <2>5. Leased(letters[next], r).there = letters[next].there /\ Leased(letters[next], r).index = letters[next].index
    BY Zenon DEF Leased
  <2> QED BY <2>2, <2>3, <2>4, <2>5, OneRow, Zenon
<1> QED BY <1>2, <1>3, Zenon

\* A failed replay writes the retry time.
LEMMA ReplayFailsRows ==
  ASSUME Core, Walks, NEW r \in Replayer, ReplayFails(r)
  PROVE  SameRows
<1> DEFINE e == replays[r].letter
           row(retry) == [there |-> TRUE, index |-> ReleasedBy(letters[e], r).index,
                          lease |-> ReleasedBy(letters[e], r).lease,
                          stale |-> ReleasedBy(letters[e], r).stale, retry |-> retry]
<1>1. e \in Event BY Zenon DEF ReplayFails, At, Walks, Run
<1>2. CASE letters[e].there
  <2>1. PICK retry : letters' = [letters EXCEPT ![e] = row(retry)] BY <1>1, <1>2, Zenon DEF ReplayFails, Core, Typed
  <2>2. row(retry).there /\ row(retry).index = letters[e].index BY <1>1, ReleasedRow, Zenon
  <2> HIDE DEF row
  <2> QED BY <1>1, <1>2, <2>1, <2>2, OneRow, Zenon
<1>3. CASE ~letters[e].there BY <1>3, UnchangedRows, Zenon DEF ReplayFails
<1> QED BY <1>2, <1>3, Zenon

\* A replay that cannot commit gives its leases back.
LEMMA CommitReplayFailsRows ==
  ASSUME Core, NEW r \in Replayer, CommitReplayFails(r)
  PROVE  SameRows
  BY ReleasedRow, Zenon DEF CommitReplayFails, SameRows, Core, Parked

\* A replayer that dies leaves its leases to nobody.
LEMMA ReplayerDiesRows ==
  ASSUME Core, NEW r \in Replayer, ReplayerDies(r)
  PROVE  SameRows
<1>1. \A e \in Event : letters[e].lease = r => letters[e].there BY DeadLettersAssumption, Zenon DEF Core, Parked
<1>2. letters' = [e \in Event |-> IF letters[e].lease = r
        THEN [there |-> TRUE, index |-> letters[e].index, lease |-> Lost, stale |-> letters[e].stale, retry |-> letters[e].retry]
        ELSE letters[e]]
  BY Zenon DEF ReplayerDies
<1>3. ASSUME NEW e \in Event
      PROVE  /\ letters'[e].there <=> letters[e].there
             /\ letters'[e].index = letters[e].index
             /\ ~letters[e].there => letters'[e].lease = Free
  <2>1. CASE letters[e].lease = r BY <1>1, <1>2, <2>1, Zenon
  <2>2. CASE letters[e].lease # r BY <1>2, <2>2, Zenon DEF Core, Parked
  <2> QED BY <2>1, <2>2, Zenon
<1> QED BY <1>2, <1>3, Zenon DEF SameRows

\* A lease that expires is only marked.
LEMMA ExpireRows ==
  ASSUME Core, NEW e \in Event, Expire(e)
  PROVE  SameRows
<1> DEFINE row == [there |-> TRUE, index |-> letters[e].index, lease |-> letters[e].lease, stale |-> TRUE,
                   retry |-> letters[e].retry]
<1>1. letters' = [letters EXCEPT ![e] = row] /\ letters[e].there BY Zenon DEF Expire, Core, Typed
<1>2. row.there /\ row.index = letters[e].index BY Zenon
<1> HIDE DEF row
<1> QED BY <1>1, <1>2, OneRow, Zenon

\* A retry time that comes is only marked.
LEMMA RetryRows ==
  ASSUME Core, NEW e \in Event, NEW when, letters[e].there, Retry(e, when)
  PROVE  SameRows
<1> DEFINE row == [there |-> TRUE, index |-> letters[e].index, lease |-> letters[e].lease,
                   stale |-> letters[e].stale, retry |-> when]
<1>1. letters' = [letters EXCEPT ![e] = row] BY Zenon DEF Retry, Core, Typed
<1>2. row.there /\ row.index = letters[e].index BY Zenon
<1> HIDE DEF row
<1> QED BY <1>1, <1>2, OneRow, Zenon

-----------------------------------------------------------------------------
(* The core and the walks together. *)

\* A failing handler's event is parked with the writes of those before it.
LEMMA CoreDeliverFails ==
  ASSUME Core, NEW h \in Handler, DeliverFails(h)
  PROVE  Core'
<1> DEFINE e == batch.next
           writes == {e} \X (1..(h - 1))
<1>0. e \in Event /\ InLane(Seen, Lane[e]) = {} /\ UNCHANGED <<letters, token, replays, done, cleared>>
  BY Zenon DEF DeliverFails, history
<1>1. CASE LaneCount >= MaxSequences BY <1>0, <1>1, CoreRollback, Zenon DEF DeliverFails
<1>2. CASE ~(LaneCount >= MaxSequences)
  <2>1. PICK retry : Park(e, retry, writes) BY <1>2, Zenon DEF DeliverFails
  <2>2. writes \in SUBSET Whole(e) BY DeadLettersAssumption DEF Whole, Handler
  <2>3. cleared = {} => \A o \in Before(e) : Whole(o) \subseteq done \cup batch.done BY <1>0, LaneDone, Zenon
  <2> HIDE DEF writes
  <2> QED BY <1>0, <2>1, <2>2, <2>3, CorePark, Zenon
<1> QED BY <1>1, <1>2, Zenon

\* An event behind a letter of its lane is parked, or the batch rolled back.
LEMMA CoreDeliverBlocked ==
  ASSUME Core, DeliverBlocked
  PROVE  Core'
<1> DEFINE e == batch.next
<1>0. e \in Event /\ UNCHANGED <<letters, token, replays, done, cleared>> BY Zenon DEF DeliverBlocked, history
<1>1. CASE Rollback BY <1>0, <1>1, CoreRollback, Zenon
<1>2. CASE Park(e, "due", {})
  <2>1. {} \in SUBSET Whole(e) BY Zenon
  <2> QED BY <1>0, <1>2, <2>1, CorePark, Zenon
<1> QED BY <1>1, <1>2, Zenon DEF DeliverBlocked

\* Delivery and its commit.
LEMMA FlowOfDelivery ==
  ASSUME Core, Walks, Deliver \/ CommitBatch \/ BatchFails
  PROVE  Core' /\ Walks'
<1>0. token \in Nat BY Zenon DEF Core, Typed
<1>1. CASE DeliverBlocked
  <2>1. Core' BY <1>1, CoreDeliverBlocked, Zenon
  <2> QED BY <1>0, <1>1, <2>1, WalksKept DEF DeliverBlocked, history
<1>2. CASE DeliverHandled
  <2>1. Core' BY <1>2, CoreHandled, Zenon
  <2> QED BY <1>0, <1>2, <2>1, WalksKept DEF DeliverHandled, history
<1>3. ASSUME NEW h \in Handler, DeliverFails(h) PROVE Core' /\ Walks'
  <2>1. Core' BY <1>3, CoreDeliverFails, Zenon
  <2> QED BY <1>0, <1>3, <2>1, WalksKept DEF DeliverFails, history
<1>4. CASE CommitBatch
  <2>1. Core' BY <1>4, CoreCommit, Zenon
  <2>2. UNCHANGED <<replays, cleared>> /\ token <= token' /\ token' \in Nat /\ done \subseteq done'
    BY <1>4 DEF CommitBatch, Commits, Core, Typed
  <2> QED BY <1>0, <2>1, <2>2, WalksKept, Zenon
<1>5. CASE BatchFails
  <2>1. UNCHANGED <<letters, token, replays, done, cleared>> BY <1>5, Zenon DEF BatchFails, history
  <2>2. Core' BY <1>5, <2>1, CoreRollback, Zenon DEF BatchFails
  <2> QED BY <1>0, <2>1, <2>2, WalksKept
<1> QED BY <1>1, <1>2, <1>3, <1>4, <1>5, Zenon DEF Deliver

\* The replays.
LEMMA FlowOfReplay ==
  ASSUME Core, Walks, NEW r \in Replayer, ReplayStep(r)
  PROVE  Core' /\ Walks'
<1>0. ASSUME Ends(r) PROVE DOMAIN replays' = Replayer BY <1>0, Zenon DEF Ends, Core, Typed
<1>1. ASSUME NEW e \in Event, Select(r, e) PROVE Core' /\ Walks'
  <2>1. SameRows /\ DOMAIN replays' = Replayer /\ UNCHANGED <<token, batch, done, cleared>>
    BY <1>1, UnchangedRows, Zenon DEF Select, history, Core, Typed
  <2> QED BY <1>1, <2>1, CoreQuiet, WalksSelect, Zenon
<1>2. CASE Claim(r)
  <2>1. DOMAIN replays' = Replayer /\ UNCHANGED <<token, batch, done, cleared>>
    BY <1>2, <1>0, Zenon DEF Claim, history, Core, Typed
  <2> QED BY <1>2, <2>1, ClaimRows, CoreQuiet, WalksClaim, Zenon
<1>3. CASE ReadLane(r)
  <2>1. DOMAIN replays' = Replayer /\ UNCHANGED <<token, batch, done, cleared>>
    BY <1>3, <1>0, Zenon DEF ReadLane, history, Core, Typed
  <2> QED BY <1>3, <2>1, ReadLaneRows, CoreQuiet, WalksReadLane, Zenon
<1>4. CASE HandOver(r)
  <2>1. DOMAIN replays' = Replayer /\ UNCHANGED <<token, batch, done, cleared>>
    BY <1>4, Zenon DEF HandOver, history, Core, Typed
  <2> QED BY <1>4, <2>1, HandOverRows, CoreQuiet, WalksHandOver, Zenon
<1>5. CASE CommitReplay(r)
  <2> DEFINE e == replays[r].letter
  <2>1. e \in Event /\ e <= token BY <1>5, Zenon DEF CommitReplay, At, Walks, Run
  <2>2. cleared = {} => \A o \in Before(e) : Gone(o) BY <1>5, Zenon DEF CommitReplay, At, Walks, Walk
  <2>3. /\ letters' = [letters EXCEPT ![e] = NoLetter] /\ done' = done \cup Whole(e)
        /\ DOMAIN replays' = Replayer /\ UNCHANGED <<token, batch, cleared>>
    BY <1>5, Zenon DEF CommitReplay, Commits, Whole, Core, Typed
  <2>4. Core' BY <2>1, <2>2, <2>3, CoreEvict, Zenon
  <2> QED BY <1>5, <2>4, WalksCommitReplay, Zenon
<1>6. CASE ReplayFails(r)
  <2>1. Ends(r) /\ UNCHANGED <<token, batch, done, cleared>> BY <1>6, Zenon DEF ReplayFails, history
  <2> QED BY <1>0, <1>6, <2>1, ReplayFailsRows, CoreQuiet, WalksEnd, Zenon
<1>7. CASE CommitReplayFails(r)
  <2>1. Ends(r) /\ UNCHANGED <<token, batch, done, cleared>> BY <1>7, Zenon DEF CommitReplayFails, history
  <2> QED BY <1>0, <1>7, <2>1, CommitReplayFailsRows, CoreQuiet, WalksEnd, Zenon
<1>8. CASE ReplayerDies(r)
  <2>1. Ends(r) /\ UNCHANGED <<token, batch, done, cleared>> BY <1>8, Zenon DEF ReplayerDies, history
  <2> QED BY <1>0, <1>8, <2>1, ReplayerDiesRows, CoreQuiet, WalksEnd, Zenon
<1> QED BY <1>1, <1>2, <1>3, <1>4, <1>5, <1>6, <1>7, <1>8, Zenon DEF ReplayStep

\* Time and operators.
LEMMA FlowOfTime ==
  ASSUME Core, Walks,
         Clear \/ \E e \in Event : LostLeaseExpires(e) \/ LeaseExpires(e) \/ BecomesDue(e) \/ RetryNow(e)
  PROVE  Core' /\ Walks'
<1>0. token \in Nat /\ DOMAIN replays = Replayer BY Zenon DEF Core, Typed
<1>1. CASE Clear
  <2>1. Core' /\ cleared' # {} BY <1>1, CoreClear, Zenon
  <2> QED BY <1>0, <1>1, <2>1, WalksKept DEF Clear
<1>2. ASSUME NEW e \in Event, LostLeaseExpires(e) \/ LeaseExpires(e) \/ BecomesDue(e) \/ RetryNow(e)
      PROVE  Core' /\ Walks'
  <2>1. UNCHANGED <<token, batch, replays, done, cleared>>
    BY <1>2, Zenon DEF LostLeaseExpires, LeaseExpires, BecomesDue, RetryNow, history
  <2>2. SameRows
    <3>1. CASE LostLeaseExpires(e) \/ LeaseExpires(e) BY <3>1, ExpireRows, Zenon DEF LostLeaseExpires, LeaseExpires
    <3>2. CASE BecomesDue(e) \/ RetryNow(e) BY <3>2, RetryRows, Zenon DEF BecomesDue, RetryNow, IsHead
    <3> QED BY <1>2, <3>1, <3>2, Zenon
  <2>3. Core' BY <1>0, <2>1, <2>2, CoreQuiet, Zenon
  <2> QED BY <1>0, <2>1, <2>3, WalksKept
<1> QED BY <1>1, <1>2, Zenon

\* The empty queue and log.
LEMMA FlowAtFirst ==
  ASSUME Init
  PROVE  Core /\ Walks
<1>1. /\ token = 0 /\ batch.next = 1 /\ batch.done = {} /\ done = {}
      /\ DOMAIN letters = Event /\ DOMAIN batch.letters = Event /\ DOMAIN replays = Replayer
      /\ \A e \in Event : /\ ~letters[e].there /\ letters[e].lease = Free
                          /\ ~batch.letters[e].there
      /\ \A r \in Replayer : replays[r] = NoReplay
  BY EmptyBatch DEF Init, NoLetter
<1>2. Typed BY <1>1, DeadLettersAssumption DEF Typed
<1>3. Parked BY <1>1, Zenon DEF Parked
<1>4. Sorted BY <1>1, SeenRows, Zenon DEF Sorted
<1>5. Carried /\ Placed /\ NothingDropped /\ Ordered BY <1>1 DEF Carried, Placed, NothingDropped, Ordered
<1>6. Walks
  <2> SUFFICES ASSUME NEW r \in Replayer PROVE Run(r) /\ Walk(r) BY Zenon DEF Walks
  <2>1. replays[r].at = "idle" /\ replays[r].rows = <<>> /\ replays[r].next = 0 BY <1>1 DEF NoReplay
  <2>2. Run(r) BY <2>1 DEF Run
  <2>3. Walk(r) BY <2>1, Zenon DEF Walk
  <2> QED BY <2>2, <2>3, Zenon
<1> QED BY <1>2, <1>3, <1>4, <1>5, <1>6, Zenon DEF Core

\* Stuttering keeps both.
LEMMA FlowStutters ==
  ASSUME Core, Walks, UNCHANGED vars
  PROVE  Core' /\ Walks'
<1>1. UNCHANGED <<letters, token, batch, replays, done, cleared>> BY Zenon DEF vars, queueVars, history
<1>2. token \in Nat /\ DOMAIN replays = Replayer BY Zenon DEF Core, Typed
<1>3. Core' BY <1>1, <1>2, UnchangedRows, CoreQuiet, Zenon
<1> QED BY <1>1, <1>2, <1>3, WalksKept

\* Rows, writes and walks stay consistent.
THEOREM QueueFlows == Spec => [](Core /\ Walks)
<1>1. Init => Core /\ Walks BY FlowAtFirst, Zenon
<1>2. Core /\ Walks /\ [Next]_vars => (Core /\ Walks)'
  <2> SUFFICES ASSUME Core, Walks, [Next]_vars PROVE Core' /\ Walks' BY Zenon
  <2>1. CASE UNCHANGED vars BY <2>1, FlowStutters, Zenon
  <2>2. CASE Next
    <3>1. CASE Deliver \/ CommitBatch \/ BatchFails BY <3>1, FlowOfDelivery, Zenon
    <3>2. CASE \E r \in Replayer : ReplayStep(r) BY <3>2, FlowOfReplay, Zenon
    <3>3. CASE Clear \/ \E e \in Event : LostLeaseExpires(e) \/ LeaseExpires(e) \/ BecomesDue(e) \/ RetryNow(e)
      BY <3>3, FlowOfTime, Zenon
    <3> QED BY <2>2, <3>1, <3>2, <3>3, Zenon DEF Next
  <2> QED BY <2>1, <2>2, Zenon
<1> QED BY <1>1, <1>2, PTL DEF Spec

\* No batch that fails, replay that is given up or process that dies loses an
\* event: what the token is past is handled, parked, or deleted by an operator.
THEOREM NeverDrops == Spec => []NothingDropped
<1>1. Core => NothingDropped BY Zenon DEF Core
<1> QED BY <1>1, QueueFlows, PTL

\* A lane keeps its order through failures, replays on several nodes, and
\* leases that expire under a replay.
THEOREM LanesInOrder == Spec => []LaneOrder
<1>1. Core => LaneOrder BY CommittedOrder, Zenon
<1> QED BY <1>1, QueueFlows, PTL

-----------------------------------------------------------------------------
(* The leases: what is replayed is leased to one replayer, so long as no *)
(* lease expires under it.                                                *)
Holds(r, e) == letters[e].there /\ letters[e].lease = r /\ ~letters[e].stale

\* What a replayer has selected is the head until it is evicted, and what it
\* has claimed it holds.
Lease(r) ==
  LET run == replays[r]
  IN /\ run.at \in {"selected", "claimed"} => \A o \in Before(run.letter) : ~letters[o].there
     /\ run.at \in {"claimed", "walking", "handled"} => Holds(r, run.letter)
     /\ run.next # 0 => Holds(r, run.next)

\* A letter's last handler has not written.
Open == \A e \in Event :
  /\ letters[e].there => <<e, Handlers>> \notin done
  /\ batch.letters[e].there => <<e, Handlers>> \notin batch.done
  /\ <<e, Handlers>> \notin again

Leases == ~overlong /\ cleared = {} => Open /\ \A r \in Replayer : Lease(r)

\* Committed rows of a lane lie in the order of their events.
LEMMA RowsSorted ==
  ASSUME Core, NEW a \in Event, NEW b \in Event, a < b, Lane[a] = Lane[b], letters[a].there, letters[b].there
  PROVE  letters[a].index < letters[b].index
<1>1. Seen[a] = letters[a] /\ Seen[b] = letters[b] BY SeenRows DEF Core, Parked, Typed, Event
<1> QED BY <1>1, Zenon DEF Core, Sorted

\* The head of a lane is its first letter.
LEMMA HeadFirst ==
  ASSUME Core, NEW e \in Event, IsHead(e), NEW o \in Before(e)
  PROVE  ~letters[o].there
<1> SUFFICES ASSUME letters[o].there PROVE FALSE BY Zenon
<1>1. o \in Event /\ o < e /\ Lane[o] = Lane[e] BY Zenon DEF Before
<1>2. letters[e].there /\ letters[e].index <= letters[o].index BY <1>1, Zenon DEF IsHead, InLane
<1>3. letters[o].index < letters[e].index BY <1>1, <1>2, RowsSorted, Zenon
<1>4. letters[o].index \in Nat /\ letters[e].index \in Nat BY <1>1, <1>2 DEF Core, Parked, Event
<1> QED BY <1>2, <1>3, <1>4

\* Nothing of a letter's writing changes with its lease.
LEMMA OpenQuiet ==
  ASSUME Open, SameRows, UNCHANGED <<batch, done, again>>
  PROVE  Open'
  BY Zenon DEF Open, SameRows

\* A lease is safe from what leaves its letters alone.
LEMMA LeaseKept ==
  ASSUME NEW q \in Replayer, Run(q), Lease(q), replays'[q] = replays[q],
         \A e \in Event : letters'[e].there => letters[e].there \/ e > token,
         \A e \in Event : e <= token /\ Holds(q, e) => Holds(q, e)',
         token \in Nat
  PROVE  Lease(q)'
<1> DEFINE run == replays[q]
<1>1. run.at # "idle" => run.letter \in Event /\ run.letter <= token BY Zenon DEF Run
<1>2. run.next # 0 => run.next \in Event /\ run.next <= token BY DEF Run
<1>3. ASSUME run.at \in {"selected", "claimed"}, NEW o \in Before(run.letter) PROVE ~letters'[o].there
  <2>1. o \in Event /\ o < run.letter /\ ~letters[o].there BY <1>3, Zenon DEF Lease, Before
  <2> QED BY <1>1, <1>3, <2>1 DEF Event
<1>4. run.at \in {"claimed", "walking", "handled"} => letters'[run.letter].there /\ letters'[run.letter].lease = q /\ ~letters'[run.letter].stale
  BY <1>1, Zenon DEF Lease, Holds
<1>5. run.next # 0 => letters'[run.next].there /\ letters'[run.next].lease = q /\ ~letters'[run.next].stale
  BY <1>2, Zenon DEF Lease, Holds
<1> QED BY <1>3, <1>4, <1>5, Zenon DEF Lease, Holds

\* The others keep their leases through a step of r's.
LEMMA LeasesStep ==
  ASSUME Core, Walks, NEW r \in Replayer, \A q \in Replayer : Lease(q), SameRows,
         NEW run, replays' = [replays EXCEPT ![r] = run],
         \A q \in Replayer \ {r} : \A e \in Event : Holds(q, e) => Holds(q, e)',
         Lease(r)'
  PROVE  \A q \in Replayer : Lease(q)'
<1> SUFFICES ASSUME NEW q \in Replayer, q # r PROVE Lease(q)' BY Zenon
<1>1. replays'[q] = replays[q] /\ token \in Nat BY Zenon DEF Core, Typed
<1>2. Run(q) /\ Lease(q) BY Zenon DEF Walks
<1>3. \A e \in Event : letters'[e].there => letters[e].there \/ e > token BY Zenon DEF SameRows
<1>4. \A e \in Event : e <= token /\ Holds(q, e) => Holds(q, e)' BY Zenon
<1> QED BY <1>1, <1>2, <1>3, <1>4, LeaseKept, Zenon

\* A run that ended holds nothing.
LEMMA LeaseEnded ==
  ASSUME Core, NEW r \in Replayer, Ends(r)
  PROVE  Lease(r)' /\ replays' = [replays EXCEPT ![r] = NoReplay]
<1>1. replays'[r] = NoReplay BY Zenon DEF Ends, Core, Typed
<1>2. replays'[r].at = "idle" /\ replays'[r].next = 0 BY <1>1 DEF NoReplay
<1> QED BY <1>2, Zenon DEF Lease, Ends

\* What is leased and not stale cannot be claimed.
LEMMA HeldNotClaimable ==
  ASSUME NEW q \in Replayer, NEW e \in Event, Holds(q, e)
  PROVE  ~Claimable(e)
  BY DeadLettersAssumption, Zenon DEF Holds, Claimable

\* A selection holds nothing yet.
LEMMA LeasesSelect ==
  ASSUME Core, Walks, NEW r \in Replayer, \A q \in Replayer : Lease(q), NEW e \in Event, Select(r, e)
  PROVE  \A q \in Replayer : Lease(q)'
<1>1. /\ replays' = [replays EXCEPT ![r] = [at |-> "selected", letter |-> e, rows |-> <<>>, next |-> 0]]
      /\ UNCHANGED letters /\ IsHead(e)
  BY Zenon DEF Select
<1>2. replays'[r].at = "selected" /\ replays'[r].letter = e /\ replays'[r].next = 0 BY <1>1, Zenon DEF Core, Typed
<1>3. Lease(r)' BY <1>1, <1>2, HeadFirst, Zenon DEF Lease
<1>4. \A q \in Replayer \ {r} : \A o \in Event : Holds(q, o) => Holds(q, o)' BY <1>1, Zenon DEF Holds
<1> QED BY <1>1, <1>3, <1>4, UnchangedRows, LeasesStep, Zenon

\* A claim holds the lane's head.
LEMMA LeasesClaim ==
  ASSUME Core, Walks, NEW r \in Replayer, \A q \in Replayer : Lease(q), Claim(r)
  PROVE  \A q \in Replayer : Lease(q)'
<1> DEFINE e == replays[r].letter
<1>0. SameRows BY ClaimRows, Zenon
<1>1. CASE Claimable(e)
  <2>1. e \in Event /\ replays[r].at = "selected" BY Zenon DEF Claim, At, Walks, Run
  <2>2. /\ letters' = [letters EXCEPT ![e] = Leased(letters[e], r)]
        /\ replays' = [replays EXCEPT ![r] = [at |-> "claimed", letter |-> e, rows |-> <<>>, next |-> 0]]
    BY <1>1, <2>1, Zenon DEF Claim, Core, Typed
  <2>3. replays'[r].at = "claimed" /\ replays'[r].letter = e /\ replays'[r].next = 0 BY <2>2, Zenon DEF Core, Typed
  <2>4. letters'[e].there /\ letters'[e].lease = r /\ ~letters'[e].stale
    BY <1>1, <2>1, <2>2, Zenon DEF Leased, Claimable, Core, Typed
  <2>5. \A o \in Before(e) : ~letters'[o].there BY <1>0, <2>1, Zenon DEF Lease, SameRows, Before
  <2>6. Lease(r)' BY <2>3, <2>4, <2>5, Zenon DEF Lease, Holds
  <2>7. ASSUME NEW q \in Replayer \ {r}, NEW o \in Event, Holds(q, o) PROVE Holds(q, o)'
    <3>1. o # e BY <1>1, <2>7, HeldNotClaimable, Zenon
    <3> QED BY <2>2, <2>7, <3>1, Zenon DEF Holds, Core, Typed
  <2> HIDE DEF e
  <2> QED BY <1>0, <2>2, <2>6, <2>7, LeasesStep, Zenon
<1>2. CASE ~Claimable(e)
  <2>1. Ends(r) /\ UNCHANGED letters BY <1>2, Zenon DEF Claim
  <2>2. \A q \in Replayer \ {r} : \A o \in Event : Holds(q, o) => Holds(q, o)' BY <2>1, Zenon DEF Holds
  <2> QED BY <1>0, <2>1, <2>2, LeaseEnded, LeasesStep, Zenon
<1> QED BY <1>1, <1>2, Zenon

\* Releases by r leave the leases of the others.
LEMMA ReleaseOwn ==
  ASSUME NEW r \in Replayer, NEW q \in Replayer \ {r}, NEW e \in Event, Holds(q, e)
  PROVE  ReleasedBy(letters[e], r) = letters[e]
  BY Zenon DEF ReleasedBy, Holds

\* What r has claimed is still the lane's first letter when it reads the lane.
LEMMA LeasesReadLane ==
  ASSUME Core, Walks, NEW r \in Replayer, \A q \in Replayer : Lease(q), ReadLane(r)
  PROVE  \A q \in Replayer : Lease(q)'
<1> DEFINE e == replays[r].letter
           lane == InLane(letters, Lane[e])
<1>0. SameRows BY ReadLaneRows, Zenon
<1>1. e \in Event /\ replays[r].at = "claimed" BY Zenon DEF ReadLane, At, Walks, Run
<1>2. PICK n \in 0..LastEvent : \E rows \in Bijection(1..n, lane) :
        /\ \A i, j \in DOMAIN rows : i < j => letters[rows[i]].index < letters[rows[j]].index
        /\ IF lane # {} /\ letters[rows[1]].retry = "due"
             THEN /\ replays' = [replays EXCEPT ![r] =
                       [at |-> "walking", letter |-> rows[1], rows |-> Tail(rows), next |-> 0]]
                  /\ UNCHANGED letters
             ELSE Ends(r) /\ letters' = [letters EXCEPT ![e] = ReleasedBy(letters[e], r)]
  BY <1>1, Zenon DEF ReadLane, Core, Typed
<1>21. PICK rows \in Bijection(1..n, lane) :
        /\ \A i, j \in DOMAIN rows : i < j => letters[rows[i]].index < letters[rows[j]].index
        /\ IF lane # {} /\ letters[rows[1]].retry = "due"
             THEN /\ replays' = [replays EXCEPT ![r] =
                       [at |-> "walking", letter |-> rows[1], rows |-> Tail(rows), next |-> 0]]
                  /\ UNCHANGED letters
             ELSE Ends(r) /\ letters' = [letters EXCEPT ![e] = ReleasedBy(letters[e], r)]
  BY <1>2, Zenon
<1>3. CASE lane # {} /\ letters[rows[1]].retry = "due"
  <2>0. \A i, j \in DOMAIN rows : i < j => letters[rows[i]].index < letters[rows[j]].index BY <1>21, Zenon
  <2>1. /\ rows \in Seq(Event)
        /\ \A i \in 1..Len(rows) : letters[rows[i]].there /\ Lane[rows[i]] = Lane[e]
        /\ \A i, j \in 1..Len(rows) : i < j => rows[i] < rows[j]
        /\ \A x \in lane : \E i \in 1..Len(rows) : rows[i] = x
    <3> HIDE DEF e
    <3> QED BY <2>0, LaneRows
  <2>2. Holds(r, e) /\ \A o \in Before(e) : ~letters[o].there BY <1>1, Zenon DEF Lease
  <2>3. PICK i \in 1..Len(rows) : rows[i] = e BY <1>1, <2>1, <2>2, Zenon DEF InLane, Holds
  <2>4. i = 1
    <3>1. SUFFICES ASSUME i # 1 PROVE FALSE BY Zenon
    <3>2. 1 \in 1..Len(rows) /\ 1 < i BY <2>1, <2>3, <3>1
    <3>3. rows[1] \in Before(e) BY <2>1, <2>3, <3>2 DEF Before
    <3> QED BY <2>1, <2>2, <3>2, <3>3, Zenon
  <2>5. /\ replays' = [replays EXCEPT ![r] = [at |-> "walking", letter |-> e, rows |-> Tail(rows), next |-> 0]]
        /\ UNCHANGED letters
    BY <1>21, <1>3, <2>3, <2>4, Zenon
  <2>6. replays'[r].at = "walking" /\ replays'[r].letter = e /\ replays'[r].next = 0 BY <2>5, Zenon DEF Core, Typed
  <2>7. Lease(r)' BY <2>2, <2>5, <2>6, Zenon DEF Lease, Holds
  <2>8. \A q \in Replayer \ {r} : \A o \in Event : Holds(q, o) => Holds(q, o)' BY <2>5, Zenon DEF Holds
  <2> HIDE DEF e
  <2> QED BY <1>0, <2>5, <2>7, <2>8, LeasesStep, Zenon
<1>4. CASE ~(lane # {} /\ letters[rows[1]].retry = "due")
  <2>1. Ends(r) /\ letters' = [letters EXCEPT ![e] = ReleasedBy(letters[e], r)] BY <1>21, <1>4, Zenon
  <2>2. ASSUME NEW q \in Replayer \ {r}, NEW o \in Event, Holds(q, o) PROVE Holds(q, o)'
    BY <1>1, <2>1, <2>2, ReleaseOwn DEF Holds, Core, Typed
  <2> QED BY <1>0, <2>1, <2>2, LeaseEnded, LeasesStep, Zenon
<1> QED BY <1>3, <1>4, Zenon

\* The hand-over holds the next letter besides.
LEMMA LeasesHandOver ==
  ASSUME Core, Walks, NEW r \in Replayer, \A q \in Replayer : Lease(q), HandOver(r)
  PROVE  \A q \in Replayer : Lease(q)'
<1> DEFINE run == replays[r]
           next == IF run.rows # <<>> /\ Claimable(run.rows[1]) THEN run.rows[1] ELSE 0
           e == run.letter
<1>0. SameRows BY HandOverRows, Zenon
<1>1. /\ run.at = "walking"
      /\ letters' = IF next = 0 THEN letters ELSE [letters EXCEPT ![next] = Leased(@, r)]
      /\ replays' = [replays EXCEPT ![r] = [at |-> "handled", letter |-> e, rows |-> run.rows, next |-> next]]
  BY Zenon DEF HandOver, At
<1>2. replays'[r].at = "handled" /\ replays'[r].letter = e /\ replays'[r].next = next BY <1>1, Zenon DEF Core, Typed
<1>3. e \in Event /\ Holds(r, e) BY <1>1, Zenon DEF Walks, Run, Lease
<1>4. next # 0 => next \in Event /\ next # e /\ Claimable(next)
  <2> SUFFICES ASSUME next # 0 PROVE next \in Event /\ next # e /\ Claimable(next) BY Zenon
  <2>1. run.rows \in Seq(Event) /\ run.rows # <<>> /\ next = run.rows[1] /\ Claimable(next) BY Zenon DEF Walks, Run
  <2>2. 1 \in 1..Len(run.rows) BY <2>1
  <2> QED BY <2>1, <2>2 DEF Walks, Run
<1> HIDE DEF next, e
<1>5. CASE next = 0
  <2>1. UNCHANGED letters BY <1>1, <1>5, Zenon
  <2>2. Lease(r)' BY <1>2, <1>3, <1>5, <2>1, Zenon DEF Lease, Holds
  <2>3. \A q \in Replayer \ {r} : \A o \in Event : Holds(q, o) => Holds(q, o)' BY <2>1, Zenon DEF Holds
  <2> QED BY <1>0, <1>1, <2>2, <2>3, LeasesStep, Zenon
<1>6. CASE next # 0
  <2>1. letters' = [letters EXCEPT ![next] = Leased(letters[next], r)] BY <1>1, <1>4, <1>6, Zenon DEF Core, Typed
  <2>2. letters'[next].there /\ letters'[next].lease = r /\ ~letters'[next].stale
    BY <1>4, <1>6, <2>1, Zenon DEF Leased, Claimable, Core, Typed
  <2>3. letters'[e] = letters[e] BY <1>3, <1>4, <1>6, <2>1, Zenon DEF Core, Typed
  <2>4. Lease(r)' BY <1>2, <1>3, <2>2, <2>3, Zenon DEF Lease, Holds
  <2>5. ASSUME NEW q \in Replayer \ {r}, NEW o \in Event, Holds(q, o) PROVE Holds(q, o)'
    <3>1. o # next BY <1>4, <1>6, <2>5, HeldNotClaimable, Zenon
    <3> QED BY <2>1, <2>5, <3>1, Zenon DEF Holds, Core, Typed
  <2> QED BY <1>0, <1>1, <2>4, <2>5, LeasesStep, Zenon
<1> QED BY <1>5, <1>6, Zenon

\* A run that fails, or dies, touches no lease but its own.
LEMMA LeasesFail ==
  ASSUME Core, Walks, NEW r \in Replayer, \A q \in Replayer : Lease(q),
         ReplayFails(r) \/ CommitReplayFails(r) \/ ReplayerDies(r)
  PROVE  \A q \in Replayer : Lease(q)'
<1>0. SameRows BY ReplayFailsRows, CommitReplayFailsRows, ReplayerDiesRows, Zenon
<1>1. Ends(r) BY Zenon DEF ReplayFails, CommitReplayFails, ReplayerDies
<1>2. ASSUME NEW q \in Replayer \ {r}, NEW o \in Event, Holds(q, o) PROVE Holds(q, o)'
  <2>0. ReleasedBy(letters[o], r) = letters[o] BY <1>2, ReleaseOwn, Zenon
  <2>1. CASE ReplayFails(r)
    <3> DEFINE e == replays[r].letter
    <3>1. e \in Event BY <2>1, Zenon DEF ReplayFails, At, Walks, Run
    <3>2. CASE o = e
      <4>1. letters'[o].lease = letters[o].lease /\ letters'[o].stale = letters[o].stale /\ letters'[o].there
        BY <1>2, <2>0, <2>1, <3>1, <3>2 DEF ReplayFails, Holds, Core, Typed
      <4> QED BY <1>2, <4>1, Zenon DEF Holds
    <3>3. CASE o # e
      <4>1. letters'[o] = letters[o] BY <2>1, <3>1, <3>3, Zenon DEF ReplayFails, Core, Typed
      <4> QED BY <1>2, <4>1, Zenon DEF Holds
    <3> QED BY <3>2, <3>3, Zenon
  <2>2. CASE CommitReplayFails(r)
    <3>1. letters'[o] = letters[o] BY <2>0, <2>2, Zenon DEF CommitReplayFails
    <3> QED BY <1>2, <3>1, Zenon DEF Holds
  <2>3. CASE ReplayerDies(r)
    <3>1. letters'[o] = letters[o] BY <1>2, <2>3, Zenon DEF ReplayerDies, Holds
    <3> QED BY <1>2, <3>1, Zenon DEF Holds
  <2> QED BY <2>1, <2>2, <2>3, Zenon
<1> QED BY <1>0, <1>1, <1>2, LeaseEnded, LeasesStep, Zenon

\* The letter evicted was held by r alone, and had not been written.
LEMMA LeasesCommitReplay ==
  ASSUME Core, Walks, NEW r \in Replayer, Open, \A q \in Replayer : Lease(q), CommitReplay(r)
  PROVE  Open' /\ \A q \in Replayer : Lease(q)'
<1> DEFINE run == replays[r]
           e == run.letter
<1>1. /\ run.at = "handled"
      /\ letters' = [letters EXCEPT ![e] = NoLetter]
      /\ done' = done \cup Whole(e)
      /\ again' = again \cup (Whole(e) \cap done)
      /\ replays' = [replays EXCEPT ![r] = IF run.next = 0 THEN NoReplay
           ELSE [at |-> "walking", letter |-> run.next, rows |-> Tail(run.rows), next |-> 0]]
      /\ UNCHANGED <<token, batch>>
  BY Zenon DEF CommitReplay, At, Commits, Whole
<1>2. e \in Event /\ e <= token /\ Holds(r, e) BY <1>1, Zenon DEF Walks, Run, Lease
<1>3. run.next # 0 => run.next \in Event /\ run.next # e /\ Holds(r, run.next)
  <2> SUFFICES ASSUME run.next # 0 PROVE run.next \in Event /\ run.next # e /\ Holds(r, run.next) BY Zenon
  <2>1. run.rows \in Seq(Event) /\ run.rows # <<>> /\ run.next = run.rows[1] BY Zenon DEF Walks, Run
  <2>2. 1 \in 1..Len(run.rows) BY <2>1
  <2>3. run.next # e BY <2>1, <2>2, Zenon DEF Walks, Run
  <2> QED BY <2>1, <2>2, <2>3 DEF Lease
<1>4. ~letters'[e].there /\ \A o \in Event \ {e} : letters'[o] = letters[o]
  BY <1>1, <1>2, Zenon DEF Core, Typed, NoLetter
<1>5. <<e, Handlers>> \notin done BY <1>2, Zenon DEF Open, Holds
<1>6. Open'
  <2> SUFFICES ASSUME NEW o \in Event
               PROVE  /\ letters'[o].there => <<o, Handlers>> \notin done'
                      /\ batch.letters[o].there => <<o, Handlers>> \notin batch.done
                      /\ <<o, Handlers>> \notin again'
    BY <1>1, Zenon DEF Open
  <2>1. CASE o = e BY <1>1, <1>4, <1>5, <2>1, Zenon DEF Open, Whole
  <2>2. CASE o # e BY <1>1, <1>4, <2>2, Zenon DEF Open, Whole
  <2> QED BY <2>1, <2>2, Zenon
<1>7. Lease(r)'
  <2>1. CASE run.next = 0
    <3>1. replays'[r].at = "idle" /\ replays'[r].next = 0 BY <1>1, <2>1, Zenon DEF Core, Typed, NoReplay
    <3> QED BY <3>1, Zenon DEF Lease
  <2>2. CASE run.next # 0
    <3>1. replays'[r].at = "walking" /\ replays'[r].letter = run.next /\ replays'[r].next = 0
      BY <1>1, <2>2, Zenon DEF Core, Typed
    <3>2. letters'[run.next] = letters[run.next] BY <1>3, <1>4, <2>2, Zenon
    <3> QED BY <1>3, <2>2, <3>1, <3>2, Zenon DEF Lease, Holds
  <2> QED BY <2>1, <2>2, Zenon
<1>8. ASSUME NEW q \in Replayer, q # r PROVE Lease(q)'
  <2>1. replays'[q] = replays[q] /\ token \in Nat BY <1>1, <1>8, Zenon DEF Core, Typed
  <2>2. Run(q) /\ Lease(q) BY Zenon DEF Walks
  <2>3. \A o \in Event : letters'[o].there => letters[o].there \/ o > token BY <1>4, Zenon
  <2>4. \A o \in Event : Holds(q, o) => o # e BY <1>2, <1>8, Zenon DEF Holds
  <2>5. \A o \in Event : o <= token /\ Holds(q, o) => Holds(q, o)' BY <1>4, <2>4, Zenon DEF Holds
  <2> QED BY <2>1, <2>2, <2>3, <2>5, LeaseKept, Zenon
<1> QED BY <1>6, <1>7, <1>8, Zenon

\* Replays, so long as no lease expires under one and no letter is deleted.
LEMMA LeasesOfReplay ==
  ASSUME Core, Walks, NEW r \in Replayer, Open, \A q \in Replayer : Lease(q), ReplayStep(r)
  PROVE  Open' /\ \A q \in Replayer : Lease(q)'
<1>1. ASSUME NEW e \in Event, Select(r, e) PROVE Open' /\ \A q \in Replayer : Lease(q)'
  BY <1>1, LeasesSelect, UnchangedRows, OpenQuiet, Zenon DEF Select, history
<1>2. CASE Claim(r) BY <1>2, LeasesClaim, ClaimRows, OpenQuiet, Zenon DEF Claim, history
<1>3. CASE ReadLane(r)
  <2>1. UNCHANGED <<batch, done, again>> BY <1>3, Zenon DEF ReadLane, history
  <2> QED BY <1>3, <2>1, LeasesReadLane, ReadLaneRows, OpenQuiet, Zenon
<1>4. CASE HandOver(r)
  <2>1. UNCHANGED <<batch, done, again>> BY <1>4, Zenon DEF HandOver, history
  <2> QED BY <1>4, <2>1, LeasesHandOver, HandOverRows, OpenQuiet, Zenon
<1>5. CASE CommitReplay(r) BY <1>5, LeasesCommitReplay, Zenon
<1>6. CASE ReplayFails(r) \/ CommitReplayFails(r) \/ ReplayerDies(r)
  <2>1. UNCHANGED <<batch, done, again>> BY <1>6, Zenon DEF ReplayFails, CommitReplayFails, ReplayerDies, history
  <2>2. SameRows BY <1>6, ReplayFailsRows, CommitReplayFailsRows, ReplayerDiesRows, Zenon
  <2> QED BY <1>6, <2>1, <2>2, LeasesFail, OpenQuiet, Zenon
<1> QED BY <1>1, <1>2, <1>3, <1>4, <1>5, <1>6, Zenon DEF ReplayStep

\* Abandoned leases expire, and delays pass.
LEMMA LeasesOfTime ==
  ASSUME Core, Walks, Open, \A q \in Replayer : Lease(q), NEW e \in Event,
         LostLeaseExpires(e) \/ BecomesDue(e) \/ RetryNow(e)
  PROVE  Open' /\ \A q \in Replayer : Lease(q)'
<1>1. UNCHANGED <<token, batch, replays, done, again>> BY Zenon DEF LostLeaseExpires, BecomesDue, RetryNow, history
<1>2. SameRows
  BY ExpireRows, RetryRows, Zenon DEF LostLeaseExpires, BecomesDue, RetryNow, IsHead
<1>3. Open' BY <1>1, <1>2, OpenQuiet, Zenon
<1>4. ASSUME NEW q \in Replayer, NEW o \in Event, Holds(q, o) PROVE Holds(q, o)'
  <2>1. CASE o # e
    <3>1. letters'[o] = letters[o]
      BY <2>1, Zenon DEF LostLeaseExpires, Expire, BecomesDue, RetryNow, Retry, Core, Typed
    <3> QED BY <1>4, <3>1, Zenon DEF Holds
  <2>2. CASE o = e
    <3>1. ~LostLeaseExpires(e) BY <1>4, <2>2, DeadLettersAssumption, Zenon DEF LostLeaseExpires, Holds
    <3>2. letters'[e].lease = letters[e].lease /\ letters'[e].stale = letters[e].stale /\ letters'[e].there
      BY <3>1 DEF BecomesDue, RetryNow, Retry, Core, Typed
    <3> QED BY <1>4, <2>2, <3>2, Zenon DEF Holds
  <2> QED BY <2>1, <2>2, Zenon
<1>5. ASSUME NEW q \in Replayer PROVE Lease(q)'
  <2>1. replays'[q] = replays[q] /\ token \in Nat /\ Run(q) /\ Lease(q) BY <1>1, Zenon DEF Core, Typed, Walks
  <2>2. \A o \in Event : letters'[o].there => letters[o].there \/ o > token BY <1>2, Zenon DEF SameRows
  <2> QED BY <1>4, <2>1, <2>2, LeaseKept, Zenon
<1> QED BY <1>3, <1>5, Zenon

\* The open batch writes the last handler's part of no letter.
LEMMA OpenPark ==
  ASSUME Core, Open, NEW e \in Event, e = batch.next, NEW retry, NEW writes, Park(e, retry, writes),
         writes \subseteq Whole(e), <<e, Handlers>> \notin writes, UNCHANGED <<letters, done, again>>
  PROVE  Open'
<1>0. /\ batch'.done = batch.done \cup writes
      /\ \A o \in Event \ {e} : batch'.letters[o] = batch.letters[o]
  BY ParkedBehind, Zenon
<1>1. <<e, Handlers>> \notin batch.done BY DEF Core, Placed, Typed
<1>2. ASSUME NEW o \in Event, o # e, batch'.letters[o].there PROVE <<o, Handlers>> \notin batch'.done
  <2>1. <<o, Handlers>> \notin writes BY <1>2, Zenon DEF Whole
  <2> QED BY <1>0, <1>2, <2>1, Zenon DEF Open
<1> QED BY <1>0, <1>1, <1>2, Zenon DEF Open

\* A rollback takes back what the batch handled.
LEMMA OpenRollback ==
  ASSUME Core, Open, Rollback, UNCHANGED <<letters, done, again>>
  PROVE  Open'
<1>1. batch'.done = {} BY EmptyBatch, Zenon DEF Rollback, Core, Typed
<1> QED BY <1>1, Zenon DEF Open

\* A delivery handles what nobody has handled.
LEMMA OpenDelivery ==
  ASSUME Core, Open, Deliver \/ BatchFails
  PROVE  Open'
<1> DEFINE e == batch.next
<1>1. CASE DeliverBlocked
  <2>1. e \in Event /\ UNCHANGED <<letters, done, again>> BY <1>1, Zenon DEF DeliverBlocked, history
  <2>2. CASE Rollback BY <2>1, <2>2, OpenRollback, Zenon
  <2>3. CASE Park(e, "due", {})
    <3>1. PICK retry, writes : Park(e, retry, writes) /\ writes = {} BY <2>3, Zenon
    <3>2. writes \subseteq Whole(e) /\ <<e, Handlers>> \notin writes BY <3>1, Zenon
    <3> QED BY <2>1, <3>1, <3>2, OpenPark, Zenon
  <2> QED BY <1>1, <2>2, <2>3, Zenon DEF DeliverBlocked
<1>2. CASE DeliverHandled
  <2>1. /\ e \in Event /\ batch'.letters = batch.letters /\ batch'.done = batch.done \cup Whole(e)
        /\ UNCHANGED <<letters, done, again>>
    BY <1>2, Zenon DEF DeliverHandled, history, Whole
  <2>2. ~batch.letters[e].there BY <2>1 DEF Core, Parked, Typed
  <2>3. \A o \in Event : batch.letters[o].there => <<o, Handlers>> \notin Whole(e) BY <2>2, Zenon DEF Whole
  <2> QED BY <2>1, <2>3, Zenon DEF Open
<1>3. ASSUME NEW h \in Handler, DeliverFails(h) PROVE Open'
  <2> DEFINE writes == {e} \X (1..(h - 1))
  <2>1. e \in Event /\ UNCHANGED <<letters, done, again>> BY <1>3, Zenon DEF DeliverFails, history
  <2>2. CASE Rollback BY <2>1, <2>2, OpenRollback, Zenon
  <2>3. CASE \E retry \in {"later", "hold"} : Park(e, retry, writes)
    <3>1. writes \subseteq Whole(e) /\ <<e, Handlers>> \notin writes BY DeadLettersAssumption DEF Whole, Handler
    <3>2. PICK retry : Park(e, retry, writes) BY <2>3, Zenon
    <3> HIDE DEF writes
    <3> QED BY <2>1, <3>1, <3>2, OpenPark, Zenon
  <2> QED BY <1>3, <2>2, <2>3, Zenon DEF DeliverFails
<1>4. CASE BatchFails BY <1>4, OpenRollback, Zenon DEF BatchFails, history
<1> QED BY <1>1, <1>2, <1>3, <1>4, Zenon DEF Deliver

\* The batch's letters are all past the old token, where no lease is.
LEMMA LeasesOfDelivery ==
  ASSUME Core, Walks, Open, \A q \in Replayer : Lease(q), Deliver \/ CommitBatch \/ BatchFails
  PROVE  Open' /\ \A q \in Replayer : Lease(q)'
<1>0. token \in Nat BY Zenon DEF Core, Typed
<1>1. CASE Deliver \/ BatchFails
  <2>1. UNCHANGED <<letters, replays>>
    BY <1>1, Zenon DEF Deliver, DeliverBlocked, DeliverHandled, DeliverFails, BatchFails
  <2> QED BY <1>1, <2>1, OpenDelivery, Zenon DEF Lease, Holds
<1>2. CASE CommitBatch
  <2>1. /\ letters' = [e \in Event |-> IF batch.letters[e].there THEN batch.letters[e] ELSE letters[e]]
        /\ done' = done \cup batch.done /\ again' = again \cup (batch.done \cap done)
        /\ batch' = NoBatch(token') /\ token' \in Nat
        /\ UNCHANGED replays
    BY <1>2 DEF CommitBatch, Commits, Core, Typed
  <2>2. batch'.done = {} BY <2>1, EmptyBatch, Zenon
  <2>3. batch.done \cap done = {} BY DEF Core, Placed, Typed
  <2>4. ASSUME NEW e \in Event, letters'[e].there PROVE <<e, Handlers>> \notin done'
    <3>1. CASE batch.letters[e].there
      <4>1. <<e, Handlers>> \notin done BY <3>1 DEF Core, Parked, Placed, Typed, Event
      <4> QED BY <2>1, <3>1, <4>1, Zenon DEF Open
    <3>2. CASE ~batch.letters[e].there
      <4>1. letters[e].there BY <2>1, <2>4, <3>2, Zenon
      <4>2. <<e, Handlers>> \notin batch.done BY <4>1 DEF Core, Parked, Placed, Typed, Event
      <4> QED BY <2>1, <4>1, <4>2, Zenon DEF Open
    <3> QED BY <3>1, <3>2, Zenon
  <2>5. Open' BY <2>1, <2>2, <2>3, <2>4, Zenon DEF Open
  <2>6. \A e \in Event : e <= token => letters'[e] = letters[e] BY <2>1 DEF Core, Parked, Typed, Event
  <2>7. ASSUME NEW q \in Replayer PROVE Lease(q)'
    <3>1. replays'[q] = replays[q] /\ Run(q) /\ Lease(q) BY <2>1, Zenon DEF Walks
    <3>2. \A e \in Event : letters'[e].there => letters[e].there \/ e > token BY <1>0, <2>6 DEF Event
    <3>3. \A e \in Event : e <= token /\ Holds(q, e) => Holds(q, e)' BY <2>6, Zenon DEF Holds
    <3> QED BY <1>0, <3>1, <3>2, <3>3, LeaseKept, Zenon
  <2> QED BY <2>5, <2>7, Zenon
<1> QED BY <1>1, <1>2, Zenon

\* At first there is nothing to hold.
LEMMA LeasesAtFirst ==
  ASSUME Init
  PROVE  Leases
<1>1. /\ done = {} /\ again = {} /\ batch.done = {}
      /\ \A r \in Replayer : replays[r].at = "idle" /\ replays[r].next = 0
  BY EmptyBatch, Zenon DEF Init, NoReplay
<1> QED BY <1>1, Zenon DEF Leases, Open, Lease

\* Every step keeps the leases.
LEMMA LeasesNext ==
  ASSUME Core, Walks, Leases, [Next]_vars
  PROVE  Leases'
<1>1. CASE Deliver \/ CommitBatch \/ BatchFails
  <2>1. UNCHANGED <<overlong, cleared>>
    BY <1>1, Zenon DEF Deliver, DeliverBlocked, DeliverHandled, DeliverFails, BatchFails, CommitBatch, history
  <2> QED BY <1>1, <2>1, LeasesOfDelivery, Zenon DEF Leases
<1>2. ASSUME NEW r \in Replayer, ReplayStep(r) PROVE Leases'
  <2>1. UNCHANGED <<overlong, cleared>>
    BY <1>2, Zenon DEF ReplayStep, Select, Claim, ReadLane, HandOver, CommitReplay, ReplayFails, CommitReplayFails,
                ReplayerDies, history
  <2> QED BY <1>2, <2>1, LeasesOfReplay, Zenon DEF Leases
<1>3. ASSUME NEW e \in Event, LostLeaseExpires(e) \/ BecomesDue(e) \/ RetryNow(e) PROVE Leases'
  <2>1. UNCHANGED <<overlong, cleared>> BY <1>3, Zenon DEF LostLeaseExpires, BecomesDue, RetryNow, history
  <2> QED BY <1>3, <2>1, LeasesOfTime, Zenon DEF Leases
<1>4. ASSUME NEW e \in Event, LeaseExpires(e) PROVE Leases' BY <1>4, Zenon DEF LeaseExpires, Leases
<1>5. CASE Clear BY <1>5, CoreClear, Zenon DEF Leases
<1>6. CASE UNCHANGED vars BY <1>6, Zenon DEF vars, queueVars, history, Leases, Open, Lease, Holds
<1> QED BY <1>1, <1>2, <1>3, <1>4, <1>5, <1>6, Zenon DEF Next

\* The last handler writes twice for an event only when a replay outlasts its
\* lease or an operator deletes a letter, for any number of replayers.
THEOREM TwiceOnlyOverlong == Spec => []OnceUnlessOverlong
<1>1. Init => Leases BY LeasesAtFirst, Zenon
<1>2. Core /\ Walks /\ Leases /\ [Next]_vars => Leases' BY LeasesNext, Zenon
<1>3. Leases => OnceUnlessOverlong BY Zenon DEF Leases, Open, OnceUnlessOverlong
<1> QED BY <1>1, <1>2, <1>3, QueueFlows, PTL DEF Spec

-----------------------------------------------------------------------------
(* The limits, in the view of the open batch. *)
LanesOf(table) == {Lane[e] : e \in {o \in Event : table[o].there}}
Within(table) ==
  /\ \A e \in Event : Cardinality(InLane(table, Lane[e])) <= MaxSequenceSize
  /\ Cardinality(LanesOf(table)) <= MaxSequences

\* The log's events are finite in number.
LEMMA FiniteEvents == IsFiniteSet(Event)
<1>1. Event \in SUBSET Nat /\ LastEvent \in Nat /\ \A e \in Event : e <= LastEvent
  BY DeadLettersAssumption DEF Event
<1> QED BY <1>1, FS_BoundedSetOfNaturals, Zenon

\* Lanes and their letters are finite in number.
LEMMA FiniteTables ==
  ASSUME NEW table, NEW l
  PROVE  /\ IsFiniteSet(InLane(table, l)) /\ Cardinality(InLane(table, l)) \in Nat
         /\ IsFiniteSet(LanesOf(table)) /\ Cardinality(LanesOf(table)) \in Nat
<1> DEFINE there == {o \in Event : table[o].there}
<1>1. InLane(table, l) \subseteq Event /\ there \subseteq Event BY Zenon DEF InLane
<1>2. IsFiniteSet(InLane(table, l)) /\ IsFiniteSet(there) BY <1>1, FiniteEvents, FS_Subset, Zenon
<1>3. PICK f \in [there -> LanesOf(table)] : \A l1 \in LanesOf(table) : \E e \in there : f[e] = l1
  <2>1. /\ [e \in there |-> Lane[e]] \in [there -> LanesOf(table)]
        /\ \A l1 \in LanesOf(table) : \E e \in there : [x \in there |-> Lane[x]][e] = l1
    BY Zenon DEF LanesOf
  <2> QED BY <2>1, Zenon
<1>4. IsFiniteSet(LanesOf(table))
  <2>1. f \in Surjection(there, LanesOf(table)) BY <1>3, Zenon DEF Surjection
  <2> QED BY <1>2, <2>1, FS_Surjection, Zenon
<1> QED BY <1>2, <1>4, FS_CardinalityType, Zenon

\* A table with fewer letters is within the limits as well.
LEMMA Fewer ==
  ASSUME NEW t, NEW u, Within(u), \A e \in Event : t[e].there => u[e].there
  PROVE  Within(t)
<1>1. ASSUME NEW e \in Event PROVE Cardinality(InLane(t, Lane[e])) <= MaxSequenceSize
  <2>1. InLane(t, Lane[e]) \in SUBSET InLane(u, Lane[e]) BY Zenon DEF InLane
  <2>2. Cardinality(InLane(t, Lane[e])) <= Cardinality(InLane(u, Lane[e])) BY <2>1, FiniteTables, FS_Subset, Zenon
  <2> QED BY <2>2, FiniteTables, DeadLettersAssumption DEF Within
<1>2. Cardinality(LanesOf(t)) <= MaxSequences
  <2>1. LanesOf(t) \in SUBSET LanesOf(u) BY Zenon DEF LanesOf
  <2>2. Cardinality(LanesOf(t)) <= Cardinality(LanesOf(u)) BY <2>1, FiniteTables, FS_Subset, Zenon
  <2>3. MaxSequences \in Nat BY DeadLettersAssumption, Zenon
  <2> QED BY <2>2, <2>3, FiniteTables DEF Within
<1> QED BY <1>1, <1>2, Zenon DEF Within

\* A letter is parked in a lane that has room, and a new lane opened only where
\* there is room for one.
LEMMA OneMore ==
  ASSUME NEW t, NEW u, Within(u), NEW e \in Event,
         \A o \in Event : t[o].there => u[o].there \/ o = e,
         Cardinality(InLane(u, Lane[e])) < MaxSequenceSize,
         InLane(u, Lane[e]) # {} \/ Cardinality(LanesOf(u)) < MaxSequences
  PROVE  Within(t)
<1>0. MaxSequences \in Nat /\ MaxSequenceSize \in Nat BY DeadLettersAssumption, Zenon
<1>1. ASSUME NEW o \in Event PROVE Cardinality(InLane(t, Lane[o])) <= MaxSequenceSize
  <2> DEFINE T == InLane(t, Lane[o])
             U == InLane(u, Lane[o])
  <2>1. CASE Lane[o] = Lane[e]
    <3>1. T \in SUBSET (U \cup {e}) BY Zenon DEF InLane
    <3>2. IsFiniteSet(U \cup {e}) /\ (Cardinality(U \cup {e}) = Cardinality(U) \/ Cardinality(U \cup {e}) = Cardinality(U) + 1)
      BY FiniteTables, FS_AddElement, Zenon
    <3>3. Cardinality(T) <= Cardinality(U \cup {e}) BY <3>1, <3>2, FS_Subset, Zenon
    <3>4. Cardinality(T) \in Nat /\ Cardinality(U) \in Nat BY FiniteTables, Zenon
    <3>5. Cardinality(U) < MaxSequenceSize BY <2>1, Zenon
    <3> HIDE DEF T, U
    <3>6. Cardinality(T) <= MaxSequenceSize BY <1>0, <3>2, <3>3, <3>4, <3>5
    <3> QED BY <3>6, Zenon DEF T
  <2>2. CASE Lane[o] # Lane[e]
    <3>1. T \in SUBSET U BY <2>2, Zenon DEF InLane
    <3>2. Cardinality(T) <= Cardinality(U) BY <3>1, FiniteTables, FS_Subset, Zenon
    <3> QED BY <1>0, <3>2, FiniteTables DEF Within
  <2> QED BY <2>1, <2>2, Zenon
<1>2. Cardinality(LanesOf(t)) <= MaxSequences
  <2> DEFINE T == LanesOf(t)
             U == LanesOf(u)
  <2>0. Cardinality(T) \in Nat /\ Cardinality(U) \in Nat /\ IsFiniteSet(U) BY FiniteTables, Zenon
  <2>1. CASE InLane(u, Lane[e]) # {}
    <3>1. Lane[e] \in U BY <2>1, Zenon DEF InLane, LanesOf
    <3>2. T \in SUBSET U BY <3>1, Zenon DEF LanesOf
    <3>3. Cardinality(T) <= Cardinality(U) BY <2>0, <3>2, FS_Subset, Zenon
    <3> QED BY <1>0, <2>0, <3>3 DEF Within
  <2>2. CASE Cardinality(U) < MaxSequences
    <3>1. T \in SUBSET (U \cup {Lane[e]}) BY Zenon DEF LanesOf
    <3>2. /\ IsFiniteSet(U \cup {Lane[e]})
          /\ Cardinality(U \cup {Lane[e]}) = Cardinality(U) \/ Cardinality(U \cup {Lane[e]}) = Cardinality(U) + 1
      BY <2>0, FS_AddElement, Zenon
    <3>3. Cardinality(T) <= Cardinality(U \cup {Lane[e]}) BY <3>1, <3>2, FS_Subset, Zenon
    <3> HIDE DEF T, U
    <3>4. Cardinality(T) <= MaxSequences BY <1>0, <2>0, <2>2, <3>2, <3>3
    <3> QED BY <3>4, Zenon DEF T
  <2> QED BY <2>1, <2>2, Zenon
<1> QED BY <1>1, <1>2, Zenon DEF Within

\* What the batch sees next has no letter more.
LEMMA FewerSeen ==
  ASSUME Within(Seen), \A e \in Event : Seen'[e].there => Seen[e].there
  PROVE  Within(Seen)'
<1>1. Within(Seen') BY Fewer, Zenon
<1> QED BY <1>1, Zenon DEF Within, InLane, LanesOf

\* The batch's view after a letter was parked.
LEMMA SeenParked ==
  ASSUME Core, NEW e \in Event, e = batch.next, NEW retry, NEW writes, Park(e, retry, writes), UNCHANGED letters
  PROVE  \A o \in Event : Seen'[o].there => Seen[o].there \/ o = e
<1>1. \A o \in Event \ {e} : batch'.letters[o] = batch.letters[o] BY ParkedBehind, Zenon
<1> QED BY <1>1, SeenRows, SeenRowsNext, Zenon

\* A rollback takes parked letters back only.
LEMMA WithinRollback ==
  ASSUME Core, Within(Seen), Rollback, UNCHANGED letters
  PROVE  Within(Seen)'
<1>1. \A e \in Event : ~batch'.letters[e].there BY EmptyBatch, Zenon DEF Rollback, Core, Typed
<1>2. \A e \in Event : Seen'[e].there => Seen[e].there BY <1>1, SeenRows, SeenRowsNext, Zenon
<1> QED BY <1>2, FewerSeen, Zenon

\* Both limits are looked at before a letter is parked.
LEMMA WithinDelivery ==
  ASSUME Core, Within(Seen), Deliver \/ BatchFails
  PROVE  Within(Seen)'
<1> DEFINE e == batch.next
           lane == InLane(Seen, Lane[e])
<1>0. MaxSequences \in Nat /\ MaxSequenceSize \in Nat /\ MaxSequenceSize > 0 BY DeadLettersAssumption
<1>1. CASE DeliverBlocked
  <2>1. e \in Event /\ lane # {} /\ UNCHANGED letters BY <1>1, Zenon DEF DeliverBlocked
  <2>2. CASE Cardinality(lane) >= MaxSequenceSize BY <1>1, <2>1, <2>2, WithinRollback, Zenon DEF DeliverBlocked
  <2>3. CASE ~(Cardinality(lane) >= MaxSequenceSize)
    <3>1. PICK retry, writes : Park(e, retry, writes) BY <1>1, <2>3, Zenon DEF DeliverBlocked
    <3>2. \A o \in Event : Seen'[o].there => Seen[o].there \/ o = e BY <2>1, <3>1, SeenParked, Zenon
    <3>3. Cardinality(lane) \in Nat BY FiniteTables, Zenon
    <3>4. Cardinality(lane) < MaxSequenceSize BY <1>0, <2>3, <3>3
    <3>5. Within(Seen') BY <2>1, <3>2, <3>4, OneMore, Zenon
    <3> QED BY <3>5, Zenon DEF Within, InLane, LanesOf
  <2> QED BY <2>2, <2>3, Zenon
<1>2. CASE DeliverHandled
  <2>1. batch'.letters = batch.letters /\ UNCHANGED letters BY <1>2, Zenon DEF DeliverHandled
  <2>2. \A o \in Event : Seen'[o].there => Seen[o].there BY <2>1, SeenRows, SeenRowsNext, Zenon
  <2> QED BY <2>2, FewerSeen, Zenon
<1>3. ASSUME NEW h \in Handler, DeliverFails(h) PROVE Within(Seen)'
  <2>1. e \in Event /\ lane = {} /\ UNCHANGED letters BY <1>3, Zenon DEF DeliverFails
  <2>2. CASE LaneCount >= MaxSequences BY <1>3, <2>1, <2>2, WithinRollback, Zenon DEF DeliverFails
  <2>3. CASE ~(LaneCount >= MaxSequences)
    <3>1. PICK retry, writes : Park(e, retry, writes) BY <1>3, <2>3, Zenon DEF DeliverFails
    <3>2. \A o \in Event : Seen'[o].there => Seen[o].there \/ o = e BY <2>1, <3>1, SeenParked, Zenon
    <3>3. Cardinality(LanesOf(Seen)) \in Nat /\ LaneCount = Cardinality(LanesOf(Seen))
      BY FiniteTables, Zenon DEF LaneCount, LanesOf
    <3>4. Cardinality(LanesOf(Seen)) < MaxSequences BY <1>0, <2>3, <3>3
    <3>5. Cardinality(lane) < MaxSequenceSize BY <1>0, <2>1, FS_EmptySet, Zenon
    <3>6. Within(Seen') BY <2>1, <3>2, <3>4, <3>5, OneMore, Zenon
    <3> QED BY <3>6, Zenon DEF Within, InLane, LanesOf
  <2> QED BY <2>2, <2>3, Zenon
<1>4. CASE BatchFails BY <1>4, WithinRollback, Zenon DEF BatchFails
<1> QED BY <1>1, <1>2, <1>3, <1>4, Zenon DEF Deliver

\* Steps that keep the rows keep the limits.
LEMMA WithinSame ==
  ASSUME Within(Seen), SameRows, UNCHANGED batch
  PROVE  Within(Seen)'
<1>1. \A e \in Event : Seen'[e].there => Seen[e].there BY SeenRows, SeenRowsNext, Zenon DEF SameRows
<1> QED BY <1>1, FewerSeen, Zenon

\* Every step keeps the limits.
LEMMA WithinNext ==
  ASSUME Core, Walks, Within(Seen), [Next]_vars
  PROVE  Within(Seen)'
<1>1. CASE Deliver \/ BatchFails BY <1>1, WithinDelivery, Zenon
<1>2. CASE CommitBatch
  <2>1. letters' = [e \in Event |-> IF batch.letters[e].there THEN batch.letters[e] ELSE letters[e]]
    BY <1>2, Zenon DEF CommitBatch
  <2>2. \A e \in Event : ~batch'.letters[e].there
    BY <1>2, EmptyBatch DEF CommitBatch, Core, Typed
  <2>3. \A e \in Event : Seen'[e].there => Seen[e].there BY <2>1, <2>2, SeenRows, SeenRowsNext, Zenon
  <2> QED BY <2>3, FewerSeen, Zenon
<1>3. ASSUME NEW r \in Replayer, ReplayStep(r) PROVE Within(Seen)'
  <2>1. CASE CommitReplay(r)
    <3>1. replays[r].letter \in Event BY <2>1, Zenon DEF CommitReplay, At, Walks, Run
    <3>2. \A e \in Event : letters'[e].there => letters[e].there
      BY <2>1, <3>1, Zenon DEF CommitReplay, Core, Typed, NoLetter
    <3>3. \A e \in Event : Seen'[e].there => Seen[e].there
      BY <2>1, <3>2, SeenRows, SeenRowsNext, Zenon DEF CommitReplay
    <3> QED BY <3>3, FewerSeen, Zenon
  <2>2. CASE ~CommitReplay(r)
    <3>1. SameRows
      BY <1>3, <2>2, UnchangedRows, ClaimRows, ReadLaneRows, HandOverRows, ReplayFailsRows, CommitReplayFailsRows,
         ReplayerDiesRows, Zenon DEF ReplayStep, Select
    <3>2. UNCHANGED batch
      BY <1>3, Zenon DEF ReplayStep, Select, Claim, ReadLane, HandOver, CommitReplay, ReplayFails, CommitReplayFails,
                  ReplayerDies
    <3> QED BY <3>1, <3>2, WithinSame, Zenon
  <2> QED BY <2>1, <2>2, Zenon
<1>4. ASSUME NEW e \in Event, LostLeaseExpires(e) \/ LeaseExpires(e) \/ BecomesDue(e) \/ RetryNow(e)
      PROVE  Within(Seen)'
  <2>1. SameRows
    BY <1>4, ExpireRows, RetryRows, Zenon DEF LostLeaseExpires, LeaseExpires, BecomesDue, RetryNow, IsHead
  <2>2. UNCHANGED batch BY <1>4, Zenon DEF LostLeaseExpires, LeaseExpires, BecomesDue, RetryNow
  <2> QED BY <2>1, <2>2, WithinSame, Zenon
<1>5. CASE Clear
  <2>1. \A e \in Event : ~letters'[e].there BY <1>5, Zenon DEF Clear, NoLetter
  <2>2. \A e \in Event : Seen'[e].there => Seen[e].there
    BY <1>5, <2>1, SeenRows, SeenRowsNext, Zenon DEF Clear
  <2> QED BY <2>2, FewerSeen, Zenon
<1>6. CASE UNCHANGED vars
  <2>1. UNCHANGED <<letters, batch>> BY <1>6, Zenon DEF vars, queueVars
  <2> QED BY <2>1, UnchangedRows, WithinSame, Zenon
<1> QED BY <1>1, <1>2, <1>3, <1>4, <1>5, <1>6, Zenon DEF Next

\* An empty queue is within them.
LEMMA WithinAtFirst ==
  ASSUME Init
  PROVE  Within(Seen)
<1>1. \A e \in Event : ~Seen[e].there BY EmptyBatch, SeenRows, Zenon DEF Init, NoLetter
<1>2. LanesOf(Seen) = {} /\ \A e \in Event : InLane(Seen, Lane[e]) = {} BY <1>1, Zenon DEF LanesOf, InLane
<1>3. MaxSequences \in Nat /\ MaxSequenceSize \in Nat BY DeadLettersAssumption, Zenon
<1> QED BY <1>2, <1>3, FS_EmptySet DEF Within

\* No lane outgrows maxSequenceSize and the queue never has more than
\* maxSequences lanes, though letters are counted in a batch's view and parked
\* by its commit.
THEOREM LimitsHold == Spec => []QueueBounded
<1>1. Init => Within(Seen) BY WithinAtFirst, Zenon
<1>2. Core /\ Walks /\ Within(Seen) /\ [Next]_vars => Within(Seen)' BY WithinNext, Zenon
<1>3. Within(Seen) => QueueBounded
  <2> SUFFICES ASSUME Within(Seen) PROVE QueueBounded BY Zenon
  <2>1. \A e \in Event : letters[e].there => Seen[e].there BY SeenRows, Zenon
  <2>2. Within(letters) BY <2>1, Fewer, Zenon
  <2> QED BY <2>2, Zenon DEF Within, QueueBounded, LanesOf
<1> QED BY <1>1, <1>2, <1>3, QueueFlows, PTL DEF Spec
=============================================================================
