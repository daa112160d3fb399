------------------------- MODULE PostgresScheduling -------------------------
(***************************************************************************)
(* Scheduled events in Postgres: tasks that schedule and cancel in their   *)
(* transaction, and on each node a worker that, tick after tick, appends   *)
(* what is due and marks it in one transaction.  A row's lock is held by   *)
(* the task or the tick that has selected it for update.                   *)
(***************************************************************************)
EXTENDS Integers, FiniteSets

CONSTANTS
  Schedule,
  Task,
  Node,
  BatchSize,
  OverlappingStart,  \* startScheduling is called before a stopScheduling has resolved
  MaxFailures        \* bound: ticks that fail, nodes that die

Chain == {1, 2}      \* a node's timer chains; start begins a new one

ASSUME SchedulingAssumption ==
  /\ BatchSize \in Nat \ {0}
  /\ OverlappingStart \in BOOLEAN
  /\ MaxFailures \in Nat

VARIABLES
  status,     \* the committed rows: "none", "pending", "appended" or "cancelled"
  due,        \* whether fire_at <= now()
  log,        \* how often its event is in the log
  tasks,      \* each task's open transaction
  ticks,      \* the rows a chain's tick has selected
  chains,     \* "off", "armed" or "ticking"
  workers,    \* each node's running flag, timer and activeTick
  failures

taskVars == <<status, due, log, tasks>>
workerVars == <<ticks, chains, workers, failures>>
vars == <<taskVars, workerVars>>

NoTask == [open |-> FALSE, armed |-> {}, cancelled |-> {}, locked |-> {}]

Init ==
  /\ status = [s \in Schedule |-> "none"]
  /\ due = [s \in Schedule |-> FALSE]
  /\ log = [s \in Schedule |-> 0]
  /\ tasks = [t \in Task |-> NoTask]
  /\ ticks = [n \in Node |-> [c \in Chain |-> {}]]
  /\ chains = [n \in Node |-> [c \in Chain |-> "off"]]
  /\ workers = [n \in Node |-> [running |-> FALSE, stopping |-> FALSE, timer |-> 0, active |-> 0, awaited |-> 0, dead |-> FALSE]]
  /\ failures = 0

Fails == failures < MaxFailures /\ failures' = failures + 1

\* Rows locked by a tick, and by a task other than t.
Selected == UNION {ticks[n][c] : n \in Node, c \in Chain}
LockedByOther(t) == Selected \cup UNION {tasks[u].locked : u \in Task \ {t}}

-----------------------------------------------------------------------------
(* Tasks. *)
TimeComes(s) ==
  /\ ~due[s]
  /\ due' = [due EXCEPT ![s] = TRUE]
  /\ UNCHANGED <<status, log, tasks, workerVars>>

Begin(t) ==
  /\ ~tasks[t].open
  /\ tasks' = [tasks EXCEPT ![t] = [open |-> TRUE, armed |-> {}, cancelled |-> {}, locked |-> {}]]
  /\ UNCHANGED <<status, due, log, workerVars>>

\* The INSERT, of an id nobody has used.
Arm(t, s) ==
  /\ tasks[t].open
  /\ status[s] = "none"
  /\ \A u \in Task : s \notin tasks[u].armed
  /\ tasks' = [tasks EXCEPT ![t] = [open |-> TRUE, armed |-> @.armed \cup {s},
                                    cancelled |-> @.cancelled, locked |-> @.locked]]
  /\ UNCHANGED <<status, due, log, workerVars>>

\* Mutant: the row is not locked.
CancelAtOnce(t, s) ==
  /\ tasks[t].open
  /\ LET visible == status[s] # "none" \/ s \in tasks[t].armed
         pending == s \notin tasks[t].cancelled /\ (status[s] = "pending" \/ s \in tasks[t].armed)
     IN tasks' = [tasks EXCEPT ![t] =
          [open |-> TRUE, armed |-> @.armed,
           cancelled |-> IF pending THEN @.cancelled \cup {s} ELSE @.cancelled,
           locked |-> IF visible /\ s \notin @.armed THEN @.locked \cup {s} ELSE @.locked]]
  /\ UNCHANGED <<status, due, log, workerVars>>

\* cancelOnTx: FOR UPDATE waits for the row, and the status is the one it has
\* then.
Cancel(t, s) ==
  /\ tasks[t].open
  /\ s \notin LockedByOther(t)
  /\ LET visible == status[s] # "none" \/ s \in tasks[t].armed
         pending == s \notin tasks[t].cancelled /\ (status[s] = "pending" \/ s \in tasks[t].armed)
     IN tasks' = [tasks EXCEPT ![t] =
          [open |-> TRUE, armed |-> @.armed,
           cancelled |-> IF pending THEN @.cancelled \cup {s} ELSE @.cancelled,
           locked |-> IF visible /\ s \notin @.armed THEN @.locked \cup {s} ELSE @.locked]]
  /\ UNCHANGED <<status, due, log, workerVars>>

CommitTask(t) ==
  /\ tasks[t].open
  /\ status' = [s \in Schedule |-> IF s \in tasks[t].cancelled THEN "cancelled"
                                   ELSE IF s \in tasks[t].armed THEN "pending" ELSE status[s]]
  /\ tasks' = [tasks EXCEPT ![t] = NoTask]
  /\ UNCHANGED <<due, log, workerVars>>

\* Also what a deadlock ends in.
RollbackTask(t) ==
  /\ tasks[t].open
  /\ tasks' = [tasks EXCEPT ![t] = NoTask]
  /\ UNCHANGED <<status, due, log, workerVars>>

-----------------------------------------------------------------------------
(* The worker. *)
Worker(n, running, stopping, timer, active, awaited) ==
  workers' = [workers EXCEPT ![n] =
    [running |-> running, stopping |-> stopping, timer |-> timer, active |-> active, awaited |-> awaited, dead |-> @.dead]]

StartScheduling(n) ==
  LET w == workers[n]
  IN /\ ~w.dead /\ ~w.running
     /\ w.stopping => OverlappingStart
     /\ \E c \in Chain :
          /\ chains[n][c] = "off" /\ \A d \in Chain : d < c => chains[n][d] # "off"
          /\ chains' = [chains EXCEPT ![n][c] = "armed"]
          /\ Worker(n, TRUE, w.stopping, c, w.active, w.awaited)
     /\ UNCHANGED <<taskVars, ticks, failures>>

\* Mutant: the timer is not cleared.
StopSchedulingOnly(n) ==
  LET w == workers[n]
  IN /\ ~w.dead /\ w.running
     /\ chains' = chains
     /\ Worker(n, FALSE, TRUE, 0, w.active, w.active)
     /\ UNCHANGED <<taskVars, ticks, failures>>

\* The timer it knows of is cleared, and the tick it knows of awaited.
StopScheduling(n) ==
  LET w == workers[n]
  IN /\ ~w.dead /\ w.running
     /\ chains' = IF w.timer # 0 /\ chains[n][w.timer] = "armed"
                    THEN [chains EXCEPT ![n][w.timer] = "off"] ELSE chains
     /\ Worker(n, FALSE, TRUE, 0, w.active, w.active)
     /\ UNCHANGED <<taskVars, ticks, failures>>

StopResolves(n) ==
  LET w == workers[n]
  IN /\ w.stopping
     /\ w.awaited # 0 => chains[n][w.awaited] # "ticking"
     /\ Worker(n, w.running, FALSE, w.timer, w.active, 0)
     /\ UNCHANGED <<taskVars, ticks, chains, failures>>

Locked == Selected \cup UNION {tasks[t].locked : t \in Task}

\* Mutants: the status is not asked for, nor the time.
ReadyAny == {s \in Schedule \ Locked : status[s] # "none" /\ due[s]}
ReadyEarly == {s \in Schedule \ Locked : status[s] = "pending"}

Ready == {s \in Schedule \ Locked : status[s] = "pending" /\ due[s]}

\* The timer fires; whatever is ready, up to a limit.
BeginTick(n, c) ==
  LET w == workers[n]
  IN /\ chains[n][c] = "armed"
     /\ chains' = [chains EXCEPT ![n][c] = "ticking"]
     /\ Worker(n, w.running, w.stopping, w.timer, c, w.awaited)
     /\ \E batch \in SUBSET Ready :
          /\ Cardinality(batch) <= BatchSize
          /\ Cardinality(batch) = BatchSize \/ batch = Ready
          /\ ticks' = [ticks EXCEPT ![n][c] = batch]
     /\ UNCHANGED <<taskVars, failures>>

\* Mutant: the next tick is not planned.
EndTickForGood(n, c) ==
  LET w == workers[n]
  IN /\ chains[n][c] = "ticking"
     /\ chains' = [chains EXCEPT ![n][c] = "off"]
     /\ Worker(n, w.running, w.stopping, IF w.running THEN c ELSE w.timer, 0, w.awaited)
     /\ ticks' = [ticks EXCEPT ![n][c] = {}]

\* The tick is over: activeTick is forgotten, and the chain goes on if running.
EndTick(n, c) ==
  LET w == workers[n]
  IN /\ chains[n][c] = "ticking"
     /\ chains' = [chains EXCEPT ![n][c] = IF w.running THEN "armed" ELSE "off"]
     /\ Worker(n, w.running, w.stopping, IF w.running THEN c ELSE w.timer, 0, w.awaited)
     /\ ticks' = [ticks EXCEPT ![n][c] = {}]

CommitTick(n, c) ==
  /\ EndTick(n, c)
  /\ status' = [s \in Schedule |-> IF s \in ticks[n][c] THEN "appended" ELSE status[s]]
  /\ log' = [s \in Schedule |-> IF s \in ticks[n][c] THEN log[s] + 1 ELSE log[s]]
  /\ UNCHANGED <<due, tasks, failures>>

TickFails(n, c) ==
  /\ EndTick(n, c)
  /\ Fails
  /\ UNCHANGED taskVars

NodeDies(n) ==
  /\ ~workers[n].dead
  /\ Fails
  /\ chains' = [chains EXCEPT ![n] = [c \in Chain |-> "off"]]
  /\ ticks' = [ticks EXCEPT ![n] = [c \in Chain |-> {}]]
  /\ workers' = [workers EXCEPT ![n] =
       [running |-> FALSE, stopping |-> FALSE, timer |-> 0, active |-> 0, awaited |-> 0, dead |-> TRUE]]
  /\ UNCHANGED taskVars

-----------------------------------------------------------------------------
TaskStep(t) ==
  \/ Begin(t) \/ CommitTask(t) \/ RollbackTask(t)
  \/ \E s \in Schedule : Arm(t, s) \/ Cancel(t, s)

NodeStep(n) ==
  \/ StartScheduling(n) \/ StopScheduling(n) \/ StopResolves(n) \/ NodeDies(n)
  \/ \E c \in Chain : BeginTick(n, c) \/ CommitTick(n, c) \/ TickFails(n, c)

Next ==
  \/ \E s \in Schedule : TimeComes(s)
  \/ \E t \in Task : TaskStep(t)
  \/ \E n \in Node : NodeStep(n)

Spec == Init /\ [][Next]_vars

\* Timers fire, ticks and tasks come to an end.
Fairness ==
  /\ \A t \in Task : WF_vars(CommitTask(t) \/ RollbackTask(t))
  /\ \A n \in Node, c \in Chain : WF_vars(BeginTick(n, c)) /\ WF_vars(CommitTick(n, c))

FairSpec == Spec /\ Fairness

-----------------------------------------------------------------------------
\* The types of the rows, the transactions and the workers.
TypeOK ==
  /\ status \in [Schedule -> {"none", "pending", "appended", "cancelled"}]
  /\ due \in [Schedule -> BOOLEAN]
  /\ log \in [Schedule -> Nat]
  /\ tasks \in [Task -> [open : BOOLEAN, armed : SUBSET Schedule, cancelled : SUBSET Schedule, locked : SUBSET Schedule]]
  /\ ticks \in [Node -> [Chain -> SUBSET Schedule]]
  /\ chains \in [Node -> [Chain -> {"off", "armed", "ticking"}]]
  /\ workers \in [Node -> [running : BOOLEAN, stopping : BOOLEAN, timer : {0} \cup Chain,
                           active : {0} \cup Chain, awaited : {0} \cup Chain, dead : BOOLEAN]]
  /\ failures \in 0..MaxFailures

\* "Once committed, the event WILL be appended at or after `at` unless
\* cancelSchedule wins the race": no tick appends what was rolled back, what a
\* committed cancel has answered for, or what another tick has appended.
AppendedOnce ==
  \A s \in Schedule : log[s] = (IF status[s] = "appended" THEN 1 ELSE 0)

\* A task that was answered `cancelled` still holds the row: whatever the
\* workers do until it commits, the cancel is the outcome.
CancelHolds ==
  \A t \in Task : \A s \in tasks[t].cancelled : status[s] = "pending" \/ s \in tasks[t].armed

\* Tasks and ticks make the steps of the contract, and no others.
Contract == INSTANCE ScheduleContract
ImplementsContract == Contract!ContractSpec

\* stopScheduling "resolves once the in-flight tick (if any) has settled": no
\* tick is running or to come on a node that has stopped.
StopSettles ==
  \A n \in Node : ~workers[n].running /\ ~workers[n].stopping =>
    \A c \in Chain : chains[n][c] = "off"

\* A schedule that is committed and due fires in the end on a node that goes on
\* running, though ticks fail and nodes die, unless it is cancelled.
FiresInTheEnd ==
  \A s \in Schedule, n \in Node :
    <>[](workers[n].running /\ \A t \in Task : s \notin tasks[t].locked) =>
      []((status[s] = "pending" /\ due[s]) => <>(status[s] # "pending"))
=============================================================================
