---------------------- MODULE PostgresSchedulingProofs ----------------------
(***************************************************************************)
(* Tasks and ticks keep the contract of a schedule store, and a stop means *)
(* that no tick is running or to come: proved for any number of schedules, *)
(* tasks and nodes, and any batch size.                                    *)
(***************************************************************************)
EXTENDS PostgresScheduling, TLAPS

\* What a tick has selected is pending, due and no one else's; what a task is
\* about to insert is not there; a row it has locked is its own, and one it has
\* cancelled is that, or new.
LocksHold ==
  /\ \A n \in Node, c \in Chain : \A s \in ticks[n][c] :
       /\ status[s] = "pending" /\ due[s]
       /\ \A t \in Task : s \notin tasks[t].locked
       /\ \A m \in Node, d \in Chain : s \in ticks[m][d] => m = n /\ d = c
  /\ \A t \in Task :
       /\ \A s \in tasks[t].armed : status[s] = "none" /\ \A u \in Task : s \in tasks[u].armed => u = t
       /\ \A s \in tasks[t].locked : status[s] # "none" /\ \A u \in Task : s \in tasks[u].locked => u = t
       /\ \A s \in tasks[t].cancelled : s \in tasks[t].armed \/ (s \in tasks[t].locked /\ status[s] = "pending")

\* Without overlapping starts a node has one chain, the one its fields name.
OneChain ==
  \A n \in Node :
    LET w == workers[n]
    IN /\ w.running => ~w.stopping
       /\ \A c \in Chain :
            /\ chains[n][c] = "armed" => w.running /\ w.timer = c
            /\ chains[n][c] = "ticking" => /\ w.active = c
                                           /\ w.running \/ (w.stopping /\ w.awaited = c)
            /\ \A d \in Chain : chains[n][c] # "off" /\ chains[n][d] # "off" => c = d

-----------------------------------------------------------------------------
\* The fields of a task's record.
LEMMA TaskFields ==
  ASSUME TypeOK, NEW t \in Task
  PROVE  /\ tasks[t].open \in BOOLEAN
         /\ tasks[t].armed \in SUBSET Schedule
         /\ tasks[t].cancelled \in SUBSET Schedule
         /\ tasks[t].locked \in SUBSET Schedule
BY Zenon DEF TypeOK

\* TypeOK is inductive.
LEMMA TypeInit == Init => TypeOK
BY SchedulingAssumption DEF Init, TypeOK, NoTask, Chain

\* Every step keeps it.
LEMMA TypeStep == TypeOK /\ [Next]_vars => TypeOK'
<1> SUFFICES ASSUME TypeOK, [Next]_vars PROVE TypeOK'
  BY Zenon
<1> USE DEF TypeOK
<1>1. ASSUME NEW s \in Schedule, TimeComes(s) PROVE TypeOK'
  BY <1>1, Zenon DEF TimeComes, workerVars
<1>2. ASSUME NEW t \in Task, TaskStep(t) PROVE TypeOK'
  <2>1. CASE Begin(t)
    BY <2>1, Zenon DEF Begin, workerVars
  <2>2. CASE CommitTask(t)
    BY <2>2, Zenon DEF CommitTask, NoTask, workerVars
  <2>3. CASE RollbackTask(t)
    BY <2>3, Zenon DEF RollbackTask, NoTask, workerVars
  <2>4. ASSUME NEW s \in Schedule, Arm(t, s) PROVE TypeOK'
    BY <2>4, TaskFields, Zenon DEF Arm, workerVars
  <2>5. ASSUME NEW s \in Schedule, Cancel(t, s) PROVE TypeOK'
    BY <2>5, TaskFields DEF Cancel, workerVars
  <2> QED BY <1>2, <2>1, <2>2, <2>3, <2>4, <2>5, Zenon DEF TaskStep
<1>3. ASSUME NEW n \in Node, NodeStep(n) PROVE TypeOK'
  <2> USE DEF Worker, taskVars, Chain
  <2>1. CASE StartScheduling(n)
    BY <2>1 DEF StartScheduling
  <2>2. CASE StopScheduling(n)
    BY <2>2, Zenon DEF StopScheduling
  <2>3. CASE StopResolves(n)
    BY <2>3, Zenon DEF StopResolves
  <2>4. CASE NodeDies(n)
    BY <2>4, SchedulingAssumption DEF NodeDies, Fails
  <2>5. ASSUME NEW c \in Chain, BeginTick(n, c) PROVE TypeOK'
    BY <2>5 DEF BeginTick, Ready
  <2>6. ASSUME NEW c \in Chain, CommitTick(n, c) PROVE TypeOK'
    BY <2>6 DEF CommitTick, EndTick
  <2>7. ASSUME NEW c \in Chain, TickFails(n, c) PROVE TypeOK'
    BY <2>7, SchedulingAssumption DEF TickFails, EndTick, Fails
  <2> QED BY <1>3, <2>1, <2>2, <2>3, <2>4, <2>5, <2>6, <2>7, Zenon DEF NodeStep
<1>4. CASE UNCHANGED vars
  BY <1>4, Zenon DEF vars, taskVars, workerVars
<1> QED BY <1>1, <1>2, <1>3, <1>4, Zenon DEF Next

-----------------------------------------------------------------------------
\* What is selected, and what is locked by others.
LEMMA SelectedRow ==
  ASSUME NEW s, s \notin Selected
  PROVE  \A n \in Node, c \in Chain : s \notin ticks[n][c]
BY DEF Selected

\* A row that no tick and no other task has locked.
LEMMA LockedRow ==
  ASSUME NEW t \in Task, NEW s, s \notin LockedByOther(t)
  PROVE  /\ \A n \in Node, c \in Chain : s \notin ticks[n][c]
         /\ \A u \in Task : u # t => s \notin tasks[u].locked
BY DEF LockedByOther, Selected

\* What a tick takes is pending and due.
LEMMA ReadyRow ==
  ASSUME NEW s \in Ready
  PROVE  /\ s \in Schedule /\ status[s] = "pending" /\ due[s]
         /\ \A n \in Node, c \in Chain : s \notin ticks[n][c]
         /\ \A t \in Task : s \notin tasks[t].locked
BY DEF Ready, Locked, Selected

\* No row is locked at the start.
LEMMA LocksInit == Init => LocksHold
BY DEF Init, LocksHold, NoTask

\* Every step keeps the row locks exclusive.
LEMMA LocksStep == TypeOK /\ LocksHold /\ [Next]_vars => LocksHold'
<1> SUFFICES ASSUME TypeOK, LocksHold, [Next]_vars PROVE LocksHold'
  BY Zenon
<1>1. ASSUME NEW s \in Schedule, TimeComes(s) PROVE LocksHold'
  BY <1>1 DEF TimeComes, workerVars, LocksHold, TypeOK
<1>2. ASSUME NEW t \in Task, TaskStep(t) PROVE LocksHold'
  <2>0. /\ tasks \in [Task -> [open : BOOLEAN, armed : SUBSET Schedule, cancelled : SUBSET Schedule, locked : SUBSET Schedule]]
        /\ status \in [Schedule -> {"none", "pending", "appended", "cancelled"}]
    BY Zenon DEF TypeOK
  <2>1. CASE Begin(t)
    BY <2>0, <2>1 DEF Begin, workerVars, LocksHold
  <2>2. CASE CommitTask(t)
    <3> DEFINE own == tasks[t].armed \cup tasks[t].cancelled
    <3>1. \A s \in own : status[s] = "none" \/ s \in tasks[t].locked
      BY Zenon DEF LocksHold
    <3>2. \A s \in Schedule \ own : status'[s] = status[s]
      BY <2>2, Zenon DEF CommitTask
    <3>3. \A n \in Node, c \in Chain : \A s \in ticks[n][c] : s \notin own
      BY <3>1, Zenon DEF LocksHold
    <3>4. \A u \in Task : u # t =>
            \A s \in tasks[u].armed \cup tasks[u].locked \cup tasks[u].cancelled : s \notin own
      BY <3>1 DEF LocksHold
    <3>5. /\ \A u \in Task : u # t => tasks'[u] = tasks[u]
          /\ tasks'[t].armed = {} /\ tasks'[t].locked = {} /\ tasks'[t].cancelled = {}
      BY <2>0, <2>2, Zenon DEF CommitTask, NoTask
    <3>6. ticks' = ticks /\ due' = due
      BY <2>2, Zenon DEF CommitTask, workerVars
    <3>7. \A u \in Task : tasks[u].armed \cup tasks[u].locked \cup tasks[u].cancelled \subseteq Schedule
      BY TaskFields, Zenon
    <3>8. \A n \in Node, c \in Chain : ticks[n][c] \subseteq Schedule
      BY DEF TypeOK
    <3> HIDE DEF own
    <3> QED BY <3>2, <3>3, <3>4, <3>5, <3>6, <3>7, <3>8 DEF LocksHold
  <2>3. CASE RollbackTask(t)
    BY <2>0, <2>3 DEF RollbackTask, NoTask, workerVars, LocksHold
  <2>4. ASSUME NEW s \in Schedule, Arm(t, s) PROVE LocksHold'
    BY <2>0, <2>4 DEF Arm, workerVars, LocksHold
  <2>5. ASSUME NEW s \in Schedule, Cancel(t, s) PROVE LocksHold'
    BY <2>0, <2>5, LockedRow DEF Cancel, workerVars, LocksHold
  <2> QED BY <1>2, <2>1, <2>2, <2>3, <2>4, <2>5, Zenon DEF TaskStep
<1>3. ASSUME NEW n \in Node, NodeStep(n) PROVE LocksHold'
  <2>0. ticks \in [Node -> [Chain -> SUBSET Schedule]]
    BY Zenon DEF TypeOK
  <2>1. CASE StartScheduling(n)
    BY <2>1 DEF StartScheduling, taskVars, LocksHold
  <2>2. CASE StopScheduling(n)
    BY <2>2 DEF StopScheduling, taskVars, LocksHold
  <2>3. CASE StopResolves(n)
    BY <2>3 DEF StopResolves, taskVars, LocksHold
  <2>4. CASE NodeDies(n)
    BY <2>0, <2>4 DEF NodeDies, taskVars, LocksHold
  <2>5. ASSUME NEW c \in Chain, BeginTick(n, c) PROVE LocksHold'
    BY <2>0, <2>5, ReadyRow DEF BeginTick, taskVars, LocksHold
  <2>6. ASSUME NEW c \in Chain, CommitTick(n, c) PROVE LocksHold'
    BY <2>0, <2>6, TaskFields, TypeOK DEF CommitTick, EndTick, LocksHold
  <2>7. ASSUME NEW c \in Chain, TickFails(n, c) PROVE LocksHold'
    BY <2>0, <2>7 DEF TickFails, EndTick, taskVars, LocksHold
  <2> QED BY <1>3, <2>1, <2>2, <2>3, <2>4, <2>5, <2>6, <2>7, Zenon DEF NodeStep
<1>4. CASE UNCHANGED vars
  BY <1>4 DEF vars, taskVars, workerVars, LocksHold
<1> QED BY <1>1, <1>2, <1>3, <1>4, Zenon DEF Next

-----------------------------------------------------------------------------
\* A row is in the log once when its status says so, and not at all before.
LEMMA OnceStep == TypeOK /\ LocksHold /\ AppendedOnce /\ [Next]_vars => AppendedOnce'
<1> SUFFICES ASSUME TypeOK, LocksHold, AppendedOnce, [Next]_vars PROVE AppendedOnce'
  BY Zenon
<1>1. ASSUME NEW s \in Schedule, TimeComes(s) PROVE AppendedOnce'
  BY <1>1, Zenon DEF TimeComes, AppendedOnce
<1>2. ASSUME NEW t \in Task, TaskStep(t) PROVE AppendedOnce'
  <2>1. ASSUME NEW s \in Schedule, CommitTask(t) PROVE (log[s] = (IF status[s] = "appended" THEN 1 ELSE 0))'
    <3>1. s \in tasks[t].armed \cup tasks[t].cancelled => status[s] \in {"none", "pending"}
      BY Zenon DEF LocksHold
    <3> QED BY <2>1, <3>1, Zenon DEF CommitTask, AppendedOnce
  <2> QED BY <1>2, <2>1, Zenon DEF TaskStep, Begin, RollbackTask, Arm, Cancel, AppendedOnce
<1>3. ASSUME NEW n \in Node, NodeStep(n) PROVE AppendedOnce'
  <2>1. ASSUME NEW c \in Chain, CommitTick(n, c) PROVE AppendedOnce'
    <3>1. \A s \in ticks[n][c] : status[s] = "pending"
      BY Zenon DEF LocksHold
    <3> QED BY <2>1, <3>1 DEF CommitTick, AppendedOnce, TypeOK
  <2> QED BY <1>3, <2>1, Zenon DEF NodeStep, StartScheduling, StopScheduling, StopResolves, NodeDies, BeginTick,
                            TickFails, taskVars, AppendedOnce
<1>4. CASE UNCHANGED vars
  BY <1>4, Zenon DEF vars, taskVars, AppendedOnce
<1> QED BY <1>1, <1>2, <1>3, <1>4, Zenon DEF Next

\* The row locks make an answered cancel hold.
LEMMA LocksCancel == LocksHold => CancelHolds
BY Zenon DEF LocksHold, CancelHolds

-----------------------------------------------------------------------------
\* No chain runs at the start.
LEMMA ChainsInit == Init => OneChain
BY DEF Init, OneChain, Chain

\* A node keeps to one chain of ticks, if starts wait for stops.
LEMMA ChainsStep ==
  ASSUME OverlappingStart = FALSE
  PROVE  TypeOK /\ OneChain /\ StopSettles /\ [Next]_vars => OneChain' /\ StopSettles'
<1> SUFFICES ASSUME TypeOK, OneChain, StopSettles, [Next]_vars PROVE OneChain' /\ StopSettles'
  BY Zenon
<1>0. /\ chains \in [Node -> [Chain -> {"off", "armed", "ticking"}]]
      /\ workers \in [Node -> [running : BOOLEAN, stopping : BOOLEAN, timer : {0} \cup Chain,
                               active : {0} \cup Chain, awaited : {0} \cup Chain, dead : BOOLEAN]]
  BY Zenon DEF TypeOK
<1>1. ASSUME UNCHANGED <<chains, workers>> PROVE OneChain' /\ StopSettles'
  BY <1>1 DEF OneChain, StopSettles
<1>2. ASSUME NEW n \in Node, NodeStep(n) PROVE OneChain' /\ StopSettles'
  <2> USE DEF OneChain, StopSettles, Worker, Chain
  <2>1. CASE StartScheduling(n)
    BY <1>0, <2>1 DEF StartScheduling
  <2>2. CASE StopScheduling(n)
    BY <1>0, <2>2 DEF StopScheduling
  <2>3. CASE StopResolves(n)
    BY <1>0, <2>3 DEF StopResolves
  <2>4. CASE NodeDies(n)
    BY <1>0, <2>4 DEF NodeDies
  <2>5. ASSUME NEW c \in Chain, BeginTick(n, c) PROVE OneChain' /\ StopSettles'
    BY <1>0, <2>5 DEF BeginTick
  <2>6. ASSUME NEW c \in Chain, EndTick(n, c) PROVE OneChain' /\ StopSettles'
    BY <1>0, <2>6 DEF EndTick
  <2> QED BY <1>2, <2>1, <2>2, <2>3, <2>4, <2>5, <2>6, Zenon DEF NodeStep, CommitTick, TickFails
<1> QED BY <1>1, <1>2, Zenon DEF Next, vars, workerVars, TimeComes, TaskStep, Begin, Arm, Cancel, CommitTask, RollbackTask

-----------------------------------------------------------------------------
\* Every step is one of the contract's, or changes nothing it speaks of.
LEMMA ContractStep == TypeOK /\ LocksHold /\ [Next]_vars => [Contract!ContractNext]_(Contract!contractVars)
<1> SUFFICES ASSUME TypeOK, LocksHold, [Next]_vars PROVE [Contract!ContractNext]_(Contract!contractVars)
  BY Zenon
<1> USE DEF Contract!contractVars
<1>1. ASSUME NEW s \in Schedule, TimeComes(s) PROVE Contract!TimeComes(s)
  BY <1>1, Zenon DEF TimeComes, Contract!TimeComes
<1>2. ASSUME NEW t \in Task, CommitTask(t) PROVE Contract!TaskCommits(tasks[t].armed, tasks[t].cancelled)
  BY <1>2, Zenon DEF CommitTask, Contract!TaskCommits, LocksHold
<1>3. ASSUME NEW n \in Node, NEW c \in Chain, CommitTick(n, c) PROVE Contract!Fire(ticks[n][c])
  BY <1>3, Zenon DEF CommitTick, Contract!Fire, LocksHold
<1>4. \A t \in Task : tasks[t].armed \in SUBSET Schedule /\ tasks[t].cancelled \in SUBSET Schedule
  BY TaskFields, Zenon
<1>5. \A n \in Node, c \in Chain : ticks[n][c] \in SUBSET Schedule
  BY DEF TypeOK
<1>6. ASSUME NEW t \in Task, TaskStep(t) PROVE Contract!ContractNext \/ UNCHANGED <<status, due, log>>
  BY <1>2, <1>4, <1>6, Zenon DEF TaskStep, Begin, Arm, Cancel, RollbackTask, Contract!ContractNext
<1>7. ASSUME NEW n \in Node, NodeStep(n) PROVE Contract!ContractNext \/ UNCHANGED <<status, due, log>>
  BY <1>3, <1>5, <1>7, Zenon DEF NodeStep, StartScheduling, StopScheduling, StopResolves, NodeDies, BeginTick,
                          TickFails, taskVars, Contract!ContractNext
<1> QED BY <1>1, <1>6, <1>7, Zenon DEF Next, vars, taskVars, Contract!ContractNext

-----------------------------------------------------------------------------
\* Schedules, cancels and ticks only ever run under each other's row locks.
THEOREM LocksHolding == Spec => [](TypeOK /\ LocksHold)
<1>1. Init => TypeOK /\ LocksHold
  BY TypeInit, LocksInit, Zenon
<1>2. TypeOK /\ LocksHold /\ [Next]_vars => (TypeOK /\ LocksHold)'
  BY TypeStep, LocksStep, Zenon
<1> QED BY <1>1, <1>2, PTL DEF Spec

\* No schedule is appended twice, nor one that was cancelled or rolled back.
THEOREM AppendingOnce == Spec => []AppendedOnce
<1>1. Init => AppendedOnce
  BY Zenon DEF Init, AppendedOnce
<1>2. TypeOK /\ LocksHold /\ AppendedOnce /\ [Next]_vars => AppendedOnce'
  BY OnceStep, Zenon
<1> QED BY <1>1, <1>2, LocksHolding, PTL DEF Spec

\* A cancel that was answered stands until its task settles.
THEOREM CancelsHolding == Spec => []CancelHolds
BY LocksHolding, LocksCancel, PTL

\* The store implements the contract: tasks commit their schedules and cancels
\* together, and a tick fires what is pending and due.
THEOREM ContractKept == Spec => ImplementsContract
<1>1. Init => Contract!ContractInit
  BY Zenon DEF Init, Contract!ContractInit
<1>2. TypeOK /\ LocksHold /\ [Next]_vars => [Contract!ContractNext]_(Contract!contractVars)
  BY ContractStep, Zenon
<1> QED BY <1>1, <1>2, LocksHolding, PTL DEF Spec, ImplementsContract, Contract!ContractSpec

\* After a stop that has resolved no tick runs and none is planned, if starts
\* and stops do not overlap.
THEOREM StopsSettling ==
  ASSUME OverlappingStart = FALSE
  PROVE  Spec => []StopSettles
<1>1. Init => OneChain /\ StopSettles
  BY ChainsInit DEF Init, StopSettles
<1>2. TypeOK /\ OneChain /\ StopSettles /\ [Next]_vars => (OneChain /\ StopSettles)'
  BY ChainsStep, Zenon
<1> QED BY <1>1, <1>2, LocksHolding, PTL DEF Spec
=============================================================================
