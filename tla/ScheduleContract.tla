-------------------------- MODULE ScheduleContract --------------------------
(***************************************************************************)
(* What a schedule store promises: a schedule that was committed is        *)
(* appended once, when it is due, unless a committed cancel came first.    *)
(***************************************************************************)
EXTENDS Naturals

CONSTANT Schedule

VARIABLES
  status,     \* "none", "pending", "appended" or "cancelled"
  due,        \* whether its time has come
  log         \* how often its event is in the log

contractVars == <<status, due, log>>

ContractInit ==
  /\ status = [s \in Schedule |-> "none"]
  /\ due = [s \in Schedule |-> FALSE]
  /\ log = [s \in Schedule |-> 0]

TimeComes(s) ==
  /\ ~due[s]
  /\ due' = [due EXCEPT ![s] = TRUE]
  /\ UNCHANGED <<status, log>>

\* A task commits what it scheduled and what it cancelled, its own included.
TaskCommits(armed, cancelled) ==
  /\ \A s \in armed : status[s] = "none"
  /\ \A s \in cancelled : status[s] = "pending" \/ s \in armed
  /\ status' = [s \in Schedule |-> IF s \in cancelled THEN "cancelled"
                                   ELSE IF s \in armed THEN "pending" ELSE status[s]]
  /\ UNCHANGED <<due, log>>

Fire(batch) ==
  /\ \A s \in batch : status[s] = "pending" /\ due[s]
  /\ status' = [s \in Schedule |-> IF s \in batch THEN "appended" ELSE status[s]]
  /\ log' = [s \in Schedule |-> IF s \in batch THEN log[s] + 1 ELSE log[s]]
  /\ UNCHANGED due

ContractNext ==
  \/ \E s \in Schedule : TimeComes(s)
  \/ \E armed, cancelled \in SUBSET Schedule : TaskCommits(armed, cancelled)
  \/ \E batch \in SUBSET Schedule : Fire(batch)

ContractSpec == ContractInit /\ [][ContractNext]_contractVars
=============================================================================
