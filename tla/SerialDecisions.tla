--------------------------- MODULE SerialDecisions ---------------------------
(***************************************************************************)
(* What the command path promises a handler (docs/how-it-works.md, "the    *)
(* write is the DCB consistency check"): every command that writes behaves *)
(* as if it had made all its reads and its write in one instant.           *)
(*                                                                         *)
(* A decision is the events a task wrote and the reads it wrote them on.   *)
(* Each read lists the positions its query selected.                       *)
(***************************************************************************)
EXTENDS EventLog

CONSTANT Task

VARIABLES log, decision

\* A task that has written nothing (yet).
Undecided == [at |-> 0, events |-> <<>>, reads |-> {}]

Init ==
  /\ log = <<>>
  /\ decision = [u \in Task |-> Undecided]

\* The task reads the whole log and writes behind it, atomically.
Decide(u) ==
  /\ decision[u] = Undecided
  /\ decision' = [decision EXCEPT ![u] = decision'[u]]
  /\ decision'[u].events # <<>>
  /\ log' = log \o decision'[u].events
  /\ \A r \in decision'[u].reads : r.seen = Sourced(log, r.query, 1, Len(log))

Next == \E u \in Task : Decide(u)

Spec == Init /\ [][Next]_<<log, decision>>
=============================================================================
