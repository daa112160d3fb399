---------------------------- MODULE MCDeadLetters ----------------------------
(***************************************************************************)
(* Four events in two lanes, two handlers, two replayers; a lane holds two *)
(* letters and the queue one lane, so that both overflow.                  *)
(***************************************************************************)
EXTENDS DeadLetters

CONSTANTS r1, r2

MCLane == [e \in Event |-> IF e = 2 THEN "b" ELSE "a"]
=============================================================================
