---------------------------- MODULE MCKronosDbBus ----------------------------
(***************************************************************************)
(* Two names, a command for one of them, and a request of the application's *)
(* own; windows and limits at their smallest, so that each is met. Several  *)
(* commands in flight, and their limit, are left to the proofs.             *)
(***************************************************************************)
EXTENDS KronosDbBus

CONSTANTS n1, n2, c1, r1

MCNameOf == [c \in Command |-> n1]
=============================================================================
