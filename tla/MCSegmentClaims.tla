--------------------------- MODULE MCSegmentClaims ---------------------------
(***************************************************************************)
(* Two nodes and a processor of one segment with two events; two faults.   *)
(***************************************************************************)
EXTENDS SegmentClaims

CONSTANTS n1, n2

MCHash == [e \in Event |-> e % 2]
=============================================================================
