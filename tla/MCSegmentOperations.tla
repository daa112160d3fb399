------------------------- MODULE MCSegmentOperations -------------------------
(***************************************************************************)
(* Two nodes, a processor set up with one segment or two, an event that    *)
(* belongs to the second half, and an operation.                           *)
(***************************************************************************)
EXTENDS SegmentOperations, TLC

CONSTANTS n1, n2

MCHash == [e \in Event |-> e % 2]
NodeSymmetry == Permutations(Node)
=============================================================================
