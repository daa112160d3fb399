-------------------------- MODULE MCPostgresStream --------------------------
(***************************************************************************)
(* Three writers, two of a tag the processor wants and one of another.     *)
(***************************************************************************)
EXTENDS PostgresStream

CONSTANTS t1, t2, t3, A, B, Happened

MCFilter == {[tags |-> {A}, types |-> {}]}
MCAppended ==
  [t \in Tx |-> [type |-> Happened, tags |-> IF t = t3 THEN {B} ELSE {A}]]
=============================================================================
