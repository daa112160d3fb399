------------------------ MODULE MCPostgresEventStore ------------------------
(***************************************************************************)
(* Two tags on two lock keys; reads of one tag and of either of the two;   *)
(* writers of one tag or of both.                                         *)
(***************************************************************************)
EXTENDS PostgresEventStore, TLC

CONSTANTS t1, t2, t3, A, B, Happened

On(tags) == [tags |-> tags, types |-> {}]
Ev(tags) == [type |-> Happened, tags |-> tags]

MCQuery == {{On({A})}, {On({A}), On({B})}}
MCSnapshotted == {{On({A})}}
MCBatch == {<<Ev({A})>>, <<Ev({B})>>, <<Ev({A, B})>>}
MCLockKey == A :> 2 @@ B :> 1

=============================================================================
