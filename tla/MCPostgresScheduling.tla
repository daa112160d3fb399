------------------------ MODULE MCPostgresScheduling ------------------------
(***************************************************************************)
(* Two schedules, two tasks, two nodes; a tick takes one schedule.         *)
(***************************************************************************)
EXTENDS PostgresScheduling

CONSTANTS s1, s2, t1, t2, n1, n2
=============================================================================
