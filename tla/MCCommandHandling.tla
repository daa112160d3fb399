------------------------- MODULE MCCommandHandling -------------------------
(***************************************************************************)
(* Two accounts A and B, states scoped by one of them or by both, tasks    *)
(* that read one or several of them and write to either.                   *)
(***************************************************************************)
EXTENDS CommandHandling, TLC

CONSTANTS u1, u2, u3, A, B, Opened, Moved, accountA, accountB

MCQueryOf ==
  [k \in StateKey |-> {[tags |-> {IF k = accountA THEN A ELSE B},
                        types |-> {Opened, Moved}]}]

MCFolds == [k \in StateKey |-> {Opened, Moved}]

MCRawQuery ==
  {{[tags |-> {A}, types |-> {Opened}], [tags |-> {B}, types |-> {}]}}

MCHooks ==
  [u \in Task |-> IF u = u1
                  THEN {NoOverride, {[tags |-> {A}, types |-> {Moved}]}}
                  ELSE {NoOverride}]

MCAppendable == {[type |-> Moved, tags |-> {B}], [type |-> Moved, tags |-> {A, B}]}

\* One task that reads twice among tasks that read once.
MCMaxReads == [u \in Task |-> IF u = u1 THEN 2 ELSE 1]

TaskSymmetry == Permutations(Task \ {u1})
=============================================================================
