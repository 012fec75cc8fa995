-------------------------- MODULE MCExecutionTarget --------------------------
(***************************************************************************)
(* Instances of ExecutionTarget: a root that execs, and a child or thread; *)
(* m1 is the first image, m2 a copy of it, m3 a later image.               *)
(***************************************************************************)
EXTENDS ExecutionTarget

CONSTANTS m1, m2, m3, none

MCParent == [m \in MM |-> IF m = m2 THEN m1 ELSE none]
=============================================================================
