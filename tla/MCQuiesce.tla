----------------------------- MODULE MCQuiesce -----------------------------
(***************************************************************************)
(* Quiesce with two contexts at the start and a third that a call creates; *)
(* the third shares the MM of the second.                                  *)
(***************************************************************************)
EXTENDS Quiesce

CONSTANTS c1, c2, c3, m1, m2

MCContexts == {c1, c2, c3}
MCFirst == {c1, c2}
MCMms == {m1, m2}
MCMm == [c \in MCContexts |-> IF c = c1 THEN m1 ELSE m2]

=============================================================================
