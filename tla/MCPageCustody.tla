--------------------------- MODULE MCPageCustody ----------------------------
(***************************************************************************)
(* PageCustody on small instances.                                         *)
(***************************************************************************)
EXTENDS PageCustody, TLC

CONSTANTS th1, th2, t1, t2, c1, c2

Symmetry == Permutations({th1, th2}) \cup Permutations({t1, t2})
              \cup Permutations({c1, c2})
=============================================================================
