--------------------------- MODULE MCPageService ----------------------------
(* The situations of PageService that TLC considers.  A private page: two  *)
(* contexts whose mappings never fail, one whose mappings may; and, where  *)
(* the books and not the bytes are claimed to be right, one with requests  *)
(* read late and two whose mappings may fail.  A sealed page and an        *)
(* unmapped address.                                                       *)
EXTENDS PageService

CONSTANTS c1, c2, k1, k2

Setting(class, tasks, refuses, late, most, cuts) ==
    [cls |-> class, tasks |-> tasks, refuses |-> refuses, late |-> late, stores |-> most,
     losses |-> cuts]

MCSettings ==
    {Setting("private", {c1, c2}, FALSE, FALSE, 1, 1),
     Setting("private", {c1}, TRUE, FALSE, 2, 2),
     Setting("private", {c1}, TRUE, TRUE, 1, 2),
     Setting("private", {c1, c2}, TRUE, FALSE, 0, 0),
     Setting("sealed", {c1, c2}, TRUE, FALSE, 0, 0),
     Setting("unmapped", {c1, c2}, TRUE, FALSE, 0, 0)}
=============================================================================
