----------------------------- MODULE MCCowGraph -----------------------------
(* Families of up to three address spaces for TLC: two copies of one       *)
(* original; a copy of a copy; one copy, also of a page that is mapped     *)
(* anew; and one copy whose requests another space's break may fall into.  *)
EXTENDS CowGraph, TLC

CONSTANTS p0, c, d

Twins == (p0 :> None) @@ (c :> p0) @@ (d :> p0)
Pair == (p0 :> None) @@ (c :> p0) @@ (d :> None)
Line == (p0 :> None) @@ (c :> p0) @@ (d :> c)

Family(tree, was, leavers, early, whole, most) ==
    [parent |-> tree, held |-> was, vacaters |-> leavers, first |-> early,
     threads |-> FALSE, atomic |-> whole, stores |-> most]

MCFamilies ==
    {Family(Twins, TRUE, {}, {c, d}, TRUE, 3),
     Family(Line, FALSE, {p0}, {}, TRUE, 2),
     Family(Pair, FALSE, {p0}, {c}, TRUE, 4),
     Family(Pair, FALSE, {p0}, {c}, FALSE, 3)}
=============================================================================
