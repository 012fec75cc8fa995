------------------------------ MODULE OneCopy -------------------------------
(***************************************************************************)
(* What the two halves promise the program about one private page: it is   *)
(* one piece of memory.  There is a single current copy; a store is made   *)
(* where that copy is, by whoever has it mapped there; a copy on its way   *)
(* from one machine to the other is stored to by nobody and arrives as it  *)
(* left.  Nothing else changes the bytes the program can read.             *)
(*                                                                         *)
(* The bytes are abstracted to the number of stores made so far.           *)
(***************************************************************************)
EXTENDS Naturals

VARIABLES
    place,      \* which machine has the current copy, or "wire"
    val         \* the bytes of the current copy

vars == <<place, val>>

Machines == {"source", "destination"}

Init ==
    /\ place = "source"
    /\ val = 0

Store ==
    /\ place \in Machines
    /\ val' = val + 1
    /\ UNCHANGED place

Depart ==
    /\ place \in Machines
    /\ place' = "wire"
    /\ UNCHANGED val

Arrive ==
    /\ place = "wire"
    /\ place' \in Machines
    /\ UNCHANGED val

Next == Store \/ Depart \/ Arrive

Spec == Init /\ [][Next]_vars

=============================================================================
