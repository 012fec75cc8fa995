-------------------------- MODULE GuestKickProofs --------------------------
(***************************************************************************)
(* After the kick returns no running guest holds the taken page's          *)
(* translation, for any number of CPUs and takes.                          *)
(***************************************************************************)
EXTENDS GuestKick, FiniteSetTheorems, TLAPS

(* The CPUs that the counter counts.                                       *)
Inside == {c \in CPUs : cpu[c] # "host"}

(* Past its bump, a take's page is held by a CPU that will not flush it    *)
(* only if that CPU has not heard of the latest generation.                *)
Heard ==
    \A t \in Takers, c \in CPUs :
        /\ take[t].pc \in {"bumped", "kicking", "copy"}
        /\ take[t].page \in tlb[c]
        /\ cpu[c] # "armed"
        => cpuGen[c] < gen

(* A CPU that answered the interrupt, or that was in no guest when the     *)
(* counter was read, runs no guest on the page.                            *)
Reached ==
    \A t \in Takers, c \in CPUs :
        /\ \/ take[t].pc = "copy"
           \/ take[t].pc = "kicking" /\ c \notin take[t].due
        /\ cpu[c] \in {"unarmed", "guest"}
        => take[t].page \notin tlb[c]

Inv ==
    /\ TypeOK
    /\ running = Cardinality(Inside)
    /\ \A c \in CPUs : cpuGen[c] <= gen
    /\ gen > 0
    /\ \A t \in Takers : take[t].pc # "idle" => take[t].page \notin pte
    /\ Heard
    /\ Reached

-----------------------------------------------------------------------------
(* Counting: what one CPU's move does to the counter's set.                *)
LEMMA InsideFinite == IsFiniteSet(Inside)
  BY CPUsFinite, FS_Subset DEF Inside

LEMMA CounterKeeps ==
    ASSUME Inv, NEW c \in CPUs, cpu' \in [CPUs -> Places],
           \A d \in CPUs : d # c => cpu'[d] = cpu[d]
    PROVE  /\ cpu[c] = "host" /\ cpu'[c] # "host" => Cardinality(Inside') = running + 1
           /\ cpu[c] # "host" /\ cpu'[c] = "host" =>
                  running > 0 /\ Cardinality(Inside') = running - 1
           /\ cpu[c] # "host" /\ cpu'[c] # "host" => Cardinality(Inside') = running
  <1>1. CASE cpu[c] = "host" /\ cpu'[c] # "host"
    <2>1. Inside' = Inside \cup {c} /\ c \notin Inside
      BY <1>1 DEF Inside
    <2> QED  BY Zenon, <1>1, <2>1, InsideFinite, FS_AddElement DEF Inv
  <1>2. CASE cpu[c] # "host" /\ cpu'[c] = "host"
    <2>1. Inside' = Inside \ {c} /\ c \in Inside
      BY <1>2 DEF Inside
    <2>2. Cardinality(Inside') = Cardinality(Inside) - 1 /\ Inside # {}
      BY Zenon, <2>1, InsideFinite, FS_RemoveElement
    <2>3. Cardinality(Inside) \in Nat /\ Cardinality(Inside) # 0
      BY <2>2, InsideFinite, FS_CardinalityType, FS_EmptySet
    <2> QED  BY <1>2, <2>2, <2>3 DEF Inv
  <1>3. CASE cpu[c] # "host" /\ cpu'[c] # "host"
    <2>1. Inside' = Inside
      BY <1>3 DEF Inside
    <2> QED  BY <1>3, <2>1 DEF Inv
  <1> QED  BY <1>1, <1>2, <1>3

LEMMA NobodyInside ==
    ASSUME Inv, running = 0
    PROVE  \A c \in CPUs : cpu[c] = "host"
  BY InsideFinite, FS_EmptySet DEF Inv, Inside

-----------------------------------------------------------------------------
LEMMA InitInv == Init => Inv
  <1> SUFFICES ASSUME Init PROVE Inv
    OBVIOUS
  <1>1. PICK p \in Pages :
            take = [t \in Takers |-> [pc |-> "idle", page |-> p, due |-> {}]]
    BY Zenon DEF Init
  <1>2. TypeOK
    BY <1>1 DEF Init, TypeOK, Take, Places
  <1>3. running = Cardinality(Inside)
    <2>1. Inside = {}
      BY DEF Init, Inside
    <2> QED  BY <2>1, FS_EmptySet DEF Init
  <1> QED  BY <1>1, <1>2, <1>3 DEF Init, Inv, Heard, Reached

(* A CPU on its way into a guest and out of it.                            *)
LEMMA CPUKeeps ==
    ASSUME Inv, NEW c \in CPUs, CPUStep(c)
    PROVE  Inv'
  <1> USE DEF Inv
  <1>1. CASE Count(c)
    <2>1. TypeOK'
      BY <1>1 DEF Count, Move, TypeOK, Places
    <2>2. running' = Cardinality(Inside')
      BY <1>1, <2>1, CounterKeeps DEF Count, Move, TypeOK
    <2>3. Heard' /\ Reached'
      BY <1>1 DEF Count, Move, TypeOK, Heard, Reached
    <2> QED  BY <1>1, <2>1, <2>2, <2>3 DEF Count
  <1>2. CASE CheckGen(c)
    <2>1. TypeOK'
      BY <1>2 DEF CheckGen, Move, TypeOK, Places
    <2>2. running' = Cardinality(Inside')
      BY Zenon, <1>2, <2>1, CounterKeeps DEF CheckGen, Move, TypeOK
    <2>3. \A d \in CPUs : cpuGen'[d] <= gen'
      BY <1>2, VpidBoolean DEF CheckGen, TypeOK
    <2>4. \/ cpu'[c] = "armed"
          \/ cpu'[c] = "unarmed" /\ cpuGen[c] = gen
      BY <1>2 DEF CheckGen, Move, TypeOK
    <2>5. Heard'
      BY <1>2, <2>4, VpidBoolean DEF CheckGen, Move, TypeOK, Heard
    <2>6. Reached'
      BY <1>2, <2>4 DEF CheckGen, Move, TypeOK, Heard, Reached, Take
    <2> QED  BY <1>2, <2>1, <2>2, <2>3, <2>5, <2>6 DEF CheckGen
  <1>3. CASE Enter(c)
    <2>1. TypeOK'
      BY <1>3 DEF Enter, TypeOK, Places
    <2>2. running' = Cardinality(Inside')
      BY <1>3, <2>1, CounterKeeps DEF Enter, TypeOK
    <2>3. Heard'
      BY <1>3 DEF Enter, TypeOK, Heard
    <2>4. Reached'
      BY <1>3 DEF Enter, TypeOK, Reached
    <2> QED  BY <1>3, <2>1, <2>2, <2>3, <2>4 DEF Enter
  <1>4. CASE Exit(c)
    <2>1. TypeOK'
      BY <1>4 DEF Exit, Move, TypeOK, Places
    <2>2. running' = Cardinality(Inside')
      BY Zenon, <1>4, <2>1, CounterKeeps DEF Exit, Move, TypeOK
    <2>3. Heard' /\ Reached'
      BY <1>4 DEF Exit, Move, TypeOK, Heard, Reached
    <2> QED  BY <1>4, <2>1, <2>2, <2>3 DEF Exit
  <1>5. CASE Uncount(c)
    <2>1. cpu' \in [CPUs -> Places] /\ \A d \in CPUs : d # c => cpu'[d] = cpu[d]
      BY <1>5 DEF Uncount, Move, TypeOK, Places
    <2>2. running' = Cardinality(Inside') /\ running > 0
      BY Zenon, <1>5, <2>1, CounterKeeps DEF Uncount, Move, TypeOK
    <2>3. TypeOK'
      BY <1>5, <2>1, <2>2 DEF Uncount, Move, TypeOK
    <2>4. Heard' /\ Reached'
      BY Zenon, <1>5 DEF Uncount, Move, TypeOK, Heard, Reached
    <2> QED  BY <1>5, <2>2, <2>3, <2>4 DEF Uncount
  <1>6. ASSUME NEW p \in Pages, Walk(c, p) PROVE Inv'
    <2>1. TypeOK' /\ Inside' = Inside
      BY <1>6 DEF Walk, TypeOK, Inside
    <2>2. \A t \in Takers : take[t].pc # "idle" => take[t].page # p
      BY <1>6 DEF Walk
    <2>3. Heard' /\ Reached'
      BY <1>6, <2>2 DEF Walk, TypeOK, Heard, Reached
    <2> QED  BY <1>6, <2>1, <2>3 DEF Walk
  <1> QED  BY <1>1, <1>2, <1>3, <1>4, <1>5, <1>6 DEF CPUStep

(* A take.                                                                 *)
LEMMA TakeKeeps ==
    ASSUME Inv, NEW t \in Takers, TakeStep(t)
    PROVE  Inv'
  <1> USE DEF Inv
  <1>1. ASSUME NEW p \in Pages, Unmap(t, p) PROVE Inv'
    <2>1. TypeOK' /\ Inside' = Inside
      BY Zenon, <1>1 DEF Unmap, TypeOK, Inside, Take
    <2>2. Heard' /\ Reached'
      BY <1>1 DEF Unmap, TypeOK, Heard, Reached
    <2>3. \A u \in Takers : take'[u].pc # "idle" => take'[u].page \notin pte'
      BY <1>1 DEF Unmap, TypeOK
    <2> QED  BY <1>1, <2>1, <2>2, <2>3 DEF Unmap
  <1>2. CASE Bump(t)
    <2>1. TypeOK' /\ Inside' = Inside
      BY <1>2 DEF Bump, TypeOK, Inside, Take
    <2>2. gen' = gen + 1 /\ \A c \in CPUs : cpuGen'[c] < gen'
      BY <1>2 DEF Bump, TypeOK
    <2>3. Heard' /\ Reached'
      BY <1>2, <2>2 DEF Bump, TypeOK, Heard, Reached, Take
    <2>4. \A u \in Takers : take'[u].pc # "idle" => take'[u].page \notin pte'
      BY <1>2 DEF Bump, TypeOK, Take
    <2> QED  BY <1>2, <2>1, <2>2, <2>3, <2>4 DEF Bump, TypeOK
  <1>3. CASE Kick(t)
    <2>1. TypeOK' /\ Inside' = Inside
      BY <1>3, ZenonT(30) DEF Kick, TypeOK, Inside, Take
    <2>2. Heard'
      BY <1>3 DEF Kick, TypeOK, Heard, Take
    <2>3. Reached'
      <3>1. CASE running = 0
        BY Zenon, <1>3, <3>1, NobodyInside DEF Kick, TypeOK, Reached, Take
      <3>2. CASE running # 0
        BY <1>3, <3>2 DEF Kick, TypeOK, Reached, Take
      <3> QED  BY Zenon, <3>1, <3>2
    <2>4. \A u \in Takers : take'[u].pc # "idle" => take'[u].page \notin pte'
      BY <1>3 DEF Kick, TypeOK, Take
    <2> QED  BY Zenon, <1>3, <2>1, <2>2, <2>3, <2>4 DEF Kick
  <1>4. ASSUME NEW c \in CPUs, Interrupt(t, c) PROVE Inv'
    <2>1. TypeOK' /\ Inside' = Inside
      BY <1>4 DEF Interrupt, TypeOK, Inside, Take
    <2>2. Heard' /\ Reached'
      BY <1>4 DEF Interrupt, TypeOK, Heard, Reached, Take
    <2>3. \A u \in Takers : take'[u].pc # "idle" => take'[u].page \notin pte'
      BY <1>4 DEF Interrupt, TypeOK, Take
    <2> QED  BY Zenon, <1>4, <2>1, <2>2, <2>3 DEF Interrupt
  <1>5. CASE Kicked(t)
    <2>1. TypeOK' /\ Inside' = Inside
      BY <1>5 DEF Kicked, TypeOK, Inside, Take
    <2>2. Heard' /\ Reached'
      BY <1>5 DEF Kicked, TypeOK, Heard, Reached, Take
    <2>3. \A u \in Takers : take'[u].pc # "idle" => take'[u].page \notin pte'
      BY <1>5 DEF Kicked, TypeOK, Take
    <2> QED  BY <1>5, <2>1, <2>2, <2>3 DEF Kicked
  <1>6. CASE TakeEnds(t)
    <2>1. TypeOK' /\ Inside' = Inside
      BY <1>6 DEF TakeEnds, TypeOK, Inside, Take
    <2>2. Heard' /\ Reached'
      BY <1>6 DEF TakeEnds, TypeOK, Heard, Reached, Take
    <2>3. \A u \in Takers : take'[u].pc # "idle" => take'[u].page \notin pte'
      BY <1>6 DEF TakeEnds, TypeOK, Take
    <2> QED  BY <1>6, <2>1, <2>2, <2>3 DEF TakeEnds
  <1> QED  BY Zenon, <1>1, <1>2, <1>3, <1>4, <1>5, <1>6 DEF TakeStep

(* A page that no take is on is mapped again.                              *)
LEMMA MapKeeps ==
    ASSUME Inv, NEW p \in Pages, Map(p)
    PROVE  Inv'
  <1>1. TypeOK' /\ Inside' = Inside
    BY Zenon DEF Inv, Map, TypeOK, Inside
  <1> QED  BY Zenon, <1>1 DEF Inv, Map, Taken, Heard, Reached

(* Inv is inductive: GuestKick's entry and kick keep it at every step.     *)
THEOREM Invariance == Spec => []Inv
  <1>1. Inv /\ [Next]_vars => Inv'
    <2> SUFFICES ASSUME Inv, [Next]_vars PROVE Inv'
      OBVIOUS
    <2>1. CASE UNCHANGED vars
      BY Zenon, <2>1 DEF vars, Inv, TypeOK, Inside, Heard, Reached
    <2>2. CASE Next
      BY <2>2, CPUKeeps, TakeKeeps, MapKeeps DEF Next
    <2> QED  BY <2>1, <2>2
  <1> QED  BY <1>1, InitInv, PTL DEF Spec

(* svm_vmrun_once_gpr and vmctx_kick_guests: whichever way an entry and a  *)
(* take interleave, a take that copies its page has it to itself.          *)
THEOREM TakeIsAlone == Spec => []Unreachable
  <1>1. Inv => Unreachable
    BY Zenon DEF Inv, Reached, Unreachable
  <1> QED  BY <1>1, Invariance, PTL

=============================================================================
