--------------------------- MODULE QuiesceProofs ---------------------------
(***************************************************************************)
(* A held snapshot freezes its address space, and a closed gate has a      *)
(* lease, for any number of contexts however they share execution MMs.     *)
(***************************************************************************)
EXTENDS Quiesce, FiniteSetTheorems, TLAPS

(* The tasks in hardware and the leases that an MM's two counters count.   *)
Guests(m) == {c \in Contexts : at[c] = "guest" /\ Mm[c] = m}
Closers(m) == {l \in leases : Mm[l[2]] = m}

Counted ==
    \A m \in Mms : /\ running[m] = Cardinality(Guests(m))
                   /\ paused[m] = Cardinality(Closers(m))

Lives ==
    \A c \in Contexts :
        /\ at[c] \in {"gate", "guest"} => life[c] = "alive"
        /\ life[c] = "unborn" => at[c] = "unarmed"

(* Only the mutex's holder is in a snapshot, and only it has a new child,  *)
(* which does not run yet.                                                 *)
Locked ==
    \A c \in Contexts :
        /\ svc[c].pc \notin {"idle", "serial"} => serial = c
        /\ svc[c].child # None => svc[c].pc \in {"held", "ending"}

Newborn ==
    \A c \in Contexts : svc[c].child # None =>
        /\ life[svc[c].child] # "unborn"
        /\ life[svc[c].child] = "alive" => at[svc[c].child] = "unarmed"

(* A lease belongs to a snapshot that has dealt with its member, or waits  *)
(* for it.                                                                 *)
Begun ==
    ~stopping => \A c, d \in Contexts : <<c, d>> \in leases =>
        /\ svc[c].pc \notin {"idle", "serial"}
        /\ svc[c].pc \in {"next", "wait", "late"} /\ d \in svc[c].left =>
               svc[c].pc = "wait" /\ d = svc[c].cur

Awaited ==
    \A c \in Contexts :
        /\ svc[c].pc = "wait" /\ ~stopping =>
               <<c, svc[c].cur>> \in leases /\ svc[c].cur \in svc[c].left
        /\ svc[c].pc = "held" => svc[c].left = {}

Taking(c) == svc[c].pc \in {"next", "wait", "late", "held"} /\ ~stopping

(* Every live context is still to be paused, paused, or the new child.     *)
Covered ==
    \A c, d \in Contexts : Taking(c) /\ life[d] = "alive" =>
        d \in svc[c].left \/ <<c, d>> \in leases \/ d = svc[c].child

(* A lease that was granted keeps its MM out of hardware.                  *)
Quiet ==
    \A c, d \in Contexts :
        /\ Taking(c) /\ <<c, d>> \in leases
        /\ svc[c].pc = "wait" => d # svc[c].cur
        => running[Mm[d]] = 0

Inv == /\ TypeOK /\ Counted /\ Lives /\ Locked /\ Newborn
       /\ Begun /\ Awaited /\ Covered /\ Quiet

-----------------------------------------------------------------------------
(* Both counters count finite sets.                                        *)
LEMMA Finite ==
    ASSUME TypeOK, NEW m \in Mms
    PROVE  IsFiniteSet(Guests(m)) /\ IsFiniteSet(Closers(m))
  <1>1. IsFiniteSet(Contexts \X Contexts)
    BY ContextsFinite, FS_Product
  <1>2. Guests(m) \subseteq Contexts /\ Closers(m) \subseteq Contexts \X Contexts
    BY DEF TypeOK, Guests, Closers
  <1> QED  BY Zenon, <1>1, <1>2, ContextsFinite, FS_Subset

(* A counter at zero counts nobody; one that counts somebody is positive.  *)
LEMMA Zero ==
    ASSUME TypeOK, Counted, NEW m \in Mms
    PROVE  /\ running[m] = 0 => \A c \in Contexts : Mm[c] = m => at[c] # "guest"
           /\ paused[m] = 0 => \A l \in leases : Mm[l[2]] # m
           /\ paused[m] > 0 => \E l \in leases : Mm[l[2]] = m
  <1>1. running[m] = 0 => Guests(m) = {}
    BY Finite, FS_EmptySet DEF Counted
  <1>2. paused[m] = 0 <=> Closers(m) = {}
    BY Finite, FS_EmptySet DEF Counted
  <1>3. \A c \in Contexts : at[c] = "guest" /\ Mm[c] = m => c \in Guests(m)
    BY DEF Guests
  <1>4. \A l : l \in Closers(m) <=> l \in leases /\ Mm[l[2]] = m
    BY DEF Closers
  <1>5. paused[m] \in Nat
    BY DEF TypeOK
  <1> QED  BY <1>1, <1>2, <1>3, <1>4, <1>5

(* A snapshot record with some fields set is a snapshot record.            *)
LEMMA SnapshotTyped ==
    ASSUME NEW r \in Snapshot, NEW L \in SUBSET Contexts, NEW d \in Contexts,
           NEW p \in {"idle", "serial", "next", "wait", "late", "held", "ending"}
    PROVE  /\ [r EXCEPT !.left = L] \in Snapshot
           /\ [r EXCEPT !.pc = p, !.left = L] \in Snapshot
           /\ [r EXCEPT !.pc = p, !.cur = d] \in Snapshot
           /\ [r EXCEPT !.pc = p, !.failed = TRUE] \in Snapshot
  BY Zenon DEF Snapshot

(* One task enters or leaves hardware.                                     *)
LEMMA EnterCounts ==
    ASSUME TypeOK, Counted, NEW c \in Contexts, at[c] # "guest",
           at' = [at EXCEPT ![c] = "guest"], leases' = leases, paused' = paused,
           running' = [running EXCEPT ![Mm[c]] = @ + 1]
    PROVE  Counted'
  <1> SUFFICES ASSUME NEW m \in Mms
      PROVE running'[m] = Cardinality(Guests(m)') /\ paused'[m] = Cardinality(Closers(m)')
    BY DEF Counted
  <1>1. Closers(m)' = Closers(m)
    BY DEF Closers
  <1>2. CASE Mm[c] = m
    <2>1. Guests(m)' = Guests(m) \cup {c} /\ c \notin Guests(m)
      BY <1>2 DEF Guests, TypeOK
    <2>2. running'[m] = running[m] + 1
      BY <1>2 DEF TypeOK
    <2>3. Cardinality(Guests(m)') = Cardinality(Guests(m)) + 1
      BY Zenon, <2>1, Finite, FS_AddElement
    <2> QED  BY <1>1, <2>2, <2>3 DEF Counted
  <1>3. CASE Mm[c] # m
    <2>1. Guests(m)' = Guests(m)
      BY <1>3 DEF Guests, TypeOK
    <2> QED  BY <1>1, <1>3, <2>1 DEF Counted, TypeOK
  <1> QED  BY <1>2, <1>3

LEMMA LeaveCounts ==
    ASSUME TypeOK, Counted, NEW c \in Contexts, at[c] = "guest",
           at' = [at EXCEPT ![c] = "host"], leases' = leases, paused' = paused,
           running' = [running EXCEPT ![Mm[c]] = @ - 1]
    PROVE  Counted' /\ running[Mm[c]] > 0
  <1>1. running[Mm[c]] > 0
    <2>1. Mm[c] \in Mms /\ running[Mm[c]] \in Nat
      BY Zenon, MmTyped DEF TypeOK
    <2> QED  BY <2>1, Zero
  <1> SUFFICES ASSUME NEW m \in Mms
      PROVE running'[m] = Cardinality(Guests(m)') /\ paused'[m] = Cardinality(Closers(m)')
    BY Zenon, <1>1 DEF Counted
  <1>2. Closers(m)' = Closers(m)
    BY Zenon DEF Closers
  <1>3. CASE Mm[c] = m
    <2>1. Guests(m)' = Guests(m) \ {c} /\ c \in Guests(m)
      BY Zenon, <1>3 DEF Guests, TypeOK
    <2> QED  BY Zenon, <1>2, <1>3, <2>1, Finite, FS_RemoveElement DEF Counted, TypeOK
  <1>4. CASE Mm[c] # m
    <2>1. Guests(m)' = Guests(m)
      BY Zenon, <1>4 DEF Guests, TypeOK
    <2> QED  BY Zenon, <1>2, <1>4, <2>1 DEF Counted, TypeOK
  <1> QED  BY Zenon, <1>3, <1>4

(* One lease is begun or ended.                                            *)
LEMMA BeginCounts ==
    ASSUME TypeOK, Counted, NEW c \in Contexts, NEW d \in Contexts, <<c, d>> \notin leases,
           at' = at, leases' = leases \cup {<<c, d>>}, running' = running,
           paused' = [paused EXCEPT ![Mm[d]] = @ + 1]
    PROVE  Counted'
  <1> SUFFICES ASSUME NEW m \in Mms
      PROVE running'[m] = Cardinality(Guests(m)') /\ paused'[m] = Cardinality(Closers(m)')
    BY Zenon DEF Counted
  <1>1. Guests(m)' = Guests(m)
    BY Zenon DEF Guests
  <1>2. CASE Mm[d] = m
    <2>1. Closers(m)' = Closers(m) \cup {<<c, d>>} /\ <<c, d>> \notin Closers(m)
      BY <1>2 DEF Closers
    <2>2. paused'[m] = paused[m] + 1
      BY Zenon, <1>2 DEF TypeOK
    <2>3. Cardinality(Closers(m)') = Cardinality(Closers(m)) + 1
      BY Zenon, <2>1, Finite, FS_AddElement
    <2> QED  BY Zenon, <1>1, <2>2, <2>3 DEF Counted
  <1>3. CASE Mm[d] # m
    <2>1. Closers(m)' = Closers(m)
      BY <1>3 DEF Closers
    <2> QED  BY Zenon, <1>1, <1>3, <2>1 DEF Counted, TypeOK
  <1> QED  BY Zenon, <1>2, <1>3

LEMMA EndCounts ==
    ASSUME TypeOK, Counted, NEW c \in Contexts, NEW d \in Contexts, EndLease(c, d),
           at' = at, running' = running
    PROVE  Counted' /\ paused[Mm[d]] > 0
  <1>1. paused[Mm[d]] > 0
    <2>1. <<c, d>> \in leases /\ <<c, d>>[2] = d
      BY DEF EndLease
    <2>2. Mm[d] \in Mms /\ paused[Mm[d]] \in Nat
      BY Zenon, MmTyped DEF TypeOK
    <2> QED  BY <2>1, <2>2, Zero
  <1> SUFFICES ASSUME NEW m \in Mms
      PROVE running'[m] = Cardinality(Guests(m)') /\ paused'[m] = Cardinality(Closers(m)')
    BY Zenon, <1>1 DEF Counted
  <1>2. Guests(m)' = Guests(m)
    BY Zenon DEF Guests
  <1>3. CASE Mm[d] = m
    <2>1. Closers(m)' = Closers(m) \ {<<c, d>>} /\ <<c, d>> \in Closers(m)
      BY Zenon, <1>3 DEF Closers, EndLease
    <2>2. paused'[m] = paused[m] - 1
      BY Zenon, <1>3 DEF TypeOK, EndLease
    <2>3. Cardinality(Closers(m)') = Cardinality(Closers(m)) - 1
      BY Zenon, <2>1, Finite, FS_RemoveElement
    <2> QED  BY Zenon, <1>2, <2>2, <2>3 DEF Counted
  <1>4. CASE Mm[d] # m
    <2>1. Closers(m)' = Closers(m)
      BY <1>4 DEF Closers, EndLease
    <2> QED  BY Zenon, <1>2, <1>4, <2>1 DEF Counted, TypeOK, EndLease
  <1> QED  BY Zenon, <1>3, <1>4

LEMMA SameCounts ==
    ASSUME Counted, leases' = leases, paused' = paused, running' = running,
           \A c \in Contexts : at'[c] = "guest" <=> at[c] = "guest"
    PROVE  Counted'
  <1>1. ASSUME NEW m \in Mms PROVE Guests(m)' = Guests(m) /\ Closers(m)' = Closers(m)
    BY Zenon DEF Guests, Closers
  <1> QED  BY Zenon, <1>1 DEF Counted

-----------------------------------------------------------------------------
LEMMA InitInv == Init => Inv
  <1> SUFFICES ASSUME Init PROVE Inv
    OBVIOUS
  <1>1. TypeOK
    BY Zenon, FirstTyped DEF Init, TypeOK, Snapshot, Idle
  <1>2. Counted
    <2> SUFFICES ASSUME NEW m \in Mms
        PROVE running[m] = Cardinality(Guests(m)) /\ paused[m] = Cardinality(Closers(m))
      BY Zenon DEF Counted
    <2>1. Guests(m) = {} /\ Closers(m) = {}
      BY Zenon DEF Init, Guests, Closers
    <2> QED  BY Zenon, <2>1, FS_EmptySet DEF Init
  <1>3. Lives /\ Locked /\ Newborn /\ Begun /\ Awaited /\ Covered /\ Quiet
    BY Zenon DEF Init, Idle, Lives, Locked, Newborn, Begun, Awaited, Covered, Quiet, Taking
  <1> QED  BY Zenon, <1>1, <1>2, <1>3 DEF Inv

(* The execution tasks.                                                    *)
LEMMA ArriveKeeps ==
    ASSUME Inv, NEW c \in Contexts, Arrive(c)
    PROVE  Inv'
  <1> USE DEF Inv
  <1>1. Counted'
    BY Zenon, SameCounts DEF Arrive, TypeOK
  <1>2. TypeOK'
    BY Zenon DEF Arrive, TypeOK
  <1>3. Lives' /\ Locked' /\ Newborn'
    BY DEF Arrive, TypeOK, Lives, Locked, Newborn
  <1>4. Begun' /\ Awaited' /\ Covered' /\ Quiet'
    BY DEF Arrive, TypeOK, Begun, Awaited, Covered, Taking, Quiet
  <1> QED  BY Zenon, <1>1, <1>2, <1>3, <1>4

LEMMA EnterKeeps ==
    ASSUME Inv, NEW c \in Contexts, Enter(c)
    PROVE  Inv'
  <1> USE DEF Inv
  <1>0. \A d, e \in Contexts : <<e, d>> \in leases => Mm[d] # Mm[c]
    <2>1. Mm[c] \in Mms /\ paused[Mm[c]] = 0
      BY Zenon, MmTyped DEF Enter
    <2>2. \A l \in leases : Mm[l[2]] # Mm[c]
      BY Zenon, <2>1, Zero
    <2>3. \A d, e \in Contexts : <<e, d>>[2] = d
      OBVIOUS
    <2> QED  BY Zenon, <2>2, <2>3
  <1>1. Counted'
    BY Zenon, EnterCounts DEF Enter
  <1>2. TypeOK'
    <2>2. Mm[c] \in Mms
      BY Zenon, MmTyped DEF TypeOK
    <2> QED  BY <2>2 DEF Enter, TypeOK
  <1>3. Quiet'
    BY <1>0 DEF Enter, TypeOK, Quiet, Taking
  <1>4. Lives' /\ Locked' /\ Newborn'
    BY DEF Enter, TypeOK, Lives, Locked, Newborn
  <1>5. Begun' /\ Awaited' /\ Covered'
    BY Zenon DEF Enter, TypeOK, Begun, Awaited, Covered, Taking
  <1> QED  BY Zenon, <1>1, <1>2, <1>3, <1>4, <1>5

LEMMA LeaveKeeps ==
    ASSUME Inv, NEW c \in Contexts, Leave(c)
    PROVE  Inv'
  <1> USE DEF Inv
  <1>0. running[Mm[c]] > 0
    BY Zenon, LeaveCounts DEF Leave
  <1>1. Counted'
    BY Zenon, LeaveCounts DEF Leave
  <1>2. TypeOK'
    <2>2. Mm[c] \in Mms
      BY Zenon, MmTyped DEF TypeOK
    <2>3. running[Mm[c]] > 0
      BY Zenon, <2>2, LeaveCounts DEF Leave, TypeOK, Snapshot
    <2>4. running[Mm[c]] - 1 \in Nat
      BY <2>2, <2>3 DEF TypeOK
    <2> QED  BY Zenon, <2>2, <2>4 DEF Leave, TypeOK
  <1>3. Quiet'
    BY <1>0 DEF Leave, TypeOK, Quiet, Taking
  <1>4. Lives' /\ Locked' /\ Newborn'
    BY DEF Leave, TypeOK, Lives, Locked, Newborn
  <1>5. Begun' /\ Awaited' /\ Covered'
    BY Zenon DEF Leave, TypeOK, Begun, Awaited, Covered, Taking
  <1> QED  BY Zenon, <1>1, <1>2, <1>3, <1>4, <1>5

LEMMA DieKeeps ==
    ASSUME Inv, NEW c \in Contexts, Die(c)
    PROVE  Inv'
  <1> USE DEF Inv
  <1>1. Counted'
    BY Zenon, SameCounts DEF Die, TypeOK
  <1>2. TypeOK'
    BY Zenon DEF Die, TypeOK
  <1>3. Lives' /\ Locked' /\ Newborn'
    BY DEF Die, TypeOK, Lives, Locked, Newborn
  <1>4. Begun' /\ Awaited' /\ Covered' /\ Quiet'
    BY Zenon DEF Die, TypeOK, Begun, Awaited, Covered, Taking, Quiet
  <1> QED  BY Zenon, <1>1, <1>2, <1>3, <1>4

(* The service thread asks for a snapshot and pauses the members.          *)
LEMMA AdmittedKeeps ==
    ASSUME Inv, NEW c \in Contexts, Admitted(c)
    PROVE  Inv'
  <1> USE DEF Inv
  <1>1. Counted'
    BY Zenon, SameCounts DEF Admitted, TypeOK
  <1>2. TypeOK'
    <2>1. svc' \in [Contexts -> Snapshot]
      BY NoneOutside DEF Admitted, TypeOK, Snapshot
    <2> QED  BY Zenon, <2>1 DEF Admitted, TypeOK
  <1>3. Lives' /\ Locked' /\ Newborn'
    BY DEF Admitted, TypeOK, Snapshot, Lives, Locked, Newborn
  <1>4. Begun' /\ Awaited' /\ Covered' /\ Quiet'
    BY DEF Admitted, TypeOK, Snapshot, Begun, Awaited, Covered, Taking, Quiet
  <1> QED  BY Zenon, <1>1, <1>2, <1>3, <1>4

LEMMA LockKeeps ==
    ASSUME Inv, NEW c \in Contexts, Lock(c)
    PROVE  Inv'
  <1> USE DEF Inv
  <1>1. Counted'
    BY Zenon, SameCounts DEF Lock, TypeOK
  <1>2. TypeOK'
    <2>1. svc' \in [Contexts -> Snapshot]
      <3>1. svc[c] \in Snapshot /\ Members \in SUBSET Contexts
        BY Zenon DEF TypeOK, Snapshot, Members
      <3>2. [svc[c] EXCEPT !.pc = "next", !.left = Members] \in Snapshot
        BY <3>1, SnapshotTyped, Zenon
      <3>3. svc' = [svc EXCEPT ![c] = [svc[c] EXCEPT !.pc = "next", !.left = Members]]
        BY Zenon DEF Lock, TypeOK
      <3> QED  BY Zenon, <3>2, <3>3 DEF TypeOK
    <2> QED  BY Zenon, <2>1 DEF Lock, TypeOK
  <1>3. Locked'
    BY NoneOutside DEF Lock, TypeOK, Snapshot, Locked
  <1>4. Lives' /\ Newborn'
    BY DEF Lock, TypeOK, Snapshot, Lives, Newborn, Locked
  <1>5. Begun' /\ Awaited' /\ Covered' /\ Quiet'
    BY DEF Lock, TypeOK, Snapshot, Begun, Locked, Awaited, Covered, Taking, Members, Quiet
  <1> QED  BY Zenon, <1>1, <1>2, <1>3, <1>4, <1>5

LEMMA BeginKeeps ==
    ASSUME Inv, NEW c \in Contexts, NEW d \in Contexts, Begin(c, d)
    PROVE  Inv'
  <1> USE DEF Inv
  <1>0. <<c, d>> \notin leases
    BY Zenon DEF Begin, Begun
  <1>1. Counted'
    BY <1>0, BeginCounts, ZenonT(30) DEF Begin
  <1>2. TypeOK'
    <2>1. svc' \in [Contexts -> Snapshot]
      <3>1. svc[c] \in Snapshot /\ svc[c].left \in SUBSET Contexts
        BY Zenon DEF TypeOK, Snapshot
      <3>2. [svc[c] EXCEPT !.pc = "wait", !.cur = d] \in Snapshot
        BY <3>1, SnapshotTyped, Zenon
      <3>3. svc' = [svc EXCEPT ![c] = [svc[c] EXCEPT !.pc = "wait", !.cur = d]]
        BY Zenon DEF Begin, TypeOK
      <3> QED  BY Zenon, <3>2, <3>3 DEF TypeOK
    <2>2. Mm[d] \in Mms
      BY Zenon, MmTyped DEF TypeOK
    <2> QED  BY <2>1, <2>2 DEF Begin, TypeOK
  <1>3. Lives' /\ Locked' /\ Newborn'
    BY DEF Begin, TypeOK, Snapshot, Lives, Locked, Newborn
  <1>4. Begun' /\ Awaited' /\ Covered' /\ Quiet'
    BY DEF Begin, TypeOK, Snapshot, Begun, Awaited, Covered, Taking, Quiet
  <1> QED  BY Zenon, <1>1, <1>2, <1>3, <1>4

LEMMA BeginRefusedKeeps ==
    ASSUME Inv, NEW c \in Contexts, NEW d \in Contexts, BeginRefused(c, d)
    PROVE  Inv'
  <1> USE DEF Inv
  <1>1. Counted'
    BY Zenon, SameCounts DEF BeginRefused, TypeOK
  <1>2. TypeOK'
    <2>1. svc' \in [Contexts -> Snapshot]
      <3>1. svc[c] \in Snapshot /\ svc[c].left \in SUBSET Contexts
        BY Zenon DEF TypeOK, Snapshot
      <3>2. [svc[c] EXCEPT !.pc = "late", !.cur = d] \in Snapshot
        BY <3>1, SnapshotTyped, Zenon
      <3>3. svc' = [svc EXCEPT ![c] = [svc[c] EXCEPT !.pc = "late", !.cur = d]]
        BY Zenon DEF BeginRefused, TypeOK
      <3> QED  BY Zenon, <3>2, <3>3 DEF TypeOK
    <2> QED  BY Zenon, <2>1 DEF BeginRefused, TypeOK
  <1>3. Lives' /\ Locked' /\ Newborn'
    BY DEF BeginRefused, TypeOK, Snapshot, Lives, Locked, Newborn
  <1>4. Begun' /\ Awaited' /\ Covered' /\ Quiet'
    BY DEF BeginRefused, TypeOK, Snapshot, Begun, Awaited, Covered, Taking, Quiet
  <1> QED  BY Zenon, <1>1, <1>2, <1>3, <1>4

LEMMA BeginEndedKeeps ==
    ASSUME Inv, NEW c \in Contexts, NEW d \in Contexts, BeginEnded(c, d)
    PROVE  Inv'
  <1> USE DEF Inv
  <1>1. Counted'
    BY Zenon, SameCounts DEF BeginEnded, TypeOK
  <1>2. TypeOK'
    <2>1. svc' \in [Contexts -> Snapshot]
      <3>1. svc[c] \in Snapshot /\ svc[c].left \ {d} \in SUBSET Contexts
        BY Zenon DEF TypeOK, Snapshot
      <3>2. /\ [svc[c] EXCEPT !.pc = "ending", !.failed = TRUE] \in Snapshot
            /\ [svc[c] EXCEPT !.left = svc[c].left \ {d}] \in Snapshot
        BY <3>1, SnapshotTyped, Zenon
      <3>3. \/ svc' = [svc EXCEPT ![c] = [svc[c] EXCEPT !.pc = "ending", !.failed = TRUE]]
            \/ svc' = [svc EXCEPT ![c] = [svc[c] EXCEPT !.left = svc[c].left \ {d}]]
        BY ZenonT(30) DEF BeginEnded, TypeOK
      <3> QED  BY Zenon, <3>2, <3>3 DEF TypeOK
    <2> QED  BY Zenon, <2>1 DEF BeginEnded, TypeOK
  <1>3. Lives' /\ Locked' /\ Newborn'
    BY DEF BeginEnded, TypeOK, Snapshot, Lives, Locked, Newborn
  <1>4. Begun' /\ Awaited' /\ Covered' /\ Quiet'
    BY DEF BeginEnded, TypeOK, Snapshot, Begun, Awaited, Covered, Taking, Quiet
  <1> QED  BY Zenon, <1>1, <1>2, <1>3, <1>4

LEMMA GrantedKeeps ==
    ASSUME Inv, NEW c \in Contexts, Granted(c)
    PROVE  Inv'
  <1> USE DEF Inv
  <1>1. Counted'
    BY Zenon, SameCounts DEF Granted, TypeOK
  <1>2. TypeOK'
    <2>1. svc' \in [Contexts -> Snapshot]
      <3>1. svc[c] \in Snapshot /\ svc[c].left \in SUBSET Contexts
        BY Zenon DEF TypeOK, Snapshot
      <3>2. [svc[c] EXCEPT !.pc = "next", !.left = svc[c].left \ {svc[c].cur}] \in Snapshot
        BY <3>1, SnapshotTyped, Zenon
      <3>3. svc' = [svc EXCEPT ![c] = [svc[c] EXCEPT !.pc = "next", !.left = svc[c].left \ {svc[c].cur}]]
        BY Zenon DEF Granted, TypeOK
      <3> QED  BY Zenon, <3>2, <3>3 DEF TypeOK
    <2> QED  BY Zenon, <2>1 DEF Granted, TypeOK
  <1>3. Lives' /\ Locked' /\ Newborn'
    BY DEF Granted, TypeOK, Snapshot, Lives, Locked, Newborn
  <1>4. Begun' /\ Awaited' /\ Covered' /\ Quiet'
    BY DEF Granted, TypeOK, Snapshot, Begun, Awaited, Covered, Taking, Quiet
  <1> QED  BY Zenon, <1>1, <1>2, <1>3, <1>4

LEMMA TimedOutKeeps ==
    ASSUME Inv, NEW c \in Contexts, TimedOut(c)
    PROVE  Inv'
  <1> USE DEF Inv
  <1>1. Counted'
    BY Zenon, EndCounts DEF TimedOut, TypeOK, Snapshot
  <1>2. TypeOK'
    <2>1. svc' \in [Contexts -> Snapshot]
      BY NoneOutside DEF TimedOut, EndLease, TypeOK, Snapshot
    <2>2. Mm[svc[c].cur] \in Mms
      BY Zenon, MmTyped DEF TypeOK, Snapshot
    <2>3. paused[Mm[svc[c].cur]] > 0
      BY Zenon, <2>2, EndCounts DEF TimedOut, TypeOK, Snapshot
    <2>4. paused[Mm[svc[c].cur]] - 1 \in Nat
      BY <2>2, <2>3 DEF TypeOK
    <2> QED  BY Zenon, <2>1, <2>2, <2>4 DEF TimedOut, EndLease, TypeOK
  <1>3. Lives' /\ Locked' /\ Newborn'
    BY DEF TimedOut, EndLease, TypeOK, Snapshot, Lives, Locked, Newborn
  <1>4. Begun' /\ Awaited' /\ Covered' /\ Quiet'
    BY DEF TimedOut, EndLease, TypeOK, Snapshot, Begun, Awaited, Covered, Taking, Quiet
  <1> QED  BY Zenon, <1>1, <1>2, <1>3, <1>4

LEMMA LateEndedKeeps ==
    ASSUME Inv, NEW c \in Contexts, LateEnded(c)
    PROVE  Inv'
  <1> USE DEF Inv
  <1>1. Counted'
    BY Zenon, SameCounts DEF LateEnded, TypeOK
  <1>2. TypeOK'
    <2>1. svc' \in [Contexts -> Snapshot]
      <3>1. svc[c] \in Snapshot /\ svc[c].left \in SUBSET Contexts
        BY Zenon DEF TypeOK, Snapshot
      <3>2. [svc[c] EXCEPT !.pc = "next", !.left = svc[c].left \ {svc[c].cur}] \in Snapshot
        BY <3>1, SnapshotTyped, Zenon
      <3>3. svc' = [svc EXCEPT ![c] = [svc[c] EXCEPT !.pc = "next", !.left = svc[c].left \ {svc[c].cur}]]
        BY ZenonT(30) DEF LateEnded, TypeOK
      <3> QED  BY Zenon, <3>2, <3>3 DEF TypeOK
    <2> QED  BY Zenon, <2>1 DEF LateEnded, TypeOK
  <1>3. Lives' /\ Locked' /\ Newborn'
    BY DEF LateEnded, TypeOK, Snapshot, Lives, Locked, Newborn
  <1>4. Begun' /\ Awaited' /\ Covered' /\ Quiet'
    BY DEF LateEnded, TypeOK, Snapshot, Begun, Awaited, Covered, Taking, Quiet
  <1> QED  BY Zenon, <1>1, <1>2, <1>3, <1>4

LEMMA LateFailsKeeps ==
    ASSUME Inv, NEW c \in Contexts, LateFails(c)
    PROVE  Inv'
  <1> USE DEF Inv
  <1>1. Counted'
    BY Zenon, SameCounts DEF LateFails, TypeOK
  <1>2. TypeOK'
    <2>1. svc' \in [Contexts -> Snapshot]
      <3>1. svc[c] \in Snapshot /\ svc[c].left \in SUBSET Contexts
        BY Zenon DEF TypeOK, Snapshot
      <3>2. [svc[c] EXCEPT !.pc = "ending", !.failed = TRUE] \in Snapshot
        BY <3>1, SnapshotTyped, Zenon
      <3>3. svc' = [svc EXCEPT ![c] = [svc[c] EXCEPT !.pc = "ending", !.failed = TRUE]]
        BY Zenon DEF LateFails, TypeOK
      <3> QED  BY Zenon, <3>2, <3>3 DEF TypeOK
    <2> QED  BY Zenon, <2>1 DEF LateFails, TypeOK
  <1>3. Lives' /\ Locked' /\ Newborn'
    BY DEF LateFails, TypeOK, Snapshot, Lives, Locked, Newborn
  <1>4. Begun' /\ Awaited' /\ Covered' /\ Quiet'
    BY DEF LateFails, TypeOK, Snapshot, Begun, Awaited, Covered, Taking, Quiet
  <1> QED  BY Zenon, <1>1, <1>2, <1>3, <1>4

LEMMA HeldKeeps ==
    ASSUME Inv, NEW c \in Contexts, Held(c)
    PROVE  Inv'
  <1> USE DEF Inv
  <1>1. Counted'
    BY Zenon, SameCounts DEF Held, TypeOK
  <1>2. TypeOK'
    <2>1. svc' \in [Contexts -> Snapshot]
      BY NoneOutside DEF Held, TypeOK, Snapshot
    <2> QED  BY Zenon, <2>1 DEF Held, TypeOK
  <1>3. Lives' /\ Locked' /\ Newborn'
    BY DEF Held, TypeOK, Snapshot, Lives, Locked, Newborn
  <1>4. Begun' /\ Awaited' /\ Covered' /\ Quiet'
    BY DEF Held, TypeOK, Snapshot, Begun, Awaited, Covered, Taking, Quiet
  <1> QED  BY Zenon, <1>1, <1>2, <1>3, <1>4

(* The child and the end of the snapshot.                                  *)
LEMMA PublishKeeps ==
    ASSUME Inv, NEW c \in Contexts, NEW d \in Contexts, Publish(c, d)
    PROVE  Inv'
  <1> USE DEF Inv
  <1>1. Counted'
    BY Zenon, SameCounts DEF Publish, TypeOK
  <1>2. TypeOK'
    <2>1. svc' \in [Contexts -> Snapshot]
      BY NoneOutside DEF Publish, TypeOK, Snapshot
    <2> QED  BY Zenon, <2>1 DEF Publish, TypeOK
  <1>3. Newborn'
    <2>1. svc'[c].child = d /\ \A e \in Contexts : e # c => svc'[e] = svc[e]
      BY DEF Publish, TypeOK, Snapshot
    <2>2. \A e \in Contexts : e # c => svc[e].child = None
      BY Zenon DEF Publish, Locked
    <2>3. at'[d] = "unarmed" /\ life'[d] = "alive"
      BY Zenon DEF Publish, TypeOK, Lives
    <2> QED  BY <2>1, <2>2, <2>3 DEF Newborn
  <1>4. Covered'
    <2> SUFFICES ASSUME NEW e \in Contexts, NEW f \in Contexts, Taking(e)', life'[f] = "alive"
        PROVE  f \in svc'[e].left \/ <<e, f>> \in leases' \/ f = svc'[e].child
      BY Zenon DEF Covered
    <2>1. e = c
      BY DEF Publish, TypeOK, Snapshot, Locked, Taking
    <2>2. svc'[c].child = d /\ svc'[c].left = svc[c].left /\ leases' = leases /\ Taking(c)
      BY DEF Publish, TypeOK, Snapshot, Taking
    <2>3. f # d => life[f] = "alive"
      BY Zenon DEF Publish, TypeOK
    <2>4. f # None /\ svc[c].child = None
      BY Zenon, NoneOutside DEF Publish
    <2> QED  BY Zenon, <2>1, <2>2, <2>3, <2>4 DEF Covered
  <1>5. Lives' /\ Locked'
    BY DEF Publish, TypeOK, Snapshot, Lives, Locked
  <1>6. Begun' /\ Awaited' /\ Quiet'
    BY DEF Publish, TypeOK, Snapshot, Begun, Awaited, Quiet, Taking
  <1> QED  BY Zenon, <1>1, <1>2, <1>3, <1>4, <1>5, <1>6

LEMMA CompleteKeeps ==
    ASSUME Inv, NEW c \in Contexts, Complete(c)
    PROVE  Inv'
  <1> USE DEF Inv
  <1>1. Counted'
    BY Zenon, SameCounts DEF Complete, TypeOK
  <1>2. TypeOK'
    <2>1. svc' \in [Contexts -> Snapshot]
      BY NoneOutside DEF Complete, TypeOK, Snapshot
    <2> QED  BY <2>1 DEF Complete, TypeOK
  <1>3. Lives' /\ Locked' /\ Newborn'
    BY DEF Complete, TypeOK, Snapshot, Lives, Locked, Newborn
  <1>4. Begun' /\ Awaited' /\ Covered' /\ Quiet'
    BY DEF Complete, TypeOK, Snapshot, Begun, Awaited, Covered, Taking, Quiet
  <1> QED  BY Zenon, <1>1, <1>2, <1>3, <1>4

LEMMA ReleaseKeeps ==
    ASSUME Inv, NEW c \in Contexts, NEW d \in Contexts, Release(c, d)
    PROVE  Inv'
  <1> USE DEF Inv
  <1>1. Counted'
    BY EndCounts DEF Release
  <1>2. TypeOK'
    <2>2. Mm[d] \in Mms
      BY MmTyped DEF TypeOK
    <2>3. paused[Mm[d]] > 0
      BY <2>2, EndCounts DEF Release, TypeOK, Snapshot
    <2>4. paused[Mm[d]] - 1 \in Nat
      BY <2>2, <2>3 DEF TypeOK
    <2> QED  BY <2>2, <2>4 DEF Release, EndLease, TypeOK
  <1>3. Lives' /\ Locked' /\ Newborn'
    BY DEF Release, EndLease, TypeOK, Lives, Locked, Newborn
  <1>4. Begun' /\ Awaited' /\ Covered' /\ Quiet'
    BY DEF Release, EndLease, TypeOK, Begun, Awaited, Locked, Covered, Taking, Quiet
  <1> QED  BY <1>1, <1>2, <1>3, <1>4

LEMMA UnlockKeeps ==
    ASSUME Inv, NEW c \in Contexts, Unlock(c)
    PROVE  Inv'
  <1> USE DEF Inv
  <1>1. Counted'
    BY SameCounts, NoneOutside DEF Unlock, TypeOK, Snapshot, Newborn, Lives
  <1>2. TypeOK'
    <2>1. svc' \in [Contexts -> Snapshot]
      BY NoneOutside DEF Unlock, Idle, TypeOK, Snapshot
    <2>2. at' \in [Contexts -> {"host", "gate", "guest", "unarmed"}]
      BY DEF Unlock, TypeOK
    <2>3. stopping' \in BOOLEAN
      BY DEF Unlock, TypeOK, Snapshot
    <2> QED  BY <2>1, <2>2, <2>3 DEF Unlock, TypeOK
  <1>3. Lives' /\ Locked' /\ Newborn'
    BY DEF Unlock, Idle, TypeOK, Snapshot, Lives, Newborn, Locked
  <1>4. Begun' /\ Awaited' /\ Covered' /\ Quiet'
    BY DEF Unlock, Idle, TypeOK, Snapshot, Begun, Awaited, Covered, Taking, Locked, Quiet
  <1> QED  BY <1>1, <1>2, <1>3, <1>4

(* The end of vmremote.                                                    *)
LEMMA StopKeeps ==
    ASSUME Inv, TRUE, Stop
    PROVE  Inv'
  <1> USE DEF Inv
  <1>1. Counted'
    BY SameCounts DEF Stop, TypeOK
  <1>2. TypeOK'
    BY DEF Stop, TypeOK
  <1>3. Lives' /\ Locked' /\ Newborn'
    BY DEF Stop, TypeOK, Lives, Locked, Newborn
  <1>4. Begun' /\ Awaited' /\ Covered' /\ Quiet'
    BY DEF Stop, TypeOK, Begun, Awaited, Covered, Taking, Quiet
  <1> QED  BY <1>1, <1>2, <1>3, <1>4

LEMMA OwnerExitKeeps ==
    ASSUME Inv, NEW c \in Contexts, NEW d \in Contexts, OwnerExit(c, d)
    PROVE  Inv'
  <1> USE DEF Inv
  <1>1. Counted'
    BY EndCounts DEF OwnerExit
  <1>2. TypeOK'
    <2>2. Mm[d] \in Mms
      BY MmTyped DEF TypeOK
    <2>3. paused[Mm[d]] > 0
      BY <2>2, EndCounts DEF OwnerExit, TypeOK, Snapshot
    <2>4. paused[Mm[d]] - 1 \in Nat
      BY <2>2, <2>3 DEF TypeOK
    <2> QED  BY <2>2, <2>4 DEF OwnerExit, EndLease, TypeOK
  <1>3. Lives' /\ Locked' /\ Newborn'
    BY DEF OwnerExit, EndLease, TypeOK, Lives, Locked, Newborn
  <1>4. Begun' /\ Awaited' /\ Covered' /\ Quiet'
    BY DEF OwnerExit, EndLease, TypeOK, Begun, Awaited, Covered, Taking, Quiet
  <1> QED  BY <1>1, <1>2, <1>3, <1>4

-----------------------------------------------------------------------------
LEMMA StutterKeeps == Inv /\ UNCHANGED vars => Inv'
  <1> SUFFICES ASSUME Inv, UNCHANGED vars PROVE Inv'
    OBVIOUS
  <1>1. Counted'
    BY SameCounts DEF Inv, vars
  <1>2. TypeOK' /\ Lives' /\ Locked' /\ Newborn'
    BY DEF Inv, vars, TypeOK, Lives, Locked, Newborn
  <1>3. Begun' /\ Awaited' /\ Covered' /\ Quiet'
    BY DEF Inv, vars, Begun, Awaited, Covered, Quiet, Taking
  <1> QED  BY <1>1, <1>2, <1>3 DEF Inv

(* Inv is inductive: every step of a task, a service thread and an exiting *)
(* owner keeps it.                                                         *)
THEOREM Invariance == Spec => []Inv
  <1>1. Inv /\ [Next]_vars => Inv'
    <2> SUFFICES ASSUME Inv, Next PROVE Inv'
      BY StutterKeeps
    <2>1. ASSUME NEW c \in Contexts, TaskStep(c) \/ Admitted(c) PROVE Inv'
      BY <2>1, ArriveKeeps, EnterKeeps, LeaveKeeps, DieKeeps, AdmittedKeeps DEF TaskStep
    <2>2. ASSUME NEW c \in Contexts, ServiceStep(c) PROVE Inv'
      BY <2>2, LockKeeps, GrantedKeeps, TimedOutKeeps, LateEndedKeeps, LateFailsKeeps,
         HeldKeeps, CompleteKeeps, UnlockKeeps, BeginKeeps, BeginEndedKeeps,
         BeginRefusedKeeps, ReleaseKeeps
         DEF ServiceStep
    <2>3. ASSUME NEW c \in Contexts, NEW d \in Contexts, Publish(c, d) \/ OwnerExit(c, d)
          PROVE Inv'
      BY <2>3, PublishKeeps, OwnerExitKeeps
    <2> QED  BY <2>1, <2>2, <2>3, StopKeeps DEF Next
  <1> QED  BY <1>1, InitInv, PTL DEF Spec

(* forward under a snapshot: while it is held, no context of the address   *)
(* space runs in hardware, whatever raced with the pause.                  *)
THEOREM HeldIsFrozen == Spec => []Frozen
  <1>1. Inv => Frozen
    <2> SUFFICES ASSUME Inv, NEW c \in Contexts, NEW d \in Contexts,
                        svc[c].pc = "held", ~stopping, at[d] = "guest"
                 PROVE FALSE
      BY DEF Frozen
    <2>1. Taking(c) /\ life[d] = "alive" /\ svc[c].left = {}
      <3>1. Taking(c)
        BY DEF Taking
      <3>2. life[d] = "alive"
        BY DEF Inv, Lives
      <3>3. svc[c].left = {}
        BY DEF Inv, Awaited
      <3> QED  BY <3>1, <3>2, <3>3
    <2>2. CASE <<c, d>> \in leases
      <3>1. running[Mm[d]] = 0 /\ Mm[d] \in Mms
        BY <2>1, <2>2, MmTyped DEF Inv, Quiet
      <3> QED  BY <3>1, Zero DEF Inv
    <2>3. CASE d = svc[c].child
      BY <2>1, <2>3, NoneOutside DEF Inv, Newborn
    <2> QED  BY <2>1, <2>2, <2>3 DEF Inv, Covered
  <1> QED  BY <1>1, Invariance, PTL

(* vmctx_quiesce_end on every way out: a closed gate has a lease.          *)
THEOREM GateHasLease == Spec => []ClosedByLease
  <1>1. Inv => ClosedByLease
    BY Zero DEF Inv, ClosedByLease
  <1> QED  BY <1>1, Invariance, PTL

=============================================================================
