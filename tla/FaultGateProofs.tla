--------------------------- MODULE FaultGateProofs ---------------------------
(***************************************************************************)
(* The gate of the fault path for any number of pages, service threads and *)
(* page channels: it has one owner per page, forgets no sleeper, and never *)
(* dispatches an exception with the page reserved.                         *)
(***************************************************************************)
EXTENDS FaultGate, FiniteSetTheorems, TLAPS

Actors  == Faulters \cup Servers
Waiting == {"count", "check", "sleep", "asleep"}

(* Where a thread can hold the gate.                                       *)
GatePlaces ==
    \A t \in Faulters :
        /\ th[t].gate => th[t].pc \in {"reserve", "service", "release"}
        /\ th[t].pc = "release" => th[t].gate

(* A waiter's generation is not from the future, and while it is current   *)
(* the move the waiter saw is still in flight.                             *)
WaitGen ==
    \A t \in Faulters : th[t].pc \in Waiting =>
        /\ th[t].gen <= gen[th[t].key]
        /\ th[t].gen = gen[th[t].key] => transit[th[t].key] # Nobody

(* own_ent.waiters counts the threads inside own_wait.                     *)
Counting == \A k \in Keys : waiters[k] = Cardinality(Counted(k))

(* A sleeper whose generation has passed has a lander about to wake it.    *)
WakeComing ==
    \A t \in Faulters : th[t].pc = "asleep" /\ th[t].gen # gen[th[t].key] =>
        \E u \in Faulters : th[u].key = th[t].key /\ th[u].pc \in {"load", "wake"}

(* A reservation in use is its key's current one, nobody else has it, and  *)
(* a service thread uses one exactly during page service.                  *)
HeldByOne ==
    /\ \A a \in Actors : claim[a].episode # 0 => P!Owns(claim[a])
    /\ \A a, b \in Actors : claim[a].episode # 0 /\ claim[b].episode # 0
                             /\ claim[a].key = claim[b].key => a = b
    /\ \A t \in Faulters : th[t].pc = "service" <=> claim[t].episode # 0
    /\ \A t \in Faulters : th[t].pc = "service" => claim[t].key = th[t].key

Holding ==
    /\ ~aborted => HeldByOne
    /\ aborted => \E k \in Keys : slot[k].episode = EpisodeMax

IInv == TypeOK /\ GatePlaces /\ GateOwned /\ WaitGen /\ Counting /\ WakeComing /\ Holding

-----------------------------------------------------------------------------
(* Every step is a step of one thread, one channel or the source.          *)
LEMMA StepSorts ==
  ASSUME [Next]_vars
  PROVE  \/ \E t \in Faulters, k \in Keys : Fault(t, k)
         \/ \E t \in Faulters : OwnfClaim(t)
         \/ \E t \in Faulters : CountIn(t)
         \/ \E t \in Faulters : Check(t)
         \/ \E t \in Faulters : Expired(t)
         \/ \E t \in Faulters : FutexWait(t)
         \/ \E t \in Faulters : SleepEnds(t)
         \/ \E t \in Faulters : Reserve(t)
         \/ \E t \in Faulters, final \in Finals : Service(t, final)
         \/ \E t \in Faulters : Release(t)
         \/ \E t \in Faulters : LoadWaiters(t)
         \/ \E t \in Faulters : FutexWake(t)
         \/ \E t \in Faulters : OwnerAnswers(t)
         \/ \E s \in Servers, k \in Keys, mine \in Taking : Serve(s, k, mine)
         \/ \E s \in Servers, final \in P!Stable : ServeEnd(s, final)
         \/ \E k \in Keys : SourceChanges(k)
         \/ UNCHANGED vars
  BY Zenon DEF Next, Step, ServerStep

(* Counting does not notice a step that keeps every thread's key and       *)
(* whether it is inside own_wait.                                          *)
LEMMA SameCounted ==
  ASSUME waiters' = waiters, Counting,
         \A k \in Keys : Counted(k)' = Counted(k)
  PROVE  Counting'
  BY DEF Counting

(* The threads counted on a page are finitely many.                        *)
LEMMA CountedFinite ==
  ASSUME NEW k \in Keys
  PROVE  /\ IsFiniteSet(Counted(k))
         /\ Cardinality(Counted(k)) \in Nat
<1>1. Counted(k) \subseteq Faulters
  BY DEF Counted
<1> QED
  BY <1>1, FaultersFinite, FS_Subset, FS_CardinalityType

(* The records that the steps write are threads' records.                  *)
LEMMA ThreadRecords ==
  /\ \A k \in Keys : NewFault(k) \in Thread /\ Resumed(k) \in Thread
  /\ \A k \in Keys : [NewFault(k) EXCEPT !.allows = TRUE] \in Thread
  /\ \A r \in Thread, p \in Places : [r EXCEPT !.pc = p] \in Thread
  /\ \A r \in Thread, p \in Places, b \in BOOLEAN :
        /\ [r EXCEPT !.pc = p, !.gate = b] \in Thread
        /\ [r EXCEPT !.pc = p, !.owner = b] \in Thread
        /\ [r EXCEPT !.pc = p, !.needs = b] \in Thread
        /\ [r EXCEPT !.needs = b] \in Thread
        /\ [r EXCEPT !.owner = b] \in Thread
  /\ \A r \in Thread, p \in Places, g \in Nat : [r EXCEPT !.pc = p, !.gen = g] \in Thread
<1>1. \A k \in Keys : NewFault(k) \in Thread /\ Resumed(k) \in Thread
  BY Zenon DEF Thread, NewFault, Resumed, Places
<1>2. \A k \in Keys : [NewFault(k) EXCEPT !.allows = TRUE] \in Thread
  BY Zenon DEF Thread, NewFault, Places
<1>3. \A r \in Thread, p \in Places : [r EXCEPT !.pc = p] \in Thread
  BY DEF Thread
<1>4. ASSUME NEW r \in Thread, NEW p \in Places, NEW b \in BOOLEAN
      PROVE  /\ [r EXCEPT !.pc = p, !.gate = b] \in Thread
             /\ [r EXCEPT !.pc = p, !.owner = b] \in Thread
             /\ [r EXCEPT !.pc = p, !.needs = b] \in Thread
             /\ [r EXCEPT !.needs = b] \in Thread
             /\ [r EXCEPT !.owner = b] \in Thread
  BY ZenonT(30) DEF Thread
<1>5. \A r \in Thread, p \in Places, g \in Nat : [r EXCEPT !.pc = p, !.gen = g] \in Thread
  BY Zenon DEF Thread
<1> QED
  BY <1>1, <1>2, <1>3, <1>4, <1>5, Zenon

(* The ends of a pass of the dispatcher leave a thread well formed.        *)
LEMMA ConcludeType ==
  ASSUME NEW t \in Faulters, NEW all \in [Faulters -> Thread], Conclude(t, all)
  PROVE  th' \in [Faulters -> Thread] /\ died' \in BOOLEAN
<1>1. all[t] \in Thread /\ all[t].key \in Keys
  BY DEF Thread
<1>2. CASE all[t].owner /\ ~all[t].allows
  <2>1. PICK needs \in BOOLEAN : th' = [all EXCEPT ![t].pc = "dispatch", ![t].needs = needs]
    BY <1>2 DEF Conclude
  <2>2. [all[t] EXCEPT !.pc = "dispatch", !.needs = needs] \in Thread
    BY <1>1, ThreadRecords, Zenon DEF Places
  <2> QED
    BY <2>1, <2>2, Zenon DEF Conclude
<1>3. CASE ~(all[t].owner /\ ~all[t].allows)
  BY <1>1, <1>3, ThreadRecords, Zenon DEF Conclude
<1> QED
  BY <1>2, <1>3

(* A reservation and its settlement keep slots and reservations well formed. *)
LEMMA ClaimTypes ==
  ASSUME TypeOK, NEW a \in Actors
  PROVE  /\ \A k \in Keys, mine \in P!Transient : P!PgTryClaim(a, k, mine) =>
              /\ slot' \in [Keys -> P!Slot] /\ claim' \in [Actors -> P!Claim]
              /\ aborted' \in BOOLEAN
         /\ \A final \in P!Stable : P!PgFinishRequired(a, final) =>
              /\ slot' \in [Keys -> P!Slot] /\ claim' \in [Actors -> P!Claim]
              /\ aborted' \in BOOLEAN
<1> USE DEF TypeOK, Actors, P!Slot, P!Claim, P!Stable, P!Transient
<1>1. ASSUME NEW k \in Keys, NEW mine \in P!Transient, P!PgTryClaim(a, k, mine)
      PROVE  /\ slot' \in [Keys -> P!Slot] /\ claim' \in [Actors -> P!Claim]
             /\ aborted' \in BOOLEAN
  <2>1. slot[k] \in P!Slot
    BY DEF TypeOK
  <2>2. CASE P!Abort
    BY <2>2 DEF P!Abort
  <2>3. CASE P!Acquire(a, k, mine)
    <3>1. slot[k].st \in P!Stable
      BY <1>1 DEF P!PgTryClaim
    <3>2. [st |-> mine, episode |-> slot[k].episode + 1] \in P!Slot
      BY <2>1
    <3>3. [key |-> k, episode |-> slot[k].episode + 1, prior |-> slot[k].st] \in P!Claim
      BY <2>1, <3>1
    <3> QED
      BY <2>3, <3>2, <3>3 DEF P!Acquire
  <2> QED
    BY <1>1, <2>2, <2>3 DEF P!PgTryClaim
<1>2. ASSUME NEW final \in P!Stable, P!PgFinishRequired(a, final)
      PROVE  /\ slot' \in [Keys -> P!Slot] /\ claim' \in [Actors -> P!Claim]
             /\ aborted' \in BOOLEAN
  <2>1. CASE P!Abort
    BY <2>1 DEF P!Abort
  <2>2. CASE P!PgFinish(a, final)
    <3>1. claim[a] \in P!Claim /\ slot[claim[a].key] \in P!Slot
      BY DEF TypeOK
    <3>2. [claim[a] EXCEPT !.episode = 0] \in P!Claim
      BY Zenon, <3>1
    <3>3. [slot[claim[a].key] EXCEPT !.st = final] \in P!Slot
      BY <3>1
    <3> QED
      BY <2>2, <3>1, <3>2, <3>3, ZenonT(30) DEF P!PgFinish
  <2> QED
    BY <1>2, <2>1, <2>2 DEF P!PgFinishRequired
<1> QED
  BY <1>1, <1>2, ZenonT(30)

(* A thread inside own_wait is counted, so the count can go down.          *)
LEMMA CountedPositive ==
  ASSUME TypeOK, Counting, NEW t \in Faulters, th[t].pc \in {"check", "sleep", "asleep"}
  PROVE  waiters[th[t].key] \in Nat /\ waiters[th[t].key] > 0
<1>1. th[t].key \in Keys
  BY DEF TypeOK, Thread
<1>2. t \in Counted(th[t].key)
  BY DEF Counted
<1> QED
  BY <1>1, <1>2, CountedFinite, FS_EmptySet DEF Counting

(* Every step keeps entries, reservations and threads well formed.         *)
LEMMA NextTypeOK ==
  ASSUME IInv, [Next]_vars
  PROVE  TypeOK'
<1> USE DEF IInv
<1>0. TypeOK /\ (\A t \in Faulters : th[t] \in Thread /\ th[t].key \in Keys /\ th[t].gate \in BOOLEAN)
  BY DEF TypeOK, Thread
<1>1. ASSUME NEW t \in Faulters, NEW k \in Keys, Fault(t, k) PROVE TypeOK'
  BY <1>0, <1>1, ThreadRecords, Zenon DEF TypeOK, Fault, pages, entry
<1>2. ASSUME NEW t \in Faulters, OwnfClaim(t) PROVE TypeOK'
  <2>1. gen[th[t].key] \in Nat
    BY <1>0 DEF TypeOK
  <2>2. th' \in [Faulters -> Thread]
    <3>1. /\ [th[t] EXCEPT !.pc = "reserve"] \in Thread
          /\ [th[t] EXCEPT !.pc = "reserve", !.gate = TRUE] \in Thread
          /\ [th[t] EXCEPT !.pc = "count", !.gen = gen[th[t].key]] \in Thread
      BY <1>0, <2>1, ThreadRecords, Zenon DEF Places
    <3> QED
      BY Zenon, <1>0, <1>2, <3>1 DEF TypeOK, OwnfClaim, Goto
  <2> QED
    BY <1>0, <1>2, <2>2 DEF TypeOK, OwnfClaim, pages
<1>3. ASSUME NEW t \in Faulters, CountIn(t) PROVE TypeOK'
  <2>1. th' \in [Faulters -> Thread]
    BY <1>0, <1>3, ThreadRecords, Zenon DEF TypeOK, CountIn, Goto, Places
  <2> QED
    BY <1>0, <1>3, <2>1 DEF TypeOK, CountIn, pages
<1>4. ASSUME NEW t \in Faulters, Check(t) PROVE TypeOK'
  <2>1. th' \in [Faulters -> Thread]
    <3>1. /\ Resumed(th[t].key) \in Thread
          /\ [th[t] EXCEPT !.pc = "sleep"] \in Thread
      BY <1>0, ThreadRecords, Zenon DEF Places
    <3> QED
      BY <1>0, <1>4, <3>1 DEF TypeOK, Check, Goto
  <2>2. waiters' \in [Keys -> Nat]
    BY <1>0, <1>4, CountedPositive DEF TypeOK, Check, CountOut
  <2> QED
    BY <1>0, <1>4, <2>1, <2>2 DEF TypeOK, Check, pages
<1>5. ASSUME NEW t \in Faulters, Expired(t) PROVE TypeOK'
  <2>1. th' \in [Faulters -> Thread]
    BY <1>0, <1>5, ThreadRecords, Zenon DEF TypeOK, Expired, Places
  <2>2. waiters' \in [Keys -> Nat]
    BY <1>0, <1>5, CountedPositive DEF TypeOK, Expired, CountOut
  <2> QED
    BY <1>0, <1>5, <2>1, <2>2 DEF TypeOK, Expired, pages
<1>6. ASSUME NEW t \in Faulters, FutexWait(t) PROVE TypeOK'
  <2>1. th' \in [Faulters -> Thread]
    BY <1>0, <1>6, ThreadRecords, Zenon DEF TypeOK, FutexWait, Goto, Places
  <2> QED
    BY <1>0, <1>6, <2>1 DEF TypeOK, FutexWait, pages, entry
<1>7. ASSUME NEW t \in Faulters, SleepEnds(t) PROVE TypeOK'
  <2>1. th' \in [Faulters -> Thread]
    BY <1>0, <1>7, ThreadRecords, Zenon DEF TypeOK, SleepEnds, Goto, Places
  <2> QED
    BY <1>0, <1>7, <2>1 DEF TypeOK, SleepEnds, pages, entry
<1>8. ASSUME NEW t \in Faulters, Reserve(t) PROVE TypeOK'
  <2>1. th' \in [Faulters -> Thread]
    <3>1. /\ Resumed(th[t].key) \in Thread
          /\ [th[t] EXCEPT !.pc = "service"] \in Thread
          /\ [th[t] EXCEPT !.pc = "release"] \in Thread
      BY <1>0, ThreadRecords, Zenon DEF Places
    <3> QED
      BY <1>0, <1>8, <3>1 DEF TypeOK, Reserve, Goto
  <2>2. /\ slot' \in [Keys -> P!Slot] /\ claim' \in [Actors -> P!Claim]
        /\ aborted' \in BOOLEAN
    <3>1. CASE P!PgTryClaim(t, th[t].key, "REQUESTING")
      <4>1. "REQUESTING" \in P!Transient /\ t \in Actors
        BY DEF P!Transient, Actors
      <4> QED
        BY <1>0, <3>1, <4>1, ClaimTypes
    <3>2. CASE UNCHANGED pages
      BY <1>0, <3>2 DEF TypeOK, pages, Actors
    <3> QED
      BY <1>8, <3>1, <3>2 DEF Reserve
  <2> QED
    BY <1>0, <1>8, <2>1, <2>2 DEF TypeOK, Reserve, entry, Actors
<1>9. ASSUME NEW t \in Faulters, NEW final \in Finals, Service(t, final) PROVE TypeOK'
  <2>1. th' \in [Faulters -> Thread] /\ died' \in BOOLEAN
    <3>1. PICK owner \in {FALSE, NeedsOwner(t)} :
             IF th[t].gate
               THEN th' = [th EXCEPT ![t].pc = "release", ![t].owner = owner] /\ UNCHANGED died
               ELSE Conclude(t, [th EXCEPT ![t].owner = owner])
      BY Zenon, <1>9 DEF Service
    <3>2. owner \in BOOLEAN
      BY Zenon, <3>1 DEF NeedsOwner
    <3>3. CASE th[t].gate
      <4>1. [th[t] EXCEPT !.pc = "release", !.owner = owner] \in Thread
        BY <1>0, <3>2, ThreadRecords, Zenon DEF Places
      <4> QED
        BY Zenon, <1>0, <3>1, <3>3, <4>1 DEF TypeOK
    <3>4. CASE ~th[t].gate
      <4>0. [th[t] EXCEPT !.owner = owner] \in Thread
        BY <1>0, <3>2, ThreadRecords, Zenon DEF Places
      <4>1. [th EXCEPT ![t].owner = owner] \in [Faulters -> Thread]
        BY <1>0, <4>0 DEF TypeOK
      <4> QED
        BY Zenon, <3>1, <3>4, <4>1, ConcludeType
    <3> QED
      BY <3>3, <3>4
  <2>2. t \in Actors /\ final \in P!Stable
    BY FinalsStable DEF Actors, P!Stable
  <2>3. /\ slot' \in [Keys -> P!Slot] /\ claim' \in [Actors -> P!Claim]
        /\ aborted' \in BOOLEAN
    BY <1>0, <1>9, <2>2, ClaimTypes DEF Service
  <2> QED
    BY <1>0, <1>9, <2>1, <2>3 DEF TypeOK, Service, entry, Actors
<1>10. ASSUME NEW t \in Faulters, Release(t) PROVE TypeOK'
  <2>1. th' \in [Faulters -> Thread]
    BY <1>0, <1>10, ThreadRecords, Zenon DEF TypeOK, Release, Places
  <2> QED
    BY <1>0, <1>10, <2>1 DEF TypeOK, Release, pages
<1>11. ASSUME NEW t \in Faulters, LoadWaiters(t) PROVE TypeOK'
  <2>1. CASE Conclude(t, th)
    BY <1>0, <1>11, <2>1, ConcludeType DEF TypeOK, LoadWaiters, pages, entry
  <2>2. CASE Goto(t, "wake") /\ UNCHANGED died
    <3>1. th' \in [Faulters -> Thread]
      BY <1>0, <2>2, ThreadRecords, Zenon DEF TypeOK, Goto, Places
    <3> QED
      BY <1>0, <1>11, <2>2, <3>1 DEF TypeOK, LoadWaiters, pages, entry
  <2> QED
    BY <1>11, <2>1, <2>2 DEF LoadWaiters
<1>12. ASSUME NEW t \in Faulters, FutexWake(t) PROVE TypeOK'
  <2> DEFINE all == [u \in Faulters |-> IF th[u].pc = "asleep" /\ th[u].key = th[t].key
                                          THEN [th[u] EXCEPT !.pc = "check"] ELSE th[u]]
  <2>1. all \in [Faulters -> Thread]
    BY <1>0, ThreadRecords, Zenon DEF Places
  <2>2. Conclude(t, all)
    BY <1>12 DEF FutexWake
  <2> HIDE DEF all
  <2> QED
    BY <1>0, <1>12, <2>1, <2>2, ConcludeType DEF TypeOK, FutexWake, pages, entry
<1>13. ASSUME NEW t \in Faulters, OwnerAnswers(t) PROVE TypeOK'
  <2>1. th' \in [Faulters -> Thread]
    <3>1. /\ Resumed(th[t].key) \in Thread
          /\ [NewFault(th[t].key) EXCEPT !.allows = TRUE] \in Thread
      BY <1>0, ThreadRecords, Zenon
    <3> QED
      BY Zenon, <1>0, <1>13, <3>1 DEF TypeOK, OwnerAnswers
  <2> QED
    BY <1>0, <1>13, <2>1 DEF TypeOK, OwnerAnswers, pages, entry
<1>14. ASSUME NEW s \in Servers, NEW k \in Keys, NEW mine \in Taking, Serve(s, k, mine)
       PROVE  TypeOK'
  <2>1. s \in Actors /\ mine \in P!Transient
    BY TakingTransient DEF Actors, P!Transient
  <2> QED
    BY <1>0, <1>14, <2>1, ClaimTypes DEF TypeOK, Serve, entry, Actors
<1>15. ASSUME NEW s \in Servers, NEW final \in P!Stable, ServeEnd(s, final) PROVE TypeOK'
  <2>1. th' \in [Faulters -> Thread]
    <3>1. \A u \in Faulters : [th[u] EXCEPT !.needs = FALSE] \in Thread
      BY <1>0, ThreadRecords, Zenon DEF Places
    <3> QED
      BY <1>0, <1>15, <3>1 DEF ServeEnd
  <2> QED
    BY <1>0, <1>15, <2>1, ClaimTypes DEF TypeOK, ServeEnd, entry, Actors
<1>16. ASSUME NEW k \in Keys, SourceChanges(k) PROVE TypeOK'
  BY <1>0, <1>16 DEF TypeOK, SourceChanges, pages, entry
<1>17. CASE UNCHANGED vars
  BY <1>0, <1>17 DEF TypeOK, vars, pages, entry
<1> QED
  BY <1>1, <1>2, <1>3, <1>4, <1>5, <1>6, <1>7, <1>8, <1>9, <1>10, <1>11, <1>12,
     <1>13, <1>14, <1>15, <1>16, <1>17, StepSorts

-----------------------------------------------------------------------------
(* What a step does to the gate, seen from outside the records.            *)
Still(u) == /\ th'[u].pc = th[u].pc /\ th'[u].key = th[u].key
            /\ th'[u].gate = th[u].gate /\ th'[u].gen = th[u].gen
OthersStill(t) == \A u \in Faulters \ {t} : Still(u)
EntryStill == UNCHANGED <<transit, gen, waiters>>
GoesTo(t, p, q) == th[t].pc = p /\ th'[t].pc = q /\ th'[t].key = th[t].key

(* No thread moves.                                                        *)
Quiet == EntryStill /\ \A u \in Faulters : Still(u)
(* A new fault.                                                            *)
Faults(t) == /\ EntryStill /\ OthersStill(t) /\ ~th'[t].gate
             /\ th[t].pc = "idle" /\ th'[t].pc = "claim" /\ th'[t].key \in Keys
(* A step inside own_wait.                                                 *)
Waits(t) == /\ EntryStill /\ OthersStill(t)
            /\ th'[t].gate = th[t].gate /\ th'[t].gen = th[t].gen
            /\ \/ GoesTo(t, "check", "sleep") \/ GoesTo(t, "sleep", "check")
               \/ GoesTo(t, "asleep", "check")
               \/ GoesTo(t, "sleep", "asleep") /\ th[t].gen = gen[th[t].key]
(* A step outside it that leaves the entry alone.                          *)
Moves(t) == /\ EntryStill /\ OthersStill(t) /\ th'[t].gate = th[t].gate
            /\ \/ GoesTo(t, "claim", "reserve")
               \/ GoesTo(t, "reserve", "service")
               \/ GoesTo(t, "reserve", "release") /\ th[t].gate
               \/ GoesTo(t, "reserve", "idle") /\ ~th[t].gate
               \/ GoesTo(t, "service", "release") /\ th[t].gate
               \/ \E q \in {"idle", "dispatch"} : GoesTo(t, "service", q) /\ ~th[t].gate
               \/ GoesTo(t, "load", "wake")
               \/ \E q \in {"idle", "dispatch"} :
                     GoesTo(t, "load", q) /\ ~(waiters[th[t].key] > 0)
               \/ \E q \in {"idle", "claim"} : GoesTo(t, "dispatch", q)
(* own_begin claims the move, or finds one in flight.                      *)
Claims(t) == /\ OthersStill(t) /\ UNCHANGED <<gen, waiters>>
             /\ GoesTo(t, "claim", "reserve") /\ th'[t].gate
             /\ transit[th[t].key] = Nobody
             /\ transit' = [transit EXCEPT ![th[t].key] = t]
Busy(t) == /\ OthersStill(t) /\ EntryStill
           /\ GoesTo(t, "claim", "count") /\ th'[t].gate = th[t].gate
           /\ transit[th[t].key] # Nobody /\ th'[t].gen = gen[th[t].key]
(* own_wait counts a thread in, or out.                                    *)
Enters(t) == /\ OthersStill(t) /\ UNCHANGED <<transit, gen>>
             /\ th'[t].gate = th[t].gate /\ th'[t].gen = th[t].gen
             /\ GoesTo(t, "count", "check")
             /\ waiters' = [waiters EXCEPT ![th[t].key] = @ + 1]
Exits(t) == /\ OthersStill(t) /\ UNCHANGED <<transit, gen>>
            /\ th'[t].gate = th[t].gate
            /\ \E q \in {"idle", "reserve"} : GoesTo(t, "check", q)
            /\ waiters' = [waiters EXCEPT ![th[t].key] = @ - 1]
(* own_land or own_abort, and the FUTEX_WAKE that follows.                 *)
Lands(t) == /\ OthersStill(t) /\ UNCHANGED waiters
            /\ GoesTo(t, "release", "load") /\ ~th'[t].gate
            /\ transit' = [transit EXCEPT ![th[t].key] = Nobody]
            /\ gen' = [gen EXCEPT ![th[t].key] = @ + 1]
Wakes(t) == /\ EntryStill /\ ~th'[t].gate
            /\ \E q \in {"idle", "dispatch"} : GoesTo(t, "wake", q)
            /\ \A u \in Faulters \ {t} :
                  /\ th'[u].key = th[u].key /\ th'[u].gate = th[u].gate /\ th'[u].gen = th[u].gen
                  /\ th'[u].pc = IF th[u].pc = "asleep" /\ th[u].key = th[t].key
                                   THEN "check" ELSE th[u].pc

(* The ends of a pass, seen the same way.                                  *)
LEMMA ConcludeEffect ==
  ASSUME NEW t \in Faulters, NEW all \in [Faulters -> Thread], Conclude(t, all)
  PROVE  /\ th'[t].pc \in {"idle", "dispatch"} /\ th'[t].key = all[t].key
         /\ th'[t].gate = FALSE \/ th'[t].gate = all[t].gate
         /\ \A u \in Faulters \ {t} : th'[u] = all[u]
<1>1. all[t] \in Thread
  OBVIOUS
<1>2. CASE all[t].owner /\ ~all[t].allows
  <2>1. PICK needs \in BOOLEAN : th' = [all EXCEPT ![t].pc = "dispatch", ![t].needs = needs]
    BY <1>2 DEF Conclude
  <2>2. th'[t] = [all[t] EXCEPT !.pc = "dispatch", !.needs = needs]
    BY <2>1
  <2> QED
    BY <1>1, <2>1, <2>2 DEF Thread
<1>3. CASE ~(all[t].owner /\ ~all[t].allows)
  BY <1>1, <1>3 DEF Conclude, Resumed, NewFault
<1> QED
  BY Zenon, <1>2, <1>3

(* Page service ends where the dispatcher takes over.                      *)
LEMMA ServiceMoves ==
  ASSUME IInv, NEW t \in Faulters, NEW final \in Finals, Service(t, final)
  PROVE  Moves(t)
<1>00. th[t] \in Thread /\ th[t].gate \in BOOLEAN
  BY DEF IInv, TypeOK, Thread
<1>01. th \in [Faulters -> Thread]
  BY DEF IInv, TypeOK
<1>1. PICK owner \in {FALSE, NeedsOwner(t)} :
         IF th[t].gate
           THEN th' = [th EXCEPT ![t].pc = "release", ![t].owner = owner] /\ UNCHANGED died
           ELSE Conclude(t, [th EXCEPT ![t].owner = owner])
  BY Zenon DEF Service
<1>2. owner \in BOOLEAN
  BY Zenon, <1>1 DEF NeedsOwner
<1>3. th[t].pc = "service" /\ EntryStill
  BY DEF Service, EntryStill, entry
<1>4. CASE th[t].gate
  <2>1. th' = [th EXCEPT ![t].pc = "release", ![t].owner = owner]
    BY <1>1, <1>4
  <2>2. /\ th'[t] = [th[t] EXCEPT !.pc = "release", !.owner = owner]
        /\ \A u \in Faulters \ {t} : th'[u] = th[u]
    BY <1>01, <2>1
  <2>3. GoesTo(t, "service", "release") /\ th'[t].gate = th[t].gate
    BY <1>00, <1>3, <2>2 DEF GoesTo, Thread
  <2> QED
    BY Zenon, <1>3, <1>4, <2>2, <2>3 DEF Moves, OthersStill, Still
<1>5. CASE ~th[t].gate
  <2> DEFINE all == [th EXCEPT ![t].owner = owner]
  <2>1. [th[t] EXCEPT !.owner = owner] \in Thread
    BY <1>00, <1>2, ThreadRecords, Zenon DEF Places
  <2>2. /\ all \in [Faulters -> Thread]
        /\ all[t].key = th[t].key /\ all[t].gate = th[t].gate
        /\ \A u \in Faulters \ {t} : all[u] = th[u]
    BY <1>00, <1>01, <2>1 DEF Thread
  <2>3. Conclude(t, all)
    BY <1>1, <1>5
  <2> HIDE DEF all
  <2> QED
    BY <1>00, <1>3, <1>5, <2>2, <2>3, ConcludeEffect, ZenonT(30) DEF Moves, OthersStill, Still, GoesTo
<1> QED
  BY <1>4, <1>5

(* Every step is one of these.                                             *)
LEMMA Effects ==
  ASSUME IInv, [Next]_vars
  PROVE  \/ Quiet
         \/ \E t \in Faulters : \/ Faults(t) \/ Waits(t) \/ Moves(t) \/ Claims(t) \/ Busy(t)
                                \/ Enters(t) \/ Exits(t) \/ Lands(t) \/ Wakes(t)
<1>0. \A t \in Faulters : /\ th[t] \in Thread /\ th[t].key \in Keys /\ th[t].gate \in BOOLEAN
                          /\ th[t].gate => th[t].pc \in {"reserve", "service", "release"}
  BY DEF IInv, TypeOK, Thread, GatePlaces
<1>01. th \in [Faulters -> Thread]
  BY DEF IInv, TypeOK
<1>1. ASSUME NEW t \in Faulters, NEW k \in Keys, Fault(t, k) PROVE Faults(t)
  BY <1>01, <1>1 DEF Fault, Faults, EntryStill, OthersStill, Still, NewFault, entry
<1>2. ASSUME NEW t \in Faulters, OwnfClaim(t) PROVE Moves(t) \/ Claims(t) \/ Busy(t)
  <2>1. CASE Goto(t, "reserve") /\ UNCHANGED <<made, transit>>
    BY <1>0, <1>01, <1>2, <2>1 DEF OwnfClaim, Moves, EntryStill, OthersStill, Still, GoesTo, Goto, Thread
  <2>2. CASE /\ transit[th[t].key] = Nobody
             /\ transit' = [transit EXCEPT ![th[t].key] = t]
             /\ th' = [th EXCEPT ![t].pc = "reserve", ![t].gate = TRUE]
    BY <1>0, <1>01, <1>2, <2>2 DEF OwnfClaim, Claims, OthersStill, Still, GoesTo, Thread
  <2>3. CASE /\ transit[th[t].key] # Nobody
             /\ th' = [th EXCEPT ![t].pc = "count", ![t].gen = gen[th[t].key]]
             /\ UNCHANGED <<made, transit>>
    BY <1>0, <1>01, <1>2, <2>3 DEF OwnfClaim, Busy, EntryStill, OthersStill, Still, GoesTo, Thread
  <2> QED
    BY <1>2, <2>1, <2>2, <2>3 DEF OwnfClaim
<1>3. ASSUME NEW t \in Faulters, CountIn(t) PROVE Enters(t)
  BY <1>0, <1>01, <1>3 DEF CountIn, Enters, OthersStill, Still, GoesTo, Goto, Thread
<1>4. ASSUME NEW t \in Faulters, Check(t) PROVE Waits(t) \/ Exits(t)
  <2>1. CASE gen[th[t].key] # th[t].gen
    BY <1>0, <1>01, <1>4, <2>1, ZenonT(30) DEF Check, CountOut, Exits, OthersStill, Still, GoesTo, Resumed, NewFault
  <2>2. CASE gen[th[t].key] = th[t].gen
    BY <1>0, <1>01, <1>4, <2>2 DEF Check, Waits, EntryStill, OthersStill, Still, GoesTo, Goto, Thread
  <2> QED
    BY <2>1, <2>2
<1>5. ASSUME NEW t \in Faulters, Expired(t) PROVE Exits(t)
  BY <1>0, <1>01, <1>5 DEF Expired, CountOut, Exits, OthersStill, Still, GoesTo, Thread
<1>6. ASSUME NEW t \in Faulters, FutexWait(t) PROVE Waits(t)
  BY <1>0, <1>01, <1>6 DEF FutexWait, Waits, EntryStill, OthersStill, Still, GoesTo, Goto, Thread, entry
<1>7. ASSUME NEW t \in Faulters, SleepEnds(t) PROVE Waits(t)
  BY <1>0, <1>01, <1>7 DEF SleepEnds, Waits, EntryStill, OthersStill, Still, GoesTo, Goto, Thread, entry
<1>8. ASSUME NEW t \in Faulters, Reserve(t) PROVE Moves(t)
  <2>1. CASE Goto(t, "service")
    BY <1>0, <1>01, <1>8, <2>1 DEF Reserve, Moves, EntryStill, OthersStill, Still, GoesTo, Goto, Thread, entry
  <2>2. CASE th[t].gate /\ Goto(t, "release")
    BY Zenon, <1>0, <1>01, <1>8, <2>2 DEF Reserve, Moves, EntryStill, OthersStill, Still, GoesTo, Goto, Thread, entry
  <2>3. CASE ~th[t].gate /\ th' = [th EXCEPT ![t] = Resumed(@.key)]
    BY <1>0, <1>01, <1>8, <2>3, ZenonT(30) DEF Reserve, Moves, EntryStill, OthersStill, Still, GoesTo, Resumed, NewFault, entry
  <2> QED
    BY <1>8, <2>1, <2>2, <2>3 DEF Reserve
<1>9. ASSUME NEW t \in Faulters, NEW final \in Finals, Service(t, final) PROVE Moves(t)
  BY <1>9, ServiceMoves
<1>10. ASSUME NEW t \in Faulters, Release(t) PROVE Lands(t)
  BY <1>0, <1>01, <1>10 DEF Release, Lands, OthersStill, Still, GoesTo, Thread
<1>11. ASSUME NEW t \in Faulters, LoadWaiters(t) PROVE Moves(t)
  <2>1. th[t].pc = "load" /\ EntryStill /\ ~th[t].gate
    BY <1>0, <1>11 DEF LoadWaiters, EntryStill, entry
  <2>2. CASE waiters[th[t].key] > 0
    BY <1>0, <1>01, <1>11, <2>1, <2>2 DEF LoadWaiters, Moves, OthersStill, Still, GoesTo, Goto, Thread
  <2>3. CASE ~(waiters[th[t].key] > 0)
    BY <1>0, <1>01, <1>11, <2>1, <2>3, ConcludeEffect, ZenonT(30) DEF LoadWaiters, Moves, OthersStill, Still, GoesTo
  <2> QED
    BY <2>2, <2>3
<1>12. ASSUME NEW t \in Faulters, FutexWake(t) PROVE Wakes(t)
  <2> DEFINE all == [u \in Faulters |-> IF th[u].pc = "asleep" /\ th[u].key = th[t].key
                                          THEN [th[u] EXCEPT !.pc = "check"] ELSE th[u]]
  <2>1. Conclude(t, all) /\ th[t].pc = "wake" /\ EntryStill /\ ~th[t].gate
    BY <1>0, <1>12 DEF FutexWake, EntryStill, entry
  <2>2. all \in [Faulters -> Thread]
    BY <1>0, ThreadRecords, Zenon DEF Places
  <2>3. /\ all[t] = th[t]
        /\ \A u \in Faulters :
             /\ all[u].key = th[u].key /\ all[u].gate = th[u].gate /\ all[u].gen = th[u].gen
             /\ all[u].pc = IF th[u].pc = "asleep" /\ th[u].key = th[t].key
                              THEN "check" ELSE th[u].pc
    BY <1>0, <2>1 DEF Thread
  <2> HIDE DEF all
  <2> QED
    <3>1. /\ th'[t].pc \in {"idle", "dispatch"} /\ th'[t].key = all[t].key
          /\ th'[t].gate = FALSE \/ th'[t].gate = all[t].gate
          /\ \A u \in Faulters \ {t} : th'[u] = all[u]
      BY <2>1, <2>2, ConcludeEffect, ZenonT(30)
    <3>2. ~th'[t].gate /\ \E q \in {"idle", "dispatch"} : GoesTo(t, "wake", q)
      BY <2>1, <2>3, <3>1 DEF GoesTo
    <3> QED
      BY <2>1, <2>3, <3>1, <3>2 DEF Wakes
<1>13. ASSUME NEW t \in Faulters, OwnerAnswers(t) PROVE Moves(t)
  <2>1. th[t].pc = "dispatch" /\ EntryStill /\ ~th[t].gate
    BY <1>0, <1>13 DEF OwnerAnswers, EntryStill, entry
  <2>2. /\ th'[t].pc \in {"idle", "claim"} /\ th'[t].key = th[t].key /\ th'[t].gate = FALSE
        /\ \A u \in Faulters \ {t} : th'[u] = th[u]
    BY <1>01, <1>13 DEF OwnerAnswers, Resumed, NewFault
  <2>3. \E q \in {"idle", "claim"} : GoesTo(t, "dispatch", q)
    BY <2>1, <2>2 DEF GoesTo
  <2> QED
    BY <1>0, <2>1, <2>2, <2>3, ZenonT(30) DEF Moves, OthersStill, Still
<1>14. ASSUME NEW s \in Servers, NEW k \in Keys, NEW mine \in Taking, Serve(s, k, mine)
       PROVE  Quiet
  BY <1>14 DEF Serve, Quiet, EntryStill, Still, entry
<1>15. ASSUME NEW s \in Servers, NEW final \in P!Stable, ServeEnd(s, final) PROVE Quiet
  BY <1>0, <1>15 DEF ServeEnd, Quiet, EntryStill, Still, entry, Thread
<1>16. ASSUME NEW k \in Keys, SourceChanges(k) PROVE Quiet
  BY <1>16 DEF SourceChanges, Quiet, EntryStill, Still, entry
<1>17. CASE UNCHANGED vars
  BY <1>17 DEF vars, Quiet, EntryStill, Still, entry
<1> QED
  BY <1>1, <1>2, <1>3, <1>4, <1>5, <1>6, <1>7, <1>8, <1>9, <1>10, <1>11, <1>12,
     <1>13, <1>14, <1>15, <1>16, <1>17, StepSorts

-----------------------------------------------------------------------------
(* Every step keeps the gate where its owner is.                           *)
LEMMA NextGate ==
  ASSUME IInv, [Next]_vars
  PROVE  GatePlaces' /\ GateOwned'
<1> USE DEF IInv, GatePlaces, GateOwned, TypeOK, Thread, Places
<1>0. \A u \in Faulters : /\ th[u].key \in Keys /\ th[u].gate \in BOOLEAN
                          /\ th'[u].key \in Keys /\ th'[u].gate \in BOOLEAN
  BY NextTypeOK
<1>1. CASE Quiet
  BY <1>1 DEF Quiet, EntryStill, Still
<1>2. ASSUME NEW t \in Faulters, Faults(t) PROVE GatePlaces' /\ GateOwned'
  BY <1>0, <1>2 DEF Faults, EntryStill, OthersStill, Still
<1>3. ASSUME NEW t \in Faulters, Waits(t) PROVE GatePlaces' /\ GateOwned'
  BY <1>0, <1>3, SMTT(30) DEF Waits, EntryStill, OthersStill, Still, GoesTo
<1>4. ASSUME NEW t \in Faulters, Moves(t) PROVE GatePlaces' /\ GateOwned'
  BY <1>0, <1>4 DEF Moves, EntryStill, OthersStill, Still, GoesTo
<1>5. ASSUME NEW t \in Faulters, Claims(t) PROVE GatePlaces' /\ GateOwned'
  BY <1>0, <1>5, NobodyNoThread DEF Claims, OthersStill, Still, GoesTo, Nobody
<1>6. ASSUME NEW t \in Faulters, Busy(t) PROVE GatePlaces' /\ GateOwned'
  BY <1>0, <1>6 DEF Busy, EntryStill, OthersStill, Still, GoesTo
<1>7. ASSUME NEW t \in Faulters, Enters(t) PROVE GatePlaces' /\ GateOwned'
  BY <1>0, <1>7 DEF Enters, OthersStill, Still, GoesTo
<1>8. ASSUME NEW t \in Faulters, Exits(t) PROVE GatePlaces' /\ GateOwned'
  BY <1>0, <1>8 DEF Exits, OthersStill, Still, GoesTo
<1>9. ASSUME NEW t \in Faulters, Lands(t) PROVE GatePlaces' /\ GateOwned'
  BY <1>0, <1>9, NobodyNoThread DEF Lands, OthersStill, Still, GoesTo, Nobody
<1>10. ASSUME NEW t \in Faulters, Wakes(t) PROVE GatePlaces' /\ GateOwned'
  BY <1>0, <1>10 DEF Wakes, EntryStill, GoesTo
<1> QED
  BY <1>1, <1>2, <1>3, <1>4, <1>5, <1>6, <1>7, <1>8, <1>9, <1>10, Effects, Zenon

(* Every step keeps a waiter's generation meaningful and, where it has     *)
(* passed, a lander on the way.                                            *)
LEMMA NextWait ==
  ASSUME IInv, [Next]_vars
  PROVE  WaitGen' /\ WakeComing'
<1> USE DEF IInv, WaitGen, WakeComing, Waiting
<1>0. /\ \A u \in Faulters : th[u].key \in Keys /\ th'[u].key \in Keys /\ th[u].gen \in Nat
      /\ gen \in [Keys -> Nat] /\ transit \in [Keys -> Faulters \cup {Nobody}]
  BY Zenon, NextTypeOK DEF TypeOK, Thread
<1>1. CASE Quiet
  <2>1. /\ transit' = transit /\ gen' = gen
        /\ \A u \in Faulters : /\ th'[u].pc = th[u].pc /\ th'[u].key = th[u].key
                               /\ th'[u].gen = th[u].gen
    BY <1>1 DEF Quiet, EntryStill, Still
  <2>2. WaitGen'
    BY <2>1
  <2>3. WakeComing'
    BY <2>1
  <2> QED
    BY Zenon, <2>2, <2>3
<1>2. ASSUME NEW t \in Faulters, Faults(t) PROVE WaitGen' /\ WakeComing'
  BY <1>0, <1>2 DEF Faults, EntryStill, OthersStill, Still
<1>3. ASSUME NEW t \in Faulters, Waits(t) PROVE WaitGen' /\ WakeComing'
  BY <1>0, <1>3, SMTT(30) DEF Waits, EntryStill, OthersStill, Still, GoesTo
<1>4. ASSUME NEW t \in Faulters, Moves(t) PROVE WaitGen' /\ WakeComing'
  <2>1. \A u \in Faulters : th[u].pc = "asleep" => waiters[th[u].key] > 0
    BY Zenon, CountedPositive
  <2> QED
    BY <1>0, <1>4, <2>1, SMTT(30) DEF Moves, EntryStill, OthersStill, Still, GoesTo
<1>5. ASSUME NEW t \in Faulters, Claims(t) PROVE WaitGen' /\ WakeComing'
  BY <1>0, <1>5, NobodyNoThread DEF Claims, OthersStill, Still, GoesTo, Nobody
<1>6. ASSUME NEW t \in Faulters, Busy(t) PROVE WaitGen' /\ WakeComing'
  BY <1>0, <1>6 DEF Busy, EntryStill, OthersStill, Still, GoesTo
<1>7. ASSUME NEW t \in Faulters, Enters(t) PROVE WaitGen' /\ WakeComing'
  BY <1>0, <1>7 DEF Enters, OthersStill, Still, GoesTo
<1>8. ASSUME NEW t \in Faulters, Exits(t) PROVE WaitGen' /\ WakeComing'
  BY <1>0, <1>8 DEF Exits, OthersStill, Still, GoesTo
<1>9. ASSUME NEW t \in Faulters, Lands(t) PROVE WaitGen' /\ WakeComing'
  BY <1>0, <1>9 DEF Lands, OthersStill, Still, GoesTo
<1>10. ASSUME NEW t \in Faulters, Wakes(t) PROVE WaitGen' /\ WakeComing'
  BY <1>0, <1>10 DEF Wakes, EntryStill, GoesTo
<1> QED
  BY <1>1, <1>2, <1>3, <1>4, <1>5, <1>6, <1>7, <1>8, <1>9, <1>10, Effects, Zenon

(* Every step keeps own_ent.waiters the number of threads inside own_wait. *)
LEMMA NextCounting ==
  ASSUME IInv, [Next]_vars
  PROVE  Counting'
<1>0. /\ \A u \in Faulters : th[u].key \in Keys
      /\ waiters \in [Keys -> Nat]
      /\ Counting
  BY DEF IInv, TypeOK, Thread
<1> USE DEF Counted
<1>1. CASE Quiet
  <2>1. \A k \in Keys : Counted(k)' = Counted(k)
    BY <1>1 DEF Quiet, Still
  <2> QED
    BY <1>0, <1>1, <2>1, SameCounted DEF Quiet, EntryStill
<1>2. ASSUME NEW t \in Faulters, Faults(t) \/ Waits(t) \/ Moves(t) \/ Claims(t) \/ Busy(t)
                               \/ Lands(t) \/ Wakes(t)
      PROVE  Counting'
  <2>1. ASSUME NEW k \in Keys PROVE Counted(k)' = Counted(k)
    BY <1>2, ZenonT(30) DEF Faults, Waits, Moves, Claims, Busy, Lands, Wakes, OthersStill, Still, GoesTo
  <2>2. waiters' = waiters
    BY Zenon, <1>2 DEF Faults, Waits, Moves, Claims, Busy, Lands, Wakes, EntryStill
  <2> QED
    BY <1>0, <2>1, <2>2, SameCounted
<1>3. ASSUME NEW t \in Faulters, Enters(t) PROVE Counting'
  <2>0. PICK k0 \in Keys : k0 = th[t].key
    BY <1>0
  <2>1. /\ Counted(k0)' = Counted(k0) \cup {t}
        /\ t \notin Counted(k0)
        /\ \A k \in Keys \ {k0} : Counted(k)' = Counted(k)
    BY <1>3, <2>0 DEF Enters, OthersStill, Still, GoesTo
  <2>2. Cardinality(Counted(k0)') = Cardinality(Counted(k0)) + 1
    BY <1>0, <2>1, CountedFinite, FS_AddElement, ZenonT(30)
  <2>3. ASSUME NEW k \in Keys PROVE waiters'[k] = Cardinality(Counted(k)')
    <3> HIDE DEF Counted
    <3>1. waiters[k] = Cardinality(Counted(k))
      BY <1>0 DEF Counting
    <3>2. CASE k = k0
      BY Zenon, <1>0, <1>3, <2>0, <2>2, <3>1, <3>2 DEF Enters
    <3>3. CASE k # k0
      BY Zenon, <1>0, <1>3, <2>0, <2>1, <3>1, <3>3 DEF Enters
    <3> QED
      BY <3>2, <3>3
  <2> QED
    BY Zenon, <2>3 DEF Counting
<1>4. ASSUME NEW t \in Faulters, Exits(t) PROVE Counting'
  <2>0. PICK k0 \in Keys : k0 = th[t].key
    BY <1>0
  <2>1. /\ Counted(k0)' = Counted(k0) \ {t}
        /\ t \in Counted(k0)
        /\ \A k \in Keys \ {k0} : Counted(k)' = Counted(k)
    BY <1>4, <2>0 DEF Exits, OthersStill, Still, GoesTo
  <2>2. Cardinality(Counted(k0)') = Cardinality(Counted(k0)) - 1
    BY <1>0, <2>1, CountedFinite, FS_RemoveElement
  <2>3. ASSUME NEW k \in Keys PROVE waiters'[k] = Cardinality(Counted(k)')
    <3> HIDE DEF Counted
    <3>1. waiters[k] = Cardinality(Counted(k))
      BY <1>0 DEF Counting
    <3>2. CASE k = k0
      BY Zenon, <1>0, <1>4, <2>0, <2>2, <3>1, <3>2 DEF Exits
    <3>3. CASE k # k0
      BY <1>0, <1>4, <2>0, <2>1, <3>1, <3>3 DEF Exits
    <3> QED
      BY <3>2, <3>3
  <2> QED
    BY <2>3 DEF Counting
<1> QED
  BY <1>1, <1>2, <1>3, <1>4, Effects

-----------------------------------------------------------------------------
(* A reservation that an actor acquires or settles is its own affair.      *)
LEMMA HoldingSteps ==
  ASSUME IInv, ~aborted, NEW a \in Actors
  PROVE  /\ \A k \in Keys, mine \in P!Transient :
              P!PgTryClaim(a, k, mine) /\ ~aborted' =>
                 /\ \A b \in Actors : claim'[b].episode # 0 => P!Owns(claim[b])'
                 /\ \A b \in Actors \ {a} : claim'[b] = claim[b]
                 /\ \A b \in Actors \ {a} : claim[b].episode # 0 => claim[b].key # k
                 /\ claim'[a].key = k /\ claim'[a].episode # 0
         /\ \A final \in P!Stable :
              P!PgFinishRequired(a, final) =>
                 /\ ~aborted /\ ~aborted' /\ claim[a].episode # 0
                 /\ \A b \in Actors : claim'[b].episode # 0 => P!Owns(claim[b])'
                 /\ \A b \in Actors \ {a} : claim'[b] = claim[b]
                 /\ claim'[a].episode = 0 /\ claim'[a].key = claim[a].key
<1>0. /\ slot \in [Keys -> P!Slot] /\ claim \in [Actors -> P!Claim]
      /\ \A b \in Actors : claim[b].key \in Keys /\ claim[b].episode \in Nat
      /\ \A k \in Keys : slot[k].episode \in Nat
      /\ \A b \in Actors : claim[b].episode # 0 => P!Owns(claim[b])
      /\ \A b, c \in Actors : claim[b].episode # 0 /\ claim[c].episode # 0
                                 /\ claim[b].key = claim[c].key => b = c
  BY DEF IInv, TypeOK, Holding, HeldByOne, Actors, P!Slot, P!Claim
<1>1. ASSUME NEW k \in Keys, NEW mine \in P!Transient,
             P!PgTryClaim(a, k, mine), ~aborted'
      PROVE  /\ \A b \in Actors : claim'[b].episode # 0 => P!Owns(claim[b])'
             /\ \A b \in Actors \ {a} : claim'[b] = claim[b]
             /\ \A b \in Actors \ {a} : claim[b].episode # 0 => claim[b].key # k
             /\ claim'[a].key = k /\ claim'[a].episode # 0
  <2>1. P!Acquire(a, k, mine) /\ slot[k].st \in P!Stable
    BY Zenon, <1>1 DEF P!PgTryClaim, P!Abort
  <2>2. \A b \in Actors : claim[b].episode # 0 => claim[b].key # k
    BY <1>0, <2>1 DEF P!Owns, P!Stable, P!Transient
  <2>3. /\ claim'[a] = [key |-> k, episode |-> slot[k].episode + 1, prior |-> slot[k].st]
        /\ \A b \in Actors \ {a} : claim'[b] = claim[b]
        /\ slot'[k] = [st |-> mine, episode |-> slot[k].episode + 1]
        /\ \A j \in Keys \ {k} : slot'[j] = slot[j]
    BY Zenon, <1>0, <2>1 DEF P!Acquire
  <2>4. P!Owns(claim[a])'
    BY <1>0, <1>1, <2>3 DEF P!Owns
  <2>5. ASSUME NEW b \in Actors \ {a}, claim[b].episode # 0 PROVE P!Owns(claim[b])'
    BY <1>0, <2>2, <2>3, <2>5 DEF P!Owns
  <2> QED
    BY <1>0, <2>2, <2>3, <2>4, <2>5
<1>2. ASSUME NEW final \in P!Stable, P!PgFinishRequired(a, final)
      PROVE  /\ ~aborted /\ ~aborted' /\ claim[a].episode # 0
             /\ \A b \in Actors : claim'[b].episode # 0 => P!Owns(claim[b])'
             /\ \A b \in Actors \ {a} : claim'[b] = claim[b]
             /\ claim'[a].episode = 0 /\ claim'[a].key = claim[a].key
  <2>1. P!PgFinish(a, final)
    BY <1>0, <1>2 DEF P!PgFinishRequired
  <2>2. /\ claim'[a] = [claim[a] EXCEPT !.episode = 0]
        /\ \A b \in Actors \ {a} : claim'[b] = claim[b]
        /\ \A j \in Keys \ {claim[a].key} : slot'[j] = slot[j]
        /\ claim[a].episode # 0 /\ ~aborted /\ ~aborted'
    BY <1>0, <2>1 DEF P!PgFinish, P!Owns
  <2>3. claim'[a].episode = 0 /\ claim'[a].key = claim[a].key
    BY <1>0, <2>2 DEF P!Claim
  <2>4. ASSUME NEW b \in Actors \ {a}, claim[b].episode # 0 PROVE P!Owns(claim[b])'
    <3>1. claim[b].key # claim[a].key
      BY <1>0, <2>2, <2>4
    <3> QED
      BY <1>0, <2>2, <2>4, <3>1 DEF P!Owns
  <2> QED
    BY <2>2, <2>3, <2>4, ZenonT(30)
<1> QED
  BY Zenon, <1>1, <1>2

(* The steps that touch no reservation neither enter nor leave service.    *)
LEMMA QuietPlaces ==
  ASSUME IInv, NEW t \in Faulters,
         \/ \E k \in Keys : Fault(t, k)
         \/ OwnfClaim(t) \/ CountIn(t) \/ Check(t) \/ Expired(t) \/ FutexWait(t)
         \/ SleepEnds(t) \/ Release(t) \/ LoadWaiters(t) \/ FutexWake(t) \/ OwnerAnswers(t)
  PROVE  /\ UNCHANGED pages
         /\ \A u \in Faulters : /\ th'[u].pc = "service" <=> th[u].pc = "service"
                                /\ th[u].pc = "service" => th'[u].key = th[u].key
<1> DEFINE Goal == \A u \in Faulters : /\ th'[u].pc = "service" <=> th[u].pc = "service"
                                       /\ th[u].pc = "service" => th'[u].key = th[u].key
<1>0. th \in [Faulters -> Thread] /\ th[t] \in Thread
  BY DEF IInv, TypeOK
<1>1. UNCHANGED pages
  BY Zenon DEF Fault, OwnfClaim, CountIn, Check, Expired, FutexWait, SleepEnds, Release,
         LoadWaiters, FutexWake, OwnerAnswers
<1>2. ASSUME th[t].pc # "service", th'[t].pc # "service",
             \A u \in Faulters \ {t} : th'[u] = th[u]
      PROVE  Goal
  BY Zenon, <1>2
<1>3. ASSUME \/ \E k \in Keys : Fault(t, k)
             \/ OwnfClaim(t) \/ CountIn(t) \/ Check(t) \/ Expired(t) \/ FutexWait(t)
             \/ SleepEnds(t) \/ Release(t) \/ OwnerAnswers(t)
      PROVE  Goal
  <2>1. th[t].pc # "service"
    BY <1>3, ZenonT(30) DEF Fault, OwnfClaim, CountIn, Check, Expired, FutexWait, SleepEnds, Release, OwnerAnswers
  <2>2. \A u \in Faulters \ {t} : th'[u] = th[u]
    <3>1. CASE \E k \in Keys : Fault(t, k)
      BY <1>0, <3>1 DEF Fault
    <3>2. CASE OwnfClaim(t) \/ CountIn(t) \/ SleepEnds(t) \/ Release(t)
      BY Zenon, <1>0, <3>2 DEF OwnfClaim, CountIn, SleepEnds, Release, Goto
    <3>3. CASE Check(t) \/ Expired(t) \/ FutexWait(t)
      BY <1>0, <3>3 DEF Check, Expired, FutexWait, Goto
    <3>4. CASE OwnerAnswers(t)
      BY <1>0, <3>4 DEF OwnerAnswers
    <3> QED
      BY Zenon, <1>3, <3>1, <3>2, <3>3, <3>4
  <2>3. th'[t].pc # "service"
    <3>1. CASE \E k \in Keys : Fault(t, k)
      BY <1>0, <3>1 DEF Fault, NewFault
    <3>2. CASE OwnfClaim(t) \/ CountIn(t) \/ SleepEnds(t) \/ Release(t)
      BY <1>0, <3>2 DEF OwnfClaim, CountIn, SleepEnds, Release, Goto, Thread
    <3>3. CASE Check(t) \/ Expired(t) \/ FutexWait(t)
      BY <1>0, <3>3 DEF Check, Expired, FutexWait, Goto, Resumed, NewFault, Thread
    <3>4. CASE OwnerAnswers(t)
      BY <1>0, <3>4 DEF OwnerAnswers, Resumed, NewFault
    <3> QED
      BY Zenon, <1>3, <3>1, <3>2, <3>3, <3>4
  <2> QED
    BY Zenon, <1>2, <2>1, <2>2, <2>3
<1>4. CASE LoadWaiters(t)
  <2>1. th[t].pc = "load" /\ (Goto(t, "wake") \/ Conclude(t, th))
    BY <1>4, Zenon DEF LoadWaiters
  <2>2. CASE Goto(t, "wake")
    BY <1>0, <1>1, <1>2, <2>1, <2>2, SMTT(30) DEF Goto, Thread
  <2>3. CASE Conclude(t, th)
    BY Zenon, <1>0, <1>1, <1>2, <2>1, <2>3, ConcludeEffect
  <2> QED
    BY Zenon, <2>1, <2>2, <2>3
<1>5. CASE FutexWake(t)
  <2> DEFINE all == [u \in Faulters |-> IF th[u].pc = "asleep" /\ th[u].key = th[t].key
                                          THEN [th[u] EXCEPT !.pc = "check"] ELSE th[u]]
  <2>1. Conclude(t, all) /\ th[t].pc = "wake"
    BY <1>5 DEF FutexWake
  <2>2. all \in [Faulters -> Thread]
    BY <1>0, ThreadRecords, Zenon DEF Places
  <2>3. \A u \in Faulters : /\ all[u].pc = "service" <=> th[u].pc = "service"
                            /\ th[u].pc = "service" => all[u].key = th[u].key
    BY <1>0 DEF Thread
  <2> HIDE DEF all
  <2>4. /\ th'[t].pc \in {"idle", "dispatch"}
        /\ \A u \in Faulters \ {t} : th'[u] = all[u]
    BY <2>1, <2>2, ConcludeEffect, ZenonT(30)
  <2>5. Goal
    BY Zenon, <2>1, <2>3, <2>4
  <2> QED
    BY <1>1, <2>5
<1> QED
  BY <1>1, <1>3, <1>4, <1>5, Zenon

(* Every step keeps reservations where page service and page server are.   *)
LEMMA NextHolding ==
  ASSUME IInv, [Next]_vars
  PROVE  Holding'
<1>0. /\ \A t \in Faulters : th[t] \in Thread /\ th[t].key \in Keys /\ t \in Actors
      /\ \A s \in Servers : s \in Actors /\ s \notin Faulters
      /\ aborted \in BOOLEAN /\ th \in [Faulters -> Thread]
  BY ActorsDisjoint DEF IInv, TypeOK, Thread, Actors
<1>1. CASE UNCHANGED vars
  BY Zenon, <1>1 DEF IInv, Holding, HeldByOne, P!Owns, vars, pages
<1>2. CASE Next
  <2>1. ~aborted /\ HeldByOne
    BY <1>2 DEF Next, IInv, Holding
  <2>2. ASSUME UNCHANGED pages,
               \A t \in Faulters : /\ th'[t].pc = "service" <=> th[t].pc = "service"
                                   /\ th[t].pc = "service" => th'[t].key = th[t].key
        PROVE  Holding'
    BY Zenon, <2>1, <2>2 DEF Holding, HeldByOne, P!Owns, pages
  <2>3. ASSUME NEW t \in Faulters, Reserve(t) PROVE Holding'
    <3>1. th[t].pc = "reserve" /\ \A u \in Faulters \ {t} : th'[u] = th[u]
      BY <1>0, <2>3 DEF Reserve, Goto
    <3>2. CASE P!PgTryClaim(t, th[t].key, "REQUESTING") /\ Goto(t, "service")
      <4>1. th'[t].pc = "service" /\ th'[t].key = th[t].key
        BY <1>0, <3>2 DEF Goto, Thread
      <4>2. CASE aborted'
        BY <1>0, <2>1, <3>2, <4>2, ZenonT(30) DEF Holding, P!PgTryClaim, P!Acquire, P!Abort
      <4>3. CASE ~aborted'
        <5>1. "REQUESTING" \in P!Transient
          BY DEF P!Transient
        <5>2. /\ \A b \in Actors : claim'[b].episode # 0 => P!Owns(claim[b])'
              /\ \A b \in Actors \ {t} : claim'[b] = claim[b]
              /\ \A b \in Actors \ {t} : claim[b].episode # 0 => claim[b].key # th[t].key
              /\ claim'[t].key = th[t].key /\ claim'[t].episode # 0
          BY <1>0, <2>1, <3>2, <4>3, <5>1, HoldingSteps, ZenonT(30)
        <5>3. \A a, b \in Actors : claim'[a].episode # 0 /\ claim'[b].episode # 0
                                      /\ claim'[a].key = claim'[b].key => a = b
          BY <1>0, <2>1, <3>1, <4>1, <5>2 DEF HeldByOne
        <5>4. \A u \in Faulters : /\ th'[u].pc = "service" <=> claim'[u].episode # 0
                                  /\ th'[u].pc = "service" => claim'[u].key = th'[u].key
          BY <1>0, <2>1, <3>1, <4>1, <5>2 DEF HeldByOne
        <5> QED
          BY Zenon, <4>3, <5>2, <5>3, <5>4 DEF Holding, HeldByOne
      <4> QED
        BY <4>2, <4>3
    <3>3. CASE UNCHANGED pages /\ th'[t].pc # "service"
      BY <2>2, <3>1, <3>3
    <3>4. \/ P!PgTryClaim(t, th[t].key, "REQUESTING") /\ Goto(t, "service")
          \/ UNCHANGED pages /\ th'[t].pc # "service"
      BY <1>0, <2>3 DEF Reserve, Goto, Resumed, NewFault, Thread
    <3> QED
      BY <3>2, <3>3, <3>4
  <2>4. ASSUME NEW t \in Faulters, NEW final \in Finals, Service(t, final) PROVE Holding'
    <3>1. Moves(t)
      BY <2>4, ServiceMoves
    <3>2. /\ th[t].pc = "service" /\ th'[t].pc # "service"
          /\ \A u \in Faulters \ {t} : th'[u].pc = th[u].pc /\ th'[u].key = th[u].key
      BY <2>4, <3>1 DEF Moves, Service, GoesTo, OthersStill, Still
    <3>3. final \in P!Stable
      BY FinalsStable DEF P!Stable
    <3>4. /\ ~aborted'
          /\ \A b \in Actors : claim'[b].episode # 0 => P!Owns(claim[b])'
          /\ \A b \in Actors \ {t} : claim'[b] = claim[b]
          /\ claim'[t].episode = 0
      BY <1>0, <2>1, <2>4, <3>3, HoldingSteps, ZenonT(30) DEF Service
    <3>5. \A a, b \in Actors : claim'[a].episode # 0 /\ claim'[b].episode # 0
                                  /\ claim'[a].key = claim'[b].key => a = b
      BY <1>0, <2>1, <3>2, <3>4 DEF HeldByOne
    <3>6. \A u \in Faulters : /\ th'[u].pc = "service" <=> claim'[u].episode # 0
                              /\ th'[u].pc = "service" => claim'[u].key = th'[u].key
      BY <1>0, <2>1, <3>2, <3>4 DEF HeldByOne
    <3> QED
      BY Zenon, <3>4, <3>5, <3>6 DEF Holding, HeldByOne
  <2>5. ASSUME NEW s \in Servers, NEW k \in Keys, NEW mine \in Taking, Serve(s, k, mine)
        PROVE  Holding'
    <3>1. mine \in P!Transient /\ UNCHANGED th
      BY <2>5, TakingTransient DEF P!Transient, Serve
    <3>2. CASE aborted'
      BY <1>0, <2>1, <2>5, <3>2, ZenonT(30) DEF Holding, Serve, P!PgTryClaim, P!Acquire, P!Abort
    <3>3. CASE ~aborted'
      <4>1. /\ \A b \in Actors : claim'[b].episode # 0 => P!Owns(claim[b])'
            /\ \A b \in Actors \ {s} : claim'[b] = claim[b]
            /\ \A b \in Actors \ {s} : claim[b].episode # 0 => claim[b].key # k
            /\ claim'[s].key = k /\ claim'[s].episode # 0
        <5>1. s \in Actors /\ mine \in P!Transient
          BY <3>1 DEF Actors
        <5>2. P!PgTryClaim(s, k, mine)
          BY <2>5 DEF Serve
        <5> QED
          BY <2>1, <3>3, <5>1, <5>2, HoldingSteps, ZenonT(30)
      <4>2. \A a, b \in Actors : claim'[a].episode # 0 /\ claim'[b].episode # 0
                                    /\ claim'[a].key = claim'[b].key => a = b
        BY <1>0, <2>1, <3>1, <4>1 DEF HeldByOne
      <4>3. \A u \in Faulters : /\ th'[u].pc = "service" <=> claim'[u].episode # 0
                                /\ th'[u].pc = "service" => claim'[u].key = th'[u].key
        BY Zenon, <1>0, <2>1, <3>1, <4>1 DEF HeldByOne
      <4> QED
        BY Zenon, <3>3, <4>1, <4>2, <4>3 DEF Holding, HeldByOne
    <3> QED
      BY <3>2, <3>3
  <2>6. ASSUME NEW s \in Servers, NEW final \in P!Stable, ServeEnd(s, final) PROVE Holding'
    <3>1. \A u \in Faulters : th'[u].pc = th[u].pc /\ th'[u].key = th[u].key
      BY <1>0, <2>6 DEF ServeEnd, Thread
    <3>2. /\ ~aborted'
          /\ \A b \in Actors : claim'[b].episode # 0 => P!Owns(claim[b])'
          /\ \A b \in Actors \ {s} : claim'[b] = claim[b]
          /\ claim'[s].episode = 0
      BY <1>0, <2>1, <2>6, HoldingSteps, ZenonT(30) DEF ServeEnd
    <3>3. \A a, b \in Actors : claim'[a].episode # 0 /\ claim'[b].episode # 0
                                  /\ claim'[a].key = claim'[b].key => a = b
      BY <1>0, <2>1, <3>1, <3>2 DEF HeldByOne
    <3>4. \A u \in Faulters : /\ th'[u].pc = "service" <=> claim'[u].episode # 0
                              /\ th'[u].pc = "service" => claim'[u].key = th'[u].key
      BY Zenon, <1>0, <2>1, <3>1, <3>2 DEF HeldByOne
    <3> QED
      BY Zenon, <3>2, <3>3, <3>4 DEF Holding, HeldByOne
  <2>7. ASSUME NEW t \in Faulters,
               \/ \E k \in Keys : Fault(t, k)
               \/ OwnfClaim(t) \/ CountIn(t) \/ Check(t) \/ Expired(t) \/ FutexWait(t)
               \/ SleepEnds(t) \/ Release(t) \/ LoadWaiters(t) \/ FutexWake(t) \/ OwnerAnswers(t)
        PROVE  Holding'
    <3>1. /\ UNCHANGED pages
          /\ \A u \in Faulters : /\ th'[u].pc = "service" <=> th[u].pc = "service"
                                 /\ th[u].pc = "service" => th'[u].key = th[u].key
      BY Zenon, <2>7, QuietPlaces
    <3> QED
      BY Zenon, <2>2, <3>1
  <2>8. ASSUME NEW k \in Keys, SourceChanges(k) PROVE Holding'
    BY Zenon, <2>2, <2>8 DEF SourceChanges
  <2> QED
    BY <1>1, <1>2, <2>3, <2>4, <2>5, <2>6, <2>7, <2>8, StepSorts
<1> QED
  BY <1>1, <1>2

-----------------------------------------------------------------------------
(* The initial state satisfies the inductive invariant.                    *)
LEMMA InitIInv == Init => IInv
<1> SUFFICES ASSUME Init PROVE IInv
  OBVIOUS
<1>1. \A t \in Faulters : th[t].pc = "idle" /\ ~th[t].gate /\ th[t].key \in Keys
  <2> SUFFICES ASSUME NEW t \in Faulters
               PROVE  th[t].pc = "idle" /\ ~th[t].gate /\ th[t].key \in Keys
    OBVIOUS
  <2>1. PICK k \in Keys : th[t] = Resumed(k)
    BY DEF Init
  <2> QED
    BY <2>1 DEF Resumed, NewFault
<1>2. TypeOK
  <2>1. ASSUME NEW t \in Faulters PROVE th[t] \in Thread
    <3>1. PICK k \in Keys : th[t] = Resumed(k)
      BY DEF Init
    <3> QED
      BY <3>1, ThreadRecords, Zenon
  <2>2. slot \in [Keys -> P!Slot]
    BY DEF Init, P!Slot, P!Stable
  <2>3. claim \in [Faulters \cup Servers -> P!Claim]
    BY DEF Init, P!Claim, P!Stable
  <2> QED
    BY <2>1, <2>2, <2>3, ZenonT(30) DEF Init, TypeOK
<1>3. Counting
  <2>1. ASSUME NEW k \in Keys PROVE Cardinality(Counted(k)) = 0
    <3>1. Counted(k) = {}
      BY <1>1 DEF Counted
    <3> QED
      BY <3>1, FS_EmptySet
  <2> QED
    BY <2>1 DEF Init, Counting
<1>4. GatePlaces /\ WaitGen /\ WakeComing
  BY Zenon, <1>1 DEF GatePlaces, WaitGen, WakeComing, Waiting
<1>5. GateOwned
  BY <1>1, NobodyNoThread DEF Init, GateOwned, Nobody
<1>6. Holding
  <2>1. \A a \in Actors : claim[a].episode = 0
    BY DEF Init, Actors
  <2> QED
    BY Zenon, <1>1, <2>1 DEF Init, Holding, HeldByOne, Actors
<1> QED
  BY <1>2, <1>3, <1>4, <1>5, <1>6 DEF IInv

(* The gate, the count of waiters, their generations and the reservations  *)
(* stay consistent in every behaviour of fault service and page server.    *)
THEOREM Invariance == Spec => []IInv
<1>1. IInv /\ [Next]_vars => IInv'
  BY NextTypeOK, NextGate, NextWait, NextCounting, NextHolding DEF IInv
<1> QED
  BY <1>1, InitIInv, PTL DEF Spec

(* own_ent.transit names a thread exactly while that thread is between     *)
(* own_begin and own_land or own_abort, for any number of threads.         *)
THEOREM GateHasOneOwner == Spec => []GateOwned
<1>1. IInv => GateOwned
  BY SMTT(30) DEF IInv
<1> QED
  BY <1>1, Invariance, PTL

(* No sleeper of own_wait is forgotten by the lander's FUTEX_WAKE.         *)
THEOREM SleepersWoken == Spec => []NoLostWakeup
<1>1. IInv => NoLostWakeup
  <2> SUFFICES ASSUME IInv, NEW t \in Faulters, th[t].pc = "asleep"
               PROVE  /\ waiters[th[t].key] > 0
                      /\ \/ th[t].gen = gen[th[t].key] /\ transit[th[t].key] # Nobody
                         \/ \E u \in Faulters :
                               th[u].key = th[t].key /\ th[u].pc \in {"load", "wake"}
    BY Zenon DEF NoLostWakeup
  <2>1. waiters[th[t].key] > 0
    BY CountedPositive DEF IInv, Waiting
  <2> QED
    BY Zenon, <2>1 DEF IInv, WaitGen, WakeComing, Waiting
<1> QED
  BY <1>1, Invariance, PTL

(* Page service runs under the page's reservation and dispatch under none. *)
THEOREM ServiceReserved == Spec => []Reserved
<1>1. IInv => Reserved
  <2> SUFFICES ASSUME IInv PROVE Reserved
    OBVIOUS
  <2>1. CASE aborted
    BY <2>1 DEF IInv, Holding, Reserved
  <2>2. CASE ~aborted
    <3>1. HeldByOne /\ GatePlaces
      BY <2>2 DEF IInv, Holding
    <3> QED
      BY Zenon, <2>2, <3>1 DEF Reserved, HeldByOne, GatePlaces, Actors
  <2> QED
    BY <2>1, <2>2 DEF IInv, TypeOK
<1> QED
  BY <1>1, Invariance, PTL

(* Every step of fault service and page server is a step of PageClaims, or *)
(* none: what is proved of reservations there holds of these two callers.  *)
THEOREM ClaimsRefined == Spec => ClaimsUsed
<1>1. Init => P!Init
  BY Zenon DEF Init, P!Init
<1>2. IInv /\ [Next]_vars => [P!Next]_(P!vars)
  <2> SUFFICES ASSUME IInv, [Next]_vars PROVE [P!Next]_(P!vars)
    OBVIOUS
  <2>1. ASSUME UNCHANGED pages PROVE [P!Next]_(P!vars)
    BY <2>1 DEF pages, P!vars
  <2>2. ASSUME NEW t \in Faulters, Reserve(t) PROVE [P!Next]_(P!vars)
    <3>1. th[t].key \in Keys /\ "REQUESTING" \in P!Transient
      BY DEF IInv, TypeOK, Thread, P!Transient
    <3>2. P!PgTryClaim(t, th[t].key, "REQUESTING") \/ UNCHANGED pages
      BY <2>2 DEF Reserve
    <3>3. P!PgTryClaim(t, th[t].key, "REQUESTING") => P!Next
      BY <3>1 DEF P!Next
    <3> QED
      BY <2>1, <3>2, <3>3
  <2>3. ASSUME NEW t \in Faulters, NEW final \in Finals, Service(t, final)
        PROVE  [P!Next]_(P!vars)
    <3>1. final \in P!Stable
      BY FinalsStable DEF P!Stable
    <3> QED
      BY <2>3, <3>1 DEF Service, P!Next
  <2>4. ASSUME NEW s \in Servers, NEW k \in Keys, NEW mine \in Taking, Serve(s, k, mine)
        PROVE  [P!Next]_(P!vars)
    <3>1. mine \in P!Transient
      BY TakingTransient DEF P!Transient
    <3> QED
      BY <2>4, <3>1 DEF Serve, P!Next
  <2>5. ASSUME NEW s \in Servers, NEW final \in P!Stable, ServeEnd(s, final)
        PROVE  [P!Next]_(P!vars)
    BY <2>5, SMTT(30) DEF ServeEnd, P!Next
  <2>6. ASSUME NEW t \in Faulters,
               \/ \E k \in Keys : Fault(t, k)
               \/ OwnfClaim(t) \/ CountIn(t) \/ Check(t) \/ Expired(t) \/ FutexWait(t)
               \/ SleepEnds(t) \/ Release(t) \/ LoadWaiters(t) \/ FutexWake(t) \/ OwnerAnswers(t)
        PROVE  [P!Next]_(P!vars)
    BY Zenon, <2>1, <2>6, QuietPlaces
  <2>7. CASE (\E k \in Keys : SourceChanges(k)) \/ UNCHANGED vars
    BY <2>1, <2>7 DEF SourceChanges, vars
  <2> QED
    BY Zenon, <2>2, <2>3, <2>4, <2>5, <2>6, <2>7, StepSorts
<1> QED
  BY <1>1, <1>2, Invariance, PTL DEF Spec, ClaimsUsed, P!Spec
=============================================================================
