-------------------------- MODULE PageClaimsProofs --------------------------
(***************************************************************************)
(* Proofs about PageClaims, for every set of keys and handles and every    *)
(* episode limit.  The inductive invariant is the conjunction of the type  *)
(* invariant with Settleable and OneAcquisition: that no reservation is    *)
(* newer than its key is what makes a new episode distinct from every      *)
(* outstanding one.                                                        *)
(***************************************************************************)
EXTENDS PageClaims, TLAPS

IInv == TypeOK /\ Settleable /\ OneAcquisition

(* A step of any operation of pgstate.h is one of these four effects.      *)
LEMMA NextCases ==
  ASSUME Next
  PROVE  \/ Abort
         \/ \E h \in Handles, k \in Keys, mine \in Transient :
               /\ claim[h].episode = 0 /\ slot[k].st \in Stable
               /\ Acquire(h, k, mine)
         \/ \E g, h \in Handles : PassClaim(g, h)
         \/ \E h \in Handles, final \in Stable : PgFinish(h, final)
  BY DEF Next, PgTryClaim, PgFinishRequired

(* Initially nothing is reserved and every key is stable.                  *)
LEMMA InitIInv == Init => IInv
  <1> SUFFICES ASSUME Init PROVE IInv
    OBVIOUS
  <1>1. TypeOK
    <2>1. [st |-> "INVALID", episode |-> 0] \in Slot
      BY DEF Slot, Stable
    <2>2. [key : Keys, episode : {0}, prior : {"INVALID"}] \subseteq Claim
      BY DEF Claim, Stable
    <2> QED
      BY Zenon, <2>1, <2>2 DEF Init, TypeOK
  <1>2. Settleable
    BY DEF Init, Settleable, Transient
  <1>3. OneAcquisition
    <2> SUFFICES ASSUME NEW g \in Handles, NEW h \in Handles
                 PROVE  /\ claim[h].episode <= slot[claim[h].key].episode
                        /\ claim[g].episode = 0
      BY DEF OneAcquisition
    <2>1. /\ claim[h] \in [key : Keys, episode : {0}, prior : {"INVALID"}]
          /\ claim[g] \in [key : Keys, episode : {0}, prior : {"INVALID"}]
      BY DEF Init
    <2> QED
      BY <2>1 DEF Init
  <1> QED
    BY <1>1, <1>2, <1>3 DEF IInv

(* Acquire, PassClaim, PgFinish and abort each keep slots and reservations *)
(* well formed.                                                            *)
LEMMA NextTypeOK == ASSUME TypeOK, [Next]_vars PROVE TypeOK'
  <1>1. CASE Abort
    BY <1>1 DEF TypeOK, Abort
  <1>2. ASSUME NEW h \in Handles, NEW k \in Keys, NEW mine \in Transient,
               slot[k].st \in Stable, Acquire(h, k, mine)
        PROVE  TypeOK'
    BY <1>2 DEF TypeOK, Acquire, Slot, Claim
  <1>3. ASSUME NEW g \in Handles, NEW h \in Handles, PassClaim(g, h)
        PROVE  TypeOK'
    BY <1>3 DEF TypeOK, PassClaim
  <1>4. ASSUME NEW h \in Handles, NEW final \in Stable, PgFinish(h, final)
        PROVE  TypeOK'
    BY <1>4 DEF TypeOK, PgFinish, Slot, Claim
  <1>5. CASE UNCHANGED vars
    BY <1>5 DEF TypeOK, vars
  <1> QED
    BY <1>1, <1>2, <1>3, <1>4, <1>5, NextCases

(* A transient key keeps a reservation that can settle it.                 *)
LEMMA NextSettleable == ASSUME IInv, [Next]_vars PROVE Settleable'
  <1> USE DEF IInv
  <1> SUFFICES ASSUME NEW k \in Keys, slot'[k].st \in Transient
               PROVE  \E w \in Handles : claim'[w].key = k /\ Owns(claim[w])'
    BY DEF Settleable
  <1>0. Stable \cap Transient = {}
    BY DEF Stable, Transient
  <1>1. CASE Abort
    BY <1>1 DEF Abort, Settleable, Owns
  <1>2. ASSUME NEW h \in Handles, NEW j \in Keys, NEW mine \in Transient,
               claim[h].episode = 0, slot[j].st \in Stable, Acquire(h, j, mine)
        PROVE  \E w \in Handles : claim'[w].key = k /\ Owns(claim[w])'
    <2>1. CASE k = j
      BY <1>2, <2>1 DEF Acquire, Owns, TypeOK, Slot, Claim
    <2>2. CASE k # j
      <3>1. slot'[k] = slot[k]
        BY <1>2, <2>2 DEF Acquire, TypeOK
      <3>2. PICK w \in Handles : claim[w].key = k /\ Owns(claim[w])
        BY <3>1 DEF Settleable
      <3>3. w # h
        BY <3>2, <1>2 DEF Owns
      <3> QED
        BY <1>2, <3>1, <3>2, <3>3 DEF Acquire, Owns, TypeOK
    <2> QED
      BY <2>1, <2>2
  <1>3. ASSUME NEW g \in Handles, NEW h \in Handles, PassClaim(g, h)
        PROVE  \E w \in Handles : claim'[w].key = k /\ Owns(claim[w])'
    <2>1. PICK w \in Handles : claim[w].key = k /\ Owns(claim[w])
      BY <1>3 DEF Settleable, PassClaim
    <2>2. w # h
      BY <2>1, <1>3 DEF Owns, PassClaim
    <2> QED
      BY <1>3, <2>1, <2>2 DEF PassClaim, Owns, TypeOK
  <1>4. ASSUME NEW h \in Handles, NEW final \in Stable, PgFinish(h, final)
        PROVE  \E w \in Handles : claim'[w].key = k /\ Owns(claim[w])'
    <2>1. k # claim[h].key
      BY <1>0, <1>4 DEF PgFinish, TypeOK, Slot, Claim
    <2>2. slot'[k] = slot[k]
      BY <1>4, <2>1 DEF PgFinish, TypeOK
    <2>3. PICK w \in Handles : claim[w].key = k /\ Owns(claim[w])
      BY <2>2 DEF Settleable
    <2> QED
      BY <1>4, <2>1, <2>2, <2>3 DEF PgFinish, Owns, TypeOK
  <1>5. CASE UNCHANGED vars
    BY <1>5 DEF vars, Settleable, Owns
  <1> QED
    BY <1>1, <1>2, <1>3, <1>4, <1>5, NextCases

(* A new acquisition takes an episode that no reservation of its key has.  *)
LEMMA NextOneAcquisition == ASSUME IInv, [Next]_vars PROVE OneAcquisition'
  <1> USE DEF IInv
  <1>1. CASE Abort
    BY <1>1 DEF Abort, OneAcquisition
  <1>2. ASSUME NEW h \in Handles, NEW k \in Keys, NEW mine \in Transient,
               claim[h].episode = 0, slot[k].st \in Stable, Acquire(h, k, mine)
        PROVE  OneAcquisition'
    BY <1>2 DEF Acquire, OneAcquisition, TypeOK, Slot, Claim
  <1>3. ASSUME NEW g \in Handles, NEW h \in Handles, PassClaim(g, h)
        PROVE  OneAcquisition'
    BY <1>3 DEF PassClaim, OneAcquisition, TypeOK, Slot, Claim
  <1>4. ASSUME NEW h \in Handles, NEW final \in Stable, PgFinish(h, final)
        PROVE  OneAcquisition'
    BY <1>4 DEF PgFinish, OneAcquisition, TypeOK, Slot, Claim
  <1>5. CASE UNCHANGED vars
    BY <1>5 DEF vars, OneAcquisition
  <1> QED
    BY <1>1, <1>2, <1>3, <1>4, <1>5, NextCases

(* The inductive invariant of pgstate.h holds in every reachable state.    *)
THEOREM Invariance == Spec => []IInv
  <1>1. IInv /\ [Next]_vars => IInv'
    BY NextTypeOK, NextSettleable, NextOneAcquisition DEF IInv
  <1> QED
    BY InitIInv, <1>1, PTL DEF Spec

(* Slots and reservations stay well formed under every pgstate.h call.     *)
THEOREM TypeCorrect == Spec => []TypeOK
  BY Invariance, PTL DEF IInv

(* pgstate.h never orphans a transient key: whoever waits on it waits for  *)
(* a reservation that can still be finished.                               *)
THEOREM NoOrphan == Spec => []Settleable
  BY Invariance, PTL DEF IInv

(* Episodes identify acquisitions: pg_try_claim never reissues one that an *)
(* outstanding reservation of the same key carries.                        *)
THEOREM EpisodesDistinct == Spec => []OneAcquisition
  BY Invariance, PTL DEF IInv

(* Only a reservation of the exact current episode settles a key, and it   *)
(* is spent in doing so.                                                   *)
THEOREM SettlementIsExact == Spec => ExactSettlement
  <1> DEFINE Exact ==
        \A k \in Keys : slot[k].st \in Transient /\ slot'[k] # slot[k] =>
          /\ slot'[k].st \in Stable
          /\ slot'[k].episode = slot[k].episode
          /\ \E h \in Handles : /\ claim[h].key = k
                                /\ claim[h].episode = slot[k].episode
                                /\ claim'[h].episode = 0
  <1>1. ASSUME TypeOK, [Next]_vars PROVE [Exact]_vars
    <2> SUFFICES ASSUME NEW k \in Keys, slot[k].st \in Transient, slot'[k] # slot[k]
                 PROVE  /\ slot'[k].st \in Stable
                        /\ slot'[k].episode = slot[k].episode
                        /\ \E h \in Handles : /\ claim[h].key = k
                                              /\ claim[h].episode = slot[k].episode
                                              /\ claim'[h].episode = 0
      OBVIOUS
    <2>1. PICK h \in Handles, final \in Stable : PgFinish(h, final)
      <3>1. Stable \cap Transient = {}
        BY DEF Stable, Transient
      <3> QED
        BY Zenon, <1>1, <3>1, NextCases DEF Abort, Acquire, PassClaim, vars, TypeOK
    <2>2. claim[h].key = k
      BY <1>1, <2>1 DEF PgFinish, TypeOK
    <2> QED
      BY <1>1, <2>1, <2>2 DEF PgFinish, Owns, TypeOK, Slot, Claim
  <1> QED
    BY <1>1, TypeCorrect, PTL DEF Spec, ExactSettlement
=============================================================================
