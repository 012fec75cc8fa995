----------------------------- MODULE PageClaims -----------------------------
(***************************************************************************)
(* Process-local exclusion of page transfers in vmremote                   *)
(* (src/vmctx/user/pgstate.h).  A page key (address space, page) is either *)
(* stable or in one transient state.  The transient state survives the     *)
(* release of pgstate_mx while bytes move, and only a reservation that     *)
(* carries the key's current episode may settle it.                        *)
(*                                                                         *)
(* The probing table is a function from keys to slots: a slot that was     *)
(* never created reads as {INVALID, 0}, which is what its creation writes. *)
(***************************************************************************)
EXTENDS Naturals

CONSTANTS
    Keys,         \* (address space, page) pairs
    Handles,      \* struct pg_claim objects, one per worker or copy
    EpisodeMax    \* UINT64_MAX

ASSUME EpisodeMaxAssumption == EpisodeMax \in Nat

VARIABLES
    slot,         \* struct pg_slot by key: its state and its episode
    claim,        \* struct pg_claim by handle; episode 0 reserves nothing
    aborted       \* abort() was reached: the process takes no further step

vars == <<slot, claim, aborted>>

Stable    == {"INVALID", "SHARED", "OWNED"}
Transient == {"UNINSTALLING", "TRANSFERRING", "DOWNGRADING", "REQUESTING"}

Slot  == [st : Stable \cup Transient, episode : Nat]
Claim == [key : Keys, episode : Nat, prior : Stable]

Init ==
    /\ slot = [k \in Keys |-> [st |-> "INVALID", episode |-> 0]]
    /\ claim \in [Handles -> [key : Keys, episode : {0}, prior : {"INVALID"}]]
    /\ aborted = FALSE

(* pg_finish compares a reservation with the acquisition it names.         *)
Owns_AnyEpisode(c) ==
    c.episode # 0 /\ slot[c.key].st \in Transient
Owns(c) ==
    /\ c.episode # 0
    /\ slot[c.key].st \in Transient
    /\ slot[c.key].episode = c.episode

(* The state and the reservation a successful acquisition of k writes.     *)
Acquire(h, k, mine) ==
    /\ slot' = [slot EXCEPT ![k] = [st |-> mine, episode |-> slot[k].episode + 1]]
    /\ claim' = [claim EXCEPT ![h] = [key     |-> k,
                                      episode |-> slot[k].episode + 1,
                                      prior   |-> slot[k].st]]
    /\ UNCHANGED aborted

Abort ==
    /\ aborted' = TRUE
    /\ UNCHANGED <<slot, claim>>

PgTryClaim_OverwritesHandle(h, k, mine) ==
    /\ ~aborted
    /\ slot[k].st \in Stable
    /\ slot[k].episode < EpisodeMax
    /\ Acquire(h, k, mine)

(***************************************************************************)
(* pg_try_claim, one critical section of pgstate_mx.  An outstanding       *)
(* reservation (EALREADY) and a transient key (EBUSY) refuse and touch     *)
(* nothing; an exhausted episode aborts rather than reuse an identity.     *)
(***************************************************************************)
PgTryClaim(h, k, mine) ==
    /\ ~aborted
    /\ claim[h].episode = 0
    /\ slot[k].st \in Stable
    /\ IF slot[k].episode = EpisodeMax THEN Abort ELSE Acquire(h, k, mine)

(* A reservation is plain data: it may be handed to another worker, whose  *)
(* copy is then as old as the acquisition it names.                        *)
PassClaim(g, h) ==
    /\ ~aborted
    /\ claim[g].episode # 0 /\ claim[h].episode = 0
    /\ claim' = [claim EXCEPT ![h] = claim[g]]
    /\ UNCHANGED <<slot, aborted>>

(* pg_finish: the exact episode settles its key and is spent by doing so.  *)
(* A refused finish (ESTALE) changes neither the key nor the reservation.  *)
PgFinish(h, final) ==
    /\ ~aborted
    /\ Owns(claim[h])
    /\ slot' = [slot EXCEPT ![claim[h].key].st = final]
    /\ claim' = [claim EXCEPT ![h].episode = 0]
    /\ UNCHANGED aborted

(* pg_finish_required and pg_request_release: production callers stop when *)
(* the reservation they hold is no longer the key's.                       *)
PgFinishRequired(h, final) ==
    \/ PgFinish(h, final)
    \/ /\ ~aborted
       /\ claim[h].episode # 0 /\ ~Owns(claim[h])
       /\ Abort

Next ==
    \/ \E h \in Handles, k \in Keys, mine \in Transient : PgTryClaim(h, k, mine)
    \/ \E g, h \in Handles : PassClaim(g, h)
    \/ \E h \in Handles, final \in Stable : PgFinishRequired(h, final)

Spec == Init /\ [][Next]_vars

-----------------------------------------------------------------------------
(* Every slot and every reservation is well formed.                        *)
TypeOK ==
    /\ slot \in [Keys -> Slot]
    /\ claim \in [Handles -> Claim]
    /\ aborted \in BOOLEAN

(* A key left transient is never orphaned: some reservation still names    *)
(* its current episode and can settle it, so a waiter of pg_claim_wait     *)
(* always has somebody to wait for.                                        *)
Settleable ==
    \A k \in Keys : slot[k].st \in Transient =>
        \E h \in Handles : claim[h].key = k /\ Owns(claim[h])

(* An episode names one acquisition: two reservations of one key with the  *)
(* same episode are copies of each other, and none is newer than its key.  *)
OneAcquisition ==
    \A g, h \in Handles :
        /\ claim[h].episode <= slot[claim[h].key].episode
        /\ claim[g].key = claim[h].key /\ claim[g].episode = claim[h].episode
              /\ claim[g].episode # 0
           => claim[g].prior = claim[h].prior

(* A transient key changes only by the finish of a reservation of exactly  *)
(* its current episode, and that reservation is spent in the same step: a  *)
(* delayed or repeated pg_finish cannot alter a later owner.               *)
ExactSettlement ==
    [][\A k \in Keys : slot[k].st \in Transient /\ slot'[k] # slot[k] =>
          /\ slot'[k].st \in Stable
          /\ slot'[k].episode = slot[k].episode
          /\ \E h \in Handles : /\ claim[h].key = k
                                /\ claim[h].episode = slot[k].episode
                                /\ claim'[h].episode = 0]_vars
=============================================================================
