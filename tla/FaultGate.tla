------------------------------ MODULE FaultGate ------------------------------
(***************************************************************************)
(* How vmremote serialises the service of one page: the fault path         *)
(* (src/vmctx/user/fault-dispatch.h), its advisory gate over the shared    *)
(* ownership segment (own.h, own_begin / own_wait / own_land, through the  *)
(* ownf_* wrappers of vmremote.c), the local reservation of pgstate.h      *)
(* (PageClaims) and the page server that answers the source's GETs.        *)
(*                                                                         *)
(* A sibling that finds a service in flight sleeps on the entry's gen word *)
(* until the service lands.  A fault the page service cannot satisfy is    *)
(* dispatched to the program's owner with nothing reserved, because the    *)
(* owner may need the same page; the answer may be "legal", and then page  *)
(* service starts over.                                                    *)
(*                                                                         *)
(* Critical sections of own_lock are single steps, as are those            *)
(* of pgstate_mx.  The futex words gen and waiters are read and written    *)
(* outside that lock, each access a step.  Table entries are a function of *)
(* the key; the entry's site is written and never read, and left out.      *)
(***************************************************************************)
EXTENDS Naturals, FiniteSets

CONSTANTS
    Keys,         \* (address space, page) pairs
    Faulters,     \* service threads of guest contexts
    Servers,      \* page channels that answer the source
    Finals,       \* stable states a service or a transfer may leave
    Taking,       \* transient states the page server reserves with
    EpisodeMax,   \* UINT64_MAX
    FaultMax,     \* bound: faults each context takes
    ServeMax,     \* bound: GETs the source sends on its own account
    ChangeMax     \* bound: changes of the program's mappings at the source

ASSUME EpisodeMaxNat == EpisodeMax \in Nat
ASSUME FaultersFinite == IsFiniteSet(Faulters)
ASSUME FinalsStable == Finals \subseteq {"INVALID", "SHARED", "OWNED"}
ASSUME TakingTransient == Taking \subseteq {"UNINSTALLING", "DOWNGRADING"}
ASSUME NobodyNoThread == "nobody" \notin Faulters
ASSUME ActorsDisjoint == Faulters \cap Servers = {}

VARIABLES
    slot, claim, aborted,   \* pgstate.h, see PageClaims
    made,         \* keys that have an entry in the segment
    transit,      \* own_ent.transit and transit_owner: who claimed the move
    gen,          \* own_ent.gen, the word waiters sleep on
    waiters,      \* own_ent.waiters
    th,           \* each fault in service: its place and its locals
    legal,        \* the program's own mapping permits the access (source)
    died,         \* the dispatcher's abort() on a second dispatch
    faults, serves, changes

pages == <<slot, claim, aborted>>
entry == <<made, transit, gen, waiters>>
bound == <<faults, serves, changes>>
vars  == <<pages, entry, th, legal, died, bound>>

P == INSTANCE PageClaims WITH Handles <- Faulters \cup Servers

Nobody == "nobody"

Places == {"idle", "claim", "count", "check", "sleep", "asleep",
           "reserve", "service", "release", "load", "wake", "dispatch"}

(* gate: owf is OWNF_CLAIMED; gen: the generation to wait on; allows:      *)
(* source_allows_access; owner: page service answered FAULT_NEEDS_OWNER;   *)
(* needs: the owner is waiting for this page.                              *)
Thread == [pc : Places, key : Keys, gate : BOOLEAN, gen : Nat,
           allows : BOOLEAN, owner : BOOLEAN, needs : BOOLEAN]

NewFault(k) == [pc |-> "claim", key |-> k, gate |-> FALSE, gen |-> 0,
                allows |-> FALSE, owner |-> FALSE, needs |-> FALSE]

(* A context that is not in fault service; the key is the last one's.      *)
Resumed(k) == [NewFault(k) EXCEPT !.pc = "idle"]

Init ==
    /\ slot = [k \in Keys |-> [st |-> "INVALID", episode |-> 0]]
    /\ claim \in [Faulters \cup Servers -> [key : Keys, episode : {0}, prior : {"INVALID"}]]
    /\ aborted = FALSE
    /\ made = {}
    /\ transit = [k \in Keys |-> Nobody]
    /\ gen = [k \in Keys |-> 0]
    /\ waiters = [k \in Keys |-> 0]
    /\ th \in [Faulters -> {Resumed(k) : k \in Keys}]
    /\ legal \in [Keys -> BOOLEAN]
    /\ died = FALSE
    /\ faults = [t \in Faulters |-> 0] /\ serves = 0 /\ changes = 0

Goto(t, place) == th' = [th EXCEPT ![t].pc = place]

(* Threads counted in own_ent.waiters of k.                                *)
Counted(k) ==
    {t \in Faulters : th[t].key = k /\ th[t].pc \in {"check", "sleep", "asleep"}}

-----------------------------------------------------------------------------
(* A guest access faults.                                                  *)
Fault(t, k) ==
    /\ th[t].pc = "idle" /\ faults[t] < FaultMax
    /\ th' = [th EXCEPT ![t] = NewFault(k)]
    /\ faults' = [faults EXCEPT ![t] = @ + 1]
    /\ UNCHANGED <<pages, entry, legal, died, serves, changes>>

(* ownf_claim / own_begin: a key that has no entry may find the segment    *)
(* full of other keys, and then its fault runs ungated; an idle entry is   *)
(* claimed; a move in flight gives the gen to wait on, read in the         *)
(* critical section that saw the move.                                     *)
OwnfClaim(t) ==
    LET k == th[t].key IN
    /\ th[t].pc = "claim"
    /\ \/ /\ k \notin made
          /\ Goto(t, "reserve")
          /\ UNCHANGED <<made, transit>>
       \/ /\ transit[k] = Nobody
          /\ made' = made \cup {k}
          /\ transit' = [transit EXCEPT ![k] = t]
          /\ th' = [th EXCEPT ![t].pc = "reserve", ![t].gate = TRUE]
       \/ /\ transit[k] # Nobody
          /\ th' = [th EXCEPT ![t].pc = "count", ![t].gen = gen[k]]
          /\ UNCHANGED <<made, transit>>
    /\ UNCHANGED <<pages, gen, waiters, legal, died, bound>>

(* own_wait counts the waiter in before it looks at gen.                   *)
CountIn(t) ==
    /\ th[t].pc = "count"
    /\ waiters' = [waiters EXCEPT ![th[t].key] = @ + 1]
    /\ Goto(t, "check")
    /\ UNCHANGED <<pages, made, transit, gen, legal, died, bound>>

CountOut(t) == waiters' = [waiters EXCEPT ![th[t].key] = @ - 1]

(* The top of own_wait's loop.  If gen has moved the wait is over and the  *)
(* guest resumes, to fault again if it must; otherwise the thread sleeps.  *)
Check(t) ==
    /\ th[t].pc = "check"
    /\ IF gen[th[t].key] # th[t].gen
         THEN CountOut(t) /\ th' = [th EXCEPT ![t] = Resumed(@.key)]
         ELSE Goto(t, "sleep") /\ UNCHANGED waiters
    /\ UNCHANGED <<pages, made, transit, gen, legal, died, bound>>

(* The 3 s bound has passed and gen has not moved: the fault is serviced   *)
(* ungated, under the reservation alone.                                   *)
Expired(t) ==
    /\ th[t].pc = "check" /\ gen[th[t].key] = th[t].gen
    /\ CountOut(t)
    /\ th' = [th EXCEPT ![t].pc = "reserve", ![t].gen = 0]
    /\ UNCHANGED <<pages, made, transit, gen, legal, died, bound>>

FutexWait_NoCompare(t) ==
    /\ th[t].pc = "sleep"
    /\ Goto(t, "asleep")
    /\ UNCHANGED <<pages, entry, legal, died, bound>>
(* FUTEX_WAIT sleeps only if the word still holds the generation.          *)
FutexWait(t) ==
    /\ th[t].pc = "sleep"
    /\ Goto(t, IF gen[th[t].key] = th[t].gen THEN "asleep" ELSE "check")
    /\ UNCHANGED <<pages, entry, legal, died, bound>>

(* A time slice or a signal ends the sleep; the loop looks again.          *)
SleepEnds(t) ==
    /\ th[t].pc = "asleep"
    /\ Goto(t, "check")
    /\ UNCHANGED <<pages, entry, legal, died, bound>>

(* pg_try_claim(PST_REQUESTING).  A key in transition yields: the gate is  *)
(* given back and the guest faults again.                                  *)
Reserve(t) ==
    /\ th[t].pc = "reserve"
    /\ \/ /\ P!PgTryClaim(t, th[t].key, "REQUESTING")
          /\ Goto(t, "service")
       \/ /\ slot[th[t].key].st \in P!Transient
          /\ IF th[t].gate THEN Goto(t, "release")
                           ELSE th' = [th EXCEPT ![t] = Resumed(@.key)]
          /\ UNCHANGED pages
    /\ UNCHANGED <<entry, legal, died, bound>>

(***************************************************************************)
(* fault_from_home_inner, by its result.  The owner is needed when the     *)
(* local records, which may be behind the source's, forbid the access or   *)
(* the source has no such address; once the owner has ruled the access     *)
(* legal those answers no longer count.  The answers NOMAP to a write      *)
(* recall and EACCES to WRITEPREP still do.                                *)
(***************************************************************************)
NeedsOwner(t) == ~th[t].allows \/ ~legal[th[t].key]

(* The dispatcher's last step of one pass, with nothing reserved any more: *)
(* a result for the guest, a dispatch to the owner, or the abort() that a  *)
(* second dispatch would be.  all is th, t's outcome included.             *)
Conclude(t, all) ==
    /\ died' = (all[t].owner /\ all[t].allows)
    /\ IF all[t].owner /\ ~all[t].allows
         THEN \E needs \in BOOLEAN :
                th' = [all EXCEPT ![t].pc = "dispatch", ![t].needs = needs]
         ELSE th' = [all EXCEPT ![t] = Resumed(all[t].key)]

(* Page service answers, ack_flush confirms what it landed, and            *)
(* pg_finish_required settles the page by what is present now.             *)
Service(t, final) ==
    /\ th[t].pc = "service"
    /\ P!PgFinishRequired(t, final)
    /\ \E owner \in {FALSE, NeedsOwner(t)} :
          IF th[t].gate
            THEN th' = [th EXCEPT ![t].pc = "release", ![t].owner = owner] /\ UNCHANGED died
            ELSE Conclude(t, [th EXCEPT ![t].owner = owner])
    /\ UNCHANGED <<entry, legal, bound>>

Release_NoBump(t) ==
    /\ th[t].pc = "release"
    /\ transit' = [transit EXCEPT ![th[t].key] = Nobody]
    /\ th' = [th EXCEPT ![t].pc = "load", ![t].gate = FALSE]
    /\ UNCHANGED <<pages, made, gen, waiters, legal, died, bound>>
(* ownf_release: own_land or own_abort clears the move and bumps gen.      *)
Release(t) ==
    LET k == th[t].key IN
    /\ th[t].pc = "release"
    /\ transit' = [transit EXCEPT ![k] = Nobody]
    /\ gen' = [gen EXCEPT ![k] = @ + 1]
    /\ th' = [th EXCEPT ![t].pc = "load", ![t].gate = FALSE]
    /\ UNCHANGED <<pages, made, waiters, legal, died, bound>>

(* own_gen_wake looks at waiters, and wakes only if there are any.         *)
LoadWaiters(t) ==
    /\ th[t].pc = "load"
    /\ IF waiters[th[t].key] > 0
         THEN Goto(t, "wake") /\ UNCHANGED died
         ELSE Conclude(t, th)
    /\ UNCHANGED <<pages, entry, legal, bound>>

(* FUTEX_WAKE of all: every sleeper of the key looks at gen again.         *)
FutexWake(t) ==
    /\ th[t].pc = "wake"
    /\ Conclude(t, [u \in Faulters |->
                       IF th[u].pc = "asleep" /\ th[u].key = th[t].key
                         THEN [th[u] EXCEPT !.pc = "check"] ELSE th[u]])
    /\ UNCHANGED <<pages, entry, legal, bound>>

(* owner_takes_fault returns: VMR_EXC_LEGAL restarts page service, every   *)
(* other answer ends the fault.                                            *)
OwnerAnswers(t) ==
    /\ th[t].pc = "dispatch" /\ ~th[t].needs
    /\ \/ th' = [th EXCEPT ![t] = Resumed(@.key)]
       \/ /\ legal[th[t].key]
          /\ th' = [th EXCEPT ![t] = [NewFault(@.key) EXCEPT !.allows = TRUE]]
    /\ UNCHANGED <<pages, entry, legal, died, bound>>

-----------------------------------------------------------------------------
Wanted(k) == \E t \in Faulters : th[t].pc = "dispatch" /\ th[t].needs /\ th[t].key = k

(* pg_serve_conn reserves the page of a GET, GETS or COWBREAK before it    *)
(* touches it.  A busy page is answered INFLIGHT and the source asks again.*)
Serve(s, k, mine) ==
    /\ Wanted(k) \/ serves < ServeMax
    /\ serves' = IF Wanted(k) THEN serves ELSE serves + 1
    /\ P!PgTryClaim(s, k, mine)
    /\ UNCHANGED <<entry, th, legal, died, faults, changes>>

ServeEnd_Unreserved(s, final) ==
    /\ slot' = [slot EXCEPT ![claim[s].key].st = final]
    /\ UNCHANGED <<claim, aborted, th, entry, legal, died, bound>>
(* The reply is sent and the reservation released with transfer.final.     *)
ServeEnd(s, final) ==
    /\ final \in Finals \cup {claim[s].prior}
    /\ P!PgFinishRequired(s, final)
    /\ th' = [t \in Faulters |->
                 IF th[t].pc = "dispatch" /\ th[t].key = claim[s].key
                   THEN [th[t] EXCEPT !.needs = FALSE] ELSE th[t]]
    /\ UNCHANGED <<entry, legal, died, bound>>

(* Another thread of the program changes its mappings at the source.       *)
SourceChanges(k) ==
    /\ changes < ChangeMax
    /\ changes' = changes + 1
    /\ legal' = [legal EXCEPT ![k] = ~@]
    /\ UNCHANGED <<pages, entry, th, died, faults, serves>>

(* What a thread in fault_from_home_mode does by itself.                   *)
Step(t) ==
    \/ OwnfClaim(t) \/ CountIn(t) \/ Check(t) \/ FutexWait(t) \/ Reserve(t)
    \/ \E final \in Finals : Service(t, final)
    \/ Release(t) \/ LoadWaiters(t) \/ FutexWake(t) \/ OwnerAnswers(t)

ServerStep(s) ==
    \/ \E k \in Keys, mine \in Taking : Serve(s, k, mine)
    \/ \E final \in P!Stable : ServeEnd(s, final)

Next ==
    /\ ~aborted /\ ~died
    /\ \/ \E t \in Faulters :
             Step(t) \/ Expired(t) \/ SleepEnds(t) \/ \E k \in Keys : Fault(t, k)
       \/ \E s \in Servers : ServerStep(s)
       \/ \E k \in Keys : SourceChanges(k)

(* Threads in service keep running, the owner answers a dispatch once it   *)
(* has its page, and the source repeats a GET that was answered INFLIGHT.  *)
(* Nothing is assumed of the 3 s bound, of signals or of new faults.       *)
Fairness ==
    /\ \A t \in Faulters : WF_vars(~aborted /\ ~died /\ Step(t))
    /\ \A s \in Servers : WF_vars(~aborted /\ ~died /\ ServerStep(s))

Spec == Init /\ [][Next]_vars /\ Fairness

-----------------------------------------------------------------------------
(* Every entry, reservation and fault in service is well formed.           *)
TypeOK ==
    /\ slot \in [Keys -> P!Slot]
    /\ claim \in [Faulters \cup Servers -> P!Claim]
    /\ aborted \in BOOLEAN /\ died \in BOOLEAN
    /\ made \subseteq Keys
    /\ transit \in [Keys -> Faulters \cup {Nobody}]
    /\ gen \in [Keys -> Nat] /\ waiters \in [Keys -> Nat]
    /\ th \in [Faulters -> Thread]
    /\ legal \in [Keys -> BOOLEAN]

(* The gate has one owner per page: transit names a thread exactly while   *)
(* that thread is between own_begin and own_land or own_abort on the page, *)
(* on every exit of the service.                                           *)
GateOwned ==
    \A k \in Keys, t \in Faulters :
        transit[k] = t <=> th[t].gate /\ th[t].key = k

(* A sleeper is never forgotten: either the service it waits for is still  *)
(* in flight, or gen has moved and the lander is yet to look at waiters or *)
(* to make its FUTEX_WAKE, and will find this sleeper counted.             *)
NoLostWakeup ==
    \A t \in Faulters : th[t].pc = "asleep" =>
        /\ waiters[th[t].key] > 0
        /\ \/ th[t].gen = gen[th[t].key] /\ transit[th[t].key] # Nobody
           \/ \E u \in Faulters : th[u].key = th[t].key /\ th[u].pc \in {"load", "wake"}

(* Page service runs under the page's current reservation and exception    *)
(* dispatch under neither reservation nor gate, so that the owner's own    *)
(* GET of the page can be admitted; pg_finish_required never finds another *)
(* owner, and the process aborts in pgstate.h only on an exhausted episode.*)
Reserved ==
    IF aborted
      THEN \E k \in Keys : slot[k].episode = EpisodeMax
      ELSE \A t \in Faulters :
              /\ IF th[t].pc = "service"
                   THEN claim[t].key = th[t].key /\ P!Owns(claim[t])
                   ELSE claim[t].episode = 0
              /\ th[t].pc = "dispatch" => ~th[t].gate

(* A fault in service comes back to the guest, however its siblings, the   *)
(* page server and the owner interleave, and without the 3 s bound of      *)
(* own_wait ever being needed.                                             *)
FaultReturns ==
    \A t \in Faulters : th[t].pc # "idle" ~> (th[t].pc = "idle" \/ died)

(* Fault service and page server use pgstate.h as PageClaims says: what is *)
(* shown of reservations there holds of theirs.                            *)
ClaimsUsed == P!Spec

=============================================================================
