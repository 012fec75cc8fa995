------------------------------ MODULE Quiesce ------------------------------
(***************************************************************************)
(* Snapshots of an address space whose contexts run on the destination:    *)
(* before a call that copies the address space, its caller's service       *)
(* thread pauses every context of it, and lets them go when the child has  *)
(* been published.                                                         *)
(*                                                                         *)
(* The gate is the kernel's (vmctx-quiesce-core.h of the 7.0.14 patch: a   *)
(* count of pauses and a count of tasks in hardware per MM, leases owned   *)
(* by a thread); the snapshot over all members, serialised by a mutex, is  *)
(* vmremote's (snapshot-quiesce.h, forward and forward_child).  A service  *)
(* thread is named by the context that it serves.  A lease is named by its *)
(* owner and the member it was begun for: a snapshot begins at most one    *)
(* for each.                                                               *)
(***************************************************************************)
EXTENDS Naturals, FiniteSets

CONSTANTS
    Contexts,
    Mms,        \* the execution MMs behind the contexts
    Mm,         \* the MM of each context
    First,      \* the contexts that exist at the start
    None

ASSUME MmTyped == Mm \in [Contexts -> Mms]
ASSUME ContextsFinite == IsFiniteSet(Contexts)
ASSUME FirstTyped == First \in SUBSET Contexts
ASSUME NoneOutside == None \notin Contexts

VARIABLES
    life,       \* unborn, alive, ended
    at,         \* where an execution task is: host, gate, guest; unarmed
    running,    \* execution_running of each MM
    paused,     \* execution_paused of each MM
    leases,     \* vmctx_quiesce_leases, as <<owner, member>>
    serial,     \* the holder of the address space's snapshot mutex
    svc,        \* each service thread's snapshot
    stopping    \* the program is being killed, or vmremote is going

vars == <<life, at, running, paused, leases, serial, svc, stopping>>

(* left: members still to be paused; cur: the member being paused.         *)
Snapshot == [pc : {"idle", "serial", "next", "wait", "late", "held", "ending"},
             left : SUBSET Contexts, cur : Contexts,
             child : Contexts \cup {None}, failed : BOOLEAN]

Idle(c) == [pc |-> "idle", left |-> {}, cur |-> c, child |-> None, failed |-> FALSE]

Init ==
    /\ life = [c \in Contexts |-> IF c \in First THEN "alive" ELSE "unborn"]
    /\ at = [c \in Contexts |-> IF c \in First THEN "host" ELSE "unarmed"]
    /\ running = [m \in Mms |-> 0]
    /\ paused = [m \in Mms |-> 0]
    /\ leases = {}
    /\ serial = None
    /\ svc = [c \in Contexts |-> Idle(c)]
    /\ stopping = FALSE

-----------------------------------------------------------------------------
(* vmctx_execution_enter, first look at the gate or the wait behind it; a  *)
(* context whose service thread is at work on its call does not enter.     *)
Arrive(c) ==
    /\ life[c] = "alive" /\ at[c] = "host" /\ svc[c].pc = "idle"
    /\ at' = [at EXCEPT ![c] = "gate"]
    /\ UNCHANGED <<life, running, paused, leases, serial, svc, stopping>>

Enter(c) ==
    /\ at[c] = "gate" /\ paused[Mm[c]] = 0
    /\ at' = [at EXCEPT ![c] = "guest"]
    /\ running' = [running EXCEPT ![Mm[c]] = @ + 1]
    /\ UNCHANGED <<life, paused, leases, serial, svc, stopping>>

(* vmctx_execution_leave.                                                  *)
Leave(c) ==
    /\ at[c] = "guest"
    /\ at' = [at EXCEPT ![c] = "host"]
    /\ running' = [running EXCEPT ![Mm[c]] = @ - 1]
    /\ UNCHANGED <<life, paused, leases, serial, svc, stopping>>

(* The execution task is killed, or its program ended.                     *)
Die(c) ==
    /\ life[c] = "alive" /\ at[c] # "guest"
    /\ life' = [life EXCEPT ![c] = "ended"]
    /\ at' = [at EXCEPT ![c] = "host"]
    /\ UNCHANGED <<running, paused, leases, serial, svc, stopping>>

-----------------------------------------------------------------------------
(* A call that needs a snapshot was admitted by the source.                *)
Admitted(c) ==
    /\ life[c] = "alive" /\ at[c] = "host" /\ svc[c].pc = "idle" /\ ~stopping
    /\ svc' = [svc EXCEPT ![c].pc = "serial"]
    /\ UNCHANGED <<life, at, running, paused, leases, serial, stopping>>

(* snapshot_begin: the mutex, then as_members.                             *)
Members == {d \in Contexts : life[d] = "alive"}

Lock_NotSerial(c) ==
    /\ svc[c].pc = "serial" /\ ~stopping
    /\ serial' = c
    /\ svc' = [svc EXCEPT ![c].pc = "next", ![c].left = Members]
    /\ UNCHANGED <<life, at, running, paused, leases, stopping>>
Lock(c) ==
    /\ svc[c].pc = "serial" /\ ~stopping
    /\ serial = None
    /\ serial' = c
    /\ svc' = [svc EXCEPT ![c].pc = "next", ![c].left = Members]
    /\ UNCHANGED <<life, at, running, paused, leases, stopping>>

(* QUIESCE BEGIN on one member, the caller's own context first.            *)
Begin(c, d) ==
    /\ svc[c].pc = "next" /\ d \in svc[c].left /\ ~stopping
    /\ c \in svc[c].left => d = c
    /\ life[d] = "alive"
    /\ leases' = leases \cup {<<c, d>>}
    /\ paused' = [paused EXCEPT ![Mm[d]] = @ + 1]
    /\ svc' = [svc EXCEPT ![c].pc = "wait", ![c].cur = d]
    /\ UNCHANGED <<life, at, running, serial, stopping>>

(* The kernel refuses: no memory, no slot, another backend.                *)
BeginRefused(c, d) ==
    /\ svc[c].pc = "next" /\ d \in svc[c].left /\ ~stopping
    /\ c \in svc[c].left => d = c
    /\ life[d] = "alive"
    /\ svc' = [svc EXCEPT ![c].pc = "late", ![c].cur = d]
    /\ UNCHANGED <<life, at, running, paused, leases, serial, stopping>>

(* An ended member needs no pause; the caller's own end is a failure.      *)
BeginEnded(c, d) ==
    /\ svc[c].pc = "next" /\ d \in svc[c].left /\ ~stopping
    /\ c \in svc[c].left => d = c
    /\ life[d] = "ended"
    /\ svc' = IF d = c THEN [svc EXCEPT ![c].pc = "ending", ![c].failed = TRUE]
              ELSE [svc EXCEPT ![c].left = @ \ {d}]
    /\ UNCHANGED <<life, at, running, paused, leases, serial, stopping>>

Granted(c) ==
    /\ svc[c].pc = "wait" /\ ~stopping
    /\ running[Mm[svc[c].cur]] = 0
    /\ svc' = [svc EXCEPT ![c].pc = "next", ![c].left = @ \ {svc[c].cur}]
    /\ UNCHANGED <<life, at, running, paused, leases, serial, stopping>>

(* vmctx_quiesce_end of one lease.                                         *)
EndLease(c, d) ==
    /\ <<c, d>> \in leases
    /\ leases' = leases \ {<<c, d>>}
    /\ paused' = [paused EXCEPT ![Mm[d]] = @ - 1]

(* Three seconds passed and somebody still runs.                           *)
TimedOut(c) ==
    /\ svc[c].pc = "wait" /\ ~stopping
    /\ running[Mm[svc[c].cur]] # 0
    /\ EndLease(c, svc[c].cur)
    /\ svc' = [svc EXCEPT ![c].pc = "late"]
    /\ UNCHANGED <<life, at, running, serial, stopping>>

(* ctx_wait_execution_ended: if the member ends within a second, go on;    *)
(* otherwise, or if it is the caller's own, give the snapshot up.          *)
LateEnded(c) ==
    /\ svc[c].pc = "late" /\ ~stopping
    /\ svc[c].cur # c /\ life[svc[c].cur] = "ended"
    /\ svc' = [svc EXCEPT ![c].pc = "next", ![c].left = @ \ {svc[c].cur}]
    /\ UNCHANGED <<life, at, running, paused, leases, serial, stopping>>

LateFails(c) ==
    /\ svc[c].pc = "late" /\ ~stopping
    /\ svc[c].cur = c \/ life[svc[c].cur] # "ended"
    /\ svc' = [svc EXCEPT ![c].pc = "ending", ![c].failed = TRUE]
    /\ UNCHANGED <<life, at, running, paused, leases, serial, stopping>>

Held(c) ==
    /\ svc[c].pc = "next" /\ svc[c].left = {} /\ ~stopping
    /\ svc' = [svc EXCEPT ![c].pc = "held"]
    /\ UNCHANGED <<life, at, running, paused, leases, serial, stopping>>

-----------------------------------------------------------------------------
(* forward_child: a thread of this address space was created; its context  *)
(* is registered, but its service starts after the snapshot's end.         *)
Publish(c, k) ==
    /\ svc[c].pc = "held" /\ life[k] = "unborn" /\ ~stopping
    /\ svc[c].child = None
    /\ life' = [life EXCEPT ![k] = "alive"]
    /\ svc' = [svc EXCEPT ![c].child = k]
    /\ UNCHANGED <<at, running, paused, leases, serial, stopping>>

(* The child's metadata is installed, or the call made no thread.          *)
Complete(c) ==
    /\ svc[c].pc = "held" /\ ~stopping
    /\ svc' = [svc EXCEPT ![c].pc = "ending"]
    /\ UNCHANGED <<life, at, running, paused, leases, serial, stopping>>

(* snapshot_end: the leases one by one, then the mutex; then the child is  *)
(* started, or after a failed begin every context is killed.               *)
Release(c, d) ==
    /\ svc[c].pc = "ending" /\ ~stopping
    /\ EndLease(c, d)
    /\ UNCHANGED <<life, at, running, serial, svc, stopping>>

Unlock(c) ==
    /\ svc[c].pc = "ending" /\ ~stopping
    /\ \A d \in Contexts : <<c, d>> \notin leases
    /\ serial' = None
    /\ svc' = [svc EXCEPT ![c] = Idle(c)]
    /\ at' = [k \in Contexts |-> IF k = svc[c].child /\ life[k] = "alive" THEN "host" ELSE at[k]]
    /\ stopping' = svc[c].failed
    /\ UNCHANGED <<life, running, paused, leases>>

-----------------------------------------------------------------------------
(* vmremote goes: its threads stop where they are, and each one's exit     *)
(* releases what it holds (vmctx_quiesce_owner_exit).                      *)
Stop ==
    /\ ~stopping
    /\ stopping' = TRUE
    /\ UNCHANGED <<life, at, running, paused, leases, serial, svc>>

OwnerExit_StaysClosed(c, d) ==
    /\ stopping /\ <<c, d>> \in leases
    /\ leases' = leases \ {<<c, d>>}
    /\ UNCHANGED <<life, at, running, paused, serial, svc, stopping>>
OwnerExit(c, d) ==
    /\ stopping
    /\ EndLease(c, d)
    /\ UNCHANGED <<life, at, running, serial, svc, stopping>>

-----------------------------------------------------------------------------
TaskStep(c) == Arrive(c) \/ Enter(c) \/ Leave(c) \/ Die(c)

ServiceStep(c) ==
    \/ Lock(c) \/ Granted(c) \/ TimedOut(c) \/ LateEnded(c) \/ LateFails(c)
    \/ Held(c) \/ Complete(c) \/ Unlock(c)
    \/ \E d \in Contexts :
          Begin(c, d) \/ BeginRefused(c, d) \/ BeginEnded(c, d) \/ Release(c, d)

Next ==
    \/ \E c \in Contexts : TaskStep(c) \/ Admitted(c) \/ ServiceStep(c)
    \/ \E c, d \in Contexts : Publish(c, d) \/ OwnerExit(c, d)
    \/ Stop

(* A kicked guest leaves, a service thread keeps going, the source answers *)
(* the call, and an exiting thread runs its exit.  A task may stay in the  *)
(* guest past the three seconds: TimedOut is the service's step then.      *)
Fairness ==
    \A c \in Contexts :
        /\ WF_vars(ServiceStep(c))
        /\ \A d \in Contexts : WF_vars(OwnerExit(c, d))

Spec == Init /\ [][Next]_vars /\ Fairness

-----------------------------------------------------------------------------
TypeOK ==
    /\ life \in [Contexts -> {"unborn", "alive", "ended"}]
    /\ at \in [Contexts -> {"host", "gate", "guest", "unarmed"}]
    /\ running \in [Mms -> Nat]
    /\ paused \in [Mms -> Nat]
    /\ leases \in SUBSET (Contexts \X Contexts)
    /\ serial \in Contexts \cup {None}
    /\ svc \in [Contexts -> Snapshot]
    /\ stopping \in BOOLEAN

(* While a snapshot is held (forward: the admitted call is executed, pages *)
(* are settled and the child is copied), no context of the address space   *)
(* is in hardware: not one that raced with the gate, not one that was      *)
(* created by somebody else's call, and not the new child.                 *)
Frozen ==
    \A c, d \in Contexts : svc[c].pc = "held" /\ ~stopping => at[d] # "guest"

(* vmctx_quiesce_end: a gate that is closed has a lease that will open it, *)
(* after a timeout, a failed snapshot or the owner's exit too.             *)
ClosedByLease ==
    \A m \in Mms : paused[m] > 0 => \E l \in leases : Mm[l[2]] = m

(* A task that waits at the gate sees it open, or ends: every pause is     *)
(* finite, whatever becomes of the thread that asked for it.               *)
GateOpens ==
    \A c \in Contexts :
        at[c] = "gate" ~> (paused[Mm[c]] = 0 \/ life[c] = "ended")

=============================================================================
