----------------------------- MODULE GuestKick -----------------------------
(***************************************************************************)
(* How a take retires the guest translations of a page on every CPU        *)
(* (src/vmctx/kernel/vmctx.c: svm_vmrun_once_gpr, vmx_enter_once and       *)
(* vmctx_kick_guests).                                                     *)
(*                                                                         *)
(* The take has unmapped the page.  It bumps vmctx_tlb_gen, then reads     *)
(* vmctx_guests_running and, if that is not zero, interrupts every CPU and *)
(* waits.  An entry increments the counter, then reads the generation, and *)
(* flushes the guest's TLB if this CPU has not flushed for it.  All four   *)
(* are atomic read-modify-writes or are ordered by one; each is a step.    *)
(***************************************************************************)
EXTENDS Naturals, FiniteSets

CONSTANTS
    CPUs,
    Takers,     \* tasks that take or protect a page
    Pages,
    GenMax,     \* bound: generations
    Vpid        \* the CPU keeps guest translations over exits (SVM's ASID)

ASSUME VpidBoolean == Vpid \in BOOLEAN
ASSUME CPUsFinite == IsFiniteSet(CPUs)

VARIABLES
    pte,        \* the pages that the page tables map
    tlb,        \* the translations each CPU holds for its guests
    gen,        \* vmctx_tlb_gen
    cpuGen,     \* vmctx_cpu_tlb_gen
    running,    \* vmctx_guests_running
    cpu,        \* where each CPU is on the way into a guest
    take        \* each taker's progress

vars == <<pte, tlb, gen, cpuGen, running, cpu, take>>

(* host: interrupts on; then with interrupts off: counted, armed (the next *)
(* VMRUN flushes), unarmed, guest, left (out, but still counted).          *)
Places == {"host", "counted", "armed", "unarmed", "guest", "left"}

(* due: the CPUs whose answer to the interrupt is outstanding.             *)
Take == [pc : {"idle", "unmapped", "bumped", "kicking", "copy"},
         page : Pages, due : SUBSET CPUs]

Init ==
    /\ pte \in SUBSET Pages
    /\ tlb = [c \in CPUs |-> {}]
    /\ gen = 1
    /\ cpuGen = [c \in CPUs |-> 0]
    /\ running = 0
    /\ cpu = [c \in CPUs |-> "host"]
    /\ \E p \in Pages :
          take = [t \in Takers |-> [pc |-> "idle", page |-> p, due |-> {}]]

-----------------------------------------------------------------------------
(* A CPU enters a guest.  Every way to "guest" passes through the counter. *)
Move(c, from, to) == cpu[c] = from /\ cpu' = [cpu EXCEPT ![c] = to]

Count(c) ==
    /\ Move(c, "host", "counted")
    /\ running' = running + 1
    /\ UNCHANGED <<pte, tlb, gen, cpuGen, take>>

(* The generation check.  VMX has none: without VPID every entry flushes.  *)
CheckGen(c) ==
    /\ Move(c, "counted", IF ~Vpid \/ cpuGen[c] # gen THEN "armed" ELSE "unarmed")
    /\ cpuGen' = IF Vpid THEN [cpuGen EXCEPT ![c] = gen] ELSE cpuGen
    /\ UNCHANGED <<pte, tlb, gen, running, take>>

(* VMRUN.  The standing tlb_ctl of the build flushes some unarmed entries  *)
(* too: it is never a guarantee.                                           *)
Enter(c) ==
    /\ cpu[c] \in {"armed", "unarmed"}
    /\ cpu' = [cpu EXCEPT ![c] = "guest"]
    /\ \/ tlb' = [tlb EXCEPT ![c] = {}]
       \/ cpu[c] = "unarmed" /\ UNCHANGED tlb
    /\ UNCHANGED <<pte, gen, cpuGen, running, take>>

(* The guest walks its page tables.                                        *)
Walk(c, p) ==
    /\ cpu[c] = "guest" /\ p \in pte
    /\ tlb' = [tlb EXCEPT ![c] = @ \cup {p}]
    /\ UNCHANGED <<pte, gen, cpuGen, running, cpu, take>>

(* #VMEXIT; the decrement is a step of its own.                            *)
Exit(c) ==
    /\ Move(c, "guest", "left")
    /\ UNCHANGED <<pte, tlb, gen, cpuGen, running, take>>

Uncount(c) ==
    /\ Move(c, "left", "host")
    /\ running' = running - 1
    /\ UNCHANGED <<pte, tlb, gen, cpuGen, take>>

-----------------------------------------------------------------------------
(* A take unmaps its page; nobody maps it again before the take is over.   *)
Taken(p) == \E t \in Takers : take[t].pc # "idle" /\ take[t].page = p

Unmap(t, p) ==
    /\ take[t].pc = "idle" /\ gen < GenMax
    /\ pte' = pte \ {p}
    /\ take' = [take EXCEPT ![t] = [pc |-> "unmapped", page |-> p, due |-> {}]]
    /\ UNCHANGED <<tlb, gen, cpuGen, running, cpu>>

Bump(t) ==
    /\ take[t].pc = "unmapped"
    /\ gen' = gen + 1
    /\ take' = [take EXCEPT ![t].pc = "bumped"]
    /\ UNCHANGED <<pte, tlb, cpuGen, running, cpu>>

(* The counter is read; no guest, no interrupt.                            *)
Kick_NotWaited(t) ==
    /\ take[t].pc = "bumped"
    /\ take' = [take EXCEPT ![t].pc = "copy"]
    /\ UNCHANGED <<pte, tlb, gen, cpuGen, running, cpu>>
Kick_AwaitsIdle(t) ==
    /\ take[t].pc = "bumped" /\ running = 0
    /\ take' = [take EXCEPT ![t].pc = "copy"]
    /\ UNCHANGED <<pte, tlb, gen, cpuGen, running, cpu>>
Kick(t) ==
    /\ take[t].pc = "bumped"
    /\ take' = IF running = 0
                 THEN [take EXCEPT ![t].pc = "copy"]
                 ELSE [take EXCEPT ![t].pc = "kicking", ![t].due = CPUs]
    /\ UNCHANGED <<pte, tlb, gen, cpuGen, running, cpu>>

(* A CPU takes the interrupt when interrupts are on; one in a guest leaves *)
(* it for that.  A CPU that runs no guest answers at once.                 *)
Interrupt(t, c) ==
    /\ take[t].pc = "kicking" /\ c \in take[t].due
    /\ cpu[c] = "host"
    /\ take' = [take EXCEPT ![t].due = @ \ {c}]
    /\ UNCHANGED <<pte, tlb, gen, cpuGen, running, cpu>>

Kicked(t) ==
    /\ take[t].pc = "kicking" /\ take[t].due = {}
    /\ take' = [take EXCEPT ![t].pc = "copy"]
    /\ UNCHANGED <<pte, tlb, gen, cpuGen, running, cpu>>

(* The page was copied and punched; later it may be mapped again.          *)
TakeEnds(t) ==
    /\ take[t].pc = "copy"
    /\ take' = [take EXCEPT ![t].pc = "idle"]
    /\ UNCHANGED <<pte, tlb, gen, cpuGen, running, cpu>>

Map(p) ==
    /\ p \notin pte /\ ~Taken(p)
    /\ pte' = pte \cup {p}
    /\ UNCHANGED <<tlb, gen, cpuGen, running, cpu, take>>

-----------------------------------------------------------------------------
CPUStep(c) ==
    \/ Count(c) \/ CheckGen(c) \/ Enter(c) \/ Exit(c) \/ Uncount(c)
    \/ \E p \in Pages : Walk(c, p)

TakeStep(t) ==
    \/ \E p \in Pages : Unmap(t, p)
    \/ Bump(t) \/ Kick(t) \/ Kicked(t) \/ TakeEnds(t)
    \/ \E c \in CPUs : Interrupt(t, c)

Next ==
    \/ \E c \in CPUs : CPUStep(c)
    \/ \E t \in Takers : TakeStep(t)
    \/ \E p \in Pages : Map(p)

(* An entry goes on once it is counted; a guest that an interrupt is due   *)
(* to leaves, and a due CPU at host takes the interrupt before it can run  *)
(* another guest for ever: interrupts are on between entries.              *)
Fairness ==
    /\ \A c \in CPUs : /\ WF_vars(CheckGen(c)) /\ WF_vars(Enter(c))
                       /\ WF_vars(Exit(c)) /\ WF_vars(Uncount(c))
    /\ \A t \in Takers : /\ WF_vars(Bump(t)) /\ WF_vars(Kick(t)) /\ WF_vars(Kicked(t))
                         /\ \A c \in CPUs : SF_vars(Interrupt(t, c))

Spec == Init /\ [][Next]_vars /\ Fairness

-----------------------------------------------------------------------------
TypeOK ==
    /\ pte \in SUBSET Pages
    /\ tlb \in [CPUs -> SUBSET Pages]
    /\ gen \in Nat
    /\ cpuGen \in [CPUs -> Nat]
    /\ running \in Nat
    /\ cpu \in [CPUs -> Places]
    /\ take \in [Takers -> Take]

(* "After the kick returns, no CPU can ever use a pre-take translation     *)
(* again": while a take copies and punches its page, no guest that runs    *)
(* holds a translation of it, so no store to it can be lost.               *)
Unreachable ==
    \A t \in Takers, c \in CPUs :
        take[t].pc = "copy" /\ cpu[c] = "guest" => take[t].page \notin tlb[c]

(* The kick ends: every CPU is interrupted, whatever guests it runs.       *)
KickReturns ==
    \A t \in Takers : take[t].pc = "unmapped" ~> take[t].pc = "copy"

=============================================================================
