------------------------------ MODULE GuestRun ------------------------------
(***************************************************************************)
(* One execution context: its run loop, the frame in which its registers   *)
(* are shown to its monitor, and the event it waits on.                    *)
(*                                                                         *)
(* src/vmctx/kernel/vmctx.c enters the guest, takes one exit and answers   *)
(* it (vmctx_be_run_usercode_once on SVM, vmx_run_usercode_once on VMX).   *)
(* The kernel patch restores the context, steps it, publishes an event and *)
(* waits for the monitor (vmctx_report), delivers signals to the task in   *)
(* between, and carries out the monitor's controls.                        *)
(*                                                                         *)
(* Registers are the instruction pointer and AX: a position of Program and *)
(* what the program would see there.  SYSCALL is one position long, so the *)
(* code's "ip += 2" is one position.  Every context is made with           *)
(* VMCTX_FLAG_RESTORE and both redirections, as vmremote makes them.       *)
(***************************************************************************)
EXTENDS Naturals, Sequences

CONSTANTS
    Settings,    \* the instances examined, records [program, vmx, quantum,
                 \* deadline, signals, kills, deaths, punches]
    Monitors,    \* processes that may attach
    None         \* no monitor

(* data: a page whose bytes the source holds.  fresh: an address the       *)
(* source has and nobody has written.  wild: an address it does not have.  *)
Pages == {"data", "fresh", "wild"}
Traps == {"int3"}
Faulty == {"ud", "gp", "xsetbv"}
Kinds == {"mov", "neg", "sys", "exit", "cpuid"} \cup Faulty \cup Traps \cup Pages

ASSUME NoneIsNoMonitor == None \notin Monitors
ASSUME SettingsTyped ==
    \A s \in Settings :
        /\ s.program \in Seq(Kinds) /\ Len(s.program) > 0
        /\ {s.vmx, s.quantum, s.deadline} \subseteq BOOLEAN
        /\ {s.signals, s.kills, s.deaths, s.punches} \subseteq Nat

VARIABLES
    setting,     \* the instance: chosen at the start, never changed
    task,        \* where the context's task is, and what it waits for
    frame,       \* task_pt_regs
    vmcb,        \* the registers the next entry loads
    sysnr,       \* last_sysnr: a system call was the last exit
    unrec,       \* unrec_addr and unrec_n
    mem,         \* this machine's mapping and page of each address
    monitor,     \* vc->monitor
    alive,       \* monitor processes that live
    lost,        \* vc->monitor_lost
    released,    \* vc->released
    ev,          \* ev_pending, ev_taken, ev_abandoned, reply_pending
    reply,       \* vc->reply
    mon,         \* the monitor's service thread
    sig,         \* signals pending for the task
    left,        \* what remains of the bounds
    arch,        \* history: the program's own state
    calls,       \* history: how often each system call was performed
    seen         \* history: what happened to the context

vars == <<setting, task, frame, vmcb, sysnr, unrec, mem, monitor, alive, lost,
          released, ev, reply, mon, sig, left, arch, calls, seen>>
memory == <<unrec, mem>>
owner == <<monitor, alive, lost, released>>
history == <<arch, calls, seen>>

Program == setting.program      \* the guest's instructions, a sequence of Kinds
Vmx == setting.vmx              \* the backend: VMX rather than SVM
Quantum == setting.quantum      \* the source asked for runtime checkpoints
Deadline == setting.deadline    \* vmctx_fault_deadline_ms is not zero
MaxSignals == setting.signals   \* bound: signals that do not kill the task
MaxKills == setting.kills       \* bound: fatal signals
MaxDeaths == setting.deaths     \* bound: monitors that die
MaxPunches == setting.punches   \* bound: mappings a sibling's late vacate removes

AX == {"host", "nr", "ok", "caught", "model", "bytes", "zero", "restart"}
Regs == [ip : 0 .. Len(Program) + 1, ax : AX]
Start == [ip |-> 1, ax |-> "ok"]
Whys == {"sys", "page", "again", "exc", "trap", "runtime"}
Acts == {"SELF", "DONE", "KILL", "RETRY"}
NoReply == [act |-> "SELF", ret |-> "host", to |-> Start, map |-> FALSE]

TypeOK ==
    /\ setting \in Settings
    /\ task \in [pc : {"born", "restore", "out", "guest", "drop", "publish",
                       "wait", "lose", "acted", "local", "cont", "ended"},
                 why : Whys, act : Acts, back : BOOLEAN, mon : Monitors \cup {None}]
    /\ frame \in [ip : 0 .. Len(Program) + 1, ax : AX, orig : BOOLEAN]
    /\ vmcb \in Regs
    /\ sysnr \in BOOLEAN
    /\ unrec \in [page : Pages \cup {"none"}, n : 0 .. 2]
    /\ mem \in [Pages -> [vma : BOOLEAN, holds : {"none", "bytes", "zero"}]]
    /\ monitor \in Monitors \cup {None}
    /\ alive \subseteq Monitors
    /\ {lost, released} \subseteq BOOLEAN
    /\ ev \in [pending : BOOLEAN, taken : BOOLEAN, abandoned : BOOLEAN,
               replied : BOOLEAN]
    /\ reply \in [act : Acts, ret : AX, to : Regs, map : BOOLEAN]
    /\ mon \in [pc : {"idle", "installed", "took", "served"},
                why : Whys, at : 0 .. Len(Program) + 1]
    /\ sig \in [plain : BOOLEAN, fatal : BOOLEAN]
    /\ left \in [signals : 0 .. MaxSignals, kills : 0 .. MaxKills,
                 deaths : 0 .. MaxDeaths, punches : 0 .. MaxPunches]
    /\ arch \in Regs
    /\ calls \in [1 .. Len(Program) -> 0 .. 2]
    /\ seen \subseteq {"owner", "fatal", "death", "deadline", "giveup"}

(* SETCPU has not run: the frame is the host task's.                       *)
Init ==
    /\ setting \in Settings
    /\ task = [pc |-> "born", why |-> "sys", act |-> "SELF", back |-> FALSE,
               mon |-> None]
    /\ frame = [ip |-> 0, ax |-> "host", orig |-> TRUE]
    /\ vmcb = [ip |-> 0, ax |-> "host"]
    /\ sysnr = FALSE
    /\ unrec = [page |-> "none", n |-> 0]
    /\ mem \in [Pages -> {[vma |-> v, holds |-> "none"] : v \in BOOLEAN}]
    /\ ~mem["wild"].vma
    /\ monitor = None
    /\ alive = Monitors
    /\ lost = FALSE /\ released = FALSE
    /\ ev = [pending |-> FALSE, taken |-> FALSE, abandoned |-> FALSE,
             replied |-> FALSE]
    /\ reply = NoReply
    /\ mon = [pc |-> "idle", why |-> "sys", at |-> 0]
    /\ sig = [plain |-> FALSE, fatal |-> FALSE]
    /\ left = [signals |-> MaxSignals, kills |-> MaxKills, deaths |-> MaxDeaths,
               punches |-> MaxPunches]
    /\ arch = Start
    /\ calls = [p \in 1 .. Len(Program) |-> 0]
    /\ seen = {}

At(pc) == task.pc = pc
Goto(pc) == task' = [task EXCEPT !.pc = pc]

(* vmctx_finish: the context is dead, its monitor dropped, its event gone. *)
Finish(cause) ==
    /\ Goto("ended")
    /\ monitor' = None
    /\ ev' = [ev EXCEPT !.pending = FALSE]
    /\ seen' = seen \cup cause
    /\ UNCHANGED <<lost, released>>

(* guest_to_ptregs and ptregs_to_guest_tag.                                *)
guest_to_ptregs(r, nr) == [ip |-> r.ip, ax |-> r.ax, orig |-> nr]
ptregs_to_guest(f) == [ip |-> f.ip, ax |-> f.ax]

-----------------------------------------------------------------------------
(* vmctx_run: the task waits for a monitor, then for its RESUME.           *)
BornAttached ==
    /\ At("born") /\ monitor # None
    /\ task' = [task EXCEPT !.pc = "restore", !.mon = monitor]
    /\ UNCHANGED <<setting, frame, vmcb, sysnr, memory, owner, ev, reply,
                   mon, sig, left, history>>

(* Five seconds passed, or a signal came, and nobody has attached.         *)
BornGivenUp ==
    /\ At("born") /\ monitor = None
    /\ Finish({"giveup"})
    /\ UNCHANGED <<setting, frame, vmcb, sysnr, memory, alive, reply, mon,
                   sig, left, arch, calls>>

OwnerGone == task.mon \notin alive \/ monitor # task.mon \/ lost

RestoreFails ==
    /\ At("restore") /\ (OwnerGone \/ sig.fatal)
    /\ Finish(IF OwnerGone THEN {"death"} ELSE {"fatal"})
    /\ UNCHANGED <<setting, frame, vmcb, sysnr, memory, alive, reply, mon,
                   sig, left, arch, calls>>

RestoreReleased ==
    /\ At("restore") /\ ~OwnerGone /\ ~sig.fatal /\ released
    /\ Goto("out")
    /\ frame' = [frame EXCEPT !.orig = FALSE]
    /\ UNCHANGED <<setting, vmcb, sysnr, memory, owner, ev, reply, mon, sig,
                   left, history>>

-----------------------------------------------------------------------------
(* The monitor's controls.  A context that is dead answers none of them.   *)
Controls(m) == m \in alive /\ monitor = m /\ ~At("ended")

Attach(m) ==
    /\ m \in alive /\ monitor = None /\ ~At("ended") /\ ~lost
    /\ monitor' = m
    /\ UNCHANGED <<setting, task, frame, vmcb, sysnr, memory, alive, lost,
                   released, ev, reply, mon, sig, left, history>>

(* SETCPU of the stopped context: the program's whole frame.               *)
Install(m) ==
    /\ Controls(m) /\ ~released /\ mon.pc = "idle"
    /\ mon' = [mon EXCEPT !.pc = "installed"]
    /\ frame' = guest_to_ptregs(Start, frame.orig)
    /\ UNCHANGED <<setting, task, vmcb, sysnr, memory, owner, ev, reply, sig,
                   left, history>>

(* WAIT: the event is claimed, or was withdrawn and there is none.         *)
Claims == ev.pending /\ ev' = [ev EXCEPT !.taken = TRUE]

(* The service thread waits for as long as the task lives.                 *)
Take(m) ==
    /\ Controls(m) /\ mon.pc = "idle" /\ Claims
    /\ mon' = [pc |-> "took", why |-> task.why, at |-> frame.ip]
    /\ UNCHANGED <<setting, task, frame, vmcb, sysnr, memory, owner, reply,
                   sig, left, history>>

(* The instruction an event is about.  A system call and a trap are        *)
(* reported standing after it.                                             *)
Reported(why, at) == IF why \in {"sys", "trap"} THEN at - 1 ELSE at

(* What the source's answer is: the action, the state in which the program *)
(* goes on, and whether the answer repairs the mapping.  KILL ends a fault *)
(* that came back forty times with nothing done.                           *)
Answers(why, at) ==
    LET p == Reported(why, at)
        Says(a, r, map) == [act |-> a, ret |-> r.ax, to |-> r, map |-> map]
        handler == [ip |-> p + 1, ax |-> "caught"]
        here == ptregs_to_guest(frame)
    IN  CASE why = "sys" /\ Program[p] = "exit" -> {Says("KILL", here, FALSE)}
          [] why = "sys" /\ Program[p] # "exit" ->
                {Says("DONE", [ip |-> p + 1, ax |-> x], FALSE) : x \in {"ok", "caught"}}
          [] why = "runtime" ->
                {Says("DONE", [here EXCEPT !.ax = x], FALSE) : x \in {here.ax, "caught"}}
          [] why \in {"exc", "trap"} -> {Says("DONE", handler, FALSE), Says("SELF", here, FALSE)}
          [] OTHER ->
                CASE Program[p] = "data" ->
                        {Says("DONE", here, ~mem["data"].vma), Says("KILL", here, FALSE)}
                  [] Program[p] = "fresh" /\ mem["fresh"].vma -> {Says("SELF", here, FALSE)}
                  [] Program[p] = "fresh" /\ ~mem["fresh"].vma -> {Says("DONE", here, TRUE)}
                  [] OTHER -> {Says("DONE", handler, FALSE), Says("SELF", here, FALSE)}

(* The service thread performs the event at the source, lands the page and *)
(* writes the answer's frame.  SETCPU is refused once the wait is over.    *)
Serve(m) ==
    /\ Controls(m) /\ mon.pc = "took"
    /\ \E r \in Answers(mon.why, mon.at) :
        /\ reply' = r
        /\ frame' = IF ev.pending /\ r.act = "DONE"
                    THEN [frame EXCEPT !.ip = r.to.ip, !.ax = r.to.ax]
                    ELSE frame
        /\ mem' = IF Program[Reported(mon.why, mon.at)] = "data" /\ mem["data"].vma
                  THEN [mem EXCEPT !["data"].holds = "bytes"]
                  ELSE mem
    /\ calls' = [calls EXCEPT ![Reported(mon.why, mon.at)] =
                    IF mon.why \in {"sys", "exc", "trap"} /\ @ < 2 THEN @ + 1 ELSE @]
    /\ mon' = [mon EXCEPT !.pc = "served"]
    /\ UNCHANGED <<setting, task, vmcb, sysnr, unrec, owner, ev, sig, left,
                   arch, seen>>

(* RESUME.  The answer to an abandoned event is discarded.                 *)
Resume(m) ==
    /\ Controls(m) /\ mon.pc \in {"installed", "served"}
    /\ ev' = IF ev.abandoned
             THEN [ev EXCEPT !.abandoned = FALSE]
             ELSE [ev EXCEPT !.pending = FALSE, !.replied = TRUE]
    /\ released' = TRUE
    /\ mon' = [mon EXCEPT !.pc = "idle"]
    /\ UNCHANGED <<setting, task, frame, vmcb, sysnr, memory, monitor, alive,
                   lost, reply, sig, left, history>>

(* The monitor's process ends, and its service thread with it.             *)
Die(m) ==
    /\ m \in alive /\ left.deaths > 0
    /\ alive' = alive \ {m}
    /\ left' = [left EXCEPT !.deaths = @ - 1]
    /\ mon' = IF monitor = m THEN [mon EXCEPT !.pc = "idle"] ELSE mon
    /\ seen' = seen \cup {"death"}
    /\ UNCHANGED <<setting, task, frame, vmcb, sysnr, memory, monitor, lost,
                   released, ev, reply, sig, arch, calls>>

-----------------------------------------------------------------------------
(* vmctx_report: publish an event and wait for the answer.                 *)
Faults == {"page", "again", "exc", "trap"}

(* redirect_syscall, redirect_fault, runtime_checkpoint: with nobody to    *)
(* ask, a fault of a context that lost its monitor ends it.                *)
Reports(why) ==
    IF monitor # None
    THEN [task EXCEPT !.pc = "drop", !.why = why]
    ELSE [task EXCEPT !.pc = "acted", !.why = why,
                      !.act = IF lost /\ why \in Faults THEN "KILL" ELSE "SELF"]

ReportDrops ==
    /\ At("drop")
    /\ Goto("publish")
    /\ monitor' = IF monitor \in alive THEN monitor ELSE None
    /\ UNCHANGED <<setting, frame, vmcb, sysnr, memory, alive, lost,
                   released, ev, reply, mon, sig, left, history>>

ReportPublishes ==
    /\ At("publish")
    /\ Goto("wait")
    /\ ev' = [ev EXCEPT !.pending = TRUE, !.taken = FALSE, !.replied = FALSE]
    /\ UNCHANGED <<setting, frame, vmcb, sysnr, memory, owner, reply, mon,
                   sig, left, history>>

Acting(a) == task' = [task EXCEPT !.pc = "acted", !.act = a]

(* The answer.  The program goes on where the source said it does.         *)
ReportAnswered ==
    /\ task.pc \in {"wait", "lose"} /\ ev.replied
    /\ Acting(reply.act)
    /\ ev' = [ev EXCEPT !.replied = FALSE]
    /\ arch' = IF reply.act = "DONE" THEN reply.to ELSE arch
    /\ seen' = IF reply.act = "DONE" THEN seen ELSE seen \cup {"owner"}
    /\ UNCHANGED <<setting, frame, vmcb, sysnr, memory, owner, reply, mon,
                   sig, left, calls>>

ReportUnanswered == At("wait") /\ ~ev.replied

(* Mutant: the withdrawal does not ask whether the event was taken.        *)
WithdrawsTaken ==
    /\ ReportUnanswered /\ monitor # None
    /\ sig.plain \/ (sig.fatal /\ task.why = "sys")
    /\ Acting("RETRY")
    /\ ev' = [ev EXCEPT !.pending = FALSE]
    /\ UNCHANGED <<setting, frame, vmcb, sysnr, memory, owner, reply, mon,
                   sig, left, history>>

(* A signal, and nobody has taken the event: it is withdrawn.              *)
ReportWithdraws ==
    /\ ReportUnanswered /\ monitor # None /\ ~ev.taken
    /\ sig.plain \/ (sig.fatal /\ task.why = "sys")
    /\ Acting("RETRY")
    /\ ev' = [ev EXCEPT !.pending = FALSE]
    /\ UNCHANGED <<setting, frame, vmcb, sysnr, memory, owner, reply, mon,
                   sig, left, history>>

(* A fatal signal ends a fault and a checkpoint, and a fault has a         *)
(* deadline.  A taken system call waits whatever happens.                  *)
ReportAbandons ==
    /\ ReportUnanswered /\ monitor # None
    /\ \/ sig.fatal /\ task.why # "sys" /\ seen' = seen \cup {"fatal"}
       \/ /\ Deadline /\ task.why \in Faults /\ monitor \in alive
          /\ seen' = seen \cup {"deadline"}
    /\ Acting("KILL")
    /\ ev' = [ev EXCEPT !.pending = FALSE, !.abandoned = ev.taken]
    /\ UNCHANGED <<setting, frame, vmcb, sysnr, memory, owner, reply, mon,
                   sig, left, arch, calls>>

(* No monitor, or a dead one: the wait is over.                            *)
ReportAlone ==
    /\ ReportUnanswered /\ monitor \notin alive
    /\ Goto("lose")
    /\ UNCHANGED <<setting, frame, vmcb, sysnr, memory, owner, ev, reply,
                   mon, sig, left, history>>

(* Whoever is the monitor now is dropped.                                  *)
ReportLoses ==
    /\ At("lose") /\ ~ev.replied
    /\ Acting("SELF")
    /\ ev' = [ev EXCEPT !.pending = FALSE]
    /\ lost' = TRUE
    /\ monitor' = None
    /\ mon' = IF monitor \in alive THEN [mon EXCEPT !.pc = "idle"] ELSE mon
    /\ UNCHANGED <<setting, frame, vmcb, sysnr, memory, alive, released,
                   reply, sig, left, history>>

-----------------------------------------------------------------------------
(* The run loop of kernel/vmctx.c.  An exit leaves the registers in vmcb:  *)
(* the VMCB, or what was captured from the VMCS.                           *)
Kind == Program[vmcb.ip]
InGuest == At("guest")
Leaves == InGuest /\ Kind \notin {"mov", "neg"}

(* A SYSCALL leaves as #UD: the instruction says which it was.             *)
vmctx_insn_is_syscall(k) == k \in {"sys", "exit"}

(* How a backend reads an exit: the arm it takes, how far it moves the     *)
(* instruction pointer, and what last_sysnr becomes.  SVM: next_rip passes *)
(* CPUID and a trap, and a fault of the CPU is the exception it is.        *)
vmctx_be_run_usercode_once(k) ==
    CASE k = "cpuid" -> [arm |-> "cpuid", step |-> 1, nr |-> FALSE]
      [] vmctx_insn_is_syscall(k) -> [arm |-> "sys", step |-> 0, nr |-> TRUE]
      [] k \in Pages -> [arm |-> "page", step |-> 0, nr |-> FALSE]
      [] k \in Traps -> [arm |-> "trap", step |-> 1, nr |-> sysnr]
      [] OTHER -> [arm |-> "exc", step |-> 0, nr |-> sysnr]

(* VMX: XSETBV is an exit of its own that the program sees as #GP, and     *)
(* only a software exception brings its instruction's length.              *)
vmx_run_usercode_once(k) ==
    LET instr_len == IF k \in Traps \cup {"cpuid"} THEN 1 ELSE 0
        vector == CASE k \in {"sys", "exit", "ud"} -> 6
                    [] k \in Pages -> 14
                    [] k \in Traps -> 3
                    [] OTHER -> 13
    IN  CASE k = "cpuid" -> [arm |-> "cpuid", step |-> instr_len, nr |-> FALSE]
          [] k # "cpuid" /\ vector = 6 /\ vmctx_insn_is_syscall(k) ->
                [arm |-> "sys", step |-> 0, nr |-> TRUE]
          [] k # "cpuid" /\ vector = 14 -> [arm |-> "page", step |-> 0, nr |-> FALSE]
          [] OTHER -> [arm |-> IF vector = 3 THEN "trap" ELSE "exc",
                       step |-> instr_len, nr |-> sysnr]

Exit == IF Vmx THEN vmx_run_usercode_once(Kind) ELSE vmctx_be_run_usercode_once(Kind)
Moved == [vmcb EXCEPT !.ip = @ + Exit.step]

(* vmctx_be_run_usercode and its VMX twin: the task's frame is the         *)
(* program's, whatever the kernel did to it since the last exit.           *)
run_usercode ==
    /\ At("out") /\ ~sig.plain /\ ~sig.fatal
    /\ Goto("guest")
    /\ vmcb' = ptregs_to_guest(frame)
    /\ UNCHANGED <<setting, frame, sysnr, memory, owner, ev, reply, mon, sig,
                   left, history>>

(* An instruction that needs nobody.                                       *)
Executes ==
    /\ InGuest
    /\ \/ Kind \in {"mov", "neg"}
       \/ Kind \in Pages /\ mem[Kind].vma /\ mem[Kind].holds # "none"
    /\ vmcb' = [ip |-> vmcb.ip + 1,
                ax |-> CASE Kind = "mov" -> "ok"
                         [] Kind = "neg" -> "restart"
                         [] OTHER -> mem[Kind].holds]
    /\ arch' = vmcb'
    /\ UNCHANGED <<setting, task, frame, sysnr, memory, owner, ev, reply,
                   mon, sig, left, calls, seen>>

(* The wrapper publishes the registers as the arm leaves them.             *)
Continues(r, nr) ==
    /\ Goto("cont")
    /\ vmcb' = r
    /\ sysnr' = nr
    /\ frame' = guest_to_ptregs(r, nr)

(* An interrupt or an NMI of the host.                                     *)
Interrupted ==
    /\ InGuest
    /\ Continues(vmcb, FALSE)
    /\ UNCHANGED <<setting, memory, owner, ev, reply, mon, sig, left, history>>

Cpuid ==
    /\ Leaves /\ Exit.arm = "cpuid"
    /\ Continues([Moved EXCEPT !.ax = "model"], Exit.nr)
    /\ arch' = [ip |-> arch.ip + 1, ax |-> "model"]
    /\ UNCHANGED <<setting, memory, owner, ev, reply, mon, sig, left, calls,
                   seen>>

(* The registers are published before anyone is asked: what the monitor    *)
(* reads, and what its answer is written over.                             *)
Stops(r, f) ==
    /\ vmcb' = r
    /\ sysnr' = Exit.nr
    /\ frame' = f
    /\ task' = [Reports(Exit.arm) EXCEPT !.back = Exit.arm = "page" /\ ~mem[Kind].vma]
    /\ UNCHANGED <<setting, unrec, owner, ev, reply, mon, sig, left, calls,
                   seen>>

(* SYSCALL: the frame stands after the instruction, the VMCB on it.        *)
Syscall ==
    /\ Leaves /\ Exit.arm = "sys"
    /\ LET r == [vmcb EXCEPT !.ax = "nr"]
       IN  /\ Stops(r, guest_to_ptregs([r EXCEPT !.ip = @ + 1], Exit.nr))
           /\ arch' = r
    /\ UNCHANGED mem

(* Any other exception.  A trap is reported standing after its             *)
(* instruction, and leaves the program there.                              *)
Exception ==
    /\ Leaves /\ Exit.arm \in {"exc", "trap"}
    /\ Stops(Moved, guest_to_ptregs(Moved, Exit.nr))
    /\ arch' = IF Kind \in Traps THEN [arch EXCEPT !.ip = @ + 1] ELSE arch
    /\ UNCHANGED mem

(* A page fault: an address with no mapping is given one, then the monitor *)
(* is asked.                                                               *)
vmctx_back_fault(p) == [mem EXCEPT ![p].vma = TRUE]

PageFault ==
    /\ Leaves /\ Exit.arm = "page"
    /\ ~mem[Kind].vma \/ mem[Kind].holds = "none"
    /\ Stops(vmcb, guest_to_ptregs(vmcb, Exit.nr))
    /\ mem' = vmctx_back_fault(Kind)
    /\ UNCHANGED arch

Acted(whys) == At("acted") /\ task.why \in whys
Repaired == IF task.act = "DONE" /\ reply.map
            THEN [mem EXCEPT ![Kind].vma = TRUE]
            ELSE mem

(* Mutant: the registers of before the call go on.                         *)
CallReturnsStale ==
    /\ Acted({"sys"}) /\ task.act \in {"DONE", "RETRY"}
    /\ Continues(vmcb, sysnr)
    /\ UNCHANGED <<setting, memory, owner, ev, reply, mon, sig, left, history>>

(* The arm copies the frame back: what the answer wrote, or the frame as   *)
(* it was published.  A withdrawn system call is rewound.                  *)
CallReturns ==
    /\ Acted({"sys"}) /\ task.act \in {"DONE", "RETRY"}
    /\ Continues(IF task.act = "DONE" THEN [ip |-> frame.ip, ax |-> reply.ret]
                                      ELSE [ip |-> frame.ip - 1, ax |-> frame.ax],
                 sysnr)
    /\ UNCHANGED <<setting, memory, owner, ev, reply, mon, sig, left, history>>

FaultReturns ==
    /\ Acted(Faults) /\ task.act \in {"DONE", "RETRY"}
    /\ Continues(ptregs_to_guest(frame), sysnr)
    /\ mem' = IF task.why \in {"page", "again"} THEN Repaired ELSE mem
    /\ UNCHANGED <<setting, unrec, owner, ev, reply, mon, sig, left, history>>

(* Mutant: a call whose event was withdrawn ends the context.              *)
EndsOnRetry ==
    /\ Acted({"sys", "exc", "trap", "again", "page"})
    /\ \/ task.act = "KILL"
       \/ task.act = "SELF" /\ task.why # "page"
       \/ task.act = "RETRY" /\ task.why = "sys"
    /\ Finish({})
    /\ UNCHANGED <<setting, frame, vmcb, sysnr, memory, alive, reply, mon,
                   sig, left, arch, calls>>

(* What ends the context: KILL, and SELF except for a first page fault.    *)
Ends ==
    /\ Acted({"sys", "exc", "trap", "again", "page"})
    /\ task.act = "KILL" \/ (task.act = "SELF" /\ task.why # "page")
    /\ Finish({})
    /\ UNCHANGED <<setting, frame, vmcb, sysnr, memory, alive, reply, mon,
                   sig, left, arch, calls>>


(* The monitor declined: what this fault mapped is unmapped.               *)
FaultDeclined ==
    /\ Acted({"page"}) /\ task.act = "SELF"
    /\ Goto("local")
    /\ mem' = IF task.back
              THEN [mem EXCEPT ![Kind] = [vma |-> FALSE, holds |-> "none"]]
              ELSE mem
    /\ UNCHANGED <<setting, frame, vmcb, sysnr, unrec, owner, ev, reply, mon,
                   sig, left, history>>

(* vmctx_declined_to_local: this kernel serves it, with no copy back.      *)
LocalServed ==
    /\ At("local") /\ mem[Kind].vma
    /\ Continues(vmcb, sysnr)
    /\ mem' = [mem EXCEPT ![Kind].holds = IF @ = "none" THEN "zero" ELSE @]
    /\ UNCHANGED <<setting, unrec, owner, ev, reply, mon, sig, left, history>>

(* It cannot: the fault is reported again, twice at most for an address.   *)
LocalFailed ==
    /\ At("local") /\ ~mem[Kind].vma
    /\ LET n == IF unrec.page = Kind THEN unrec.n ELSE 0
       IN  IF monitor # None /\ n < 2
           THEN /\ unrec' = [page |-> Kind, n |-> n + 1]
                /\ task' = Reports("again")
                /\ UNCHANGED <<monitor, ev, seen>>
           ELSE Finish({}) /\ UNCHANGED unrec
    /\ UNCHANGED <<setting, frame, vmcb, sysnr, mem, alive, lost, released,
                   reply, mon, sig, left, arch, calls>>

-----------------------------------------------------------------------------
(* vmctx_guest_step: after an exit, the source's execution budget.         *)
Loops ==
    /\ At("cont")
    /\ Goto("out")
    /\ UNCHANGED <<setting, frame, vmcb, sysnr, memory, owner, ev, reply,
                   mon, sig, left, history>>

Checkpoint ==
    /\ At("cont") /\ Quantum
    /\ task' = Reports("runtime")
    /\ UNCHANGED <<setting, frame, vmcb, sysnr, memory, owner, ev, reply,
                   mon, sig, left, history>>

(* Mutant: the budget is due again at once.                                *)
CheckpointStaysDue ==
    /\ Acted({"runtime"})
    /\ IF task.act = "DONE" /\ ~sig.fatal
       THEN Goto("cont") /\ UNCHANGED <<monitor, lost, released, ev, seen>>
       ELSE Finish(IF sig.fatal THEN {"fatal"} ELSE {})
    /\ UNCHANGED <<setting, frame, vmcb, sysnr, memory, alive, reply, mon,
                   sig, left, arch, calls>>

(* Only DONE lets the program go on.                                       *)
CheckpointReturns ==
    /\ Acted({"runtime"})
    /\ IF task.act = "DONE" /\ ~sig.fatal
       THEN Goto("out") /\ UNCHANGED <<monitor, lost, released, ev, seen>>
       ELSE Finish(IF sig.fatal THEN {"fatal"} ELSE {})
    /\ UNCHANGED <<setting, frame, vmcb, sysnr, memory, alive, reply, mon,
                   sig, left, arch, calls>>

(* On the way back to user mode the host kernel handles the task's         *)
(* signals.  A signal with no handler still asks whether a system call is  *)
(* to be restarted (external): the frame of one that returned a restart    *)
(* code is put back on its SYSCALL.                                        *)
Signalled ==
    /\ At("out") /\ sig.plain /\ ~sig.fatal
    /\ sig' = [sig EXCEPT !.plain = FALSE]
    /\ frame' = IF frame.orig /\ frame.ax = "restart"
                THEN [frame EXCEPT !.ip = @ - 1, !.ax = "nr"]
                ELSE frame
    /\ UNCHANGED <<setting, task, vmcb, sysnr, memory, owner, ev, reply, mon,
                   left, history>>

Killed ==
    /\ At("out") /\ sig.fatal
    /\ Finish({"fatal"})
    /\ UNCHANGED <<setting, frame, vmcb, sysnr, memory, alive, reply, mon,
                   sig, left, arch, calls>>

(* The world: signals to the host task, and a sibling whose late vacate    *)
(* removes a mapping that the source made again.                           *)
SignalArrives ==
    /\ left.signals > 0 /\ ~At("ended")
    /\ sig' = [sig EXCEPT !.plain = TRUE]
    /\ left' = [left EXCEPT !.signals = @ - 1]
    /\ UNCHANGED <<setting, task, frame, vmcb, sysnr, memory, owner, ev,
                   reply, mon, history>>

FatalArrives ==
    /\ left.kills > 0 /\ ~At("ended")
    /\ sig' = [sig EXCEPT !.fatal = TRUE]
    /\ left' = [left EXCEPT !.kills = @ - 1]
    /\ UNCHANGED <<setting, task, frame, vmcb, sysnr, memory, owner, ev,
                   reply, mon, history>>

Punch(p) ==
    /\ left.punches > 0 /\ p # "wild" /\ mem[p].vma
    /\ mem' = [mem EXCEPT ![p] = [vma |-> FALSE, holds |-> "none"]]
    /\ left' = [left EXCEPT !.punches = @ - 1]
    /\ UNCHANGED <<setting, task, frame, vmcb, sysnr, unrec, owner, ev,
                   reply, mon, sig, history>>

Ended == At("ended") /\ UNCHANGED vars

Monitoring(m) == Install(m) \/ Take(m) \/ Serve(m) \/ Resume(m)

Reporting ==
    \/ ReportDrops
    \/ ReportPublishes
    \/ ReportAnswered
    \/ ReportWithdraws
    \/ ReportAbandons
    \/ ReportAlone
    \/ ReportLoses

Stepping ==
    \/ BornAttached
    \/ BornGivenUp
    \/ RestoreFails
    \/ RestoreReleased
    \/ run_usercode
    \/ CallReturns
    \/ FaultReturns
    \/ Ends
    \/ FaultDeclined
    \/ LocalServed
    \/ LocalFailed
    \/ CheckpointReturns
    \/ Signalled
    \/ Killed

Running == Executes \/ Cpuid \/ Syscall \/ Exception \/ PageFault

Next ==
    \/ Stepping
    \/ Reporting
    \/ Running
    \/ Interrupted
    \/ Loops
    \/ Checkpoint
    \/ \E m \in Monitors : Attach(m) \/ Monitoring(m) \/ Die(m)
    \/ SignalArrives
    \/ FatalArrives
    \/ \E p \in Pages : Punch(p)
    \/ Ended

Spec == Init /\ [][Next]_vars

(* The task is scheduled, a living monitor's service thread too, and the   *)
(* guest runs between interrupts and between checkpoints.                  *)
Fairness ==
    /\ WF_vars(Stepping)
    /\ WF_vars(Loops \/ Checkpoint)
    /\ WF_vars(Reporting)
    /\ SF_vars(Running)
    /\ \A m \in Monitors : WF_vars(Monitoring(m))

LiveSpec == Spec /\ Fairness

-----------------------------------------------------------------------------
(* Every entry continues the program exactly where it stands: whatever     *)
(* combination of exits, answers, withdrawn events, repeated reports and   *)
(* local services came before, the registers that an entry loads are those *)
(* of the program (run_usercode, the arms' copies to and from the frame).  *)
(* A program that computes what looks like a restart code is left out when *)
(* signals come: last_sysnr outlives its call, and Signalled rewinds it.   *)
EntryExact ==
    InGuest /\ (MaxSignals = 0 \/ \A p \in 1 .. Len(Program) : Program[p] # "neg") =>
        vmcb = arch

(* A system call is performed once, and once exactly when the program      *)
(* passes it, however signals, deaths and deadlines cut the wait; so is a  *)
(* fault's handler entered; and no other instruction is taken for either   *)
(* (vmctx_report, vmctx_redirect_syscall, the published frame).            *)
CallsOnce ==
    \A p \in 1 .. Len(Program) :
        /\ Program[p] \in {"sys"} \cup Faulty =>
            /\ calls[p] <= 1
            /\ InGuest /\ vmcb.ip > p => calls[p] = 1
        /\ Program[p] \in {"mov", "neg", "cpuid"} \cup Pages => calls[p] = 0


(* A context ends for a cause: its owner's word, its owner's death, a      *)
(* fatal signal, a deadline.  A signal that kills nobody is not one, but   *)
(* for one that withdraws a runtime checkpoint (CheckpointReturns).        *)
EndsForCause ==
    At("ended") /\ ~(Quantum /\ MaxSignals > 0) =>
        seen \cap {"owner", "fatal", "death", "deadline", "giveup"} # {}

(* Every trap the program took reached its owner before the program went   *)
(* on (the exception arm and redirect_fault's RETRY), unless a signal      *)
(* withdrew the report of one: it is not made again.                       *)
TrapsDelivered ==
    \A p \in 1 .. Len(Program) :
        Program[p] \in Traps /\ InGuest /\ vmcb.ip > p /\ MaxSignals = 0 =>
            calls[p] = 1

(* What the program asks of its owner is done once: calls, faults and      *)
(* traps, across withdrawn events, repeated reports and dead monitors.     *)
EventsOnce == TypeOK /\ CallsOnce /\ TrapsDelivered

(* Whatever happens to its monitor, the program gets to its end, or its    *)
(* context is ended: nothing waits for ever.                               *)
Finishes == <>At("ended")

=============================================================================
