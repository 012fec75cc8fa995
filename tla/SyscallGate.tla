---------------------------- MODULE SyscallGate ----------------------------
(***************************************************************************)
(* A guest system call.  The executor forwards it, the source admits it to *)
(* its native task through the kernel's gate, the executor prepares its    *)
(* memory if the admitted call needs that, the source dispatches it, and   *)
(* the executor polls until it is complete.  A clone publishes its child   *)
(* while the parent's call still runs; the child gets an executor, a       *)
(* connection and a thread of its own, and both lifetimes are counted.     *)
(*                                                                         *)
(* Calls are what the gate admits (a tracer may have changed the number),  *)
(* so the kind is drawn at admission.  Every native control is a step of   *)
(* its own: the source task runs, is killed and exits between them.        *)
(***************************************************************************)
EXTENDS Naturals, FiniteSets, FiniteSetsExt

CONSTANTS
    Root, Kid,  \* the first context and the one it creates
    Settings    \* the situations considered, as records of
                \*   kinds     the calls explored
                \*   calls     bound: calls of each context
                \*   mortal    contexts that a signal may end at any time
                \*   fragile   contexts whose executor may be lost
                \*   contended another control may hold a context's control lock
                \*   windows   the narrow races explored, see below

ASSUME SettingsKnown ==
    \A s \in Settings :
        /\ s.kinds \subseteq {"plain", "fork", "vfork", "thread", "exec", "exit"}
        /\ s.windows \subseteq {"commit", "birth", "pages", "drain", "teardown", "patience",
                                "strand"}

VARIABLES
    setting,    \* the situation, which no step changes
    task,       \* the native task: none, live, exiting, nomm, dead
    mm,         \* its memory's identity
    ready,      \* parked as a service: its CPU state may be taken
    gate,       \* the kernel's gate of each task
    ran,        \* dispatches so far
    born,       \* how Kid was created
    call,       \* struct source_admission
    srv,        \* where the connection's server is
    wire,       \* the message on each connection
    exec,       \* where the executor's thread is
    fwd,        \* what forward() keeps for the call, and its count of calls
    view,       \* the memory each executor is bound to
    nCtx,       \* n_contexts of vmhome
    nLive,      \* n_live_children of vmremote
    broken      \* the program was stopped as unservable

vars == <<setting, task, mm, ready, gate, ran, born, call, srv, wire, exec, fwd, view,
          nCtx, nLive, broken>>
kernel == <<task, mm, ready, gate, ran, born>>
home == <<call, srv, nCtx>>
remote == <<exec, fwd, view, nLive>>

Kinds     == setting.kinds
MaxCalls  == setting.calls
Mortal    == setting.mortal
Fragile   == setting.fragile
Contended == setting.contended
Windows   == setting.windows

Ctx == {Root, Kid}
Births == {"fork", "vfork", "thread"}
Ended(c) == task[c] = "dead"
Leaving(c) == task[c] \in {"exiting", "nomm", "dead"}
None == [op |-> "none"]
Ask(op) == [op |-> op]
Fresh == 1 + Max({mm[c] : c \in Ctx})

Init ==
    /\ setting \in Settings
    /\ task = [c \in Ctx |-> "none"]
    /\ mm = [c \in Ctx |-> 0]
    /\ ready = {}
    /\ gate = [c \in Ctx |-> [ticket |-> 0, st |-> "none", kind |-> "plain",
                              pending |-> FALSE, in |-> FALSE, child |-> FALSE]]
    /\ ran = [c \in Ctx |-> 0]
    /\ born = "none"
    /\ call = [c \in Ctx |-> [next |-> 0, active |-> FALSE, begun |-> FALSE,
                 prepared |-> FALSE, committed |-> FALSE, birth |-> FALSE,
                 effect |-> FALSE, target |-> 0, kind |-> "plain", st |-> "none",
                 child |-> FALSE]]
    /\ srv = [c \in Ctx |-> IF c = Root THEN "idle" ELSE "none"]
    /\ wire = [c \in Ctx |-> None]
    /\ exec = [c \in Ctx |-> IF c = Root THEN "start" ELSE "none"]
    /\ fwd = [c \in Ctx |-> [n |-> 0, prepared |-> FALSE, seen |-> FALSE,
                             lease |-> FALSE, rs |-> None]]
    /\ view = [c \in Ctx |-> 0]
    /\ nCtx = 0 /\ nLive = 0 /\ broken = FALSE

(***************************************************************************)
(* Every failure of the channel ends the whole program: the source breaks  *)
(* the connection or stops, and the executor stops every context.          *)
(***************************************************************************)
Break ==
    /\ broken' = TRUE
    /\ UNCHANGED <<setting, kernel, home, remote, wire>>

----------------------------------------------------------------------------
(* The source's kernel. *)

(* Contexts of one thread group die together. *)
Group(c) == IF born = "thread" THEN {Root, Kid} ELSE {c}
Doom(S) == [c \in Ctx |-> IF c \in S /\ task[c] = "live" THEN "exiting" ELSE task[c]]

Admissible(c) ==
    Kinds \ ((IF c = Kid \/ task[Kid] # "none" THEN Births ELSE {})
             \cup (IF c = Kid /\ born = "thread" THEN {"exec"} ELSE {}))

Enter(c) ==
    /\ task[c] = "live" /\ gate[c].st = "ENTERING" /\ gate[c].pending
    /\ \E k \in Admissible(c) :
         gate' = [gate EXCEPT ![c].st = "ADMITTED", ![c].kind = k]
    /\ UNCHANGED <<task, mm, ready, ran, born, home, remote, wire, broken, setting>>

(* Mutant: a dispatched call is dispatched again. *)
DispatchAgain(c) ==
    /\ task[c] = "live" /\ gate[c].st = "RUNNING"
    /\ ran' = [ran EXCEPT ![c] = @ + 1]
    /\ LET k == gate[c].kind  b == k \in Births IN
       /\ gate' = [gate EXCEPT ![c].in = TRUE, ![c].child = b]
       /\ task' = CASE b -> [task EXCEPT ![Kid] = "live"]
                    [] k = "exit" -> Doom(Group(c))
                    [] k = "exec" -> Doom(Group(c) \ {c})
                    [] OTHER -> task
       /\ mm' = IF b THEN [mm EXCEPT ![Kid] = IF k = "fork" THEN Fresh ELSE mm[c]]
                     ELSE mm
       /\ born' = IF b THEN k ELSE born
    /\ UNCHANGED <<ready, home, remote, wire, broken, setting>>

Dispatch(c) ==
    /\ task[c] = "live" /\ gate[c].st = "RUNNING" /\ ~gate[c].in
    /\ ran' = [ran EXCEPT ![c] = @ + 1]
    /\ LET k == gate[c].kind  b == k \in Births IN
       /\ gate' = [gate EXCEPT ![c].in = TRUE, ![c].child = b]
       /\ task' = CASE b -> [task EXCEPT ![Kid] = "live"]
                    [] k = "exit" -> Doom(Group(c))
                    [] k = "exec" -> Doom(Group(c) \ {c})
                    [] OTHER -> task
       /\ mm' = IF b THEN [mm EXCEPT ![Kid] = IF k = "fork" THEN Fresh ELSE mm[c]]
                     ELSE mm
       /\ born' = IF b THEN k ELSE born
    /\ UNCHANGED <<ready, home, remote, wire, broken, setting>>

CallEnds(c) ==
    /\ task[c] = "live" /\ gate[c].in /\ gate[c].st = "RUNNING"
    /\ "commit" \in Windows \/ srv[c] # "read"
    /\ gate[c].kind = "vfork" => mm[Kid] # mm[c] \/ task[Kid] \in {"nomm", "dead"}
    /\ gate[c].kind = "exec" => \A o \in Group(c) \ {c} : Ended(o)
    /\ mm' = IF gate[c].kind = "exec" THEN [mm EXCEPT ![c] = Fresh] ELSE mm
    /\ gate' = [gate EXCEPT ![c].st = "COMPLETE"]
    /\ UNCHANGED <<task, ready, ran, born, home, remote, wire, broken, setting>>

Retire(c) ==
    /\ gate[c].st = "COMPLETE" /\ gate[c].pending
    /\ gate' = [gate EXCEPT ![c].pending = FALSE]
    /\ UNCHANGED <<task, mm, ready, ran, born, home, remote, wire, broken, setting>>

Park(c) ==
    /\ task[c] = "live" /\ c \notin ready
    /\ ready' = ready \cup {c}
    /\ UNCHANGED <<task, mm, gate, ran, born, home, remote, wire, broken, setting>>

Kill(c) ==
    /\ c \in Mortal /\ task[c] = "live"
    /\ task' = Doom(Group(c))
    /\ UNCHANGED <<mm, ready, gate, ran, born, home, remote, wire, broken, setting>>

(* The memory's slot is given back before the end is published. *)
DropMM(c) ==
    /\ task[c] = "exiting"
    /\ "drain" \in Windows \/ srv[c] # "complete"
    /\ "birth" \in Windows \/ c # Kid \/ srv[Root] # "add"
    /\ "pages" \in Windows \/ c # Kid \/ wire[Root].op # "CHILD_PAGES"
    /\ \/ "strand" \in Windows
       \/ srv[c] \notin {"admit", "read", "birth", "info", "add", "tail"}
       \/ gate[c].child = call[c].child
    /\ task' = [task EXCEPT ![c] = "nomm"]
    /\ UNCHANGED <<mm, ready, gate, ran, born, home, remote, wire, broken, setting>>

Bury(c) ==
    /\ task[c] = "nomm"
    /\ task' = [task EXCEPT ![c] = "dead"]
    /\ UNCHANGED <<mm, ready, gate, ran, born, home, remote, wire, broken, setting>>

----------------------------------------------------------------------------
(* The source's connection server. *)

(* INFO answers unless the memory is gone and the end is not published. *)
InfoAnswers(c) == task[c] # "nomm"

(* source_publish_reply(): every reply carries the binding it observes. *)
Publish(c, st, ended, flags) ==
    /\ InfoAnswers(c)
    /\ srv' = [srv EXCEPT ![c] = "idle"]
    /\ wire' = [wire EXCEPT ![c] = [op |-> "REPLY", st |-> st, ended |-> ended,
                   flags |-> flags, mm |-> mm[c], child |-> call[c].effect]]

Go(c, stage) == srv' = [srv EXCEPT ![c] = stage]
Doing(c, stage) == ~broken /\ srv[c] = stage
Asked(c, op) == Doing(c, "idle") /\ wire[c].op = op

(* START makes the program's first native task a service. *)
oracle_start(c) ==
    /\ Asked(c, "START")
    /\ task' = [task EXCEPT ![c] = "live"]
    /\ mm' = [mm EXCEPT ![c] = Fresh]
    /\ nCtx' = nCtx + 1
    /\ Go(c, "idle")
    /\ wire' = [wire EXCEPT ![c] = [op |-> "REPLY", st |-> "OK", ended |-> FALSE,
                   flags |-> FALSE, mm |-> Fresh, child |-> FALSE]]
    /\ UNCHANGED <<ready, gate, ran, born, call, remote, broken, setting>>

(* PREPARE: credit the runtime and install the frame, once. *)
PrepareCall(c) ==
    /\ Asked(c, "PREPARE")
    /\ \/ call[c].active /\ Break
       \/ /\ ~call[c].active /\ ~Leaving(c)
          /\ call' = [call EXCEPT ![c] =
                [next |-> @.next + 1, active |-> TRUE, begun |-> FALSE,
                 prepared |-> FALSE, committed |-> FALSE, birth |-> FALSE,
                 effect |-> FALSE, target |-> 0, kind |-> "plain",
                 st |-> "ENTERING", child |-> FALSE]]
          /\ Go(c, "native")
          /\ UNCHANGED <<kernel, remote, wire, nCtx, broken, setting>>
       \/ /\ ~call[c].active /\ Leaving(c)
          /\ call' = [call EXCEPT ![c].effect = FALSE]
          /\ Go(c, "dying")
          /\ UNCHANGED <<kernel, remote, wire, nCtx, broken, setting>>
       \/ "teardown" \in Windows /\ task[c] = "nomm" /\ Break

(* EXECUTE and CALL_POLL name the ticket and repeat nothing. *)
NextCall(c) ==
    /\ Asked(c, "EXECUTE") \/ Asked(c, "POLL")
    /\ IF ~call[c].active THEN Break
       ELSE /\ call' = [call EXCEPT ![c].effect = FALSE]
            /\ Go(c, "native")
            /\ UNCHANGED <<kernel, remote, wire, nCtx, broken, setting>>

(* A control that finds the lock taken, or the gate not yet readable. *)
Retry(c) ==
    /\ Publish(c, IF call[c].committed THEN "RUNNING"
                  ELSE IF call[c].prepared THEN "ADMITTED" ELSE "ENTERING",
               FALSE, FALSE)
    /\ UNCHANGED <<kernel, remote, call, nCtx, broken, setting>>

Unreadable(c) == gate[c].st = "COMPLETE" /\ gate[c].pending /\ ~Ended(c)

Seen(c) == [call[c] EXCEPT !.st = gate[c].st, !.child = gate[c].child]

GateBegin(c) ==
    /\ Doing(c, "native") /\ ~call[c].begun
    /\ IF Ended(c) THEN Go(c, "dying") /\ UNCHANGED <<kernel, call, wire>>
       ELSE /\ ~gate[c].pending /\ c \in ready
            /\ call[c].next = gate[c].ticket + 1
            /\ gate' = [gate EXCEPT ![c] = [ticket |-> call[c].next,
                 st |-> "ENTERING", kind |-> "plain", pending |-> TRUE,
                 in |-> FALSE, child |-> FALSE]]
            /\ call' = [call EXCEPT ![c].begun = TRUE]
            /\ Go(c, "admit")
            /\ UNCHANGED <<task, mm, ready, ran, born, wire>>
    /\ UNCHANGED <<remote, nCtx, broken, setting>>

GateQuery(c) ==
    /\ Doing(c, "native") /\ call[c].begun /\ ~Unreadable(c)
    /\ call' = [call EXCEPT ![c] = Seen(c)]
    /\ Go(c, "admit")
    /\ UNCHANGED <<kernel, remote, wire, nCtx, broken, setting>>

GateBusy(c) ==
    /\ Doing(c, "native")
    /\ \/ Contended
       \/ call[c].begun /\ Unreadable(c)
       \/ ~call[c].begun /\ ~Ended(c) /\ (gate[c].pending \/ c \notin ready)
    /\ Retry(c)

(* What is admitted is recorded once and must not change. *)
Admit(c) ==
    /\ Doing(c, "admit")
    /\ IF call[c].st # "ADMITTED"
       THEN IF wire[c].op = "EXECUTE" /\ ~call[c].committed THEN Break
            ELSE Go(c, "birth") /\ UNCHANGED <<kernel, remote, wire, call, nCtx, broken, setting>>
       ELSE /\ InfoAnswers(c)
            /\ IF call[c].target \notin {0, mm[c]} THEN Break
               ELSE LET run == wire[c].op = "EXECUTE" /\ ~call[c].committed IN
                    /\ call' = [call EXCEPT ![c].target = mm[c],
                         ![c].kind = gate[c].kind, ![c].prepared = @ \/ run]
                    /\ Go(c, IF run THEN "commit" ELSE "birth")
                    /\ UNCHANGED <<kernel, remote, wire, nCtx, broken, setting>>

(* Mutant: COMMIT does not release the task. *)
CommitLost(c) ==
    /\ Doing(c, "commit")
    /\ IF Ended(c) THEN Go(c, "dying") /\ UNCHANGED <<kernel, call>>
       ELSE /\ gate' = [gate EXCEPT ![c].st = @]
            /\ Go(c, "read")
            /\ UNCHANGED <<task, mm, ready, ran, born, call>>
    /\ UNCHANGED <<remote, wire, nCtx, broken, setting>>

(* COMMIT releases the task, then reads the gate back. *)
GateCommit(c) ==
    /\ Doing(c, "commit")
    /\ IF Ended(c) THEN Go(c, "dying") /\ UNCHANGED <<kernel, call>>
       ELSE /\ gate' = [gate EXCEPT ![c].st = IF @ = "ADMITTED" THEN "RUNNING" ELSE @]
            /\ Go(c, "read")
            /\ UNCHANGED <<task, mm, ready, ran, born, call>>
    /\ UNCHANGED <<remote, wire, nCtx, broken, setting>>

CommitRead(c) ==
    /\ Doing(c, "read")
    /\ call' = IF Unreadable(c) THEN call
               ELSE [call EXCEPT ![c] = [Seen(c) EXCEPT !.committed = TRUE]]
    /\ Go(c, "birth")
    /\ UNCHANGED <<kernel, remote, wire, nCtx, broken, setting>>

CommitBusy(c) ==
    /\ Doing(c, "commit") /\ Contended
    /\ Go(c, "birth")
    /\ UNCHANGED <<kernel, remote, wire, call, nCtx, broken, setting>>

(* source_admission_birth(): the child is accounted before the call ends. *)
BirthNone(c) ==
    /\ Doing(c, "birth") /\ (call[c].birth \/ ~call[c].child)
    /\ Go(c, "tail")
    /\ UNCHANGED <<kernel, remote, wire, call, nCtx, broken, setting>>

BirthExport(c) ==
    /\ Doing(c, "birth") /\ ~call[c].birth /\ call[c].child
    /\ \/ /\ Go(c, "info")
          /\ UNCHANGED <<kernel, remote, wire, call, nCtx, broken, setting>>
       \/ /\ Contended
          /\ Publish(c, "RUNNING", FALSE, FALSE)
          /\ UNCHANGED <<kernel, remote, call, nCtx, broken, setting>>

(* Mutant: a child whose memory is gone is taken for ended. *)
BirthEndedEarly(c) ==
    /\ Doing(c, "info")
    /\ CASE task[Kid] = "nomm" ->
              /\ call' = [call EXCEPT ![c].birth = TRUE]
              /\ Go(c, "tail")
              /\ UNCHANGED <<kernel, remote, wire, nCtx, broken, setting>>
         [] Ended(Kid) ->
              /\ call' = [call EXCEPT ![c].birth = TRUE]
              /\ Go(c, "tail")
              /\ UNCHANGED <<kernel, remote, wire, nCtx, broken, setting>>
         [] OTHER ->
              /\ Go(c, "add")
              /\ UNCHANGED <<kernel, remote, wire, call, nCtx, broken, setting>>

BirthInfo(c) ==
    /\ Doing(c, "info")
    /\ CASE task[Kid] = "nomm" ->
              /\ Publish(c, "RUNNING", FALSE, FALSE)
              /\ UNCHANGED <<kernel, remote, call, nCtx, broken, setting>>
         [] Ended(Kid) ->
              /\ call' = [call EXCEPT ![c].birth = TRUE]
              /\ Go(c, "tail")
              /\ UNCHANGED <<kernel, remote, wire, nCtx, broken, setting>>
         [] OTHER ->
              /\ Go(c, "add")
              /\ UNCHANGED <<kernel, remote, wire, call, nCtx, broken, setting>>

BirthAdd(c) ==
    /\ Doing(c, "add")
    /\ IF ~InfoAnswers(Kid) \/ (born = "thread" /\ mm[Kid] # call[c].target) THEN Break
       ELSE /\ nCtx' = nCtx + 1
            /\ call' = [call EXCEPT ![c].birth = TRUE, ![c].effect = TRUE]
            /\ Go(c, "tail")
            /\ UNCHANGED <<kernel, remote, wire, broken, setting>>


(* The reply of a step that does not fail. *)
Tail(c) ==
    /\ Doing(c, "tail")
    /\ "drain" \in Windows \/ InfoAnswers(c)
    /\ CASE Ended(c) ->
              /\ Publish(c, "COMPLETE", TRUE, FALSE)
              /\ call' = [call EXCEPT ![c].active = FALSE]
              /\ UNCHANGED <<kernel, remote, nCtx, broken, setting>>
         [] ~Ended(c) /\ call[c].st = "COMPLETE" /\ ~call[c].committed -> Break
         [] ~Ended(c) /\ call[c].st = "COMPLETE" /\ call[c].committed ->
              /\ call' = [call EXCEPT ![c].active = FALSE]
              /\ Go(c, "complete")
              /\ UNCHANGED <<kernel, remote, wire, nCtx, broken, setting>>
         [] OTHER ->
              /\ Publish(c, call[c].st, FALSE,
                         call[c].st = "ADMITTED" /\ call[c].kind \in Births)
              /\ UNCHANGED <<kernel, remote, call, nCtx, broken, setting>>

(* source_admission_complete(): the binding is the admitted one, or its    *)
(* successor after an exec; the change log is drained through any live     *)
(* context of that memory; the CPU state is taken.                         *)
OnAdmitted(c) == IF call[c].kind = "exec" THEN mm[c] > call[c].target
                 ELSE mm[c] = call[c].target
Represented(m) == \E o \in Ctx : mm[o] = m /\ task[o] \in {"live", "exiting"}

CompleteCall(c) ==
    /\ Doing(c, "complete") /\ InfoAnswers(c)
    /\ \/ (~OnAdmitted(c) \/ ~Represented(mm[c])) /\ Break
       \/ /\ OnAdmitted(c) /\ Represented(mm[c]) /\ ~Leaving(c)
          /\ Publish(c, "COMPLETE", FALSE, FALSE)
          /\ UNCHANGED <<kernel, remote, call, nCtx, broken, setting>>
       \/ /\ OnAdmitted(c) /\ Represented(mm[c]) /\ Leaving(c)
          /\ Go(c, "dying")
          /\ UNCHANGED <<kernel, remote, wire, call, nCtx, broken, setting>>

(* cpu_task_ended(): a failed control is the task's end or a failure. *)
Dying(c) ==
    /\ Doing(c, "dying")
    /\ \/ /\ Ended(c)
          /\ Publish(c, "COMPLETE", TRUE, FALSE)
          /\ call' = [call EXCEPT ![c].active = FALSE]
          /\ UNCHANGED <<kernel, remote, nCtx, broken, setting>>
       \/ ~Ended(c) /\ "patience" \in Windows /\ Break

(* A runtime checkpoint: the frame goes in and comes back. *)
Boundary(c) ==
    /\ Asked(c, "BOUNDARY")
    /\ \/ call[c].active /\ Break
       \/ /\ ~call[c].active /\ ~Leaving(c)
          /\ Publish(c, "COMPLETE", FALSE, FALSE)
          /\ UNCHANGED <<kernel, remote, call, nCtx, broken, setting>>
       \/ /\ ~call[c].active /\ Leaving(c)
          /\ Go(c, "dying")
          /\ UNCHANGED <<kernel, remote, wire, call, nCtx, broken, setting>>

(* The pages that the clone left in the child's own page tables. *)
ChildPages(c) ==
    /\ Asked(c, "CHILD_PAGES")
    /\ "pages" \in Windows \/ InfoAnswers(Kid)
    /\ Publish(c, IF InfoAnswers(Kid) THEN "OK" ELSE "FAILED", FALSE, FALSE)
    /\ UNCHANGED <<kernel, remote, call, nCtx, broken, setting>>

(* CPUSTATE waits for the child to park as a service. *)
CpuState(c) ==
    /\ Asked(c, "CPUSTATE")
    /\ CASE task[c] = "live" ->
              /\ Publish(c, IF c \in ready THEN "OK" ELSE "PENDING", FALSE, FALSE)
              /\ UNCHANGED <<kernel, remote, call, nCtx, broken, setting>>
         [] task[c] # "live" ->
              /\ Go(c, "dying")
              /\ UNCHANGED <<kernel, remote, wire, call, nCtx, broken, setting>>

(* FINISH ends the source's task and waits for it. *)
FinishKill(c) ==
    /\ Asked(c, "FINISH") /\ task[c] = "live"
    /\ task' = Doom(Group(c))
    /\ UNCHANGED <<mm, ready, gate, ran, born, home, remote, wire, broken, setting>>

FinishReply(c) ==
    /\ Asked(c, "FINISH") /\ Ended(c)
    /\ Publish(c, "OK", TRUE, FALSE)
    /\ UNCHANGED <<kernel, remote, call, nCtx, broken, setting>>

(* The end of serve(): the count goes down, the last one out ends the root. *)
Close(c) ==
    /\ Asked(c, "CLOSE")
    /\ IF call[c].active THEN Break
       ELSE /\ Go(c, "closed")
            /\ nCtx' = nCtx - 1
            /\ task' = IF nCtx = 1 THEN Doom({Root}) ELSE task
            /\ wire' = [wire EXCEPT ![c] = None]
            /\ UNCHANGED <<mm, ready, gate, ran, born, remote, call, broken, setting>>

----------------------------------------------------------------------------
(* The executor. *)

Send(c, op) == wire' = [wire EXCEPT ![c] = Ask(op)]
At(c, stage) == ~broken /\ exec[c] = stage
Answered(c) == wire[c].op = "REPLY"

(* main(): the program is started and its first CPU state is awaited. *)
Start(c) ==
    /\ At(c, "start")
    /\ Send(c, "START")
    /\ exec' = [exec EXCEPT ![c] = "starting"]
    /\ UNCHANGED <<kernel, home, fwd, view, nLive, broken, setting>>

Started(c) ==
    /\ At(c, "starting") /\ Answered(c)
    /\ Send(c, "CPUSTATE")
    /\ view' = [view EXCEPT ![c] = wire[c].mm]
    /\ exec' = [exec EXCEPT ![c] = "cpu"]
    /\ UNCHANGED <<kernel, home, fwd, nLive, broken, setting>>

(* The guest makes a call, or its time quantum ends. *)
Forward(c) ==
    /\ At(c, "user") /\ fwd[c].n < MaxCalls
    /\ fwd' = [fwd EXCEPT ![c] = [n |-> @.n + 1, prepared |-> FALSE,
                  seen |-> FALSE, lease |-> FALSE, rs |-> None]]
    /\ Send(c, "PREPARE")
    /\ exec' = [exec EXCEPT ![c] = "wait"]
    /\ UNCHANGED <<kernel, home, view, nLive, broken, setting>>

ForwardBoundary(c) ==
    /\ At(c, "user")
    /\ Send(c, "BOUNDARY")
    /\ exec' = [exec EXCEPT ![c] = "boundary"]
    /\ UNCHANGED <<kernel, home, fwd, view, nLive, broken, setting>>

ReadReply(c) ==
    /\ At(c, "wait") /\ Answered(c)
    /\ fwd' = [fwd EXCEPT ![c].rs = wire[c]]
    /\ exec' = [exec EXCEPT ![c] = IF wire[c].child THEN "child" ELSE "act"]
    /\ wire' = [wire EXCEPT ![c] = None]
    /\ UNCHANGED <<kernel, home, view, nLive, broken, setting>>

(* forward_child(): an executor for the child, then the lease ends. *)
Spawn(c) ==
    /\ exec' = [exec EXCEPT ![c] = "act", ![Kid] = "connect"]
    /\ fwd' = [fwd EXCEPT ![c].seen = TRUE, ![c].lease = FALSE]
    /\ view' = [view EXCEPT ![Kid] = mm[Kid]]
    /\ nLive' = nLive + 1

forward_child(c) ==
    /\ At(c, "child")
    /\ IF fwd[c].seen \/ ~fwd[c].prepared \/ ~fwd[c].lease
          \/ fwd[c].rs.st \notin {"RUNNING", "COMPLETE"} THEN Break
       ELSE \/ /\ born = "thread"
               /\ Spawn(c) /\ UNCHANGED <<kernel, home, wire, broken, setting>>
            \/ /\ born # "thread"
               /\ Send(c, "CHILD_PAGES")
               /\ exec' = [exec EXCEPT ![c] = "pages"]
               /\ UNCHANGED <<kernel, home, fwd, view, nLive, broken, setting>>

ChildPagesRead(c) ==
    /\ At(c, "pages") /\ Answered(c)
    /\ IF wire[c].st = "FAILED" THEN Break
       ELSE /\ Spawn(c)
            /\ wire' = [wire EXCEPT ![c] = None]
            /\ UNCHANGED <<kernel, home, broken, setting>>

(* The call is over: its end, or its frame and its memory. *)
Applied(c, rs) ==
    /\ exec' = [exec EXCEPT ![c] = IF rs.ended THEN "ending" ELSE "user"]
    /\ view' = [view EXCEPT ![c] = IF rs.ended THEN @ ELSE rs.mm]
    /\ fwd' = [fwd EXCEPT ![c].lease = FALSE, ![c].rs = None]

Complete(c) ==
    /\ At(c, "act") /\ fwd[c].rs.st = "COMPLETE"
    /\ Applied(c, fwd[c].rs)
    /\ UNCHANGED <<kernel, home, wire, nLive, broken, setting>>

(* An admitted call: quiesce and settle once if it copies memory. *)
Prepare(c) ==
    /\ At(c, "act") /\ fwd[c].rs.st = "ADMITTED"
    /\ fwd' = [fwd EXCEPT ![c].prepared = TRUE, ![c].rs = None,
                 ![c].lease = @ \/ (~fwd[c].prepared /\ fwd[c].rs.flags)]
    /\ Send(c, "EXECUTE")
    /\ exec' = [exec EXCEPT ![c] = "wait"]
    /\ UNCHANGED <<kernel, home, view, nLive, broken, setting>>

Poll(c) ==
    /\ At(c, "act") /\ fwd[c].rs.st \in {"ENTERING", "RUNNING"}
    /\ IF fwd[c].rs.st = "RUNNING" /\ ~fwd[c].prepared THEN Break
       ELSE /\ Send(c, "POLL")
            /\ fwd' = [fwd EXCEPT ![c].rs = None]
            /\ exec' = [exec EXCEPT ![c] = "wait"]
            /\ UNCHANGED <<kernel, home, view, nLive, broken, setting>>

BoundaryDone(c) ==
    /\ At(c, "boundary") /\ Answered(c)
    /\ IF ~wire[c].ended /\ wire[c].mm # view[c] THEN Break
       ELSE /\ Applied(c, wire[c])
            /\ wire' = [wire EXCEPT ![c] = None]
            /\ UNCHANGED <<kernel, home, nLive, broken, setting>>

(* child_thread(): bind a connection to the source's child and start it. *)
Connect(c) ==
    /\ At(c, "connect")
    /\ srv' = [srv EXCEPT ![c] = "idle"]
    /\ Send(c, "CPUSTATE")
    /\ exec' = [exec EXCEPT ![c] = "cpu"]
    /\ UNCHANGED <<kernel, call, nCtx, fwd, view, nLive, broken, setting>>

source_cpu_ready(c) ==
    /\ At(c, "cpu") /\ Answered(c)
    /\ CASE wire[c].ended ->
              /\ exec' = [exec EXCEPT ![c] = IF c = Root THEN "done" ELSE "ending"]
              /\ wire' = [wire EXCEPT ![c] = IF c = Root THEN Ask("CLOSE") ELSE None]
              /\ UNCHANGED <<kernel, home, fwd, view, nLive, broken, setting>>
         [] wire[c].st = "PENDING" ->
              /\ Send(c, "CPUSTATE")
              /\ UNCHANGED <<kernel, home, remote, broken, setting>>
         [] wire[c].st = "OK" ->
              IF wire[c].mm # view[c] THEN Break
              ELSE /\ exec' = [exec EXCEPT ![c] = "user"]
                   /\ wire' = [wire EXCEPT ![c] = None]
                   /\ UNCHANGED <<kernel, home, fwd, view, nLive, broken, setting>>

(* The service loop ends with its executor. *)
ExecutorLost(c) ==
    /\ c \in Fragile /\ At(c, "user")
    /\ exec' = [exec EXCEPT ![c] = "ending"]
    /\ UNCHANGED <<kernel, home, wire, fwd, view, nLive, broken, setting>>

Finish(c) ==
    /\ At(c, "ending") /\ (c = Root => nLive = 0)
    /\ Send(c, "FINISH")
    /\ exec' = [exec EXCEPT ![c] = "finish"]
    /\ UNCHANGED <<kernel, home, fwd, view, nLive, broken, setting>>

Finished(c) ==
    /\ At(c, "finish") /\ Answered(c)
    /\ Send(c, "CLOSE")
    /\ exec' = [exec EXCEPT ![c] = "done"]
    /\ nLive' = IF c = Kid THEN nLive - 1 ELSE nLive
    /\ UNCHANGED <<kernel, home, fwd, view, broken, setting>>

----------------------------------------------------------------------------
Kernel(c) == Enter(c) \/ Dispatch(c) \/ CallEnds(c) \/ Retire(c) \/ Park(c)
             \/ DropMM(c) \/ Bury(c)
Admission(c) == PrepareCall(c) \/ NextCall(c) \/ GateBegin(c) \/ GateQuery(c)
             \/ GateBusy(c) \/ Admit(c) \/ GateCommit(c) \/ CommitRead(c)
             \/ CommitBusy(c) \/ Tail(c) \/ CompleteCall(c) \/ Dying(c)
Serve(c) == oracle_start(c) \/ Boundary(c) \/ ChildPages(c) \/ CpuState(c) \/ FinishKill(c)
             \/ FinishReply(c) \/ Close(c)
Birth(c) == BirthNone(c) \/ BirthExport(c) \/ BirthInfo(c) \/ BirthAdd(c)
Executor(c) == Start(c) \/ Started(c) \/ ReadReply(c) \/ forward_child(c) \/ ChildPagesRead(c) \/ Complete(c)
             \/ Prepare(c) \/ Poll(c) \/ BoundaryDone(c) \/ Connect(c)
             \/ source_cpu_ready(c) \/ Finish(c) \/ Finished(c)
Work(c) == Kernel(c) \/ Admission(c) \/ Birth(c) \/ Serve(c) \/ Executor(c)
Will(c) == Forward(c) \/ ForwardBoundary(c) \/ Kill(c) \/ ExecutorLost(c)

Next == \E c \in Ctx : Work(c) \/ Will(c)

Spec == Init /\ [][Next]_vars

(* The native tasks, the connection servers and the executor's threads run, *)
(* and a guest that keeps running uses up its quantum.                      *)
Fairness == \A c \in Ctx :
    /\ WF_vars(Kernel(c))
    /\ WF_vars(Admission(c) \/ Birth(c) \/ Serve(c))
    /\ WF_vars(Executor(c) \/ ForwardBoundary(c))

FairSpec == Spec /\ Fairness

----------------------------------------------------------------------------
Idle(c) == exec[c] \in {"user", "ending", "finish", "done"}

TypeOK ==
    /\ task \in [Ctx -> {"none", "live", "exiting", "nomm", "dead"}]
    /\ srv \in [Ctx -> {"none", "idle", "native", "admit", "commit", "read", "birth",
                        "info", "add", "tail", "complete", "dying", "closed"}]
    /\ exec \in [Ctx -> {"none", "start", "starting", "connect", "cpu", "user", "wait", "boundary",
                         "child", "pages", "act", "ending", "finish", "done"}]
    /\ nCtx \in 0..2 /\ nLive \in 0..1


(* However often the executor polls and the source retries its controls, a *)
(* call the guest made is dispatched once: never twice, and a call that    *)
(* returned to a live program was dispatched.                              *)
DispatchedOnce ==
    \A c \in Ctx : /\ ran[c] <= fwd[c].n
                   /\ exec[c] = "user" /\ task[c] = "live" => ran[c] = fwd[c].n

(* From the native birth of a child until its executor is published (or    *)
(* the parent's call is over) the parent's execution stays quiesced: the   *)
(* lease taken for the clone is the one under which its copy is made.      *)
BirthUnderLease ==
    task[Kid] \notin {"none", "dead"} /\ exec[Kid] = "none" /\ ~Idle(Root)
        => fwd[Root].lease

(* A child that the clone made and that has not ended is never left        *)
(* without an executor once its parent's call is over (unless the race of  *)
(* source_admission_step with the parent's end is explored).               *)
NoStray ==
    "strand" \notin Windows /\ Idle(Root) /\ ~broken /\ task[Kid] \notin {"none", "dead"} => exec[Kid] # "none"

(* The count of contexts reaches zero, and the root is ended for it, only  *)
(* when no native task of the program is left.                             *)
LastOut == nCtx = 0 => \A c \in Ctx : task[c] \in {"none", "dead"}

(* A guest that runs is bound to the memory its native task has, also      *)
(* after an exec replaced it.                                              *)
OnTarget == \A c \in Ctx : exec[c] = "user" /\ task[c] = "live" => view[c] = mm[c]

(* A call is carried out once, and its guest goes on in the memory the     *)
(* call left to its task (forward, source_admission_step).                 *)
CallsExact == TypeOK /\ DispatchedOnce /\ OnTarget

(* A child is neither lost nor left over, from its birth under the lease   *)
(* to the count that ends the program (source_admission_birth,             *)
(* forward_child, ctx_finished).                                           *)
ChildrenKept == BirthUnderLease /\ NoStray /\ LastOut

(* The call of a parent whose child still has its memory (vfork).          *)
Lent(c) == gate[c].kind = "vfork" /\ gate[c].in /\ mm[Kid] = mm[c] /\ task[Kid] = "live"

(* Every forwarded call returns to its guest or reports its end, or waits  *)
(* for a child that still has the memory of its parent (vfork).  Claimed   *)
(* where the control lock is not found taken time and again.               *)
CallReturns == \A c \in Ctx : exec[c] = "wait" /\ ~Contended ~> Idle(c) \/ Lent(c) \/ broken

(* When the native tasks have ended the program is wound up: executors     *)
(* reaped, connections closed, the count back at zero.                     *)
WoundUp == (~Contended /\ \A c \in Ctx : task[c] \in {"none", "dead"}) ~> (nCtx = 0 /\ nLive = 0) \/ broken

(* No call and no program is left half way, whoever is killed in between.  *)
CallsEnd == CallReturns /\ WoundUp
=============================================================================
