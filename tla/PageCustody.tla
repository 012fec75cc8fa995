---------------------------- MODULE PageCustody -----------------------------
(***************************************************************************)
(* The source kernel's page record and the operations that move a page of  *)
(* one address space to the machine running the program and back (the     *)
(* linux-7.0.14 patch: kernel/vmctx.c, vmctx-transfer-core.h and           *)
(* vmctx-recall-core.h).                                                   *)
(*                                                                         *)
(* Per page there is a record, the page-table presence, and at most one    *)
(* guard: the entry of s->recalls, which belongs to a transfer ticket, a   *)
(* recall ticket or a LAND in progress.  A step is one critical section of *)
(* vmctx_mm_lock, or a stretch of code that no other step can divide in a  *)
(* way this state shows.  Monitor threads issue control operations in any  *)
(* order: what holds here holds whatever the monitor does.                 *)
(*                                                                         *)
(* The generation and checksum of a record are left out (the exact ticket, *)
(* never the checksum, settles a transfer), and so are allocation failures *)
(* before an operation has touched anything.                               *)
(***************************************************************************)
EXTENDS Naturals

CONSTANTS
    Pages,      \* page-aligned addresses of the address space
    Threads,    \* monitor threads: each operates the tickets it created
    Contexts,   \* source tasks of the address space, which take faults
    Tickets,    \* tickets that exist at once; an identity is never reissued,
                \* so a freed one stands for a fresh one
    Free,       \* no ticket
    SetStates   \* record states the monitor writes with PGSET (vmhome writes
                \* CLAIM, HOME and what it found before, never TRANSIT)

ASSUME FreeAssumption == Free \notin Tickets
ASSUME SetAssumption  == SetStates \subseteq {"NONE", "HOME", "REMOTE", "CLAIM"}

VARIABLES
    rec,        \* VMCTX_PG_* state of each page's record
    guard,      \* s->recalls: the ticket that has each page, or Free
    vma,        \* how each page is mapped, "none" when it is not
    mem,        \* the page table maps the page
    zap,        \* a discard has been noted and its zap is still to come
    tk,         \* the tickets
    flt,        \* the fault each context is taking
    poisoned,   \* access_error: custody was lost
    killed      \* SIGKILL was sent to the program

vars == <<rec, guard, vma, mem, zap, tk, flt, poisoned, killed>>

(* "private" is anonymous, "file" private of a file; "sealed" can never be  *)
(* written and is only ever copied.                                        *)
Classes  == {"private", "file", "shared", "sealed"}

States   == {"NONE", "HOME", "REMOTE", "CLAIM", "TRANSIT"}
InFlight == {"CLAIM", "TRANSIT"}

(* What a capture found.  TAKEN: bytes retained, page gone from here.      *)
(* ZEROS: nothing was ever here and the asker may fill it (ABSENT, GRANT). *)
(* GIVEN: a shared page copied with the grant.  COPIED and ABSENT move     *)
(* nothing.  REFUSED: CLAIMING, NOMAP or DENIED.  ERROR: capture_result.   *)
Results  == {"none", "TAKEN", "ZEROS", "GIVEN", "COPIED", "ABSENT", "REFUSED", "ERROR"}
Granting == {"TAKEN", "ZEROS", "GIVEN"}

(* struct vmctx_recall_ticket and struct vmctx_transfer_ticket.            *)
Ticket == [kind      : {"transfer", "recall", "land"},
           owner     : Threads,
           page      : Pages,
           step      : {"begun", "guarded", "looked", "marked", "captured",
                        "settled", "locked", "pinned"},
           held      : BOOLEAN,        \* guard.slot: s->recalls names it
           cancelled : BOOLEAN,
           prior     : {"NONE", "HOME"},   \* st of vmctx_serve_capture
           result    : Results,
           offered   : BOOLEAN]

NoTicket == [kind |-> "idle"]

NewTicket(k, th, p, step, held) ==
    [kind |-> k, owner |-> th, page |-> p, step |-> step, held |-> held,
     cancelled |-> FALSE, prior |-> "NONE", result |-> "none", offered |-> FALSE]

Idle  == [step |-> "idle"]
Fault == [step : {"taken", "asked", "filling"}, page : Pages, claimed : BOOLEAN,
          prior : States]

Live(t) == tk[t] # NoTicket

(* vmctx_transfer_grants, for a ticket that is not yet acknowledged.       *)
Grants(t) ==
    /\ Live(t)
    /\ tk[t].kind = "transfer"
    /\ tk[t].step = "captured"
    /\ tk[t].result \in Granting

(* The thread is not in the middle of a control operation.                 *)
Ready(th) ==
    \A t \in Tickets : Live(t) /\ tk[t].owner = th =>
        tk[t].step \notin {"guarded", "looked", "marked", "locked", "pinned"}

Init ==
    /\ rec = [p \in Pages |-> "NONE"]
    /\ guard = [p \in Pages |-> Free]
    /\ vma \in [Pages -> Classes]
    /\ mem \in [Pages -> BOOLEAN]
    /\ zap = [p \in Pages |-> FALSE]
    /\ tk = [t \in Tickets |-> NoTicket]
    /\ flt = [c \in Contexts |-> Idle]
    /\ poisoned = FALSE
    /\ killed = FALSE

-----------------------------------------------------------------------------
(* Transfer tickets: a page leaves for the machine running the program.    *)

(* vmctx_transfer_begin touches no page and no record.                     *)
TransferBegin(th, t, p) ==
    /\ Ready(th)
    /\ ~Live(t)
    /\ ~poisoned
    /\ tk' = [tk EXCEPT ![t] = NewTicket("transfer", th, p, "begun", FALSE)]
    /\ UNCHANGED <<rec, guard, vma, mem, zap, flt, poisoned, killed>>

(* vmctx_page_guard_acquire for a capture: refused (EBUSY) when the page   *)
(* has a guard or its record is in flight.                                 *)
CaptureGuard(t) ==
    LET p == tk[t].page IN
    /\ Live(t) /\ tk[t].kind = "transfer" /\ tk[t].step = "begun"
    /\ Ready(tk[t].owner)
    /\ IF guard[p] # Free \/ rec[p] \in InFlight
       THEN /\ tk' = [tk EXCEPT ![t].step = "captured", ![t].result = "ERROR"]
            /\ UNCHANGED guard
       ELSE /\ tk' = [tk EXCEPT ![t].step = "guarded", ![t].held = TRUE]
            /\ guard' = [guard EXCEPT ![p] = t]
    /\ UNCHANGED <<rec, vma, mem, zap, flt, poisoned, killed>>

(* What vmctx_serve_capture answers before it touches the record, or       *)
(* "proceed".                                                              *)
LookAnswer(t) ==
    LET p == tk[t].page IN
    IF tk[t].cancelled THEN "ERROR"
    ELSE IF vma[p] = "none" \/ rec[p] \in InFlight THEN "REFUSED"
    ELSE IF rec[p] = "REMOTE" THEN "ABSENT"
    ELSE IF vma[p] # "sealed" THEN "proceed"
    ELSE IF mem[p] THEN "COPIED" ELSE "ABSENT"

(* vmctx_serve_capture under mmap_read_lock, up to the record.  A page a   *)
(* running system call holds (vmctx_syscall_holds_mm) is refused: EBUSY.   *)
CaptureLook(t) ==
    /\ Live(t) /\ tk[t].kind = "transfer" /\ tk[t].step = "guarded"
    /\ \/ /\ LookAnswer(t) # "proceed"
          /\ tk' = [tk EXCEPT ![t].step = "captured", ![t].result = LookAnswer(t)]
       \/ /\ LookAnswer(t) = "proceed"
          /\ \/ tk' = [tk EXCEPT ![t].step = "captured", ![t].result = "ERROR"]
             \/ tk' = [tk EXCEPT ![t].step = "looked", ![t].prior = rec[tk[t].page]]
    /\ UNCHANGED <<rec, guard, vma, mem, zap, flt, poisoned, killed>>

(* A private page's record is reloaded and swapped to TRANSIT without      *)
(* vmctx_mm_lock and without a second look at cancelled.                   *)
MarkPrivate(t) ==
    LET p == tk[t].page IN
    /\ vma[p] \in {"private", "file"}
    /\ IF rec[p] \in {"HOME", "NONE"}
       THEN /\ rec' = [rec EXCEPT ![p] = "TRANSIT"]
            /\ tk' = [tk EXCEPT ![t].step = "marked", ![t].prior = rec[p]]
       ELSE /\ tk' = [tk EXCEPT ![t].step = "captured", ![t].result = "REFUSED"]
            /\ UNCHANGED rec

(* A shared page's record becomes CLAIM under vmctx_mm_lock, unless the    *)
(* ticket was cancelled meanwhile.                                         *)
MarkShared(t) ==
    LET p == tk[t].page IN
    /\ vma[p] = "shared"
    /\ IF tk[t].cancelled
       THEN /\ tk' = [tk EXCEPT ![t].step = "captured", ![t].prior = "NONE",
                                ![t].result = "ERROR"]
            /\ UNCHANGED rec
       ELSE /\ rec' = [rec EXCEPT ![p] = "CLAIM"]
            /\ tk' = [tk EXCEPT ![t].step = "marked"]

CaptureMark(t) ==
    /\ Live(t) /\ tk[t].kind = "transfer" /\ tk[t].step = "looked"
    /\ MarkPrivate(t) \/ MarkShared(t)
    /\ UNCHANGED <<guard, vma, mem, zap, flt, poisoned, killed>>

(* The capture ends with this result, which a cancellation turns into      *)
(* ESTALE; the record is written only while it is still the one this       *)
(* capture marked.                                                         *)
CaptureEnd(t, mark, to, result) ==
    LET p == tk[t].page IN
    /\ tk' = [tk EXCEPT ![t].step = "captured", ![t].prior = "NONE",
                        ![t].result = IF tk[t].cancelled THEN "ERROR" ELSE result]
    /\ rec' = [rec EXCEPT ![p] = IF @ = mark THEN to ELSE @]

(* vmctx_take_locked and the outcome of a private capture: the page, which *)
(* a file mapping faults in first, is taken; or refused and left as it was; *)
(* or refused after the zap, which costs the page and kills the program;   *)
(* or absent, which grants it only if nobody ever recorded it.             *)
TakePrivate(t) ==
    LET p == tk[t].page
        there == mem[p] \/ vma[p] = "file"
    IN
    /\ vma[p] \in {"private", "file"}
    /\ \/ /\ there
          /\ mem' = [mem EXCEPT ![p] = FALSE]
          /\ \/ CaptureEnd(t, "TRANSIT", "TRANSIT", "TAKEN") /\ UNCHANGED killed
             \/ CaptureEnd(t, "TRANSIT", tk[t].prior, "ERROR") /\ killed' = TRUE
       \/ /\ there
          /\ mem' = [mem EXCEPT ![p] = TRUE]
          /\ CaptureEnd(t, "TRANSIT", tk[t].prior, "ERROR")
          /\ UNCHANGED killed
       \/ /\ ~there
          /\ IF tk[t].prior = "HOME"
             THEN CaptureEnd(t, "TRANSIT", "HOME", "REFUSED")
             ELSE CaptureEnd(t, "TRANSIT", "TRANSIT", "ZEROS")
          /\ UNCHANGED <<mem, killed>>

(* The shared object's page is copied and granted, or the record goes      *)
(* back; a cancelled ticket writes nothing.                                *)
TakeShared(t) ==
    LET p == tk[t].page IN
    /\ vma[p] = "shared"
    /\ IF tk[t].cancelled
       THEN CaptureEnd(t, "CLAIM", "CLAIM", "ERROR")
       ELSE \/ CaptureEnd(t, "CLAIM", "TRANSIT", "GIVEN")
            \/ CaptureEnd(t, "CLAIM", tk[t].prior, "ERROR")
    /\ UNCHANGED <<mem, killed>>

CaptureTake(t) ==
    /\ Live(t) /\ tk[t].kind = "transfer" /\ tk[t].step = "marked"
    /\ TakePrivate(t) \/ TakeShared(t)
    /\ UNCHANGED <<guard, vma, zap, flt, poisoned>>

(* VMCTX_TRANSFER_READ offers the retained answer to the monitor, even     *)
(* when copying the bytes out then fails.                                  *)
TransferRead(t) ==
    /\ Live(t) /\ tk[t].kind = "transfer" /\ tk[t].step = "captured"
    /\ ~tk[t].cancelled
    /\ tk[t].result # "ERROR"
    /\ Ready(tk[t].owner)
    /\ tk' = [tk EXCEPT ![t].offered = TRUE]
    /\ UNCHANGED <<rec, guard, vma, mem, zap, flt, poisoned, killed>>

(* acknowledged is set, the guard dropped and the bytes freed; nothing     *)
(* reads the rest of the ticket again.                                     *)
Settle(t) ==
    LET p == tk[t].page IN
    /\ tk' = [tk EXCEPT ![t] = NewTicket("transfer", tk[t].owner, p, "settled", FALSE)]
    /\ guard' = [guard EXCEPT ![p] = IF tk[t].held THEN Free ELSE @]

(* Mutant: an answer nobody read can be acknowledged.                      *)
TransferAck_Unread(t) ==
    LET p == tk[t].page IN
    /\ Live(t) /\ tk[t].kind = "transfer" /\ tk[t].step = "captured"
    /\ tk[t].result # "ERROR"
    /\ Ready(tk[t].owner)
    /\ IF Grants(t) /\ ~tk[t].cancelled
       THEN rec[p] = "TRANSIT" /\ rec' = [rec EXCEPT ![p] = "REMOTE"]
       ELSE UNCHANGED rec
    /\ Settle(t)
    /\ UNCHANGED <<vma, mem, zap, flt, poisoned, killed>>

(* vmctx_transfer_ack: only the ticket that was granted the page, and only *)
(* while nothing has cancelled it, makes the page REMOTE.  A stale ACK     *)
(* settles the ticket and leaves the record alone.                         *)
TransferAck(t) ==
    LET p == tk[t].page IN
    /\ Live(t) /\ tk[t].kind = "transfer" /\ tk[t].step = "captured"
    /\ tk[t].result # "ERROR" /\ tk[t].offered
    /\ Ready(tk[t].owner)
    /\ IF Grants(t) /\ ~tk[t].cancelled
       THEN rec[p] = "TRANSIT" /\ rec' = [rec EXCEPT ![p] = "REMOTE"]
       ELSE UNCHANGED rec
    /\ Settle(t)
    /\ UNCHANGED <<vma, mem, zap, flt, poisoned, killed>>

(* Mutant: CANCEL also settles a grant that stands.                        *)
TransferCancel_Grant(t) ==
    /\ Live(t) /\ tk[t].kind = "transfer" /\ tk[t].step \in {"begun", "captured"}
    /\ Ready(tk[t].owner)
    /\ Settle(t)
    /\ UNCHANGED <<rec, vma, mem, zap, flt, poisoned, killed>>

(* VMCTX_TRANSFER_CANCEL settles anything but a grant that still stands.   *)
TransferCancel(t) ==
    /\ Live(t) /\ tk[t].kind = "transfer" /\ tk[t].step \in {"begun", "captured"}
    /\ Ready(tk[t].owner)
    /\ ~(Grants(t) /\ ~tk[t].cancelled)
    /\ Settle(t)
    /\ UNCHANGED <<rec, vma, mem, zap, flt, poisoned, killed>>

TransferForget(t) ==
    /\ Live(t) /\ tk[t].step = "settled"
    /\ Ready(tk[t].owner)
    /\ tk' = [tk EXCEPT ![t] = NoTicket]
    /\ UNCHANGED <<rec, guard, vma, mem, zap, flt, poisoned, killed>>

Owned(th, kind) == {t \in Tickets : Live(t) /\ tk[t].owner = th /\ tk[t].kind = kind}

(* vmctx_transfer_owner_exit, for ABANDON: a grant that was neither        *)
(* acknowledged nor cancelled is lost custody, which poisons the address   *)
(* space and kills the program; the record stays TRANSIT.                  *)
Abandon(th) ==
    LET gone == Owned(th, "transfer")
        lost == \E t \in gone : Grants(t) /\ ~tk[t].cancelled
    IN
    /\ Ready(th)
    /\ gone # {}
    /\ tk' = [t \in Tickets |-> IF t \in gone THEN NoTicket ELSE tk[t]]
    /\ guard' = [p \in Pages |-> IF guard[p] \in gone THEN Free ELSE guard[p]]
    /\ poisoned' = (poisoned \/ lost)
    /\ killed' = (killed \/ lost)
    /\ UNCHANGED <<rec, vma, mem, zap, flt>>

-----------------------------------------------------------------------------
(* Recall tickets: a page comes back by the monitor's own request.         *)

RecallBegin(th, t, p) ==
    /\ Ready(th)
    /\ ~Live(t)
    /\ guard[p] = Free
    /\ rec[p] = "REMOTE"
    /\ vma[p] # "none"
    /\ tk' = [tk EXCEPT ![t] = NewTicket("recall", th, p, "begun", TRUE)]
    /\ guard' = [guard EXCEPT ![p] = t]
    /\ rec' = [rec EXCEPT ![p] = "CLAIM"]
    /\ UNCHANGED <<vma, mem, zap, flt, poisoned, killed>>

(* vmctx_recall_unlink: the claim becomes `to`, unless an invalidation     *)
(* cancelled the ticket; the ticket is gone either way.                    *)
RecallUnlink(t, to) ==
    LET p == tk[t].page IN
    /\ rec' = [rec EXCEPT ![p] = IF ~tk[t].cancelled /\ @ = "CLAIM" THEN to ELSE @]
    /\ tk' = [tk EXCEPT ![t] = NoTicket]
    /\ guard' = [guard EXCEPT ![p] = Free]

(* RECALL_COMMIT takes mmap_read_lock and goes on if nothing cancelled the *)
(* ticket.                                                                 *)
RecallLook(t) ==
    /\ Live(t) /\ tk[t].kind = "recall" /\ tk[t].step = "begun"
    /\ Ready(tk[t].owner)
    /\ ~tk[t].cancelled
    /\ tk' = [tk EXCEPT ![t].step = "locked"]
    /\ UNCHANGED <<rec, guard, vma, mem, zap, flt, poisoned, killed>>

(* get_user_pages_remote for RECALL_COMMIT and for LAND: a forced write    *)
(* fault maps the page, blank if nothing is there, and pins it.            *)
Pin(t) ==
    /\ Live(t) /\ tk[t].step = "locked"
    /\ tk' = [tk EXCEPT ![t].step = "pinned"]
    /\ mem' = [mem EXCEPT ![tk[t].page] = TRUE]
    /\ UNCHANGED <<rec, guard, vma, zap, flt, poisoned, killed>>

(* The bytes are copied and the record becomes HOME in one critical        *)
(* section, or the ticket was cancelled.                                   *)
RecallCommit(t) ==
    /\ Live(t) /\ tk[t].kind = "recall" /\ tk[t].step = "pinned"
    /\ RecallUnlink(t, "HOME")
    /\ UNCHANGED <<vma, mem, zap, flt, poisoned, killed>>

(* RECALL_CANCEL, and a COMMIT that fails before it pins the page: the     *)
(* record goes back to the loan it displaced.                              *)
RecallCancel(t) ==
    /\ Live(t) /\ tk[t].kind = "recall"
    /\ tk[t].step = "locked" \/ (tk[t].step = "begun" /\ Ready(tk[t].owner))
    /\ RecallUnlink(t, "REMOTE")
    /\ UNCHANGED <<vma, mem, zap, flt, poisoned, killed>>

(* vmctx_task_exit of a monitor thread: its transfer tickets, as ABANDON,  *)
(* and then its recall tickets, which put the loan back.                   *)
ThreadExit(th) ==
    LET gone == Owned(th, "transfer") \cup Owned(th, "recall")
        lost == \E t \in gone : Grants(t) /\ ~tk[t].cancelled
        back == {p \in Pages : \E t \in Owned(th, "recall") :
                     guard[p] = t /\ ~tk[t].cancelled /\ rec[p] = "CLAIM"}
    IN
    /\ Ready(th)
    /\ Owned(th, "recall") # {}
    /\ tk' = [t \in Tickets |-> IF t \in gone THEN NoTicket ELSE tk[t]]
    /\ guard' = [p \in Pages |-> IF guard[p] \in gone THEN Free ELSE guard[p]]
    /\ rec' = [p \in Pages |-> IF p \in back THEN "REMOTE" ELSE rec[p]]
    /\ poisoned' = (poisoned \/ lost)
    /\ killed' = (killed \/ lost)
    /\ UNCHANGED <<vma, mem, zap, flt>>

-----------------------------------------------------------------------------
(* LAND and PGSET: the monitor settles a page directly.                    *)

(* vmctx_ctl_land takes mmap_read_lock and the guard; IF_ABSENT leaves a   *)
(* page that is already mapped alone.  Pin follows.                        *)
LandBegin(th, t, p, ifAbsent) ==
    /\ Ready(th)
    /\ ~Live(t)
    /\ guard[p] = Free
    /\ vma[p] # "none"
    /\ ~(ifAbsent /\ mem[p])
    /\ tk' = [tk EXCEPT ![t] = NewTicket("land", th, p, "locked", TRUE)]
    /\ guard' = [guard EXCEPT ![p] = t]
    /\ UNCHANGED <<rec, vma, mem, zap, flt, poisoned, killed>>

(* Mutant: the landing does not look at cancelled again.                   *)
LandCommit_Late(t) ==
    LET p == tk[t].page IN
    /\ Live(t) /\ tk[t].kind = "land" /\ tk[t].step = "pinned"
    /\ rec' = [rec EXCEPT ![p] = "HOME"]
    /\ tk' = [tk EXCEPT ![t] = NoTicket]
    /\ guard' = [guard EXCEPT ![p] = Free]
    /\ UNCHANGED <<vma, mem, zap, flt, poisoned, killed>>

(* Bytes and HOME in one critical section, whatever the record said,       *)
(* unless an invalidation cancelled the landing.                           *)
LandCommit(t) ==
    LET p == tk[t].page IN
    /\ Live(t) /\ tk[t].kind = "land" /\ tk[t].step = "pinned"
    /\ rec' = [rec EXCEPT ![p] = IF tk[t].cancelled THEN @ ELSE "HOME"]
    /\ tk' = [tk EXCEPT ![t] = NoTicket]
    /\ guard' = [guard EXCEPT ![p] = Free]
    /\ UNCHANGED <<vma, mem, zap, flt, poisoned, killed>>

(* Mutant: PGSET writes under a ticket.                                    *)
PgSet_IgnoresTicket(p, st) ==
    /\ st = "CLAIM" => rec[p] \notin InFlight
    /\ rec' = [rec EXCEPT ![p] = st]
    /\ UNCHANGED <<guard, vma, mem, zap, tk, flt, poisoned, killed>>

(* vmctx_ctl_pgset.                                                        *)
PgSet(p, st) ==
    /\ guard[p] = Free
    /\ st = "CLAIM" => rec[p] \notin InFlight
    /\ rec' = [rec EXCEPT ![p] = st]
    /\ UNCHANGED <<guard, vma, mem, zap, tk, flt, poisoned, killed>>

-----------------------------------------------------------------------------
(* Faults of the source's own tasks.                                       *)

(* vmctx_anon_fault: the page table of a private mapping has nothing.  The *)
(* lock on the mapping is dropped before the claim.                        *)
FaultTaken(c, p) ==
    /\ flt[c] = Idle
    /\ vma[p] \notin {"none", "shared"} /\ ~mem[p]
    /\ flt' = [flt EXCEPT ![c] = [step |-> "taken", page |-> p,
                                  claimed |-> FALSE, prior |-> "NONE"]]
    /\ UNCHANGED <<rec, guard, vma, mem, zap, tk, poisoned, killed>>

(* vmctx_pgrec_claim: nothing is in flight, so the fault writes its claim; *)
(* or a transition stands and the fault, which may not wait or whose wait  *)
(* ran out, is reported with it.                                           *)
FaultClaim(c) ==
    LET p == flt[c].page
        busy == guard[p] # Free \/ rec[p] \in InFlight
    IN
    /\ flt[c] # Idle /\ flt[c].step = "taken"
    /\ flt' = [flt EXCEPT ![c].step = "asked", ![c].claimed = ~busy,
                          ![c].prior = IF guard[p] # Free THEN "CLAIM" ELSE rec[p]]
    /\ rec' = IF busy THEN rec ELSE [rec EXCEPT ![p] = "CLAIM"]
    /\ UNCHANGED <<guard, vma, mem, zap, tk, poisoned, killed>>

(* A wait that ended, or a fatal signal: the access is taken again.        *)
FaultRetry(c) ==
    /\ flt[c] # Idle /\ flt[c].step = "taken"
    /\ flt' = [flt EXCEPT ![c] = Idle]
    /\ UNCHANGED <<rec, guard, vma, mem, zap, tk, poisoned, killed>>

(* The retried fault (FAULT_FLAG_TRIED) of a page the record says is HOME  *)
(* goes straight to the local fill, the lock on the mapping kept.          *)
FaultHome(c, p) ==
    /\ flt[c] = Idle
    /\ vma[p] \notin {"none", "shared"} /\ ~mem[p]
    /\ rec[p] = "HOME"
    /\ flt' = [flt EXCEPT ![c] = [step |-> "filling", page |-> p,
                                  claimed |-> FALSE, prior |-> "NONE"]]
    /\ UNCHANGED <<rec, guard, vma, mem, zap, tk, poisoned, killed>>

(* vmctx_pgrec_land: the monitor's answer settles the claim the fault      *)
(* wrote, if a claim still stands and no ticket has the page.              *)
PgrecLand(c, to) ==
    LET p == flt[c].page IN
    rec' = [rec EXCEPT ![p] =
        IF flt[c].claimed /\ guard[p] = Free /\ @ = "CLAIM" THEN to ELSE @]

(* vmctx_redirect_fault on the monitor's answer.  DONE: the page is good.  *)
(* SELF: the local kernel fills it, at once or when the fault is retried.  *)
(* KILL, or no answer: the record goes back.                               *)
FaultAnswer(c, action) ==
    /\ flt[c] # Idle /\ flt[c].step = "asked"
    /\ PgrecLand(c, IF action \in {"DONE", "SELF"} THEN "HOME" ELSE flt[c].prior)
    /\ \/ flt' = [flt EXCEPT ![c] = Idle]
       \/ action = "SELF" /\ flt' = [flt EXCEPT ![c].step = "filling", ![c].claimed = FALSE,
                                                    ![c].prior = "NONE"]
    /\ UNCHANGED <<guard, vma, mem, zap, tk, poisoned, killed>>

(* The local kernel's fill, under the fault's own lock on the mapping.     *)
LocalFill(c) ==
    /\ flt[c] # Idle /\ flt[c].step = "filling"
    /\ mem' = [mem EXCEPT ![flt[c].page] = vma[flt[c].page] # "none"]
    /\ flt' = [flt EXCEPT ![c] = Idle]
    /\ UNCHANGED <<rec, guard, vma, zap, tk, poisoned, killed>>

-----------------------------------------------------------------------------
(* The program changes its mappings.                                       *)

(* vmctx_pgrec_erase_range: every guard of the range is cancelled and kept *)
(* until its owner consumes it; the record is erased.                      *)
EraseRange(p) ==
    /\ rec' = [rec EXCEPT ![p] = "NONE"]
    /\ tk' = [t \in Tickets |->
                 IF guard[p] = t THEN [tk[t] EXCEPT !.cancelled = TRUE] ELSE tk[t]]

(* A capture between its look and its outcome, a recall or landing on its  *)
(* way to pin, and a fault that is filling a page hold mmap_read_lock.     *)
ReadLocked ==
    \/ \E t \in Tickets : Live(t) /\ tk[t].step \in {"looked", "marked", "locked"}
    \/ \E c \in Contexts : flt[c] # Idle /\ flt[c].step = "filling"

(* munmap and its relatives, through vmctx_mn_range_start.                 *)
Unmap(p) ==
    /\ vma[p] # "none"
    /\ ~ReadLocked
    /\ EraseRange(p)
    /\ vma' = [vma EXCEPT ![p] = "none"]
    /\ mem' = [mem EXCEPT ![p] = FALSE]
    /\ zap' = [zap EXCEPT ![p] = FALSE]
    /\ UNCHANGED <<guard, flt, poisoned, killed>>

Map(p, class) ==
    /\ vma[p] = "none"
    /\ ~ReadLocked
    /\ vma' = [vma EXCEPT ![p] = class]
    /\ UNCHANGED <<rec, guard, mem, zap, tk, flt, poisoned, killed>>

(* MADV_DONTNEED notes the discard (vmctx_note_discard) and then zaps the  *)
(* page, under a lock that captures and faults share.                      *)
DiscardNote(p) ==
    /\ vma[p] # "none" /\ ~zap[p]
    /\ EraseRange(p)
    /\ zap' = [zap EXCEPT ![p] = TRUE]
    /\ UNCHANGED <<guard, vma, mem, flt, poisoned, killed>>

DiscardZap(p) ==
    /\ zap[p]
    /\ zap' = [zap EXCEPT ![p] = FALSE]
    /\ mem' = [mem EXCEPT ![p] = FALSE]
    /\ UNCHANGED <<rec, guard, vma, tk, flt, poisoned, killed>>

-----------------------------------------------------------------------------
TransferStep(t) ==
    \/ CaptureGuard(t) \/ CaptureLook(t) \/ CaptureMark(t) \/ CaptureTake(t)
    \/ TransferRead(t) \/ TransferAck(t) \/ TransferCancel(t) \/ TransferForget(t)

ReturnStep(t) ==
    RecallLook(t) \/ Pin(t) \/ RecallCommit(t) \/ RecallCancel(t) \/ LandCommit(t)

Monitor(th) ==
    \/ \E t \in Tickets, p \in Pages :
          \/ TransferBegin(th, t, p)
          \/ RecallBegin(th, t, p)
          \/ \E ifAbsent \in BOOLEAN : LandBegin(th, t, p, ifAbsent)
    \/ Abandon(th)
    \/ ThreadExit(th)

Context(c) ==
    \/ \E p \in Pages : FaultTaken(c, p) \/ FaultHome(c, p)
    \/ FaultClaim(c)
    \/ FaultRetry(c)
    \/ \E action \in {"DONE", "SELF", "KILL"} : FaultAnswer(c, action)
    \/ LocalFill(c)

Program(p) ==
    Unmap(p) \/ (\E class \in Classes : Map(p, class)) \/ DiscardNote(p) \/ DiscardZap(p)

Next ==
    \/ \E t \in Tickets : TransferStep(t) \/ ReturnStep(t)
    \/ \E th \in Threads : Monitor(th)
    \/ \E p \in Pages, st \in SetStates : PgSet(p, st)
    \/ \E c \in Contexts : Context(c)
    \/ \E p \in Pages : Program(p)

Spec == Init /\ [][Next]_vars

-----------------------------------------------------------------------------
(* Every variable has its type; in particular a capture only ever goes on  *)
(* from a page whose record says HOME or NONE, so that is all a refusal    *)
(* can put back.                                                           *)
TypeOK ==
    /\ rec \in [Pages -> States]
    /\ guard \in [Pages -> Tickets \cup {Free}]
    /\ vma \in [Pages -> Classes \cup {"none"}]
    /\ mem \in [Pages -> BOOLEAN]
    /\ zap \in [Pages -> BOOLEAN]
    /\ tk \in [Tickets -> Ticket \cup {NoTicket}]
    /\ flt \in [Contexts -> Fault \cup {Idle}]
    /\ poisoned \in BOOLEAN
    /\ killed \in BOOLEAN

(* The tickets that only make sense while they hold their page's guard.    *)
MustHold(r) ==
    \/ r.kind \in {"recall", "land"}
    \/ r.cancelled
    \/ r.step \in {"guarded", "looked", "marked", "locked", "pinned"}
    \/ r.step = "captured" /\ r.result \in Granting

(* vmctx_page_guard_acquire and its releases: a ticket that believes it    *)
(* holds its page's guard is the one s->recalls names, whoever else asked  *)
(* for the page; a recall or a landing holds it from birth to death; and   *)
(* s->recalls never names a ticket that was freed.                         *)
GuardLink ==
    /\ \A p \in Pages : guard[p] # Free =>
          Live(guard[p]) /\ tk[guard[p]].page = p /\ tk[guard[p]].held
    /\ \A t \in Tickets : Live(t) =>
          /\ tk[t].held => guard[tk[t].page] = t
          /\ MustHold(tk[t]) => tk[t].held
          /\ tk[t].step = "settled" => ~tk[t].held

(* Custody: from its mark until its ACK or its invalidation, the record of *)
(* a page in a transfer says TRANSIT (CLAIM while a shared page is being   *)
(* copied), and while a recall is outstanding it says CLAIM.  No fault,    *)
(* landing, PGSET or other ticket moves the record under them.             *)
Custody ==
    \A t \in Tickets : Live(t) /\ ~tk[t].cancelled =>
        LET p == tk[t].page IN
        /\ Grants(t) => rec[p] = "TRANSIT"
        /\ tk[t].step = "marked" /\ vma[p] \in {"private", "file"} => rec[p] = "TRANSIT"
        /\ tk[t].step = "marked" /\ vma[p] = "shared" => rec[p] = "CLAIM"
        /\ tk[t].kind = "recall" => rec[p] = "CLAIM"

(* Whoever has the guard of a page decides its record: a step of anyone    *)
(* else leaves the record alone, or is an invalidation that erases it and  *)
(* tells the ticket so (vmctx_pgrec_erase_range sets cancelled).           *)
GuardedRecord ==
    [][\A p \in Pages, t \in Tickets :
          /\ guard[p] = t /\ guard'[p] = t
          /\ tk'[t].step = tk[t].step
          => rec'[p] = rec[p] \/ (rec'[p] = "NONE" /\ tk'[t].cancelled)]_vars

(* "An old reply must never acquire a newly mapped object at this VA": a   *)
(* recall, a landing or an ACK whose ticket was cancelled goes away        *)
(* without writing the record or mapping a page.                           *)
LateReply ==
    [][\A t \in Tickets :
          /\ Live(t) /\ tk[t].cancelled
          /\ tk[t].step \in {"begun", "pinned", "captured"}
          /\ tk'[t] # tk[t]
          => LET p == tk[t].page IN rec'[p] = rec[p] /\ mem'[p] = mem[p]]_vars

(* Lost custody is never silent: a grant that stands ends with an ACK that *)
(* makes the page REMOTE, or poisons the address space and kills the       *)
(* program; CANCEL and FORGET cannot make it disappear.                    *)
NoSilentLoss ==
    [][\A t \in Tickets :
          Grants(t) /\ ~tk[t].cancelled =>
              \/ tk'[t] # NoTicket /\ tk'[t].step = "captured"
              \/ tk'[t] # NoTicket /\ tk'[t].step = "settled"
                    /\ tk[t].offered /\ rec'[tk[t].page] = "REMOTE"
              \/ poisoned' /\ killed']_vars

(* Time, retries and other people's answers never confirm delivery: while  *)
(* a page is guarded, its record becomes REMOTE only by the ACK of a grant *)
(* that was read, or by giving back the loan a recall had displaced.       *)
DeliveryConfirmed ==
    [][\A p \in Pages :
          /\ guard[p] # Free
          /\ rec[p] # "REMOTE" /\ rec'[p] = "REMOTE"
          => LET t == guard[p] IN
             /\ ~tk[t].cancelled
             /\ \/ Grants(t) /\ tk[t].offered /\ rec[p] = "TRANSIT"
                \/ tk[t].kind = "recall" /\ rec[p] = "CLAIM"]_vars

-----------------------------------------------------------------------------
(* What the repository says of the record and TLC refutes.                 *)

=============================================================================
