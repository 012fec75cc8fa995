------------------------- MODULE PageCustodyProofs --------------------------
(***************************************************************************)
(* Proofs about PageCustody, for any sets of pages, threads, contexts and  *)
(* tickets.  TypeOK, GuardLink and Custody together are inductive: Custody *)
(* says what the record of a ticketed page is, GuardLink that nobody else  *)
(* can be writing it.                                                      *)
(***************************************************************************)
EXTENDS PageCustody, TLAPS

IInv == TypeOK /\ GuardLink /\ Custody

(* Steps that touch no ticket: they write a record only where no ticket    *)
(* has the page, and change a mapping only while nobody reads it.          *)
Outside ==
    /\ UNCHANGED <<guard, tk, poisoned, killed>>
    /\ \A p \in Pages : rec'[p] # rec[p] => guard[p] = Free
    /\ vma' = vma \/ ~ReadLocked

(* An unmap or a discard.                                                  *)
Erase(p) ==
    /\ EraseRange(p)
    /\ UNCHANGED <<guard, poisoned, killed>>
    /\ vma' = vma \/ ~ReadLocked

(* A step of a ticket, or of a thread on its tickets.                      *)
TicketStep ==
    \/ \E th \in Threads, t \in Tickets, p \in Pages :
          \/ TransferBegin(th, t, p) \/ RecallBegin(th, t, p)
          \/ \E ifAbsent \in BOOLEAN : LandBegin(th, t, p, ifAbsent)
    \/ \E th \in Threads : Abandon(th) \/ ThreadExit(th)
    \/ \E t \in Tickets :
          \/ CaptureGuard(t) \/ CaptureLook(t) \/ CaptureMark(t) \/ CaptureTake(t)
          \/ TransferRead(t) \/ TransferAck(t) \/ TransferCancel(t) \/ TransferForget(t)
          \/ RecallLook(t) \/ Pin(t) \/ RecallCommit(t) \/ RecallCancel(t) \/ LandCommit(t)

-----------------------------------------------------------------------------
(* Every step of Next is one of the three sorts.                           *)
LEMMA StepSorts ==
    ASSUME TypeOK, Next
    PROVE  Outside \/ (\E p \in Pages : Erase(p)) \/ TicketStep
<1>1. CASE \E t \in Tickets : TransferStep(t) \/ ReturnStep(t)
  BY <1>1 DEF TransferStep, ReturnStep, TicketStep
<1>2. CASE \E th \in Threads : Monitor(th)
  BY <1>2 DEF Monitor, TicketStep
<1>3. CASE \E p \in Pages, st \in SetStates : PgSet(p, st)
  BY <1>3 DEF PgSet, Outside, TypeOK
<1>4. CASE \E c \in Contexts : Context(c)
  <2> PICK c \in Contexts : Context(c)
    BY <1>4
  <2>1. CASE \E p \in Pages : FaultTaken(c, p) \/ FaultHome(c, p)
    BY <2>1 DEF FaultTaken, FaultHome, Outside
  <2>2. CASE FaultClaim(c)
    BY <2>2 DEF FaultClaim, Outside, TypeOK
  <2>3. CASE FaultRetry(c)
    BY <2>3 DEF FaultRetry, Outside
  <2>4. CASE \E action \in {"DONE", "SELF", "KILL"} : FaultAnswer(c, action)
    BY <2>4 DEF FaultAnswer, PgrecLand, Outside, TypeOK
  <2>5. CASE LocalFill(c)
    BY <2>5 DEF LocalFill, Outside
  <2> QED
    BY <2>1, <2>2, <2>3, <2>4, <2>5 DEF Context
<1>5. CASE \E p \in Pages : Program(p)
  <2> PICK p \in Pages : Program(p)
    BY <1>5
  <2>1. CASE Unmap(p) \/ DiscardNote(p)
    BY <2>1 DEF Unmap, DiscardNote, Erase
  <2>2. CASE (\E class \in Classes : Map(p, class)) \/ DiscardZap(p)
    BY <2>2 DEF Map, DiscardZap, Outside
  <2> QED
    BY <2>1, <2>2 DEF Program
<1> QED
  BY <1>1, <1>2, <1>3, <1>4, <1>5 DEF Next

(* The tickets and faults that steps make are well formed.                 *)
LEMMA NewTicketType ==
    ASSUME NEW k \in {"transfer", "recall", "land"}, NEW th \in Threads, NEW p \in Pages,
           NEW step \in {"begun", "settled", "locked"}, NEW held \in BOOLEAN
    PROVE  NewTicket(k, th, p, step, held) \in Ticket
BY DEF NewTicket, Ticket, Results

LEMMA TicketUpdates ==
    ASSUME NEW r \in Ticket, NEW result \in Results
    PROVE  /\ [r EXCEPT !.cancelled = TRUE] \in Ticket
           /\ [r EXCEPT !.offered = TRUE] \in Ticket
           /\ [r EXCEPT !.step = "captured", !.prior = "NONE", !.result = result] \in Ticket
<1>1. [r EXCEPT !.cancelled = TRUE] \in Ticket
  BY Zenon DEF Ticket
<1>2. [r EXCEPT !.offered = TRUE] \in Ticket
  BY Zenon DEF Ticket
<1>3. [r EXCEPT !.step = "captured", !.prior = "NONE", !.result = result] \in Ticket
  BY Zenon DEF Ticket
<1> QED
  BY <1>1, <1>2, <1>3

LEMMA NewFaultType ==
    ASSUME NEW p \in Pages, NEW step \in {"taken", "filling"}
    PROVE  [step |-> step, page |-> p, claimed |-> FALSE, prior |-> "NONE"] \in Fault
BY DEF Fault, States

LEMMA FaultUpdates ==
    ASSUME NEW f \in Fault, NEW step \in {"asked", "filling"},
           NEW claimed \in BOOLEAN, NEW prior \in States
    PROVE  [f EXCEPT !.step = step, !.claimed = claimed, !.prior = prior] \in Fault
BY ZenonT(30) DEF Fault

(* The types of every variable but the ones a step leaves alone.           *)
LEMMA NextTypeOK ==
    ASSUME TypeOK, GuardLink, Next
    PROVE  TypeOK'
<1> USE DEF TypeOK, States, Classes, Live
<1>t. \A t \in Tickets : Live(t) => tk[t] \in Ticket
  OBVIOUS
<1>1. ASSUME NEW t \in Tickets, CaptureGuard(t) PROVE TypeOK'
  BY <1>1, <1>t DEF CaptureGuard, Ticket, Results
<1>2. ASSUME NEW t \in Tickets, CaptureLook(t) PROVE TypeOK'
  BY <1>2, <1>t DEF CaptureLook, LookAnswer, Ticket, Results
<1>3. ASSUME NEW t \in Tickets, CaptureMark(t) PROVE TypeOK'
  BY <1>3, <1>t DEF CaptureMark, MarkPrivate, MarkShared, Ticket, Results
<1>4. ASSUME NEW t \in Tickets, CaptureTake(t) PROVE TypeOK'
  <2>1. ASSUME NEW mark \in States, NEW to \in States, NEW result \in Results,
               CaptureEnd(t, mark, to, result)
        PROVE  rec' \in [Pages -> States] /\ tk' \in [Tickets -> Ticket \cup {NoTicket}]
    <3> DEFINE end == IF tk[t].cancelled THEN "ERROR" ELSE result
    <3>1. end \in Results
      BY DEF Results
    <3>2. tk' = [tk EXCEPT ![t].step = "captured", ![t].prior = "NONE", ![t].result = end]
      BY <2>1 DEF CaptureEnd
    <3> HIDE DEF end
    <3>3. tk' \in [Tickets -> Ticket \cup {NoTicket}]
      BY <1>4, <1>t, <3>1, <3>2, TicketUpdates, Zenon DEF CaptureTake
    <3>4. rec' \in [Pages -> States]
      BY Zenon, <2>1 DEF CaptureEnd
    <3> QED
      BY <3>3, <3>4
  <2>2. tk[t].prior \in States
    BY <1>4, <1>t DEF CaptureTake, Ticket
  <2>3. mem' \in [Pages -> BOOLEAN] /\ killed' \in BOOLEAN
    BY <1>4, ZenonT(30) DEF CaptureTake, TakePrivate, TakeShared
  <2>4. rec' \in [Pages -> States] /\ tk' \in [Tickets -> Ticket \cup {NoTicket}]
    BY Zenon, <1>4, <2>1, <2>2 DEF CaptureTake, TakePrivate, TakeShared, Results
  <2> QED
    BY <1>4, <2>3, <2>4 DEF CaptureTake
<1>5. ASSUME NEW t \in Tickets, TransferRead(t) PROVE TypeOK'
  <2>1. [tk[t] EXCEPT !.offered = TRUE] \in Ticket
    BY Zenon, <1>5, <1>t DEF TransferRead, Ticket
  <2> QED
    BY <1>5, <2>1 DEF TransferRead
<1>6. ASSUME NEW t \in Tickets, TransferAck(t) PROVE TypeOK'
  BY <1>6, <1>t DEF TransferAck, Settle, NewTicket, Ticket, Results
<1>7. ASSUME NEW t \in Tickets, TransferCancel(t) PROVE TypeOK'
  BY <1>7, <1>t DEF TransferCancel, Settle, NewTicket, Ticket, Results
<1>8. ASSUME NEW t \in Tickets, TransferForget(t) PROVE TypeOK'
  BY <1>8, <1>t DEF TransferForget, Ticket, Results
<1>9. ASSUME NEW t \in Tickets, RecallLook(t) PROVE TypeOK'
  BY <1>9, <1>t DEF RecallLook, Ticket, Results
<1>10. ASSUME NEW t \in Tickets, Pin(t) PROVE TypeOK'
  BY <1>10, <1>t DEF Pin, Ticket, Results
<1>11. ASSUME NEW t \in Tickets, RecallCommit(t) PROVE TypeOK'
  BY <1>11, <1>t DEF RecallCommit, RecallUnlink, Ticket, Results
<1>12. ASSUME NEW t \in Tickets, RecallCancel(t) PROVE TypeOK'
  BY <1>12, <1>t DEF RecallCancel, RecallUnlink, Ticket, Results
<1>13. ASSUME NEW t \in Tickets, LandCommit(t) PROVE TypeOK'
  BY <1>13, <1>t DEF LandCommit, Ticket, Results
<1>14. ASSUME NEW th \in Threads, NEW t \in Tickets, NEW p \in Pages,
              \/ TransferBegin(th, t, p) \/ RecallBegin(th, t, p)
              \/ \E ifAbsent \in BOOLEAN : LandBegin(th, t, p, ifAbsent)
       PROVE  TypeOK'
  <2>1. CASE TransferBegin(th, t, p)
    BY Zenon, <2>1, NewTicketType DEF TransferBegin
  <2>2. CASE RecallBegin(th, t, p)
    BY Zenon, <2>2, NewTicketType DEF RecallBegin
  <2>3. CASE \E ifAbsent \in BOOLEAN : LandBegin(th, t, p, ifAbsent)
    <3>1. NewTicket("land", th, p, "locked", TRUE) \in Ticket
      BY Zenon, NewTicketType
    <3> QED
      BY <2>3, <3>1, ZenonT(30) DEF LandBegin
  <2> QED
    BY <1>14, <2>1, <2>2, <2>3
<1>15. ASSUME NEW th \in Threads, Abandon(th) \/ ThreadExit(th) PROVE TypeOK'
  BY <1>15, ZenonT(30) DEF Abandon, ThreadExit
<1>16. ASSUME NEW p \in Pages, NEW st \in SetStates, PgSet(p, st) PROVE TypeOK'
  BY <1>16, SetAssumption DEF PgSet
<1>f. \A c \in Contexts : flt[c] # Idle => flt[c] \in Fault
  OBVIOUS
<1>17. ASSUME NEW c \in Contexts, Context(c) PROVE TypeOK'
  <2>1. CASE \E p \in Pages : FaultTaken(c, p) \/ FaultHome(c, p)
    BY Zenon, <2>1, NewFaultType DEF FaultTaken, FaultHome
  <2>2. CASE FaultClaim(c)
    <3> DEFINE busy == guard[flt[c].page] # Free \/ rec[flt[c].page] \in InFlight
               was  == IF guard[flt[c].page] # Free THEN "CLAIM" ELSE rec[flt[c].page]
    <3>1. flt[c] \in Fault /\ flt[c].page \in Pages
      BY <1>f, <2>2 DEF FaultClaim, Fault
    <3>b. (~busy) \in BOOLEAN
      BY Zenon
    <3>2. was \in States
      BY <3>1
    <3>3. [flt[c] EXCEPT !.step = "asked", !.claimed = ~busy, !.prior = was] \in Fault
      BY <3>1, <3>2, <3>b, FaultUpdates, Zenon
    <3>4. rec' \in [Pages -> States]
      BY Zenon, <2>2 DEF FaultClaim
    <3> QED
      BY <2>2, <3>3, <3>4 DEF FaultClaim
  <2>3. CASE FaultRetry(c)
    BY <2>3 DEF FaultRetry
  <2>4. CASE \E action \in {"DONE", "SELF", "KILL"} : FaultAnswer(c, action)
    BY <1>f, <2>4 DEF FaultAnswer, PgrecLand, Fault
  <2>5. CASE LocalFill(c)
    BY <2>5, ZenonT(30) DEF LocalFill
  <2> QED
    BY <1>17, <2>1, <2>2, <2>3, <2>4, <2>5 DEF Context
<1>18. ASSUME NEW p \in Pages, EraseRange(p)
       PROVE  rec' \in [Pages -> States] /\ tk' \in [Tickets -> Ticket \cup {NoTicket}]
  <2>1. ASSUME NEW t \in Tickets PROVE tk'[t] \in Ticket \cup {NoTicket}
    <3>1. guard[p] = t => tk[t] \in Ticket
      BY FreeAssumption DEF GuardLink
    <3> QED
      BY <1>18, <3>1, TicketUpdates, Zenon DEF EraseRange, Results
  <2> QED
    BY <1>18, <2>1, ZenonT(30) DEF EraseRange
<1>19. ASSUME NEW p \in Pages, Program(p) PROVE TypeOK'
  BY <1>18, <1>19, ZenonT(30) DEF Program, Unmap, Map, DiscardNote, DiscardZap
<1> QED
  BY Zenon, <1>1, <1>2, <1>3, <1>4, <1>5, <1>6, <1>7, <1>8, <1>9, <1>10, <1>11, <1>12,
     <1>13, <1>14, <1>15, <1>16, <1>17, <1>19
     DEF Next, TransferStep, ReturnStep, Monitor

(* Three ways a step can treat the guard of the one ticket it changes.     *)
LEMMA KeepGuard ==
    ASSUME TypeOK, GuardLink, NEW t \in Tickets, Live(t), NEW r \in Ticket,
           tk' = [tk EXCEPT ![t] = r], guard' = guard,
           r.page = tk[t].page, r.held = tk[t].held,
           MustHold(r) => r.held, r.step = "settled" => ~r.held
    PROVE  GuardLink'
BY DEF TypeOK, GuardLink, Live, NoTicket, Ticket

LEMMA DropGuard ==
    ASSUME TypeOK, GuardLink, NEW t \in Tickets, Live(t), NEW r,
           tk' = [tk EXCEPT ![t] = r],
           guard' = [guard EXCEPT ![tk[t].page] = IF tk[t].held THEN Free ELSE @],
           r = NoTicket \/ (r \in Ticket /\ ~r.held /\ ~MustHold(r))
    PROVE  GuardLink'
<1>1. tk[t] \in Ticket
  BY DEF TypeOK, Live
<1>2. ASSUME NEW p \in Pages, guard'[p] # Free
      PROVE  guard'[p] = guard[p] /\ guard[p] # t
  BY <1>1, <1>2, FreeAssumption DEF TypeOK, GuardLink, Ticket
<1>3. ASSUME NEW p \in Pages, guard'[p] # Free
      PROVE  (Live(guard[p]) /\ tk[guard[p]].page = p /\ tk[guard[p]].held)'
  <2>1. guard[p] \in Tickets /\ guard[p] # Free /\ guard'[p] = guard[p] /\ guard[p] # t
    BY <1>2, <1>3, FreeAssumption DEF TypeOK
  <2>2. Live(guard[p]) /\ tk[guard[p]].page = p /\ tk[guard[p]].held
    BY <2>1 DEF GuardLink
  <2>3. tk'[guard'[p]] = tk[guard[p]]
    BY <2>1 DEF TypeOK
  <2> QED
    BY <2>2, <2>3 DEF Live
<1>4. ASSUME NEW u \in Tickets, Live(u)'
      PROVE  (/\ tk[u].held => guard[tk[u].page] = u
              /\ MustHold(tk[u]) => tk[u].held
              /\ tk[u].step = "settled" => ~tk[u].held)'
  <2>1. CASE u = t
    BY <1>4, <2>1 DEF TypeOK, Live
  <2>2. CASE u # t
    BY <1>1, <1>4, <2>2 DEF TypeOK, GuardLink, Live, Ticket
  <2> QED
    BY <2>1, <2>2
<1> QED
  BY <1>3, <1>4 DEF GuardLink

LEMMA TakeGuard ==
    ASSUME TypeOK, GuardLink, NEW t \in Tickets, NEW p \in Pages, NEW r \in Ticket,
           tk' = [tk EXCEPT ![t] = r], guard' = [guard EXCEPT ![p] = t],
           guard[p] = Free, Live(t) => ~tk[t].held,
           r.page = p, r.held, r.step # "settled"
    PROVE  GuardLink'
BY FreeAssumption DEF TypeOK, GuardLink, Live, NoTicket, Ticket

(* A ticket step keeps s->recalls and the tickets in agreement.            *)
LEMMA NextGuardLink ==
    ASSUME TypeOK, GuardLink, Next
    PROVE  GuardLink'
<1>t. \A t \in Tickets : Live(t) => tk[t] \in Ticket
  BY DEF TypeOK, Live
<1>o. CASE Outside
  BY <1>o DEF Outside, GuardLink, Live
<1>e. ASSUME NEW p \in Pages, Erase(p) PROVE GuardLink'
  <2>1. CASE guard[p] = Free
    BY <1>e, <2>1, FreeAssumption DEF Erase, EraseRange, TypeOK, GuardLink, Live
  <2>2. CASE guard[p] # Free
    <3> DEFINE t == guard[p]
               r == [tk[t] EXCEPT !.cancelled = TRUE]
    <3>1. t \in Tickets /\ Live(t) /\ tk[t] \in Ticket /\ tk[t].held
      BY <2>2, <1>t DEF TypeOK, GuardLink
    <3>2. tk' = [tk EXCEPT ![t] = r]
      BY Zenon, <1>e, <3>1 DEF Erase, EraseRange, TypeOK
    <3>3. r \in Ticket /\ r.page = tk[t].page /\ r.held = tk[t].held /\ r.step = tk[t].step
      BY Zenon, <3>1 DEF Ticket
    <3>4. guard' = guard /\ (r.step = "settled" => ~r.held)
      BY <1>e, <3>1, <3>3 DEF Erase, GuardLink
    <3> HIDE DEF r
    <3> QED
      BY Zenon, <3>1, <3>2, <3>3, <3>4, KeepGuard
  <2> QED
    BY <2>1, <2>2
<1>1. ASSUME NEW t \in Tickets, CaptureGuard(t) PROVE GuardLink'
  <2> DEFINE p == tk[t].page
  <2>1. tk[t] \in Ticket /\ Live(t) /\ p \in Pages
    BY <1>1, <1>t DEF CaptureGuard, Ticket
  <2>2. CASE guard[p] # Free \/ rec[p] \in InFlight
    BY <1>1, <2>1, <2>2 DEF CaptureGuard, TypeOK, GuardLink, Live, MustHold, Granting, Ticket, NoTicket
  <2>3. CASE ~(guard[p] # Free \/ rec[p] \in InFlight)
    <3> DEFINE r == [tk[t] EXCEPT !.step = "guarded", !.held = TRUE]
    <3>1. r \in Ticket /\ r.page = p /\ r.held /\ r.step # "settled"
      BY Zenon, <2>1 DEF Ticket
    <3>2. tk' = [tk EXCEPT ![t] = r] /\ guard' = [guard EXCEPT ![p] = t]
      BY Zenon, <1>1, <2>1, <2>3 DEF CaptureGuard, TypeOK
    <3>3. guard[p] = Free /\ ~tk[t].held
      BY <2>1, <2>3, FreeAssumption DEF GuardLink
    <3> HIDE DEF r
    <3> QED
      BY Zenon, <2>1, <3>1, <3>2, <3>3, TakeGuard
  <2> QED
    BY <2>2, <2>3
<1>2. ASSUME NEW t \in Tickets, CaptureLook(t) PROVE GuardLink'
  BY <1>2, <1>t DEF CaptureLook, TypeOK, GuardLink, Live, MustHold, Granting, Ticket, NoTicket, LookAnswer
<1>3. ASSUME NEW t \in Tickets, CaptureMark(t) PROVE GuardLink'
  BY <1>3, <1>t DEF CaptureMark, MarkPrivate, MarkShared, TypeOK, GuardLink, Live, MustHold, Granting, Ticket, NoTicket
<1>4. ASSUME NEW t \in Tickets, CaptureTake(t) PROVE GuardLink'
  <2>1. tk[t] \in Ticket /\ Live(t) /\ tk[t].held
    BY <1>4, <1>t DEF CaptureTake, GuardLink, MustHold
  <2>2. ASSUME NEW mark, NEW to, NEW result \in Results, CaptureEnd(t, mark, to, result)
        PROVE  GuardLink'
    <3> DEFINE end == IF tk[t].cancelled THEN "ERROR" ELSE result
               r == [tk[t] EXCEPT !.step = "captured", !.prior = "NONE", !.result = end]
    <3>1. end \in Results
      BY DEF Results
    <3>2. tk' = [tk EXCEPT ![t] = r]
      BY <2>1, <2>2, ZenonT(30) DEF CaptureEnd, TypeOK
    <3> HIDE DEF end
    <3>3. r \in Ticket
      BY <2>1, <3>1, TicketUpdates, Zenon
    <3>4. r.page = tk[t].page /\ r.held = tk[t].held /\ r.step = "captured"
      BY <2>1, ZenonT(30) DEF Ticket
    <3>5. guard' = guard
      BY <1>4 DEF CaptureTake
    <3> HIDE DEF r
    <3> QED
      BY Zenon, <2>1, <3>2, <3>3, <3>4, <3>5, KeepGuard
  <2> QED
    BY <1>4, <2>2 DEF CaptureTake, TakePrivate, TakeShared, Results
<1>5. ASSUME NEW t \in Tickets, TransferRead(t) PROVE GuardLink'
  BY <1>5, <1>t DEF TransferRead, TypeOK, GuardLink, Live, MustHold, Granting, Ticket, NoTicket
<1>6. ASSUME NEW t \in Tickets, Live(t), Settle(t) PROVE GuardLink'
  <2> DEFINE r == NewTicket("transfer", tk[t].owner, tk[t].page, "settled", FALSE)
  <2>1. tk[t] \in Ticket /\ tk[t].owner \in Threads /\ tk[t].page \in Pages
    BY <1>6, <1>t DEF Ticket
  <2>2. r \in Ticket
    BY Zenon, <2>1, NewTicketType
  <2>3. ~r.held /\ ~MustHold(r)
    BY DEF NewTicket, MustHold
  <2>4. tk' = [tk EXCEPT ![t] = r]
    BY <1>6 DEF Settle
  <2>5. guard' = [guard EXCEPT ![tk[t].page] = IF tk[t].held THEN Free ELSE @]
    BY <1>6 DEF Settle
  <2> HIDE DEF r
  <2> QED
    BY Zenon, <1>6, <2>2, <2>3, <2>4, <2>5, DropGuard
<1>7. ASSUME NEW t \in Tickets, TransferForget(t) PROVE GuardLink'
  <2>1. Live(t) /\ tk[t] \in Ticket /\ ~tk[t].held
    BY <1>7, <1>t DEF TransferForget, GuardLink
  <2>2. guard' = [guard EXCEPT ![tk[t].page] = IF tk[t].held THEN Free ELSE @]
    BY <1>7, <2>1 DEF TransferForget, TypeOK
  <2> QED
    BY <1>7, <2>1, <2>2, DropGuard, ZenonT(30) DEF TransferForget
<1>8. ASSUME NEW t \in Tickets, RecallLook(t) \/ Pin(t) PROVE GuardLink'
  BY <1>8, <1>t DEF RecallLook, Pin, TypeOK, GuardLink, Live, MustHold, Granting, Ticket, NoTicket
<1>9. ASSUME NEW t \in Tickets, RecallCommit(t) \/ RecallCancel(t) \/ LandCommit(t)
      PROVE  GuardLink'
  <2>1. Live(t) /\ tk[t] \in Ticket /\ tk[t].held
    BY <1>9, <1>t DEF RecallCommit, RecallCancel, LandCommit, GuardLink, MustHold
  <2>2. tk' = [tk EXCEPT ![t] = NoTicket] /\ guard' = [guard EXCEPT ![tk[t].page] = Free]
    BY <1>9 DEF RecallCommit, RecallCancel, LandCommit, RecallUnlink
  <2> QED
    BY <2>1, <2>2, DropGuard, ZenonT(30)
<1>10. ASSUME NEW th \in Threads, NEW t \in Tickets, NEW p \in Pages, TransferBegin(th, t, p)
       PROVE  GuardLink'
  <2>1. ~Live(t) /\ guard' = guard
    BY <1>10 DEF TransferBegin
  <2>2. tk' = [tk EXCEPT ![t] = NewTicket("transfer", th, p, "begun", FALSE)]
    BY <1>10 DEF TransferBegin
  <2> QED
    BY <2>1, <2>2 DEF TypeOK, GuardLink, Live, MustHold, Granting, NewTicket, NoTicket
<1>11. ASSUME NEW th \in Threads, NEW t \in Tickets, NEW p \in Pages,
              \/ RecallBegin(th, t, p)
              \/ \E ifAbsent \in BOOLEAN : LandBegin(th, t, p, ifAbsent)
       PROVE  GuardLink'
  <2>1. ASSUME NEW k \in {"recall", "land"}, NEW step \in {"begun", "locked"},
               tk' = [tk EXCEPT ![t] = NewTicket(k, th, p, step, TRUE)],
               guard' = [guard EXCEPT ![p] = t], guard[p] = Free, ~Live(t)
        PROVE  GuardLink'
    <3> DEFINE r == NewTicket(k, th, p, step, TRUE)
    <3>1. r \in Ticket
      BY NewTicketType, ZenonT(30)
    <3>2. r.page = p /\ r.held /\ r.step # "settled"
      BY DEF NewTicket
    <3> HIDE DEF r
    <3> QED
      BY <2>1, <3>1, <3>2, TakeGuard, ZenonT(30) DEF r
  <2> QED
    BY Zenon, <1>11, <2>1 DEF RecallBegin, LandBegin
<1>12. ASSUME NEW gone \in SUBSET Tickets,
              tk' = [t \in Tickets |-> IF t \in gone THEN NoTicket ELSE tk[t]],
              guard' = [p \in Pages |-> IF guard[p] \in gone THEN Free ELSE guard[p]]
       PROVE  GuardLink'
  <2>1. ASSUME NEW p \in Pages, guard'[p] # Free
        PROVE  (Live(guard[p]) /\ tk[guard[p]].page = p /\ tk[guard[p]].held)'
    <3>1. guard'[p] = guard[p] /\ guard[p] \notin gone /\ guard[p] \in Tickets
      BY <1>12, <2>1 DEF TypeOK
    <3>2. tk'[guard[p]] = tk[guard[p]]
      BY <1>12, <3>1
    <3> QED
      BY <2>1, <3>1, <3>2 DEF GuardLink, Live
  <2>2. ASSUME NEW t \in Tickets, Live(t)'
        PROVE  (/\ tk[t].held => guard[tk[t].page] = t
                /\ MustHold(tk[t]) => tk[t].held
                /\ tk[t].step = "settled" => ~tk[t].held)'
    <3>1. t \notin gone /\ tk'[t] = tk[t] /\ Live(t)
      BY <1>12, <2>2 DEF Live
    <3>2. tk[t].page \in Pages
      BY <1>t, <3>1 DEF Ticket
    <3> QED
      BY <1>12, <3>1, <3>2 DEF GuardLink
  <2> QED
    BY <2>1, <2>2 DEF GuardLink
<1>13. ASSUME NEW th \in Threads, Abandon(th) \/ ThreadExit(th) PROVE GuardLink'
  <2>1. CASE Abandon(th)
    <3>1. Owned(th, "transfer") \in SUBSET Tickets
      BY DEF Owned
    <3> QED
      BY <2>1, <3>1, <1>12 DEF Abandon
  <2>2. CASE ThreadExit(th)
    <3>1. Owned(th, "transfer") \cup Owned(th, "recall") \in SUBSET Tickets
      BY DEF Owned
    <3> QED
      BY <2>2, <3>1, <1>12, ZenonT(30) DEF ThreadExit
  <2> QED
    BY <1>13, <2>1, <2>2
<1>14. CASE TicketStep
  <2>1. CASE \E th \in Threads, t \in Tickets, p \in Pages :
               \/ TransferBegin(th, t, p) \/ RecallBegin(th, t, p)
               \/ \E ifAbsent \in BOOLEAN : LandBegin(th, t, p, ifAbsent)
    BY <1>10, <1>11, <2>1
  <2>2. CASE \E th \in Threads : Abandon(th) \/ ThreadExit(th)
    BY <1>13, <2>2
  <2>3. ASSUME NEW t \in Tickets, TransferAck(t) \/ TransferCancel(t)
        PROVE  GuardLink'
    BY <1>6, <2>3 DEF TransferAck, TransferCancel
  <2>4. CASE \E t \in Tickets :
               \/ CaptureGuard(t) \/ CaptureLook(t) \/ CaptureMark(t) \/ CaptureTake(t)
               \/ TransferRead(t) \/ TransferAck(t) \/ TransferCancel(t) \/ TransferForget(t)
               \/ RecallLook(t) \/ Pin(t) \/ RecallCommit(t) \/ RecallCancel(t) \/ LandCommit(t)
    BY <1>1, <1>2, <1>3, <1>4, <1>5, <1>7, <1>8, <1>9, <2>3, <2>4
  <2> QED
    BY <1>14, <2>1, <2>2, <2>4 DEF TicketStep
<1> QED
  BY <1>o, <1>e, <1>14, StepSorts

-----------------------------------------------------------------------------
(* What Custody says of one ticket.                                        *)
CustodyOf(t) ==
    Live(t) /\ ~tk[t].cancelled =>
        LET p == tk[t].page IN
        /\ Grants(t) => rec[p] = "TRANSIT"
        /\ tk[t].step = "marked" /\ vma[p] \in {"private", "file"} => rec[p] = "TRANSIT"
        /\ tk[t].step = "marked" /\ vma[p] = "shared" => rec[p] = "CLAIM"
        /\ tk[t].kind = "recall" => rec[p] = "CLAIM"

(* A step that leaves a ticket alone, and the record of its page unless    *)
(* the ticket has no guard, leaves it in custody.                          *)
LEMMA OthersCustody ==
    ASSUME TypeOK, GuardLink, Custody, NEW t \in Tickets,
           tk'[t] = tk[t],
           Live(t) => ~tk[t].held \/ rec'[tk[t].page] = rec[tk[t].page],
           vma' = vma \/ (Live(t) => tk[t].step # "marked")
    PROVE  CustodyOf(t)'
<1> SUFFICES ASSUME Live(t), ~tk[t].cancelled
             PROVE  CustodyOf(t)'
  BY DEF CustodyOf, Live
<1>1. Grants(t)' <=> Grants(t)
  BY DEF Grants, Live
<1>2. CASE ~tk[t].held
  <2>1. ~MustHold(tk[t])
    BY <1>2 DEF GuardLink
  <2> QED
    BY <1>1, <2>1 DEF MustHold, CustodyOf, Grants
<1>3. CASE rec'[tk[t].page] = rec[tk[t].page]
  BY Zenon, <1>1, <1>3 DEF Custody, CustodyOf
<1> QED
  BY <1>2, <1>3

(* A step of one ticket that writes records only where that ticket, or     *)
(* nobody, has the guard leaves every other ticket in custody.             *)
LEMMA StepCustody ==
    ASSUME TypeOK, GuardLink, Custody, NEW u \in Tickets, NEW r,
           tk' = [tk EXCEPT ![u] = r], vma' = vma,
           \A q \in Pages : rec'[q] # rec[q] => guard[q] \in {u, Free},
           CustodyOf(u)'
    PROVE  Custody'
<1>1. ASSUME NEW t \in Tickets, t # u PROVE CustodyOf(t)'
  <2>1. tk'[t] = tk[t]
    BY <1>1 DEF TypeOK
  <2>2. ASSUME Live(t), tk[t].held PROVE rec'[tk[t].page] = rec[tk[t].page]
    <3>1. tk[t].page \in Pages /\ guard[tk[t].page] = t
      BY <2>2 DEF TypeOK, Live, Ticket, GuardLink
    <3> QED
      BY <1>1, <3>1, FreeAssumption
  <2> QED
    BY Zenon, <2>1, <2>2, OthersCustody
<1> QED
  BY Zenon, <1>1 DEF Custody, CustodyOf

LEMMA NextCustody ==
    ASSUME TypeOK, GuardLink, Custody, Next
    PROVE  Custody'
<1>t. \A t \in Tickets : Live(t) => tk[t] \in Ticket /\ tk[t].page \in Pages
  BY DEF TypeOK, Live, Ticket
<1>g. ASSUME NEW t \in Tickets, Live(t), MustHold(tk[t])
      PROVE  tk[t].held /\ guard[tk[t].page] = t
  BY <1>g DEF GuardLink
<1>c. (\A t \in Tickets : CustodyOf(t)') => Custody'
  BY Zenon DEF Custody, CustodyOf
<1>m. ASSUME ~ReadLocked, NEW t \in Tickets, Live(t) PROVE tk[t].step # "marked"
  BY <1>m DEF ReadLocked
<1>o. CASE Outside
  <2>1. ASSUME NEW t \in Tickets PROVE CustodyOf(t)'
    <3>1. Live(t) => ~tk[t].held \/ rec'[tk[t].page] = rec[tk[t].page]
      BY <1>o, <1>t, FreeAssumption DEF Outside, GuardLink
    <3> QED
      BY <1>o, <1>m, <3>1, OthersCustody DEF Outside
  <2> QED
    BY <2>1, <1>c
<1>e. ASSUME NEW p \in Pages, Erase(p) PROVE Custody'
  <2>1. ASSUME NEW t \in Tickets PROVE CustodyOf(t)'
    <3>1. CASE guard[p] = t
      <4>1. tk[t] \in Ticket
        BY <3>1, <1>t, FreeAssumption DEF GuardLink
      <4>2. tk'[t].cancelled
        BY <1>e, <3>1, <4>1 DEF Erase, EraseRange, Ticket
      <4> QED
        BY <4>2 DEF CustodyOf
    <3>2. CASE guard[p] # t
      <4>1. tk'[t] = tk[t]
        BY <1>e, <3>2 DEF Erase, EraseRange
      <4>2. Live(t) => ~tk[t].held \/ rec'[tk[t].page] = rec[tk[t].page]
        BY <1>e, <1>t, <3>2 DEF Erase, EraseRange, TypeOK, GuardLink
      <4> QED
        BY <1>e, <1>m, <4>1, <4>2, OthersCustody DEF Erase
    <3> QED
      BY <3>1, <3>2
  <2> QED
    BY <2>1, <1>c
<1>1. ASSUME NEW t \in Tickets, CaptureGuard(t) PROVE Custody'
  <2>1. CustodyOf(t)'
    BY <1>1, <1>t DEF CaptureGuard, TypeOK, CustodyOf, Grants, Granting, Live, Ticket
  <2>2. PICK r : tk' = [tk EXCEPT ![t] = r]
    BY <1>1 DEF CaptureGuard, TypeOK
  <2> QED
    BY Zenon, <1>1, <2>1, <2>2, StepCustody DEF CaptureGuard
<1>2. ASSUME NEW t \in Tickets, CaptureLook(t) PROVE Custody'
  <2>1. CustodyOf(t)'
    BY <1>2, <1>t DEF CaptureLook, LookAnswer, TypeOK, CustodyOf, Grants, Granting, Live, Ticket
  <2>2. PICK r : tk' = [tk EXCEPT ![t] = r]
    BY <1>2 DEF CaptureLook, TypeOK
  <2> QED
    BY <1>2, <2>1, <2>2, StepCustody, ZenonT(30) DEF CaptureLook
<1>3. ASSUME NEW t \in Tickets, CaptureMark(t) PROVE Custody'
  <2>k. tk[t].kind = "transfer" /\ guard[tk[t].page] = t
    BY <1>3, <1>g DEF CaptureMark, MustHold
  <2>1. CustodyOf(t)'
    BY <1>3, <1>t DEF CaptureMark, MarkPrivate, MarkShared, TypeOK, CustodyOf, Grants, Granting,
                      Live, Ticket
  <2>2. PICK r : tk' = [tk EXCEPT ![t] = r]
    BY <1>3 DEF CaptureMark, MarkPrivate, MarkShared, TypeOK
  <2>3. \A q \in Pages : rec'[q] # rec[q] => q = tk[t].page
    BY <1>3, <1>t DEF CaptureMark, MarkPrivate, MarkShared, TypeOK
  <2> QED
    BY <1>3, <2>k, <2>1, <2>2, <2>3, StepCustody, ZenonT(30) DEF CaptureMark
<1>4. ASSUME NEW t \in Tickets, CaptureTake(t) PROVE Custody'
  <2>k. Live(t) /\ tk[t] \in Ticket /\ tk[t].page \in Pages /\ guard[tk[t].page] = t
    BY <1>4, <1>t, <1>g DEF CaptureTake, MustHold
  <2>e. ASSUME NEW mark, NEW to, NEW result, CaptureEnd(t, mark, to, result),
               result \in Granting => to = "TRANSIT" /\ (~tk[t].cancelled => rec[tk[t].page] = mark)
        PROVE  CustodyOf(t)'
    <3>1. tk'[t] = [tk[t] EXCEPT !.step = "captured", !.prior = "NONE",
                                 !.result = IF tk[t].cancelled THEN "ERROR" ELSE result]
      BY <2>e DEF CaptureEnd, TypeOK
    <3>2. /\ tk'[t].kind = "transfer" /\ tk'[t].step = "captured"
          /\ tk'[t].page = tk[t].page /\ tk'[t].cancelled = tk[t].cancelled
          /\ ~tk[t].cancelled => tk'[t].result = result
      BY <1>4, <2>k, <3>1 DEF CaptureTake, Ticket
    <3>3. rec'[tk[t].page] = IF rec[tk[t].page] = mark THEN to ELSE rec[tk[t].page]
      BY <2>e, <2>k DEF CaptureEnd, TypeOK
    <3> QED
      BY Zenon, <2>e, <3>2, <3>3 DEF CustodyOf, Grants
  <2>c. ~tk[t].cancelled =>
          /\ vma[tk[t].page] \in {"private", "file"} => rec[tk[t].page] = "TRANSIT"
          /\ vma[tk[t].page] = "shared" => rec[tk[t].page] = "CLAIM"
    BY <1>4, <2>k DEF CaptureTake, Custody
  <2>1. CustodyOf(t)'
    <3>1. CASE TakePrivate(t)
      BY Zenon, <2>e, <2>c, <3>1 DEF TakePrivate, Granting
    <3>2. CASE TakeShared(t)
      BY Zenon, <2>e, <2>c, <3>2 DEF TakeShared, Granting
    <3> QED
      BY <1>4, <3>1, <3>2, SMTT(30) DEF CaptureTake
  <2>2. PICK r : tk' = [tk EXCEPT ![t] = r]
    BY <1>4, SMTT(30) DEF CaptureTake, TakePrivate, TakeShared, CaptureEnd, TypeOK
  <2>3. \A q \in Pages : rec'[q] # rec[q] => q = tk[t].page
    BY Zenon, <1>4, <2>k DEF CaptureTake, TakePrivate, TakeShared, CaptureEnd, TypeOK
  <2> QED
    BY <1>4, <2>k, <2>1, <2>2, <2>3, StepCustody, ZenonT(30) DEF CaptureTake
<1>5. ASSUME NEW t \in Tickets, TransferRead(t) PROVE Custody'
  <2>1. CustodyOf(t)'
    BY <1>5, <1>t DEF TransferRead, TypeOK, Custody, CustodyOf, Grants, Granting, Live, Ticket
  <2>2. PICK r : tk' = [tk EXCEPT ![t] = r]
    BY Zenon, <1>5 DEF TransferRead, TypeOK
  <2> QED
    BY Zenon, <1>5, <2>1, <2>2, StepCustody DEF TransferRead
<1>6. ASSUME NEW t \in Tickets, TransferAck(t) \/ TransferCancel(t) PROVE Custody'
  <2>1. tk' = [tk EXCEPT ![t] = NewTicket("transfer", tk[t].owner, tk[t].page, "settled", FALSE)]
    BY <1>6, ZenonT(30) DEF TransferAck, TransferCancel, Settle
  <2>2. CustodyOf(t)'
    BY <2>1 DEF TypeOK, CustodyOf, Grants, Live, NewTicket
  <2>3. ASSUME NEW q \in Pages, rec'[q] # rec[q] PROVE guard[q] = t
    <3>1. Grants(t) /\ q = tk[t].page
      BY Zenon, <1>6, <2>3 DEF TransferAck, TransferCancel, TypeOK
    <3> QED
      BY <3>1, <1>g DEF Grants, MustHold
  <2>4. vma' = vma
    BY <1>6 DEF TransferAck, TransferCancel
  <2> QED
    BY Zenon, <2>1, <2>2, <2>3, <2>4, StepCustody
<1>7. ASSUME NEW t \in Tickets, TransferForget(t) PROVE Custody'
  <2>1. CustodyOf(t)'
    BY <1>7 DEF TransferForget, TypeOK, CustodyOf, Live
  <2> QED
    BY <1>7, <2>1, StepCustody, ZenonT(30) DEF TransferForget
<1>8. ASSUME NEW t \in Tickets, RecallLook(t) \/ Pin(t) PROVE Custody'
  <2>1. CustodyOf(t)'
    BY <1>8, <1>t DEF RecallLook, Pin, TypeOK, Custody, CustodyOf, Grants, Granting, Live, Ticket
  <2>2. PICK r : tk' = [tk EXCEPT ![t] = r]
    BY <1>8 DEF RecallLook, Pin, TypeOK
  <2> QED
    BY <1>8, <2>1, <2>2, StepCustody, ZenonT(30) DEF RecallLook, Pin
<1>9. ASSUME NEW t \in Tickets, RecallCommit(t) \/ RecallCancel(t) \/ LandCommit(t)
      PROVE  Custody'
  <2>1. tk' = [tk EXCEPT ![t] = NoTicket] /\ vma' = vma
    BY Zenon, <1>9 DEF RecallCommit, RecallCancel, LandCommit, RecallUnlink
  <2>2. CustodyOf(t)'
    BY Zenon, <2>1 DEF TypeOK, CustodyOf, Live
  <2>3. guard[tk[t].page] = t
    BY <1>9, <1>g DEF RecallCommit, RecallCancel, LandCommit, MustHold
  <2>4. \A q \in Pages : rec'[q] # rec[q] => q = tk[t].page
    BY Zenon, <1>9 DEF RecallCommit, RecallCancel, LandCommit, RecallUnlink, TypeOK
  <2> QED
    BY <2>1, <2>2, <2>3, <2>4, StepCustody, ZenonT(30)
<1>10. ASSUME NEW th \in Threads, NEW t \in Tickets, NEW p \in Pages,
              \/ TransferBegin(th, t, p) \/ RecallBegin(th, t, p)
              \/ \E ifAbsent \in BOOLEAN : LandBegin(th, t, p, ifAbsent)
       PROVE  Custody'
  <2>1. CustodyOf(t)'
    <3>1. CASE RecallBegin(th, t, p)
      BY Zenon, <3>1 DEF RecallBegin, NewTicket, TypeOK, CustodyOf, Grants, Live
    <3>2. CASE TransferBegin(th, t, p)
      BY Zenon, <3>2 DEF TransferBegin, NewTicket, TypeOK, CustodyOf, Grants, Live
    <3>3. CASE \E ifAbsent \in BOOLEAN : LandBegin(th, t, p, ifAbsent)
      BY <3>3 DEF LandBegin, NewTicket, TypeOK, CustodyOf, Grants, Live
    <3> QED
      BY <1>10, <3>1, <3>2, <3>3
  <2>2. PICK r : tk' = [tk EXCEPT ![t] = r]
    BY <1>10, Zenon DEF TransferBegin, RecallBegin, LandBegin
  <2>3. \A q \in Pages : rec'[q] # rec[q] => guard[q] = Free
    BY <1>10, ZenonT(30) DEF TransferBegin, RecallBegin, LandBegin, TypeOK
  <2>4. vma' = vma
    BY <1>10, ZenonT(30) DEF TransferBegin, RecallBegin, LandBegin
  <2> QED
    BY Zenon, <2>1, <2>2, <2>3, <2>4, StepCustody
<1>11. ASSUME NEW gone \in SUBSET Tickets, vma' = vma,
              tk' = [t \in Tickets |-> IF t \in gone THEN NoTicket ELSE tk[t]],
              \A q \in Pages : rec'[q] # rec[q] => guard[q] \in gone
       PROVE  Custody'
  <2>1. ASSUME NEW t \in Tickets PROVE CustodyOf(t)'
    <3>1. CASE t \in gone
      BY Zenon, <1>11, <3>1 DEF CustodyOf, Live
    <3>2. CASE t \notin gone
      <4>1. tk'[t] = tk[t]
        BY Zenon, <1>11, <3>2
      <4>2. Live(t) => ~tk[t].held \/ rec'[tk[t].page] = rec[tk[t].page]
        BY <1>11, <1>t, <3>2 DEF GuardLink
      <4> QED
        BY Zenon, <1>11, <4>1, <4>2, OthersCustody
    <3> QED
      BY <3>1, <3>2
  <2> QED
    BY <2>1, <1>c
<1>12. ASSUME NEW th \in Threads, Abandon(th) \/ ThreadExit(th) PROVE Custody'
  <2> DEFINE gone == Owned(th, "transfer") \cup Owned(th, "recall")
  <2>o. gone \in SUBSET Tickets /\ Owned(th, "transfer") \in SUBSET Tickets
    BY DEF Owned
  <2>1. CASE Abandon(th)
    BY Zenon, <2>1, <2>o, <1>11 DEF Abandon
  <2>2. CASE ThreadExit(th)
    <3>1. \A q \in Pages : rec'[q] # rec[q] => guard[q] \in gone
      BY Zenon, <2>2 DEF ThreadExit
    <3>2. tk' = [t \in Tickets |-> IF t \in gone THEN NoTicket ELSE tk[t]] /\ vma' = vma
      BY Zenon, <2>2 DEF ThreadExit
    <3> HIDE DEF gone
    <3> QED
      BY <2>o, <3>1, <3>2, <1>11
  <2> QED
    BY <1>12, <2>1, <2>2
<1>13. CASE TicketStep
  BY <1>13, <1>1, <1>2, <1>3, <1>4, <1>5, <1>6, <1>7, <1>8, <1>9, <1>10, <1>12 DEF TicketStep
<1> QED
  BY <1>o, <1>e, <1>13, StepSorts

-----------------------------------------------------------------------------
LEMMA InitIInv == Init => IInv
<1> SUFFICES ASSUME Init PROVE IInv
  OBVIOUS
<1>1. TypeOK
  BY ZenonT(30) DEF Init, TypeOK, States
<1>2. GuardLink /\ Custody
  BY DEF Init, GuardLink, Custody, Live
<1> QED
  BY <1>1, <1>2 DEF IInv

LEMMA NextIInv == IInv /\ [Next]_vars => IInv'
<1> SUFFICES ASSUME IInv, [Next]_vars PROVE IInv'
  OBVIOUS
<1>1. CASE Next
  BY <1>1, NextTypeOK, NextGuardLink, NextCustody DEF IInv
<1>2. CASE UNCHANGED vars
  BY Zenon, <1>2 DEF IInv, TypeOK, GuardLink, Custody, Live, Grants, vars
<1> QED
  BY <1>1, <1>2

(* The page record is well formed, s->recalls agrees with the tickets and  *)
(* every page under a ticket is in that ticket's custody, whatever the     *)
(* monitor and the program do.                                             *)
THEOREM Invariance == Spec => []IInv
<1>1. Init => IInv
  BY InitIInv
<1>2. IInv /\ [Next]_vars => IInv'
  BY NextIInv
<1> QED
  BY <1>1, <1>2, PTL DEF Spec

(* vmctx_serve_capture proceeds only from HOME or NONE (part of the type   *)
(* of a ticket), and every variable keeps its type.                        *)
THEOREM TypeCorrect == Spec => []TypeOK
<1>1. IInv => TypeOK
  BY DEF IInv
<1> QED
  BY <1>1, Invariance, PTL

(* At most one ticket holds the guard of a page, and s->recalls names no   *)
(* ticket that was freed.                                                  *)
THEOREM GuardExclusive == Spec => []GuardLink
<1>1. IInv => GuardLink
  BY DEF IInv
<1> QED
  BY <1>1, Invariance, PTL

(* The record of a page between capture and ACK, or under a recall, is     *)
(* never moved by anything but that ticket or an invalidation.             *)
THEOREM CustodyKept == Spec => []Custody
<1>1. IInv => Custody
  BY DEF IInv
<1> QED
  BY <1>1, Invariance, PTL

-----------------------------------------------------------------------------
(* The steps that write the record of a guarded page.                      *)
LEMMA GuardedWriters ==
    ASSUME TypeOK, GuardLink, Next, NEW p \in Pages, guard[p] # Free, rec'[p] # rec[p]
    PROVE  LET t == guard[p] IN
           \/ Erase(p)
           \/ CaptureMark(t) \/ CaptureTake(t)
           \/ TransferAck(t) /\ Grants(t) /\ ~tk[t].cancelled
           \/ RecallCommit(t) \/ RecallCancel(t) \/ LandCommit(t)
           \/ \E th \in Threads : ThreadExit(th) /\ t \in Owned(th, "recall")
                                  /\ ~tk[t].cancelled /\ rec[p] = "CLAIM" /\ rec'[p] = "REMOTE"
<1> DEFINE t == guard[p]
<1>g. ASSUME NEW u \in Tickets, Live(u), MustHold(tk[u]), tk[u].page = p PROVE u = t
  BY Zenon, <1>g DEF GuardLink
<1>1. CASE Outside
  BY Zenon, <1>1 DEF Outside
<1>2. CASE \E q \in Pages : Erase(q)
  <2> PICK q \in Pages : Erase(q)
    BY Zenon, <1>2
  <2>1. q = p
    BY DEF Erase, EraseRange, TypeOK
  <2> QED
    BY Zenon, <2>1
<1>3. CASE TicketStep
  <2>1. ASSUME NEW th \in Threads, NEW u \in Tickets, NEW q \in Pages,
               \/ TransferBegin(th, u, q) \/ RecallBegin(th, u, q)
               \/ \E ifAbsent \in BOOLEAN : LandBegin(th, u, q, ifAbsent)
        PROVE  FALSE
    BY <2>1, ZenonT(30) DEF TransferBegin, RecallBegin, LandBegin, TypeOK
  <2>2. ASSUME NEW th \in Threads, Abandon(th) \/ ThreadExit(th)
        PROVE  ThreadExit(th) /\ t \in Owned(th, "recall")
                 /\ ~tk[t].cancelled /\ rec[p] = "CLAIM" /\ rec'[p] = "REMOTE"
    BY Zenon, <2>2 DEF Abandon, ThreadExit
  <2>3. ASSUME NEW u \in Tickets,
               \/ CaptureGuard(u) \/ CaptureLook(u) \/ TransferRead(u) \/ TransferCancel(u)
               \/ TransferForget(u) \/ RecallLook(u) \/ Pin(u)
        PROVE  FALSE
    BY Zenon, <2>3 DEF CaptureGuard, CaptureLook, TransferRead, TransferCancel, TransferForget,
                RecallLook, Pin
  <2>4. ASSUME NEW u \in Tickets, CaptureMark(u) \/ CaptureTake(u) PROVE u = t
    <3>1. tk[u].page = p
      BY <2>4, ZenonT(30) DEF CaptureMark, MarkPrivate, MarkShared, CaptureTake, TakePrivate, TakeShared,
                  CaptureEnd, TypeOK
    <3> QED
      BY <2>4, <3>1, <1>g, Zenon DEF CaptureMark, CaptureTake, MustHold
  <2>5. ASSUME NEW u \in Tickets, TransferAck(u)
        PROVE  u = t /\ Grants(t) /\ ~tk[t].cancelled
    <3>1. Grants(u) /\ ~tk[u].cancelled /\ tk[u].page = p
      BY <2>5, Zenon DEF TransferAck, TypeOK
    <3> QED
      BY Zenon, <3>1, <1>g DEF Grants, MustHold
  <2>6. ASSUME NEW u \in Tickets, RecallCommit(u) \/ RecallCancel(u) \/ LandCommit(u)
        PROVE  u = t
    <3>1. tk[u].page = p
      BY <2>6, Zenon DEF RecallCommit, RecallCancel, LandCommit, RecallUnlink, TypeOK
    <3> QED
      BY <2>6, <3>1, <1>g DEF RecallCommit, RecallCancel, LandCommit, MustHold
  <2> QED
    BY <1>3, <2>1, <2>2, <2>3, <2>4, <2>5, <2>6, Zenon DEF TicketStep
<1> QED
  BY <1>1, <1>2, <1>3, StepSorts, ZenonT(30)

(* The steps that change what is mapped leave every ticket alone, unless   *)
(* they are a capture, a pin or an unmap.                                  *)
LEMMA MemWriters ==
    ASSUME Next, mem' # mem
    PROVE  \/ tk' = tk
           \/ \E u \in Tickets : CaptureTake(u) \/ Pin(u)
           \/ \E p \in Pages : Erase(p)
<1>1. CASE \E t \in Tickets : TransferStep(t) \/ ReturnStep(t)
  BY <1>1 DEF TransferStep, ReturnStep, CaptureGuard, CaptureLook, CaptureMark, TransferRead,
              TransferAck, TransferCancel, TransferForget, RecallLook, RecallCommit,
              RecallCancel, LandCommit
<1>2. CASE \E th \in Threads : Monitor(th)
  BY <1>2, ZenonT(30) DEF Monitor, TransferBegin, RecallBegin, LandBegin, Abandon, ThreadExit
<1>3. CASE \E p \in Pages, st \in SetStates : PgSet(p, st)
  BY <1>3 DEF PgSet
<1>4. CASE \E c \in Contexts : Context(c)
  BY <1>4 DEF Context, FaultTaken, FaultHome, FaultClaim, FaultRetry, FaultAnswer, LocalFill
<1>5. CASE \E p \in Pages : Program(p)
  <2> PICK p \in Pages : Program(p)
    BY <1>5
  <2>1. CASE Unmap(p) \/ DiscardNote(p)
    BY <2>1 DEF Unmap, DiscardNote, Erase
  <2>2. CASE (\E class \in Classes : Map(p, class)) \/ DiscardZap(p)
    BY <2>2 DEF Map, DiscardZap
  <2> QED
    BY <2>1, <2>2 DEF Program
<1> QED
  BY <1>1, <1>2, <1>3, <1>4, <1>5 DEF Next

(* While a ticket keeps a page and does not itself move on, the page's     *)
(* record stands, or an invalidation erased it and cancelled the ticket.   *)
THEOREM RecordUnderGuard == Spec => GuardedRecord
<1> DEFINE Step == \A p \in Pages, t \in Tickets :
          /\ guard[p] = t /\ guard'[p] = t
          /\ tk'[t].step = tk[t].step
          => rec'[p] = rec[p] \/ (rec'[p] = "NONE" /\ tk'[t].cancelled)
<1>1. IInv /\ [Next]_vars => [Step]_vars
  <2> SUFFICES ASSUME IInv, Next, NEW p \in Pages, NEW t \in Tickets,
                      guard[p] = t, guard'[p] = t, tk'[t].step = tk[t].step, rec'[p] # rec[p]
               PROVE  rec'[p] = "NONE" /\ tk'[t].cancelled
    BY DEF vars
  <2> USE DEF IInv
  <2>1. Live(t) /\ tk[t] \in Ticket /\ tk[t].page = p /\ tk[t].held /\ guard[p] # Free
    BY FreeAssumption DEF TypeOK, GuardLink, Live
  <2>2. CASE Erase(p)
    BY <2>1, <2>2 DEF Erase, EraseRange, TypeOK, Ticket
  <2>3. CASE CaptureMark(t)
    <3>1. tk[t].step = "looked" /\ tk'[t].step \in {"marked", "captured"}
      BY <2>3, <2>1 DEF CaptureMark, MarkPrivate, MarkShared, TypeOK, Ticket
    <3> QED
      BY <3>1
  <2>4. CASE CaptureTake(t)
    <3>1. tk[t].step = "marked" /\ tk'[t].step = "captured"
      BY <2>4, <2>1, SMTT(30) DEF CaptureTake, TakePrivate, TakeShared, CaptureEnd, TypeOK, Ticket
    <3> QED
      BY <3>1
  <2>5. CASE TransferAck(t)
    BY Zenon, <2>1, <2>5, FreeAssumption DEF TransferAck, Settle, TypeOK
  <2>6. CASE RecallCommit(t) \/ RecallCancel(t) \/ LandCommit(t)
    BY Zenon, <2>1, <2>6, FreeAssumption DEF RecallCommit, RecallCancel, LandCommit, RecallUnlink, TypeOK
  <2>7. ASSUME NEW th \in Threads, ThreadExit(th), t \in Owned(th, "recall") PROVE FALSE
    BY Zenon, <2>7, FreeAssumption DEF ThreadExit
  <2> QED
    BY Zenon, <2>1, <2>2, <2>3, <2>4, <2>5, <2>6, <2>7, GuardedWriters
<1> QED
  BY <1>1, Invariance, PTL DEF Spec, GuardedRecord

(* While a page is guarded its record becomes REMOTE only by an ACK of a   *)
(* grant that was read, or by handing a recall's loan back.                *)
THEOREM OnlyAckDelivers == Spec => DeliveryConfirmed
<1> DEFINE Step == \A p \in Pages :
          /\ guard[p] # Free
          /\ rec[p] # "REMOTE" /\ rec'[p] = "REMOTE"
          => LET t == guard[p] IN
             /\ ~tk[t].cancelled
             /\ \/ Grants(t) /\ tk[t].offered /\ rec[p] = "TRANSIT"
                \/ tk[t].kind = "recall" /\ rec[p] = "CLAIM"
<1>1. IInv /\ [Next]_vars => [Step]_vars
  <2> SUFFICES ASSUME IInv, Next, NEW p \in Pages, guard[p] # Free,
                      rec[p] # "REMOTE", rec'[p] = "REMOTE"
               PROVE  LET t == guard[p] IN
                      /\ ~tk[t].cancelled
                      /\ \/ Grants(t) /\ tk[t].offered /\ rec[p] = "TRANSIT"
                         \/ tk[t].kind = "recall" /\ rec[p] = "CLAIM"
    BY Zenon DEF vars
  <2> USE DEF IInv
  <2> DEFINE t == guard[p]
  <2>1. t \in Tickets /\ Live(t) /\ tk[t] \in Ticket /\ tk[t].page = p /\ tk[t].held
    BY DEF TypeOK, GuardLink, Live
  <2> HIDE DEF t
  <2>2. ~Erase(p)
    BY DEF Erase, EraseRange, TypeOK
  <2>3. ~CaptureMark(t)
    BY <2>1 DEF CaptureMark, MarkPrivate, MarkShared, TypeOK
  <2>4. ~CaptureTake(t)
    <3>1. ASSUME NEW mark, NEW to \in {"TRANSIT", "CLAIM", "HOME", "NONE"}, NEW result,
                 CaptureEnd(t, mark, to, result)
          PROVE  FALSE
      BY <2>1, <3>1 DEF CaptureEnd, TypeOK
    <3>2. tk[t].prior \in {"TRANSIT", "CLAIM", "HOME", "NONE"}
      BY <2>1, SMTT(30) DEF Ticket
    <3> QED
      BY Zenon, <3>1, <3>2 DEF CaptureTake, TakePrivate, TakeShared
  <2>5. CASE TransferAck(t) /\ Grants(t) /\ ~tk[t].cancelled
    BY Zenon, <2>1, <2>5 DEF TransferAck, t
  <2>6. ~RecallCommit(t) /\ ~LandCommit(t)
    BY Zenon, <2>1 DEF RecallCommit, LandCommit, RecallUnlink, TypeOK
  <2>7. CASE RecallCancel(t)
    BY Zenon, <2>1, <2>7 DEF RecallCancel, RecallUnlink, TypeOK, t
  <2>8. ASSUME NEW th \in Threads, t \in Owned(th, "recall"), ~tk[t].cancelled, rec[p] = "CLAIM"
        PROVE  ~tk[t].cancelled /\ tk[t].kind = "recall" /\ rec[p] = "CLAIM"
    BY <2>8 DEF Owned
  <2> QED
    BY <2>2, <2>3, <2>4, <2>5, <2>6, <2>7, <2>8, GuardedWriters, ZenonT(30) DEF t
<1> QED
  BY <1>1, Invariance, PTL DEF Spec, DeliveryConfirmed

(* Invalidating a page whose ticket is already cancelled changes no ticket. *)
LEMMA CancelOnce ==
    ASSUME TypeOK, NEW t \in Tickets, Live(t), tk[t].cancelled, NEW p \in Pages, Erase(p)
    PROVE  tk'[t] = tk[t]
<1>1. tk[t] \in Ticket
  BY DEF TypeOK, Live
<1>2. [tk[t] EXCEPT !.cancelled = TRUE] = tk[t]
  BY <1>1, ZenonT(30) DEF Ticket
<1> QED
  BY <1>2 DEF Erase, EraseRange

(* A cancelled recall, landing or acknowledgment is consumed without       *)
(* writing the record of its page or mapping anything there.               *)
THEOREM LateReplyIsInert == Spec => LateReply
<1> DEFINE Step == \A t \in Tickets :
          /\ Live(t) /\ tk[t].cancelled
          /\ tk[t].step \in {"begun", "pinned", "captured"}
          /\ tk'[t] # tk[t]
          => LET p == tk[t].page IN rec'[p] = rec[p] /\ mem'[p] = mem[p]
<1>1. IInv /\ [Next]_vars => [Step]_vars
  <2> SUFFICES ASSUME IInv, Next, NEW t \in Tickets, Live(t), tk[t].cancelled,
                      tk[t].step \in {"begun", "pinned", "captured"}, tk'[t] # tk[t]
               PROVE  LET p == tk[t].page IN rec'[p] = rec[p] /\ mem'[p] = mem[p]
    BY Zenon DEF vars
  <2> USE DEF IInv
  <2> DEFINE p == tk[t].page
  <2>1. tk[t] \in Ticket /\ p \in Pages /\ guard[p] = t /\ t # Free
    BY FreeAssumption, SMTT(30) DEF TypeOK, GuardLink, MustHold, Live, Ticket
  <2>2. \A q \in Pages : ~Erase(q)
    BY Zenon, CancelOnce
  <2>3. ASSUME rec'[p] # rec[p] PROVE FALSE
    <3>1. ~CaptureMark(t) /\ ~CaptureTake(t)
      BY Zenon DEF CaptureMark, CaptureTake
    <3>2. ~RecallCommit(t) /\ ~RecallCancel(t) /\ ~LandCommit(t)
      BY Zenon, <2>1, <2>3 DEF RecallCommit, RecallCancel, LandCommit, RecallUnlink, TypeOK
    <3> QED
      BY Zenon, <2>1, <2>2, <2>3, <3>1, <3>2, GuardedWriters
  <2>4. ASSUME mem'[p] # mem[p] PROVE FALSE
    <3>1. PICK u \in Tickets : CaptureTake(u) \/ Pin(u)
      BY <2>2, <2>4, MemWriters, SMTT(30)
    <3>2. u = t
      BY <3>1, ZenonT(30) DEF CaptureTake, TakePrivate, TakeShared, CaptureEnd, Pin, TypeOK
    <3> QED
      BY <3>1, <3>2 DEF CaptureTake, Pin
  <2> QED
    BY <2>3, <2>4
<1> QED
  BY <1>1, Invariance, PTL DEF Spec, LateReply

(* A grant that stands survives every step, or its ACK makes the page      *)
(* REMOTE, or the address space is poisoned and the program killed.        *)
THEOREM LossIsLoud == Spec => NoSilentLoss
<1> DEFINE Step == \A t \in Tickets :
          Grants(t) /\ ~tk[t].cancelled =>
              \/ tk'[t] # NoTicket /\ tk'[t].step = "captured"
              \/ tk'[t] # NoTicket /\ tk'[t].step = "settled"
                    /\ tk[t].offered /\ rec'[tk[t].page] = "REMOTE"
              \/ poisoned' /\ killed'
<1>1. IInv /\ [Next]_vars => [Step]_vars
  <2> SUFFICES ASSUME IInv, [Next]_vars, NEW t \in Tickets, Grants(t), ~tk[t].cancelled
               PROVE  \/ tk'[t] # NoTicket /\ tk'[t].step = "captured"
                      \/ tk'[t] # NoTicket /\ tk'[t].step = "settled"
                            /\ tk[t].offered /\ rec'[tk[t].page] = "REMOTE"
                      \/ poisoned' /\ killed'
    OBVIOUS
  <2> USE DEF IInv
  <2>t. /\ tk[t] \in Ticket /\ Live(t) /\ tk[t] # NoTicket /\ tk[t].page \in Pages
        /\ tk[t].step = "captured" /\ tk[t].kind = "transfer"
    BY Zenon DEF TypeOK, Grants, Live, Ticket
  <2>k. CASE tk'[t] = tk[t]
    BY Zenon, <2>k, <2>t
  <2>u. CASE UNCHANGED vars
    BY Zenon, <2>u, <2>k DEF vars
  <2>o. CASE Outside
    BY Zenon, <2>o, <2>k DEF Outside
  <2>e. ASSUME NEW p \in Pages, Erase(p) PROVE tk'[t] # NoTicket /\ tk'[t].step = "captured"
    <3> DEFINE r == [tk[t] EXCEPT !.cancelled = TRUE]
    <3>1. tk'[t] = tk[t] \/ tk'[t] = r
      BY <2>e DEF Erase, EraseRange
    <3>2. r.step = "captured" /\ r.kind = "transfer"
      BY <2>t DEF Ticket
    <3> HIDE DEF r
    <3> QED
      BY <2>t, <3>1, <3>2 DEF NoTicket
  <2>1. ASSUME NEW u \in Tickets, u # t,
               \/ CaptureGuard(u) \/ CaptureLook(u) \/ CaptureMark(u) \/ CaptureTake(u)
               \/ TransferRead(u) \/ TransferAck(u) \/ TransferCancel(u) \/ TransferForget(u)
               \/ RecallLook(u) \/ Pin(u) \/ RecallCommit(u) \/ RecallCancel(u) \/ LandCommit(u)
        PROVE  tk'[t] = tk[t]
    BY <2>1, ZenonT(30) DEF CaptureGuard, CaptureLook, CaptureMark, MarkPrivate, MarkShared, CaptureTake,
                TakePrivate, TakeShared, CaptureEnd, TransferRead, TransferAck, TransferCancel,
                Settle, TransferForget, RecallLook, Pin, RecallCommit, RecallCancel,
                RecallUnlink, LandCommit, TypeOK
  <2>2. /\ ~CaptureGuard(t) /\ ~CaptureLook(t) /\ ~CaptureMark(t) /\ ~CaptureTake(t)
        /\ ~TransferCancel(t) /\ ~TransferForget(t)
        /\ ~RecallLook(t) /\ ~Pin(t) /\ ~RecallCommit(t) /\ ~RecallCancel(t) /\ ~LandCommit(t)
    BY <2>t DEF CaptureGuard, CaptureLook, CaptureMark, CaptureTake, TransferCancel,
                TransferForget, RecallLook, Pin, RecallCommit, RecallCancel, LandCommit
  <2>3. CASE TransferRead(t)
    BY <2>3, <2>t DEF TransferRead, TypeOK, Ticket, NoTicket
  <2>4. CASE TransferAck(t)
    <3>1. tk'[t] = NewTicket("transfer", tk[t].owner, tk[t].page, "settled", FALSE)
      BY Zenon, <2>4 DEF TransferAck, Settle, TypeOK
    <3>2. tk'[t] # NoTicket /\ tk'[t].step = "settled"
      BY <3>1 DEF NewTicket, NoTicket
    <3> QED
      BY Zenon, <2>4, <2>t, <3>2 DEF TransferAck, TypeOK
  <2>5. ASSUME NEW th \in Threads, NEW u \in Tickets, NEW p \in Pages,
               \/ TransferBegin(th, u, p) \/ RecallBegin(th, u, p)
               \/ \E ifAbsent \in BOOLEAN : LandBegin(th, u, p, ifAbsent)
        PROVE  tk'[t] = tk[t]
    BY Zenon, <2>5, <2>t DEF TransferBegin, RecallBegin, LandBegin, TypeOK
  <2>6. ASSUME NEW th \in Threads, Abandon(th) \/ ThreadExit(th), tk'[t] # tk[t]
        PROVE  poisoned' /\ killed'
    <3>1. CASE Abandon(th)
      BY Zenon, <2>6, <3>1 DEF Abandon
    <3>2. CASE ThreadExit(th)
      BY Zenon, <2>6, <3>2 DEF ThreadExit
    <3> QED
      BY <2>6, <3>1, <3>2
  <2>7. CASE TicketStep
    BY <2>7, <2>k, <2>1, <2>2, <2>3, <2>4, <2>5, <2>6, Zenon DEF TicketStep
  <2> QED
    BY Zenon, <2>u, <2>o, <2>e, <2>7, StepSorts
<1> QED
  BY <1>1, Invariance, PTL DEF Spec, NoSilentLoss
=============================================================================
