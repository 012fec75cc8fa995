----------------------------- MODULE PageService ----------------------------
(***************************************************************************)
(* One page of one address space on the machine running the program        *)
(* (vmremote.c): the fault service (fault_from_home_inner) of each context *)
(* of the address space, and the page server (pg_serve_conn) that gives    *)
(* the page back to the source, over the books both keep: the loan table,  *)
(* the watch mark, the retained copy, the installed records, the pull      *)
(* table.  The source is reduced to its page record and its fault.         *)
(*                                                                         *)
(* All contexts of an address space map one backing object, so the bytes   *)
(* here are the object's page and a page-table entry shows them.  A fault  *)
(* service and a page request hold the page's claim from start to end      *)
(* (pg_try_claim), so between two of their steps only guest stores, the    *)
(* source, pulls of the same address by other address spaces and requests  *)
(* that are refused the claim can move.                                    *)
(*                                                                         *)
(* Left out: forks (CowGraph), shared mappings, GETS (no client sends it), *)
(* the supply-only mode and the PUT operations (their callers are          *)
(* unreachable), ended contexts, capture counts, tracing and checksums.    *)
(***************************************************************************)
EXTENDS Naturals, FiniteSets

CONSTANTS
    Contexts,       \* contexts of the address space
    Conns,          \* page connections of the source (one thread each here)
    Hole,           \* no page
    Settings        \* the situations considered, as records of
                    \*   cls     the class of the page: "private", "sealed" (the
                    \*           program can never write it, served by copy) or
                    \*           "unmapped"
                    \*   tasks   the contexts that run
                    \*   refuses MAPOBJ can refuse a page the object has (no
                    \*           such mapping in this context yet, a large
                    \*           folio, no memory)
                    \*   late    a request whose connection the source has given
                    \*           up is still in the socket and is read when its
                    \*           thread runs
                    \*   stores  bound on the stores of a behaviour
                    \*   losses  bound on the connections the source gives up

VARIABLES
    setting,    \* the situation, which no step changes
    region,     \* the layout table has a region for the address
    obj,        \* the backing object's page
    pte,        \* how each context maps it: "none", "ro", "rw"
    loan,       \* lent[]: "unseen", "guest" (owner 0), "source"
    watched,    \* lent[].watched
    retain,     \* the retained copy, or Hole
    inst,       \* contexts with an installed record of the page
    pulling,    \* whose pulls of this address the pull table shows: this
                \* address space's ("own"), another's ("other")
    claim,      \* who has the page's claim: a context, a connection or Hole
    flt,        \* each context's fault service
    conn,       \* each connection's request and its service
    rec,        \* the source's page record
    smem,       \* the source's page
    ask,        \* the source fault that is fetching the page
    lost,       \* connections given up so far
    stores,     \* stores made so far
    stopped     \* why the session was ended, or "no"

books  == <<loan, watched, retain, inst>>
bytes  == <<obj, pte>>
source == <<rec, smem, ask>>
fixed  == <<setting, region>>
vars   == <<fixed, bytes, books, pulling, claim, flt, conn, source, lost, stores, stopped>>

Idle   == [pc |-> "idle", write |-> FALSE, prot |-> FALSE, allows |-> FALSE,
           ans |-> "none", got |-> Hole, rcpt |-> FALSE, acked |-> FALSE]
Quiet  == [pc |-> "idle", who |-> Hole, got |-> Hole, dead |-> FALSE]
NoAsk  == [pc |-> "none", prior |-> "NONE", conn |-> Hole]

cls          == setting.cls
Tasks        == setting.tasks
MapMayFail   == setting.refuses
LateRequests == setting.late
MaxStores    == setting.stores
MaxLost      == setting.losses

Values == 0..MaxStores
Bytes  == Values \cup {Hole}

Init ==
    /\ setting \in Settings
    /\ region \in BOOLEAN
    /\ obj = Hole
    /\ pte = [c \in Contexts |-> "none"]
    /\ loan = "unseen" /\ watched = FALSE /\ retain = Hole /\ inst = {}
    /\ pulling = {}
    /\ claim = Hole
    /\ flt = [c \in Contexts |-> Idle]
    /\ conn = [k \in Conns |-> Quiet]
    /\ rec = "NONE"
    /\ smem \in (IF cls = "unmapped" THEN {Hole} ELSE {Hole, 0})
    /\ ask = NoAsk
    /\ lost = 0 /\ stores = 0 /\ stopped = "no"

-----------------------------------------------------------------------------
(* The books and the page table, as the stages below use them.             *)

Running    == stopped = "no"
AnyPresent == \E c \in Contexts : pte[c] # "none"
Keep       == loan = "source" \/ watched
NoPtes     == [c \in Contexts |-> "none"]

(* page_lend, mark_installed, mark_handed_over and retain_put.              *)
Lend(owner) == loan' = owner
MarkInstalled(c) == inst' = inst \cup {c}
HandedOver(c) == watched' = FALSE /\ inst' = inst \ {c}
RetainPut(v) == retain' = v

At(c, pc) == Running /\ flt[c].pc = pc
Goto(c, pc) == flt' = [flt EXCEPT ![c].pc = pc]
Done(c) == Goto(c, "done")
DoneAcked(c) == flt' = [flt EXCEPT ![c].pc = "done", ![c].acked = TRUE]

(* The fault service's frame: what no stage of it changes.                 *)
FaultFrame == UNCHANGED <<fixed, claim, conn, lost, stores>>

(* serve_object_mapped: the object has the page and c does not map it; a   *)
(* read maps it read-only and watches for the first store.                 *)
Mappable(c) == obj # Hole /\ pte[c] = "none"
NotMapped(c) == ~Mappable(c) \/ MapMayFail

MapObject(c, write) ==
    /\ Mappable(c)
    /\ pte' = [pte EXCEPT ![c] = IF write THEN "rw" ELSE "ro"]
    /\ watched' = (watched \/ ~write)
    /\ MarkInstalled(c)
    /\ UNCHANGED <<obj, retain>>

(* poke and execution_writev: the bytes go through c's own mapping.        *)
Poke(c, v) ==
    /\ obj' = v
    /\ pte' = [pte EXCEPT ![c] = "rw"]
    /\ MarkInstalled(c)

(* page_make_writable: MAPOBJ of a present page re-grants the write; else  *)
(* the page is taken and poked back, which leaves no other entry for it.   *)
MakeWritable(c) ==
    /\ obj # Hole
    /\ \/ /\ pte[c] # "none"
          /\ pte' = [pte EXCEPT ![c] = "rw"]
       \/ /\ pte[c] = "none" \/ MapMayFail
          /\ pte' = [NoPtes EXCEPT ![c] = "rw"]
    /\ watched' = FALSE
    /\ UNCHANGED <<obj, retain, inst>>

(* DECLINE: the local kernel answers (the object's page, or a blank one)   *)
(* unless this side knows of a page at the address: then the session ends. *)
Decline(c) ==
    /\ IF c \in inst \/ loan # "unseen"
       THEN stopped' = "no_invent" /\ UNCHANGED <<bytes, flt>>
       ELSE /\ obj' = IF obj = Hole THEN 0 ELSE obj
            /\ pte' = [pte EXCEPT ![c] = "rw"]
            /\ Done(c)
            /\ UNCHANGED stopped
    /\ UNCHANGED <<books, pulling, source>>

NeedsOwner(c) ==
    /\ Goto(c, "needs_owner")
    /\ UNCHANGED <<bytes, books, pulling, source, stopped>>

(* Return 1 with nothing changed: the instruction is retried.              *)
Retry(c) ==
    /\ Done(c)
    /\ UNCHANGED <<bytes, books, pulling, source, stopped>>

(* After the stages both kinds of address share, the region decides.       *)
NextStage == IF region THEN "rg_object" ELSE "nr_object"

-----------------------------------------------------------------------------
(* The fault service, stage by stage.                                      *)

(* The guest touches the page through an entry that does not allow it.     *)
Fault(c, write) ==
    /\ At(c, "idle")
    /\ pte[c] = "none" \/ (write /\ pte[c] = "ro")
    /\ cls = "sealed" => ~write
    /\ flt' = [flt EXCEPT ![c] = [Idle EXCEPT !.pc = "gate", !.write = write,
                                              !.prot = (pte[c] = "ro")]]
    /\ UNCHANGED <<bytes, books, pulling, source, stopped>>
    /\ FaultFrame

(* fault_from_home_mode: no service without the page's claim.              *)
GateBusy(c) ==
    /\ At(c, "gate")
    /\ claim # Hole
    /\ flt' = [flt EXCEPT ![c] = Idle]
    /\ UNCHANGED <<bytes, books, pulling, source, stopped>>
    /\ FaultFrame

Gate(c) ==
    /\ At(c, "gate")
    /\ claim = Hole
    /\ claim' = c
    /\ Goto(c, "access")
    /\ UNCHANGED <<fixed, bytes, books, pulling, source, conn, lost, stores, stopped>>

(* The access journal and the local mapping's protection can send a fault  *)
(* to the source before any page is looked for.                            *)
Access(c) ==
    /\ At(c, "access")
    /\ \/ /\ Goto(c, IF flt[c].prot THEN "prot" ELSE "absent")
          /\ UNCHANGED <<bytes, books, pulling, source, stopped>>
       \/ cls = "unmapped" /\ ~flt[c].allows /\ NeedsOwner(c)
    /\ FaultFrame

(* A store to a read-only entry of a page the source has: fetch it back.   *)
ProtLent(c) ==
    /\ At(c, "prot")
    /\ loan = "source"
    /\ Goto(c, "prot_pull")
    /\ UNCHANGED <<bytes, books, pulling, source, stopped>>
    /\ FaultFrame

(* ...of a page that is only watched: the store is what was watched for.   *)
ProtWatched(c) ==
    /\ At(c, "prot")
    /\ loan # "source" /\ watched
    /\ MakeWritable(c)
    /\ Done(c)
    /\ UNCHANGED <<loan, pulling, source, stopped>>
    /\ FaultFrame

(* ...of any other: the source decides, and what it allows is granted.     *)
ProtStale(c) ==
    /\ At(c, "prot")
    /\ loan # "source" /\ ~(watched /\ obj # Hole)
    /\ \/ ~flt[c].allows /\ NeedsOwner(c)
       \/ /\ flt[c].allows
          /\ IF obj # Hole
             THEN /\ MakeWritable(c)
                  /\ Done(c)
                  /\ UNCHANGED <<loan, pulling, source, stopped>>
             ELSE Decline(c)
    /\ FaultFrame

ProtAnswer(c) ==
    /\ At(c, "prot_ans")
    /\ \/ /\ flt[c].ans = "BYTES"
          /\ \/ MapObject(c, flt[c].write)
             \/ NotMapped(c) /\ Poke(c, flt[c].got) /\ UNCHANGED <<watched, retain>>
          /\ Lend("guest")
          /\ DoneAcked(c)
          /\ UNCHANGED <<pulling, source, stopped>>
       \/ /\ flt[c].ans \in {"ABSENT", "NOTHOLDER"}
          /\ \/ MakeWritable(c)
             \/ obj = Hole /\ UNCHANGED <<bytes, watched, retain, inst>>
          /\ Lend("guest")
          /\ Done(c)
          /\ UNCHANGED <<pulling, source, stopped>>
       \/ flt[c].ans = "CLAIM" /\ Retry(c)
    /\ FaultFrame

(* A fault on an absent page.  (The wait for a pull in progress and the    *)
(* look at the entry after it find nothing new: the claim is held.)        *)
AbsentWatched(c) ==
    /\ At(c, "absent")
    /\ loan # "source" /\ watched
    /\ MapObject(c, FALSE)
    /\ Done(c)
    /\ UNCHANGED <<loan, pulling, source, stopped>>
    /\ FaultFrame

Absent(c) ==
    /\ At(c, "absent")
    /\ loan # "source" /\ watched => NotMapped(c)
    /\ IF loan = "source"
       THEN Goto(c, "own_pull") /\ pulling' = pulling \cup {"own"}
       ELSE Goto(c, NextStage) /\ UNCHANGED pulling
    /\ UNCHANGED <<bytes, books, source, stopped>>
    /\ FaultFrame

(* source_page_fetch and the source's capture of the page.                 *)
Answers ==
    IF cls = "unmapped" THEN "NOMAP"
    ELSE IF rec \in {"CLAIM", "TRANSIT"} THEN "CLAIM"
    ELSE IF rec = "REMOTE" THEN "NOTHOLDER"
    ELSE IF cls = "sealed" /\ smem = Hole THEN "ABSENT"
    ELSE "BYTES"

AfterPull == [prot_pull |-> "prot_ans", own_pull |-> "own_ans", nr_pull |-> "nr_ans",
              rg_pull |-> "rg_ans", rg_again |-> "rg_final"]

(* pull_end clears every entry of the address, whoever made it.            *)
Pull(c) ==
    /\ Running
    /\ flt[c].pc \in DOMAIN AfterPull
    /\ flt' = [flt EXCEPT ![c].pc = AfterPull[flt[c].pc], ![c].ans = Answers,
                          ![c].rcpt = (Answers = "BYTES"),
                          ![c].got = IF Answers # "BYTES" THEN Hole
                                     ELSE IF smem = Hole THEN 0 ELSE smem]
    /\ IF Answers = "BYTES" /\ cls = "private"
       THEN rec' = "TRANSIT" /\ smem' = Hole
       ELSE UNCHANGED <<rec, smem>>
    /\ pulling' = IF flt[c].pc \in {"own_pull", "nr_pull"} THEN {} ELSE pulling
    /\ UNCHANGED <<bytes, books, ask, stopped>>
    /\ FaultFrame

(* The answer to a fault on a page lent to the source.                     *)
OwnRead(c) ==
    /\ At(c, "own_ans")
    /\ flt[c].ans = "BYTES" /\ ~flt[c].write
    /\ \/ MapObject(c, FALSE)
       \/ /\ NotMapped(c)
          /\ IF AnyPresent                   \* another context maps it now
             THEN UNCHANGED <<bytes, watched, inst>>
             ELSE /\ obj' = flt[c].got
                  /\ \E protected \in BOOLEAN :
                        pte' = [pte EXCEPT ![c] = IF protected THEN "ro" ELSE "rw"]
                  /\ watched' = TRUE
                  /\ MarkInstalled(c)
          /\ UNCHANGED retain
    /\ Lend("guest")
    /\ DoneAcked(c)
    /\ UNCHANGED <<pulling, source, stopped>>
    /\ FaultFrame

OwnWrite(c) ==
    /\ At(c, "own_ans")
    /\ flt[c].ans = "BYTES" /\ flt[c].write
    /\ \/ MapObject(c, TRUE)
       \/ NotMapped(c) /\ Poke(c, flt[c].got) /\ UNCHANGED <<watched, retain>>
       \/ /\ NotMapped(c) /\ MapMayFail          \* obj_write, when poke fails
          /\ obj' = flt[c].got
          /\ MarkInstalled(c)
          /\ UNCHANGED <<pte, watched, retain>>
    /\ Lend("guest")
    /\ DoneAcked(c)
    /\ UNCHANGED <<pulling, source, stopped>>
    /\ FaultFrame

OwnClaim(c) ==
    /\ At(c, "own_ans")
    /\ flt[c].ans = "CLAIM"
    /\ Retry(c)
    /\ FaultFrame

OwnNothing(c) ==
    /\ At(c, "own_ans")
    /\ flt[c].ans \notin {"BYTES", "CLAIM"}
    /\ Goto(c, NextStage)
    /\ Lend("guest")
    /\ UNCHANGED <<bytes, watched, retain, inst, pulling, source, stopped>>
    /\ FaultFrame

(* An address in no region: the object's own page first, mapped or, when   *)
(* that fails, copied; then the source.                                    *)
NrMap(c) ==
    /\ At(c, "nr_object")
    /\ ~Keep
    /\ MapObject(c, flt[c].write)
    /\ Done(c)
    /\ UNCHANGED <<loan, pulling, source, stopped>>
    /\ FaultFrame

NrObject(c) ==
    /\ At(c, "nr_object")
    /\ Keep \/ NotMapped(c)
    /\ IF ~Keep /\ obj # Hole
       THEN /\ flt' = [flt EXCEPT ![c].pc = "nr_install", ![c].ans = "LOCAL", ![c].got = obj]
            /\ UNCHANGED pulling
       ELSE Goto(c, "nr_pull") /\ pulling' = pulling \cup {"own"}
    /\ UNCHANGED <<bytes, books, source, stopped>>
    /\ FaultFrame

NrAnswer(c) ==
    /\ At(c, "nr_ans")
    /\ \/ /\ flt[c].ans = "BYTES"
          /\ RetainPut(flt[c].got)
          /\ Goto(c, "nr_install")
          /\ UNCHANGED <<bytes, loan, watched, inst, pulling, source, stopped>>
       \/ /\ \/ flt[c].ans = "CLAIM"
             \/ flt[c].ans = "NOTHOLDER" /\ ~AnyPresent
          /\ Retry(c)
       \/ flt[c].ans = "NOMAP" /\ IF flt[c].allows THEN Decline(c) ELSE NeedsOwner(c)
    /\ FaultFrame

(* The source says the page is here, and it is.                            *)
NrHere(c) ==
    /\ At(c, "nr_ans")
    /\ flt[c].ans = "NOTHOLDER" /\ AnyPresent
    /\ \/ MapObject(c, flt[c].write) /\ Done(c)
       \/ /\ NotMapped(c)
          /\ flt' = [flt EXCEPT ![c].pc = "nr_install", ![c].ans = "LOCAL", ![c].got = obj]
          /\ RetainPut(obj)
          /\ UNCHANGED <<bytes, watched, inst>>
    /\ UNCHANGED <<loan, pulling, source, stopped>>
    /\ FaultFrame

(* The source has nothing: this side's page, its retained copy, or zeros.  *)
Fallback == IF obj # Hole THEN obj ELSE IF retain # Hole THEN retain ELSE 0

NrAbsent(c) ==
    /\ At(c, "nr_ans")
    /\ flt[c].ans = "ABSENT"
    /\ \/ MapObject(c, flt[c].write) /\ Done(c)
       \/ /\ NotMapped(c)
          /\ IF obj = Hole /\ loan = "source"
             THEN Done(c) /\ UNCHANGED retain
             ELSE /\ flt' = [flt EXCEPT ![c].pc = "nr_install", ![c].ans = "LOCAL",
                                        ![c].got = Fallback]
                  /\ RetainPut(IF obj = Hole THEN Fallback ELSE retain)
          /\ UNCHANGED <<bytes, watched, inst>>
    /\ UNCHANGED <<loan, pulling, source, stopped>>
    /\ FaultFrame

NrInstall(c) ==
    /\ At(c, "nr_install")
    /\ \/ Poke(c, flt[c].got) /\ UNCHANGED retain
       \/ /\ MapMayFail                     \* obj_write, and the local kernel maps it
          /\ obj' = flt[c].got
          /\ pte' = [pte EXCEPT ![c] = "rw"]
          /\ RetainPut(flt[c].got)
          /\ UNCHANGED inst
    /\ IF flt[c].ans = "BYTES" THEN DoneAcked(c) ELSE Done(c)
    /\ UNCHANGED <<loan, watched, pulling, source, stopped>>
    /\ FaultFrame

(* An address in a region: the same order, through the chunk installer.    *)
RgMap(c) ==
    /\ At(c, "rg_object")
    /\ ~Keep
    /\ MapObject(c, flt[c].write)
    /\ Done(c)
    /\ UNCHANGED <<loan, pulling, source, stopped>>
    /\ FaultFrame

RgObject(c) ==
    /\ At(c, "rg_object")
    /\ Keep \/ NotMapped(c)
    /\ IF ~Keep /\ obj # Hole
       THEN flt' = [flt EXCEPT ![c].pc = "rg_install", ![c].ans = "LOCAL", ![c].got = obj]
       ELSE Goto(c, "rg_pull")
    /\ UNCHANGED <<bytes, books, pulling, source, stopped>>
    /\ FaultFrame

(* Mutant: the fetch is repeated for as long as it fails. *)
RgAnswerForever(c) ==
    /\ At(c, "rg_ans")
    /\ Goto(c, CASE flt[c].ans = "BYTES" -> "rg_install"
                 [] flt[c].ans = "CLAIM" -> "done"
                 [] OTHER -> "rg_pull")
    /\ UNCHANGED <<bytes, books, pulling, source, stopped>>
    /\ FaultFrame

RgAnswer(c) ==
    /\ At(c, "rg_ans")
    /\ \/ /\ flt[c].ans = "BYTES"
          /\ Goto(c, "rg_install")
          /\ UNCHANGED <<bytes, books, pulling, source, stopped>>
       \/ flt[c].ans = "CLAIM" /\ Retry(c)
       \/ /\ flt[c].ans = "NOMAP"
          /\ Goto(c, "rg_again")
          /\ UNCHANGED <<bytes, books, pulling, source, stopped>>
    /\ FaultFrame

RgHere(c) ==
    /\ At(c, "rg_ans")
    /\ flt[c].ans = "NOTHOLDER"
    /\ \/ MapObject(c, flt[c].write) /\ Done(c)
       \/ /\ NotMapped(c)
          /\ flt' = [flt EXCEPT ![c].pc = IF obj # Hole THEN "rg_install"
                                          ELSE IF flt[c].allows THEN "rg_again"
                                          ELSE "needs_owner",
                                ![c].ans = "LOCAL", ![c].got = obj]
          /\ UNCHANGED <<bytes, watched, retain, inst>>
    /\ UNCHANGED <<loan, pulling, source, stopped>>
    /\ FaultFrame

RgAbsent(c) ==
    /\ At(c, "rg_ans")
    /\ flt[c].ans = "ABSENT"
    /\ \/ MapObject(c, flt[c].write) /\ Done(c)
       \/ /\ NotMapped(c)
          /\ IF obj = Hole /\ loan = "source"
             THEN Done(c) /\ UNCHANGED <<retain, inst>>
             ELSE /\ flt' = [flt EXCEPT ![c].pc = "rg_install", ![c].ans = "LOCAL",
                                        ![c].got = Fallback]
                  /\ RetainPut(IF obj = Hole THEN Fallback ELSE retain)
                  /\ inst' = IF obj = Hole /\ retain = Hole THEN inst \cup {c} ELSE inst
          /\ UNCHANGED <<bytes, watched>>
    /\ UNCHANGED <<loan, pulling, source, stopped>>
    /\ FaultFrame

(* No answer that helps: asked again (eight times, one step here), then    *)
(* declined.                                                               *)
RgFinal(c) ==
    /\ At(c, "rg_final")
    /\ IF flt[c].ans = "BYTES"
       THEN Goto(c, "rg_install") /\ UNCHANGED <<bytes, books, pulling, source, stopped>>
       ELSE Decline(c)
    /\ FaultFrame

(* A page that is lent or watched is not written over; a page the object   *)
(* has and c has installed before is written from the object.              *)
RgPick(c) ==
    /\ At(c, "rg_install")
    /\ flt' = [flt EXCEPT ![c].pc = IF Keep THEN "done" ELSE "rg_write",
                          ![c].got = IF obj # Hole /\ c \in inst THEN obj ELSE @]
    /\ UNCHANGED <<bytes, books, pulling, source, stopped>>
    /\ FaultFrame

RgWrite(c) ==
    /\ At(c, "rg_write")
    /\ Poke(c, flt[c].got)
    /\ IF flt[c].ans = "BYTES" THEN DoneAcked(c) ELSE Done(c)
    /\ UNCHANGED <<loan, watched, retain, pulling, source, stopped>>
    /\ FaultFrame

(* ...page by page, when the batch fails: through the object if the poke   *)
(* fails too, and the local kernel maps it from there.                     *)
RgPerPage(c) ==
    /\ At(c, "rg_write")
    /\ MapMayFail
    /\ obj' = flt[c].got
    /\ pte' = [pte EXCEPT ![c] = "rw"]
    /\ IF flt[c].ans = "BYTES" THEN DoneAcked(c) ELSE Done(c)
    /\ UNCHANGED <<books, pulling, source, stopped>>
    /\ FaultFrame

(* The end of a service.  A receipt nobody acknowledged ends the session   *)
(* (source_receipt_finish); the acknowledgement hands the page over        *)
(* (ack_flush, INSTALLED); then the claim is released.  A fault that needs *)
(* the owner goes to it after that: it is served again if the source would *)
(* allow the access, and is over otherwise.                                *)
Finish(c) ==
    /\ Running
    /\ flt[c].pc \in {"done", "needs_owner"}
    /\ IF flt[c].rcpt /\ ~flt[c].acked
       THEN /\ stopped' = "receipt"
            /\ UNCHANGED <<claim, flt, rec>>
       ELSE /\ rec' = IF flt[c].rcpt /\ rec = "TRANSIT" THEN "REMOTE" ELSE rec
            /\ claim' = Hole
            /\ flt' = [flt EXCEPT ![c] =
                          IF flt[c].pc = "needs_owner" /\ cls # "unmapped"
                          THEN [Idle EXCEPT !.pc = "gate", !.write = flt[c].write,
                                            !.prot = flt[c].prot, !.allows = TRUE]
                          ELSE Idle]
            /\ UNCHANGED stopped
    /\ UNCHANGED <<fixed, bytes, books, pulling, conn, smem, ask, lost, stores>>

(* A pull of the same address by another address space.                    *)
OtherPullBegin ==
    /\ Running
    /\ "other" \notin pulling
    /\ pulling' = pulling \cup {"other"}
    /\ UNCHANGED <<fixed, bytes, books, claim, flt, conn, source, lost, stores, stopped>>

OtherPullEnd ==
    /\ Running
    /\ "other" \in pulling
    /\ pulling' = {}
    /\ UNCHANGED <<fixed, bytes, books, claim, flt, conn, source, lost, stores, stopped>>

GuestStore(c) ==
    /\ At(c, "idle")
    /\ cls = "private" /\ pte[c] = "rw" /\ stores < MaxStores
    /\ stores' = stores + 1
    /\ obj' = stores + 1
    /\ UNCHANGED <<fixed, pte, books, pulling, claim, flt, conn, source, lost, stopped>>

-----------------------------------------------------------------------------
(* The page server.                                                        *)

ServerFrame == UNCHANGED <<fixed, pulling, flt, source, lost, stores, stopped>>

(* INFLIGHT: the source asks again on the same connection; an answer to a  *)
(* connection it has given up ends that connection's thread.               *)
Inflight(k) == conn' = [conn EXCEPT ![k] = IF @.dead THEN Quiet ELSE [@ EXCEPT !.pc = "sent"]]

ReadBusy(k) ==
    /\ Running
    /\ conn[k].pc = "sent" /\ claim # Hole
    /\ Inflight(k)
    /\ UNCHANGED <<bytes, books, claim>>
    /\ ServerFrame

(* Mutant: a request is served whoever has the page's claim. *)
ReadUnclaimed(k) ==
    /\ Running
    /\ conn[k].pc = "sent"
    /\ claim' = k
    /\ conn' = [conn EXCEPT ![k].pc = "look"]
    /\ UNCHANGED <<bytes, books>>
    /\ ServerFrame

Read(k) ==
    /\ Running
    /\ conn[k].pc = "sent" /\ claim = Hole
    /\ claim' = k
    /\ conn' = [conn EXCEPT ![k].pc = "look"]
    /\ UNCHANGED <<bytes, books>>
    /\ ServerFrame

Look(k) ==
    /\ Running
    /\ conn[k].pc = "look"
    /\ conn' = [conn EXCEPT ![k].pc = IF obj # Hole THEN "take" ELSE "nopage"]
    /\ UNCHANGED <<bytes, books, claim>>
    /\ ServerFrame

Retained == loan = "source" /\ retain # Hole

(* The page is not here: for a while after the first such question, and    *)
(* while any pull of the address shows, the answer is INFLIGHT.            *)
NoPageWait(k) ==
    /\ Running
    /\ conn[k].pc = "nopage"
    /\ Retained \/ pulling # {}
    /\ Inflight(k)
    /\ claim' = Hole
    /\ UNCHANGED <<bytes, books>>
    /\ ServerFrame

(* It was given to the asker, which asks again: the retained copy.         *)
NoPageRetained(k) ==
    /\ Running
    /\ conn[k].pc = "nopage"
    /\ Retained /\ pulling = {}
    /\ conn' = [conn EXCEPT ![k].pc = "reply", ![k].got = retain]
    /\ UNCHANGED <<bytes, books, claim>>
    /\ ServerFrame

(* ABSENT; the page is the source's from here on unless the loan table     *)
(* says it came back to the guest.                                         *)
NoPageAbsent(k) ==
    /\ Running
    /\ conn[k].pc = "nopage"
    /\ ~Retained /\ pulling = {}
    /\ Lend(IF loan = "guest" THEN "guest" ELSE "source")
    /\ conn' = [conn EXCEPT ![k].pc = "reply", ![k].got = Hole]
    /\ UNCHANGED <<bytes, watched, retain, inst, claim>>
    /\ ServerFrame

(* page_take_away: TAKEOBJ unmaps the page from every context, and leaves  *)
(* a hole in the object.                                                   *)
TakeAway == obj' = Hole /\ pte' = NoPtes

(* Mutants: what is sent is not retained; the watch mark survives the page. *)
TakeAs(k, mark, keep) ==
    /\ Running
    /\ conn[k].pc = "take"
    /\ conn' = [conn EXCEPT ![k].pc = "reply", ![k].got = obj]
    /\ obj' = Hole
    /\ pte' = NoPtes
    /\ watched' = mark
    /\ inst' = inst \ {conn[k].who}
    /\ Lend("source")
    /\ retain' = keep
    /\ UNCHANGED claim
    /\ ServerFrame
TakeUnretained(k) == TakeAs(k, FALSE, retain)

(* page_take_away, mark_handed_over, page_lend, retain_put: one step,      *)
(* under coh_lock, with every context's entry gone before the bytes are    *)
(* read.  Only the asking task's own context loses its installed record.   *)
Take(k) ==
    /\ Running
    /\ conn[k].pc = "take"
    /\ conn' = [conn EXCEPT ![k].pc = "reply", ![k].got = obj]
    /\ TakeAway
    /\ HandedOver(conn[k].who)
    /\ Lend("source")
    /\ RetainPut(obj)
    /\ UNCHANGED claim
    /\ ServerFrame

(* The claim is held until the reply is written.                           *)
Reply(k) ==
    /\ Running
    /\ conn[k].pc = "reply"
    /\ conn' = [conn EXCEPT ![k] = IF @.dead THEN Quiet ELSE [@ EXCEPT !.pc = "replied"]]
    /\ claim' = Hole
    /\ UNCHANGED <<bytes, books>>
    /\ ServerFrame

-----------------------------------------------------------------------------
(* The source: a fault of one of its tasks fetches the page (ctx_monitor,  *)
(* pg_get_op); the kernel's record refuses the page to the other side      *)
(* while it does.                                                          *)

SourceFrame == UNCHANGED <<fixed, bytes, books, pulling, claim, flt, stopped>>

SourceFault ==
    /\ Running
    /\ cls = "private" /\ smem = Hole /\ ask.pc = "none"
    /\ rec \in {"NONE", "REMOTE"}
    /\ rec' = "CLAIM"
    /\ ask' = [pc |-> "send", prior |-> rec, conn |-> Hole]
    /\ UNCHANGED <<smem, conn, lost, stores>>
    /\ SourceFrame

Send(k, c) ==
    /\ Running
    /\ ask.pc = "send" /\ conn[k] = Quiet
    /\ conn' = [conn EXCEPT ![k].pc = "sent", ![k].who = c]
    /\ ask' = [ask EXCEPT !.pc = "wait", !.conn = k]
    /\ UNCHANGED <<rec, smem, lost, stores>>
    /\ SourceFrame

(* A receive timeout or a failed connection: the question goes out again   *)
(* on a new connection.  What the old connection's thread has not read     *)
(* yet it may still read.                                                  *)
GiveUp ==
    /\ Running
    /\ ask.pc = "wait" /\ lost < MaxLost
    /\ lost' = lost + 1
    /\ ask' = [ask EXCEPT !.pc = "send"]
    /\ conn' = [conn EXCEPT ![ask.conn] =
                   IF @.pc = "replied" \/ (@.pc = "sent" /\ ~LateRequests)
                   THEN Quiet ELSE [@ EXCEPT !.dead = TRUE]]
    /\ UNCHANGED <<rec, smem, stores>>
    /\ SourceFrame

(* LAND IF_ABSENT, then RESUME: the record becomes HOME.                   *)
Land(v) ==
    /\ smem' = v
    /\ rec' = "HOME"
    /\ ask' = NoAsk

Received == ask.pc = "wait" /\ conn[ask.conn].pc = "replied"

ReceiveBytes ==
    /\ Running
    /\ Received /\ conn[ask.conn].got # Hole
    /\ Land(conn[ask.conn].got)
    /\ conn' = [conn EXCEPT ![ask.conn] = Quiet]
    /\ UNCHANGED <<lost, stores>>
    /\ SourceFrame

(* Nobody has it: a first touch is filled with zeros; a page that had left *)
(* is asked for again, up to forty times, and then the task is killed and  *)
(* the record put back.                                                    *)
ReceiveAbsent ==
    /\ Running
    /\ Received /\ conn[ask.conn].got = Hole
    /\ conn' = [conn EXCEPT ![ask.conn] = Quiet]
    /\ IF ask.prior = "NONE" THEN Land(0)
       ELSE /\ \/ ask' = [ask EXCEPT !.pc = "send"] /\ UNCHANGED rec
               \/ ask' = NoAsk /\ rec' = ask.prior
            /\ UNCHANGED smem
    /\ UNCHANGED <<lost, stores>>
    /\ SourceFrame

(* A task of the source stores to the page where it has it.                *)
SourceStore ==
    /\ Running
    /\ cls = "private" /\ smem # Hole /\ stores < MaxStores
    /\ rec \in {"NONE", "HOME"}
    /\ stores' = stores + 1
    /\ smem' = stores + 1
    /\ UNCHANGED <<rec, ask, conn, lost>>
    /\ SourceFrame

-----------------------------------------------------------------------------

Service(c) ==
    \/ GateBusy(c) \/ Gate(c) \/ Access(c)
    \/ ProtLent(c) \/ ProtWatched(c) \/ ProtStale(c) \/ ProtAnswer(c)
    \/ AbsentWatched(c) \/ Absent(c) \/ Pull(c)
    \/ OwnRead(c) \/ OwnWrite(c) \/ OwnClaim(c) \/ OwnNothing(c)
    \/ NrMap(c) \/ NrObject(c) \/ NrAnswer(c) \/ NrHere(c) \/ NrAbsent(c) \/ NrInstall(c)
    \/ RgMap(c) \/ RgObject(c) \/ RgAnswer(c) \/ RgHere(c) \/ RgAbsent(c) \/ RgFinal(c)
    \/ RgPick(c) \/ RgWrite(c) \/ RgPerPage(c) \/ Finish(c)

Serve(k) ==
    \/ ReadBusy(k) \/ Read(k) \/ Look(k)
    \/ NoPageWait(k) \/ NoPageRetained(k) \/ NoPageAbsent(k)
    \/ Take(k) \/ Reply(k)

Next ==
    \/ \E c \in Tasks :
          \/ \E write \in BOOLEAN : Fault(c, write)
          \/ Service(c)
          \/ GuestStore(c)
          \/ \E k \in Conns : Send(k, c)
    \/ \E k \in Conns : Serve(k)
    \/ OtherPullBegin \/ OtherPullEnd
    \/ SourceFault \/ GiveUp \/ ReceiveBytes \/ ReceiveAbsent \/ SourceStore

Spec == Init /\ [][Next]_vars

(* Every fault-service thread and every page-server thread runs on until   *)
(* it blocks; nothing is assumed of the guest, of the source or of pulls   *)
(* elsewhere.                                                              *)
FairSpec ==
    /\ Spec
    /\ \A c \in Contexts : WF_vars(Service(c))
    /\ \A k \in Conns : WF_vars(Serve(k))

-----------------------------------------------------------------------------

TypeOK ==
    /\ setting \in Settings /\ region \in BOOLEAN
    /\ obj \in Bytes /\ pte \in [Contexts -> {"none", "ro", "rw"}]
    /\ loan \in {"unseen", "guest", "source"} /\ watched \in BOOLEAN
    /\ retain \in Bytes /\ inst \subseteq Contexts
    /\ pulling \subseteq {"own", "other"}
    /\ claim \in Contexts \cup Conns \cup {Hole}
    /\ rec \in {"NONE", "HOME", "CLAIM", "TRANSIT", "REMOTE"} /\ smem \in Bytes
    /\ lost \in 0..MaxLost /\ stores \in 0..MaxStores
    /\ stopped \in {"no", "receipt", "no_invent"}

(* Where the current copy of a private page is: with a fault service that  *)
(* has fetched it and not installed it; in the backing object; in the      *)
(* source's memory; in a reply; or, when the reply was lost, in the        *)
(* retained copy.                                                          *)
Fetched   == {c \in Contexts : flt[c].rcpt /\ ~flt[c].acked}
Answering == {k \in Conns : conn[k].pc \in {"reply", "replied"} /\ conn[k].got # Hole}

(* Two situations are left out, in which the code loses a store: a copy    *)
(* written back over a page another context maps (serve_object_page after  *)
(* a refused MAPOBJ), and a late request that takes a page nobody waits    *)
(* for any more.                                                           *)
Orderly == ~LateRequests /\ (MapMayFail => Cardinality(Tasks) = 1)

CopyPlace ==
    IF cls # "private" \/ ~Orderly THEN "source"
    ELSE IF Fetched # {} THEN "wire"
    ELSE IF obj # Hole THEN "destination"
    ELSE IF smem # Hole THEN "source"
    ELSE IF Answering # {} \/ Retained THEN "wire"
    ELSE "source"

CopyVal ==
    IF cls # "private" \/ ~Orderly THEN 0
    ELSE IF Fetched # {} THEN flt[CHOOSE c \in Fetched : TRUE].got
    ELSE IF obj # Hole THEN obj
    ELSE IF smem # Hole THEN smem
    ELSE IF Answering # {} THEN conn[CHOOSE k \in Answering : TRUE].got
    ELSE IF Retained THEN retain
    ELSE 0

OC == INSTANCE OneCopy WITH place <- CopyPlace, val <- CopyVal

(* The two machines together give the program one piece of memory: through *)
(* every interleaving of fault services, page requests and their replies,  *)
(* the page's bytes are those of the last store (fault_from_home_inner,    *)
(* pg_serve_conn).                                                         *)
OneCopySpec == OC!Spec

(* A private page is never mapped on both machines at once: while the      *)
(* source has it, no context here maps it and the object has a hole.       *)
OneMachine ==
    cls = "private" /\ smem # Hole =>
        obj = Hole /\ \A c \in Contexts : pte[c] = "none"

(* No service ends with a receipt it did not acknowledge, which would end  *)
(* the whole session (source_receipt_finish).                              *)
ReceiptsSettled == stopped # "receipt"

(* While a fault service has the page's bytes in hand and has not told the *)
(* source, no request can be answered with a verdict on the page: the      *)
(* claim stands in for the pull entry that a pull of the same address in   *)
(* another address space can clear (pull_end).                             *)
NoVerdictInFlight ==
    (\E c \in Contexts : flt[c].rcpt) =>
        \A k \in Conns : conn[k].pc \notin {"look", "nopage", "take", "reply"}

(* A page marked as watched is here.  The region installer writes nothing  *)
(* over a watched page, so a mark that outlived its page would make it     *)
(* drop the bytes it has just fetched (page_watched, mark_handed_over).    *)
WatchedIsHere == watched /\ loan # "source" => obj # Hole

(* Whatever crosses on the wire, the books of the page are true to where   *)
(* it is, and no verdict contradicts bytes in hand (fault_from_home_inner, *)
(* pg_serve_conn, mark_handed_over, source_receipt_finish).                *)
BooksTrue ==
    TypeOK /\ OneMachine /\ ReceiptsSettled /\ NoVerdictInFlight /\ WatchedIsHere

(* Fault services and page requests of a page always end: the page's claim *)
(* is never kept.                                                          *)
ClaimsReleased == (claim # Hole) ~> (claim = Hole \/ ~Running)

=============================================================================
