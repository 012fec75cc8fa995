---------------------------- MODULE PageExchange ----------------------------
(***************************************************************************)
(* The exchange of a page under a transfer ticket, end to end: the thread  *)
(* of vmremote that fetches a page (source_page_fetch), lands it and       *)
(* acknowledges it (ack_flush); the connection thread of vmhome that       *)
(* serves it (ctx_page, ctx_page_ack) over its custody (source-custody.h,  *)
(* source-transfer.h); and the kernel's ticket (vmctx-transfer-core.h).    *)
(* A ticket is begun, captures the page, is read, and stands until the     *)
(* destination's acknowledgement is confirmed and the ticket forgotten.    *)
(* A connection that ends first abandons it, and the session with it.      *)
(*                                                                         *)
(* One address space.  A connection is a synchronous conversation of one   *)
(* thread with one thread, so its request and its reply are the states     *)
(* "asked"/"acking" and "answered"/"acked" of the destination's thread.    *)
(* The engine behind CAPTURE (PageCustody), the guest's other bookkeeping  *)
(* (PageService), a source fault's fetch of the page, and the              *)
(* copy-on-write probe before BEGIN (CowGraph) are reduced to what they do *)
(* to the page's record and bytes.                                         *)
(***************************************************************************)
EXTENDS Naturals

CONSTANTS
    Pages,          \* pages of the address space
    Sealed,         \* those the program can never write, served by copy
    Conns,          \* connections: one thread at each end
    Nobody,         \* no connection
    Hole,           \* no bytes
    MaxTickets,     \* bound on the fetches, hence on the tickets
    MaxStores,      \* bound on the stores
    MaxUnmaps,      \* bound on the pages the program unmaps
    MaxCuts,        \* bound on the connections that break
    MaxFaults       \* bound on the controls whose result cannot be copied out

ASSUME ConstantsAssumption ==
    /\ Sealed \subseteq Pages
    /\ Nobody \notin Conns
    /\ MaxTickets \in Nat /\ MaxStores \in Nat
    /\ MaxUnmaps \in Nat /\ MaxCuts \in Nat /\ MaxFaults \in Nat
    /\ Hole \notin Nat

VARIABLES
    rec,        \* the page record: "HOME", "TRANSIT", "REMOTE", "CLAIM"
    src,        \* the source's bytes of each page
    dst,        \* the destination's
    back,       \* bytes on their way home
    want,       \* the bytes of the last store to the page
    unmapped,   \* pages the program has unmapped
    poisoned,   \* pages whose transfer was abandoned (access_error)
    tst, towner, tpage, tbytes, tcancelled, \* the kernel's tickets: state, owning
                \* thread, page, captured bytes, guard cancelled
    next,       \* vmctx_transfer_next + 1
    pend,       \* custody->pending of each connection
    ent,        \* how far the entry of each ticket is known to have come
    spc, sticket, sret, \* the connection threads of vmhome: where they are, the
                \* entry they work on, what they will answer
    cpc, cpage, cticket, cbytes, cans, \* the threads of vmremote: where they are,
                \* their page, the receipt's episode, its bytes, the answer
    claim,      \* who reserved the page at the destination
    cut,        \* connections that broke
    asks, unmaps, cuts, faults,     \* what the bounds count
    over        \* which half ended the session: "no", "destination", "source"

pages   == <<rec, src, dst, back, want, unmapped, poisoned>>
tickets == <<tst, towner, tpage, tbytes, tcancelled, next>>
custody == <<pend, ent>>
server  == <<spc, sticket, sret>>
client  == <<cpc, cpage, cticket, cbytes, cans>>
bounds  == <<asks, unmaps, cuts, faults>>
vars    == <<pages, tickets, custody, server, client, claim, cut, bounds, over>>

Tickets == 1..MaxTickets
Values  == 0..MaxStores
Bytes   == Values \cup {Hole}
Private == Pages \ Sealed

Init ==
    /\ rec = [p \in Pages |-> "HOME"]
    /\ src = [p \in Pages |-> 0]
    /\ dst = [p \in Pages |-> Hole]
    /\ back = [p \in Pages |-> Hole]
    /\ want = [p \in Pages |-> 0]
    /\ unmapped = {} /\ poisoned = {}
    /\ tst = [t \in Tickets |-> "none"]
    /\ towner = [t \in Tickets |-> Nobody] /\ tpage = [t \in Tickets |-> Nobody]
    /\ tbytes = [t \in Tickets |-> Hole] /\ tcancelled = [t \in Tickets |-> FALSE]
    /\ next = 1
    /\ pend = [c \in Conns |-> {}]
    /\ ent = [t \in Tickets |-> "none"]
    /\ spc = [c \in Conns |-> "idle"]
    /\ sticket = [c \in Conns |-> 0] /\ sret = [c \in Conns |-> "none"]
    /\ cpc = [c \in Conns |-> "run"]
    /\ cpage = [c \in Conns |-> Nobody] /\ cticket = [c \in Conns |-> 0]
    /\ cbytes = [c \in Conns |-> Hole] /\ cans = [c \in Conns |-> "none"]
    /\ claim = [p \in Pages |-> Nobody]
    /\ cut = {}
    /\ asks = 0 /\ unmaps = 0 /\ cuts = 0 /\ faults = 0
    /\ over = "no"

(* vmctx_transfer_grants: the capture moved the page's ownership.          *)
Grants(t) == tst[t] = "granted"

(* A guard is published from the capture's start until the ticket settles. *)
HoldsGuard(t) == tst[t] \in {"guarded", "granted", "copied", "empty", "stale"}
Guarded(p) == \E t \in Tickets : HoldsGuard(t) /\ tpage[t] = p

Client(c, pc) == over = "no" /\ cpc[c] = pc
Server(c, pc) == over # "source" /\ spc[c] = pc
Now(c, pc) == cpc' = [cpc EXCEPT ![c] = pc]
Goto(c, pc) == spc' = [spc EXCEPT ![c] = pc]
Then(c, pc, r) == Goto(c, pc) /\ sret' = [sret EXCEPT ![c] = r] /\ UNCHANGED sticket
Answer(c, r) == Then(c, "reply", r)

(* The control's work is committed and its result cannot be copied out.    *)
CopyoutFails == faults < MaxFaults /\ faults' = faults + 1

-----------------------------------------------------------------------------
(* The program and the pages that go home.                                 *)

SourceStore(p) ==
    /\ over # "source"
    /\ p \in Private \ unmapped
    /\ rec[p] = "HOME" /\ want[p] < MaxStores
    /\ src' = [src EXCEPT ![p] = want[p] + 1]
    /\ want' = [want EXCEPT ![p] = want[p] + 1]
    /\ UNCHANGED <<rec, dst, back, unmapped, poisoned, tickets, custody, server, client, claim, cut, bounds, over>>

GuestStore(c, p) ==
    /\ Client(c, "run")
    /\ p \in Private \ unmapped
    /\ dst[p] # Hole /\ claim[p] = Nobody
    /\ want[p] < MaxStores
    /\ dst' = [dst EXCEPT ![p] = want[p] + 1]
    /\ want' = [want EXCEPT ![p] = want[p] + 1]
    /\ UNCHANGED <<rec, src, back, unmapped, poisoned, tickets, custody, server, client, claim, cut, bounds, over>>

(* A task of the source touches a page that is away: the record is claimed *)
(* unless a ticket guards it.                                              *)
RecallAsk(p) ==
    /\ over # "source"
    /\ p \in Private \ unmapped
    /\ rec[p] = "REMOTE" /\ ~Guarded(p)
    /\ rec' = [rec EXCEPT ![p] = "CLAIM"]
    /\ UNCHANGED <<src, dst, back, want, unmapped, poisoned, tickets, custody, server, client, claim, cut, bounds, over>>

(* The destination's page server takes a page nobody there has reserved.   *)
RecallTake(p) ==
    /\ over = "no"
    /\ p \in Private \ unmapped
    /\ rec[p] = "CLAIM" /\ dst[p] # Hole /\ claim[p] = Nobody
    /\ back' = [back EXCEPT ![p] = dst[p]]
    /\ dst' = [dst EXCEPT ![p] = Hole]
    /\ UNCHANGED <<rec, src, want, unmapped, poisoned, tickets, custody, server, client, claim, cut, bounds, over>>

(* LAND.  Where the page was unmapped meanwhile the bytes are dropped.     *)
RecallLand(p) ==
    /\ over # "source"
    /\ back[p] # Hole
    /\ back' = [back EXCEPT ![p] = Hole]
    /\ IF p \in unmapped THEN UNCHANGED <<rec, src>>
       ELSE /\ src' = [src EXCEPT ![p] = back[p]]
            /\ rec' = [rec EXCEPT ![p] = "HOME"]
    /\ UNCHANGED <<dst, want, unmapped, poisoned, tickets, custody, server, client, claim, cut, bounds, over>>

(* munmap by another task of the program: the page's guards are cancelled  *)
(* and its record is cleared.                                              *)
Unmap(p) ==
    /\ over # "source"
    /\ p \notin unmapped /\ unmaps < MaxUnmaps
    /\ unmapped' = unmapped \cup {p}
    /\ unmaps' = unmaps + 1
    /\ src' = [src EXCEPT ![p] = Hole]
    /\ rec' = [rec EXCEPT ![p] = "HOME"]
    /\ tcancelled' = [t \in Tickets |-> tcancelled[t] \/ (HoldsGuard(t) /\ tpage[t] = p)]
    /\ UNCHANGED <<dst, back, want, poisoned, tst, towner, tpage, tbytes, next, custody, server, client, claim, cut, asks, cuts, faults, over>>

-----------------------------------------------------------------------------
(* vmremote: a thread fetches a page, lands it and acknowledges it.        *)

(* A fault on a page that is not there reserves it and asks (CTXPAGE).     *)
Fetch(c, p) ==
    /\ Client(c, "run")
    /\ dst[p] = Hole /\ claim[p] = Nobody
    /\ asks < MaxTickets /\ asks' = asks + 1
    /\ claim' = [claim EXCEPT ![p] = c]
    /\ Now(c, "asked") /\ cpage' = [cpage EXCEPT ![c] = p]
    /\ UNCHANGED <<cticket, cbytes, cans, pages, tickets, custody, server, cut, unmaps, cuts, faults, over>>

(* The page's reservation is released and the guest goes on.               *)
Return(c) ==
    /\ Now(c, "run")
    /\ cpage' = [cpage EXCEPT ![c] = Nobody] /\ cticket' = [cticket EXCEPT ![c] = 0]
    /\ cbytes' = [cbytes EXCEPT ![c] = Hole] /\ cans' = [cans EXCEPT ![c] = "none"]
    /\ claim' = [claim EXCEPT ![cpage[c]] = Nobody]

(* The answer of source_page_fetch: bytes with a receipt are landed and    *)
(* the acknowledgement queued; a page that cannot be had now is given up   *)
(* and the access taken again; anything else stops the session.            *)
Fetched(c) ==
    /\ Client(c, "answered")
    /\ LET p == cpage[c]  retry == {"CLAIMING", "NOTHOLDER", "NOMAP"} IN
       \/ /\ cans[c] = "BYTES"
          /\ dst' = [dst EXCEPT ![p] = cbytes[c]]
          /\ Now(c, "landed")
          /\ UNCHANGED <<cpage, cticket, cbytes, cans, claim, over>>
       \/ /\ cans[c] \in retry
          /\ Return(c)
          /\ UNCHANGED <<dst, over>>
       \/ /\ cans[c] \notin retry \cup {"BYTES"}
          /\ over' = "destination"
          /\ UNCHANGED <<dst, client, claim>>
    /\ UNCHANGED <<rec, src, back, want, unmapped, poisoned, tickets, custody, server, cut, bounds>>

(* Mutant: the reservation ends when the page has landed.                  *)
AckFlush_Releases(c) ==
    /\ Client(c, "landed")
    /\ Now(c, "acking")
    /\ claim' = [claim EXCEPT ![cpage[c]] = Nobody]
    /\ UNCHANGED <<cpage, cticket, cbytes, cans, pages, tickets, custody, server, cut, bounds, over>>

(* source_receipt_finish: the queued acknowledgement is sent (INSTALLED).  *)
AckFlush(c) ==
    /\ Client(c, "landed")
    /\ Now(c, "acking")
    /\ UNCHANGED <<cpage, cticket, cbytes, cans, pages, tickets, custody, server, claim, cut, bounds, over>>

(* Confirmed: the reservation is released.  Rejected: _exit(97).           *)
AckConfirmed(c) ==
    /\ Client(c, "acked")
    /\ IF cans[c] = "OK" THEN Return(c) /\ UNCHANGED over
       ELSE over' = "destination" /\ UNCHANGED <<client, claim>>
    /\ UNCHANGED <<pages, tickets, custody, server, cut, bounds>>

(* home_call on a connection that broke: _exit(97).                        *)
CallFails(c) ==
    /\ over = "no" /\ c \in cut
    /\ cpc[c] \in {"asked", "acking"}
    /\ over' = "destination"
    /\ UNCHANGED <<pages, tickets, custody, server, client, claim, cut, bounds>>

(* The context ends and its connection is closed in order.                 *)
Finish(c) ==
    /\ Client(c, "run")
    /\ Now(c, "closed")
    /\ UNCHANGED <<cpage, cticket, cbytes, cans, pages, tickets, custody, server, claim, cut, bounds, over>>

(* The network drops a connection.                                         *)
Cut(c) ==
    /\ over = "no" /\ c \notin cut /\ cpc[c] # "closed"
    /\ cuts < MaxCuts /\ cuts' = cuts + 1
    /\ cut' = cut \cup {c}
    /\ UNCHANGED <<pages, tickets, custody, server, client, claim, asks, unmaps, faults, over>>

-----------------------------------------------------------------------------
(* vmhome's connection thread and the kernel's ticket.                     *)

(* serve: the next request, CTXPAGE or INSTALLED.                          *)
Receive(c) ==
    /\ Server(c, "idle")
    /\ over = "no" /\ c \notin cut
    /\ \/ cpc[c] = "asked" /\ Goto(c, "begin")
       \/ cpc[c] = "acking" /\ Goto(c, "ack")
    /\ sticket' = [sticket EXCEPT ![c] = 0] /\ sret' = [sret EXCEPT ![c] = "none"]
    /\ UNCHANGED <<pages, tickets, custody, client, claim, cut, bounds, over>>

(* source_custody_begin: refused in a poisoned address space; a ticket     *)
(* that cannot be reported is undone; else it is kept from here on.        *)
Begin(c) ==
    /\ Server(c, "begin")
    /\ \/ /\ \/ poisoned # {} /\ UNCHANGED faults
             \/ CopyoutFails
          /\ Answer(c, "FAILED")
          /\ UNCHANGED <<tickets, custody>>
       \/ /\ poisoned = {} /\ next \in Tickets
          /\ tst' = [tst EXCEPT ![next] = "begun"]
          /\ towner' = [towner EXCEPT ![next] = c]
          /\ tpage' = [tpage EXCEPT ![next] = cpage[c]]
          /\ next' = next + 1
          /\ pend' = [pend EXCEPT ![c] = pend[c] \cup {next}]
          /\ ent' = [ent EXCEPT ![next] = "begun"]
          /\ Goto(c, "capture")
          /\ sticket' = [sticket EXCEPT ![c] = next]
          /\ UNCHANGED <<tbytes, tcancelled, sret, faults>>
    /\ UNCHANGED <<pages, client, claim, cut, asks, unmaps, cuts, over>>

(* Another guard or a transition stands on the ticket's page.              *)
Busy(t) == Guarded(tpage[t]) \/ rec[tpage[t]] \in {"CLAIM", "TRANSIT"}
Becomes(t, st) == tst' = [tst EXCEPT ![t] = st]

(* Mutant: the capture waits until a transition of the page is over.       *)
CaptureGuard_Waits(c) ==
    /\ Server(c, "capture")
    /\ ~Busy(sticket[c])
    /\ Becomes(sticket[c], "guarded") /\ Then(c, "serve", "none")
    /\ UNCHANGED <<pages, towner, tpage, tbytes, tcancelled, next, custody, client, claim, cut, bounds, over>>

(* vmctx_capture_guard_begin: a busy page's ticket is cancelled again; else *)
(* the guard is published.                                                 *)
CaptureGuard(c) ==
    /\ Server(c, "capture")
    /\ IF Busy(sticket[c])
       THEN Becomes(sticket[c], "failed") /\ Then(c, "cancel", "CLAIMING")
       ELSE Becomes(sticket[c], "guarded") /\ Then(c, "serve", "none")
    /\ UNCHANGED <<pages, towner, tpage, tbytes, tcancelled, next, custody, client, claim, cut, bounds, over>>

(* CAPTURE with nothing to give: cancelled meanwhile (ESTALE, the entry is *)
(* retained); not mapped; or on loan already.                              *)
CaptureNothing(c) ==
    /\ Server(c, "serve")
    /\ LET t == sticket[c]  p == tpage[t] IN
       \/ tcancelled[t] /\ Becomes(t, "stale") /\ Answer(c, "FAILED")
       \/ /\ ~tcancelled[t] /\ Becomes(t, "empty")
          /\ \/ p \in unmapped /\ Then(c, "cancel", "NOMAP")
             \/ p \notin unmapped /\ rec[p] = "REMOTE" /\ Then(c, "cancel", "NOTHOLDER")
    /\ UNCHANGED <<pages, towner, tpage, tbytes, tcancelled, next, custody, client, claim, cut, bounds, over>>

(* CAPTURE: a private page is taken (or its zeros granted) and recorded in *)
(* transit; a sealed one is copied.  A result that is not copied out is a  *)
(* failure, with the capture committed.                                    *)
Capture(c) ==
    /\ Server(c, "serve")
    /\ LET t == sticket[c]  p == tpage[t] IN
       /\ ~tcancelled[t] /\ p \notin unmapped /\ rec[p] = "HOME"
       /\ tbytes' = [tbytes EXCEPT ![t] = src[p]]
       /\ IF p \in Sealed
          THEN Becomes(t, "copied") /\ UNCHANGED <<rec, src>>
          ELSE /\ Becomes(t, "granted")
               /\ rec' = [rec EXCEPT ![p] = "TRANSIT"]
               /\ src' = [src EXCEPT ![p] = Hole]
       /\ \/ Then(c, "read", "none") /\ ent' = [ent EXCEPT ![t] = "captured"] /\ UNCHANGED faults
          \/ CopyoutFails /\ Answer(c, "FAILED") /\ UNCHANGED ent
    /\ UNCHANGED <<dst, back, want, unmapped, poisoned, towner, tpage, tcancelled, next, pend,
                   client, claim, cut, asks, unmaps, cuts, over>>

(* READ offers the bytes; the ticket is kept for the acknowledgement.      *)
Read(c) ==
    /\ Server(c, "read")
    /\ LET t == sticket[c] IN
       \/ tcancelled[t] /\ Answer(c, "FAILED") /\ UNCHANGED <<ent, faults>>
       \/ ~tcancelled[t] /\ Answer(c, "BYTES") /\ ent' = [ent EXCEPT ![t] = "read"] /\ UNCHANGED faults
       \/ ~tcancelled[t] /\ CopyoutFails /\ Answer(c, "FAILED") /\ UNCHANGED ent
    /\ UNCHANGED <<pages, tickets, pend, client, claim, cut, asks, unmaps, cuts, over>>

(* The ticket is settled: its guard and its bytes are dropped.             *)
Settle(t) == Becomes(t, "acked") /\ tbytes' = [tbytes EXCEPT ![t] = Hole]

(* CANCEL, never of an unresolved grant; then FORGET.                      *)
Cancel(c) ==
    /\ Server(c, "cancel")
    /\ LET t == sticket[c] IN
       IF Grants(t) /\ ~tcancelled[t]
       THEN Answer(c, "FAILED") /\ UNCHANGED <<tst, tbytes, ent, faults>>
       ELSE /\ Settle(t)
            /\ \/ Then(c, "forget", sret[c]) /\ ent' = [ent EXCEPT ![t] = "settled"] /\ UNCHANGED faults
               \/ CopyoutFails /\ Answer(c, "FAILED") /\ UNCHANGED ent
    /\ UNCHANGED <<pages, towner, tpage, tcancelled, next, pend, client, claim, cut, asks, unmaps, cuts, over>>

(* source_custody_find and ACK.  The entry must have been read.  Cancelled *)
(* meanwhile: settled, and an error.  A grant's record becomes REMOTE.  A  *)
(* success that is not copied out settles nothing here.                    *)
Ack(c) ==
    /\ Server(c, "ack")
    /\ LET t == cticket[c]
           known == t \in pend[c] /\ ent[t] = "read"
           away == Grants(t) /\ ~tcancelled[t] IN
       IF ~known \/ (away /\ rec[tpage[t]] # "TRANSIT")
       THEN Answer(c, "REJECTED") /\ UNCHANGED <<rec, tst, tbytes, ent, faults>>
       ELSE /\ Settle(t)
            /\ rec' = IF away THEN [rec EXCEPT ![tpage[t]] = "REMOTE"] ELSE rec
            /\ \/ /\ Goto(c, "forget") /\ sticket' = [sticket EXCEPT ![c] = t]
                  /\ sret' = [sret EXCEPT ![c] = IF tcancelled[t] THEN "STALE" ELSE "OK"]
                  /\ ent' = [ent EXCEPT ![t] = "settled"]
                  /\ UNCHANGED faults
               \/ ~tcancelled[t] /\ CopyoutFails /\ Answer(c, "REJECTED") /\ UNCHANGED ent
    /\ UNCHANGED <<src, dst, back, want, unmapped, poisoned, towner, tpage, tcancelled, next, pend,
                   client, claim, cut, asks, unmaps, cuts, over>>

(* vmctx_transfer_free of the tickets T.                                   *)
Free(T) ==
    /\ tst' = [t \in Tickets |-> IF t \in T THEN "none" ELSE tst[t]]
    /\ towner' = [t \in Tickets |-> IF t \in T THEN Nobody ELSE towner[t]]
    /\ tpage' = [t \in Tickets |-> IF t \in T THEN Nobody ELSE tpage[t]]
    /\ tbytes' = [t \in Tickets |-> IF t \in T THEN Hole ELSE tbytes[t]]
    /\ tcancelled' = [t \in Tickets |-> t \notin T /\ tcancelled[t]]
    /\ UNCHANGED next

(* source_custody_retire: FORGET, and the entry is freed.                  *)
Forget(c) ==
    /\ Server(c, "forget")
    /\ Free({sticket[c]})
    /\ ent' = [ent EXCEPT ![sticket[c]] = "none"]
    /\ pend' = [pend EXCEPT ![c] = pend[c] \ {sticket[c]}]
    /\ Goto(c, "reply")
    /\ UNCHANGED <<sticket, sret, pages, client, claim, cut, bounds, over>>

(* The reply, with the receipt of the bytes; or the peer is gone.          *)
Reply(c) ==
    /\ Server(c, "reply")
    /\ IF over = "no" /\ c \notin cut
       THEN /\ Goto(c, "idle")
            /\ Now(c, IF cpc[c] = "acking" THEN "acked" ELSE "answered")
            /\ cans' = [cans EXCEPT ![c] = sret[c]]
            /\ IF sret[c] = "BYTES"
               THEN /\ cticket' = [cticket EXCEPT ![c] = sticket[c]]
                    /\ cbytes' = [cbytes EXCEPT ![c] = tbytes[sticket[c]]]
               ELSE UNCHANGED <<cticket, cbytes>>
       ELSE Goto(c, "close") /\ UNCHANGED <<cpc, cticket, cbytes, cans>>
    /\ UNCHANGED <<sticket, sret, cpage, pages, tickets, custody, claim, cut, bounds, over>>

(* The end of the stream is read.                                          *)
EndOfStream(c) ==
    /\ Server(c, "idle")
    /\ over # "no" \/ c \in cut \/ cpc[c] = "closed"
    /\ Goto(c, "close")
    /\ UNCHANGED <<sticket, sret, pages, tickets, custody, client, claim, cut, bounds, over>>

(* The tickets of the owners C, and the pages of their unsettled grants.   *)
Of(C) == {t \in Tickets : towner[t] \in C}
Abandoned(C) == {p \in Pages : \E t \in Of(C) : tpage[t] = p /\ Grants(t) /\ ~tcancelled[t]}

(* The collection is freed.                                                *)
Empty(c) ==
    /\ pend' = [pend EXCEPT ![c] = {}]
    /\ ent' = [t \in Tickets |-> IF t \in pend[c] THEN "none" ELSE ent[t]]

(* Mutant: the tickets are dropped as if nothing had been granted.         *)
Abandon_Forgives(c) ==
    /\ Server(c, "close")
    /\ Free(Of({c})) /\ Empty(c)
    /\ Goto(c, "closed")
    /\ UNCHANGED <<sticket, sret, pages, client, claim, cut, bounds, over>>

(* Mutant: the thread ends, and the session is left to the others.         *)
Abandon_Quiet(c) ==
    /\ Server(c, "close")
    /\ poisoned' = poisoned \cup Abandoned({c})
    /\ Free(Of({c})) /\ Empty(c)
    /\ Goto(c, "closed")
    /\ UNCHANGED <<sticket, sret, rec, src, dst, back, want, unmapped, client, claim, cut, bounds, over>>

(* source_connection_close, ABANDON: every ticket of the thread is ended   *)
(* and its unsettled grants poison the address space.                      *)
Abandon(c) ==
    /\ Server(c, "close")
    /\ poisoned' = poisoned \cup Abandoned({c})
    /\ Free(Of({c})) /\ Empty(c)
    /\ Goto(c, IF pend[c] # {} THEN "failing" ELSE "closed")
    /\ UNCHANGED <<sticket, sret, rec, src, dst, back, want, unmapped, client, claim, cut, bounds, over>>

(* source_adapter_failed: vmhome exits, and the exit of its threads        *)
(* abandons what they hold.                                                *)
AdapterFails(c) ==
    /\ Server(c, "failing")
    /\ over' = "source"
    /\ poisoned' = poisoned \cup Abandoned(Conns)
    /\ Free(Of(Conns))
    /\ pend' = [d \in Conns |-> {}]
    /\ ent' = [t \in Tickets |-> "none"]
    /\ UNCHANGED <<rec, src, dst, back, want, unmapped, server, client, claim, cut, bounds>>

(* Nothing is left to do.                                                  *)
Ended ==
    /\ over = "source" \/ \A c \in Conns : spc[c] = "closed"
    /\ UNCHANGED vars

-----------------------------------------------------------------------------
ClientStep(c) == Fetched(c) \/ AckFlush(c) \/ AckConfirmed(c) \/ CallFails(c)

ServerStep(c) ==
    \/ Receive(c) \/ Begin(c) \/ CaptureGuard(c) \/ CaptureNothing(c) \/ Capture(c)
    \/ Read(c) \/ Cancel(c) \/ Ack(c) \/ Forget(c) \/ Reply(c)
    \/ EndOfStream(c) \/ Abandon(c) \/ AdapterFails(c)

Next ==
    \/ \E p \in Pages : \/ SourceStore(p) \/ RecallAsk(p) \/ RecallTake(p)
                        \/ RecallLand(p) \/ Unmap(p)
    \/ \E c \in Conns, p \in Pages : GuestStore(c, p) \/ Fetch(c, p)
    \/ \E c \in Conns : ClientStep(c) \/ Finish(c) \/ Cut(c) \/ ServerStep(c)
    \/ Ended

Spec == Init /\ [][Next]_vars

(* A thread that is in a call goes on with it, at either end.              *)
FairSpec ==
    /\ Spec
    /\ \A c \in Conns : WF_vars(ClientStep(c)) /\ WF_vars(ServerStep(c))

-----------------------------------------------------------------------------
Answers == {"none", "BYTES", "FAILED", "CLAIMING", "NOMAP", "NOTHOLDER", "OK", "STALE", "REJECTED"}

PagesOK ==
    /\ rec \in [Pages -> {"HOME", "TRANSIT", "REMOTE", "CLAIM"}]
    /\ src \in [Pages -> Bytes] /\ dst \in [Pages -> Bytes]
    /\ back \in [Pages -> Bytes] /\ want \in [Pages -> Values]
    /\ unmapped \subseteq Pages /\ poisoned \subseteq Pages
    /\ claim \in [Pages -> Conns \cup {Nobody}]
TicketsOK ==
    /\ tst \in [Tickets -> {"none", "begun", "failed", "guarded", "stale", "empty",
                            "granted", "copied", "acked"}]
    /\ towner \in [Tickets -> Conns \cup {Nobody}] /\ tpage \in [Tickets -> Pages \cup {Nobody}]
    /\ tbytes \in [Tickets -> Bytes] /\ tcancelled \in [Tickets -> BOOLEAN]
    /\ next \in 1..(MaxTickets + 1)
    /\ pend \in [Conns -> SUBSET Tickets]
    /\ ent \in [Tickets -> {"none", "begun", "captured", "read", "settled"}]
ServersOK ==
    /\ spc \in [Conns -> {"idle", "begin", "capture", "serve", "read", "cancel", "ack",
                          "forget", "reply", "close", "failing", "closed"}]
    /\ sticket \in [Conns -> Tickets \cup {0}] /\ sret \in [Conns -> Answers]
ClientsOK ==
    /\ cpc \in [Conns -> {"run", "asked", "answered", "landed", "acking", "acked", "closed"}]
    /\ cpage \in [Conns -> Pages \cup {Nobody}] /\ cticket \in [Conns -> Tickets \cup {0}]
    /\ cbytes \in [Conns -> Bytes] /\ cans \in [Conns -> Answers]
SessionOK ==
    /\ cut \subseteq Conns
    /\ asks \in 0..MaxTickets /\ unmaps \in 0..MaxUnmaps
    /\ cuts \in 0..MaxCuts /\ faults \in 0..MaxFaults
    /\ over \in {"no", "destination", "source"}

TypeOK == PagesOK /\ TicketsOK /\ ServersOK /\ ClientsOK /\ SessionOK

(* What a connection's custody holds is exactly what the kernel has under  *)
(* its thread's name: no error path of ctx_page or ctx_page_ack drops the  *)
(* handle of a ticket that still stands, or keeps one that does not.       *)
CustodyExact ==
    \A c \in Conns : pend[c] = {t \in Tickets : towner[t] = c}

(* A thread of vmremote that is back in the guest has nothing unsettled at *)
(* the source, so the gate in serve() that refuses any other operation     *)
(* with custody outstanding never refuses one.                             *)
QuietMeansSettled ==
    \A c \in Conns : over = "no" /\ cpc[c] \in {"run", "closed"} => pend[c] = {}

(* The guest uses a page it was given only once the source has recorded it *)
(* as handed over: the reservation outlives the confirmation               *)
(* (source_receipt_finish).                                                *)
UsedWhenRecorded ==
    \A p \in Private \ unmapped :
        dst[p] # Hole /\ claim[p] = Nobody => rec[p] \in {"REMOTE", "CLAIM"}

(* The record of a mapped private page says where its only current bytes   *)
(* are: here, over there, on the way back, or under a ticket that is still *)
(* standing; and where the ticket was abandoned the page is poisoned, so   *)
(* that nobody invents the bytes (vmctx_transfer_owner_exit).              *)
RecordTrue ==
    \A p \in Private \ unmapped :
        /\ rec[p] = "HOME"    => src[p] = want[p] /\ dst[p] = Hole /\ back[p] = Hole
        /\ rec[p] = "TRANSIT" =>
              /\ src[p] = Hole /\ back[p] = Hole
              /\ \/ p \in poisoned
                 \/ \E t \in Tickets : /\ Grants(t) /\ ~tcancelled[t]
                                       /\ tpage[t] = p /\ tbytes[t] = want[p]
        /\ rec[p] = "REMOTE"  => src[p] = Hole /\ dst[p] = want[p] /\ back[p] = Hole
        /\ rec[p] = "CLAIM"   => /\ src[p] = Hole
                                 /\ \/ dst[p] = want[p] /\ back[p] = Hole
                                    \/ dst[p] = Hole /\ back[p] = want[p]

(* The session is ended by something that happened to it: a connection     *)
(* that broke, a result that could not be copied out, a page unmapped in   *)
(* the middle of its transfer; never by the exchange's own interleavings.  *)
EndsForCause == over # "no" => cut # {} \/ faults > 0 \/ unmapped # {}

(* A page that stays mapped moves as one copy (OneCopy): it leaves one     *)
(* machine, is on the wire, arrives, and is stored to only where it is.    *)
Place(p) == IF rec[p] = "HOME" THEN "source"
            ELSE IF rec[p] = "TRANSIT" \/ (rec[p] = "CLAIM" /\ dst[p] = Hole) THEN "wire"
            ELSE "destination"
Copy(p) == INSTANCE OneCopy WITH place <- Place(p), val <- want[p]

MovesAsOneCopy ==
    [][\A p \in Private : p \in unmapped' \/ [Copy(p)!Next]_<<Place(p), want[p]>>]_vars

(* Every fetch ends: with the page, with an answer to try again, or with   *)
(* the session.  The fetches are bounded, so that again and again none is  *)
(* outstanding (source_page_fetch, ack_flush and the serving thread).      *)
FetchEnds ==
    []<>(over # "no" \/ \A c \in Conns : cpc[c] \in {"run", "closed"})

(* Lost custody ends the whole session at the source, whichever connection *)
(* lost it; and once the destination has stopped, every connection thread  *)
(* of the source lets go of its tickets and guards                         *)
(* (source_connection_close).                                              *)
AllReleased ==
    poisoned # {} \/ over = "destination" ~>
        over = "source" \/ (poisoned = {} /\ \A t \in Tickets : tst[t] = "none")

=============================================================================
