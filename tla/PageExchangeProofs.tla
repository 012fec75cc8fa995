------------------------ MODULE PageExchangeProofs -------------------------
(***************************************************************************)
(* The page exchange, for any number of pages, connections, fetches,       *)
(* unmappings, broken connections and failed copyouts: a connection's      *)
(* custody is what the kernel has under its name, a thread back in the     *)
(* guest owes nothing, the page record is true, and a mapped page moves    *)
(* as one copy.                                                            *)
(*                                                                         *)
(* None of it is inductive alone.  The strengthening says where each of    *)
(* the three parties to a fetch is, given where the others are             *)
(* (Conversation), what that makes of the page (Landing), that a ticket's  *)
(* guard is alone on its page and a grant's record in transit (Tickets-    *)
(* Sound), and that whoever is in a fetch has the reservation (Reserved).  *)
(***************************************************************************)
EXTENDS PageExchange, TLAPS

Again == {"CLAIMING", "NOMAP", "NOTHOLDER"}
Mapped == Private \ unmapped

TicketSound(t) ==
    /\ tst[t] = "none" <=> towner[t] = Nobody
    /\ tst[t] = "none" => ~tcancelled[t]
    /\ tst[t] # "none" => tpage[t] \in Pages /\ t < next
    /\ tcancelled[t] => tpage[t] \in unmapped
    /\ tst[t] = "copied" => tpage[t] \in Sealed
    /\ Grants(t) => tpage[t] \in Private
    /\ Grants(t) /\ tpage[t] \in unmapped => tcancelled[t]
    /\ Grants(t) /\ ~tcancelled[t] => rec[tpage[t]] = "TRANSIT" /\ tbytes[t] = want[tpage[t]]

GuardsAlone ==
    \A t, u \in Tickets : HoldsGuard(t) /\ HoldsGuard(u) /\ tpage[t] = tpage[u] => t = u

TicketsSound == GuardsAlone /\ \A t \in Tickets : TicketSound(t)

Holds(c, t, S) == /\ t \in Tickets /\ pend[c] = {t}
                  /\ tpage[t] = cpage[c] /\ tst[t] \in S
Offered(c, t) == Holds(c, t, {"granted", "copied"}) /\ ent[t] = "read"

Conversation(c) ==
    /\ spc[c] \in {"begin", "capture", "serve", "read", "cancel"} => cpc[c] = "asked"
    /\ spc[c] = "ack" => cpc[c] = "acking"
    /\ spc[c] \in {"forget", "reply"} => cpc[c] \in {"asked", "acking"}
    /\ cpc[c] = "asked" /\ spc[c] \in {"idle", "begin"} => pend[c] = {}
    /\ spc[c] = "capture" => Holds(c, sticket[c], {"begun"})
    /\ spc[c] = "serve" => Holds(c, sticket[c], {"guarded"})
    /\ spc[c] = "read" => Holds(c, sticket[c], {"granted", "copied"})
    /\ spc[c] = "cancel" => Holds(c, sticket[c], {"failed", "empty"}) /\ sret[c] \in Again
    /\ spc[c] = "forget" =>
         /\ Holds(c, sticket[c], {"acked"})
         /\ cpc[c] = "asked" => sret[c] \in Again
         /\ cpc[c] = "acking" => sret[c] \in {"OK", "STALE"}
    /\ spc[c] = "reply" /\ cpc[c] = "asked" =>
         \/ sret[c] \in Again /\ pend[c] = {}
         \/ sret[c] = "BYTES" /\ Offered(c, sticket[c])
         \/ sret[c] = "FAILED"
    /\ spc[c] = "reply" /\ cpc[c] = "acking" =>
         \/ sret[c] \in {"OK", "STALE"} /\ pend[c] = {}
         \/ sret[c] = "REJECTED"
    /\ cpc[c] = "answered" =>
         \/ cans[c] \in Again /\ pend[c] = {}
         \/ cans[c] = "BYTES" /\ (spc[c] = "idle" => Offered(c, cticket[c]))
         \/ cans[c] = "FAILED"
    /\ cpc[c] = "landed" /\ spc[c] = "idle" => Offered(c, cticket[c])
    /\ cpc[c] = "acking" /\ spc[c] \in {"idle", "ack"} => Offered(c, cticket[c])
    /\ cpc[c] = "acked" =>
         \/ cans[c] \in {"OK", "STALE"} /\ pend[c] = {}
         \/ cans[c] = "REJECTED"
    /\ cpc[c] \in {"run", "closed"} => pend[c] = {}
    /\ spc[c] \in {"failing", "closed"} => pend[c] = {}

Reserved ==
    /\ \A c \in Conns : cpc[c] \notin {"run", "closed"} =>
         cpage[c] \in Pages /\ claim[cpage[c]] = c
    /\ \A p \in Mapped : rec[p] = "TRANSIT" => claim[p] # Nobody

(* The page of a fetch that is under way, while it is mapped.              *)
Landing(c) ==
    LET p == cpage[c] IN
    p \in Mapped =>
    /\ cpc[c] = "asked" /\ (\/ spc[c] \in {"idle", "begin", "capture", "serve", "cancel", "forget"}
                            \/ spc[c] = "reply" /\ sret[c] \in Again) => rec[p] # "TRANSIT"
    /\ cpc[c] = "answered" /\ cans[c] \in Again => rec[p] # "TRANSIT"
    /\ cpc[c] = "answered" /\ cans[c] = "BYTES" => rec[p] = "TRANSIT" /\ cbytes[c] = want[p]
    /\ cpc[c] = "landed" => rec[p] = "TRANSIT" /\ dst[p] = want[p]
    /\ cpc[c] = "acking" => rec[p] # "HOME" /\ dst[p] = want[p]
    /\ cpc[c] = "acking" /\ spc[c] \in {"forget", "reply"} /\ sret[c] = "OK" => rec[p] # "TRANSIT"
    /\ cpc[c] = "acked" /\ cans[c] = "OK" => rec[p] # "TRANSIT"

(* What can end a session from outside; and who will end it.               *)
Cause == cut # {} \/ faults > 0 \/ unmapped # {}
Bad == {"FAILED", "STALE", "REJECTED"}
Blamed(c) ==
    \/ sret[c] \in Bad \/ cans[c] \in Bad \/ spc[c] = "failing"
    \/ spc[c] = "close" /\ pend[c] # {}

Caused == /\ over # "no" \/ poisoned # {} => Cause
          /\ \A c \in Conns : Blamed(c) => Cause

IInv ==
    /\ TypeOK /\ TicketsSound /\ CustodyExact
    /\ over # "source" => \A c \in Conns : Conversation(c)
    /\ Reserved
    /\ \A c \in Conns : Landing(c)
    /\ UsedWhenRecorded /\ RecordTrue
    /\ Caused

-----------------------------------------------------------------------------
(* What a step need not look at: each part of the invariant, and the state *)
(* it depends on.                                                          *)

(* Nobody works on ticket t.                                               *)
Same(t) ==
    /\ tst'[t] = tst[t] /\ towner'[t] = towner[t] /\ tpage'[t] = tpage[t]
    /\ tbytes'[t] = tbytes[t] /\ tcancelled'[t] = tcancelled[t]

(* Such a ticket stays sound while the page of its grant stays.            *)
LEMMA TicketFrame ==
    ASSUME NEW t, TicketSound(t), Same(t), t < next => t < next', unmapped' = unmapped,
           Grants(t) /\ ~tcancelled[t] => /\ rec'[tpage[t]] = rec[tpage[t]]
                                          /\ want'[tpage[t]] = want[tpage[t]]
    PROVE  TicketSound(t)'
  BY DEF TicketSound, Grants, Same

(* Guards stay alone while none is added.                                  *)
LEMMA GuardsFrame ==
    ASSUME GuardsAlone,
           \A t \in Tickets : HoldsGuard(t)' => HoldsGuard(t) /\ tpage'[t] = tpage[t]
    PROVE  GuardsAlone'
  BY DEF GuardsAlone, HoldsGuard

(* All tickets stay sound where they, the record, the bytes last stored    *)
(* and the mappings stay.                                                  *)
LEMMA TicketsFrame ==
    ASSUME TicketsSound, UNCHANGED <<tst, towner, tpage, tbytes, tcancelled, next, rec, want, unmapped>>
    PROVE  TicketsSound'
  BY DEF TicketsSound, TicketSound, GuardsAlone, Grants, HoldsGuard

(* The threads of connection d do not move.                                *)
Still(d) ==
    /\ spc'[d] = spc[d] /\ sticket'[d] = sticket[d] /\ sret'[d] = sret[d]
    /\ cpc'[d] = cpc[d] /\ cpage'[d] = cpage[d] /\ cticket'[d] = cticket[d]
    /\ cbytes'[d] = cbytes[d] /\ cans'[d] = cans[d]

(* The tickets in custody of connection d stay as they are.                *)
Untouched(d) ==
    /\ pend'[d] = pend[d]
    /\ \A t \in pend[d] : tpage'[t] = tpage[t] /\ tst'[t] = tst[t] /\ ent'[t] = ent[t]

(* A conversation stays where it was if its two threads and the tickets in *)
(* its custody do.                                                         *)
LEMMA ConversationFrame ==
    ASSUME NEW d, Conversation(d), Still(d), Untouched(d)
    PROVE  Conversation(d)'
  <1>1. ASSUME NEW t, NEW S, Holds(d, t, S) PROVE Holds(d, t, S)'
    BY <1>1 DEF Holds, Still, Untouched
  <1>2. ASSUME NEW t, Offered(d, t) PROVE Offered(d, t)'
    BY <1>2 DEF Offered, Holds, Still, Untouched
  <1>3. pend'[d] = pend[d]
    BY DEF Untouched
  <1> QED
    BY <1>1, <1>2, <1>3 DEF Conversation, Still

(* A thread that is not in a fetch.                                        *)
Out == {"run", "closed"}

(* What a fetch makes of its page stays true if the two threads stay, and  *)
(* the page too, unless it is unmapped.                                    *)
LEMMA LandingFrame ==
    ASSUME NEW d \in Conns, Landing(d), Reserved, Still(d), unmapped \subseteq unmapped',
           \A p \in Mapped' : claim[p] = d => rec'[p] = rec[p] /\ dst'[p] = dst[p] /\ want'[p] = want[p]
    PROVE  Landing(d)'
  <1>1. CASE cpc[d] \in Out
    BY <1>1 DEF Landing, Still, Out
  <1>2. CASE cpc[d] \notin Out
    <2>1. claim[cpage[d]] = d
      BY Zenon, <1>2 DEF Reserved, Out
    <2> QED
      BY <2>1 DEF Landing, Mapped, Still
  <1> QED
    BY Zenon, <1>1, <1>2

(* The record stays true where the pages stay and the outstanding grants   *)
(* do.                                                                     *)
LEMMA RecordFrame ==
    ASSUME RecordTrue, UNCHANGED pages,
           \A t \in Tickets : Grants(t) /\ ~tcancelled[t] => Same(t)
    PROVE  RecordTrue'
  BY DEF RecordTrue, Grants, Same, pages

(* RecordTrue, of one page.                                                *)
RecordOf(p) ==
    /\ rec[p] = "HOME"    => src[p] = want[p] /\ dst[p] = Hole /\ back[p] = Hole
    /\ rec[p] = "TRANSIT" =>
          /\ src[p] = Hole /\ back[p] = Hole
          /\ \/ p \in poisoned
             \/ \E t \in Tickets : /\ Grants(t) /\ ~tcancelled[t]
                                   /\ tpage[t] = p /\ tbytes[t] = want[p]
    /\ rec[p] = "REMOTE"  => src[p] = Hole /\ dst[p] = want[p] /\ back[p] = Hole
    /\ rec[p] = "CLAIM"   => /\ src[p] = Hole
                             /\ \/ dst[p] = want[p] /\ back[p] = Hole
                                \/ dst[p] = Hole /\ back[p] = want[p]

(* The record is true page by page.                                        *)
LEMMA RecordOfAll == RecordTrue <=> \A p \in Mapped : RecordOf(p)
  BY Zenon DEF RecordTrue, RecordOf, Mapped

(* Use at the destination stays recorded where pages and reservations do.  *)
LEMMA UsedFrame ==
    ASSUME UsedWhenRecorded, UNCHANGED <<pages, claim>>
    PROVE  UsedWhenRecorded'
  BY DEF UsedWhenRecorded, pages

(* Nobody new is to blame, and the causes there were remain.               *)
LEMMA CausedFrame ==
    ASSUME Caused, Cause => Cause',
           \/ Cause'
           \/ over' = over /\ poisoned' = poisoned /\ \A d \in Conns : Blamed(d)' => Blamed(d)
    PROVE  Caused'
  BY DEF Caused

(* A copyout that fails is counted.                                        *)
LEMMA FaultCounted ==
    ASSUME TypeOK, faults' = faults \/ CopyoutFails, UNCHANGED <<cut, asks, unmaps, cuts, over>>
    PROVE  SessionOK' /\ (faults > 0 => faults' > 0) /\ (CopyoutFails => faults' > 0)
  BY ConstantsAssumption DEF TypeOK, SessionOK, CopyoutFails

(* Each group of variables keeps its type or its value.                    *)
LEMMA TypeFrame ==
    ASSUME TypeOK,
           UNCHANGED <<pages, claim>> \/ PagesOK',
           UNCHANGED <<tickets, custody>> \/ TicketsOK',
           UNCHANGED server \/ ServersOK',
           UNCHANGED client \/ ClientsOK',
           UNCHANGED <<cut, bounds, over>> \/ SessionOK'
    PROVE  TypeOK'
  <1>1. PagesOK'
    BY DEF TypeOK, PagesOK, pages
  <1>2. TicketsOK'
    BY DEF TypeOK, TicketsOK, tickets, custody
  <1>3. ServersOK'
    BY DEF TypeOK, ServersOK, server
  <1>4. ClientsOK'
    BY DEF TypeOK, ClientsOK, client
  <1>5. SessionOK'
    BY DEF TypeOK, SessionOK, bounds
  <1> QED
    BY <1>1, <1>2, <1>3, <1>4, <1>5 DEF TypeOK

-----------------------------------------------------------------------------
(* What the invariant says of a connection thread in the middle of a       *)
(* request: it works on a ticket of its own, for the page its client has   *)
(* reserved.                                                               *)
LEMMA Engaged ==
    ASSUME IInv, NEW c \in Conns, over # "source",
           spc[c] \in {"capture", "serve", "read", "cancel", "forget"}
    PROVE  /\ sticket[c] \in Tickets /\ pend[c] = {sticket[c]} /\ towner[sticket[c]] = c
           /\ tpage[sticket[c]] = cpage[c] /\ cpage[c] \in Pages /\ claim[cpage[c]] = c
           /\ TicketSound(sticket[c]) /\ Conversation(c) /\ Landing(c)
  <1>1. Conversation(c) /\ Reserved /\ CustodyExact /\ TicketsSound /\ Landing(c)
    BY Zenon DEF IInv
  <1>2. /\ sticket[c] \in Tickets /\ pend[c] = {sticket[c]} /\ tpage[sticket[c]] = cpage[c]
        /\ cpc[c] \notin {"run", "closed"}
    BY Zenon, <1>1 DEF Conversation, Holds
  <1> QED
    BY <1>1, <1>2 DEF CustodyExact, Reserved, TicketsSound

(* The tickets of two connections are apart.                               *)
LEMMA Disjoint ==
    ASSUME IInv, NEW c \in Conns, NEW d \in Conns, c # d, NEW t \in pend[c]
    PROVE  t \notin pend[d] /\ t \in Tickets /\ tst[t] # "none" /\ t < next
  <1>1. CustodyExact /\ TicketsSound
    BY Zenon DEF IInv
  <1>2. t \in Tickets /\ towner[t] = c /\ t \notin pend[d]
    BY <1>1 DEF CustodyExact
  <1> QED
    BY Zenon, <1>1, <1>2, ConstantsAssumption DEF TicketsSound, TicketSound

(* A step of a connection's threads that leaves pages and tickets alone.   *)
LEMMA Quietly ==
    ASSUME IInv, NEW c \in Conns, over # "source", TypeOK', UNCHANGED <<pages, tickets, pend>>,
           \A d \in Conns \ {c} : Still(d) /\ \A t \in pend[d] : ent'[t] = ent[t],
           \/ UNCHANGED <<claim, cpage>> /\ (cpc'[c] \notin Out => cpc[c] \notin Out)
           \/ Reserved' /\ UsedWhenRecorded',
           Conversation(c)', Landing(c)', Cause => Cause',
           Cause' \/ (over' = over /\ (Blamed(c)' => Blamed(c)))
    PROVE  IInv'
  <1>i. /\ TicketsSound /\ CustodyExact /\ Reserved /\ UsedWhenRecorded /\ RecordTrue /\ Caused
        /\ \A d \in Conns : Conversation(d) /\ Landing(d)
    BY Zenon DEF IInv
  <1>1. TicketsSound' /\ CustodyExact' /\ RecordTrue'
    BY Zenon, <1>i, TicketsFrame, RecordFrame DEF CustodyExact, Same, pages, tickets
  <1>2. \A d \in Conns \ {c} : Untouched(d)
    BY Zenon DEF Untouched, tickets
  <1>3. \A d \in Conns : Conversation(d)'
    BY Zenon, <1>i, <1>2, ConversationFrame
  <1>4. \A d \in Conns : Landing(d)'
    <2>1. ASSUME NEW d \in Conns, d # c PROVE Landing(d)'
      BY Zenon, <1>i, <2>1, LandingFrame DEF pages
    <2> QED
      BY Zenon, <2>1
  <1>5. Reserved' /\ UsedWhenRecorded'
    <2>1. CASE UNCHANGED <<claim, cpage>> /\ (cpc'[c] \notin Out => cpc[c] \notin Out)
      <3>1. \A d \in Conns : cpc'[d] \notin Out => cpc[d] \notin Out
        BY Zenon, <2>1 DEF Still
      <3> QED
        BY Zenon, <1>i, <2>1, <3>1, UsedFrame DEF Reserved, Mapped, Out, pages
    <2> QED
      BY Zenon, <2>1
  <1>6. Caused'
    <2>1. \A d \in Conns \ {c} : Blamed(d)' => Blamed(d)
      BY Zenon DEF Blamed, Still
    <2> QED
      BY Zenon, <1>i, <2>1, CausedFrame DEF pages
  <1> QED
    BY Zenon, <1>1, <1>3, <1>4, <1>5, <1>6 DEF IInv

(* A step of a connection thread on one ticket, u, that is no outstanding  *)
(* grant and does not become one.                                          *)
LEMMA OnTicket ==
    ASSUME IInv, NEW c \in Conns, over # "source", TypeOK', UNCHANGED <<pages, claim, client>>,
           NEW u \in Tickets, \A d \in Conns \ {c} : u \notin pend[d],
           \A t \in Tickets \ {u} : Same(t) /\ ent'[t] = ent[t] /\ (t < next => t < next'),
           ~Grants(u), ~Grants(u)', TicketSound(u)', CustodyExact',
           HoldsGuard(u)' => \/ HoldsGuard(u) /\ tpage'[u] = tpage[u]
                             \/ ~Guarded(tpage'[u]),
           \A d \in Conns \ {c} : Still(d) /\ pend'[d] = pend[d],
           Conversation(c)', Landing(c)', Cause => Cause',
           Cause' \/ (over' = over /\ (Blamed(c)' => Blamed(c)))
    PROVE  IInv'
  <1>i. /\ TicketsSound /\ CustodyExact /\ Reserved /\ UsedWhenRecorded /\ RecordTrue /\ Caused
        /\ \A d \in Conns : Conversation(d) /\ Landing(d)
    BY Zenon DEF IInv
  <1>1. GuardsAlone'
    <2>1. \A t \in Tickets \ {u} : (HoldsGuard(t)' <=> HoldsGuard(t)) /\ tpage'[t] = tpage[t]
      BY Zenon DEF HoldsGuard, Same
    <2>2. GuardsAlone
      BY Zenon, <1>i DEF TicketsSound
    <2>3. CASE HoldsGuard(u)' => HoldsGuard(u) /\ tpage'[u] = tpage[u]
      BY Zenon, <2>1, <2>2, <2>3 DEF GuardsAlone
    <2>4. CASE ~Guarded(tpage'[u])
      BY Zenon, <2>1, <2>2, <2>4 DEF GuardsAlone, Guarded
    <2> QED
      BY Zenon, <2>3, <2>4
  <1>2. \A t \in Tickets : TicketSound(t)'
    <2>1. ASSUME NEW t \in Tickets, t # u PROVE TicketSound(t)'
      BY Zenon, <1>i, <2>1, TicketFrame DEF TicketsSound, pages
    <2> QED
      BY Zenon, <2>1
  <1>3. RecordTrue' /\ UsedWhenRecorded' /\ Reserved'
    BY Zenon, <1>i, RecordFrame, UsedFrame DEF Reserved, Mapped, pages, client
  <1>4. \A d \in Conns \ {c} : Untouched(d)
    <2>1. \A d \in Conns : pend[d] \subseteq Tickets
      BY Zenon, <1>i DEF CustodyExact
    <2> QED
      BY Zenon, <2>1 DEF Untouched, Same
  <1>5. \A d \in Conns : Conversation(d)'
    BY Zenon, <1>i, <1>4, ConversationFrame
  <1>6. \A d \in Conns : Landing(d)'
    <2>1. ASSUME NEW d \in Conns, d # c PROVE Landing(d)'
      BY Zenon, <1>i, <2>1, LandingFrame DEF pages
    <2> QED
      BY Zenon, <2>1
  <1>7. Caused'
    <2>1. \A d \in Conns \ {c} : Blamed(d)' => Blamed(d)
      BY Zenon DEF Blamed, Still
    <2> QED
      BY Zenon, <1>i, <2>1, CausedFrame DEF pages
  <1> QED
    BY Zenon, <1>1, <1>2, <1>3, <1>5, <1>6, <1>7 DEF IInv, TicketsSound

-----------------------------------------------------------------------------
(* The steps that only move the threads of a connection.                   *)

(* ack_flush: the bytes have landed, and the ticket was offered.           *)
LEMMA AckFlushKeeps == ASSUME IInv, NEW c \in Conns, AckFlush(c) PROVE IInv'
  <1>i. TypeOK /\ over # "source" /\ Conversation(c) /\ Landing(c)
    BY DEF IInv, AckFlush, Client
  <1>u. /\ UNCHANGED <<pages, tickets, custody, pend, ent, server, claim, cut, bounds, over>>
        /\ UNCHANGED <<cpage, cticket, cbytes, cans>>
    BY DEF AckFlush, custody
  <1>1. cpc[c] = "landed" /\ cpc'[c] = "acking" /\ ClientsOK' /\ \A d \in Conns \ {c} : Still(d)
    BY Zenon, <1>i, <1>u DEF TypeOK, ClientsOK, AckFlush, Client, Now, Still, server
  <1>2. TypeOK'
    BY Zenon, <1>i, <1>u, <1>1, TypeFrame
  <1>3. Conversation(c)'
    BY Zenon, <1>i, <1>u, <1>1 DEF Conversation, Holds, Offered, tickets, server
  <1>4. Landing(c)'
    BY Zenon, <1>i, <1>u, <1>1 DEF Landing, Conversation, Mapped, pages, server
  <1>5. Cause' = Cause /\ Blamed(c)' = Blamed(c)
    BY Zenon, <1>u DEF Cause, Blamed, pages, server, bounds
  <1> QED
    BY <1>i, <1>u, <1>1, <1>2, <1>3, <1>4, <1>5, Quietly DEF Out

(* vmremote stops, for cause, and leaves all as it is.                     *)
LEMMA StopKeeps ==
    ASSUME IInv, NEW c \in Conns, over # "source", over' = "destination", Cause,
           UNCHANGED <<pages, tickets, custody, server, client, claim, cut, bounds>>
    PROVE  IInv'
  <1>i. TypeOK /\ Conversation(c) /\ Landing(c)
    BY DEF IInv
  <1>u. UNCHANGED <<pend, ent, cpc, cpage>>
    BY Zenon DEF custody, client
  <1>1. SessionOK' /\ Cause' /\ \A d \in Conns : Still(d) /\ Untouched(d)
    BY <1>i, <1>u DEF TypeOK, SessionOK, Still, Untouched, Cause, pages, server, client, bounds, tickets
  <1>2. TypeOK'
    BY <1>i, <1>1, TypeFrame
  <1>3. Conversation(c)'
    BY Zenon, <1>i, <1>1, ConversationFrame
  <1>4. Landing(c)'
    BY Zenon, <1>i DEF Landing, Mapped, pages, server, client
  <1> QED
    BY <1>i, <1>u, <1>1, <1>2, <1>3, <1>4, Quietly

(* home_call fails on a connection that broke.                             *)
LEMMA CallFailsKeeps == ASSUME IInv, NEW c \in Conns, CallFails(c) PROVE IInv'
  BY Zenon, StopKeeps DEF CallFails, Cause

(* A context ends with nothing outstanding.                                *)
LEMMA FinishKeeps == ASSUME IInv, NEW c \in Conns, Finish(c) PROVE IInv'
  <1>i. TypeOK /\ over # "source" /\ Conversation(c) /\ Landing(c)
    BY DEF IInv, Finish, Client
  <1>u. /\ UNCHANGED <<pages, tickets, custody, pend, ent, server, claim, cut, bounds, over>>
        /\ UNCHANGED <<cpage, cticket, cbytes, cans>>
    BY Zenon DEF Finish, custody
  <1>1. cpc[c] = "run" /\ cpc'[c] = "closed" /\ ClientsOK' /\ \A d \in Conns \ {c} : Still(d)
    BY Zenon, <1>i, <1>u DEF TypeOK, ClientsOK, Finish, Client, Now, Still, server
  <1>2. TypeOK'
    BY Zenon, <1>i, <1>u, <1>1, TypeFrame
  <1>3. Conversation(c)'
    BY Zenon, <1>i, <1>u, <1>1 DEF Conversation, Holds, Offered, tickets, server
  <1>4. Landing(c)'
    BY Zenon, <1>1 DEF Landing
  <1>5. Cause' = Cause /\ Blamed(c)' = Blamed(c)
    BY Zenon, <1>u DEF Cause, Blamed, pages, server, bounds
  <1> QED
    BY Zenon, <1>i, <1>u, <1>1, <1>2, <1>3, <1>4, <1>5, Quietly DEF Out

(* A connection breaks, which is a cause.                                  *)
LEMMA CutKeeps == ASSUME IInv, NEW c \in Conns, Cut(c) PROVE IInv'
  <1>i. TypeOK /\ over # "source" /\ Conversation(c) /\ Landing(c)
    BY DEF IInv, Cut
  <1>u. /\ UNCHANGED <<pages, tickets, custody, pend, ent, server, client, claim, over>>
        /\ UNCHANGED <<cpc, cpage>> /\ c \in cut'
    BY DEF Cut, custody, client
  <1>0. SessionOK'
    BY <1>i, ConstantsAssumption DEF TypeOK, SessionOK, Cut
  <1>1. Cause' /\ \A d \in Conns : Still(d) /\ Untouched(d)
    BY <1>u DEF Still, Untouched, Cause, server, client, tickets
  <1>2. TypeOK'
    BY <1>i, <1>u, <1>0, TypeFrame
  <1>3. Conversation(c)'
    BY Zenon, <1>i, <1>1, ConversationFrame
  <1>4. Landing(c)'
    BY Zenon, <1>i, <1>u DEF Landing, Mapped, pages, server, client
  <1> QED
    BY Zenon, <1>i, <1>u, <1>1, <1>2, <1>3, <1>4, Quietly

(* serve: a request is read, and the answer to the one before is gone.     *)
LEMMA ReceiveKeeps == ASSUME IInv, NEW c \in Conns, Receive(c) PROVE IInv'
  <1>i. TypeOK /\ over # "source" /\ Conversation(c) /\ Landing(c)
    BY DEF IInv, Receive
  <1>u. /\ UNCHANGED <<pages, tickets, custody, pend, ent, client, claim, cut, bounds, over>>
        /\ UNCHANGED <<cpc, cpage, cticket, cbytes, cans>>
    BY Zenon DEF Receive, custody, client
  <1>1. /\ spc[c] = "idle" /\ sret'[c] = "none" /\ ServersOK' /\ \A d \in Conns \ {c} : Still(d)
        /\ \/ cpc[c] = "asked" /\ spc'[c] = "begin"
           \/ cpc[c] = "acking" /\ spc'[c] = "ack"
    BY Zenon, <1>i, <1>u DEF TypeOK, ServersOK, Answers, Receive, Server, Goto, Still, client
  <1>2. TypeOK'
    BY Zenon, <1>i, <1>u, <1>1, TypeFrame
  <1>3. Conversation(c)'
    BY Zenon, <1>i, <1>u, <1>1 DEF Conversation, Holds, Offered, tickets
  <1>4. Landing(c)'
    BY Zenon, <1>i, <1>u, <1>1 DEF Landing, Mapped, pages
  <1>5. Cause' = Cause /\ (Blamed(c)' => Blamed(c))
    BY Zenon, <1>u, <1>1 DEF Cause, Blamed, Bad, pages, bounds
  <1> QED
    BY Zenon, <1>i, <1>u, <1>1, <1>2, <1>3, <1>4, <1>5, Quietly

(* The end of the stream is read: with custody outstanding only where the  *)
(* connection broke or the session was ended.                              *)
LEMMA EndOfStreamKeeps == ASSUME IInv, NEW c \in Conns, EndOfStream(c) PROVE IInv'
  <1>i. TypeOK /\ over # "source" /\ Conversation(c) /\ Landing(c) /\ Caused
    BY Zenon DEF IInv, EndOfStream, Server
  <1>u. /\ UNCHANGED <<pages, tickets, custody, pend, ent, client, claim, cut, bounds, over>>
        /\ UNCHANGED <<cpc, cpage, cticket, cbytes, cans, sticket, sret>>
    BY Zenon DEF EndOfStream, custody, client
  <1>1. spc[c] = "idle" /\ spc'[c] = "close" /\ ServersOK' /\ \A d \in Conns \ {c} : Still(d)
    BY Zenon, <1>i, <1>u DEF TypeOK, ServersOK, EndOfStream, Server, Goto, Still
  <1>2. TypeOK'
    BY Zenon, <1>i, <1>u, <1>1, TypeFrame
  <1>3. Conversation(c)'
    BY Zenon, <1>i, <1>u, <1>1 DEF Conversation, Holds, Offered, tickets
  <1>4. Landing(c)'
    BY Zenon, <1>i, <1>u, <1>1 DEF Landing, Mapped, pages
  <1>5. Cause' = Cause
    BY <1>u DEF Cause, pages, bounds
  <1>6. Cause \/ (Blamed(c)' => Blamed(c))
    <2>1. CASE over # "no" \/ c \in cut
      BY Zenon, <1>i, <2>1 DEF Caused, Cause
    <2>2. CASE cpc[c] = "closed"
      BY Zenon, <1>i, <1>u, <1>1, <2>2 DEF Conversation, Blamed
    <2> QED
      BY <2>1, <2>2 DEF EndOfStream
  <1> QED
    BY Zenon, <1>i, <1>u, <1>1, <1>2, <1>3, <1>4, <1>5, <1>6, Quietly

(* READ: the bytes are offered and the ticket kept, or the read fails.     *)
LEMMA ReadKeeps == ASSUME IInv, NEW c \in Conns, Read(c) PROVE IInv'
  <1>i. TypeOK /\ over # "source" /\ spc[c] = "read" /\ Caused
    BY Zenon DEF IInv, Read, Server
  <1>e. /\ sticket[c] \in Tickets /\ pend[c] = {sticket[c]} /\ Conversation(c) /\ Landing(c)
        /\ TicketSound(sticket[c])
    BY <1>i, Engaged
  <1>u. /\ UNCHANGED <<pages, tickets, pend, client, claim, cut, asks, unmaps, cuts, over>>
        /\ UNCHANGED <<cpc, cpage, cticket, cbytes, cans, unmapped, tcancelled, tst, tpage, sticket>>
    BY Zenon DEF Read, Answer, Then, client, pages, tickets
  <1>1. /\ spc'[c] = "reply" /\ ServersOK' /\ \A d \in Conns \ {c} : Still(d)
        /\ sret'[c] \in {"FAILED", "BYTES"}
    BY Zenon, <1>i, <1>u DEF TypeOK, ServersOK, Answers, Read, Answer, Then, Goto, Still
  <1>2. /\ ent' \in [Tickets -> {"none", "begun", "captured", "read", "settled"}]
        /\ sret'[c] = "BYTES" => ent'[sticket[c]] = "read"
        /\ \A t \in Tickets : t # sticket[c] => ent'[t] = ent[t]
    BY <1>i, <1>e DEF TypeOK, TicketsOK, ServersOK, Read, Answer, Then
  <1>3. faults' \in 0..MaxFaults /\ (sret'[c] = "FAILED" => tcancelled[sticket[c]] \/ faults' > 0)
        /\ (faults > 0 => faults' > 0)
    BY <1>i, ConstantsAssumption DEF TypeOK, ServersOK, SessionOK, Read, Answer, Then, CopyoutFails
  <1>4. TicketsOK' /\ SessionOK'
    BY Zenon, <1>i, <1>u, <1>2, <1>3 DEF TypeOK, TicketsOK, SessionOK, tickets
  <1>5. TypeOK'
    BY Zenon, <1>i, <1>u, <1>1, <1>4, TypeFrame
  <1>6. Conversation(c)'
    BY Zenon, <1>e, <1>u, <1>1, <1>2, <1>i DEF Conversation, Holds, Offered
  <1>7. Landing(c)'
    BY Zenon, <1>e, <1>u, <1>1, <1>i DEF Landing, Conversation, Mapped, Again, pages
  <1>8. \A d \in Conns \ {c} : \A t \in pend[d] : ent'[t] = ent[t]
    BY Zenon, <1>e, <1>2, Disjoint
  <1>9. (Cause => Cause') /\ (Cause' \/ (Blamed(c)' => Blamed(c)))
    <2>1. tcancelled[sticket[c]] => unmapped # {}
      BY Zenon, <1>e DEF TicketSound
    <2> QED
      BY Zenon, <1>u, <1>1, <1>3, <1>i, <2>1 DEF Cause, Blamed, Bad
  <1> QED
    BY Zenon, <1>i, <1>e, <1>u, <1>1, <1>5, <1>6, <1>7, <1>8, <1>9, Quietly

(* The reply: the answer is at the other end, or the peer is gone.         *)
LEMMA ReplyKeeps == ASSUME IInv, NEW c \in Conns, Reply(c) PROVE IInv'
  <1>i. TypeOK /\ over # "source" /\ Conversation(c) /\ Landing(c) /\ Caused /\ TicketsSound /\ Reserved
    BY Zenon DEF IInv, Reply, Server
  <1>u. /\ UNCHANGED <<pages, tickets, custody, pend, ent, claim, cut, bounds, over>>
        /\ UNCHANGED <<sticket, sret, cpage, rec, dst, want, unmapped, tst, tpage, tbytes>>
    BY Zenon DEF Reply, custody, pages, tickets
  <1>0. spc[c] = "reply" /\ cpc[c] \in {"asked", "acking"} /\ cpage[c] \in Pages
    BY Zenon, <1>i DEF Reply, Server, Conversation, Reserved
  <1>1. /\ \A d \in Conns \ {c} : Still(d)
        /\ \/ /\ spc'[c] = "idle" /\ cans'[c] = sret[c]
              /\ cpc'[c] = IF cpc[c] = "acking" THEN "acked" ELSE "answered"
              /\ sret[c] = "BYTES" => cticket'[c] = sticket[c] /\ cbytes'[c] = tbytes[sticket[c]]
           \/ /\ spc'[c] = "close" /\ (over # "no" \/ c \in cut)
              /\ UNCHANGED <<cpc, cticket, cbytes, cans>>
    BY <1>i, <1>u DEF TypeOK, ServersOK, ClientsOK, Reply, Now, Goto, Still
  <1>b. sret[c] = "BYTES" => sticket[c] \in Tickets /\ tbytes[sticket[c]] \in Bytes
    BY Zenon, <1>i, <1>0 DEF Conversation, Offered, Holds, TypeOK, TicketsOK, Again
  <1>2. ServersOK' /\ ClientsOK'
    BY <1>i, <1>u, <1>b DEF TypeOK, ServersOK, ClientsOK, Reply, Now, Goto
  <1>3. TypeOK'
    BY <1>i, <1>u, <1>2, TypeFrame
  <1>4. Conversation(c)'
    BY Zenon, <1>i, <1>u, <1>0, <1>1 DEF Conversation, Holds, Offered, Again
  <1>5. Landing(c)'
    <2>1. /\ cpage[c] \in Mapped /\ cpc[c] = "asked" /\ sret[c] = "BYTES" =>
               rec[cpage[c]] = "TRANSIT" /\ tbytes[sticket[c]] = want[cpage[c]]
          /\ cpc[c] = "asked" /\ sret[c] \notin Again => sret[c] \in {"BYTES", "FAILED"}
          /\ cpc[c] = "acking" => sret[c] \in {"OK", "STALE", "REJECTED"}
      BY Zenon, <1>i, <1>0 DEF Conversation, Offered, Holds, TicketsSound, TicketSound, Grants, Mapped, Private, Again
    <2> QED
      BY Zenon, <1>i, <1>u, <1>0, <1>1, <2>1 DEF Landing, Mapped, Again
  <1>6. /\ Cause' = Cause /\ (Cause \/ (Blamed(c)' => Blamed(c)))
        /\ cpc'[c] \notin Out => cpc[c] \notin Out
    <2>1. CASE over # "no" \/ c \in cut
      BY Zenon, <1>i, <1>u, <1>0, <2>1 DEF Caused, Cause, Out, bounds
    <2>2. CASE spc'[c] = "idle" /\ cans'[c] = sret[c]
      BY Zenon, <1>u, <1>0, <2>2 DEF Cause, Blamed, Out, bounds
    <2> QED
      BY Zenon, <1>1, <2>1, <2>2
  <1> QED
    BY Zenon, <1>i, <1>u, <1>1, <1>3, <1>4, <1>5, <1>6, Quietly

(* A fault reserves a page nobody has reserved.                            *)
LEMMA FetchKeeps == ASSUME IInv, NEW c \in Conns, NEW p \in Pages, Fetch(c, p) PROVE IInv'
  <1>i. /\ TypeOK /\ over # "source" /\ Conversation(c) /\ Reserved /\ UsedWhenRecorded
        /\ dst[p] = Hole /\ claim[p] = Nobody
    BY DEF IInv, Fetch, Client
  <1>u. /\ UNCHANGED <<pages, tickets, custody, pend, ent, server, cut, unmaps, cuts, faults, over>>
        /\ UNCHANGED <<cticket, cbytes, cans, rec, dst, want, unmapped>>
    BY Zenon DEF Fetch, custody, pages
  <1>0. /\ cpc[c] = "run" /\ cpc'[c] = "asked" /\ cpage'[c] = p /\ claim'[p] = c
        /\ \A q \in Pages : q # p => claim'[q] = claim[q]
        /\ \A d \in Conns \ {c} : Still(d)
    BY Zenon, <1>i, <1>u DEF TypeOK, ClientsOK, PagesOK, Fetch, Client, Now, Still, server
  <1>1. PagesOK' /\ ClientsOK' /\ SessionOK'
    BY <1>i, <1>u, ConstantsAssumption DEF TypeOK, PagesOK, ClientsOK, SessionOK, Fetch, Now, pages
  <1>2. TypeOK'
    BY Zenon, <1>i, <1>u, <1>1, TypeFrame
  <1>3. Conversation(c)'
    BY Zenon, <1>i, <1>u, <1>0 DEF Conversation, Holds, Offered, tickets, server
  <1>4. Landing(c)'
    BY Zenon, <1>i, <1>u, <1>0 DEF Landing, Reserved, Mapped
  <1>5. UsedWhenRecorded'
    BY Zenon, <1>i, <1>u, <1>0, ConstantsAssumption DEF UsedWhenRecorded, Private
  <1>6. Reserved'
    <2>1. ASSUME NEW d \in Conns, d # c, cpc'[d] \notin {"run", "closed"}
          PROVE  cpage'[d] \in Pages /\ claim'[cpage'[d]] = d
      <3>1. cpc[d] \notin {"run", "closed"} /\ cpage'[d] = cpage[d]
        BY Zenon, <1>0, <2>1 DEF Still
      <3>2. cpage[d] \in Pages /\ claim[cpage[d]] = d
        BY Zenon, <1>i, <3>1 DEF Reserved
      <3>3. cpage[d] # p
        BY Zenon, <1>i, <3>2, ConstantsAssumption
      <3> QED
        BY Zenon, <1>0, <3>1, <3>2, <3>3
    <2>2. ASSUME NEW q \in Mapped, rec[q] = "TRANSIT" PROVE claim'[q] # Nobody
      BY Zenon, <1>i, <1>0, <2>2, ConstantsAssumption DEF Reserved, Mapped, Private
    <2> QED
      BY Zenon, <1>u, <1>0, <2>1, <2>2 DEF Reserved, Mapped
  <1>7. Cause' = Cause /\ Blamed(c)' = Blamed(c)
    BY Zenon, <1>u, <1>0 DEF Cause, Blamed, server
  <1> QED
    BY Zenon, <1>i, <1>u, <1>0, <1>2, <1>3, <1>4, <1>5, <1>6, <1>7, Quietly

(* The reservation ends when the record of its page is settled, and        *)
(* nothing is in custody.                                                  *)
LEMMA ReturnFrame ==
    ASSUME IInv, NEW c \in Conns, cpc[c] \notin Out, Return(c), UNCHANGED <<pages, server>>,
           cpage[c] \in Mapped => rec[cpage[c]] # "TRANSIT"
    PROVE  /\ Reserved' /\ UsedWhenRecorded' /\ PagesOK' /\ ClientsOK'
           /\ cpc'[c] = "run" /\ cans'[c] = "none" /\ \A d \in Conns \ {c} : Still(d)
  <1>i. PagesOK /\ ClientsOK /\ Reserved /\ UsedWhenRecorded /\ RecordTrue
    BY DEF IInv, TypeOK
  <1>u. UNCHANGED <<rec, src, dst, back, want, unmapped, poisoned>>
    BY Zenon DEF pages
  <1>p. cpage[c] \in Pages /\ claim[cpage[c]] = c
    BY Zenon, <1>i DEF Reserved, Out
  <1>1. /\ claim'[cpage[c]] = Nobody /\ \A q \in Pages : q # cpage[c] => claim'[q] = claim[q]
        /\ PagesOK'
    BY Zenon, <1>i, <1>u, <1>p DEF PagesOK, Return
  <1>2. /\ cpc'[c] = "run" /\ cans'[c] = "none" /\ ClientsOK'
        /\ \A d \in Conns \ {c} : Still(d)
    BY Zenon, <1>i DEF ClientsOK, Return, Now, Answers, Bytes, Still, server
  <1>3. UsedWhenRecorded'
    <2>1. cpage[c] \in Mapped /\ dst[cpage[c]] # Hole => rec[cpage[c]] \in {"REMOTE", "CLAIM"}
      BY <1>i DEF RecordTrue, PagesOK, Mapped, Private
    <2> QED
      BY Zenon, <1>i, <1>u, <1>1, <2>1 DEF UsedWhenRecorded, Mapped, Private
  <1>4. Reserved'
    <2>1. ASSUME NEW d \in Conns, cpc'[d] \notin {"run", "closed"}
          PROVE  cpage'[d] \in Pages /\ claim'[cpage'[d]] = d
      <3>1. d # c /\ cpage'[d] = cpage[d] /\ cpc[d] \notin {"run", "closed"}
        BY Zenon, <1>2, <2>1 DEF Still
      <3>2. cpage[d] \in Pages /\ claim[cpage[d]] = d
        BY Zenon, <1>i, <3>1 DEF Reserved
      <3> QED
        BY Zenon, <1>p, <1>1, <3>1, <3>2
    <2>2. ASSUME NEW q \in Mapped, rec[q] = "TRANSIT" PROVE claim'[q] # Nobody
      BY <1>i, <1>1, <2>2 DEF Reserved, Mapped, Private
    <2> QED
      BY Zenon, <1>u, <2>1, <2>2 DEF Reserved, Mapped
  <1> QED
    BY Zenon, <1>1, <1>2, <1>3, <1>4

(* A fetch that is over leaves the rest of the invariant alone.            *)
LEMMA ReturnKeeps ==
    ASSUME IInv, NEW c \in Conns, over # "source", cpc[c] \in {"answered", "acked"}, Return(c),
           pend[c] = {}, cpage[c] \in Mapped => rec[cpage[c]] # "TRANSIT",
           UNCHANGED <<pages, tickets, custody, server, cut, bounds, over>>
    PROVE  IInv'
  <1>i. TypeOK /\ Conversation(c)
    BY Zenon DEF IInv
  <1>u. UNCHANGED <<pend, ent>>
    BY DEF custody
  <1>1. /\ Reserved' /\ UsedWhenRecorded' /\ PagesOK' /\ ClientsOK'
        /\ cpc'[c] = "run" /\ cans'[c] = "none" /\ \A d \in Conns \ {c} : Still(d)
    BY Zenon, ReturnFrame DEF Out
  <1>2. TypeOK'
    BY Zenon, <1>i, <1>1, TypeFrame
  <1>3. Conversation(c)' /\ Landing(c)'
    BY Zenon, <1>i, <1>u, <1>1 DEF Conversation, Landing, Holds, Offered, tickets, server
  <1>4. Cause' = Cause /\ (Blamed(c)' => Blamed(c))
    BY Zenon, <1>u, <1>1 DEF Cause, Blamed, Bad, pages, server, bounds
  <1> QED
    BY Zenon, <1>i, <1>u, <1>1, <1>2, <1>3, <1>4, Quietly

(* The acknowledgement's answer: confirmed, the reservation ends; else the *)
(* session does, for cause.                                                *)
LEMMA AckConfirmedKeeps == ASSUME IInv, NEW c \in Conns, AckConfirmed(c) PROVE IInv'
  <1>i. over # "source" /\ Conversation(c) /\ Landing(c) /\ Caused /\ cpc[c] = "acked"
    BY DEF IInv, AckConfirmed, Client
  <1>1. CASE cans[c] = "OK" /\ Return(c) /\ UNCHANGED over
    <2>1. pend[c] = {} /\ (cpage[c] \in Mapped => rec[cpage[c]] # "TRANSIT")
      BY Zenon, <1>i, <1>1 DEF Landing, Conversation
    <2> QED
      BY Zenon, <1>i, <1>1, <2>1, ReturnKeeps DEF AckConfirmed
  <1>2. CASE cans[c] # "OK" /\ over' = "destination" /\ UNCHANGED <<client, claim>>
    <2>1. Cause
      BY Zenon, <1>i, <1>2 DEF Conversation, Caused, Blamed, Bad
    <2> QED
      BY Zenon, <1>i, <1>2, <2>1, StopKeeps DEF AckConfirmed
  <1> QED
    BY <1>1, <1>2 DEF AckConfirmed

(* The bytes of a page in transit are landed.                              *)
LEMMA LandedKeeps ==
    ASSUME IInv, NEW c \in Conns, over # "source", cpc[c] = "answered", cans[c] = "BYTES",
           dst' = [dst EXCEPT ![cpage[c]] = cbytes[c]], Now(c, "landed"),
           UNCHANGED <<cpage, cticket, cbytes, cans, claim, over>>,
           UNCHANGED <<rec, src, back, want, unmapped, poisoned, tickets, custody, server, cut, bounds>>
    PROVE  IInv'
  <1>i. /\ TypeOK /\ Conversation(c) /\ Reserved /\ TicketsSound /\ CustodyExact /\ Caused
        /\ UsedWhenRecorded /\ RecordTrue /\ \A d \in Conns : Conversation(d) /\ Landing(d)
    BY Zenon DEF IInv
  <1>u. UNCHANGED <<pend, ent, tst, towner, tpage, tbytes, tcancelled, next, faults>>
    BY Zenon DEF tickets, custody, bounds
  <1>0. cpage[c] \in Pages /\ claim[cpage[c]] = c
    BY Zenon, <1>i DEF Reserved
  <1>1. /\ dst'[cpage[c]] = cbytes[c] /\ \A q \in Pages : q # cpage[c] => dst'[q] = dst[q]
        /\ cpc'[c] = "landed" /\ \A d \in Conns \ {c} : Still(d) /\ Untouched(d)
    BY Zenon, <1>i, <1>0, <1>u DEF TypeOK, PagesOK, ClientsOK, Now, Still, Untouched, server
  <1>2. PagesOK' /\ ClientsOK'
    BY Zenon, <1>i, <1>0 DEF TypeOK, PagesOK, ClientsOK, Now
  <1>3. TypeOK'
    BY Zenon, <1>i, <1>2, TypeFrame
  <1>4. TicketsSound' /\ CustodyExact'
    BY Zenon, <1>i, <1>u, TicketsFrame DEF CustodyExact
  <1>5. Conversation(c)'
    BY Zenon, <1>i, <1>u, <1>1 DEF Conversation, Holds, Offered, Again, server
  <1>6. \A d \in Conns : Conversation(d)'
    BY Zenon, <1>i, <1>1, <1>5, ConversationFrame
  <1>7. Landing(c)'
    BY Zenon, <1>i, <1>0, <1>1 DEF Landing, Mapped, server
  <1>8. ASSUME NEW d \in Conns, d # c PROVE Landing(d)'
    BY Zenon, <1>i, <1>0, <1>1, <1>8, LandingFrame DEF Mapped, Private
  <1>9. Reserved'
    BY Zenon, <1>i, <1>0, <1>1 DEF Reserved, Mapped, Still
  <1>10. UsedWhenRecorded'
    <2>1. ASSUME NEW q \in Private \ unmapped, dst'[q] # Hole, claim[q] = Nobody
          PROVE  q # cpage[c] /\ dst'[q] = dst[q]
      BY Zenon, <1>0, <1>1, <2>1, ConstantsAssumption DEF Private
    <2> QED
      BY Zenon, <1>i, <2>1 DEF UsedWhenRecorded
  <1>11. RecordTrue'
    <2>1. cpage[c] \in Mapped => rec[cpage[c]] = "TRANSIT"
      BY Zenon, <1>i DEF Landing
    <2>2. ASSUME NEW q \in Mapped PROVE RecordOf(q)'
      <3>1. RecordOf(q) /\ q \in Pages /\ (rec[q] = "TRANSIT" \/ dst'[q] = dst[q])
        BY Zenon, <1>i, <1>1, <2>1, RecordOfAll DEF Mapped, Private
      <3> QED
        BY Zenon, <1>u, <3>1 DEF RecordOf, Grants
    <2> QED
      BY Zenon, <2>2 DEF RecordTrue, RecordOf, Mapped
  <1>12. Caused'
    <2>1. \A d \in Conns : Blamed(d)' => Blamed(d)
      BY Zenon, <1>u DEF Blamed, server
    <2> QED
      BY Zenon, <1>i, <1>u, <2>1, CausedFrame DEF Cause
  <1> QED
    BY Zenon, <1>3, <1>4, <1>6, <1>7, <1>8, <1>9, <1>10, <1>11, <1>12 DEF IInv

(* The answer to the fetch: the page is landed, given up, or the session   *)
(* ended for cause.                                                        *)
LEMMA FetchedKeeps == ASSUME IInv, NEW c \in Conns, Fetched(c) PROVE IInv'
  <1>i. over # "source" /\ Conversation(c) /\ Landing(c) /\ Caused /\ cpc[c] = "answered"
    BY Zenon DEF IInv, Fetched, Client
  <1>1. CASE cans[c] = "BYTES"
    BY Zenon, <1>i, <1>1, LandedKeeps DEF Fetched
  <1>2. CASE cans[c] \in Again
    <2>1. pend[c] = {} /\ (cpage[c] \in Mapped => rec[cpage[c]] # "TRANSIT")
      BY Zenon, <1>i, <1>2 DEF Landing, Conversation, Again
    <2> QED
      BY Zenon, <1>i, <1>2, <2>1, ReturnKeeps DEF Fetched, Again, pages
  <1>3. CASE cans[c] \notin Again \cup {"BYTES"}
    <2>1. Cause
      BY Zenon, <1>i, <1>3 DEF Conversation, Caused, Blamed, Bad
    <2> QED
      BY Zenon, <1>i, <1>3, <2>1, StopKeeps DEF Fetched, Again, pages
  <1> QED
    BY Zenon, <1>1, <1>2, <1>3

-----------------------------------------------------------------------------
(* The steps of a connection thread on its ticket.                         *)

(* BEGIN is refused in a poisoned address space, or not reported.          *)
LEMMA BeginRefused ==
    ASSUME IInv, NEW c \in Conns, Server(c, "begin"), Answer(c, "FAILED"),
           (poisoned # {} /\ UNCHANGED faults) \/ CopyoutFails,
           UNCHANGED <<tickets, custody, pages, client, claim, cut, asks, unmaps, cuts, over>>
    PROVE  IInv'
  <1>i. TypeOK /\ over # "source" /\ spc[c] = "begin" /\ Conversation(c) /\ Landing(c) /\ Caused
    BY DEF IInv, Server
  <1>u. UNCHANGED <<pend, ent, cpc, cpage, cticket, cbytes, cans, sticket, poisoned, unmapped>>
    BY DEF custody, client, pages, Answer, Then
  <1>1. /\ spc'[c] = "reply" /\ sret'[c] = "FAILED" /\ ServersOK'
        /\ \A d \in Conns \ {c} : Still(d)
    BY Zenon, <1>i, <1>u DEF TypeOK, ServersOK, Answers, Answer, Then, Goto, Still
  <1>2. SessionOK' /\ (faults > 0 => faults' > 0) /\ (poisoned # {} \/ faults' > 0)
    BY Zenon, <1>i, FaultCounted
  <1>3. TypeOK'
    BY Zenon, <1>i, <1>1, <1>2, TypeFrame
  <1>4. Conversation(c)'
    BY Zenon, <1>i, <1>u, <1>1 DEF Conversation, Holds, Offered, Again, tickets
  <1>5. Landing(c)'
    BY Zenon, <1>i, <1>u, <1>1 DEF Landing, Conversation, Mapped, Again, pages
  <1>6. (Cause => Cause') /\ Cause'
    BY <1>i, <1>u, <1>2 DEF Caused, Cause
  <1> QED
    BY Zenon, <1>i, <1>u, <1>1, <1>3, <1>4, <1>5, <1>6, Quietly

(* BEGIN: the ticket is new, and the connection's only one.                *)
LEMMA BeginKeeps == ASSUME IInv, NEW c \in Conns, Begin(c) PROVE IInv'
  <1>1. CASE Answer(c, "FAILED") /\ UNCHANGED <<tickets, custody>>
             /\ ((poisoned # {} /\ UNCHANGED faults) \/ CopyoutFails)
    <2>1. UNCHANGED <<pages, client, claim, cut, asks, unmaps, cuts, over>> /\ Server(c, "begin")
      BY Zenon DEF Begin
    <2> QED
      BY <1>1, <2>1, BeginRefused
  <1>2. CASE Goto(c, "capture") /\ next \in Tickets
    <2>i. /\ TypeOK /\ over # "source" /\ spc[c] = "begin" /\ cpc[c] = "asked" /\ pend[c] = {}
          /\ Conversation(c) /\ Landing(c) /\ Reserved /\ TicketsSound /\ CustodyExact
      BY Zenon DEF IInv, Begin, Server, Conversation
    <2>u. /\ UNCHANGED <<pages, client, claim, cut, bounds, over, tbytes, tcancelled, sret>>
          /\ UNCHANGED <<cpc, cpage, cticket, cbytes, cans>>
      BY Zenon, <1>2, <2>i DEF Begin, Answer, Then, Goto, client, bounds, TypeOK, ServersOK
    <2>n. tst[next] = "none" /\ towner[next] = Nobody /\ ~tcancelled[next]
      <3>1. next \in Nat /\ ~(next < next)
        BY <1>2, ConstantsAssumption DEF Tickets
      <3> QED
        BY Zenon, <1>2, <2>i, <3>1 DEF TicketsSound, TicketSound
    <2>p. cpage[c] \in Pages
      BY Zenon, <2>i DEF Reserved
    <2>1. /\ tst' = [tst EXCEPT ![next] = "begun"] /\ towner' = [towner EXCEPT ![next] = c]
          /\ tpage' = [tpage EXCEPT ![next] = cpage[c]] /\ next' = next + 1
          /\ pend' = [pend EXCEPT ![c] = pend[c] \cup {next}] /\ ent' = [ent EXCEPT ![next] = "begun"]
          /\ spc' = [spc EXCEPT ![c] = "capture"] /\ sticket' = [sticket EXCEPT ![c] = next]
      BY Zenon, <1>2, <2>i DEF Begin, Answer, Then, Goto, TypeOK, ServersOK
    <2>0. PICK u \in Tickets : u = next
      BY Zenon, <1>2
    <2>2. /\ tst'[u] = "begun" /\ towner'[u] = c /\ tpage'[u] = cpage[c]
          /\ pend'[c] = {u} /\ spc'[c] = "capture" /\ sticket'[c] = u
          /\ \A t \in Tickets \ {u} : Same(t) /\ ent'[t] = ent[t]
          /\ \A d \in Conns \ {c} : Still(d) /\ pend'[d] = pend[d]
      BY Zenon, <2>0, <2>i, <2>u, <2>1 DEF TypeOK, TicketsOK, ServersOK, Same, Still
    <2>3. TicketsOK' /\ ServersOK'
      <3>1. next' \in 1..(MaxTickets + 1)
        BY <1>2, <2>1, ConstantsAssumption DEF Tickets
      <3>2. TicketsOK'
        BY Zenon, <1>2, <2>i, <2>u, <2>p, <2>1, <3>1 DEF TypeOK, TicketsOK
      <3>3. ServersOK'
        BY Zenon, <1>2, <2>i, <2>u, <2>1 DEF TypeOK, ServersOK
      <3> QED
        BY Zenon, <3>2, <3>3
    <2>4. TypeOK'
      BY Zenon, <2>i, <2>u, <2>3, TypeFrame
    <2>5. u < next' /\ \A t \in Tickets : t < next => t < next'
      BY <2>0, <2>1, ConstantsAssumption DEF Tickets
    <2>6. TicketSound(u)' /\ ~Grants(u) /\ ~Grants(u)' /\ ~HoldsGuard(u)'
      BY Zenon, <2>0, <2>u, <2>n, <2>p, <2>2, <2>5, ConstantsAssumption DEF TicketSound, Grants, HoldsGuard
    <2>7. CustodyExact' /\ \A d \in Conns \ {c} : u \notin pend[d]
      BY <2>0, <2>i, <2>n, <2>2, ConstantsAssumption DEF CustodyExact, Same
    <2>8. Conversation(c)' /\ Landing(c)'
      BY Zenon, <2>i, <2>u, <2>2 DEF Conversation, Landing, Holds, Mapped, pages
    <2>9. Cause' = Cause /\ (Blamed(c)' => Blamed(c))
      BY Zenon, <2>i, <2>u, <2>2 DEF Cause, Blamed, pages, bounds
    <2> QED
      BY Zenon, <2>i, <2>u, <2>2, <2>4, <2>5, <2>6, <2>7, <2>8, <2>9, OnTicket
  <1> QED
    BY <1>1, <1>2 DEF Begin

(* The capture's start: the guard is published where there is none.        *)
LEMMA CaptureGuardKeeps == ASSUME IInv, NEW c \in Conns, CaptureGuard(c) PROVE IInv'
  <1>i. TypeOK /\ over # "source" /\ spc[c] = "capture" /\ CustodyExact
    BY Zenon DEF IInv, CaptureGuard, Server
  <1>0. PICK u \in Tickets : u = sticket[c]
    BY Zenon, <1>i, Engaged
  <1>e. /\ pend[c] = {u} /\ Conversation(c) /\ Landing(c) /\ TicketSound(u)
        /\ cpc[c] = "asked" /\ tst[u] = "begun" /\ tpage[u] = cpage[c]
    BY Zenon, <1>i, <1>0, Engaged DEF Conversation, Holds
  <1>u. /\ UNCHANGED <<pages, client, claim, cut, bounds, over, custody, pend, ent, next>>
        /\ UNCHANGED <<cpc, cpage, cticket, cbytes, cans, towner, tpage, tbytes, tcancelled, sticket>>
    BY Zenon DEF CaptureGuard, Then, custody, client
  <1>1. /\ \/ spc'[c] = "cancel" /\ sret'[c] = "CLAIMING" /\ tst'[u] = "failed"
           \/ spc'[c] = "serve" /\ sret'[c] = "none" /\ tst'[u] = "guarded" /\ ~Guarded(tpage[u])
        /\ \A t \in Tickets \ {u} : Same(t)
        /\ \A d \in Conns \ {c} : Still(d)
    BY <1>i, <1>0, <1>u DEF TypeOK, TicketsOK, ServersOK, CaptureGuard, Then, Goto, Becomes, Busy, Same, Still
  <1>2. TicketsOK' /\ ServersOK'
    BY <1>i, <1>0, <1>u DEF TypeOK, TicketsOK, ServersOK, Answers, CaptureGuard, Then, Goto, Becomes
  <1>3. TypeOK'
    BY <1>i, <1>u, <1>2, TypeFrame
  <1>4. TicketSound(u)' /\ ~Grants(u) /\ ~Grants(u)'
    BY Zenon, <1>e, <1>u, <1>1 DEF TicketSound, Grants, pages
  <1>5. HoldsGuard(u)' => ~Guarded(tpage'[u])
    BY Zenon, <1>u, <1>1 DEF HoldsGuard
  <1>6. CustodyExact' /\ \A d \in Conns \ {c} : u \notin pend[d]
    BY Zenon, <1>i, <1>e, <1>u, Disjoint DEF CustodyExact
  <1>7. Conversation(c)'
    BY Zenon, <1>e, <1>0, <1>u, <1>1 DEF Conversation, Holds, Again
  <1>8. Landing(c)'
    BY Zenon, <1>e, <1>i, <1>u, <1>1 DEF Landing, Mapped, pages
  <1>9. Cause' = Cause /\ (Blamed(c)' => Blamed(c))
    BY Zenon, <1>u, <1>1 DEF Cause, Blamed, Bad, pages, bounds
  <1> QED
    BY Zenon, <1>i, <1>u, <1>1, <1>3, <1>4, <1>5, <1>6, <1>7, <1>8, <1>9, OnTicket

(* CAPTURE with nothing to give: for good if the guard was cancelled.      *)
LEMMA CaptureNothingKeeps == ASSUME IInv, NEW c \in Conns, CaptureNothing(c) PROVE IInv'
  <1>i. TypeOK /\ over # "source" /\ spc[c] = "serve" /\ CustodyExact
    BY Zenon DEF IInv, CaptureNothing, Server
  <1>0. PICK u \in Tickets : u = sticket[c]
    BY Zenon, <1>i, Engaged
  <1>e. /\ pend[c] = {u} /\ Conversation(c) /\ Landing(c) /\ TicketSound(u)
        /\ cpc[c] = "asked" /\ tst[u] = "guarded" /\ tpage[u] = cpage[c]
    BY Zenon, <1>i, <1>0, Engaged DEF Conversation, Holds
  <1>u. /\ UNCHANGED <<pages, client, claim, cut, bounds, over, custody, pend, ent, next>>
        /\ UNCHANGED <<cpc, cpage, cticket, cbytes, cans, towner, tpage, tbytes, tcancelled, sticket>>
    BY Zenon DEF CaptureNothing, Answer, Then, custody, client
  <1>1. /\ \/ spc'[c] = "cancel" /\ sret'[c] \in Again /\ tst'[u] = "empty"
           \/ spc'[c] = "reply" /\ sret'[c] = "FAILED" /\ tst'[u] = "stale" /\ tcancelled[u]
        /\ \A t \in Tickets \ {u} : Same(t)
        /\ \A d \in Conns \ {c} : Still(d)
    BY <1>i, <1>0, <1>u DEF TypeOK, TicketsOK, ServersOK, CaptureNothing, Answer, Then, Goto, Becomes, Again, Same, Still
  <1>2. TicketsOK' /\ ServersOK'
    BY <1>i, <1>0, <1>u DEF TypeOK, TicketsOK, ServersOK, Answers, CaptureNothing, Answer, Then, Goto, Becomes
  <1>3. TypeOK'
    BY Zenon, <1>i, <1>u, <1>2, TypeFrame
  <1>4. TicketSound(u)' /\ ~Grants(u) /\ ~Grants(u)'
    BY Zenon, <1>e, <1>u, <1>1 DEF TicketSound, Grants, pages
  <1>5. HoldsGuard(u) /\ tpage'[u] = tpage[u]
    BY Zenon, <1>e, <1>u DEF HoldsGuard
  <1>6. CustodyExact' /\ \A d \in Conns \ {c} : u \notin pend[d]
    BY Zenon, <1>i, <1>e, <1>u, Disjoint DEF CustodyExact
  <1>7. Conversation(c)'
    BY Zenon, <1>e, <1>0, <1>u, <1>1 DEF Conversation, Holds, Again
  <1>8. Landing(c)'
    BY Zenon, <1>e, <1>i, <1>u, <1>1 DEF Landing, Mapped, Again, pages
  <1>9. Cause' = Cause /\ (Cause \/ (Blamed(c)' => Blamed(c)))
    <2>1. tcancelled[u] => unmapped # {}
      BY Zenon, <1>e DEF TicketSound
    <2> QED
      BY Zenon, <1>u, <1>1, <2>1 DEF Cause, Blamed, Bad, Again, pages, bounds
  <1> QED
    BY Zenon, <1>i, <1>u, <1>1, <1>3, <1>4, <1>5, <1>6, <1>7, <1>8, <1>9, OnTicket

(* CANCEL: the ticket granted nothing, and is settled.                     *)
LEMMA CancelKeeps == ASSUME IInv, NEW c \in Conns, Cancel(c) PROVE IInv'
  <1>i. TypeOK /\ over # "source" /\ spc[c] = "cancel" /\ CustodyExact
    BY Zenon DEF IInv, Cancel, Server
  <1>0. PICK u \in Tickets : u = sticket[c]
    BY Zenon, <1>i, Engaged
  <1>e. /\ pend[c] = {u} /\ Conversation(c) /\ Landing(c) /\ TicketSound(u) /\ sret[c] \in Again
        /\ cpc[c] = "asked" /\ tst[u] \in {"failed", "empty"} /\ tpage[u] = cpage[c]
    BY Zenon, <1>i, <1>0, Engaged DEF Conversation, Holds
  <1>u. /\ UNCHANGED <<pages, client, claim, cut, asks, unmaps, cuts, over, pend, next>>
        /\ UNCHANGED <<cpc, cpage, cticket, cbytes, cans, towner, tpage, tcancelled, sticket, unmapped>>
    BY Zenon DEF Cancel, Answer, Then, client, pages
  <1>s. Settle(u) /\ \/ Then(c, "forget", sret[c]) /\ ent' = [ent EXCEPT ![u] = "settled"] /\ UNCHANGED faults
                     \/ CopyoutFails /\ Answer(c, "FAILED") /\ UNCHANGED ent
    BY Zenon, <1>0, <1>e DEF Cancel, Grants
  <1>1. /\ \/ spc'[c] = "forget" /\ sret'[c] = sret[c] /\ faults' = faults
           \/ spc'[c] = "reply" /\ sret'[c] = "FAILED" /\ CopyoutFails
        /\ tst'[u] = "acked" /\ \A d \in Conns \ {c} : Still(d)
        /\ \A t \in Tickets \ {u} : Same(t) /\ ent'[t] = ent[t]
    <2>1. /\ \/ spc'[c] = "forget" /\ sret'[c] = sret[c] /\ faults' = faults
             \/ spc'[c] = "reply" /\ sret'[c] = "FAILED" /\ CopyoutFails
          /\ \A d \in Conns \ {c} : Still(d)
      BY Zenon, <1>i, <1>s, <1>u DEF TypeOK, ServersOK, Answer, Then, Goto, Still
    <2>2. tst'[u] = "acked" /\ \A t \in Tickets \ {u} : Same(t) /\ ent'[t] = ent[t]
      BY Zenon, <1>i, <1>s, <1>u DEF TypeOK, TicketsOK, Settle, Becomes, Same
    <2> QED
      BY Zenon, <2>1, <2>2
  <1>2. TicketsOK' /\ ServersOK'
    <2>1. TicketsOK'
      BY Zenon, <1>i, <1>s, <1>u DEF TypeOK, TicketsOK, Settle, Becomes, Bytes
    <2>2. ServersOK'
      BY <1>i, <1>s, <1>u DEF TypeOK, ServersOK, Answers, Answer, Then, Goto
    <2> QED
      BY Zenon, <2>1, <2>2
  <1>f. SessionOK' /\ (faults > 0 => faults' > 0) /\ (CopyoutFails => faults' > 0)
    BY Zenon, <1>i, <1>1, <1>u, FaultCounted
  <1>3. TypeOK'
    BY Zenon, <1>i, <1>u, <1>2, <1>f, TypeFrame
  <1>4. TicketSound(u)' /\ ~Grants(u) /\ ~Grants(u)' /\ ~HoldsGuard(u)'
    BY Zenon, <1>e, <1>u, <1>1 DEF TicketSound, Grants, HoldsGuard, pages
  <1>6. CustodyExact' /\ \A d \in Conns \ {c} : u \notin pend[d]
    BY Zenon, <1>i, <1>e, <1>u, Disjoint DEF CustodyExact
  <1>7. Conversation(c)'
    BY Zenon, <1>e, <1>0, <1>u, <1>1 DEF Conversation, Holds, Again
  <1>8. Landing(c)'
    BY Zenon, <1>e, <1>i, <1>u, <1>1 DEF Landing, Mapped, Again, pages
  <1>9. (Cause => Cause') /\ (Cause' \/ (Blamed(c)' => Blamed(c)))
    <2>1. (Cause => Cause') /\ (CopyoutFails => Cause')
      BY Zenon, <1>u, <1>f DEF Cause
    <2>2. ~CopyoutFails => (Blamed(c)' => Blamed(c))
      BY Zenon, <1>u, <1>1 DEF Blamed
    <2> QED
      BY Zenon, <2>1, <2>2
  <1> QED
    BY Zenon, <1>i, <1>u, <1>1, <1>3, <1>4, <1>6, <1>7, <1>8, <1>9, OnTicket

(* FORGET: the settled ticket is gone at both ends of the custody.         *)
LEMMA ForgetKeeps == ASSUME IInv, NEW c \in Conns, Forget(c) PROVE IInv'
  <1>i. TypeOK /\ over # "source" /\ spc[c] = "forget" /\ CustodyExact
    BY Zenon DEF IInv, Forget, Server
  <1>0. PICK u \in Tickets : u = sticket[c]
    BY Zenon, <1>i, Engaged
  <1>e. /\ pend[c] = {u} /\ Conversation(c) /\ Landing(c) /\ tst[u] = "acked"
    BY Zenon, <1>i, <1>0, Engaged DEF Conversation, Holds
  <1>u. /\ UNCHANGED <<pages, client, claim, cut, bounds, over, next>>
        /\ UNCHANGED <<cpc, cpage, cticket, cbytes, cans, sret, sticket>>
    BY Zenon DEF Forget, Free, client
  <1>1. /\ spc'[c] = "reply" /\ \A d \in Conns \ {c} : Still(d) /\ pend'[d] = pend[d]
        /\ pend'[c] = {}
    BY Zenon, <1>i, <1>0, <1>e, <1>u DEF TypeOK, TicketsOK, ServersOK, Forget, Goto, Still
  <1>t. /\ tst'[u] = "none" /\ towner'[u] = Nobody /\ ~tcancelled'[u]
        /\ \A t \in Tickets \ {u} : Same(t) /\ ent'[t] = ent[t]
    BY Zenon, <1>i, <1>0 DEF TypeOK, TicketsOK, Forget, Free, Same
  <1>2. TicketsOK' /\ ServersOK'
    BY Zenon, <1>i, <1>0 DEF TypeOK, TicketsOK, ServersOK, Forget, Goto, Free, Bytes
  <1>3. TypeOK'
    BY Zenon, <1>i, <1>u, <1>2, TypeFrame
  <1>4. TicketSound(u)' /\ ~Grants(u) /\ ~Grants(u)' /\ ~HoldsGuard(u)'
    BY Zenon, <1>e, <1>t DEF TicketSound, Grants, HoldsGuard
  <1>6. CustodyExact' /\ \A d \in Conns \ {c} : u \notin pend[d]
    <2>1. \A d \in Conns : pend[d] = {t \in Tickets : towner[t] = d}
      BY Zenon, <1>i DEF CustodyExact
    <2>2. \A d \in Conns \ {c} : u \notin pend[d]
      BY Zenon, <1>e, Disjoint
    <2>3. \A t \in Tickets : towner'[t] = IF t = u THEN Nobody ELSE towner[t]
      BY Zenon, <1>t DEF Same
    <2>4. ASSUME NEW d \in Conns, NEW t \in Tickets PROVE t \in pend'[d] <=> towner'[t] = d
      <3>1. t \in pend[d] <=> towner[t] = d
        BY Zenon, <2>1
      <3>2. CASE t = u
        BY Zenon, <1>1, <2>2, <2>3, <3>2, ConstantsAssumption
      <3>3. CASE t # u
        BY Zenon, <1>e, <1>1, <2>3, <3>1, <3>3
      <3> QED
        BY Zenon, <3>2, <3>3
    <2>5. \A d \in Conns : pend'[d] \subseteq Tickets
      BY Zenon, <1>2 DEF TicketsOK
    <2>6. CustodyExact'
      BY <2>4, <2>5 DEF CustodyExact
    <2> QED
      BY Zenon, <2>2, <2>6
  <1>7. Conversation(c)'
    BY Zenon, <1>e, <1>i, <1>u, <1>1 DEF Conversation, Holds, Offered, Again
  <1>8. Landing(c)'
    BY Zenon, <1>e, <1>i, <1>u, <1>1 DEF Landing, Conversation, Mapped, pages
  <1>9. Cause' = Cause /\ (Blamed(c)' => Blamed(c))
    BY Zenon, <1>u, <1>1 DEF Cause, Blamed, Bad, pages, bounds
  <1> QED
    BY Zenon, <1>i, <1>u, <1>1, <1>t, <1>3, <1>4, <1>6, <1>7, <1>8, <1>9, OnTicket

-----------------------------------------------------------------------------
(* The steps that change what the record says of a page.                   *)

(* Nothing is moved of page q.                                             *)
SamePage(q) == /\ rec'[q] = rec[q] /\ src'[q] = src[q] /\ dst'[q] = dst[q]
               /\ back'[q] = back[q] /\ want'[q] = want[q]

(* The grant that stands on a page is of a mapped one, in transit.         *)
LEMMA GrantInTransit ==
    ASSUME TicketsSound, NEW t \in Tickets, Grants(t), ~tcancelled[t]
    PROVE  /\ tpage[t] \in Mapped /\ rec[tpage[t]] = "TRANSIT"
           /\ tbytes[t] = want[tpage[t]]
  BY DEF TicketsSound, TicketSound, Mapped

(* The two threads of a fetch need their page as it is only in transit, or *)
(* while the acknowledgement is out.                                       *)
LEMMA LandingSettled ==
    ASSUME NEW d, Landing(d), Still(d), unmapped' = unmapped,
           rec[cpage[d]] # "TRANSIT", rec'[cpage[d]] # "TRANSIT",
           \/ rec[cpage[d]] = "HOME"
           \/ dst[cpage[d]] # want[cpage[d]]
           \/ rec'[cpage[d]] # "HOME" /\ UNCHANGED <<dst, want>>
    PROVE  Landing(d)'
  BY DEF Landing, Mapped, Still

(* A step of nobody's thread on page p, not in transit before or after.    *)
LEMMA OnPage ==
    ASSUME IInv, NEW p \in Pages, TypeOK',
           UNCHANGED <<tickets, custody, server, client, claim, cut, bounds, over, unmapped, poisoned>>,
           \A q \in Pages \ {p} : SamePage(q),
           p \in Mapped => /\ rec[p] # "TRANSIT" /\ rec'[p] # "TRANSIT" /\ RecordOf(p)'
                           /\ \/ claim[p] = Nobody
                              \/ rec[p] = "HOME"
                              \/ dst[p] # want[p]
                              \/ rec'[p] # "HOME" /\ UNCHANGED <<dst, want>>
    PROVE  IInv'
  <1>i. /\ TicketsSound /\ CustodyExact /\ Reserved /\ UsedWhenRecorded /\ RecordTrue /\ Caused
        /\ over # "source" => \A d \in Conns : Conversation(d)
        /\ \A d \in Conns : Landing(d)
    BY DEF IInv
  <1>u. /\ UNCHANGED <<tst, towner, tpage, tbytes, tcancelled, next, pend, ent, cpc, cpage, cans>>
        /\ UNCHANGED <<spc, sret, faults>> /\ Mapped' = Mapped
    BY Zenon DEF tickets, custody, client, server, bounds, Mapped
  <1>s. \A d \in Conns : Still(d) /\ Untouched(d)
    BY Zenon, <1>u DEF Still, Untouched, client, server
  <1>m. \A q \in Mapped : q \in Pages
    BY Zenon DEF Mapped, Private
  <1>1. ASSUME NEW t \in Tickets PROVE TicketSound(t)'
    <2>1. TicketSound(t) /\ Same(t)
      BY Zenon, <1>i, <1>u DEF TicketsSound, Same
    <2>2. ASSUME Grants(t), ~tcancelled[t] PROVE SamePage(tpage[t])
      <3>1. tpage[t] \in Mapped /\ rec[tpage[t]] = "TRANSIT"
        BY Zenon, <1>i, <2>2, GrantInTransit
      <3> QED
        BY Zenon, <1>m, <3>1
    <2> QED
      BY Zenon, <1>u, <2>1, <2>2, TicketFrame DEF SamePage
  <1>2. GuardsAlone' /\ CustodyExact'
    BY Zenon, <1>i, <1>u, GuardsFrame DEF TicketsSound, CustodyExact, HoldsGuard
  <1>3. over' # "source" => \A d \in Conns : Conversation(d)'
    BY Zenon, <1>i, <1>s, ConversationFrame
  <1>4. Reserved'
    <2>1. \A q \in Mapped : rec'[q] = "TRANSIT" => rec[q] = "TRANSIT"
      BY Zenon, <1>m DEF SamePage
    <2> QED
      BY Zenon, <1>i, <1>u, <2>1 DEF Reserved
  <1>5. ASSUME NEW d \in Conns PROVE Landing(d)'
    <2>1. CASE \A q \in Mapped : claim[q] = d => SamePage(q)
      BY Zenon, <1>i, <1>s, <1>u, <2>1, LandingFrame DEF SamePage
    <2>2. CASE cpage[d] = p /\ p \in Mapped /\ claim[p] = d
      BY Zenon, <1>i, <1>s, <2>2, LandingSettled, ConstantsAssumption
    <2>3. CASE cpage[d] # p /\ p \in Mapped /\ claim[p] = d
      <3>1. /\ Landing(d) /\ Still(d) /\ cpage'[d] = cpage[d]
            /\ cpage[d] \in Mapped => SamePage(cpage[d])
        BY Zenon, <1>i, <1>s, <1>m, <2>3 DEF Still
      <3> QED
        BY Zenon, <1>u, <3>1 DEF Landing, Still, SamePage
    <2> QED
      BY <1>m, <2>1, <2>2, <2>3
  <1>6. RecordTrue'
    <2>1. ASSUME NEW q \in Mapped, q # p PROVE RecordOf(q)'
      <3>1. RecordOf(q) /\ SamePage(q)
        BY Zenon, <1>i, <1>m, <2>1, RecordOfAll
      <3> QED
        BY Zenon, <1>u, <3>1 DEF RecordOf, SamePage, Grants
    <2>2. \A q \in Mapped' : RecordOf(q)'
      BY Zenon, <1>u, <2>1
    <2> QED
      BY Zenon, <2>2 DEF RecordTrue, RecordOf, Mapped
  <1>7. UsedWhenRecorded'
    <2>1. ASSUME NEW q \in Mapped, dst'[q] # Hole, claim'[q] = Nobody
          PROVE  rec'[q] \in {"REMOTE", "CLAIM"}
      <3>1. CASE q # p
        BY Zenon, <1>i, <1>m, <2>1, <3>1 DEF UsedWhenRecorded, SamePage, Mapped
      <3>2. CASE q = p
        BY Zenon, <2>1, <3>2 DEF TypeOK, PagesOK, RecordOf
      <3> QED
        BY <3>1, <3>2
    <2> QED
      BY Zenon, <1>u, <2>1 DEF UsedWhenRecorded, Mapped
  <1>8. Caused'
    BY Zenon, <1>i, <1>u, CausedFrame DEF Cause, Blamed
  <1> QED
    BY Zenon, <1>1, <1>2, <1>3, <1>4, <1>5, <1>6, <1>7, <1>8 DEF IInv, TicketsSound

(* The program stores to a page that is at home.                           *)
LEMMA SourceStoreKeeps == ASSUME IInv, NEW p \in Pages, SourceStore(p) PROVE IInv'
  <1>i. TypeOK /\ RecordTrue /\ p \in Mapped /\ rec[p] = "HOME"
    BY DEF IInv, SourceStore, Mapped
  <1>0. RecordOf(p)
    BY <1>i, RecordOfAll
  <1>1. PagesOK'
    BY <1>i, ConstantsAssumption DEF TypeOK, PagesOK, SourceStore, Bytes, Values
  <1>2. TypeOK'
    BY Zenon, <1>i, <1>1, TypeFrame DEF SourceStore
  <1>3. RecordOf(p)' /\ \A q \in Pages \ {p} : SamePage(q)
    BY <1>i, <1>0 DEF TypeOK, PagesOK, RecordOf, SamePage, SourceStore
  <1> QED
    BY Zenon, <1>i, <1>2, <1>3, OnPage DEF SourceStore

(* The guest stores to a page that was handed over.                        *)
LEMMA GuestStoreKeeps ==
    ASSUME IInv, NEW c \in Conns, NEW p \in Pages, GuestStore(c, p) PROVE IInv'
  <1>i. /\ TypeOK /\ RecordTrue /\ p \in Mapped /\ rec[p] \in {"REMOTE", "CLAIM"}
        /\ dst[p] # Hole /\ claim[p] = Nobody
    BY DEF IInv, GuestStore, Mapped, UsedWhenRecorded
  <1>0. RecordOf(p)
    BY <1>i, RecordOfAll
  <1>1. PagesOK'
    BY <1>i, ConstantsAssumption DEF TypeOK, PagesOK, GuestStore, Bytes, Values
  <1>2. TypeOK'
    BY Zenon, <1>i, <1>1, TypeFrame DEF GuestStore
  <1>3. RecordOf(p)' /\ \A q \in Pages \ {p} : SamePage(q)
    BY Zenon, <1>i, <1>0 DEF TypeOK, PagesOK, RecordOf, SamePage, GuestStore
  <1> QED
    BY Zenon, <1>i, <1>2, <1>3, OnPage DEF GuestStore

(* A page is asked back.                                                   *)
LEMMA RecallAskKeeps == ASSUME IInv, NEW p \in Pages, RecallAsk(p) PROVE IInv'
  <1>i. TypeOK /\ RecordTrue /\ p \in Mapped /\ rec[p] = "REMOTE"
    BY DEF IInv, RecallAsk, Mapped
  <1>0. RecordOf(p)
    BY <1>i, RecordOfAll
  <1>1. PagesOK'
    BY <1>i DEF TypeOK, PagesOK, RecallAsk
  <1>2. TypeOK'
    BY Zenon, <1>i, <1>1, TypeFrame DEF RecallAsk
  <1>3. rec'[p] = "CLAIM" /\ RecordOf(p)' /\ \A q \in Pages \ {p} : SamePage(q)
    BY Zenon, <1>i, <1>0 DEF TypeOK, PagesOK, RecordOf, SamePage, RecallAsk
  <1> QED
    BY <1>i, <1>2, <1>3, OnPage DEF RecallAsk

(* It is taken.                                                            *)
LEMMA RecallTakeKeeps == ASSUME IInv, NEW p \in Pages, RecallTake(p) PROVE IInv'
  <1>i. /\ TypeOK /\ RecordTrue /\ p \in Mapped /\ rec[p] = "CLAIM"
        /\ dst[p] # Hole /\ claim[p] = Nobody
    BY DEF IInv, RecallTake, Mapped
  <1>0. RecordOf(p)
    BY <1>i, RecordOfAll
  <1>1. PagesOK'
    BY Zenon, <1>i DEF TypeOK, PagesOK, RecallTake, Bytes
  <1>2. TypeOK'
    BY Zenon, <1>i, <1>1, TypeFrame DEF RecallTake
  <1>3. RecordOf(p)' /\ \A q \in Pages \ {p} : SamePage(q)
    BY Zenon, <1>i, <1>0 DEF TypeOK, PagesOK, RecordOf, SamePage, RecallTake
  <1> QED
    BY <1>i, <1>2, <1>3, OnPage DEF RecallTake

(* It lands at home, or is dropped.                                        *)
LEMMA RecallLandKeeps == ASSUME IInv, NEW p \in Pages, RecallLand(p) PROVE IInv'
  <1>i. TypeOK /\ RecordTrue /\ back[p] # Hole
    BY DEF IInv, RecallLand
  <1>0. p \in Mapped => rec[p] = "CLAIM" /\ dst[p] = Hole /\ back[p] = want[p] /\ want[p] # Hole
    <2>1. p \in Mapped => RecordOf(p)
      BY <1>i, RecordOfAll
    <2> QED
      BY <1>i, <2>1, ConstantsAssumption DEF TypeOK, PagesOK, Values, RecordOf
  <1>1. PagesOK'
    BY <1>i DEF TypeOK, PagesOK, RecallLand, Bytes
  <1>2. TypeOK'
    BY Zenon, <1>i, <1>1, TypeFrame DEF RecallLand
  <1>3. /\ p \in Mapped => rec'[p] = "HOME" /\ RecordOf(p)'
        /\ \A q \in Pages \ {p} : SamePage(q)
    BY <1>i, <1>0 DEF TypeOK, PagesOK, RecordOf, SamePage, RecallLand, Mapped
  <1> QED
    BY Zenon, <1>i, <1>0, <1>2, <1>3, OnPage DEF RecallLand

(* munmap: what the books say of the page no longer matters, and a guard   *)
(* on it is cancelled.                                                     *)
LEMMA UnmapKeeps == ASSUME IInv, NEW p \in Pages, Unmap(p) PROVE IInv'
  <1>i. /\ TypeOK /\ TicketsSound /\ CustodyExact /\ Reserved /\ UsedWhenRecorded /\ RecordTrue
        /\ Caused /\ over # "source" /\ \A d \in Conns : Conversation(d) /\ Landing(d)
    BY DEF IInv, Unmap
  <1>u. /\ UNCHANGED <<dst, back, want, poisoned, tst, towner, tpage, tbytes, next, custody, server>>
        /\ UNCHANGED <<client, claim, cut, over, pend, ent, cpc, cpage>> /\ unmapped' = unmapped \cup {p}
    BY Zenon DEF Unmap, custody, client
  <1>q. \A q \in Mapped' : q \in Mapped /\ q \in Pages /\ q # p /\ SamePage(q)
    BY Zenon, <1>i, <1>u DEF Mapped, Private, SamePage, Unmap, TypeOK, PagesOK
  <1>t. \A t \in Tickets : tcancelled'[t] <=> tcancelled[t] \/ (HoldsGuard(t) /\ tpage[t] = p)
    BY Zenon, <1>i DEF TypeOK, TicketsOK, Unmap
  <1>s. \A d \in Conns : Still(d) /\ Untouched(d)
    BY Zenon, <1>u DEF Still, Untouched, client, server
  <1>1. PagesOK' /\ TicketsOK' /\ SessionOK'
    <2>1. PagesOK'
      BY Zenon, <1>i DEF TypeOK, PagesOK, Unmap, Bytes
    <2>2. TicketsOK'
      BY Zenon, <1>i DEF TypeOK, TicketsOK, Unmap, custody
    <2>3. SessionOK'
      BY <1>i, ConstantsAssumption DEF TypeOK, SessionOK, Unmap
    <2> QED
      BY Zenon, <2>1, <2>2, <2>3
  <1>2. TypeOK'
    BY Zenon, <1>i, <1>u, <1>1, TypeFrame
  <1>3. ASSUME NEW t \in Tickets PROVE TicketSound(t)'
    <2>1. TicketSound(t)
      BY Zenon, <1>i DEF TicketsSound
    <2>2. tpage[t] \in Pages /\ tpage[t] # p => rec'[tpage[t]] = rec[tpage[t]]
      BY Zenon, <1>i DEF TypeOK, PagesOK, Unmap
    <2> QED
      BY Zenon, <1>u, <1>t, <2>1, <2>2 DEF TicketSound, Grants, HoldsGuard, Private
  <1>4. GuardsAlone' /\ CustodyExact'
    BY Zenon, <1>i, <1>u, GuardsFrame DEF TicketsSound, CustodyExact, HoldsGuard
  <1>5. \A d \in Conns : Conversation(d)'
    BY Zenon, <1>i, <1>s, ConversationFrame
  <1>6. \A d \in Conns : Landing(d)'
    <2>1. unmapped \subseteq unmapped'
      BY <1>u
    <2> QED
      BY Zenon, <1>i, <1>s, <1>q, <2>1, LandingFrame DEF SamePage
  <1>7. Reserved'
    BY Zenon, <1>i, <1>u, <1>q DEF Reserved, SamePage
  <1>10. UsedWhenRecorded'
    BY Zenon, <1>i, <1>u, <1>q DEF UsedWhenRecorded, Mapped, SamePage
  <1>8. RecordTrue'
    <2>1. ASSUME NEW q \in Mapped' PROVE RecordOf(q)'
      <3>1. RecordOf(q) /\ SamePage(q) /\ q # p
        BY Zenon, <1>i, <1>q, RecordOfAll
      <3>2. \A t \in Tickets : tpage[t] = q /\ ~tcancelled[t] => ~tcancelled'[t]
        BY <1>t, <3>1
      <3> QED
        BY Zenon, <1>u, <3>1, <3>2 DEF RecordOf, SamePage, Grants
    <2> QED
      BY Zenon, <2>1 DEF RecordTrue, RecordOf, Mapped
  <1>9. Caused'
    BY <1>u DEF Caused, Cause
  <1> QED
    BY Zenon, <1>2, <1>3, <1>4, <1>5, <1>6, <1>7, <1>8, <1>9, <1>10 DEF IInv, TicketsSound

(* CAPTURE: a private page goes into transit under the connection's own    *)
(* guard and reservation; a sealed one is copied.                          *)
LEMMA CaptureKeeps == ASSUME IInv, NEW c \in Conns, Capture(c) PROVE IInv'
  <1>i. /\ TypeOK /\ TicketsSound /\ CustodyExact /\ Reserved /\ UsedWhenRecorded /\ RecordTrue
        /\ Caused /\ over # "source" /\ spc[c] = "serve"
        /\ \A d \in Conns : Conversation(d) /\ Landing(d)
    BY Zenon DEF IInv, Capture, Server
  <1>0. PICK u \in Tickets : u = sticket[c]
    BY Zenon, <1>i, Engaged
  <1>p. PICK p \in Pages : p = cpage[c]
    BY Zenon, <1>i, Engaged
  <1>e. /\ pend[c] = {u} /\ Conversation(c) /\ TicketSound(u) /\ claim[p] = c
        /\ cpc[c] = "asked" /\ tst[u] = "guarded" /\ tpage[u] = p
    BY Zenon, <1>i, <1>0, <1>p, Engaged DEF Conversation, Holds
  <1>u. /\ UNCHANGED <<dst, back, want, unmapped, poisoned, towner, tpage, tcancelled, next, pend>>
        /\ UNCHANGED <<client, claim, cut, asks, unmaps, cuts, over, sticket>>
        /\ UNCHANGED <<cpc, cpage, cticket, cbytes, cans>>
    BY Zenon DEF Capture, Answer, Then, client
  <1>1. /\ ~tcancelled[u] /\ p \notin unmapped /\ rec[p] = "HOME" /\ tbytes' = [tbytes EXCEPT ![u] = src[p]]
        /\ \/ p \in Sealed /\ Becomes(u, "copied") /\ UNCHANGED <<rec, src>>
           \/ /\ p \in Private /\ Becomes(u, "granted")
              /\ rec' = [rec EXCEPT ![p] = "TRANSIT"] /\ src' = [src EXCEPT ![p] = Hole]
        /\ \/ Then(c, "read", "none") /\ ent' = [ent EXCEPT ![u] = "captured"] /\ UNCHANGED faults
           \/ CopyoutFails /\ Answer(c, "FAILED") /\ UNCHANGED ent
    BY Zenon, <1>0, <1>p, <1>e DEF Capture, Private
  <1>2. /\ \/ p \in Sealed /\ tst'[u] = "copied" /\ UNCHANGED <<rec, src>>
           \/ /\ p \in Private /\ tst'[u] = "granted" /\ tbytes'[u] = src[p]
              /\ rec'[p] = "TRANSIT" /\ src'[p] = Hole
        /\ \A q \in Pages \ {p} : SamePage(q)
        /\ \A t \in Tickets \ {u} : Same(t) /\ ent'[t] = ent[t]
    BY <1>i, <1>u, <1>1 DEF TypeOK, PagesOK, TicketsOK, Becomes, SamePage, Same
  <1>3. /\ \/ spc'[c] = "read" /\ sret'[c] = "none" /\ faults' = faults
           \/ spc'[c] = "reply" /\ sret'[c] = "FAILED" /\ CopyoutFails
        /\ \A d \in Conns \ {c} : Still(d)
    BY Zenon, <1>i, <1>u, <1>1 DEF TypeOK, ServersOK, Answer, Then, Goto, Still
  <1>f. SessionOK' /\ (faults > 0 => faults' > 0) /\ (CopyoutFails => faults' > 0)
    BY Zenon, <1>i, <1>u, <1>3, FaultCounted
  <1>4. TypeOK'
    <2>1. PagesOK'
      BY Zenon, <1>i, <1>u, <1>1 DEF TypeOK, PagesOK, Bytes
    <2>2. TicketsOK'
      BY <1>i, <1>u, <1>1 DEF TypeOK, PagesOK, TicketsOK, Becomes
    <2>3. ServersOK'
      BY <1>i, <1>u, <1>1 DEF TypeOK, ServersOK, Answers, Answer, Then, Goto
    <2> QED
      BY Zenon, <1>i, <1>u, <1>f, <2>1, <2>2, <2>3, TypeFrame
  <1>r. p \in Private => RecordOf(p)
    BY Zenon, <1>i, <1>1, RecordOfAll DEF Mapped
  <1>5. TicketsSound'
    <2>1. TicketSound(u)'
      BY Zenon, <1>u, <1>e, <1>1, <1>2, <1>r DEF TicketSound, Grants, Private, RecordOf
    <2>2. ASSUME NEW t \in Tickets, t # u PROVE TicketSound(t)'
      <3>1. Grants(t) /\ ~tcancelled[t] => tpage[t] \in Pages /\ tpage[t] # p
        BY Zenon, <1>i, <1>1, GrantInTransit DEF Mapped, Private
      <3>2. TicketSound(t) /\ Same(t)
        BY Zenon, <1>i, <1>2, <2>2 DEF TicketsSound
      <3> QED
        BY Zenon, <1>u, <1>2, <3>1, <3>2, TicketFrame DEF SamePage
    <2>3. GuardsAlone'
      <3>1. \A t \in Tickets : HoldsGuard(t)' => HoldsGuard(t) /\ tpage'[t] = tpage[t]
        BY Zenon, <1>u, <1>e, <1>2 DEF HoldsGuard, Same
      <3> QED
        BY Zenon, <1>i, <3>1, GuardsFrame DEF TicketsSound
    <2> QED
      BY Zenon, <2>1, <2>2, <2>3 DEF TicketsSound
  <1>6. CustodyExact' /\ \A d \in Conns \ {c} : Untouched(d)
    <2>1. \A d \in Conns \ {c} : u \notin pend[d] /\ pend[d] \subseteq Tickets
      BY Zenon, <1>i, <1>e, Disjoint DEF CustodyExact
    <2> QED
      BY Zenon, <1>i, <1>u, <1>2, <2>1 DEF CustodyExact, Untouched, Same
  <1>7. \A d \in Conns : Conversation(d)'
    <2>1. Conversation(c)'
      BY Zenon, <1>0, <1>p, <1>e, <1>u, <1>2, <1>3 DEF Conversation, Holds, Again
    <2> QED
      BY Zenon, <1>i, <1>3, <1>6, <2>1, ConversationFrame
  <1>8. \A d \in Conns : Landing(d)'
    <2>1. Landing(c)'
      BY Zenon, <1>e, <1>u, <1>3 DEF Landing, Again
    <2>2. ASSUME NEW d \in Conns, d # c PROVE Landing(d)'
      <3>1. \A q \in Mapped' : claim[q] = d => SamePage(q)
        BY Zenon, <1>e, <1>2, <2>2 DEF Mapped, Private
      <3> QED
        BY Zenon, <1>i, <1>u, <1>3, <2>2, <3>1, LandingFrame DEF SamePage
    <2> QED
      BY Zenon, <2>1, <2>2
  <1>9. Reserved'
    <2>1. \A q \in Mapped : rec'[q] = "TRANSIT" => q = p \/ rec[q] = "TRANSIT"
      BY Zenon, <1>2 DEF Mapped, Private, SamePage
    <2> QED
      BY Zenon, <1>i, <1>e, <1>u, <2>1, ConstantsAssumption DEF Reserved, Mapped
  <1>10. UsedWhenRecorded'
    <2>1. \A q \in Private : claim[q] = Nobody => SamePage(q)
      BY Zenon, <1>e, <1>2, ConstantsAssumption DEF Private
    <2> QED
      BY Zenon, <1>i, <1>u, <2>1 DEF UsedWhenRecorded, SamePage
  <1>11. RecordTrue'
    <2>1. p \in Private => RecordOf(p)'
      BY Zenon, <1>u, <1>e, <1>1, <1>2, <1>r DEF RecordOf, Grants, Private
    <2>2. ASSUME NEW q \in Mapped, q # p PROVE RecordOf(q)'
      <3>1. RecordOf(q) /\ SamePage(q)
        BY Zenon, <1>i, <1>2, <2>2, RecordOfAll DEF Mapped, Private
      <3>2. \A t \in Tickets : Grants(t) => Same(t)
        BY Zenon, <1>e, <1>2 DEF Grants
      <3> QED
        BY Zenon, <1>u, <3>1, <3>2 DEF RecordOf, SamePage, Grants, Same
    <2>3. \A q \in Mapped' : RecordOf(q)'
      BY Zenon, <1>u, <2>1, <2>2 DEF Mapped
    <2> QED
      BY Zenon, <2>3 DEF RecordTrue, RecordOf, Mapped
  <1>12. Caused'
    <2>1. (Cause => Cause') /\ (CopyoutFails => Cause')
      BY Zenon, <1>u, <1>f DEF Cause
    <2>2. ~CopyoutFails => \A d \in Conns : Blamed(d)' => Blamed(d)
      BY Zenon, <1>u, <1>3 DEF Blamed, Bad, Still
    <2> QED
      BY Zenon, <1>i, <1>u, <2>1, <2>2, CausedFrame
  <1> QED
    BY Zenon, <1>4, <1>5, <1>6, <1>7, <1>8, <1>9, <1>10, <1>11, <1>12 DEF IInv

(* What the invariant says when the acknowledgement is taken: it names the *)
(* ticket of the page the client has reserved, and the ticket was read.    *)
LEMMA EngagedOffer ==
    ASSUME IInv, NEW c \in Conns, over # "source", spc[c] = "ack"
    PROVE  /\ Conversation(c) /\ Landing(c) /\ cpc[c] = "acking"
           /\ Offered(c, cticket[c]) /\ cticket[c] \in Tickets
           /\ pend[c] = {cticket[c]} /\ towner[cticket[c]] = c
           /\ tpage[cticket[c]] = cpage[c] /\ cpage[c] \in Pages /\ claim[cpage[c]] = c
           /\ TicketSound(cticket[c])
  <1>1. Conversation(c) /\ Reserved /\ CustodyExact /\ TicketsSound /\ Landing(c)
    BY Zenon DEF IInv
  <1>2. cpc[c] = "acking" /\ Offered(c, cticket[c])
    BY Zenon, <1>1 DEF Conversation
  <1>3. cticket[c] \in Tickets /\ pend[c] = {cticket[c]} /\ tpage[cticket[c]] = cpage[c]
    BY Zenon, <1>2 DEF Offered, Holds
  <1> QED
    <2>1. towner[cticket[c]] = c /\ TicketSound(cticket[c])
      BY Zenon, <1>1, <1>3 DEF CustodyExact, TicketsSound
    <2>2. cpage[c] \in Pages /\ claim[cpage[c]] = c
      BY Zenon, <1>1, <1>2 DEF Reserved
    <2> QED
      BY Zenon, <1>1, <1>2, <1>3, <2>1, <2>2

(* ACK: the offered ticket is settled, and the record of a page that was   *)
(* granted says REMOTE from here on.                                       *)
LEMMA AckKeeps == ASSUME IInv, NEW c \in Conns, Ack(c) PROVE IInv'
  <1>i. /\ TypeOK /\ TicketsSound /\ CustodyExact /\ Reserved /\ UsedWhenRecorded /\ RecordTrue
        /\ Caused /\ over # "source" /\ spc[c] = "ack"
        /\ \A d \in Conns : Conversation(d) /\ Landing(d)
    BY Zenon DEF IInv, Ack, Server
  <1>0. PICK u \in Tickets : u = cticket[c]
    BY Zenon, <1>i, EngagedOffer
  <1>p. PICK p \in Pages : p = cpage[c]
    BY Zenon, <1>i, EngagedOffer
  <1>e. /\ pend[c] = {u} /\ Landing(c) /\ TicketSound(u) /\ claim[p] = c
        /\ cpc[c] = "acking" /\ tst[u] \in {"granted", "copied"} /\ tpage[u] = p
        /\ ent[u] = "read" /\ spc[c] = "ack"
    BY Zenon, <1>i, <1>0, <1>p, EngagedOffer DEF Offered, Holds
  <1>u. /\ UNCHANGED <<src, dst, back, want, unmapped, poisoned, towner, tpage, tcancelled, next, pend>>
        /\ UNCHANGED <<client, claim, cut, asks, unmaps, cuts, over>>
        /\ UNCHANGED <<cpc, cpage, cticket, cbytes, cans>>
    BY Zenon DEF Ack, client
  <1>a. /\ Grants(u) /\ ~tcancelled[u] => rec[p] = "TRANSIT" /\ p \in Mapped
        /\ p \in Mapped => Grants(u) /\ ~tcancelled[u]
        /\ tcancelled[u] => p \in unmapped
    BY Zenon, <1>e DEF TicketSound, Grants, Mapped, Private
  <1>1. /\ Settle(u)
        /\ rec' = IF Grants(u) /\ ~tcancelled[u] THEN [rec EXCEPT ![p] = "REMOTE"] ELSE rec
        /\ \/ /\ Goto(c, "forget") /\ sticket' = [sticket EXCEPT ![c] = u]
              /\ sret' = [sret EXCEPT ![c] = IF tcancelled[u] THEN "STALE" ELSE "OK"]
              /\ ent' = [ent EXCEPT ![u] = "settled"] /\ faults' = faults
           \/ ~tcancelled[u] /\ CopyoutFails /\ Answer(c, "REJECTED") /\ UNCHANGED ent
    BY Zenon, <1>0, <1>e, <1>a DEF Ack
  <1>2. /\ p \in Mapped => rec'[p] = "REMOTE" /\ rec[p] = "TRANSIT"
        /\ \A q \in Pages \ {p} : SamePage(q)
        /\ tst'[u] = "acked" /\ \A t \in Tickets \ {u} : Same(t) /\ ent'[t] = ent[t]
        /\ p \notin Mapped => rec' = rec
    BY Zenon, <1>i, <1>u, <1>1, <1>a DEF TypeOK, PagesOK, TicketsOK, Becomes, Settle, SamePage, Same
  <1>3. /\ \/ /\ spc'[c] = "forget" /\ sticket'[c] = u /\ faults' = faults
              /\ sret'[c] = IF tcancelled[u] THEN "STALE" ELSE "OK"
           \/ spc'[c] = "reply" /\ sret'[c] = "REJECTED" /\ CopyoutFails
        /\ \A d \in Conns \ {c} : Still(d)
    BY Zenon, <1>i, <1>u, <1>1 DEF TypeOK, ServersOK, Answer, Then, Goto, Still
  <1>f. SessionOK' /\ (faults > 0 => faults' > 0) /\ (CopyoutFails => faults' > 0)
    BY Zenon, <1>i, <1>u, <1>3, FaultCounted
  <1>4. TypeOK'
    <2>1. PagesOK'
      BY Zenon, <1>i, <1>u, <1>1 DEF TypeOK, PagesOK
    <2>2. TicketsOK'
      BY Zenon, <1>i, <1>u, <1>1 DEF TypeOK, TicketsOK, Becomes, Settle, Bytes
    <2>3. ServersOK'
      BY <1>i, <1>u, <1>1 DEF TypeOK, ServersOK, Answers, Answer, Then, Goto
    <2> QED
      BY Zenon, <1>i, <1>u, <1>f, <2>1, <2>2, <2>3, TypeFrame
  <1>5. TicketsSound'
    <2>1. TicketSound(u)'
      BY Zenon, <1>u, <1>e, <1>2 DEF TicketSound, Grants
    <2>2. ASSUME NEW t \in Tickets, t # u PROVE TicketSound(t)'
      <3>1. TicketSound(t) /\ Same(t) /\ GuardsAlone
        BY Zenon, <1>i, <1>2, <2>2 DEF TicketsSound
      <3>2. Grants(t) /\ ~tcancelled[t] => tpage[t] \in Pages /\ tpage[t] # p
        <4>1. Grants(t) => HoldsGuard(t) /\ HoldsGuard(u)
          BY Zenon, <1>e DEF Grants, HoldsGuard
        <4> QED
          BY Zenon, <1>e, <2>2, <3>1, <4>1 DEF GuardsAlone, TicketSound, Private
      <3> QED
        BY Zenon, <1>u, <1>2, <3>1, <3>2, TicketFrame DEF SamePage
    <2>3. GuardsAlone'
      <3>1. \A t \in Tickets : HoldsGuard(t)' => HoldsGuard(t) /\ tpage'[t] = tpage[t]
        BY Zenon, <1>u, <1>e, <1>2 DEF HoldsGuard, Same
      <3> QED
        BY Zenon, <1>i, <3>1, GuardsFrame DEF TicketsSound
    <2> QED
      BY Zenon, <2>1, <2>2, <2>3 DEF TicketsSound
  <1>6. CustodyExact' /\ \A d \in Conns \ {c} : Untouched(d)
    <2>1. \A d \in Conns \ {c} : u \notin pend[d] /\ pend[d] \subseteq Tickets
      BY Zenon, <1>i, <1>e, Disjoint DEF CustodyExact
    <2> QED
      BY Zenon, <1>i, <1>u, <1>2, <2>1 DEF CustodyExact, Untouched, Same
  <1>7. \A d \in Conns : Conversation(d)'
    <2>1. Conversation(c)'
      BY Zenon, <1>p, <1>e, <1>u, <1>2, <1>3 DEF Conversation, Holds, Again
    <2> QED
      BY Zenon, <1>i, <1>3, <1>6, <2>1, ConversationFrame
  <1>8. \A d \in Conns : Landing(d)'
    <2>1. Landing(c)'
      BY Zenon, <1>p, <1>e, <1>u, <1>2, <1>3 DEF Landing, Mapped
    <2>2. ASSUME NEW d \in Conns, d # c PROVE Landing(d)'
      <3>1. \A q \in Mapped' : claim[q] = d => SamePage(q)
        BY Zenon, <1>e, <1>2, <2>2 DEF Mapped, Private
      <3> QED
        BY Zenon, <1>i, <1>u, <1>3, <2>2, <3>1, LandingFrame DEF SamePage
    <2> QED
      BY Zenon, <2>1, <2>2
  <1>9. Reserved'
    <2>1. \A q \in Mapped : rec'[q] = "TRANSIT" => rec[q] = "TRANSIT"
      BY Zenon, <1>2 DEF Mapped, Private, SamePage
    <2> QED
      BY Zenon, <1>i, <1>u, <2>1 DEF Reserved, Mapped
  <1>10. UsedWhenRecorded'
    <2>1. \A q \in Private : claim[q] = Nobody => SamePage(q)
      BY Zenon, <1>e, <1>2, ConstantsAssumption DEF Private
    <2> QED
      BY Zenon, <1>i, <1>u, <2>1 DEF UsedWhenRecorded, SamePage
  <1>11. RecordTrue'
    <2>1. p \in Mapped => RecordOf(p)'
      <3>1. p \in Mapped => RecordOf(p) /\ dst[p] = want[p]
        BY Zenon, <1>i, <1>p, <1>e, RecordOfAll DEF Landing
      <3> QED
        BY Zenon, <1>u, <1>2, <3>1 DEF RecordOf
    <2>2. ASSUME NEW q \in Mapped, q # p PROVE RecordOf(q)'
      <3>1. RecordOf(q) /\ SamePage(q)
        BY Zenon, <1>i, <1>2, <2>2, RecordOfAll DEF Mapped, Private
      <3>2. \A t \in Tickets : tpage[t] = q => Same(t)
        BY Zenon, <1>e, <1>2, <2>2
      <3> QED
        BY Zenon, <1>u, <3>1, <3>2 DEF RecordOf, SamePage, Grants, Same
    <2>3. \A q \in Mapped' : RecordOf(q)'
      BY Zenon, <1>u, <2>1, <2>2 DEF Mapped
    <2> QED
      BY Zenon, <2>3 DEF RecordTrue, RecordOf, Mapped
  <1>12. Caused'
    <2>1. (Cause => Cause') /\ (CopyoutFails => Cause') /\ (tcancelled[u] => Cause')
      BY Zenon, <1>u, <1>f, <1>a DEF Cause
    <2>2. ~CopyoutFails /\ ~tcancelled[u] => \A d \in Conns : Blamed(d)' => Blamed(d)
      BY Zenon, <1>u, <1>3 DEF Blamed, Bad, Still
    <2> QED
      BY Zenon, <1>i, <1>u, <2>1, <2>2, CausedFrame
  <1> QED
    BY Zenon, <1>4, <1>5, <1>6, <1>7, <1>8, <1>9, <1>10, <1>11, <1>12 DEF IInv

(* The tickets of the connections C are freed, and the pages of their      *)
(* unsettled grants poisoned with them: what remains is as it was.         *)
LEMMA FreeKeeps ==
    ASSUME IInv, NEW C, Free(Of(C)), poisoned' = poisoned \cup Abandoned(C),
           UNCHANGED <<rec, src, dst, back, want, unmapped>>
    PROVE  /\ TicketsSound' /\ RecordTrue'
           /\ \A t \in Tickets : /\ towner[t] \in C => tst'[t] = "none" /\ towner'[t] = Nobody
                                 /\ towner[t] \notin C => Same(t)
  <1>i. TypeOK /\ TicketsSound /\ RecordTrue
    BY Zenon DEF IInv
  <1>1. ASSUME NEW t \in Tickets
        PROVE  /\ towner[t] \in C => tst'[t] = "none" /\ towner'[t] = Nobody /\ ~tcancelled'[t]
               /\ towner[t] \notin C => Same(t)
    BY Zenon, <1>i DEF Free, Of, Same, TypeOK, TicketsOK
  <1>n. next' = next
    BY Zenon DEF Free
  <1>2. ASSUME NEW t \in Tickets PROVE TicketSound(t)'
    <2>1. CASE towner[t] \in C
      BY Zenon, <1>1, <2>1 DEF TicketSound, Grants
    <2>2. CASE towner[t] \notin C
      BY Zenon, <1>i, <1>1, <1>n, <2>2, TicketFrame DEF TicketsSound
    <2> QED
      BY Zenon, <2>1, <2>2
  <1>3. GuardsAlone'
    <2>1. \A t \in Tickets : HoldsGuard(t)' => HoldsGuard(t) /\ tpage'[t] = tpage[t]
      BY Zenon, <1>1 DEF HoldsGuard, Same
    <2> QED
      BY Zenon, <1>i, <2>1, GuardsFrame DEF TicketsSound
  <1>4. RecordTrue'
    <2>1. ASSUME NEW q \in Mapped PROVE RecordOf(q)'
      <3>1. RecordOf(q) /\ q \in Pages
        BY Zenon, <1>i, RecordOfAll DEF Mapped, Private
      <3>2. ASSUME NEW t \in Tickets, Grants(t), ~tcancelled[t], tpage[t] = q
            PROVE  q \in poisoned' \/ Same(t)
        BY Zenon, <1>1, <3>1, <3>2 DEF Abandoned, Of
      <3> QED
        BY Zenon, <3>1, <3>2 DEF RecordOf, Grants, Same
    <2>2. \A q \in Mapped' : RecordOf(q)'
      BY Zenon, <2>1 DEF Mapped
    <2> QED
      BY Zenon, <2>2 DEF RecordTrue, RecordOf, Mapped
  <1> QED
    BY Zenon, <1>1, <1>2, <1>3, <1>4 DEF TicketsSound

(* Freeing tickets keeps the types.                                        *)
LEMMA FreeTypes ==
    ASSUME TypeOK, NEW C, Free(Of(C)), poisoned' = poisoned \cup Abandoned(C),
           pend' \in [Conns -> SUBSET Tickets],
           ent' \in [Tickets -> {"none", "begun", "captured", "read", "settled"}],
           UNCHANGED <<rec, src, dst, back, want, unmapped, claim>>
    PROVE  PagesOK' /\ TicketsOK'
  <1>1. PagesOK'
    BY Zenon DEF TypeOK, PagesOK, Abandoned
  <1>2. TicketsOK'
    BY Zenon DEF TypeOK, TicketsOK, Free, Bytes
  <1> QED
    BY Zenon, <1>1, <1>2

(* ABANDON: the thread's tickets end with it, and it fails if there were   *)
(* any.                                                                    *)
LEMMA AbandonKeeps == ASSUME IInv, NEW c \in Conns, Abandon(c) PROVE IInv'
  <1>i. /\ TypeOK /\ TicketsSound /\ CustodyExact /\ Reserved /\ UsedWhenRecorded /\ RecordTrue
        /\ Caused /\ over # "source" /\ spc[c] = "close"
        /\ \A d \in Conns : Conversation(d) /\ Landing(d)
    BY Zenon DEF IInv, Abandon, Server
  <1>u. /\ UNCHANGED <<sticket, sret, rec, src, dst, back, want, unmapped, client, claim, cut, bounds, over>>
        /\ UNCHANGED <<cpc, cpage, cticket, cbytes, cans, faults>>
        /\ Free(Of({c})) /\ Empty(c) /\ poisoned' = poisoned \cup Abandoned({c})
        /\ Goto(c, IF pend[c] # {} THEN "failing" ELSE "closed")
    BY Zenon DEF Abandon, client, bounds
  <1>1. /\ TicketsSound' /\ RecordTrue'
        /\ \A t \in Tickets : /\ towner[t] = c => tst'[t] = "none" /\ towner'[t] = Nobody
                              /\ towner[t] # c => Same(t)
    BY Zenon, <1>u, FreeKeeps
  <1>2. /\ pend'[c] = {} /\ \A d \in Conns \ {c} : pend'[d] = pend[d]
        /\ pend' \in [Conns -> SUBSET Tickets]
        /\ ent' \in [Tickets -> {"none", "begun", "captured", "read", "settled"}]
        /\ \A t \in Tickets \ pend[c] : ent'[t] = ent[t]
    BY Zenon, <1>i, <1>u DEF TypeOK, TicketsOK, Empty
  <1>3. /\ spc'[c] = IF pend[c] # {} THEN "failing" ELSE "closed"
        /\ \A d \in Conns \ {c} : Still(d)
    BY Zenon, <1>i, <1>u DEF TypeOK, ServersOK, Goto, Still
  <1>4. TypeOK'
    <2>1. ServersOK'
      BY Zenon, <1>i, <1>u DEF TypeOK, ServersOK, Goto
    <2>2. PagesOK' /\ TicketsOK'
      BY Zenon, <1>i, <1>u, <1>2, FreeTypes
    <2> QED
      BY Zenon, <1>i, <1>u, <2>1, <2>2, TypeFrame
  <1>5. \A d \in Conns : pend[d] = {t \in Tickets : towner[t] = d}
    BY Zenon, <1>i DEF CustodyExact
  <1>6. CustodyExact'
    <2>1. ASSUME NEW d \in Conns PROVE pend'[d] = {t \in Tickets : towner'[t] = d}
      <3>1. CASE d = c
        BY <1>1, <1>2, <3>1, ConstantsAssumption DEF Same
      <3>2. CASE d # c
        BY <1>1, <1>2, <1>5, <3>2, ConstantsAssumption DEF Same
      <3> QED
        BY Zenon, <3>1, <3>2
    <2> QED
      BY Zenon, <2>1 DEF CustodyExact
  <1>7. \A d \in Conns : Conversation(d)'
    <2>1. Conversation(c)'
      <3>1. spc'[c] \in {"failing", "closed"} /\ spc[c] = "close" /\ Conversation(c)
        BY Zenon, <1>i, <1>3
      <3> QED
        BY Zenon, <1>u, <1>2, <3>1 DEF Conversation
    <2>2. \A d \in Conns \ {c} : Untouched(d)
      BY <1>1, <1>2, <1>5 DEF Untouched, Same
    <2> QED
      BY Zenon, <1>i, <1>3, <2>1, <2>2, ConversationFrame
  <1>8. \A d \in Conns : Landing(d)'
    <2>1. Landing(c)'
      BY Zenon, <1>i, <1>u, <1>3 DEF Landing, Mapped
    <2>2. ASSUME NEW d \in Conns, d # c PROVE Landing(d)'
      BY Zenon, <1>i, <1>u, <1>3, <2>2, LandingFrame
    <2> QED
      BY Zenon, <2>1, <2>2
  <1>9. Reserved' /\ UsedWhenRecorded'
    BY Zenon, <1>i, <1>u DEF Reserved, UsedWhenRecorded, Mapped
  <1>10. Caused'
    <2>1. Cause <=> Cause'
      BY Zenon, <1>u DEF Cause
    <2>2. pend[c] # {} => Cause
      BY Zenon, <1>i DEF Caused, Blamed
    <2>3. pend[c] = {} => poisoned' = poisoned
      BY Zenon, <1>u, <1>5 DEF Abandoned, Of
    <2>4. pend[c] = {} => \A d \in Conns : Blamed(d)' => Blamed(d)
      BY Zenon, <1>u, <1>2, <1>3 DEF Blamed, Still
    <2> QED
      BY Zenon, <1>i, <1>u, <2>1, <2>2, <2>3, <2>4, CausedFrame
  <1> QED
    BY Zenon, <1>1, <1>4, <1>6, <1>7, <1>8, <1>9, <1>10 DEF IInv

(* vmhome exits, and everything in custody ends with it.                   *)
LEMMA AdapterFailsKeeps == ASSUME IInv, NEW c \in Conns, AdapterFails(c) PROVE IInv'
  <1>i. /\ TypeOK /\ TicketsSound /\ CustodyExact /\ Reserved /\ UsedWhenRecorded /\ RecordTrue
        /\ Caused /\ spc[c] = "failing" /\ \A d \in Conns : Landing(d)
    BY Zenon DEF IInv, AdapterFails, Server
  <1>u. /\ UNCHANGED <<rec, src, dst, back, want, unmapped, server, client, claim, cut, bounds>>
        /\ UNCHANGED <<spc, sticket, sret, cpc, cpage, cticket, cbytes, cans, asks, unmaps, cuts, faults>>
        /\ Free(Of(Conns)) /\ poisoned' = poisoned \cup Abandoned(Conns)
        /\ over' = "source" /\ pend' = [d \in Conns |-> {}] /\ ent' = [t \in Tickets |-> "none"]
    BY Zenon DEF AdapterFails, client, server, bounds
  <1>1. /\ TicketsSound' /\ RecordTrue'
        /\ \A t \in Tickets : /\ towner[t] \in Conns => towner'[t] = Nobody
                              /\ towner[t] \notin Conns => Same(t)
    BY Zenon, <1>u, FreeKeeps
  <1>2. TypeOK'
    <2>1. PagesOK' /\ TicketsOK'
      BY Zenon, <1>i, <1>u, FreeTypes
    <2>2. SessionOK'
      BY Zenon, <1>i, <1>u DEF TypeOK, SessionOK
    <2> QED
      BY Zenon, <1>i, <1>u, <2>1, <2>2, TypeFrame
  <1>3. CustodyExact'
    <2>1. \A t \in Tickets, d \in Conns : towner'[t] # d
      BY Zenon, <1>1, ConstantsAssumption DEF Same
    <2> QED
      BY <1>u, <2>1 DEF CustodyExact
  <1>4. \A d \in Conns : Landing(d)'
    BY Zenon, <1>i, <1>u, LandingFrame DEF Still
  <1>5. Reserved' /\ UsedWhenRecorded'
    BY Zenon, <1>i, <1>u DEF Reserved, UsedWhenRecorded, Mapped
  <1>6. Caused'
    <2>1. Cause /\ (Cause => Cause')
      BY Zenon, <1>i, <1>u DEF Caused, Blamed, Cause
    <2> QED
      BY Zenon, <1>i, <2>1, CausedFrame
  <1> QED
    BY Zenon, <1>u, <1>1, <1>2, <1>3, <1>4, <1>5, <1>6 DEF IInv

-----------------------------------------------------------------------------
(* The invariant holds at the start.                                       *)
LEMMA InitIInv == Init => IInv
  <1> SUFFICES ASSUME Init PROVE IInv
    OBVIOUS
  <1> USE ConstantsAssumption
  <1>1. TypeOK
    BY DEF Init, TypeOK, PagesOK, TicketsOK, ServersOK, ClientsOK, SessionOK, Answers, Bytes, Values, Tickets
  <1>2. TicketsSound
    BY Zenon DEF Init, TicketsSound, GuardsAlone, TicketSound, HoldsGuard, Grants
  <1>3. CustodyExact
    BY Zenon DEF Init, CustodyExact
  <1>4. ASSUME NEW c \in Conns PROVE Conversation(c)
    BY Zenon DEF Init, Conversation
  <1>5. Reserved
    BY Zenon DEF Init, Reserved, Mapped, Private
  <1>6. ASSUME NEW c \in Conns PROVE Landing(c)
    BY Zenon DEF Init, Landing
  <1>7. UsedWhenRecorded
    BY Zenon DEF Init, UsedWhenRecorded, Private
  <1>8. RecordTrue
    BY Zenon DEF Init, RecordTrue, Private
  <1>9. Caused
    BY Zenon DEF Init, Caused, Blamed, Bad
  <1> QED
    BY Zenon, <1>1, <1>2, <1>3, <1>4, <1>5, <1>6, <1>7, <1>8, <1>9 DEF IInv

(* A step that changes nothing keeps it.                                   *)
LEMMA StutterKeeps == ASSUME IInv, UNCHANGED vars PROVE IInv'
  <1>i. /\ TypeOK /\ TicketsSound /\ CustodyExact /\ Reserved /\ UsedWhenRecorded /\ RecordTrue /\ Caused
        /\ over # "source" => \A d \in Conns : Conversation(d)
        /\ \A d \in Conns : Landing(d)
    BY Zenon DEF IInv
  <1>u. UNCHANGED <<pages, tickets, custody, server, client, claim, cut, bounds, over>>
    BY Zenon DEF vars
  <1>v. /\ UNCHANGED <<rec, src, dst, back, want, unmapped, poisoned>>
        /\ UNCHANGED <<tst, towner, tpage, tbytes, tcancelled, next, pend, ent>>
        /\ UNCHANGED <<spc, sticket, sret, cpc, cpage, cticket, cbytes, cans, faults>>
    BY Zenon, <1>u DEF pages, tickets, custody, server, client, bounds
  <1>1. TypeOK'
    BY Zenon, <1>i, <1>u, TypeFrame
  <1>2. TicketsSound' /\ CustodyExact'
    BY Zenon, <1>i, <1>v, TicketsFrame DEF CustodyExact
  <1>3. RecordTrue' /\ UsedWhenRecorded' /\ Reserved'
    BY Zenon, <1>i, <1>u, <1>v, RecordFrame, UsedFrame DEF Reserved, Mapped, Same
  <1>4. \A d \in Conns : Still(d) /\ Untouched(d)
    BY Zenon, <1>v DEF Still, Untouched
  <1>5. over' # "source" => \A d \in Conns : Conversation(d)'
    BY Zenon, <1>i, <1>u, <1>4, ConversationFrame
  <1>6. \A d \in Conns : Landing(d)'
    BY Zenon, <1>i, <1>u, <1>v, <1>4, LandingFrame
  <1>7. Caused'
    BY Zenon, <1>i, <1>u, <1>v, CausedFrame DEF Cause, Blamed
  <1> QED
    BY Zenon, <1>1, <1>2, <1>3, <1>5, <1>6, <1>7 DEF IInv

(* And so does every step of the program, of vmremote and of vmhome.       *)
LEMMA NextIInv == IInv /\ [Next]_vars => IInv'
  <1> SUFFICES ASSUME IInv, [Next]_vars PROVE IInv'
    OBVIOUS
  <1>1. ASSUME NEW p \in Pages,
               SourceStore(p) \/ RecallAsk(p) \/ RecallTake(p) \/ RecallLand(p) \/ Unmap(p)
        PROVE  IInv'
    BY Zenon, <1>1, SourceStoreKeeps, RecallAskKeeps, RecallTakeKeeps, RecallLandKeeps, UnmapKeeps
  <1>2. ASSUME NEW c \in Conns, NEW p \in Pages, GuestStore(c, p) \/ Fetch(c, p) PROVE IInv'
    BY Zenon, <1>2, GuestStoreKeeps, FetchKeeps
  <1>3. ASSUME NEW c \in Conns, ClientStep(c) \/ Finish(c) \/ Cut(c) PROVE IInv'
    BY Zenon, <1>3, FetchedKeeps, AckFlushKeeps, AckConfirmedKeeps, CallFailsKeeps, FinishKeeps, CutKeeps
       DEF ClientStep
  <1>4. ASSUME NEW c \in Conns, ServerStep(c) PROVE IInv'
    BY Zenon, <1>4, ReceiveKeeps, BeginKeeps, CaptureGuardKeeps, CaptureNothingKeeps, CaptureKeeps,
       ReadKeeps, CancelKeeps, AckKeeps, ForgetKeeps, ReplyKeeps, EndOfStreamKeeps, AbandonKeeps,
       AdapterFailsKeeps
       DEF ServerStep
  <1>5. CASE UNCHANGED vars
    BY Zenon, <1>5, StutterKeeps
  <1> QED
    BY Zenon, <1>1, <1>2, <1>3, <1>4, <1>5 DEF Next, Ended

(* The invariant holds in every reachable state.                           *)
LEMMA AlwaysIInv == Spec => []IInv
  BY InitIInv, NextIInv, PTL DEF Spec

(* Every variable of the exchange keeps its type; in particular an answer  *)
(* on the wire is one the other half knows (the statuses of ctx_page).     *)
THEOREM ExchangeTypes == Spec => []TypeOK
  <1>1. IInv => TypeOK
    BY DEF IInv
  <1> QED
    BY <1>1, AlwaysIInv, PTL

(* The custody of a connection is what the kernel has under its name       *)
(* (source-custody.h), whatever fails or is cut.                           *)
THEOREM CustodyIsExact == Spec => []CustodyExact
  <1>1. IInv => CustodyExact
    BY DEF IInv
  <1> QED
    BY <1>1, AlwaysIInv, PTL

(* A thread of vmremote back in the guest owes the source nothing, so      *)
(* serve() never refuses its next operation for custody outstanding.       *)
THEOREM QuietIsSettled == Spec => []QuietMeansSettled
  <1>1. IInv => QuietMeansSettled
    BY Zenon DEF IInv, Conversation, QuietMeansSettled
  <1> QED
    BY <1>1, AlwaysIInv, PTL

(* A page is used at the destination only once the source has recorded it  *)
(* as handed over (source_receipt_finish before the reservation ends).     *)
THEOREM HandedOverBeforeUse == Spec => []UsedWhenRecorded
  <1>1. IInv => UsedWhenRecorded
    BY DEF IInv
  <1> QED
    BY <1>1, AlwaysIInv, PTL

(* The page record says where the only current bytes of a page are; an     *)
(* abandoned grant is poisoned (vmctx_transfer_owner_exit).                *)
THEOREM RecordIsTrue == Spec => []RecordTrue
  <1>1. IInv => RecordTrue
    BY DEF IInv
  <1> QED
    BY <1>1, AlwaysIInv, PTL

(* No interleaving of the exchange ends the session by itself: neither     *)
(* half exits (97, or source_adapter_failed) without a fault from outside. *)
THEOREM EndHasCause == Spec => []EndsForCause
  <1>1. IInv => EndsForCause
    BY DEF IInv, Caused, Cause, EndsForCause
  <1> QED
    BY <1>1, AlwaysIInv, PTL

-----------------------------------------------------------------------------
(* A page of which neither the place nor the bytes change, one that is     *)
(* stored to where it is, that leaves and that arrives.                    *)
Moves(p) ==
    \/ Place(p)' = Place(p) /\ want'[p] = want[p]
    \/ Place(p) # "wire" /\ Place(p)' = Place(p) /\ want'[p] = want[p] + 1
    \/ Place(p) # "wire" /\ Place(p)' = "wire" /\ want'[p] = want[p]
    \/ Place(p) = "wire" /\ Place(p)' # "wire" /\ want'[p] = want[p]

(* These are the steps of OneCopy.                                         *)
LEMMA MovesIsNext ==
    ASSUME NEW p, Moves(p)
    PROVE  [Copy(p)!Next]_<<Place(p), want[p]>>
  <1>1. Place(p) \in {"source", "wire", "destination"} /\ Place(p)' \in {"source", "wire", "destination"}
    BY DEF Place
  <1> QED
    BY Zenon, <1>1 DEF Moves, Copy!Next, Copy!Store, Copy!Depart, Copy!Arrive, Copy!Machines

(* A page whose record, bytes at the destination and last store stay.      *)
LEMMA PlaceFrame ==
    ASSUME NEW p, rec'[p] = rec[p], dst'[p] = dst[p], want'[p] = want[p]
    PROVE  Moves(p)
  BY Zenon DEF Moves, Place

(* What a step needs to know of a mapped page: its record is true, and it  *)
(* has a type.                                                             *)
LEMMA MappedPage ==
    ASSUME IInv, NEW q \in Mapped
    PROVE  /\ q \in Private /\ q \in Pages /\ q \notin unmapped /\ RecordOf(q) /\ PagesOK
           /\ rec[q] \in {"HOME", "TRANSIT", "REMOTE", "CLAIM"}
  <1>1. q \in Private /\ q \in Pages /\ q \notin unmapped
    BY Zenon DEF Mapped, Private
  <1>2. RecordOf(q) /\ PagesOK
    BY Zenon, RecordOfAll DEF IInv, TypeOK
  <1> QED
    BY Zenon, <1>1, <1>2 DEF PagesOK

(* The steps of the program and of the pages that go home.                 *)
LEMMA ProgramMoves ==
    ASSUME IInv, NEW q \in Mapped, NEW p \in Pages,
           SourceStore(p) \/ RecallAsk(p) \/ RecallTake(p) \/ RecallLand(p)
    PROVE  Moves(q)
  <1>q. /\ q \in Private /\ q \in Pages /\ q \notin unmapped /\ RecordOf(q) /\ PagesOK
    BY Zenon, MappedPage
  <1>1. CASE q # p
    <2>1. rec'[q] = rec[q] /\ dst'[q] = dst[q] /\ want'[q] = want[q]
      BY Zenon, <1>q, <1>1 DEF PagesOK, SourceStore, RecallAsk, RecallTake, RecallLand
    <2> QED
      BY Zenon, <2>1, PlaceFrame
  <1>2. CASE q = p /\ SourceStore(p)
    BY Zenon, <1>q, <1>2 DEF PagesOK, Moves, Place, SourceStore
  <1>3. CASE q = p /\ RecallAsk(p)
    BY Zenon, <1>q, <1>3, ConstantsAssumption DEF PagesOK, Values, RecordOf, Moves, Place, RecallAsk
  <1>4. CASE q = p /\ RecallTake(p)
    BY Zenon, <1>q, <1>4 DEF PagesOK, Moves, Place, RecallTake
  <1>5. CASE q = p /\ RecallLand(p)
    BY Zenon, <1>q, <1>5, ConstantsAssumption DEF PagesOK, Values, RecordOf, Moves, Place, RecallLand
  <1> QED
    BY Zenon, <1>1, <1>2, <1>3, <1>4, <1>5

(* The guest stores to a page the source has recorded as handed over.      *)
LEMMA GuestMoves ==
    ASSUME IInv, NEW q \in Mapped, NEW c \in Conns, NEW p \in Pages, GuestStore(c, p)
    PROVE  Moves(q)
  <1>q. /\ q \in Private /\ q \in Pages /\ q \notin unmapped /\ PagesOK /\ UsedWhenRecorded
    BY Zenon, MappedPage DEF IInv
  <1>1. CASE q # p
    <2>1. rec'[q] = rec[q] /\ dst'[q] = dst[q] /\ want'[q] = want[q]
      BY Zenon, <1>q, <1>1 DEF PagesOK, GuestStore
    <2> QED
      BY Zenon, <2>1, PlaceFrame
  <1>2. CASE q = p
    <2>1. rec[q] \in {"REMOTE", "CLAIM"} /\ dst[q] # Hole
      BY Zenon, <1>q, <1>2 DEF UsedWhenRecorded, GuestStore
    <2>2. rec' = rec /\ want'[q] = want[q] + 1 /\ dst'[q] # Hole
      BY <1>q, <1>2, ConstantsAssumption DEF PagesOK, Values, GuestStore
    <2> QED
      BY Zenon, <2>1, <2>2 DEF Moves, Place
  <1> QED
    BY Zenon, <1>1, <1>2

(* A page lands while its record says it is in transit.                    *)
LEMMA FetchedMoves ==
    ASSUME IInv, NEW q \in Mapped, NEW c \in Conns, Fetched(c)
    PROVE  Moves(q)
  <1>q. /\ q \in Private /\ q \in Pages /\ q \notin unmapped /\ PagesOK /\ Landing(c)
    BY Zenon, MappedPage DEF IInv
  <1>1. /\ UNCHANGED <<rec, want, unmapped>> /\ cpc[c] = "answered"
        /\ UNCHANGED dst \/ (cans[c] = "BYTES" /\ dst' = [dst EXCEPT ![cpage[c]] = cbytes[c]])
    BY Zenon DEF Fetched, Client
  <1>2. CASE UNCHANGED dst \/ q # cpage[c]
    <2>1. dst'[q] = dst[q]
      BY Zenon, <1>q, <1>1, <1>2 DEF PagesOK
    <2> QED
      BY Zenon, <1>1, <2>1, PlaceFrame
  <1>3. CASE cans[c] = "BYTES" /\ q = cpage[c]
    <2>1. rec[q] = "TRANSIT"
      BY Zenon, <1>q, <1>1, <1>3 DEF Landing
    <2> QED
      BY Zenon, <1>1, <2>1 DEF Moves, Place
  <1> QED
    BY Zenon, <1>1, <1>2, <1>3

(* A capture takes a page from home.                                       *)
LEMMA CaptureMoves ==
    ASSUME IInv, NEW q \in Mapped, NEW c \in Conns, Capture(c)
    PROVE  Moves(q)
  <1>q. /\ q \in Private /\ q \in Pages /\ q \notin unmapped /\ PagesOK
    BY Zenon, MappedPage
  <1>p. PICK p \in Pages : p = tpage[sticket[c]]
    BY Zenon, Engaged DEF Capture, Server
  <1>1. /\ UNCHANGED <<dst, want>> /\ rec[p] = "HOME"
        /\ rec' = rec \/ rec' = [rec EXCEPT ![p] = "TRANSIT"]
    BY Zenon, <1>p DEF Capture
  <1>2. CASE rec'[q] = rec[q]
    BY Zenon, <1>1, <1>2, PlaceFrame
  <1>3. CASE rec[q] = "HOME" /\ rec'[q] = "TRANSIT"
    BY Zenon, <1>1, <1>3 DEF Moves, Place
  <1> QED
    BY <1>q, <1>1, <1>2, <1>3 DEF PagesOK

(* An acknowledged page has arrived.                                       *)
LEMMA AckMoves ==
    ASSUME IInv, NEW q \in Mapped, NEW c \in Conns, Ack(c)
    PROVE  Moves(q)
  <1>q. /\ q \in Private /\ q \in Pages /\ q \notin unmapped /\ PagesOK
    BY Zenon, MappedPage
  <1>1. /\ UNCHANGED <<dst, want>>
        /\ \/ rec' = rec
           \/ rec[tpage[cticket[c]]] = "TRANSIT" /\ rec' = [rec EXCEPT ![tpage[cticket[c]]] = "REMOTE"]
    BY Zenon DEF Ack
  <1>2. CASE rec'[q] = rec[q]
    BY Zenon, <1>1, <1>2, PlaceFrame
  <1>3. CASE rec[q] = "TRANSIT" /\ rec'[q] = "REMOTE"
    BY Zenon, <1>1, <1>3 DEF Moves, Place
  <1> QED
    BY Zenon, <1>q, <1>1, <1>2, <1>3 DEF PagesOK

(* Every other step leaves the record, the bytes at the destination and    *)
(* the last store of every page alone.                                     *)
LEMMA OthersStay ==
    ASSUME NEW c \in Conns,
           \/ AckFlush(c) \/ AckConfirmed(c) \/ CallFails(c) \/ Finish(c) \/ Cut(c)
           \/ Receive(c) \/ Begin(c) \/ CaptureGuard(c) \/ CaptureNothing(c) \/ Read(c)
           \/ Cancel(c) \/ Forget(c) \/ Reply(c) \/ EndOfStream(c) \/ Abandon(c) \/ AdapterFails(c)
    PROVE  UNCHANGED <<rec, dst, want>>
  BY Zenon DEF AckFlush, AckConfirmed, CallFails, Finish, Cut, Receive, Begin, CaptureGuard,
     CaptureNothing, Read, Cancel, Forget, Reply, EndOfStream, Abandon, AdapterFails, pages

(* An unmapped page stays so.                                              *)
LEMMA StaysUnmapped == ASSUME [Next]_vars PROVE unmapped \subseteq unmapped'
  <1>1. ASSUME NEW p \in Pages,
               SourceStore(p) \/ RecallAsk(p) \/ RecallTake(p) \/ RecallLand(p) \/ Unmap(p)
        PROVE  unmapped \subseteq unmapped'
    BY Zenon, <1>1 DEF SourceStore, RecallAsk, RecallTake, RecallLand, Unmap
  <1>2. ASSUME NEW c \in Conns, NEW p \in Pages, GuestStore(c, p) \/ Fetch(c, p)
        PROVE  unmapped' = unmapped
    BY Zenon, <1>2 DEF GuestStore, Fetch, pages
  <1>3. ASSUME NEW c \in Conns, ClientStep(c) \/ Finish(c) \/ Cut(c) PROVE unmapped' = unmapped
    BY Zenon, <1>3 DEF ClientStep, Fetched, AckFlush, AckConfirmed, CallFails, Finish, Cut, pages
  <1>4. ASSUME NEW c \in Conns, ServerStep(c) PROVE unmapped' = unmapped
    BY Zenon, <1>4 DEF ServerStep, Receive, Begin, CaptureGuard, CaptureNothing, Capture, Read,
       Cancel, Ack, Forget, Reply, EndOfStream, Abandon, AdapterFails, pages
  <1>5. CASE UNCHANGED vars
    BY Zenon, <1>5 DEF vars, pages
  <1> QED
    BY Zenon, <1>1, <1>2, <1>3, <1>4, <1>5 DEF Next, Ended

(* Every step moves a mapped private page as OneCopy allows, or unmaps it. *)
LEMMA StepMoves ==
    ASSUME IInv, [Next]_vars, NEW q \in Private, q \notin unmapped'
    PROVE  Moves(q)
  <1>m. q \in Mapped
    BY Zenon, StaysUnmapped DEF Mapped
  <1>1. ASSUME NEW p \in Pages,
               SourceStore(p) \/ RecallAsk(p) \/ RecallTake(p) \/ RecallLand(p) \/ Unmap(p)
        PROVE  Moves(q)
    <2>1. CASE Unmap(p)
      <3>1. rec'[q] = rec[q] /\ dst'[q] = dst[q] /\ want'[q] = want[q]
        BY Zenon, <1>m, <2>1, MappedPage DEF Unmap, PagesOK
      <3> QED
        BY Zenon, <3>1, PlaceFrame
    <2> QED
      BY Zenon, <1>m, <1>1, <2>1, ProgramMoves
  <1>2. ASSUME NEW c \in Conns, NEW p \in Pages, GuestStore(c, p) \/ Fetch(c, p) PROVE Moves(q)
    <2>1. CASE Fetch(c, p)
      BY Zenon, <2>1, PlaceFrame DEF Fetch, pages
    <2> QED
      BY Zenon, <1>m, <1>2, <2>1, GuestMoves
  <1>3. ASSUME NEW c \in Conns, ClientStep(c) \/ Finish(c) \/ Cut(c) \/ ServerStep(c) PROVE Moves(q)
    <2>1. CASE UNCHANGED <<rec, dst, want>>
      BY Zenon, <2>1, PlaceFrame
    <2> QED
      BY Zenon, <1>m, <1>3, <2>1, OthersStay, FetchedMoves, CaptureMoves, AckMoves
         DEF ClientStep, ServerStep
  <1>4. CASE UNCHANGED vars
    BY Zenon, <1>4, PlaceFrame DEF vars, pages
  <1> QED
    BY Zenon, <1>1, <1>2, <1>3, <1>4 DEF Next, Ended

(* A private page, while it is mapped, moves between the machines as the   *)
(* one piece of memory that OneCopy describes: source_page_fetch, ctx_page *)
(* and the recall never make a second copy of it and never lose a store.   *)
THEOREM PageMovesAsOneCopy == Spec => MovesAsOneCopy
  <1>1. IInv /\ [Next]_vars =>
          [\A p \in Private : p \in unmapped' \/ [Copy(p)!Next]_<<Place(p), want[p]>>]_vars
    BY Zenon, StepMoves, MovesIsNext
  <1> QED
    BY <1>1, AlwaysIInv, PTL DEF Spec, MovesAsOneCopy

=============================================================================
