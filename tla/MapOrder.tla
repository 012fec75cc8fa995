------------------------------ MODULE MapOrder ------------------------------
(***************************************************************************)
(* How the executor keeps its picture of one address space in step with    *)
(* the source's.  The source's kernel is the only place where the order of *)
(* mmap, munmap, mprotect, madvise and mremap is known; the executor       *)
(* learns of it twice: from the reply to the call, on the connection of    *)
(* the context that made it (reply_note_map), and from the retained access *)
(* journal of the address space, which any context's next call may consume *)
(* (access_sync).  The two arrive in either order.                         *)
(*                                                                         *)
(* Pages are numbers; a range is a pair (first page, page after the last). *)
(* The interval tables of access-layout.h, shared-layout.h and regions[]   *)
(* never hold two live rows for one page, so each is a function of the     *)
(* page; the construction records overlap and stay rows.                   *)
(***************************************************************************)
EXTENDS Integers, Sequences, SequencesExt, FiniteSetsExt

CONSTANTS
  Ctx,        \* the contexts (threads) of the address space
  NoCtx,      \* "nobody holds the cursor's mutex"
  NPages,     \* pages of the address space
  Settings    \* the situations considered, as records of
              \*   mapped  pages the program had when it was loaded, private
              \*           and writable
              \*   prots   protections the program asks for: 1 read, 2 read
              \*           and write
              \*   kinds   the kinds of call the program makes
              \*   calls   bound: calls made in one behaviour
              \*   touched bound: the pages the guest's instructions touch
              \*   batch   VMR_ACCESS_MAX: events of one READ
              \*   races   orders of two threads' work that are allowed

ASSUME MapOrderAssumption ==
  /\ NPages \in Nat \ {0} /\ NoCtx \notin Ctx
  /\ \A s \in Settings :
       /\ s.calls \in Nat /\ s.batch \in Nat \ {0} /\ s.prots \subseteq 1..2
       /\ s.mapped \subseteq 1..NPages /\ s.touched \subseteq 1..NPages
       /\ s.kinds \subseteq {"mmap", "shmat", "munmap", "mprotect", "discard",
                             "guard", "mremap", "fork", "other"}
       /\ s.races \subseteq {"native", "sample", "overlay", "sharedmove", "carry",
                             "birth", "stamp", "sibling"}

VARIABLES
  setting,  \* the situation, which no step changes
  src,      \* the source's mappings, page by page
  ctr,      \* vac_seq_ctr: the number of the last journal event
  log,      \* the journal's events that have not been acknowledged
  call,     \* where each context's forwarded call is
  ncalls,   \* calls made so far (bounded by MaxCalls)
  cur,      \* the access cursor: who holds its mutex, and the batch read
  ex,       \* the executor's tables and native mappings
  kid,      \* the address space of a forked child
  killed,   \* ghost: last acknowledged event that ended a page's contents
  gone,     \* ghost: last acknowledged event that unmapped a page
  wrote     \* ghost: the program's last store to a page must still be there

vars == <<setting, src, ctr, log, call, ncalls, cur, ex, kid, killed, gone, wrote>>

InitMapped == setting.mapped
Prots      == setting.prots
Calls      == setting.kinds
MaxCalls   == setting.calls
Touched    == setting.touched
BatchMax   == setting.batch
Races      == setting.races

Pages == 1..NPages
Span(r) == r.s..(r.e - 1)
Ranges == {r \in [s : Pages, e : 2..(NPages + 1)] : r.s < r.e}

\* Maximal runs of consecutive pages of a set.
Runs(S) == {r \in Ranges : Span(r) \subseteq S /\ r.s - 1 \notin S /\ r.e \notin S}

\* Protections: 0 no access, 1 read, 2 read and write.
NoMap == [inc |-> -1, by |-> "none", obj |-> 0, off |-> 0, prot |-> 0, guard |-> FALSE]
Mapped(p) == src[p].inc >= 0
Rights(m) == IF m.guard THEN 0 ELSE m.prot

NoRow == [seq |-> -1, prot |-> 0, den |-> FALSE]     \* no access interval here
NoShare == [obj |-> 0, off |-> 0, prot |-> 0]        \* no shared range here
NoNat == [prot |-> -1, seq |-> -1]                   \* no native VMA here

NoEff == [kind |-> "none", s |-> 1, e |-> 1, from |-> 1, prot |-> 0, obj |-> 0,
          fixed |-> FALSE]
Idle == [st |-> "run", eff |-> NoEff, seq |-> 0]
Event(kind, r, prot) == [seq |-> 0, s |-> r.s, e |-> r.e, kind |-> kind, prot |-> prot]

(***************************************************************************)
(* The source: a native call, the events its kernel commits, the reply.    *)
(***************************************************************************)

\* Pages whose mapping a reply on its way to the executor is about to change.
InFlight(d) == IF call[d].st = "run" THEN {} ELSE Span(call[d].eff)

\* A program whose threads do not touch a range another thread's mmap or
\* mremap has not returned yet.
Undisturbed(c, P) ==
  \A d \in Ctx \ {c} :
    \/ InFlight(d) \cap P = {}
    \/ call[d].eff.kind = "set" /\ "native" \in Races
    \/ call[d].eff.kind = "move" /\ "sample" \in Races

\* The pages some event of the unacknowledged journal is about.
Journalled == UNION {Span(e) : e \in Range(log)}

\* A call reaches the source.  vmctx_access_commit numbers each event under
\* the native mutation lock and keeps it until it is acknowledged.
vmctx_access_commit(c, evs, eff) ==
  /\ call[c].st = "run"
  /\ ncalls < MaxCalls
  /\ kid.st # "forked"                 \* a snapshot lease keeps guests paused
  /\ \/ "carry" \in Races
     \/ \A d \in Ctx \ {c} : call[d].eff.kind = "move" => call[d].st \notin {"drain", "reply"}
  /\ ncalls' = ncalls + 1
  /\ ctr' = ctr + Len(evs)
  /\ log' = log \o [i \in 1..Len(evs) |-> [evs[i] EXCEPT !.seq = ctr + i]]
  /\ call' = [call EXCEPT ![c] =
       [st |-> IF eff.kind \in {"move", "fork"} THEN "drain" ELSE "reply",
        eff |-> eff, seq |-> ctr + Len(evs)]]
  /\ UNCHANGED <<setting, cur, ex, killed, gone>>

\* A store may be lost to a discard, an unmap or a replacement that is under
\* way; one made afterwards may not.
EndsContents(P) == wrote' = [p \in Pages |-> IF p \in P THEN FALSE ELSE wrote[p]]

\* One UNMAP event covers the whole range, if anything was mapped in it.
UnmapEvent(r) ==
  IF \E p \in Span(r) : Mapped(p) THEN <<Event("unmap", r, 0)>> ELSE <<>>

\* mmap and shmat (source_map_effect): a fixed placement over live memory
\* unmaps it first; the construction event ends the call.
Mmap(c, r, prot, obj) ==
  /\ (IF obj = 0 THEN "mmap" ELSE "shmat") \in Calls /\ prot \in Prots
  /\ Undisturbed(c, Span(r))
  /\ LET evs == UnmapEvent(r) \o <<Event("construct", r, prot)>>
     IN /\ vmctx_access_commit(c, evs,
             [NoEff EXCEPT !.kind = "set", !.s = r.s, !.e = r.e, !.prot = prot, !.obj = obj])
        /\ src' = [p \in Pages |-> IF p \in Span(r)
                     THEN [inc |-> ctr + Len(evs), by |-> "map", obj |-> obj,
                           off |-> IF obj = 0 THEN 0 ELSE p - r.s, prot |-> prot,
                           guard |-> FALSE]
                     ELSE src[p]]
  /\ EndsContents(Span(r))
  /\ UNCHANGED kid

Munmap(c, r) ==
  /\ "munmap" \in Calls
  /\ \E p \in Span(r) : Mapped(p)
  /\ Undisturbed(c, Span(r))
  /\ vmctx_access_commit(c, UnmapEvent(r), NoEff)
  /\ src' = [p \in Pages |-> IF p \in Span(r) THEN NoMap ELSE src[p]]
  /\ EndsContents(Span(r))
  /\ UNCHANGED kid

Mprotect(c, r, prot) ==
  /\ "mprotect" \in Calls /\ prot \in Prots
  /\ \A p \in Span(r) : Mapped(p)
  /\ \E p \in Span(r) : src[p].prot # prot
  /\ Undisturbed(c, Span(r))
  /\ vmctx_access_commit(c, <<Event("protect", r, prot)>>, NoEff)
  /\ src' = [p \in Pages |-> IF p \in Span(r) THEN [src[p] EXCEPT !.prot = prot] ELSE src[p]]
  /\ UNCHANGED <<kid, wrote>>

\* MADV_DONTNEED: the contents end, the mapping and its guards stay.
Discard(c, r) ==
  /\ "discard" \in Calls
  /\ \A p \in Span(r) : Mapped(p)
  /\ Undisturbed(c, Span(r))
  /\ vmctx_access_commit(c, <<Event("discard", r, 0)>>, NoEff)
  /\ EndsContents(Span(r))
  /\ UNCHANGED <<src, kid>>

\* MADV_GUARD_INSTALL and MADV_GUARD_REMOVE on one page.
Guard(c, p) ==
  /\ "guard" \in Calls
  /\ Mapped(p)
  /\ Undisturbed(c, {p})
  /\ vmctx_access_commit(c, <<Event(IF src[p].guard THEN "allow" ELSE "deny",
                                    [s |-> p, e |-> p + 1], src[p].prot)>>, NoEff)
  /\ src' = [src EXCEPT ![p].guard = ~@]
  /\ EndsContents(IF src[p].guard THEN {} ELSE {p})
  /\ UNCHANGED kid

\* mremap moves one mapping; with MREMAP_FIXED what was at the target is
\* unmapped first.  The kernel commits no construction for it.
Mremap(c, r, t, fixed) ==
  LET n == r.e - r.s
      to == [s |-> t, e |-> t + n]
      evs == UnmapEvent(to) \o <<Event("unmap", r, 0)>>
  IN
  /\ "mremap" \in Calls
  /\ Span(to) \subseteq Pages /\ Span(to) \cap Span(r) = {}
  /\ \A p \in Span(r) : Mapped(p) /\ src[p].inc = src[r.s].inc
  /\ \A p \in Span(to) : Mapped(p) => fixed
  /\ Undisturbed(c, Span(r) \cup Span(to))
  /\ "carry" \in Races \/ \A d \in Ctx \ {c} : call[d].st = "run"
  /\ "sharedmove" \in Races \/ src[r.s].obj = 0
  /\ \/ "overlay" \in Races
     \/ /\ \A p \in Span(to) : ~Mapped(p)
        /\ Journalled \cap (Span(r) \cup Span(to)) = {}
  /\ vmctx_access_commit(c, evs,
       [NoEff EXCEPT !.kind = "move", !.s = t, !.e = t + n, !.from = r.s, !.fixed = fixed])
  /\ src' = [p \in Pages |->
       IF p \in Span(to)
       THEN [src[p - t + r.s] EXCEPT !.inc = ctr + Len(evs), !.by = "move"]
       ELSE IF p \in Span(r) THEN NoMap ELSE src[p]]
  /\ wrote' = [p \in Pages |-> IF p \in Span(to) THEN wrote[p - t + r.s]
                               ELSE p \notin Span(r) /\ wrote[p]]
  /\ UNCHANGED kid

\* A call that leaves the address space alone still consumes the journal.
OtherCall(c) ==
  /\ "other" \in Calls
  /\ log # <<>>
  /\ vmctx_access_commit(c, <<>>, NoEff)
  /\ UNCHANGED <<src, kid, wrote>>

\* clone without CLONE_VM copies the source's mappings as they are now.
Fork(c) ==
  /\ "fork" \in Calls
  /\ kid.st = "none"
  /\ "birth" \in Races \/ \A d \in Ctx \ {c} : call[d].st = "run"
  /\ vmctx_access_commit(c, <<>>, [NoEff EXCEPT !.kind = "fork"])
  /\ kid' = [kid EXCEPT !.st = "forked", !.src = src]
  /\ UNCHANGED <<src, wrote>>

\* The call is complete and the reply is built.  A construction's own number
\* stamps an mmap's; an mremap's carries the counter as it is by then.
ctx_forward(c) ==
  /\ call[c].st = "drain"
  /\ call[c].eff.kind = "fork" => kid.st = "born"
  /\ call' = [call EXCEPT ![c].st = "reply", ![c].seq = ctr]
  /\ UNCHANGED <<src, ctr, log, ncalls, setting, cur, ex, kid, killed, gone, wrote>>

(***************************************************************************)
(* The executor's tables.                                                  *)
(***************************************************************************)

\* A construction row keeps, outside a set of pages, its tails and their
\* offsets into the object (only a SET row has one).
Tails(r, P) ==
  {[r EXCEPT !.s = i.s, !.e = i.e, !.off = IF r.op = "set" THEN @ + (i.s - r.s) ELSE @] :
     i \in Runs(Span(r) \ P)}

cons_kill(rows, P, upto) ==
  UNION {IF r.seq < upto THEN Tails(r, P) ELSE {r} : r \in rows}

\* A row replaces the row of its own range and class, unless that is newer.
cons_note_locked(x, row) ==
  LET same == {r \in x.cons : /\ r.s = row.s /\ r.e = row.e
                              /\ (r.op = "prot") = (row.op = "prot")}
  IN IF row.seq = 0 \/ \E r \in same : r.seq > row.seq THEN x
     ELSE [x EXCEPT !.cons = (@ \ same) \cup {[row EXCEPT !.ord = x.order + 1]},
                    !.order = @ + 1]

cons_newer(a, b) == a.seq > b.seq \/ (a.seq = b.seq /\ a.ord > b.ord)

\* The record in force at a page and the span over which it is in force.
\* An opaque newer construction masks an older one that could be replayed.
cons_covering(rows, p) ==
  LET at == {r \in rows : p \in Span(r)}
  IN IF at = {} THEN {} ELSE
     LET best == CHOOSE r \in at : \A q \in at \ {r} : cons_newer(r, q)
         newer == {r \in rows : cons_newer(r, best)}
         lo == Max({best.s} \cup {r.e : r \in {q \in newer : q.e <= p}})
         hi == Min({best.e} \cup {r.s : r \in {q \in newer : q.s > p}})
     IN IF best.op = "none" THEN {}
        ELSE {[best EXCEPT !.s = lo, !.e = hi,
                           !.off = IF best.op = "set" THEN @ + (lo - best.s) ELSE @]}


\* A newer published incarnation keeps an older event off the page.
access_construction_boundary(x, e, p, tie) ==
  \E r \in x.cons : /\ r.op # "prot" /\ p \in Span(r)
                    /\ r.seq > e.seq \/ (tie /\ r.seq = e.seq)

\* The three tables lose their rows of a range; what lies beside it stays,
\* at the object offsets it had.
region_forget_range(tab, P) == [p \in Pages |-> IF p \in P THEN -1 ELSE tab[p]]
shared_layout_forget(tab, P) == [p \in Pages |-> IF p \in P THEN NoShare ELSE tab[p]]
shared_layout_note(tab, eff) ==
  [p \in Pages |-> IF p \in Span(eff)
     THEN [obj |-> eff.obj, off |-> p - eff.s, prot |-> eff.prot] ELSE tab[p]]

\* The bytes of a range leave the executor's object.
obj_forget(held, P) == [p \in Pages |-> IF p \in P THEN -1 ELSE held[p]]

\* VMCTX_MAP_UNMAP on every member of the address space.
UnmapMembers(nat, P) ==
  [d \in Ctx |-> [p \in Pages |-> IF p \in P THEN NoNat ELSE nat[d][p]]]

\* range_vacated_1: the object and retained bytes go; a hard vacate also
\* retires the layout, the shared ranges and every member's native mapping.
range_vacated_1(x, P, soft) ==
  [x EXCEPT !.held = obj_forget(@, P),
            !.region = IF soft THEN @ ELSE region_forget_range(@, P),
            !.shared = IF soft THEN @ ELSE shared_layout_forget(@, P),
            !.nat = IF soft THEN @ ELSE UnmapMembers(@, P)]

\* range_vacated_seq: a tie counts as a newer construction.
range_vacated_seq(x, e, P) ==
  LET soft == e.kind = "discard"
      Q == {p \in P : ~access_construction_boundary(x, e, p, TRUE)}
  IN range_vacated_1([x EXCEPT !.cons = IF soft THEN @ ELSE cons_kill(@, Q, e.seq)], Q, soft)

\* The access interval an event leaves on a page: a change of protection
\* keeps a guard, an unmap denies everything.
access_note(old, e) ==
  [seq |-> e.seq,
   prot |-> IF e.kind = "unmap" THEN 0 ELSE e.prot,
   den |-> IF e.kind = "protect" THEN old.den ELSE e.kind \in {"deny", "unmap"}]

shared_layout_protect(row, prot) == IF row = NoShare THEN row ELSE [row EXCEPT !.prot = prot]

\* VMCTX_CTL_PROTECT_MM on every member; a hole is a lazy mapping and skipped.
as_apply_map_siblings(nat, P, prot) ==
  [d \in Ctx |-> [p \in Pages |->
     IF p \in P /\ nat[d][p] # NoNat THEN [nat[d][p] EXCEPT !.prot = prot[p]] ELSE nat[d][p]]]

\* A change of rights on pages whose access interval is not newer: native
\* mappings, shared ranges and a replayable PROT record for each old interval.
ChangeRights(x, e, P) ==
  LET y == [x EXCEPT !.access = [p \in Pages |-> IF p \in P THEN access_note(@[p], e) ELSE @[p]]]
      prot == [p \in Pages |-> IF y.access[p].den THEN 0 ELSE y.access[p].prot]
      z == [y EXCEPT !.nat = as_apply_map_siblings(@, P, prot),
                     !.shared = [p \in Pages |-> IF p \in P
                                   THEN shared_layout_protect(@[p], prot[p]) ELSE @[p]]]
      rows == {[s |-> i.s, e |-> i.e, seq |-> e.seq, op |-> "prot", prot |-> prot[i.s],
                off |-> 0, ord |-> 0] :
                 i \in UNION {Runs({p \in P : x.access[p] = a}) : a \in {x.access[p] : p \in P}}}
      noted == FoldSet(LAMBDA row, w : cons_note_locked(w, row), z, rows)
  IN IF e.kind = "deny" THEN range_vacated_1(noted, P, TRUE) ELSE noted

\* One event of a batch (access_apply_span over the spans between newer
\* constructions).
access_apply_span(x, e) ==
  LET P == {p \in Span(e) : ~access_construction_boundary(x, e, p, e.kind = "unmap")}
      due == {p \in P : x.access[p].seq <= e.seq}
      y == IF e.kind \in {"unmap", "discard"} THEN range_vacated_seq(x, e, P) ELSE x
  IN CASE e.kind = "discard" -> y
       [] e.kind \in {"unmap", "construct"} ->
            [y EXCEPT !.access = [p \in Pages |->
                                    IF p \in due THEN access_note(@[p], e) ELSE @[p]]]
       [] OTHER -> ChangeRights(y, e, due)

access_apply_batch(x, batch) ==
  FoldLeft(LAMBDA y, e : access_apply_span(y, e), x, batch)

(***************************************************************************)
(* The executor: the reply, the journal, the resume.                       *)
(***************************************************************************)

\* A SET publishes a new incarnation: every old byte, record and native
\* alias of the range goes, then the shared range and the ordering row.
NoteSet(x, eff, seq) ==
  LET y == range_vacated_1(x, Span(eff), FALSE)
      z == IF eff.obj = 0 THEN y ELSE [y EXCEPT !.shared = shared_layout_note(@, eff)]
  IN cons_note_locked(z, [s |-> eff.s, e |-> eff.e, seq |-> seq,
                          op |-> IF eff.obj = 0 THEN "set" ELSE "none",
                          prot |-> eff.prot, off |-> IF eff.obj = 0 THEN eff.s ELSE 0,
                          ord |-> 0])


\* A MOVE carries the bytes this side holds to the new address; a replaced
\* target loses its bytes and native mappings first.  An opaque row orders
\* later vacates.
NoteMove(x, eff, seq) ==
  LET P == Span(eff)
      old(p) == p - eff.s + eff.from
      y == IF eff.fixed
           THEN [x EXCEPT !.held = obj_forget(@, P), !.nat = UnmapMembers(@, P)]
           ELSE x
      z == [y EXCEPT !.held = [p \in Pages |-> IF p \in P /\ y.held[old(p)] >= 0
                                               THEN seq ELSE @[p]],
                     !.region = region_forget_range(@, P)]
  IN cons_note_locked(z, [s |-> eff.s, e |-> eff.e, seq |-> seq, op |-> "none",
                          prot |-> 0, off |-> 0, ord |-> 0])

\* The mapping effect of a reply, in one section of layout_order_lock.
reply_note_map(c) ==
  /\ call[c].st = "reply"
  /\ ex' = CASE call[c].eff.kind = "set" -> NoteSet(ex, call[c].eff, call[c].seq)
             [] call[c].eff.kind = "move" -> NoteMove(ex, call[c].eff, call[c].seq)
             [] OTHER -> ex
  /\ call' = [call EXCEPT ![c].st = "sync"]
  /\ UNCHANGED <<src, ctr, log, ncalls, setting, cur, kid, killed, gone, wrote>>

\* access_sync takes the cursor's mutex and READs a batch; an empty one
\* ends the synchronisation.
SyncRead(c) ==
  /\ \/ call[c].st = "sync" /\ cur.by = NoCtx
     \/ call[c].st = "read"
  /\ LET batch == SubSeq(log, 1, IF Len(log) < BatchMax THEN Len(log) ELSE BatchMax)
     IN /\ cur' = IF batch = <<>> THEN [by |-> NoCtx, batch |-> <<>>]
                  ELSE [by |-> c, batch |-> batch]
        /\ call' = [call EXCEPT ![c].st = IF batch = <<>> THEN "resume" ELSE "apply"]
  /\ UNCHANGED <<src, ctr, log, ncalls, setting, ex, kid, killed, gone, wrote>>

SyncApply(c) ==
  /\ call[c].st = "apply"
  /\ ex' = access_apply_batch(ex, cur.batch)
  /\ call' = [call EXCEPT ![c].st = "ack"]
  /\ UNCHANGED <<src, ctr, log, ncalls, setting, cur, kid, killed, gone, wrote>>

\* Mutant: a short batch ends the loop without unlocking the mutex.
AckKeepsMutex(c) ==
  /\ call[c].st = "ack"
  /\ log' = SubSeq(log, Len(cur.batch) + 1, Len(log))
  /\ call' = [call EXCEPT ![c].st = "resume"]
  /\ cur' = [by |-> c, batch |-> <<>>]
  /\ UNCHANGED <<src, ctr, ncalls, setting, ex, kid, killed, gone, wrote>>

\* ACK: the source (vmctx_ctl_access) drops the acknowledged prefix.  A full
\* batch is followed by another READ, a short one ends the loop.
SyncAck(c) ==
  LET n == Len(cur.batch)
      last(kinds, p) == Max({0} \cup {e.seq : e \in {f \in Range(cur.batch) :
                                         f.kind \in kinds /\ p \in Span(f)}})
      more == n = BatchMax
  IN
  /\ call[c].st = "ack"
  /\ log' = SubSeq(log, n + 1, Len(log))
  /\ killed' = [p \in Pages |-> Max({killed[p], last({"unmap", "discard", "deny"}, p)})]
  /\ gone' = [p \in Pages |-> Max({gone[p], last({"unmap"}, p)})]
  /\ call' = [call EXCEPT ![c].st = IF more THEN "read" ELSE "resume"]
  /\ cur' = [by |-> IF more THEN c ELSE NoCtx, batch |-> <<>>]
  /\ UNCHANGED <<src, ctr, ncalls, setting, ex, kid, wrote>>

\* RESUME: the context maps what its own private mmap constructed.
Resume(c) ==
  /\ call[c].st = "resume"
  /\ ex' = IF call[c].eff.kind = "set" /\ call[c].eff.obj = 0
           THEN [ex EXCEPT !.nat[c] = [p \in Pages |-> IF p \in Span(call[c].eff)
                   THEN [prot |-> call[c].eff.prot, seq |-> call[c].seq] ELSE @[p]]]
           ELSE ex
  /\ call' = [call EXCEPT ![c] = Idle]
  /\ UNCHANGED <<src, ctr, log, ncalls, setting, cur, kid, killed, gone, wrote>>

\* The child's intervals are the parent's, older than its own journal.
access_inherit(tab) ==
  [p \in Pages |-> [tab[p] EXCEPT !.seq = IF @ < 0 THEN @ ELSE 0]]

\* The child's executor tables are copied from the parent's when its birth
\* is published, under the lease and before the parent's reply.
shared_range_inherit(c) ==
  /\ call[c].st = "drain" /\ call[c].eff.kind = "fork"
  /\ kid.st = "forked"
  /\ kid' = [kid EXCEPT !.st = "born", !.shared = ex.shared, !.region = ex.region,
                        !.access = access_inherit(ex.access)]
  /\ UNCHANGED <<src, ctr, log, call, ncalls, setting, cur, ex, killed, gone, wrote>>

(***************************************************************************)
(* The guest runs.                                                         *)
(***************************************************************************)

\* The rights a first touch leaves on the native page: the module maps it
\* writable, a loaded range's protection is stamped on it, a shared page
\* carries its range's.
TouchRights(c, p) ==
  IF ex.shared[p] # NoShare THEN {ex.shared[p].prot}
  ELSE IF ex.region[p] >= 0 THEN {ex.region[p]}
  ELSE {IF ex.nat[c][p] = NoNat THEN 2 ELSE ex.nat[c][p].prot}

\* A fault the source allows is served, from here or by a pull.
fault_from_home(c, p) ==
  /\ call[c].st = "run" /\ p \in Touched
  /\ Mapped(p) /\ Rights(src[p]) >= 1
  /\ ex.held[p] = -1 \/ ex.nat[c][p] = NoNat
  /\ \E v \in TouchRights(c, p) :
       /\ \/ v <= src[p].prot
          \/ ex.region[p] >= 0 /\ "stamp" \in Races
          \/ ex.region[p] < 0 /\ "sibling" \in Races
       /\ ex' = [ex EXCEPT
            !.held[p] = IF ex.shared[p] = NoShare /\ @ = -1 THEN ctr ELSE @,
            !.nat[c][p] = [prot |-> v, seq |-> IF @ = NoNat THEN ctr ELSE @.seq]]
  /\ UNCHANGED <<src, ctr, log, call, ncalls, setting, cur, kid, killed, gone, wrote>>

\* A declined fault with a record at the page replays the record over the
\* span on which it is in force, in the faulting context.
declined_at(c, p) ==
  /\ call[c].st = "run" /\ p \in Touched
  /\ Mapped(p) /\ Rights(src[p]) >= 1
  /\ ex.shared[p] = NoShare
  /\ ex.nat[c][p].prot < Rights(src[p])         \* TRYFAULT: EFAULT or EACCES
  /\ \E row \in cons_covering(ex.cons, p) :
       ex' = [ex EXCEPT !.nat[c] = [q \in Pages |->
                CASE q \notin Span(row) -> @[q]
                  [] row.op = "set" -> [prot |-> row.prot, seq |-> row.seq]
                  [] @[q] = NoNat -> NoNat
                  [] OTHER -> [@[q] EXCEPT !.prot = row.prot]]]
  /\ ex' # ex
  /\ UNCHANGED <<src, ctr, log, call, ncalls, setting, cur, kid, killed, gone, wrote>>

\* An event of the present mapping, or a reply not applied yet, is about to
\* end the page's contents.
Pending(p) ==
  \/ \E e \in Range(log) : /\ e.kind \in {"unmap", "discard", "deny"} /\ p \in Span(e)
                            /\ e.seq > src[p].inc
  \/ \E d \in Ctx : /\ call[d].st \in {"drain", "reply"}
                    /\ call[d].eff.kind \in {"set", "move"} /\ p \in Span(call[d].eff)

Store(c, p) ==
  /\ call[c].st = "run" /\ p \in Touched
  /\ ex.held[p] >= 0 /\ ex.nat[c][p].prot = 2 /\ ex.shared[p] = NoShare
  /\ ~wrote[p] /\ ~Pending(p)
  /\ wrote' = [wrote EXCEPT ![p] = TRUE]
  /\ UNCHANGED <<src, ctr, log, call, ncalls, setting, cur, ex, kid, killed, gone>>

-----------------------------------------------------------------------------
Init ==
  /\ setting \in Settings
  /\ src = [p \in Pages |-> IF p \in InitMapped
               THEN [inc |-> 0, by |-> "layout", obj |-> 0, off |-> 0, prot |-> 2, guard |-> FALSE]
               ELSE NoMap]
  /\ ctr = 0 /\ log = <<>> /\ ncalls = 0
  /\ call = [c \in Ctx |-> Idle]
  /\ cur = [by |-> NoCtx, batch |-> <<>>]
  /\ ex = [cons |-> {}, order |-> 0,
           access |-> [p \in Pages |-> NoRow],
           shared |-> [p \in Pages |-> NoShare],
           region |-> [p \in Pages |-> IF p \in InitMapped THEN 2 ELSE -1],
           held |-> [p \in Pages |-> -1],
           nat |-> [c \in Ctx |-> [p \in Pages |-> NoNat]]]
  /\ kid = [st |-> "none", src |-> [p \in Pages |-> NoMap],
            shared |-> [p \in Pages |-> NoShare], region |-> [p \in Pages |-> -1],
            access |-> [p \in Pages |-> NoRow]]
  /\ killed = [p \in Pages |-> 0] /\ gone = [p \in Pages |-> 0]
  /\ wrote = [p \in Pages |-> FALSE]

SourceCall(c) ==
  \/ \E r \in Ranges, prot \in 1..2, obj \in {0, 1} : Mmap(c, r, prot, obj)
  \/ \E r \in Ranges, prot \in 1..2 : Mprotect(c, r, prot)
  \/ \E r \in Ranges, t \in Pages, fixed \in BOOLEAN : Mremap(c, r, t, fixed)
  \/ \E r \in Ranges : Munmap(c, r) \/ Discard(c, r)
  \/ \E p \in Pages : Guard(c, p)
  \/ OtherCall(c)
  \/ Fork(c)

Reply(c) ==
  \/ ctx_forward(c) \/ shared_range_inherit(c) \/ reply_note_map(c)
  \/ SyncRead(c) \/ SyncApply(c) \/ SyncAck(c) \/ Resume(c)

Guest(c) == \E p \in Pages : fault_from_home(c, p) \/ declined_at(c, p) \/ Store(c, p)

Next == \E c \in Ctx : SourceCall(c) \/ Reply(c) \/ Guest(c)

Spec == Init /\ [][Next]_vars

\* A context's service thread keeps running while its call is being served.
FairSpec == Spec /\ \A c \in Ctx : WF_vars(Reply(c))
-----------------------------------------------------------------------------
\* Every table holds what its declaration allows; the mutex of the cursor
\* is held exactly by the context between a READ and the end of its loop.
TypeOK ==
  /\ src \in [Pages -> [inc : Int, by : {"none", "layout", "map", "move"}, obj : 0..1,
                        off : Nat, prot : 0..2, guard : BOOLEAN]]
  /\ ctr \in Nat /\ ncalls \in 0..MaxCalls
  /\ \A c \in Ctx : (cur.by = c) <=> call[c].st \in {"apply", "ack", "read"}
  /\ \A r \in ex.cons : r.s < r.e /\ r.seq \in 1..ctr /\ r.op \in {"set", "prot", "none"}
  /\ \A p \in Pages : /\ ex.held[p] \in -1..ctr /\ ex.region[p] \in -1..2
                       /\ ex.shared[p].obj \in 0..1 /\ ex.access[p].seq \in -1..ctr

\* Nothing is under way between the two machines.
Settled == log = <<>> /\ \A c \in Ctx : call[c].st = "run"

SharedAs(m) == IF m.obj = 0 THEN NoShare
               ELSE [obj |-> m.obj, off |-> m.off, prot |-> Rights(m)]

\* Once every reply and event is applied, an address is a shared object's
\* page here exactly when it is one at the source, at the same offset and
\* with the same rights (shared_range_note, shared_layout_forget): a late
\* unmap of the old mapping never erases the new one's record.
SharedAgrees == Settled => \A p \in Pages : ex.shared[p] = SharedAs(src[p])

\* An access interval never grants what the source would refuse, and refuses
\* only what it refuses (a page mremap brought is asked for): a guard
\* survives mprotect, a late event never touches a newer mapping's rights.
AccessAgrees ==
  Settled => \A p \in Pages :
    LET a == ex.access[p] IN
    /\ a.seq >= 0 /\ ~a.den => Mapped(p) /\ ~src[p].guard /\ a.prot = src[p].prot
    /\ a.den => ~Mapped(p) \/ src[p].guard \/ src[p].by = "move"
    /\ ex.region[p] >= 0 => src[p].by = "layout"

\* The record cons_covering would replay describes the mapping in force, over
\* a span that lies within it, from the object offset the address has: no
\* newer submapping is overwritten and no unmapped range comes back.
ReplayExact ==
  Settled => \A p \in Pages : \A row \in cons_covering(ex.cons, p) :
    /\ p \in Span(row)
    /\ \A q \in Span(row) :
         /\ Mapped(q) /\ row.prot = Rights(src[q])
         /\ row.op = "set" => src[q].by = "map" /\ src[q].inc = row.seq /\ row.off = row.s

\* An acknowledged unmap, discard or guard left no older bytes in the
\* executor's object, whichever context consumed the event, and none stay
\* behind an address that is unmapped.
HeldFresh ==
  \A p \in Pages : ex.held[p] >= 0 => /\ ex.held[p] >= killed[p]
                                     /\ (Settled => Mapped(p))

\* An acknowledged unmap left no native mapping of the old incarnation in
\* any member ("ACK follows successful application on every member").
NativeRetired == \A c \in Ctx, p \in Pages : ex.nat[c][p] # NoNat => ex.nat[c][p].seq >= gone[p]

\* No member's native mapping lets the program do what the source's mapping
\* forbids, once every change is applied.
RightsAgree ==
  Settled => \A c \in Ctx, p \in Pages :
    ex.nat[c][p] # NoNat => Mapped(p) /\ ex.nat[c][p].prot <= Rights(src[p])

\* A store made outside any unmap, discard or replacement under way is still
\* held here: an event that is older than the mapping never punches it, and
\* mremap carries it to the new address.
StoresSurvive == \A p \in Pages : wrote[p] /\ ~Pending(p) => ex.held[p] >= 0

\* A forked child starts with the layout its mappings had at the fork.
KidAgrees ==
  kid.st = "born" => \A p \in Pages :
    /\ kid.shared[p] = SharedAs(kid.src[p])
    /\ kid.region[p] >= 0 => kid.src[p].by = "layout"
    /\ kid.access[p].seq >= 0 /\ ~kid.access[p].den => Rights(kid.src[p]) = kid.access[p].prot



\* Every forwarded call gets through the journal and returns to the guest.
CallReturns == \A c \in Ctx : call[c].st # "run" ~> call[c].st = "run"
=============================================================================
