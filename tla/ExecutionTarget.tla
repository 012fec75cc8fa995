--------------------------- MODULE ExecutionTarget ---------------------------
(***************************************************************************)
(* The executor's memory lifetimes and the targets of its operations.      *)
(* Every address space the source names has one record with one object, to *)
(* the end of the session.  A context executes one of them at a time; an   *)
(* operation captures a target (context, address space, native epoch) and  *)
(* keeps it across callbacks, while an exec of the program rebinds the     *)
(* context.  Native controls run under a read guard of the binding and are *)
(* refused when the binding is no longer the target's.                     *)
(*                                                                         *)
(* A record is represented by the object it owns.                          *)
(***************************************************************************)
EXTENDS Integers, FiniteSets

CONSTANTS
  Ctx,       \* the program's contexts; each has a service thread of its name
  Root,      \* the context the program starts with
  Servers,   \* the threads that serve the source's callbacks
  MM,        \* identities of address spaces the source may issue
  NoMM,      \* "no address space": the parent of a root
  Parent,    \* the ancestry the source declares for each address space
  RootMM,    \* the address space the program starts with
  NoThread,  \* nobody holds the lock
  MaxCtx,    \* MAX_CTX: rows of the context table
  MaxTries,  \* attempts of one native replacement (64)
  MaxAsks,   \* bound: operations started in one behaviour
  Faults     \* native answers this instance allows: "copyout", "busy", "dies"

ASSUME ExecutionTargetAssumption ==
  /\ Root \in Ctx /\ RootMM \in MM /\ NoMM \notin MM
  /\ Parent \in [MM -> MM \cup {NoMM}] /\ Parent[RootMM] = NoMM
  /\ Ctx \cap Servers = {} /\ NoThread \notin Ctx \cup Servers
  /\ MaxCtx \in Nat \ {0} /\ MaxTries \in Nat \ {0} /\ MaxAsks \in Nat
  /\ Faults \subseteq {"copyout", "busy", "dies"}

VARIABLES
  src,     \* the source's binding of each context, epoch zero before its birth
  said,    \* every binding the source has published
  reg,     \* executor_mms: the records
  nobj,    \* objects made so far
  closed,  \* objects closed by a publication that lost its race
  nat,     \* the native context: its object, its epoch, whether it has ended
  bind,    \* execution_binding: the object and epoch the monitor believes
  cur,     \* the context's current target
  hist,    \* its targets, observations included
  pub,     \* who holds the context's publication_lock
  wr,      \* who holds the binding's guard exclusively
  rd,      \* who holds it for reading
  th,      \* the threads
  asks,    \* operations started (bounded by MaxAsks)
  over     \* "no", "broken" or "refused" (the program is stopped; the latter
           \* because the native image was not replaced) or "aborted"

vars == <<src, said, reg, nobj, closed, nat, bind, cur, hist, pub, wr, rd, th, asks, over>>

Thread == Ctx \cup Servers
Binding == [ctx : Ctx, mm : MM, epoch : Nat]
Target == [ctx : Ctx, mm : MM, se : Nat, obj : Nat, ne : Nat]

NoTarget == [ctx |-> Root, mm |-> RootMM, se |-> 0, obj |-> 0, ne |-> 0]
Idle == [st |-> "idle", op |-> "observe", b |-> [ctx |-> Root, mm |-> RootMM, epoch |-> 0],
         obj |-> 0, tgt |-> NoTarget, tries |-> 0, unsure |-> FALSE]

Live == {c \in Ctx : bind[c].epoch > 0}      \* rows of the context table
TargetOf(b, obj, ne) == [ctx |-> b.ctx, mm |-> b.mm, se |-> b.epoch, obj |-> obj, ne |-> ne]

Fresh(m) == \A b \in said : b.mm # m

\* The records of an identity; execution_mm_find_locked returns the newest.
Records(m) == {r \in reg : r.id = m}

(***************************************************************************)
(* The source and the start of operations.                                 *)
(***************************************************************************)
\* The program stands and the thread is at that point.
At(t, s) == over = "no" /\ th[t].st = s

Start(t, rec) ==
  /\ At(t, "idle") /\ asks < MaxAsks
  /\ th' = [th EXCEPT ![t] = rec]
  /\ asks' = asks + 1

\* The context's forwarded call is an exec: the source binds it to a new
\* address space before the reply arrives.
SourceExec(c, m) ==
  /\ c \in Live /\ Fresh(m) /\ Parent[m] = NoMM
  /\ LET b == [ctx |-> c, mm |-> m, epoch |-> src[c].epoch + 1]
     IN /\ src' = [src EXCEPT ![b.ctx] = b]
        /\ said' = said \cup {b}
        /\ Start(c, [Idle EXCEPT !.st = "resolve", !.op = "image", !.b = b])
  /\ UNCHANGED <<reg, nobj, closed, nat, bind, cur, hist, pub, wr, rd, over>>

\* The context's forwarded call is a clone: a child in a copy of its memory
\* or a thread in the same.
SourceClone(c, d, m) ==
  /\ c \in Live /\ src[d].epoch = 0
  /\ \/ Fresh(m) /\ Parent[m] = src[c].mm
     \/ m = src[c].mm
  /\ LET b == [ctx |-> d, mm |-> m, epoch |-> 1]
     IN /\ src' = [src EXCEPT ![b.ctx] = b]
        /\ said' = said \cup {b}
        /\ Start(c, [Idle EXCEPT !.st = "resolve", !.op = "birth", !.b = b])
  /\ UNCHANGED <<reg, nobj, closed, nat, bind, cur, hist, pub, wr, rd, over>>

\* ctx_observe_source: a callback of the source names a binding, perhaps one
\* that is not installed here yet, perhaps one that was replaced long ago.
ctx_observe_source(t, b) ==
  /\ t \in Servers /\ b.ctx \in Live
  /\ Start(t, [Idle EXCEPT !.st = "resolve", !.op = "observe", !.b = b])
  /\ UNCHANGED <<src, said, reg, nobj, closed, nat, bind, cur, hist, pub, wr, rd, over>>

\* execution_target_capture: an operation retains the current target.
execution_target_capture(t, c) ==
  /\ c \in Live /\ pub[c] = NoThread
  /\ t \in Ctx => t = c
  /\ Start(t, [Idle EXCEPT !.st = "have", !.tgt = cur[c]])
  /\ UNCHANGED <<src, said, reg, nobj, closed, nat, bind, cur, hist, pub, wr, rd, over>>

(***************************************************************************)
(* execution_mm_resolve                                                    *)
(***************************************************************************)
Resolved(t, obj) == [th EXCEPT ![t].obj = obj, ![t].st = th[t].op]

\* First section: the parent must be known and an existing record agree.
ResolveFind(t) ==
  LET m == th[t].b.mm
  IN
  /\ At(t, "resolve")
  /\ \/ /\ Parent[m] # NoMM /\ Records(Parent[m]) = {}          \* ENOENT
        /\ over' = IF t \in Ctx THEN "broken" ELSE over
        /\ th' = [th EXCEPT ![t] = Idle]
     \/ /\ Parent[m] = NoMM \/ Records(Parent[m]) # {}
        /\ th' = IF Records(m) = {} THEN [th EXCEPT ![t].st = "make"]
                 ELSE Resolved(t, (CHOOSE r \in Records(m) : TRUE).obj)
        /\ UNCHANGED over
  /\ UNCHANGED <<src, said, reg, nobj, closed, nat, bind, cur, hist, pub, wr, rd, asks>>

\* The factory runs outside the lock.
ResolveMake(t) ==
  /\ At(t, "make")
  /\ nobj' = nobj + 1
  /\ th' = [th EXCEPT ![t].st = "publish", ![t].obj = nobj + 1]
  /\ UNCHANGED <<src, said, reg, closed, nat, bind, cur, hist, pub, wr, rd, asks, over>>

\* Second section: the loser of a race closes its own object and uses the
\* winner's record.
ResolvePublish(t) ==
  LET m == th[t].b.mm
  IN
  /\ At(t, "publish")
  /\ \/ /\ Records(m) = {}
        /\ reg' = reg \cup {[id |-> m, parent |-> Parent[m], obj |-> th[t].obj]}
        /\ th' = Resolved(t, th[t].obj)
        /\ UNCHANGED closed
     \/ /\ Records(m) # {}
        /\ closed' = closed \cup {th[t].obj}
        /\ th' = Resolved(t, (CHOOSE r \in Records(m) : TRUE).obj)
        /\ UNCHANGED reg
  /\ UNCHANGED <<src, said, nobj, nat, bind, cur, hist, pub, wr, rd, asks, over>>

(***************************************************************************)
(* Registration, observation, publication.                                 *)
(***************************************************************************)

\* linux_execution_object_verify: the native child is backed by that object.
linux_execution_object_verify(obj) == [obj |-> obj, epoch |-> 1, dead |-> FALSE]

\* execution_context_binding_init: the first target is the current one.
execution_context_binding_init(b, obj) == TargetOf(b, obj, 1)

\* ctx_register: the native child was created over the record's object and
\* verified; a full table refuses it and the clone cannot be completed.
ctx_register(t) ==
  LET b == th[t].b
      first == execution_context_binding_init(b, th[t].obj)
  IN
  /\ At(t, "birth")
  /\ th' = [th EXCEPT ![t] = Idle]
  /\ \/ /\ Cardinality(Live) < MaxCtx /\ b.ctx \notin Live
        /\ nat' = [nat EXCEPT ![b.ctx] = linux_execution_object_verify(th[t].obj)]
        /\ bind' = [bind EXCEPT ![b.ctx] = [obj |-> th[t].obj, epoch |-> 1]]
        /\ cur' = [cur EXCEPT ![b.ctx] = first]
        /\ hist' = [hist EXCEPT ![b.ctx] = {first}]
        /\ UNCHANGED over
     \/ /\ Cardinality(Live) >= MaxCtx
        /\ over' = "broken"
        /\ UNCHANGED <<nat, bind, cur, hist>>
  /\ UNCHANGED <<src, said, reg, nobj, closed, pub, wr, rd, asks>>

\* execution_target_find_locked: the newest entry of a source epoch, which is
\* the installed one when there is one.
Entries(b) == {x \in hist[b.ctx] : x.se = b.epoch}
execution_target_find_locked(b) ==
  IF \E x \in Entries(b) : x.ne > 0 THEN CHOOSE x \in Entries(b) : x.ne > 0
  ELSE CHOOSE x \in Entries(b) : TRUE

\* The history gains an observation (native epoch zero) unless it has one;
\* an entry of that epoch with another memory is a protocol error.
Observed(b, obj) ==
  IF Entries(b) = {} THEN TargetOf(b, obj, 0) ELSE execution_target_find_locked(b)
Agrees(b, obj) ==
  Entries(b) # {} => /\ execution_target_find_locked(b).mm = b.mm
                     /\ execution_target_find_locked(b).obj = obj

\* Mutant: the observation takes the place of the entry it found.
ObserveOverwrites(t) ==
  LET b == th[t].b IN
  /\ At(t, "observe") /\ pub[b.ctx] = NoThread
  /\ hist' = [hist EXCEPT ![b.ctx] = (@ \ Entries(b)) \cup {TargetOf(b, th[t].obj, 0)}]
  /\ th' = [th EXCEPT ![t].st = "have", ![t].tgt = TargetOf(b, th[t].obj, 0)]
  /\ UNCHANGED <<src, said, reg, nobj, closed, nat, bind, cur, pub, wr, rd, asks, over>>

execution_target_observe(t) ==
  LET b == th[t].b
  IN
  /\ At(t, "observe") /\ pub[b.ctx] = NoThread
  /\ \/ /\ Agrees(b, th[t].obj)
        /\ hist' = [hist EXCEPT ![b.ctx] = @ \cup {Observed(b, th[t].obj)}]
        /\ th' = [th EXCEPT ![t].st = "have", ![t].tgt = Observed(b, th[t].obj)]
     \/ /\ ~Agrees(b, th[t].obj)
        /\ th' = [th EXCEPT ![t] = Idle]
        /\ UNCHANGED hist
  /\ UNCHANGED <<src, said, reg, nobj, closed, nat, bind, cur, pub, wr, rd, asks, over>>

\* The service thread's check of what publication returned.
Installed(t, tgt) ==
  /\ th' = [th EXCEPT ![t] = Idle]
  /\ over' = IF tgt.ne = 0 \/ tgt # cur'[th[t].b.ctx] THEN "broken" ELSE over

\* Mutant: an entry the history already has is returned as it is.
PublishFound(t) ==
  LET b == th[t].b IN
  /\ At(t, "image") /\ pub[b.ctx] = NoThread
  /\ IF Entries(b) # {} THEN Installed(t, Observed(b, th[t].obj)) /\ UNCHANGED pub
     ELSE /\ pub' = [pub EXCEPT ![b.ctx] = t]
          /\ th' = [th EXCEPT ![t].st = "drain"]
          /\ UNCHANGED over
  /\ UNCHANGED <<src, said, reg, nobj, closed, nat, bind, cur, hist, wr, rd, asks>>

\* execution_target_publish up to the binding's guard.  A binding that is not
\* newer than the current one only resolves to its entry; the same memory
\* under a newer epoch, or an entry that disagrees, is a protocol error.
PublishRefused(b, obj) ==
  ~Agrees(b, obj) \/ (b.epoch > cur[b.ctx].se /\ b.mm = cur[b.ctx].mm)

execution_target_publish(t) ==
  LET b == th[t].b
      obj == th[t].obj
  IN
  /\ At(t, "image") /\ pub[b.ctx] = NoThread
  /\ \/ /\ PublishRefused(b, obj)
        /\ over' = "broken" /\ th' = [th EXCEPT ![t] = Idle]
        /\ UNCHANGED <<pub, cur, hist>>
     \/ /\ ~PublishRefused(b, obj) /\ b.epoch <= cur[b.ctx].se
        /\ hist' = [hist EXCEPT ![b.ctx] = @ \cup {Observed(b, obj)}]
        /\ UNCHANGED cur
        /\ Installed(t, Observed(b, obj))
        /\ UNCHANGED pub
     \/ /\ ~PublishRefused(b, obj) /\ b.epoch > cur[b.ctx].se
        /\ pub' = [pub EXCEPT ![b.ctx] = t]
        /\ th' = [th EXCEPT ![t].st = "drain"]
        /\ UNCHANGED <<cur, hist, over>>
  /\ UNCHANGED <<src, said, reg, nobj, closed, nat, bind, wr, rd, asks>>

\* execution_binding_replace: the exclusive guard waits for every control.
BindingLocked(t) ==
  LET c == th[t].b.ctx
  IN
  /\ At(t, "drain") /\ wr[c] = NoThread /\ rd[c] = {}
  /\ wr' = [wr EXCEPT ![c] = t]
  /\ th' = [th EXCEPT ![t].st = "replace"]
  /\ UNCHANGED <<src, said, reg, nobj, closed, nat, bind, cur, hist, pub, rd, asks, over>>

\* Mutants: the publication lock is kept; a refusal goes unnoticed; a lost
\* result is taken for a refusal.
UnlockGuard(t) ==
  /\ wr' = [wr EXCEPT ![th[t].b.ctx] = NoThread]
  /\ UNCHANGED pub

Unlock(t) ==
  /\ wr' = [wr EXCEPT ![th[t].b.ctx] = NoThread]
  /\ pub' = [pub EXCEPT ![th[t].b.ctx] = NoThread]

\* linux_execution_object_replace lets an ordinary refusal be seen; once a
\* result was lost it must learn the outcome, and gives up after MaxTries by
\* ending the monitor.
Refuse(t) ==
  /\ Unlock(t)
  /\ th' = [th EXCEPT ![t] = Idle]
  /\ over' = "refused"

Retry(t) ==
  /\ th' = [th EXCEPT ![t].unsure = TRUE, ![t].tries = @ + 1]
  /\ over' = IF th[t].tries + 1 >= MaxTries THEN "aborted" ELSE over
  /\ UNCHANGED <<wr, pub>>

LostIsRefusal(t) == Refuse(t)

\* EFAULT: the control's result, or its argument, could not be copied.
ResultLost(t) == Retry(t)

\* vmctx_ctl_object: a first request commits, a repeated one is recognised by
\* epoch and object; either way the result may be lost on its way out.
ObjectReplaced(t) ==
  LET b == th[t].b
      c == b.ctx
      ne == bind[c].epoch + 1
      next == TargetOf(b, th[t].obj, ne)
  IN
  /\ At(t, "replace") /\ ~nat[c].dead
  /\ nat' = [nat EXCEPT ![c] = [obj |-> th[t].obj, epoch |-> ne, dead |-> FALSE]]
  /\ \/ /\ bind' = [bind EXCEPT ![c] = [obj |-> th[t].obj, epoch |-> ne]]
        /\ cur' = [cur EXCEPT ![c] = next]
        /\ hist' = [hist EXCEPT ![c] = @ \cup {next}]
        /\ Unlock(t)
        /\ Installed(t, next)
     \/ /\ "copyout" \in Faults
        /\ ResultLost(t)
        /\ UNCHANGED <<bind, cur, hist>>
  /\ UNCHANGED <<src, said, reg, nobj, closed, rd, asks>>

\* The request's argument could not be copied: nothing was changed.
ObjectUnread(t) ==
  /\ At(t, "replace") /\ "copyout" \in Faults
  /\ ResultLost(t)
  /\ UNCHANGED <<src, said, reg, nobj, closed, nat, bind, cur, hist, rd, asks>>

\* EBUSY or EAGAIN: a transient reference to the memory, a task not yet asleep.
ObjectBusy(t) ==
  /\ At(t, "replace") /\ "busy" \in Faults /\ ~nat[th[t].b.ctx].dead
  /\ IF th[t].unsure THEN Retry(t) ELSE Refuse(t)
  /\ UNCHANGED <<src, said, reg, nobj, closed, nat, bind, cur, hist, rd, asks>>

\* ESRCH: the context has ended; what its binding says no longer matters.
ObjectEnded(t) ==
  /\ At(t, "replace") /\ nat[th[t].b.ctx].dead
  /\ Refuse(t)
  /\ UNCHANGED <<src, said, reg, nobj, closed, nat, bind, cur, hist, rd, asks>>

(***************************************************************************)
(* Native controls.                                                        *)
(***************************************************************************)

\* execution_binding_control: the binding is still the target's.
execution_binding_control(g) == bind[g.ctx] = [obj |-> g.obj, epoch |-> g.ne]

\* Mutant: a target that was installed once is good for ever.
ControlInstalled(g) == g.ne # 0

\* execution_target_control: refused before the native adapter sees it when
\* the target is an observation or the binding has moved on.
execution_target_control(g) == g.ne # 0 /\ execution_binding_control(g)

\* execution_context_ctl: a control enters under the read guard or fails with
\* ESTALE; there is no second try against the context's new binding.
execution_context_ctl(t) ==
  LET g == th[t].tgt
      same == execution_target_control(g)
  IN
  /\ At(t, "have") /\ (g.ne # 0 => wr[g.ctx] = NoThread)
  /\ rd' = IF same THEN [rd EXCEPT ![g.ctx] = @ \cup {t}] ELSE rd
  /\ th' = [th EXCEPT ![t] = IF same THEN [@ EXCEPT !.st = "control"] ELSE Idle]
  /\ UNCHANGED <<src, said, reg, nobj, closed, nat, bind, cur, hist, pub, wr, asks, over>>

\* The control returns; the operation keeps its target for another one.
ControlDone(t, again) ==
  /\ At(t, "control")
  /\ rd' = [rd EXCEPT ![th[t].tgt.ctx] = @ \ {t}]
  /\ asks' = IF again THEN asks + 1 ELSE asks
  /\ again => asks < MaxAsks
  /\ th' = [th EXCEPT ![t] = IF again THEN [@ EXCEPT !.st = "have"] ELSE Idle]
  /\ UNCHANGED <<src, said, reg, nobj, closed, nat, bind, cur, hist, pub, wr, over>>

\* The native context ends on its own.
NativeEnds(c) ==
  /\ over = "no" /\ "dies" \in Faults /\ c \in Live /\ ~nat[c].dead
  /\ nat' = [nat EXCEPT ![c].dead = TRUE]
  /\ UNCHANGED <<src, said, reg, nobj, closed, bind, cur, hist, pub, wr, rd, th, asks, over>>

(***************************************************************************)
(* The specification.                                                      *)
(***************************************************************************)
First == [ctx |-> Root, mm |-> RootMM, epoch |-> 1]

Init ==
  /\ src = [c \in Ctx |-> IF c = Root THEN First ELSE [First EXCEPT !.ctx = c, !.epoch = 0]]
  /\ said = {First}
  /\ reg = {[id |-> RootMM, parent |-> NoMM, obj |-> 1]}
  /\ nobj = 1 /\ closed = {}
  /\ nat = [c \in Ctx |-> [obj |-> IF c = Root THEN 1 ELSE 0,
                           epoch |-> IF c = Root THEN 1 ELSE 0, dead |-> FALSE]]
  /\ bind = [c \in Ctx |-> [obj |-> IF c = Root THEN 1 ELSE 0,
                            epoch |-> IF c = Root THEN 1 ELSE 0]]
  /\ cur = [c \in Ctx |-> IF c = Root THEN TargetOf(First, 1, 1) ELSE NoTarget]
  /\ hist = [c \in Ctx |-> IF c = Root THEN {TargetOf(First, 1, 1)} ELSE {}]
  /\ pub = [c \in Ctx |-> NoThread] /\ wr = [c \in Ctx |-> NoThread]
  /\ rd = [c \in Ctx |-> {}]
  /\ th = [t \in Thread |-> Idle]
  /\ asks = 0 /\ over = "no"

Step(t) ==
  \/ ResolveFind(t) \/ ResolveMake(t) \/ ResolvePublish(t)
  \/ ctx_register(t) \/ execution_target_observe(t) \/ execution_target_publish(t)
  \/ BindingLocked(t) \/ ObjectReplaced(t) \/ ObjectUnread(t) \/ ObjectBusy(t) \/ ObjectEnded(t)
  \/ execution_context_ctl(t) \/ ControlDone(t, FALSE)

Next ==
  \/ \E t \in Thread : Step(t) \/ ControlDone(t, TRUE)
  \/ \E c \in Ctx, m \in MM : SourceExec(c, m)
  \/ \E c, d \in Ctx, m \in MM : SourceClone(c, d, m)
  \/ \E t \in Thread, b \in said : ctx_observe_source(t, b)
  \/ \E t \in Thread, c \in Ctx : execution_target_capture(t, c)
  \/ \E c \in Ctx : NativeEnds(c)

Spec == Init /\ [][Next]_vars

\* Every thread the monitor starts keeps running; a control returns because
\* the adapter may perform bounded local work only.
FairSpec == Spec /\ \A t \in Thread : WF_vars(Step(t))

(***************************************************************************)
(* Properties.                                                             *)
(***************************************************************************)
TypeOK ==
  /\ src \in [Ctx -> Binding] /\ said \subseteq Binding
  /\ reg \subseteq [id : MM, parent : MM \cup {NoMM}, obj : Nat]
  /\ nobj \in Nat /\ closed \subseteq Nat
  /\ nat \in [Ctx -> [obj : Nat, epoch : Nat, dead : BOOLEAN]]
  /\ bind \in [Ctx -> [obj : Nat, epoch : Nat]]
  /\ cur \in [Ctx -> Target] /\ hist \in [Ctx -> SUBSET Target]
  /\ pub \in [Ctx -> Thread \cup {NoThread}] /\ wr \in [Ctx -> Thread \cup {NoThread}]
  /\ rd \in [Ctx -> SUBSET Thread]
  /\ th \in [Thread ->
       [st : {"idle", "resolve", "make", "publish", "birth", "observe", "image",
              "drain", "replace", "have", "control"},
        op : {"image", "birth", "observe"}, b : Binding,
        obj : Nat, tgt : Target, tries : Nat, unsure : BOOLEAN]]
  /\ asks \in Nat /\ over \in {"no", "broken", "refused", "aborted"}

\* A control in progress works on the memory its retained target names, in the
\* very binding the target was captured from: no rebinding happens under it
\* (execution_binding_control against execution_binding_replace).
ControlExact ==
  \A t \in Thread : th[t].st = "control" =>
    LET g == th[t].tgt
    IN nat[g.ctx].obj = g.obj /\ nat[g.ctx].epoch = g.ne

\* Why: the exclusive guard has no readers beside it and belongs to the thread
\* that replaces; a reader's binding is the native one; and outside a
\* replacement whose outcome is unknown, binding and native context agree.
GuardInv ==
  /\ \A t \in Thread : th[t].st = "control" =>
       t \in rd[th[t].tgt.ctx] /\ th[t].tgt.ne > 0
  /\ \A c \in Ctx : wr[c] # NoThread =>
       rd[c] = {} /\ th[wr[c]].st = "replace" /\ th[wr[c]].b.ctx = c
  /\ \A t \in Thread : th[t].st = "replace" => wr[th[t].b.ctx] = t
  /\ over = "no" => \A c \in Ctx : (wr[c] = NoThread \/ ~th[wr[c]].unsure) =>
       nat[c].obj = bind[c].obj /\ nat[c].epoch = bind[c].epoch

\* One address space has one record, its parent the declared one, and its
\* object is nobody else's and not closed; whatever the races of first use,
\* every target of that address space names that object
\* (execution_mm_resolve).
OneRecord ==
  /\ \A r, s \in reg : (r.id = s.id \/ r.obj = s.obj) => r = s
  /\ \A r \in reg : r.obj \notin closed /\ r.parent = Parent[r.id]
                    /\ (r.parent = NoMM \/ Records(r.parent) # {})
  /\ \A c \in Ctx : \A x \in hist[c] : \E r \in reg : r.id = x.mm /\ r.obj = x.obj

\* While nobody publishes, the target every new operation captures is the
\* binding the native context really has, and both belong to the source's
\* binding of that epoch (execution_target_publish: "Source publication and
\* native epoch become visible together").
CurrentExact ==
  \A c \in Live : (pub[c] = NoThread /\ ~nat[c].dead) =>
    /\ cur[c].obj = nat[c].obj /\ cur[c].ne = nat[c].epoch
    /\ bind[c] = [obj |-> cur[c].obj, epoch |-> cur[c].ne]
    /\ [ctx |-> c, mm |-> cur[c].mm, epoch |-> cur[c].se] \in said

\* Once the service thread is back from the image it was told of, the context
\* runs the source's image: a callback that named it earlier does not stand in
\* for the installation, one that names an older image does not undo it.
ImageInstalled ==
  \A c \in Live : (th[c].st \in {"idle", "have", "control"} /\ over = "no") =>
    cur[c].se = src[c].epoch /\ cur[c].mm = src[c].mm

\* What later operations will capture is true: one record and one object for
\* an address space, the current target the native binding, and after an exec
\* the source's image (execution_mm_resolve, execution_target_publish).
PublishedTrue == CurrentExact /\ ImageInstalled /\ OneRecord

\* The monitor stops the program for want of an image or a context only when
\* the context table was full, never because its own books disagree with what
\* the source told it (ctx_register, execution_mm_resolve,
\* execution_target_publish); a refused native replacement is counted apart.
StopsWithCause == over = "broken" => Cardinality(Live) >= MaxCtx

\* Targets are never changed or dropped once returned and the current one only
\* moves to a later image ("Old replies resolve to their old targets without
\* rolling back state").
HistoryOnly ==
  [][\A c \in Live : /\ hist[c] \subseteq hist'[c]
                     /\ cur'[c] # cur[c] => /\ cur'[c].se > cur[c].se
                                            /\ cur'[c].ne = cur[c].ne + 1]_vars

\* Every operation ends: no reader, publisher or resolver is left waiting for
\* a lock (with MaxAsks finite, so that readers do not arrive for ever).
OperationEnds == \A t \in Thread : (th[t].st # "idle") ~> (th[t].st = "idle" \/ over # "no")

(***************************************************************************)
(* Why these hold.                                                         *)
(***************************************************************************)
\* The address space's parent has a record, or it has no parent.
Known(m) == Parent[m] = NoMM \/ Records(Parent[m]) # {}
Recorded(m, obj) == \E r \in reg : r.id = m /\ r.obj = obj

\* Points of an operation at which it has a binding of the source in hand.
Named == {"resolve", "make", "publish", "birth", "observe", "image", "drain", "replace"}

\* The source issues epochs in order, each with an address space of its own,
\* and a context it was not yet told of has made no call.
SourceInv ==
  /\ \A c \in Ctx : src[c].ctx = c /\ (src[c].epoch > 0 => src[c] \in said)
  /\ \A b \in said : 0 < b.epoch /\ b.epoch <= src[b.ctx].epoch
  /\ \A b, d \in said : b.ctx = d.ctx /\ (b.mm = d.mm \/ b.epoch = d.epoch) => b = d
  /\ \A c \in Ctx : c \notin Live => src[c].epoch <= 1 /\ th[c].st = "idle"

\* Objects are made once: a record's, a closed one and one about to be
\* published are three different objects.
RecordInv ==
  /\ \A r, s \in reg : (r.id = s.id \/ r.obj = s.obj) => r = s
  /\ \A r \in reg : /\ r.obj <= nobj /\ r.obj \notin closed
                     /\ r.parent = Parent[r.id] /\ Known(r.id)
  /\ \A o \in closed : o <= nobj
  /\ \A t \in Thread : th[t].st = "publish" =>
       /\ th[t].obj <= nobj /\ th[t].obj \notin closed
       /\ \A r \in reg : r.obj # th[t].obj
       /\ \A u \in Thread : th[u].st = "publish" /\ th[u].obj = th[t].obj => u = t

\* What a thread in the middle of an operation may rely on.
ThreadOK(t) ==
  /\ th[t].st \in Named => /\ th[t].b \in said
                           /\ t \in Ctx <=> th[t].op # "observe"
                           /\ th[t].op = "image" => th[t].b = src[t]
  /\ th[t].st \in {"birth", "observe", "image"} => th[t].op = th[t].st
  /\ th[t].st \in {"drain", "replace"} => th[t].op = "image" /\ pub[th[t].b.ctx] = t
  /\ th[t].st \in {"make", "publish"} \/ (t \in Ctx /\ th[t].st = "resolve") => Known(th[t].b.mm)
  /\ th[t].st \in {"birth", "observe", "image", "drain", "replace"} =>
       Recorded(th[t].b.mm, th[t].obj)

ThreadInv == \A t \in Thread : ThreadOK(t)

\* Targets come from the source's bindings and the records.
Grounded(c, x) ==
  /\ x.ctx = c /\ [ctx |-> c, mm |-> x.mm, epoch |-> x.se] \in said
  /\ Recorded(x.mm, x.obj)

\* The service thread is on its way from an exec's reply to the new image.
Imaging(c) == th[c].st \in Named /\ th[c].op = "image"

\* The current target is the monitor's binding and, but for an image under
\* installation, the source's newest; unless the context is dead or being
\* rebound the monitor's binding is the native one.
TargetInv ==
  /\ \A c \in Ctx : \A x \in hist[c] : Grounded(c, x)
  /\ \A c \in Live : /\ cur[c] \in hist[c]
                     /\ bind[c] = [obj |-> cur[c].obj, epoch |-> cur[c].ne]
  /\ over = "no" => \A c \in Live :
       src[c].epoch = IF Imaging(c) THEN cur[c].se + 1 ELSE cur[c].se

\* Outside a replacement a living native context has the monitor's binding.
NativeInv ==
  \A c \in Ctx : wr[c] = NoThread /\ ~nat[c].dead =>
    nat[c].obj = bind[c].obj /\ nat[c].epoch = bind[c].epoch
=============================================================================
