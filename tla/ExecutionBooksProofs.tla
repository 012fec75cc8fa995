------------------------ MODULE ExecutionBooksProofs ------------------------
(***************************************************************************)
(* Proofs about ExecutionTarget, second part: the records, the targets and *)
(* the source's bindings.  The books (PInv) are invariant given the guards *)
(* of ExecutionTargetProofs: one lemma per action (...Keeps) over lemmas   *)
(* for what an action leaves alone (...Frame).  From them: what is         *)
(* published is true, the program is stopped for a cause, and targets only *)
(* move on.                                                                *)
(***************************************************************************)
EXTENDS ExecutionTargetProofs

(* The books: the source's, the registry's, the threads', the targets' and *)
(* the native bindings; the cause of a stop is part of them since it rests *)
(* on what the threads rely on.                                            *)
PInv == SourceInv /\ RecordInv /\ ThreadInv /\ TargetInv /\ NativeInv /\ StopsWithCause

(* The fields of the state, as the steps below use them.                   *)
LEMMA Shapes ==
  ASSUME TypeOK
  PROVE  /\ Ctx \subseteq Thread /\ th \in [Thread -> ThreadRecord]
         /\ \A t \in Thread : /\ th[t].b \in Binding /\ th[t].b.ctx \in Ctx /\ th[t].b.mm \in MM
                              /\ th[t].b.epoch \in Nat /\ th[t].obj \in Nat
                              /\ th[t].tgt.ctx \in Ctx
         /\ \A b \in said : /\ b.ctx \in Ctx /\ b.mm \in MM /\ b.epoch \in Nat
                            /\ b = [ctx |-> b.ctx, mm |-> b.mm, epoch |-> b.epoch]
         /\ \A c \in Ctx : /\ src[c].epoch \in Nat /\ src[c].mm \in MM
                           /\ src[c] = [ctx |-> src[c].ctx, mm |-> src[c].mm, epoch |-> src[c].epoch]
                           /\ cur[c].se \in Nat /\ cur[c].ne \in Nat
                           /\ bind[c].epoch \in Nat /\ bind[c].obj \in Nat
  <1>1. Ctx \subseteq Thread /\ th \in [Thread -> ThreadRecord]
    BY DEF TypeOK, ThreadRecord, Thread
  <1>2. \A t \in Thread : /\ th[t].b \in Binding /\ th[t].b.ctx \in Ctx /\ th[t].b.mm \in MM
                          /\ th[t].b.epoch \in Nat /\ th[t].obj \in Nat /\ th[t].tgt.ctx \in Ctx
    BY <1>1 DEF ThreadRecord, Binding, Target
  <1>3. \A b \in Binding : /\ b.ctx \in Ctx /\ b.mm \in MM /\ b.epoch \in Nat
                           /\ b = [ctx |-> b.ctx, mm |-> b.mm, epoch |-> b.epoch]
    BY DEF Binding
  <1>4. said \subseteq Binding /\ src \in [Ctx -> Binding]
    BY DEF TypeOK
  <1>5. \A c \in Ctx : src[c] \in Binding
    BY <1>4
  <1>6. \A c \in Ctx : cur[c].se \in Nat /\ cur[c].ne \in Nat
    BY DEF TypeOK, Target
  <1>7. \A c \in Ctx : bind[c].epoch \in Nat /\ bind[c].obj \in Nat
    BY DEF TypeOK
  <1> QED  BY <1>1, <1>2, <1>3, <1>4, <1>5, <1>6, <1>7, Zenon

(* A thread in the middle of something belongs to a context of the table,  *)
(* or serves callbacks.                                                    *)
LEMMA BusyLive ==
  ASSUME TypeOK, SourceInv, NEW t \in Thread, th[t].st # "idle"
  PROVE  t \in Ctx => t \in Live
  BY Zenon DEF SourceInv

(* A thread on its way to an image installs it in its own context.         *)
LEMMA OwnImage ==
  ASSUME TypeOK, PInv, NEW t \in Thread, Imaging(t)
  PROVE  /\ t \in Ctx /\ t \in Live /\ th[t].b = src[t] /\ th[t].b.ctx = t /\ th[t].b \in said
  <1>1. th[t].st \in Named /\ th[t].op = "image"
    BY Zenon DEF Imaging
  <1>2. "image" # "observe" /\ "idle" \notin Named
    BY DEF Named
  <1>3. t \in Ctx /\ th[t].b = src[t] /\ th[t].b \in said
    BY <1>1, <1>2, Zenon DEF PInv, ThreadInv, ThreadOK
  <1>4. src[t].ctx = t
    BY <1>3, Zenon DEF PInv, SourceInv
  <1>5. t \in Live
    BY <1>1, <1>2, <1>3, BusyLive, Zenon DEF PInv
  <1> QED  BY <1>3, <1>4, <1>5, Zenon

(* Records stay: what was known or recorded is.                            *)
LEMMA KnownStays ==
  ASSUME reg \subseteq reg'
  PROVE  /\ \A m : Known(m) => Known(m)'
         /\ \A m, obj : Recorded(m, obj) => Recorded(m, obj)'
  <1>1. \A m : Records(m) # {} => Records(m)' # {}
    BY Zenon DEF Records
  <1> QED  BY <1>1, Zenon DEF Known, Recorded

(* A target that rests on a record goes on resting on it.                  *)
LEMMA GroundStays ==
  ASSUME reg \subseteq reg', said \subseteq said', NEW c, NEW x, Grounded(c, x)
  PROVE  Grounded(c, x)'
  BY KnownStays, Zenon DEF Grounded

(* The source's books when the source does nothing.                        *)
LEMMA SourceFrame ==
  ASSUME TypeOK, SourceInv, NEW t \in Thread, UNCHANGED <<src, said>>,
         Live \subseteq Live', \A u \in Thread : u # t => th'[u] = th[u], t \in Ctx => t \in Live
  PROVE  SourceInv'
  <1>1. \A c \in Ctx : c \notin Live' => c \notin Live /\ c # t /\ c \in Thread
    BY Shapes, Zenon
  <1>2. \A c \in Ctx : c \notin Live' => src'[c].epoch <= 1 /\ th'[c].st = "idle"
    BY <1>1, Zenon DEF SourceInv
  <1> QED  BY <1>2, Zenon DEF SourceInv

(* The registry when nothing is made or published.                         *)
LEMMA RecordFrame ==
  ASSUME RecordInv, NEW t \in Thread, UNCHANGED <<reg, nobj, closed>>,
         \A u \in Thread : u # t => th'[u] = th[u], th'[t].st # "publish"
  PROVE  RecordInv'
  <1>1. \A u \in Thread : th'[u].st = "publish" => u # t /\ th'[u] = th[u]
    BY Zenon
  <1>2. \A m : Known(m) => Known(m)'
    BY KnownStays, Zenon
  <1>3. \A r \in reg' : /\ r.obj <= nobj' /\ r.obj \notin closed'
                        /\ r.parent = Parent[r.id] /\ Known(r.id)'
    BY <1>2, Zenon DEF RecordInv
  <1>4. \A u \in Thread : th'[u].st = "publish" =>
          /\ th'[u].obj <= nobj' /\ th'[u].obj \notin closed'
          /\ \A r \in reg' : r.obj # th'[u].obj
          /\ \A w \in Thread : th'[w].st = "publish" /\ th'[w].obj = th'[u].obj => w = u
    BY <1>1, Zenon DEF RecordInv
  <1> QED  BY <1>3, <1>4, Zenon DEF RecordInv

(* The threads that do not move, when records and bindings only grow.      *)
LEMMA ThreadFrame ==
  ASSUME ThreadInv, NEW t \in Thread, reg \subseteq reg', said \subseteq said',
         \A u \in Thread : u # t => th'[u] = th[u],
         \A u \in Thread : u # t /\ Imaging(u) => src'[u] = src[u],
         \A u \in Thread : u # t /\ th[u].st \in {"drain", "replace"} => pub'[th[u].b.ctx] = u,
         ThreadOK(t)'
  PROVE  ThreadInv'
  <1> SUFFICES ASSUME NEW u \in Thread PROVE ThreadOK(u)'
    BY Zenon DEF ThreadInv
  <1>1. CASE u = t
    BY <1>1, Zenon
  <1>2. CASE u # t
    <2>1. ThreadOK(u) /\ th'[u] = th[u] /\ (Imaging(u) => src'[u] = src[u])
          /\ (th[u].st \in {"drain", "replace"} => pub'[th[u].b.ctx] = u)
      BY <1>2, Zenon DEF ThreadInv
    <2>2. th'[u].st \in Named => /\ th'[u].b \in said'
                                 /\ u \in Ctx <=> th'[u].op # "observe"
                                 /\ th'[u].op = "image" => th'[u].b = src'[u]
      BY <2>1, Zenon DEF ThreadOK, Imaging
    <2>3. /\ th'[u].st \in {"birth", "observe", "image"} => th'[u].op = th'[u].st
          /\ th'[u].st \in {"drain", "replace"} => th'[u].op = "image" /\ pub'[th'[u].b.ctx] = u
      BY <2>1, Zenon DEF ThreadOK
    <2>4. /\ th'[u].st \in {"make", "publish"} \/ (u \in Ctx /\ th'[u].st = "resolve")
               => Known(th[u].b.mm)'
          /\ th'[u].st \in {"birth", "observe", "image", "drain", "replace"} =>
               Recorded(th[u].b.mm, th[u].obj)'
      <3>1. /\ \A m : Known(m) => Parent[m] = NoMM \/ Records(Parent[m])' # {}
            /\ \A m, obj : Recorded(m, obj) => \E r \in reg' : r.id = m /\ r.obj = obj
        BY KnownStays, Zenon DEF Known, Recorded
      <3> QED  BY <2>1, <3>1, Zenon DEF ThreadOK, Known, Recorded
    <2> QED  BY <2>2, <2>3, <2>4, Zenon DEF ThreadOK
  <1> QED  BY <1>1, <1>2, Zenon

(* The targets when none is returned or installed.                         *)
LEMMA TargetFrame ==
  ASSUME TypeOK, TargetInv, NEW t \in Thread, UNCHANGED <<src, cur, hist, bind>>, over = "no",
         reg \subseteq reg', said \subseteq said',
         \A u \in Thread : u # t => th'[u] = th[u],
         over' = "no" => (Imaging(t)' <=> Imaging(t))
  PROVE  TargetInv' /\ Live' = Live
  <1>1. Live' = Live
    BY Zenon DEF Live
  <1>2. \A c \in Ctx : \A x \in hist'[c] : Grounded(c, x)'
    BY GroundStays, Zenon DEF TargetInv
  <1>3. \A c \in Live' : /\ cur'[c] \in hist'[c]
                         /\ bind'[c] = [obj |-> cur'[c].obj, epoch |-> cur'[c].ne]
    BY <1>1, Zenon DEF TargetInv
  <1>4. ASSUME over' = "no", NEW c \in Live'
        PROVE  src'[c].epoch = IF Imaging(c)' THEN cur'[c].se + 1 ELSE cur'[c].se
    <2>1. c \in Live /\ c \in Thread
      BY <1>1, Shapes, Zenon DEF Live
    <2>2. Imaging(c)' <=> Imaging(c)
      BY <1>4, <2>1, Zenon DEF Imaging
    <2> QED  BY <2>1, <2>2, Zenon DEF TargetInv
  <1> QED  BY <1>1, <1>2, <1>3, <1>4, Zenon DEF TargetInv

(* A step of one thread that publishes, returns and installs nothing.      *)
LEMMA PlainKeeps ==
  ASSUME TypeOK, PInv, NEW t \in Thread, over = "no", t \in Ctx => t \in Live,
         UNCHANGED <<src, said, reg, nobj, closed, bind, cur, hist>>,
         \A u \in Thread : u # t => th'[u] = th[u],
         \A u \in Thread : u # t /\ th[u].st \in {"drain", "replace"} => pub'[th[u].b.ctx] = u,
         th'[t].st # "publish", ThreadOK(t)', NativeInv',
         over' # "broken", over' = "no" => (Imaging(t)' <=> Imaging(t))
  PROVE  PInv'
  <1>1. TargetInv' /\ Live' = Live
    BY TargetFrame, Zenon DEF PInv
  <1>2. SourceInv'
    BY <1>1, SourceFrame, Zenon DEF PInv
  <1>3. RecordInv'
    BY RecordFrame, Zenon DEF PInv
  <1>4. ThreadInv'
    BY ThreadFrame, Zenon DEF PInv
  <1> QED  BY <1>1, <1>2, <1>3, <1>4, Zenon DEF PInv, StopsWithCause

(* How a thread's record changes.                                          *)
LEMMA ThreadSet ==
  ASSUME TypeOK, NEW t \in Thread, NEW r, th' = [th EXCEPT ![t] = r]
  PROVE  th'[t] = r /\ \A u \in Thread : u # t => th'[u] = th[u]
  BY Shapes, Zenon

(* The program counter of a thread moves and nothing else of it.           *)
LEMMA PointSet ==
  ASSUME TypeOK, NEW t \in Thread, NEW s, th' = [th EXCEPT ![t].st = s]
  PROVE  /\ th'[t].st = s /\ th'[t].op = th[t].op /\ th'[t].b = th[t].b
         /\ th'[t].obj = th[t].obj /\ th'[t].tgt = th[t].tgt
         /\ \A u \in Thread : u # t => th'[u] = th[u]
  <1>1. th[t] \in ThreadRecord
    BY Shapes, Zenon
  <1>2. th'[t] = [th[t] EXCEPT !.st = s] /\ \A u \in Thread : u # t => th'[u] = th[u]
    BY Shapes, Zenon
  <1> QED  BY <1>1, <1>2 DEF ThreadRecord

(* A thread between two operations has nothing to answer for.              *)
LEMMA Rest ==
  ASSUME NEW t \in Thread, th'[t].st \in {"idle", "have", "control"}
  PROVE  ThreadOK(t)' /\ ~Imaging(t)' /\ th'[t].st # "publish"
  <1>1. th'[t].st \notin Named
    BY DEF Named
  <1>2. /\ th'[t].st \notin {"birth", "observe", "image", "drain", "replace"}
        /\ th'[t].st \notin {"make", "publish"} /\ th'[t].st # "resolve"
    OBVIOUS
  <1> QED  BY <1>1, <1>2, Zenon DEF ThreadOK, Imaging

(* A thread between two operations is not on its way to an image.          *)
LEMMA AtRest ==
  ASSUME NEW t \in Thread, th[t].st \in {"idle", "have", "control"}
  PROVE  ~Imaging(t)
  BY DEF Imaging, Named

(* The idle record.                                                        *)
LEMMA IdleFields == Idle.st = "idle"
  BY DEF Idle

(* Native and believed bindings when neither changes.                      *)
LEMMA NativeFrame ==
  ASSUME NativeInv, UNCHANGED <<nat, bind>>, \A c \in Ctx : wr'[c] = NoThread => wr[c] = NoThread
  PROVE  NativeInv'
  BY Zenon DEF NativeInv

(***************************************************************************)
(* The steps that are plain.                                               *)
(***************************************************************************)
(* An operation starts from a target, or ends, or passes from one control  *)
(* to the next.                                                            *)
LEMMA RestKeeps ==
  ASSUME TypeOK, PInv, NEW t \in Thread, over = "no", t \in Ctx => t \in Live,
         UNCHANGED <<src, said, reg, nobj, closed, nat, bind, cur, hist, pub, wr, over>>,
         \A u \in Thread : u # t => th'[u] = th[u],
         th[t].st \in {"idle", "have", "control"}, th'[t].st \in {"idle", "have", "control"}
  PROVE  PInv'
  <1>1. ThreadOK(t)' /\ ~Imaging(t)' /\ th'[t].st # "publish" /\ ~Imaging(t)
    BY Rest, AtRest, Zenon
  <1>2. Imaging(t)' <=> Imaging(t)
    BY <1>1, Zenon
  <1>3. \A u \in Thread : u # t /\ th[u].st \in {"drain", "replace"} => pub'[th[u].b.ctx] = u
    BY Zenon DEF PInv, ThreadInv, ThreadOK
  <1>4. over' # "broken"
    OBVIOUS
  <1>5. NativeInv'
    BY NativeFrame, Zenon DEF PInv
  <1> QED  BY <1>1, <1>2, <1>3, <1>4, <1>5, PlainKeeps, Zenon

(* An operation takes the current target of its context.                   *)
LEMMA CaptureKeeps ==
  ASSUME TypeOK, PInv, NEW t \in Thread, NEW c \in Ctx, execution_target_capture(t, c)
  PROVE  PInv'
  <1>1. th' = [th EXCEPT ![t] = [Idle EXCEPT !.st = "have", !.tgt = cur[c]]]
    BY Zenon DEF execution_target_capture, Start
  <1>2. [Idle EXCEPT !.st = "have", !.tgt = cur[c]].st = "have"
    BY DEF Idle
  <1>3. th'[t].st = "have" /\ \A u \in Thread : u # t => th'[u] = th[u]
    BY <1>1, <1>2, ThreadSet, Zenon
  <1>4. th[t].st = "idle" /\ over = "no" /\ (t \in Ctx => t \in Live)
    BY Zenon DEF execution_target_capture, Start, At
  <1>5. th[t].st \in {"idle", "have", "control"} /\ th'[t].st \in {"idle", "have", "control"}
    BY <1>3, <1>4, Zenon
  <1> QED  BY <1>3, <1>4, <1>5, RestKeeps, Zenon DEF execution_target_capture

(* A control is let in or turned away under the shared guard.              *)
LEMMA ControlKeeps ==
  ASSUME TypeOK, PInv, NEW t \in Thread, execution_context_ctl(t)
  PROVE  PInv'
  <1>1. th[t].st = "have" /\ over = "no"
    BY Zenon DEF execution_context_ctl, At
  <1>2. \/ th' = [th EXCEPT ![t] = Idle]
        \/ th' = [th EXCEPT ![t] = [th[t] EXCEPT !.st = "control"]]
    BY Zenon DEF execution_context_ctl
  <1>3. [th[t] EXCEPT !.st = "control"].st = "control"
    BY Shapes DEF ThreadRecord
  <1>4. th'[t].st \in {"idle", "have", "control"} /\ \A u \in Thread : u # t => th'[u] = th[u]
    BY <1>2, <1>3, ThreadSet, IdleFields, Zenon
  <1>5. t \in Ctx => t \in Live
    <2>1. th[t].st # "idle"
      BY <1>1
    <2> QED  BY <2>1, BusyLive, Zenon DEF PInv
  <1>6. th[t].st \in {"idle", "have", "control"}
    BY <1>1, Zenon
  <1> QED  BY <1>1, <1>4, <1>5, <1>6, RestKeeps, Zenon DEF execution_context_ctl

(* A control returns and drops the shared guard.                           *)
LEMMA DoneKeeps ==
  ASSUME TypeOK, PInv, NEW t \in Thread, NEW again \in BOOLEAN, ControlDone(t, again)
  PROVE  PInv'
  <1>1. th[t].st = "control" /\ over = "no"
    BY Zenon DEF ControlDone, At
  <1>2. \/ th' = [th EXCEPT ![t] = Idle]
        \/ th' = [th EXCEPT ![t] = [th[t] EXCEPT !.st = "have"]]
    BY Zenon DEF ControlDone
  <1>3. [th[t] EXCEPT !.st = "have"].st = "have"
    BY Shapes DEF ThreadRecord
  <1>4. th'[t].st \in {"idle", "have", "control"} /\ \A u \in Thread : u # t => th'[u] = th[u]
    BY <1>2, <1>3, ThreadSet, IdleFields, Zenon
  <1>5. t \in Ctx => t \in Live
    <2>1. th[t].st # "idle"
      BY <1>1
    <2> QED  BY <2>1, BusyLive, Zenon DEF PInv
  <1>6. th[t].st \in {"idle", "have", "control"}
    BY <1>1, Zenon
  <1> QED  BY <1>1, <1>4, <1>5, <1>6, RestKeeps, Zenon DEF ControlDone

(* A thread that goes on with the binding it has in hand.                  *)
LEMMA Proceeds ==
  ASSUME NEW t \in Thread, ThreadOK(t), th[t].st \in Named, th'[t].st \in Named,
         th'[t].op = th[t].op, th'[t].b = th[t].b, src' = src, said \subseteq said'
  PROVE  /\ th'[t].b \in said' /\ (t \in Ctx <=> th'[t].op # "observe")
         /\ th'[t].op = "image" => th'[t].b = src'[t]
         /\ Imaging(t)' <=> Imaging(t)
  BY Zenon DEF ThreadOK, Imaging

(* What execution_mm_resolve leaves in the thread that called it.          *)
LEMMA ResolvedSet ==
  ASSUME TypeOK, NEW t \in Thread, NEW obj, th' = Resolved(t, obj)
  PROVE  /\ th'[t].st = th[t].op /\ th'[t].op = th[t].op /\ th'[t].b = th[t].b /\ th'[t].obj = obj
         /\ \A u \in Thread : u # t => th'[u] = th[u]
  <1>1. th[t] \in ThreadRecord
    BY Shapes, Zenon
  <1>2. /\ th'[t] = [[th[t] EXCEPT !.obj = obj] EXCEPT !.st = th[t].op]
        /\ \A u \in Thread : u # t => th'[u] = th[u]
    BY Shapes, ZenonT(30) DEF Resolved
  <1> QED  BY <1>1, <1>2 DEF ThreadRecord

(* A thread with its record in hand stands where its operation goes on.    *)
LEMMA ResolvedOK ==
  ASSUME TypeOK, NEW t \in Thread, ThreadOK(t), th[t].st \in {"resolve", "make", "publish"},
         NEW obj, th' = Resolved(t, obj), UNCHANGED <<src, said>>, reg \subseteq reg',
         \E r \in reg' : r.id = th[t].b.mm /\ r.obj = obj
  PROVE  ThreadOK(t)' /\ th'[t].st # "publish" /\ (Imaging(t)' <=> Imaging(t))
  <1>1. /\ th'[t].st = th[t].op /\ th'[t].op = th[t].op /\ th'[t].b = th[t].b /\ th'[t].obj = obj
    BY ResolvedSet, Zenon
  <1>2. th[t].op \in {"image", "birth", "observe"}
    BY Shapes DEF ThreadRecord
  <1>3. th[t].st \in Named /\ th'[t].st \in Named
    BY <1>1, <1>2 DEF Named
  <1>4. /\ th'[t].st \notin {"make", "publish", "drain", "replace"} /\ th'[t].st # "resolve"
        /\ th'[t].st # "publish"
    BY <1>1, <1>2
  <1>5. /\ th'[t].b \in said' /\ (t \in Ctx <=> th'[t].op # "observe")
        /\ th'[t].op = "image" => th'[t].b = src'[t]
        /\ Imaging(t)' <=> Imaging(t)
    BY <1>1, <1>3, Proceeds, Zenon
  <1>6. Recorded(th[t].b.mm, th[t].obj)'
    BY <1>1, Zenon DEF Recorded
  <1>7. ThreadOK(t)'
    BY <1>1, <1>4, <1>5, <1>6, Zenon DEF ThreadOK
  <1> QED  BY <1>4, <1>5, <1>7, Zenon

(* A thread that is publishing has the publication lock, and keeps it.     *)
LEMMA PubStays ==
  ASSUME PInv, NEW t \in Thread, pub' = pub
  PROVE  \A u \in Thread : u # t /\ th[u].st \in {"drain", "replace"} => pub'[th[u].b.ctx] = u
  BY Zenon DEF PInv, ThreadInv, ThreadOK

(* A callback names a binding the source has told of.                      *)
LEMMA ObserveStartKeeps ==
  ASSUME TypeOK, PInv, NEW t \in Thread, NEW b \in said, ctx_observe_source(t, b)
  PROVE  PInv'
  <1>1. th' = [th EXCEPT ![t] = [Idle EXCEPT !.st = "resolve", !.op = "observe", !.b = b]]
    BY Zenon DEF ctx_observe_source, Start
  <1>2. /\ [Idle EXCEPT !.st = "resolve", !.op = "observe", !.b = b].st = "resolve"
        /\ [Idle EXCEPT !.st = "resolve", !.op = "observe", !.b = b].op = "observe"
        /\ [Idle EXCEPT !.st = "resolve", !.op = "observe", !.b = b].b = b
    BY DEF Idle
  <1>3. /\ th'[t].st = "resolve" /\ th'[t].op = "observe" /\ th'[t].b = b
        /\ \A u \in Thread : u # t => th'[u] = th[u]
    BY <1>1, <1>2, ThreadSet, Zenon
  <1>4. /\ th[t].st = "idle" /\ over = "no" /\ over' = over /\ t \in Servers
        /\ UNCHANGED <<src, said, reg, nobj, closed, nat, bind, cur, hist, pub, wr>>
    BY Zenon DEF ctx_observe_source, Start, At
  <1>5. t \notin Ctx
    BY <1>4, ExecutionTargetAssumption, Zenon
  <1>6. ThreadOK(t)' /\ ~Imaging(t)' /\ th'[t].st # "publish"
    <2>1. /\ th'[t].st \notin {"birth", "observe", "image", "drain", "replace"}
          /\ th'[t].st \notin {"birth", "observe", "image"} /\ th'[t].st \notin {"drain", "replace"}
          /\ th'[t].st \notin {"make", "publish"} /\ th'[t].st # "publish" /\ th'[t].op # "image"
      BY <1>3
    <2> QED  BY <1>3, <1>4, <1>5, <2>1, Zenon DEF ThreadOK, Imaging
  <1>7. ~Imaging(t)
    BY <1>4, AtRest
  <1>8. NativeInv' /\ over' # "broken"
    <2>1. NativeInv'
      BY <1>4, NativeFrame, Zenon DEF PInv
    <2> QED  BY <1>4, <2>1
  <1> QED  BY <1>3, <1>4, <1>5, <1>6, <1>7, <1>8, PubStays, PlainKeeps, Zenon

(* The first section of a lookup: found, or a new object is wanted.        *)
LEMMA FindKeeps ==
  ASSUME TypeOK, PInv, NEW t \in Thread, ResolveFind(t)
  PROVE  PInv'
  <1> DEFINE m == th[t].b.mm
  <1>1. /\ th[t].st = "resolve" /\ over = "no" /\ ThreadOK(t)
        /\ UNCHANGED <<src, said, reg, nobj, closed, nat, bind, cur, hist, pub, wr>>
    BY Zenon DEF ResolveFind, At, PInv, ThreadInv
  <1>2. th[t].st # "idle" /\ th[t].st \in Named /\ th[t].st \in {"resolve", "make", "publish"}
    BY <1>1 DEF Named
  <1>3. t \in Ctx => t \in Live
    BY <1>2, BusyLive, Zenon DEF PInv
  <1>4. NativeInv'
    BY <1>1, NativeFrame, Zenon DEF PInv
  <1>5. CASE Parent[m] # NoMM /\ Records(Parent[m]) = {}
    <2>1. t \notin Ctx
      BY <1>1, <1>5, Zenon DEF ThreadOK, Known
    <2>2. th' = [th EXCEPT ![t] = Idle] /\ over' = over
      BY <1>5, <2>1, Zenon DEF ResolveFind
    <2>3. th'[t].st \in {"idle", "have", "control"} /\ \A u \in Thread : u # t => th'[u] = th[u]
      BY <2>2, ThreadSet, IdleFields, Zenon
    <2>4. ~Imaging(t)
      <3>1. th[t].op = "observe"
        BY <1>1, <1>2, <2>1, Zenon DEF ThreadOK
      <3> QED  BY <3>1 DEF Imaging
    <2>5. ThreadOK(t)' /\ ~Imaging(t)' /\ th'[t].st # "publish"
      BY <2>3, Rest, Zenon
    <2>6. over' # "broken"
      BY <1>1, <2>2
    <2> QED  BY <1>1, <1>3, <1>4, <2>3, <2>4, <2>5, <2>6, PubStays, PlainKeeps, Zenon
  <1>6. CASE (Parent[m] = NoMM \/ Records(Parent[m]) # {}) /\ Records(m) = {}
    <2>1. th' = [th EXCEPT ![t].st = "make"] /\ over' = over
      BY <1>6, Zenon DEF ResolveFind
    <2>2. /\ th'[t].st = "make" /\ th'[t].op = th[t].op /\ th'[t].b = th[t].b
          /\ \A u \in Thread : u # t => th'[u] = th[u]
      BY <2>1, PointSet, Zenon
    <2>3. /\ th'[t].st \in Named /\ th'[t].st # "publish" /\ over' # "broken"
          /\ th'[t].st \notin {"birth", "observe", "image", "drain", "replace"}
          /\ th'[t].st \notin {"birth", "observe", "image"} /\ th'[t].st \notin {"drain", "replace"}
      BY <1>1, <2>1, <2>2 DEF Named
    <2>4. /\ th'[t].b \in said' /\ (t \in Ctx <=> th'[t].op # "observe")
          /\ th'[t].op = "image" => th'[t].b = src'[t]
          /\ Imaging(t)' <=> Imaging(t)
      BY <1>1, <1>2, <2>2, <2>3, Proceeds, Zenon
    <2>5. Known(th[t].b.mm)'
      BY <1>1, <1>6, <2>2, Zenon DEF Known, Records
    <2>6. ThreadOK(t)'
      BY <2>3, <2>4, <2>5, Zenon DEF ThreadOK
    <2> QED  BY <1>1, <1>3, <1>4, <2>2, <2>3, <2>4, <2>6, PubStays, PlainKeeps, Zenon
  <1>7. CASE (Parent[m] = NoMM \/ Records(Parent[m]) # {}) /\ Records(m) # {}
    <2> DEFINE r == CHOOSE x \in Records(m) : TRUE
    <2>1. th' = Resolved(t, r.obj) /\ over' = over
      BY <1>7, Zenon DEF ResolveFind
    <2>2. \E x \in reg' : x.id = th[t].b.mm /\ x.obj = r.obj
      <3>1. r \in Records(m)
        BY <1>7, Zenon
      <3>2. r \in reg' /\ r.id = m
        BY <1>1, <3>1, Zenon DEF Records
      <3> QED  BY <3>2, Zenon
    <2>3. ThreadOK(t)' /\ th'[t].st # "publish" /\ (Imaging(t)' <=> Imaging(t))
      BY <1>1, <1>2, <2>1, <2>2, ResolvedOK, Zenon
    <2>4. over' # "broken" /\ \A u \in Thread : u # t => th'[u] = th[u]
      <3>1. \A u \in Thread : u # t => th'[u] = th[u]
        BY <2>1, ResolvedSet, Zenon
      <3> QED  BY <1>1, <2>1, <3>1
    <2> QED  BY <1>1, <1>3, <1>4, <2>3, <2>4, PubStays, PlainKeeps, Zenon
  <1> QED  BY <1>5, <1>6, <1>7, Zenon

(* The installation of an image is never refused by the books: the history *)
(* agrees with it and the image is newer than the current one.             *)
LEMMA NeverRefused ==
  ASSUME TypeOK, PInv, NEW t \in Thread, At(t, "image")
  PROVE  /\ Imaging(t) /\ t \in Ctx /\ t \in Live /\ th[t].b.ctx = t
         /\ ~PublishRefused(th[t].b, th[t].obj) /\ ~(th[t].b.epoch <= cur[th[t].b.ctx].se)
         /\ th[t].b.epoch = cur[t].se + 1
  <1> DEFINE b == th[t].b
  <1>1. th[t].st = "image" /\ over = "no" /\ ThreadOK(t)
    BY Zenon DEF At, PInv, ThreadInv
  <1>2. Imaging(t) /\ Recorded(b.mm, th[t].obj)
    <2>1. th[t].st \in Named
      BY <1>1 DEF Named
    <2> QED  BY <1>1, <2>1, Zenon DEF ThreadOK, Imaging
  <1>3. t \in Ctx /\ t \in Live /\ b = src[t] /\ b.ctx = t /\ b \in said
    BY <1>2, OwnImage, Zenon
  <1>4. b.epoch = cur[t].se + 1
    BY <1>1, <1>2, <1>3, Zenon DEF PInv, TargetInv
  <1>5. b.epoch \in Nat /\ cur[t].se \in Nat
    BY <1>3, Shapes, Zenon
  <1>6. ~(b.epoch <= cur[t].se) /\ b.epoch # cur[t].se
    BY <1>4, <1>5
  <1>7. \A x \in Entries(b) : x.mm = b.mm /\ x.obj = th[t].obj
    <2> SUFFICES ASSUME NEW x \in Entries(b) PROVE x.mm = b.mm /\ x.obj = th[t].obj
      OBVIOUS
    <2> DEFINE e == [ctx |-> t, mm |-> x.mm, epoch |-> x.se]
    <2>1. x \in hist[t] /\ x.se = b.epoch
      BY <1>3, Zenon DEF Entries
    <2>2. e \in said /\ Recorded(x.mm, x.obj)
      BY <1>3, <2>1, Zenon DEF PInv, TargetInv, Grounded
    <2>3. e.ctx = t /\ e.epoch = b.epoch /\ e.mm = x.mm
      BY <2>1
    <2>4. e = b
      BY <1>3, <2>2, <2>3, Zenon DEF PInv, SourceInv
    <2>5. x.mm = b.mm
      BY <2>3, <2>4, Zenon
    <2>6. PICK r \in reg : r.id = b.mm /\ r.obj = th[t].obj
      BY <1>2, Zenon DEF Recorded
    <2>7. PICK q \in reg : q.id = x.mm /\ q.obj = x.obj
      BY <2>2, Zenon DEF Recorded
    <2>8. r = q
      <3>1. \A k, l \in reg : k.id = l.id => k = l
        BY Zenon DEF PInv, RecordInv
      <3> QED  BY <2>5, <2>6, <2>7, <3>1, Zenon
    <2> QED  BY <2>5, <2>6, <2>7, <2>8, Zenon
  <1>8. Agrees(b, th[t].obj)
    <2>1. Entries(b) # {} => execution_target_find_locked(b) \in Entries(b)
      BY Zenon DEF execution_target_find_locked
    <2> QED  BY <1>7, <2>1, Zenon DEF Agrees
  <1>9. b.mm # cur[t].mm
    <2> SUFFICES ASSUME b.mm = cur[t].mm PROVE FALSE
      OBVIOUS
    <2> DEFINE e == [ctx |-> t, mm |-> cur[t].mm, epoch |-> cur[t].se]
    <2>1. e \in said
      BY <1>3, Zenon DEF PInv, TargetInv, Grounded
    <2>2. e.ctx = t /\ e.epoch = cur[t].se /\ e.mm = cur[t].mm
      OBVIOUS
    <2>3. e = b
      BY <1>3, <2>1, <2>2, Zenon DEF PInv, SourceInv
    <2> QED  BY <1>6, <2>2, <2>3, Zenon
  <1>10. ~PublishRefused(b, th[t].obj)
    BY <1>3, <1>8, <1>9, Zenon DEF PublishRefused
  <1> QED  BY <1>2, <1>3, <1>4, <1>6, <1>10, Zenon

(* execution_target_publish checks the image against the books.            *)
LEMMA PublishKeeps ==
  ASSUME TypeOK, PInv, NEW t \in Thread, execution_target_publish(t)
  PROVE  PInv'
  <1> DEFINE c == th[t].b.ctx
  <1>1. At(t, "image") /\ pub[c] = NoThread
    BY Zenon DEF execution_target_publish
  <1>2. /\ Imaging(t) /\ t \in Ctx /\ t \in Live /\ c = t
        /\ ~PublishRefused(th[t].b, th[t].obj) /\ ~(th[t].b.epoch <= cur[c].se)
    BY <1>1, NeverRefused, Zenon
  <1>3. /\ pub' = [pub EXCEPT ![c] = t] /\ th' = [th EXCEPT ![t].st = "drain"]
        /\ UNCHANGED <<cur, hist, over>>
    BY <1>2, Zenon DEF execution_target_publish
  <1>4. UNCHANGED <<src, said, reg, nobj, closed, nat, bind, wr>>
    BY Zenon DEF execution_target_publish
  <1>5. th[t].st = "image" /\ over = "no" /\ over' # "broken" /\ ThreadOK(t)
    <2>1. th[t].st = "image" /\ over = "no" /\ ThreadOK(t)
      BY <1>1, Zenon DEF At, PInv, ThreadInv
    <2> QED  BY <1>3, <2>1
  <1>6. /\ th'[t].st = "drain" /\ th'[t].op = th[t].op /\ th'[t].b = th[t].b
        /\ th'[t].obj = th[t].obj /\ \A u \in Thread : u # t => th'[u] = th[u]
    BY <1>3, PointSet, Zenon
  <1>7. pub'[c] = t /\ \A d \in Ctx : d # c => pub'[d] = pub[d]
    <2>1. pub \in [Ctx -> Thread \cup {NoThread}]
      BY DEF TypeOK
    <2> QED  BY <1>2, <1>3, <2>1, Zenon
  <1>8. \A u \in Thread : u # t /\ th[u].st \in {"drain", "replace"} => pub'[th[u].b.ctx] = u
    <2> SUFFICES ASSUME NEW u \in Thread, u # t, th[u].st \in {"drain", "replace"}
                 PROVE  pub'[th[u].b.ctx] = u
      OBVIOUS
    <2>1. pub[th[u].b.ctx] = u /\ th[u].b.ctx \in Ctx
      BY Shapes, Zenon DEF PInv, ThreadInv, ThreadOK
    <2>2. u # NoThread
      BY ExecutionTargetAssumption, Zenon DEF Thread
    <2>3. th[u].b.ctx # c
      BY <1>1, <2>1, <2>2, Zenon
    <2> QED  BY <1>7, <2>1, <2>3, Zenon
  <1>9. /\ th[t].st \in Named /\ th'[t].st \in Named /\ th'[t].st # "publish"
        /\ th'[t].st \notin {"birth", "observe", "image"} /\ th'[t].st \notin {"make", "publish"}
        /\ th'[t].st # "resolve" /\ th[t].st \in {"birth", "observe", "image", "drain", "replace"}
    BY <1>5, <1>6 DEF Named
  <1>10. /\ th'[t].b \in said' /\ (t \in Ctx <=> th'[t].op # "observe")
         /\ th'[t].op = "image" => th'[t].b = src'[t]
         /\ Imaging(t)' <=> Imaging(t)
    BY <1>4, <1>5, <1>6, <1>9, Proceeds, Zenon
  <1>11. Recorded(th[t].b.mm, th[t].obj)'
    BY <1>4, <1>5, <1>6, <1>9, Zenon DEF ThreadOK, Recorded
  <1>12. th'[t].op = "image" /\ pub'[th'[t].b.ctx] = t
    BY <1>2, <1>6, <1>7, Zenon DEF Imaging
  <1>13. ThreadOK(t)'
    BY <1>9, <1>10, <1>11, <1>12, Zenon DEF ThreadOK
  <1>14. NativeInv'
    BY <1>4, NativeFrame, Zenon DEF PInv
  <1> QED  BY <1>2, <1>3, <1>4, <1>5, <1>6, <1>8, <1>9, <1>10, <1>13, <1>14, PlainKeeps, Zenon

(* A thread that keeps its place among those that rebind.                  *)
LEMMA RebindKeeps ==
  ASSUME TypeOK, PInv, NEW t \in Thread, over = "no", th[t].st \in {"drain", "replace"},
         UNCHANGED <<src, said, reg, nobj, closed, bind, cur, hist, pub>>, over' # "broken",
         th'[t].st \in {"drain", "replace"}, th'[t].op = th[t].op, th'[t].b = th[t].b,
         th'[t].obj = th[t].obj, \A u \in Thread : u # t => th'[u] = th[u], NativeInv'
  PROVE  PInv'
  <1>1. /\ th[t].st \in Named /\ th'[t].st \in Named /\ th'[t].st # "publish" /\ th[t].st # "idle"
        /\ th'[t].st \notin {"birth", "observe", "image"} /\ th'[t].st \notin {"make", "publish"}
        /\ th'[t].st # "resolve" /\ th[t].st \in {"birth", "observe", "image", "drain", "replace"}
    BY DEF Named
  <1>2. ThreadOK(t) /\ (t \in Ctx => t \in Live)
    BY <1>1, BusyLive, Zenon DEF PInv, ThreadInv
  <1>3. /\ th'[t].b \in said' /\ (t \in Ctx <=> th'[t].op # "observe")
        /\ th'[t].op = "image" => th'[t].b = src'[t]
        /\ Imaging(t)' <=> Imaging(t)
    BY <1>1, <1>2, Proceeds, Zenon
  <1>4. Recorded(th[t].b.mm, th[t].obj)' /\ th'[t].op = "image" /\ pub'[th'[t].b.ctx] = t
    BY <1>1, <1>2, Zenon DEF ThreadOK, Recorded
  <1>5. ThreadOK(t)'
    BY <1>1, <1>3, <1>4, Zenon DEF ThreadOK
  <1> QED  BY <1>1, <1>2, <1>3, <1>5, PubStays, PlainKeeps, Zenon

(* The exclusive guard of the binding is taken once readers are gone.      *)
LEMMA LockedKeeps ==
  ASSUME TypeOK, PInv, NEW t \in Thread, BindingLocked(t)
  PROVE  PInv'
  <1> DEFINE c == th[t].b.ctx
  <1>1. /\ th[t].st = "drain" /\ over = "no" /\ over' = over
        /\ UNCHANGED <<src, said, reg, nobj, closed, nat, bind, cur, hist, pub>>
        /\ wr' = [wr EXCEPT ![c] = t] /\ th' = [th EXCEPT ![t].st = "replace"]
    BY Zenon DEF BindingLocked, At
  <1>2. /\ th'[t].st = "replace" /\ th'[t].op = th[t].op /\ th'[t].b = th[t].b
        /\ th'[t].obj = th[t].obj /\ \A u \in Thread : u # t => th'[u] = th[u]
    BY <1>1, PointSet, Zenon
  <1>3. \A d \in Ctx : wr'[d] = NoThread => wr[d] = NoThread
    <2>1. wr \in [Ctx -> Thread \cup {NoThread}] /\ c \in Ctx
      BY Shapes DEF TypeOK
    <2>2. t # NoThread
      BY ExecutionTargetAssumption, Zenon DEF Thread
    <2>3. wr'[c] = t /\ \A d \in Ctx : d # c => wr'[d] = wr[d]
      BY <1>1, <2>1, Zenon
    <2> QED  BY <2>2, <2>3, Zenon
  <1>4. NativeInv'
    BY <1>1, <1>3, NativeFrame, Zenon DEF PInv
  <1>5. /\ th[t].st \in {"drain", "replace"} /\ th'[t].st \in {"drain", "replace"}
        /\ over' # "broken"
    BY <1>1, <1>2
  <1> QED  BY <1>1, <1>2, <1>4, <1>5, RebindKeeps, Zenon

(* What a lost result leaves in the thread.                                *)
LEMMA RetrySet ==
  ASSUME TypeOK, NEW t \in Thread, Retry(t)
  PROVE  /\ th'[t].st = th[t].st /\ th'[t].op = th[t].op /\ th'[t].b = th[t].b
         /\ th'[t].obj = th[t].obj /\ \A u \in Thread : u # t => th'[u] = th[u]
         /\ over' \in {"aborted", over} /\ wr' = wr /\ pub' = pub
  <1>1. th[t] \in ThreadRecord
    BY Shapes, Zenon
  <1>2. /\ th'[t] = [[th[t] EXCEPT !.unsure = TRUE] EXCEPT !.tries = th[t].tries + 1]
        /\ \A u \in Thread : u # t => th'[u] = th[u]
    <2>1. [th[t] EXCEPT !.unsure = TRUE].tries = th[t].tries
      BY <1>1 DEF ThreadRecord
    <2> QED  BY <2>1, Shapes, ZenonT(30) DEF Retry
  <1>3. over' \in {"aborted", over} /\ wr' = wr /\ pub' = pub
    BY Zenon DEF Retry
  <1>4. th'[t].st = th[t].st /\ th'[t].op = th[t].op /\ th'[t].b = th[t].b /\ th'[t].obj = th[t].obj
    BY <1>1, <1>2 DEF ThreadRecord
  <1> QED  BY <1>2, <1>3, <1>4, Zenon

(* A result is lost: the thread keeps both locks and asks again, or ends   *)
(* the monitor.                                                            *)
LEMMA RetryKeeps ==
  ASSUME IInv, PInv, NEW t \in Thread, At(t, "replace"), Retry(t),
         UNCHANGED <<src, said, reg, nobj, closed, bind, cur, hist>>,
         \A d \in Ctx : d # th[t].b.ctx => nat'[d] = nat[d]
  PROVE  PInv'
  <1> DEFINE c == th[t].b.ctx
  <1>1. TypeOK /\ th[t].st = "replace" /\ over = "no"
    BY Zenon DEF IInv, At
  <1>2. /\ th'[t].st = th[t].st /\ th'[t].op = th[t].op /\ th'[t].b = th[t].b
        /\ th'[t].obj = th[t].obj /\ \A u \in Thread : u # t => th'[u] = th[u]
        /\ over' \in {"aborted", over} /\ wr' = wr /\ pub' = pub
    BY <1>1, RetrySet, Zenon
  <1>3. wr'[c] # NoThread
    <2>1. wr[c] = t
      BY <1>1, Zenon DEF IInv, GuardInv
    <2> QED  BY <1>2, <2>1, ExecutionTargetAssumption, Zenon DEF Thread
  <1>4. NativeInv'
    BY <1>2, <1>3, Zenon DEF PInv, NativeInv
  <1>5. th[t].st \in {"drain", "replace"} /\ th'[t].st \in {"drain", "replace"} /\ over' # "broken"
    BY <1>1, <1>2
  <1> QED  BY <1>1, <1>2, <1>4, <1>5, RebindKeeps, Zenon

(* What the release of both locks leaves in the thread.                    *)
LEMMA UnlockSet ==
  ASSUME TypeOK, NEW t \in Thread, Unlock(t)
  PROVE  /\ \A d \in Ctx : d # th[t].b.ctx => wr'[d] = wr[d] /\ pub'[d] = pub[d]
         /\ wr'[th[t].b.ctx] = NoThread /\ pub'[th[t].b.ctx] = NoThread
  <1>1. wr \in [Ctx -> Thread \cup {NoThread}] /\ pub \in [Ctx -> Thread \cup {NoThread}]
    BY DEF TypeOK
  <1>2. th[t].b.ctx \in Ctx
    BY Shapes, Zenon
  <1> QED  BY <1>1, <1>2, Zenon DEF Unlock

(* The release of both locks is a thread's own business.                   *)
LEMMA UnlockOthers ==
  ASSUME TypeOK, PInv, NEW t \in Thread, th[t].st = "replace", Unlock(t)
  PROVE  \A u \in Thread : u # t /\ th[u].st \in {"drain", "replace"} => pub'[th[u].b.ctx] = u
  <1> SUFFICES ASSUME NEW u \in Thread, u # t, th[u].st \in {"drain", "replace"}
               PROVE  pub'[th[u].b.ctx] = u
    OBVIOUS
  <1>1. pub[th[u].b.ctx] = u /\ th[u].b.ctx \in Ctx /\ pub[th[t].b.ctx] = t
    BY Shapes, Zenon DEF PInv, ThreadInv, ThreadOK
  <1>2. th[u].b.ctx # th[t].b.ctx
    BY <1>1, Zenon
  <1> QED  BY <1>1, <1>2, UnlockSet, Zenon

(* A refusal is seen only while the native binding is known or its context *)
(* has ended.                                                              *)
LEMMA RefuseKeeps ==
  ASSUME IInv, PInv, NEW t \in Thread, At(t, "replace"), Refuse(t),
         UNCHANGED <<src, said, reg, nobj, closed, nat, bind, cur, hist>>,
         th[t].unsure => nat[th[t].b.ctx].dead
  PROVE  PInv'
  <1> DEFINE c == th[t].b.ctx
  <1>1. TypeOK /\ th[t].st = "replace" /\ over = "no" /\ c \in Ctx
    BY Shapes, Zenon DEF IInv, At
  <1>2. Unlock(t) /\ th' = [th EXCEPT ![t] = Idle] /\ over' = "refused"
    BY Zenon DEF Refuse
  <1>3. th'[t].st \in {"idle", "have", "control"} /\ \A u \in Thread : u # t => th'[u] = th[u]
    BY <1>1, <1>2, ThreadSet, IdleFields, Zenon
  <1>4. ThreadOK(t)' /\ th'[t].st # "publish"
    BY <1>3, Rest, Zenon
  <1>5. \A u \in Thread : u # t /\ th[u].st \in {"drain", "replace"} => pub'[th[u].b.ctx] = u
    BY <1>1, <1>2, UnlockOthers, Zenon
  <1>6. NativeInv'
    <2>1. wr[c] = t
      BY <1>1, Zenon DEF IInv, GuardInv
    <2>2. ~th[t].unsure => nat[c].obj = bind[c].obj /\ nat[c].epoch = bind[c].epoch
      BY <1>1, <2>1, Zenon DEF IInv, GuardInv
    <2>3. \A d \in Ctx : d # c => wr'[d] = wr[d]
      BY <1>1, <1>2, UnlockSet, Zenon
    <2> QED  BY <2>2, <2>3, Zenon DEF PInv, NativeInv
  <1>7. t \in Ctx => t \in Live
    <2>1. th[t].st # "idle"
      BY <1>1
    <2> QED  BY <1>1, <2>1, BusyLive, Zenon DEF PInv
  <1>8. over' # "broken" /\ over' # "no"
    BY <1>2
  <1> QED  BY <1>1, <1>3, <1>4, <1>5, <1>6, <1>7, <1>8, PlainKeeps, Zenon

(* A native control without effect: unread, busy, or its context ended.    *)
LEMMA AnswerKeeps ==
  ASSUME IInv, PInv, NEW t \in Thread, ObjectUnread(t) \/ ObjectBusy(t) \/ ObjectEnded(t)
  PROVE  PInv'
  <1>1. At(t, "replace") /\ UNCHANGED <<src, said, reg, nobj, closed, nat, bind, cur, hist>>
    BY Zenon DEF ObjectUnread, ObjectBusy, ObjectEnded
  <1>2. \A d \in Ctx : d # th[t].b.ctx => nat'[d] = nat[d]
    BY <1>1, Zenon
  <1>3. CASE Retry(t)
    BY <1>1, <1>2, <1>3, RetryKeeps, Zenon
  <1>4. CASE Refuse(t) /\ (th[t].unsure => nat[th[t].b.ctx].dead)
    BY <1>1, <1>4, RefuseKeeps, Zenon
  <1> QED  BY <1>3, <1>4, Zenon DEF ObjectUnread, ObjectBusy, ObjectEnded, ResultLost

(***************************************************************************)
(* The steps that change the books.                                        *)
(***************************************************************************)
(* A context of the table was born, and the current target is one of its   *)
(* source bindings.                                                        *)
LEMMA Born ==
  ASSUME TypeOK, PInv, NEW c \in Live
  PROVE  /\ c \in Ctx /\ [ctx |-> c, mm |-> cur[c].mm, epoch |-> cur[c].se] \in said
         /\ src[c] \in said /\ src[c].ctx = c /\ src[c].epoch > 0
         /\ Recorded(cur[c].mm, cur[c].obj)
  <1> DEFINE e == [ctx |-> c, mm |-> cur[c].mm, epoch |-> cur[c].se]
  <1>1. c \in Ctx
    BY Zenon DEF Live
  <1>2. e \in said /\ Recorded(cur[c].mm, cur[c].obj)
    BY <1>1, Zenon DEF PInv, TargetInv, Grounded
  <1>3. e.ctx = c /\ e.epoch \in Nat /\ src[c].epoch \in Nat
    BY <1>1, <1>2, Shapes, Zenon
  <1>4. 0 < e.epoch /\ e.epoch <= src[c].epoch
    BY <1>2, <1>3, Zenon DEF PInv, SourceInv
  <1>5. src[c].epoch > 0
    BY <1>3, <1>4
  <1>6. src[c] \in said /\ src[c].ctx = c
    BY <1>1, <1>5, Zenon DEF PInv, SourceInv
  <1> QED  BY <1>1, <1>2, <1>5, <1>6, Zenon

(* Unless its thread is on the way to a newer one, a context executes the  *)
(* image the source has for it.                                            *)
LEMMA CurrentIsSource ==
  ASSUME TypeOK, PInv, over = "no", NEW c \in Live, ~Imaging(c)
  PROVE  cur[c].se = src[c].epoch /\ cur[c].mm = src[c].mm
  <1> DEFINE e == [ctx |-> c, mm |-> cur[c].mm, epoch |-> cur[c].se]
  <1>1. src[c].epoch = cur[c].se
    BY Zenon DEF PInv, TargetInv
  <1>2. e \in said /\ src[c] \in said /\ src[c].ctx = c
    BY Born, Zenon
  <1>3. e.ctx = c /\ e.epoch = cur[c].se /\ e.mm = cur[c].mm
    OBVIOUS
  <1>4. e = src[c]
    BY <1>1, <1>2, <1>3, Zenon DEF PInv, SourceInv
  <1> QED  BY <1>1, <1>3, <1>4, Zenon

(* A step that does not stop the program owes no cause.                    *)
LEMMA StopFrame ==
  ASSUME over' # "broken"
  PROVE  StopsWithCause'
  BY Zenon DEF StopsWithCause

(* The factory's object is new.                                            *)
LEMMA MakeKeeps ==
  ASSUME TypeOK, PInv, NEW t \in Thread, ResolveMake(t)
  PROVE  PInv'
  <1>1. /\ th[t].st = "make" /\ over = "no" /\ over' = over /\ nobj' = nobj + 1
        /\ UNCHANGED <<src, said, reg, closed, nat, bind, cur, hist, pub, wr>>
        /\ th' = [th EXCEPT ![t].st = "publish", ![t].obj = nobj + 1]
    BY Zenon DEF ResolveMake, At
  <1>2. /\ th'[t].st = "publish" /\ th'[t].op = th[t].op /\ th'[t].b = th[t].b
        /\ th'[t].obj = nobj + 1 /\ \A u \in Thread : u # t => th'[u] = th[u]
    <2>1. th[t] \in ThreadRecord
      BY Shapes, Zenon
    <2>2. /\ th'[t] = [[th[t] EXCEPT !.st = "publish"] EXCEPT !.obj = nobj + 1]
          /\ \A u \in Thread : u # t => th'[u] = th[u]
      BY <1>1, Shapes, ZenonT(30)
    <2>3. th'[t].st = "publish" /\ th'[t].op = th[t].op /\ th'[t].b = th[t].b /\ th'[t].obj = nobj + 1
      BY <2>1, <2>2 DEF ThreadRecord
    <2> QED  BY <2>2, <2>3, Zenon
  <1>3. /\ th[t].st # "idle" /\ th[t].st \in Named /\ th'[t].st \in Named /\ over' # "broken"
        /\ th'[t].st \notin {"birth", "observe", "image", "drain", "replace"}
        /\ th'[t].st \notin {"birth", "observe", "image"} /\ th'[t].st \notin {"drain", "replace"}
        /\ th[t].st \in {"make", "publish"}
    BY <1>1, <1>2 DEF Named
  <1>4. ThreadOK(t) /\ (t \in Ctx => t \in Live)
    BY <1>3, BusyLive, Zenon DEF PInv, ThreadInv
  <1>5. /\ th'[t].b \in said' /\ (t \in Ctx <=> th'[t].op # "observe")
        /\ th'[t].op = "image" => th'[t].b = src'[t]
        /\ Imaging(t)' <=> Imaging(t)
    BY <1>1, <1>2, <1>3, <1>4, Proceeds, Zenon
  <1>6. Known(th[t].b.mm)'
    BY <1>1, <1>2, <1>3, <1>4, Zenon DEF ThreadOK, Known, Records
  <1>7. ThreadOK(t)'
    BY <1>3, <1>5, <1>6, Zenon DEF ThreadOK
  <1>8. ThreadInv'
    <2>1. reg \subseteq reg' /\ said \subseteq said' /\ src' = src /\ pub' = pub
      BY <1>1, Zenon
    <2> QED  BY <1>2, <1>7, <2>1, PubStays, ThreadFrame, Zenon DEF PInv
  <1>9. TargetInv' /\ Live' = Live
    <2>1. reg \subseteq reg' /\ said \subseteq said'
      BY <1>1, Zenon
    <2> QED  BY <1>1, <1>2, <1>5, <2>1, TargetFrame, Zenon DEF PInv
  <1>10. SourceInv'
    BY <1>1, <1>2, <1>4, <1>9, SourceFrame, Zenon DEF PInv
  <1>11. RecordInv'
    <2>1. nobj \in Nat /\ (\A r \in reg : r.obj \in Nat) /\ closed \subseteq Nat
          /\ \A u \in Thread : th[u].obj \in Nat
      BY Shapes DEF TypeOK
    <2>2. \A n \in Nat : n <= nobj => n <= nobj' /\ n # nobj + 1
      BY <1>1, <2>1
    <2>3. nobj + 1 <= nobj'
      BY <1>1, <2>1
    <2>4. \A r \in reg' : /\ r.obj <= nobj' /\ r.obj \notin closed' /\ r.obj # nobj + 1
                          /\ r.parent = Parent[r.id] /\ Known(r.id)'
      BY <1>1, <2>1, <2>2, Zenon DEF PInv, RecordInv, Known, Records
    <2>5. \A o \in closed' : o <= nobj' /\ o # nobj + 1
      BY <1>1, <2>1, <2>2, Zenon DEF PInv, RecordInv
    <2>6. \A u \in Thread : u # t /\ th'[u].st = "publish" =>
            /\ th'[u].obj <= nobj' /\ th'[u].obj \notin closed' /\ th'[u].obj # nobj + 1
            /\ \A r \in reg' : r.obj # th'[u].obj
      <3> SUFFICES ASSUME NEW u \in Thread, u # t, th'[u].st = "publish"
                   PROVE  /\ th'[u].obj <= nobj' /\ th'[u].obj \notin closed' /\ th'[u].obj # nobj + 1
                          /\ \A r \in reg' : r.obj # th'[u].obj
        BY Zenon
      <3>1. th'[u] = th[u] /\ th[u].obj \in Nat
        BY <1>2, <2>1, Zenon
      <3>2. /\ th[u].obj <= nobj /\ th[u].obj \notin closed
            /\ \A r \in reg : r.obj # th[u].obj
        BY <3>1, Zenon DEF PInv, RecordInv
      <3>3. th[u].obj <= nobj' /\ th[u].obj # nobj + 1
        BY <2>2, <3>1, <3>2
      <3>4. th[u].obj \notin closed' /\ \A r \in reg' : r.obj # th[u].obj
        BY <1>1, <3>2, Zenon
      <3> QED  BY <3>1, <3>3, <3>4
    <2>7. \A u, w \in Thread :
            th'[u].st = "publish" /\ th'[w].st = "publish" /\ th'[w].obj = th'[u].obj => w = u
      <3> SUFFICES ASSUME NEW u \in Thread, NEW w \in Thread, th'[u].st = "publish",
                          th'[w].st = "publish", th'[w].obj = th'[u].obj, w # u
                   PROVE  FALSE
        BY Zenon
      <3>1. u # t
        BY <1>2, <2>6, Zenon
      <3>2. w # t
        BY <1>2, <2>6, Zenon
      <3> QED  BY <1>2, <3>1, <3>2, Zenon DEF PInv, RecordInv
    <2>8. \A u \in Thread : th'[u].st = "publish" =>
            /\ th'[u].obj <= nobj' /\ th'[u].obj \notin closed'
            /\ \A r \in reg' : r.obj # th'[u].obj
      BY <1>2, <2>3, <2>4, <2>5, <2>6, Zenon
    <2>9. \A r, s \in reg' : (r.id = s.id \/ r.obj = s.obj) => r = s
      BY <1>1, Zenon DEF PInv, RecordInv
    <2> QED  BY <2>4, <2>5, <2>7, <2>8, <2>9, Zenon DEF RecordInv
  <1>12. NativeInv'
    BY <1>1, NativeFrame, Zenon DEF PInv
  <1> QED  BY <1>3, <1>8, <1>9, <1>10, <1>11, <1>12, StopFrame, Zenon DEF PInv

(* The second section: the first thread publishes its object, and every    *)
(* later one closes its own.                                               *)
LEMMA PublishRecordKeeps ==
  ASSUME TypeOK, PInv, NEW t \in Thread, ResolvePublish(t)
  PROVE  PInv'
  <1> DEFINE m == th[t].b.mm
             new == [id |-> m, parent |-> Parent[m], obj |-> th[t].obj]
  <1>1. /\ th[t].st = "publish" /\ over = "no" /\ over' = over /\ ThreadOK(t)
        /\ UNCHANGED <<src, said, nobj, nat, bind, cur, hist, pub, wr>>
    BY Zenon DEF ResolvePublish, At, PInv, ThreadInv
  <1>2. /\ th[t].st # "idle" /\ th[t].st \in {"resolve", "make", "publish"} /\ over' # "broken"
        /\ th[t].st \in {"make", "publish"}
    BY <1>1
  <1>3. (t \in Ctx => t \in Live) /\ Known(m)
    BY <1>1, <1>2, BusyLive, Zenon DEF PInv, ThreadOK
  <1>4. NativeInv'
    BY <1>1, NativeFrame, Zenon DEF PInv
  <1>5. /\ th[t].obj <= nobj /\ th[t].obj \notin closed /\ \A r \in reg : r.obj # th[t].obj
        /\ \A u \in Thread : th[u].st = "publish" /\ th[u].obj = th[t].obj => u = t
    BY <1>1, Zenon DEF PInv, RecordInv
  <1>6. ASSUME NEW obj, th' = Resolved(t, obj), reg \subseteq reg', closed' = closed \/ reg' = reg,
               \E r \in reg' : r.id = m /\ r.obj = obj, RecordInv'
        PROVE  PInv'
    <2>1. ThreadOK(t)' /\ (Imaging(t)' <=> Imaging(t))
      BY <1>1, <1>2, <1>6, ResolvedOK, Zenon
    <2>2. \A u \in Thread : u # t => th'[u] = th[u]
      BY <1>6, ResolvedSet, Zenon
    <2>3. said \subseteq said' /\ src' = src /\ pub' = pub
      BY <1>1, Zenon
    <2>4. ThreadInv'
      BY <1>6, <2>1, <2>2, <2>3, PubStays, ThreadFrame, Zenon DEF PInv
    <2>5. TargetInv' /\ Live' = Live
      BY <1>1, <1>6, <2>1, <2>2, <2>3, TargetFrame, Zenon DEF PInv
    <2>6. SourceInv'
      BY <1>1, <1>3, <2>2, <2>5, SourceFrame, Zenon DEF PInv
    <2> QED  BY <1>2, <1>4, <1>6, <2>4, <2>5, <2>6, StopFrame, Zenon DEF PInv
  <1>7. ASSUME NEW obj, th' = Resolved(t, obj)
        PROVE  \A u \in Thread : th'[u].st = "publish" => u # t /\ th'[u] = th[u]
    <2>1. th'[t].st = th[t].op /\ \A u \in Thread : u # t => th'[u] = th[u]
      BY <1>7, ResolvedSet, Zenon
    <2>2. th[t].op # "publish"
      BY Shapes DEF ThreadRecord
    <2> QED  BY <2>1, <2>2, Zenon
  <1>8. CASE Records(m) = {}
    <2>1. reg' = reg \cup {new} /\ th' = Resolved(t, th[t].obj) /\ closed' = closed
      BY <1>8, Zenon DEF ResolvePublish
    <2>2. new.id = m /\ new.parent = Parent[m] /\ new.obj = th[t].obj
      OBVIOUS
    <2>3. \A r \in reg : r.id # m
      BY <1>8, Zenon DEF Records
    <2>4. reg \subseteq reg' /\ new \in reg'
      BY <2>1, Zenon
    <2>5. \A r, s \in reg' : (r.id = s.id \/ r.obj = s.obj) => r = s
      <3> SUFFICES ASSUME NEW r \in reg', NEW s \in reg', r.id = s.id \/ r.obj = s.obj PROVE r = s
        BY Zenon
      <3>1. CASE r \in reg /\ s \in reg
        BY <3>1, Zenon DEF PInv, RecordInv
      <3>2. CASE r = new /\ s \in reg
        BY <1>5, <2>2, <2>3, <3>2, Zenon
      <3>3. CASE r \in reg /\ s = new
        BY <1>5, <2>2, <2>3, <3>3, Zenon
      <3> QED  BY <2>1, <3>1, <3>2, <3>3, Zenon
    <2>6. \A k : Known(k) => Known(k)'
      BY <2>4, KnownStays, Zenon
    <2>7. \A r \in reg' : /\ r.obj <= nobj' /\ r.obj \notin closed'
                          /\ r.parent = Parent[r.id] /\ Known(r.id)'
      <3>1. \A r \in reg : /\ r.obj <= nobj' /\ r.obj \notin closed'
                           /\ r.parent = Parent[r.id] /\ Known(r.id)'
        BY <1>1, <2>1, <2>6, Zenon DEF PInv, RecordInv
      <3>2. \A k : k = m => Known(k)'
        BY <1>3, <2>6, Zenon
      <3>3. \A r : r = new => /\ r.obj <= nobj' /\ r.obj \notin closed'
                             /\ r.parent = Parent[r.id] /\ Known(r.id)'
        BY <1>1, <1>5, <2>1, <2>2, <3>2, Zenon
      <3> QED  BY <2>1, <3>1, <3>3, Zenon
    <2>8. \A u \in Thread : th'[u].st = "publish" =>
            /\ th'[u].obj <= nobj' /\ th'[u].obj \notin closed'
            /\ \A r \in reg' : r.obj # th'[u].obj
            /\ \A w \in Thread : th'[w].st = "publish" /\ th'[w].obj = th'[u].obj => w = u
      <3> SUFFICES ASSUME NEW u \in Thread, th'[u].st = "publish"
                   PROVE  /\ th'[u].obj <= nobj' /\ th'[u].obj \notin closed'
                          /\ \A r \in reg' : r.obj # th'[u].obj
                          /\ \A w \in Thread : th'[w].st = "publish" /\ th'[w].obj = th'[u].obj => w = u
        BY Zenon
      <3>1. u # t /\ th'[u] = th[u] /\ th[u].st = "publish"
        BY <1>7, <2>1, Zenon
      <3>2. /\ th[u].obj <= nobj /\ th[u].obj \notin closed /\ \A r \in reg : r.obj # th[u].obj
            /\ \A w \in Thread : th[w].st = "publish" /\ th[w].obj = th[u].obj => w = u
        BY <3>1, Zenon DEF PInv, RecordInv
      <3>3. new.obj # th[u].obj
        BY <1>5, <2>2, <3>1, Zenon
      <3>4. \A w \in Thread : th'[w].st = "publish" => th'[w] = th[w]
        BY <1>7, <2>1, Zenon
      <3> QED  BY <1>1, <2>1, <3>1, <3>2, <3>3, <3>4, Zenon
    <2>9. \A o \in closed' : o <= nobj'
      BY <1>1, <2>1, Zenon DEF PInv, RecordInv
    <2>10. RecordInv'
      BY <2>5, <2>7, <2>8, <2>9, Zenon DEF RecordInv
    <2> QED  BY <1>6, <2>1, <2>2, <2>4, <2>10, Zenon
  <1>9. CASE Records(m) # {}
    <2> DEFINE r0 == CHOOSE r \in Records(m) : TRUE
    <2>1. reg' = reg /\ th' = Resolved(t, r0.obj) /\ closed' = closed \cup {th[t].obj}
      BY <1>9, Zenon DEF ResolvePublish
    <2>2. r0 \in reg /\ r0.id = m
      <3>1. r0 \in Records(m)
        BY <1>9, Zenon
      <3> QED  BY <3>1, Zenon DEF Records
    <2>3. \A k : Known(k) => Known(k)'
      BY <2>1, KnownStays, Zenon
    <2>4. \A r \in reg' : /\ r.obj <= nobj' /\ r.obj \notin closed'
                          /\ r.parent = Parent[r.id] /\ Known(r.id)'
      BY <1>1, <1>5, <2>1, <2>3, Zenon DEF PInv, RecordInv
    <2>5. \A u \in Thread : th'[u].st = "publish" =>
            /\ th'[u].obj <= nobj' /\ th'[u].obj \notin closed'
            /\ \A r \in reg' : r.obj # th'[u].obj
            /\ \A w \in Thread : th'[w].st = "publish" /\ th'[w].obj = th'[u].obj => w = u
      <3> SUFFICES ASSUME NEW u \in Thread, th'[u].st = "publish"
                   PROVE  /\ th'[u].obj <= nobj' /\ th'[u].obj \notin closed'
                          /\ \A r \in reg' : r.obj # th'[u].obj
                          /\ \A w \in Thread : th'[w].st = "publish" /\ th'[w].obj = th'[u].obj => w = u
        BY Zenon
      <3>1. u # t /\ th'[u] = th[u] /\ th[u].st = "publish"
        BY <1>7, <2>1, Zenon
      <3>2. /\ th[u].obj <= nobj /\ th[u].obj \notin closed /\ \A r \in reg : r.obj # th[u].obj
            /\ \A w \in Thread : th[w].st = "publish" /\ th[w].obj = th[u].obj => w = u
        BY <3>1, Zenon DEF PInv, RecordInv
      <3>3. th[u].obj # th[t].obj
        BY <1>5, <3>1, Zenon
      <3>4. \A w \in Thread : th'[w].st = "publish" => th'[w] = th[w]
        BY <1>7, <2>1, Zenon
      <3>5. th[u].obj \notin closed' /\ th[u].obj <= nobj' /\ \A r \in reg' : r.obj # th[u].obj
        BY <1>1, <2>1, <3>2, <3>3, Zenon
      <3>6. \A w \in Thread : th'[w].st = "publish" /\ th'[w].obj = th[u].obj => w = u
        BY <3>2, <3>4, Zenon
      <3> QED  BY <3>1, <3>5, <3>6, Zenon
    <2>6. \A o \in closed' : o <= nobj'
      BY <1>1, <1>5, <2>1, Zenon DEF PInv, RecordInv
    <2>7. \A r, s \in reg' : (r.id = s.id \/ r.obj = s.obj) => r = s
      BY <2>1, Zenon DEF PInv, RecordInv
    <2>8. RecordInv'
      BY <2>4, <2>5, <2>6, <2>7, Zenon DEF RecordInv
    <2>9. reg \subseteq reg' /\ \E r \in reg' : r.id = m /\ r.obj = r0.obj
      BY <2>1, <2>2, Zenon
    <2> QED  BY <1>6, <2>1, <2>8, <2>9, Zenon
  <1> QED  BY <1>8, <1>9, Zenon

(* A target built from a record and a binding told by the source.          *)
LEMMA GroundedTarget ==
  ASSUME TypeOK, NEW b \in said, NEW obj, NEW ne, Recorded(b.mm, obj)
  PROVE  Grounded(b.ctx, TargetOf(b, obj, ne))
  <1>1. /\ TargetOf(b, obj, ne).ctx = b.ctx /\ TargetOf(b, obj, ne).mm = b.mm
        /\ TargetOf(b, obj, ne).se = b.epoch /\ TargetOf(b, obj, ne).obj = obj
    BY DEF TargetOf
  <1>2. b = [ctx |-> b.ctx, mm |-> b.mm, epoch |-> b.epoch]
    BY Shapes, Zenon
  <1> QED  BY <1>1, <1>2, Zenon DEF Grounded

(* A callback's binding gets a target in the history; nothing else.        *)
LEMMA ObserveKeeps ==
  ASSUME TypeOK, PInv, NEW t \in Thread, execution_target_observe(t)
  PROVE  PInv'
  <1> DEFINE b == th[t].b
             c == th[t].b.ctx
             x == Observed(b, th[t].obj)
  <1>1. /\ th[t].st = "observe" /\ over = "no" /\ over' = over /\ ThreadOK(t)
        /\ UNCHANGED <<src, said, reg, nobj, closed, nat, bind, cur, pub, wr>>
    BY Zenon DEF execution_target_observe, At, PInv, ThreadInv
  <1>2. /\ th[t].st # "idle" /\ th[t].st \in Named /\ over' # "broken"
        /\ th[t].st \in {"birth", "observe", "image", "drain", "replace"}
        /\ th[t].st \in {"birth", "observe", "image"}
    BY <1>1 DEF Named
  <1>3. (t \in Ctx => t \in Live) /\ b \in said /\ Recorded(b.mm, th[t].obj) /\ th[t].op = "observe"
    BY <1>1, <1>2, BusyLive, Zenon DEF PInv, ThreadOK
  <1>4. ~Imaging(t)
    BY <1>3 DEF Imaging
  <1>5. CASE ~Agrees(b, th[t].obj)
    <2>1. th' = [th EXCEPT ![t] = Idle] /\ UNCHANGED hist
      BY <1>5, Zenon DEF execution_target_observe
    <2>2. th'[t].st \in {"idle", "have", "control"} /\ \A u \in Thread : u # t => th'[u] = th[u]
      BY <2>1, ThreadSet, IdleFields, Zenon
    <2>3. ThreadOK(t)' /\ ~Imaging(t)' /\ th'[t].st # "publish"
      BY <2>2, Rest, Zenon
    <2>4. NativeInv'
      BY <1>1, NativeFrame, Zenon DEF PInv
    <2> QED  BY <1>1, <1>2, <1>3, <1>4, <2>1, <2>2, <2>3, <2>4, PubStays, PlainKeeps, Zenon
  <1>6. CASE Agrees(b, th[t].obj)
    <2>1. /\ hist' = [hist EXCEPT ![c] = @ \cup {x}]
          /\ th' = [th EXCEPT ![t].st = "have", ![t].tgt = x]
      BY <1>6, Zenon DEF execution_target_observe
    <2>2. th'[t].st = "have" /\ \A u \in Thread : u # t => th'[u] = th[u]
      <3>1. th[t] \in ThreadRecord
        BY Shapes, Zenon
      <3>2. /\ th'[t] = [[th[t] EXCEPT !.st = "have"] EXCEPT !.tgt = x]
            /\ \A u \in Thread : u # t => th'[u] = th[u]
        BY <2>1, Shapes, ZenonT(30)
      <3>3. th'[t].st = "have"
        BY <3>1, <3>2 DEF ThreadRecord
      <3> QED  BY <3>2, <3>3, Zenon
    <2>3. ThreadOK(t)' /\ ~Imaging(t)' /\ th'[t].st # "publish"
      BY <2>2, Rest
    <2>4. c \in Ctx /\ hist'[c] = hist[c] \cup {x} /\ \A d \in Ctx : d # c => hist'[d] = hist[d]
      <3>1. hist \in [Ctx -> SUBSET Target]
        BY DEF TypeOK
      <3>2. c \in Ctx
        BY Shapes, Zenon
      <3> QED  BY <2>1, <3>1, <3>2, Zenon
    <2>5. Grounded(c, x)
      <3>1. CASE Entries(b) = {}
        BY <1>3, <3>1, GroundedTarget, Zenon DEF Observed
      <3>2. CASE Entries(b) # {}
        <4>1. x \in Entries(b)
          BY <3>2, Zenon DEF Observed, execution_target_find_locked
        <4>2. x \in hist[c]
          BY <4>1, Zenon DEF Entries
        <4> QED  BY <2>4, <4>2, Zenon DEF PInv, TargetInv
      <3> QED  BY <3>1, <3>2, Zenon
    <2>6. Live' = Live
      BY <1>1, Zenon DEF Live
    <2>7. reg \subseteq reg' /\ said \subseteq said' /\ src' = src /\ pub' = pub
      BY <1>1, Zenon
    <2>8. TargetInv'
      <3>1. \A d \in Ctx : \A y \in hist'[d] : Grounded(d, y)
        <4>1. \A y \in hist'[c] : y = x \/ y \in hist[c]
          BY <2>4, Zenon
        <4>2. \A d \in Ctx : \A y \in hist[d] : Grounded(d, y)
          BY Zenon DEF PInv, TargetInv
        <4>3. \A y \in hist'[c] : Grounded(c, y)
          BY <2>4, <2>5, <4>1, <4>2, Zenon
        <4> QED  BY <2>4, <4>2, <4>3, Zenon
      <3>2. \A d \in Ctx : \A y \in hist'[d] : Grounded(d, y)'
        BY <2>7, <3>1, GroundStays, Zenon
      <3>3. \A d \in Live' : /\ cur'[d] \in hist'[d]
                             /\ bind'[d] = [obj |-> cur'[d].obj, epoch |-> cur'[d].ne]
        <4>1. \A d \in Live : d \in Ctx
          BY Zenon DEF Live
        <4> QED  BY <1>1, <2>4, <2>6, <4>1, Zenon DEF PInv, TargetInv
      <3>4. ASSUME NEW d \in Live'
            PROVE  src'[d].epoch = IF Imaging(d)' THEN cur'[d].se + 1 ELSE cur'[d].se
        <4>1. d \in Live /\ d \in Thread
          BY <2>6, Shapes, Zenon DEF Live
        <4>2. Imaging(d)' <=> Imaging(d)
          BY <1>4, <2>2, <2>3, <4>1, Zenon DEF Imaging
        <4> QED  BY <1>1, <4>1, <4>2, Zenon DEF PInv, TargetInv
      <3> QED  BY <3>2, <3>3, <3>4, Zenon DEF TargetInv
    <2>9. ThreadInv'
      BY <2>2, <2>3, <2>7, PubStays, ThreadFrame, Zenon DEF PInv
    <2>10. SourceInv'
      BY <1>1, <1>3, <2>2, <2>6, SourceFrame, Zenon DEF PInv
    <2>11. RecordInv'
      BY <1>1, <2>2, <2>3, RecordFrame, Zenon DEF PInv
    <2>12. NativeInv'
      BY <1>1, NativeFrame, Zenon DEF PInv
    <2> QED  BY <1>2, <2>8, <2>9, <2>10, <2>11, <2>12, StopFrame, Zenon DEF PInv
  <1> QED  BY <1>5, <1>6, Zenon

(* A new target becomes the current one: the context executes what the     *)
(* source has for it, and everybody else goes on.                          *)
LEMMA InstallTarget ==
  ASSUME TypeOK, PInv, NEW t \in Thread, NEW c \in Ctx, NEW x, NEW h, over = "no", over' = "no",
         UNCHANGED <<src, said, reg>>, \A u \in Thread : u # t => th'[u] = th[u],
         th'[t].st = "idle", th'[c].st = "idle", \A u \in Ctx : u # c /\ u = t => ~Imaging(u),
         cur' = [cur EXCEPT ![c] = x], hist' = [hist EXCEPT ![c] = h], x \in h,
         h \subseteq hist[c] \cup {x}, Grounded(c, x), x.se = src[c].epoch,
         bind' = [bind EXCEPT ![c] = [obj |-> x.obj, epoch |-> x.ne]]
  PROVE  TargetInv'
  <1>1. /\ cur'[c] = x /\ hist'[c] = h /\ bind'[c] = [obj |-> x.obj, epoch |-> x.ne]
        /\ \A d \in Ctx : d # c => cur'[d] = cur[d] /\ hist'[d] = hist[d] /\ bind'[d] = bind[d]
    <2>1. /\ cur \in [Ctx -> Target] /\ hist \in [Ctx -> SUBSET Target]
          /\ bind \in [Ctx -> [obj : Nat, epoch : Nat]]
      BY DEF TypeOK
    <2> QED  BY <2>1, Zenon
  <1>2. \A d \in Live' : d \in Ctx /\ (d # c => d \in Live)
    BY <1>1, Zenon DEF Live
  <1>3. \A d \in Ctx : \A y \in hist'[d] : Grounded(d, y)
    <2>1. \A y \in hist'[c] : y = x \/ y \in hist[c]
      BY <1>1, Zenon
    <2>2. \A d \in Ctx : \A y \in hist[d] : Grounded(d, y)
      BY Zenon DEF PInv, TargetInv
    <2>3. \A y \in hist'[c] : Grounded(c, y)
      BY <2>1, <2>2, Zenon
    <2> QED  BY <1>1, <2>2, <2>3, Zenon
  <1>4. reg \subseteq reg' /\ said \subseteq said'
    BY Zenon
  <1>5. \A d \in Ctx : \A y \in hist'[d] : Grounded(d, y)'
    BY <1>3, <1>4, GroundStays, Zenon
  <1>6. \A d \in Live' : /\ cur'[d] \in hist'[d]
                         /\ bind'[d] = [obj |-> cur'[d].obj, epoch |-> cur'[d].ne]
    <2>1. \A d \in Live : cur[d] \in hist[d] /\ bind[d] = [obj |-> cur[d].obj, epoch |-> cur[d].ne]
      BY Zenon DEF PInv, TargetInv
    <2> QED  BY <1>1, <1>2, <2>1, Zenon
  <1>7. ASSUME NEW d \in Live'
        PROVE  src'[d].epoch = IF Imaging(d)' THEN cur'[d].se + 1 ELSE cur'[d].se
    <2>0. \A u : th'[u].st = "idle" => ~Imaging(u)'
      BY DEF Imaging, Named
    <2>1. CASE d = c
      BY <1>1, <2>0, <2>1, Zenon
    <2>2. CASE d # c
      <3>1. d \in Live /\ d \in Ctx /\ d \in Thread
        BY <1>2, <2>2, Shapes, Zenon
      <3>2. Imaging(d)' <=> Imaging(d)
        <4>1. CASE d = t
          BY <2>0, <2>2, <3>1, <4>1, Zenon
        <4>2. CASE d # t
          BY <3>1, <4>2, Zenon DEF Imaging
        <4> QED  BY <4>1, <4>2, Zenon
      <3>3. src[d].epoch = IF Imaging(d) THEN cur[d].se + 1 ELSE cur[d].se
        BY <3>1, Zenon DEF PInv, TargetInv
      <3>4. src'[d] = src[d] /\ cur'[d] = cur[d]
        BY <1>1, <2>2, <3>1, Zenon
      <3> QED  BY <3>2, <3>3, <3>4, Zenon
    <2> QED  BY <2>1, <2>2, Zenon
  <1> QED  BY <1>5, <1>6, <1>7, Zenon DEF TargetInv

(* A birth: the context enters the table with the first binding the source *)
(* issued for it, or the table is full and the program stops.              *)
LEMMA RegisterKeeps ==
  ASSUME TypeOK, PInv, NEW t \in Thread, ctx_register(t)
  PROVE  PInv'
  <1> DEFINE b == th[t].b
             c == th[t].b.ctx
             x == TargetOf(b, th[t].obj, 1)
  <1>1. /\ th[t].st = "birth" /\ over = "no" /\ ThreadOK(t)
        /\ UNCHANGED <<src, said, reg, nobj, closed, pub, wr>> /\ th' = [th EXCEPT ![t] = Idle]
    BY Zenon DEF ctx_register, At, PInv, ThreadInv
  <1>2. /\ th[t].st # "idle" /\ th[t].st \in Named
        /\ th[t].st \in {"birth", "observe", "image", "drain", "replace"}
        /\ th[t].st \in {"birth", "observe", "image"}
    BY <1>1 DEF Named
  <1>3. (t \in Ctx => t \in Live) /\ b \in said /\ Recorded(b.mm, th[t].obj) /\ th[t].op = "birth"
    BY <1>1, <1>2, BusyLive, Zenon DEF PInv, ThreadOK
  <1>4. ~Imaging(t) /\ c \in Ctx
    BY <1>3, Shapes DEF Imaging
  <1>5. th'[t].st \in {"idle", "have", "control"} /\ \A u \in Thread : u # t => th'[u] = th[u]
    BY <1>1, ThreadSet, IdleFields, Zenon
  <1>6. ThreadOK(t)' /\ ~Imaging(t)' /\ th'[t].st # "publish"
    BY <1>5, Rest, Zenon
  <1>7. reg \subseteq reg' /\ said \subseteq said' /\ src' = src /\ pub' = pub
    BY <1>1, Zenon
  <1>8. ThreadInv'
    BY <1>5, <1>6, <1>7, PubStays, ThreadFrame, Zenon DEF PInv
  <1>9. RecordInv'
    BY <1>1, <1>5, <1>6, RecordFrame, Zenon DEF PInv
  <1>10. CASE /\ Cardinality(Live) >= MaxCtx /\ over' = "broken"
              /\ UNCHANGED <<nat, bind, cur, hist>>
    <2>1. over' # "no"
      BY <1>10
    <2>2. TargetInv' /\ Live' = Live
      BY <1>1, <1>5, <1>7, <1>10, <2>1, TargetFrame, Zenon DEF PInv
    <2>3. SourceInv'
      BY <1>1, <1>3, <1>5, <2>2, SourceFrame, Zenon DEF PInv
    <2>4. NativeInv'
      BY <1>1, <1>10, NativeFrame, Zenon DEF PInv
    <2>5. StopsWithCause'
      BY <1>10, <2>2, Zenon DEF StopsWithCause
    <2> QED  BY <1>8, <1>9, <2>2, <2>3, <2>4, <2>5, Zenon DEF PInv
  <1>11. CASE /\ c \notin Live /\ over' = over
              /\ nat' = [nat EXCEPT ![c] = [obj |-> th[t].obj, epoch |-> 1, dead |-> FALSE]]
              /\ bind' = [bind EXCEPT ![c] = [obj |-> th[t].obj, epoch |-> 1]]
              /\ cur' = [cur EXCEPT ![c] = x] /\ hist' = [hist EXCEPT ![c] = {x}]
    <2>1. x.se = b.epoch /\ x.obj = th[t].obj /\ x.ne = 1
      BY DEF TargetOf
    <2>2. Grounded(c, x)
      BY <1>3, GroundedTarget, Zenon
    <2>3. b.epoch = src[c].epoch
      <3>1. 0 < b.epoch /\ b.epoch <= src[c].epoch /\ src[c].epoch <= 1
        BY <1>3, <1>4, <1>11, Zenon DEF PInv, SourceInv
      <3>2. b.epoch \in Nat /\ src[c].epoch \in Nat
        BY <1>4, Shapes, Zenon
      <3> QED  BY <3>1, <3>2
    <2>4. c \in Thread /\ th[c].st = "idle" /\ c # t
      BY <1>2, <1>4, <1>11, Shapes, Zenon DEF PInv, SourceInv
    <2>5. th'[c].st = "idle" /\ th'[t].st = "idle"
      BY <1>1, <1>5, <2>4, ThreadSet, IdleFields, Zenon
    <2>6. /\ x \in {x} /\ {x} \subseteq hist[c] \cup {x} /\ over' = "no"
          /\ bind' = [bind EXCEPT ![c] = [obj |-> x.obj, epoch |-> x.ne]]
      BY <1>1, <1>11, <2>1, Zenon
    <2>7. x.se = src[c].epoch /\ \A u \in Ctx : u # c /\ u = t => ~Imaging(u)
      BY <1>4, <2>1, <2>3, Zenon
    <2>8. TargetInv'
      BY <1>1, <1>4, <1>5, <1>6, <1>11, <2>2, <2>5, <2>6, <2>7, InstallTarget, Zenon
    <2>9. /\ nat'[c].obj = bind'[c].obj /\ nat'[c].epoch = bind'[c].epoch /\ bind'[c].epoch = 1
          /\ \A d \in Ctx : d # c => nat'[d] = nat[d] /\ bind'[d] = bind[d]
      <3>1. /\ nat \in [Ctx -> [obj : Nat, epoch : Nat, dead : BOOLEAN]]
            /\ bind \in [Ctx -> [obj : Nat, epoch : Nat]]
        BY DEF TypeOK
      <3>2. /\ nat'[c] = [obj |-> th[t].obj, epoch |-> 1, dead |-> FALSE]
            /\ bind'[c] = [obj |-> th[t].obj, epoch |-> 1]
            /\ \A d \in Ctx : d # c => nat'[d] = nat[d] /\ bind'[d] = bind[d]
        BY <1>4, <1>11, <3>1, Zenon
      <3> QED  BY <3>2
    <2>10. NativeInv'
      BY <1>1, <2>9, Zenon DEF PInv, NativeInv
    <2>11. Live \subseteq Live'
      BY <1>11, <2>9, Zenon DEF Live
    <2>12. SourceInv'
      BY <1>1, <1>3, <1>5, <2>11, SourceFrame, Zenon DEF PInv
    <2>13. over' # "broken"
      BY <2>6
    <2> QED  BY <1>8, <1>9, <2>8, <2>10, <2>12, <2>13, StopFrame, Zenon DEF PInv
  <1> QED
    BY <1>10, <1>11, Zenon DEF ctx_register, linux_execution_object_verify, execution_context_binding_init

(* The native context has the new image and the monitor knows, or its      *)
(* answer was lost.                                                        *)
LEMMA ReplacedKeeps ==
  ASSUME IInv, PInv, NEW t \in Thread, ObjectReplaced(t)
  PROVE  PInv'
  <1> DEFINE b == th[t].b
             c == th[t].b.ctx
             ne == bind[c].epoch + 1
             x == TargetOf(b, th[t].obj, ne)
  <1>1. /\ At(t, "replace") /\ th[t].st = "replace" /\ over = "no" /\ ThreadOK(t) /\ TypeOK
        /\ UNCHANGED <<src, said, reg, nobj, closed>>
        /\ nat' = [nat EXCEPT ![c] = [obj |-> th[t].obj, epoch |-> ne, dead |-> FALSE]]
    BY Zenon DEF ObjectReplaced, At, PInv, ThreadInv, IInv
  <1>2. /\ th[t].st # "idle" /\ th[t].st \in Named /\ th[t].st \in {"drain", "replace"}
        /\ th[t].st \in {"birth", "observe", "image", "drain", "replace"}
    BY <1>1 DEF Named
  <1>3. Imaging(t) /\ Recorded(b.mm, th[t].obj)
    BY <1>1, <1>2, Zenon DEF ThreadOK, Imaging
  <1>4. t \in Ctx /\ t \in Live /\ b = src[t] /\ c = t /\ b \in said
    BY <1>1, <1>3, OwnImage, Zenon
  <1>5. /\ nat'[c] = [obj |-> th[t].obj, epoch |-> ne, dead |-> FALSE]
        /\ \A d \in Ctx : d # c => nat'[d] = nat[d]
    <2>1. nat \in [Ctx -> [obj : Nat, epoch : Nat, dead : BOOLEAN]]
      BY <1>1 DEF TypeOK
    <2> QED  BY <1>1, <1>4, <2>1, Zenon
  <1>6. CASE ResultLost(t) /\ UNCHANGED <<bind, cur, hist>>
    BY <1>1, <1>5, <1>6, RetryKeeps, Zenon DEF ResultLost
  <1>7. CASE /\ bind' = [bind EXCEPT ![c] = [obj |-> th[t].obj, epoch |-> ne]]
             /\ cur' = [cur EXCEPT ![c] = x] /\ hist' = [hist EXCEPT ![c] = @ \cup {x}]
             /\ Unlock(t) /\ Installed(t, x)
    <2>1. x.se = b.epoch /\ x.obj = th[t].obj /\ x.ne = ne
      BY DEF TargetOf
    <2>2. ne # 0
      <3>1. bind[c].epoch \in Nat
        BY <1>1, <1>4, Shapes, Zenon
      <3> QED  BY <3>1
    <2>3. cur'[c] = x
      <3>1. cur \in [Ctx -> Target]
        BY <1>1 DEF TypeOK
      <3> QED  BY <1>4, <1>7, <3>1, Zenon
    <2>4. over' = "no" /\ th' = [th EXCEPT ![t] = Idle]
      BY <1>1, <1>7, <2>1, <2>2, <2>3, Zenon DEF Installed
    <2>5. th'[t].st \in {"idle", "have", "control"} /\ \A u \in Thread : u # t => th'[u] = th[u]
      BY <1>1, <2>4, ThreadSet, IdleFields, Zenon
    <2>6. ThreadOK(t)' /\ th'[t].st # "publish" /\ th'[t].st = "idle" /\ th'[c].st = "idle"
      <3>1. ThreadOK(t)' /\ th'[t].st # "publish"
        BY <2>5, Rest, Zenon
      <3>2. th'[t].st = "idle"
        BY <1>1, <2>4, ThreadSet, IdleFields, Zenon
      <3> QED  BY <1>4, <3>1, <3>2, Zenon
    <2>7. /\ x \in hist[c] \cup {x} /\ hist[c] \cup {x} \subseteq hist[c] \cup {x}
          /\ hist' = [hist EXCEPT ![c] = hist[c] \cup {x}]
          /\ bind' = [bind EXCEPT ![c] = [obj |-> x.obj, epoch |-> x.ne]]
      BY <1>7, <2>1, Zenon
    <2>8. x.se = src[c].epoch /\ Grounded(c, x) /\ \A u \in Ctx : u # c /\ u = t => ~Imaging(u)
      <3>1. Grounded(c, x)
        BY <1>1, <1>3, <1>4, GroundedTarget, Zenon
      <3> QED  BY <1>4, <2>1, <3>1, Zenon
    <2>9. TargetInv'
      <3>1. TypeOK /\ over = "no" /\ UNCHANGED <<src, said, reg>> /\ c \in Ctx
            /\ cur' = [cur EXCEPT ![c] = x]
        BY <1>1, <1>4, <1>7, Zenon
      <3>2. over' = "no" /\ \A u \in Thread : u # t => th'[u] = th[u]
        BY <2>4, <2>5, Zenon
      <3> QED  BY <2>6, <2>7, <2>8, <3>1, <3>2, InstallTarget, Zenon
    <2>10. /\ bind'[c] = [obj |-> th[t].obj, epoch |-> ne]
           /\ \A d \in Ctx : d # c => bind'[d] = bind[d]
      <3>1. bind \in [Ctx -> [obj : Nat, epoch : Nat]]
        BY <1>1 DEF TypeOK
      <3> QED  BY <1>4, <1>7, <3>1, Zenon
    <2>11. nat'[c].obj = bind'[c].obj /\ nat'[c].epoch = bind'[c].epoch /\ bind'[c].epoch > 0
      <3>1. nat'[c].obj = bind'[c].obj /\ nat'[c].epoch = bind'[c].epoch /\ bind'[c].epoch = ne
        BY <1>5, <2>10
      <3>2. ne > 0
        <4>1. bind[c].epoch \in Nat
          BY <1>1, <1>4, Shapes, Zenon
        <4> QED  BY <4>1
      <3> QED  BY <3>1, <3>2, Zenon
    <2>12. NativeInv'
      <3>1. \A d \in Ctx : d # c => wr'[d] = wr[d]
        BY <1>1, <1>7, UnlockSet, Zenon
      <3> QED  BY <1>5, <2>10, <2>11, <3>1, Zenon DEF PInv, NativeInv
    <2>13. Live \subseteq Live'
      BY <2>10, <2>11, Zenon DEF Live
    <2>14. SourceInv'
      BY <1>1, <1>4, <2>5, <2>13, SourceFrame, Zenon DEF PInv
    <2>15. RecordInv'
      BY <1>1, <2>5, <2>6, RecordFrame, Zenon DEF PInv
    <2>16. ThreadInv'
      <3>1. reg \subseteq reg' /\ said \subseteq said' /\ src' = src
        BY <1>1, Zenon
      <3>2. \A u \in Thread : u # t /\ th[u].st \in {"drain", "replace"} => pub'[th[u].b.ctx] = u
        BY <1>1, <1>7, UnlockOthers, Zenon
      <3> QED  BY <2>5, <2>6, <3>1, <3>2, ThreadFrame, Zenon DEF PInv
    <2>17. over' # "broken"
      BY <2>4
    <2> QED  BY <2>9, <2>12, <2>14, <2>15, <2>16, <2>17, StopFrame, Zenon DEF PInv
  <1> QED  BY <1>6, <1>7, Zenon DEF ObjectReplaced

(* A forwarded call by which the source issues a binding: newer than all   *)
(* of its context and in memory none of them had.                          *)
LEMMA IssueKeeps ==
  ASSUME TypeOK, PInv, NEW c \in Ctx, c \in Live, NEW b \in Binding, NEW op \in {"image", "birth"},
         over = "no", over' = over, th[c].st = "idle",
         UNCHANGED <<reg, nobj, closed, nat, bind, cur, hist, pub, wr>>,
         src' = [src EXCEPT ![b.ctx] = b], said' = said \cup {b},
         th' = [th EXCEPT ![c] = [Idle EXCEPT !.st = "resolve", !.op = op, !.b = b]],
         b.epoch = src[b.ctx].epoch + 1, Known(b.mm),
         \A d \in said : d.ctx = b.ctx => d.mm # b.mm,
         op = "image" => b.ctx = c,
         op = "birth" => b.ctx \notin Live /\ src[b.ctx].epoch = 0
  PROVE  PInv'
  <1>1. /\ th'[c].st = "resolve" /\ th'[c].op = op /\ th'[c].b = b
        /\ \A u \in Thread : u # c => th'[u] = th[u]
    <2>1. /\ [Idle EXCEPT !.st = "resolve", !.op = op, !.b = b].st = "resolve"
          /\ [Idle EXCEPT !.st = "resolve", !.op = op, !.b = b].op = op
          /\ [Idle EXCEPT !.st = "resolve", !.op = op, !.b = b].b = b
      BY DEF Idle
    <2>2. c \in Thread
      BY Shapes, Zenon
    <2> QED  BY <2>1, <2>2, ThreadSet, Zenon
  <1>2. b.ctx \in Ctx /\ b.epoch \in Nat /\ c \in Thread
    BY Shapes DEF Binding
  <1>3. src'[b.ctx] = b /\ \A d \in Ctx : d # b.ctx => src'[d] = src[d]
    <2>1. src \in [Ctx -> Binding]
      BY DEF TypeOK
    <2> QED  BY <1>2, <2>1, Zenon
  <1>4. Live' = Live /\ reg \subseteq reg' /\ said \subseteq said' /\ b \in said'
    BY Zenon DEF Live
  <1>5. ~Imaging(c) /\ th'[c].st \in Named /\ (Imaging(c)' <=> op = "image")
    <2>1. ~Imaging(c)
      BY DEF Imaging, Named
    <2>2. th'[c].st \in Named
      BY <1>1 DEF Named
    <2> QED  BY <1>1, <2>1, <2>2, Zenon DEF Imaging
  <1>6. \A u \in Thread : u # c /\ Imaging(u) => u \in Live /\ u \in Ctx /\ u # b.ctx
    <2>1. \A u \in Thread : Imaging(u) => u \in Live /\ u \in Ctx
      BY OwnImage, Zenon
    <2>2. b.ctx = c \/ b.ctx \notin Live
      BY Zenon
    <2> QED  BY <2>1, <2>2, Zenon
  <1>7. ThreadOK(c)'
    <2>1. /\ th'[c].st \notin {"birth", "observe", "image", "drain", "replace"}
          /\ th'[c].st \notin {"birth", "observe", "image"} /\ th'[c].st \notin {"drain", "replace"}
          /\ th'[c].op # "observe"
      BY <1>1
    <2>2. Known(b.mm)'
      BY <1>4, KnownStays, Zenon
    <2>3. th'[c].op = "image" => th'[c].b = src'[c]
      BY <1>1, <1>3, Zenon
    <2>4. th'[c].b.mm = b.mm /\ th'[c].b \in said'
      BY <1>1, <1>4, Zenon
    <2>5. Parent[th'[c].b.mm] = NoMM \/ Records(Parent[b.mm])' # {}
      BY <2>2, <2>4, Zenon DEF Known
    <2> QED  BY <2>1, <2>3, <2>4, <2>5, Zenon DEF ThreadOK, Known
  <1>8. ThreadInv'
    <2>1. \A u \in Thread : u # c /\ Imaging(u) => src'[u] = src[u]
      BY <1>3, <1>6, Zenon
    <2>2. pub' = pub
      BY Zenon
    <2> QED  BY <1>1, <1>2, <1>4, <1>7, <2>1, <2>2, PubStays, ThreadFrame, Zenon DEF PInv
  <1>9. RecordInv'
    <2>1. th'[c].st # "publish"
      BY <1>1
    <2> QED  BY <1>1, <1>2, <2>1, RecordFrame, Zenon DEF PInv
  <1>10. NativeInv'
    BY NativeFrame, Zenon DEF PInv
  <1>11. over' # "broken"
    BY Zenon
  <1>12. TargetInv'
    <2>1. \A d \in Ctx : \A y \in hist'[d] : Grounded(d, y)'
      BY <1>4, GroundStays, Zenon DEF PInv, TargetInv
    <2>2. \A d \in Live' : /\ cur'[d] \in hist'[d]
                           /\ bind'[d] = [obj |-> cur'[d].obj, epoch |-> cur'[d].ne]
      BY <1>4, Zenon DEF PInv, TargetInv
    <2>3. ASSUME NEW d \in Live'
          PROVE  src'[d].epoch = IF Imaging(d)' THEN cur'[d].se + 1 ELSE cur'[d].se
      <3>1. d \in Live /\ d \in Thread /\ d \in Ctx
        BY <1>4, Shapes, Zenon DEF Live
      <3>2. src[d].epoch = IF Imaging(d) THEN cur[d].se + 1 ELSE cur[d].se
        BY <3>1, Zenon DEF PInv, TargetInv
      <3>3. CASE d = c /\ op = "image"
        <4>1. src[c].epoch = cur[c].se /\ Imaging(c)' /\ src'[c].epoch = src[c].epoch + 1
          BY <1>3, <1>5, <3>2, <3>3, Zenon
        <4>2. src'[c].epoch = cur'[c].se + 1
          BY <4>1, Zenon
        <4> QED  BY <3>3, <4>1, <4>2, Zenon
      <3>4. CASE d = c /\ op # "image"
        <4>1. src'[c] = src[c] /\ ~Imaging(c)'
          BY <1>3, <1>5, <3>4, Zenon
        <4> QED  BY <1>5, <3>2, <3>4, <4>1, Zenon
      <3>5. CASE d # c
        <4>1. src'[d] = src[d]
          BY <1>3, <3>1, <3>5, Zenon
        <4>2. Imaging(d)' <=> Imaging(d)
          BY <1>1, <3>1, <3>5, Zenon DEF Imaging
        <4> QED  BY <3>2, <4>1, <4>2, Zenon
      <3> QED  BY <3>3, <3>4, <3>5, Zenon
    <2> QED  BY <2>1, <2>2, <2>3, Zenon DEF TargetInv
  <1>13. SourceInv'
    <2>1. /\ src[b.ctx].epoch \in Nat /\ 0 < b.epoch /\ b.epoch <= b.epoch
          /\ \A n \in Nat : n <= src[b.ctx].epoch => n <= b.epoch /\ n # b.epoch
      <3>1. src[b.ctx].epoch \in Nat
        BY <1>2, Shapes, Zenon
      <3> QED  BY <1>2, <3>1
    <2>2. \A d \in said : /\ d.ctx \in Ctx /\ d.epoch \in Nat
                          /\ 0 < d.epoch /\ d.epoch <= src[d.ctx].epoch
      BY Shapes, Zenon DEF PInv, SourceInv
    <2>3. \A d \in said : d.ctx = b.ctx => d.epoch # b.epoch /\ d.mm # b.mm
      BY <2>1, <2>2, Zenon
    <2>4. \A d \in said' : 0 < d.epoch /\ d.epoch <= src'[d.ctx].epoch
      <3>1. \A d \in said : d.epoch <= src'[d.ctx].epoch
        <4> SUFFICES ASSUME NEW d \in said PROVE d.epoch <= src'[d.ctx].epoch
          BY Zenon
        <4>1. CASE d.ctx = b.ctx
          <5>1. d.epoch <= src[b.ctx].epoch /\ d.epoch \in Nat
            BY <2>2, <4>1, Zenon
          <5>2. d.epoch <= b.epoch /\ src'[d.ctx] = b
            BY <1>3, <2>1, <4>1, <5>1, Zenon
          <5> QED  BY <5>2, Zenon
        <4>2. CASE d.ctx # b.ctx
          BY <1>3, <2>2, <4>2, Zenon
        <4> QED  BY <4>1, <4>2, Zenon
      <3>2. src'[b.ctx].epoch = b.epoch
        BY <1>3, Zenon
      <3> QED  BY <2>1, <2>2, <3>1, <3>2, Zenon
    <2>5. \A d, e \in said' : d.ctx = e.ctx /\ (d.mm = e.mm \/ d.epoch = e.epoch) => d = e
      <3> SUFFICES ASSUME NEW d \in said', NEW e \in said', d.ctx = e.ctx,
                          d.mm = e.mm \/ d.epoch = e.epoch
                   PROVE  d = e
        BY Zenon
      <3>1. CASE d \in said /\ e \in said
        BY <3>1, Zenon DEF PInv, SourceInv
      <3>2. CASE d = b /\ e \in said
        BY <2>3, <3>2, Zenon
      <3>3. CASE d \in said /\ e = b
        BY <2>3, <3>3, Zenon
      <3> QED  BY <3>1, <3>2, <3>3, Zenon
    <2>6. \A d \in Ctx : src'[d].ctx = d /\ (src'[d].epoch > 0 => src'[d] \in said')
      <3> SUFFICES ASSUME NEW d \in Ctx
                   PROVE  src'[d].ctx = d /\ (src'[d].epoch > 0 => src'[d] \in said')
        BY Zenon
      <3>1. CASE d = b.ctx
        <4>1. src'[d] = b
          BY <1>3, <3>1, Zenon
        <4> QED  BY <1>4, <3>1, <4>1, Zenon
      <3>2. CASE d # b.ctx
        <4>1. src'[d] = src[d] /\ src[d].ctx = d /\ (src[d].epoch > 0 => src[d] \in said)
          BY <1>3, <3>2, Zenon DEF PInv, SourceInv
        <4> QED  BY <1>4, <4>1
      <3> QED  BY <3>1, <3>2, Zenon
    <2>7. \A d \in Ctx : d \notin Live' => src'[d].epoch <= 1 /\ th'[d].st = "idle"
      <3> SUFFICES ASSUME NEW d \in Ctx, d \notin Live'
                   PROVE  src'[d].epoch <= 1 /\ th'[d].st = "idle"
        BY Zenon
      <3>1. d \notin Live /\ d # c /\ d \in Thread
        BY <1>4, Shapes, Zenon
      <3>2. src[d].epoch <= 1 /\ th'[d].st = "idle"
        BY <1>1, <3>1, Zenon DEF PInv, SourceInv
      <3>3. CASE d = b.ctx
        <4>1. op = "birth"
          BY <3>1, <3>3
        <4>2. b.epoch = 0 + 1 /\ src'[d] = b
          BY <1>3, <3>3, <4>1, Zenon
        <4> QED  BY <3>2, <4>2
      <3>4. CASE d # b.ctx
        BY <1>3, <3>2, <3>4, Zenon
      <3> QED  BY <3>3, <3>4, Zenon
    <2> QED  BY <2>4, <2>5, <2>6, <2>7, Zenon DEF SourceInv
  <1> QED  BY <1>8, <1>9, <1>10, <1>11, <1>12, <1>13, StopFrame, Zenon DEF PInv

(* An exec issues the next binding of its own context.                     *)
LEMMA ExecKeeps ==
  ASSUME TypeOK, PInv, NEW c \in Ctx, NEW m \in MM, SourceExec(c, m)
  PROVE  PInv'
  <1> DEFINE b == [ctx |-> c, mm |-> m, epoch |-> src[c].epoch + 1]
  <1>1. /\ c \in Live /\ Fresh(m) /\ Parent[m] = NoMM /\ over = "no" /\ over' = over
        /\ th[c].st = "idle" /\ UNCHANGED <<reg, nobj, closed, nat, bind, cur, hist, pub, wr>>
        /\ src' = [src EXCEPT ![b.ctx] = b] /\ said' = said \cup {b}
        /\ th' = [th EXCEPT ![c] = [Idle EXCEPT !.st = "resolve", !.op = "image", !.b = b]]
    BY Zenon DEF SourceExec, Start, At
  <1>2. b \in Binding /\ b.ctx = c /\ b.mm = m /\ b.epoch = src[c].epoch + 1
    <2>1. src[c].epoch \in Nat
      BY Shapes, Zenon
    <2> QED  BY <2>1 DEF Binding
  <1>3. Known(b.mm) /\ b.epoch = src[b.ctx].epoch + 1 /\ \A d \in said : d.ctx = b.ctx => d.mm # b.mm
    BY <1>1, <1>2, Zenon DEF Known, Fresh
  <1>4. "image" \in {"image", "birth"} /\ ("image" = "image" => b.ctx = c)
        /\ ("image" = "birth" => b.ctx \notin Live /\ src[b.ctx].epoch = 0)
    BY <1>2
  <1>5. b \in Binding
    BY <1>2, Zenon
  <1> HIDE DEF b
  <1> QED  BY <1>1, <1>3, <1>4, <1>5, IssueKeeps, Zenon

(* A clone issues the first binding of a new context.                      *)
LEMMA CloneKeeps ==
  ASSUME TypeOK, PInv, NEW c \in Ctx, NEW d \in Ctx, NEW m \in MM, SourceClone(c, d, m)
  PROVE  PInv'
  <1> DEFINE b == [ctx |-> d, mm |-> m, epoch |-> 1]
  <1>1. /\ c \in Live /\ src[d].epoch = 0 /\ over = "no" /\ over' = over
        /\ th[c].st = "idle" /\ UNCHANGED <<reg, nobj, closed, nat, bind, cur, hist, pub, wr>>
        /\ src' = [src EXCEPT ![b.ctx] = b] /\ said' = said \cup {b}
        /\ th' = [th EXCEPT ![c] = [Idle EXCEPT !.st = "resolve", !.op = "birth", !.b = b]]
        /\ (Fresh(m) /\ Parent[m] = src[c].mm) \/ m = src[c].mm
    BY Zenon DEF SourceClone, Start, At
  <1>2. b \in Binding /\ b.ctx = d /\ b.mm = m /\ b.epoch = 1
    BY DEF Binding
  <1>3. d \notin Live
    <2>1. d \in Live => src[d].epoch > 0
      BY Born, Zenon
    <2> QED  BY <1>1, <2>1
  <1>4. \A e \in said : e.ctx # d
    <2> SUFFICES ASSUME NEW e \in said, e.ctx = d PROVE FALSE
      BY Zenon
    <2>1. 0 < e.epoch /\ e.epoch <= 0
      BY <1>1, Zenon DEF PInv, SourceInv
    <2>2. e.epoch \in Nat
      BY Shapes, Zenon
    <2> QED  BY <2>1, <2>2
  <1>5. Known(m)
    <2>1. ~Imaging(c)
      <3>1. c \in Thread
        BY Shapes, Zenon
      <3> QED  BY <1>1, <3>1, AtRest
    <2>2. Recorded(src[c].mm, cur[c].obj)
      BY <1>1, <2>1, CurrentIsSource, Born, Zenon
    <2>3. PICK r \in reg : r.id = src[c].mm
      BY <2>2, Zenon DEF Recorded
    <2>4. CASE m = src[c].mm
      BY <2>3, <2>4, Zenon DEF PInv, RecordInv
    <2>5. CASE Parent[m] = src[c].mm
      BY <2>3, <2>5, Zenon DEF Known, Records
    <2> QED  BY <1>1, <2>4, <2>5, Zenon
  <1>6. Known(b.mm) /\ \A e \in said : e.ctx = b.ctx => e.mm # b.mm
    BY <1>2, <1>4, <1>5, Zenon
  <1>7. b.epoch = src[b.ctx].epoch + 1
    BY <1>1, <1>2
  <1>8. "birth" \in {"image", "birth"} /\ ("birth" = "image" => b.ctx = c)
        /\ ("birth" = "birth" => b.ctx \notin Live /\ src[b.ctx].epoch = 0)
    BY <1>1, <1>2, <1>3
  <1>9. b \in Binding
    BY <1>2, Zenon
  <1> HIDE DEF b
  <1> QED  BY <1>1, <1>6, <1>7, <1>8, <1>9, IssueKeeps, Zenon

(* Steps of native contexts, guards and counts alone.                      *)
LEMMA BooksFrame ==
  ASSUME PInv, UNCHANGED <<src, said, reg, nobj, closed, bind, cur, hist, pub, th, over>>
  PROVE  SourceInv' /\ RecordInv' /\ ThreadInv' /\ TargetInv' /\ StopsWithCause'
  <1>1. Live' = Live
    BY Zenon DEF Live
  <1>2. SourceInv'
    BY <1>1, Zenon DEF PInv, SourceInv
  <1>3. \A m : Known(m)' <=> Known(m)
    BY Zenon DEF Known, Records
  <1>4. RecordInv'
    BY <1>3, Zenon DEF PInv, RecordInv
  <1>5. ThreadInv'
    <2> SUFFICES ASSUME NEW t \in Thread PROVE ThreadOK(t)'
      BY Zenon DEF ThreadInv
    <2>1. ThreadOK(t)
      BY Zenon DEF PInv, ThreadInv
    <2> QED  BY <2>1, Zenon DEF ThreadOK, Known, Records, Recorded
  <1>6. TargetInv'
    <2>1. \A c, x : Grounded(c, x)' <=> Grounded(c, x)
      BY Zenon DEF Grounded, Recorded
    <2>2. \A c : Imaging(c)' <=> Imaging(c)
      BY Zenon DEF Imaging
    <2>3. \A c \in Ctx : \A x \in hist'[c] : Grounded(c, x)'
      BY <2>1, Zenon DEF PInv, TargetInv
    <2>4. \A c \in Live' : cur'[c] \in hist'[c] /\ bind'[c] = [obj |-> cur'[c].obj, epoch |-> cur'[c].ne]
      BY <1>1, Zenon DEF PInv, TargetInv
    <2>5. over' = "no" => \A c \in Live' :
            src'[c].epoch = IF Imaging(c)' THEN cur'[c].se + 1 ELSE cur'[c].se
      BY <1>1, <2>2, Zenon DEF PInv, TargetInv
    <2> QED  BY <2>3, <2>4, <2>5, Zenon DEF TargetInv
  <1>7. StopsWithCause'
    BY <1>1, Zenon DEF PInv, StopsWithCause
  <1> QED  BY <1>2, <1>4, <1>5, <1>6, <1>7, Zenon

(* A native context ends on its own.                                       *)
LEMMA EndsKeeps ==
  ASSUME TypeOK, PInv, NEW c \in Ctx, NativeEnds(c)
  PROVE  PInv'
  <1>1. UNCHANGED <<src, said, reg, nobj, closed, bind, cur, hist, pub, wr, th, over>>
    BY Zenon DEF NativeEnds
  <1>2. \A d \in Ctx : /\ nat'[d].obj = nat[d].obj /\ nat'[d].epoch = nat[d].epoch
                       /\ nat[d].dead => nat'[d].dead
    <2>1. nat \in [Ctx -> [obj : Nat, epoch : Nat, dead : BOOLEAN]]
      BY DEF TypeOK
    <2>2. nat'[c] = [nat[c] EXCEPT !.dead = TRUE] /\ \A d \in Ctx : d # c => nat'[d] = nat[d]
      BY <2>1, Zenon DEF NativeEnds
    <2>3. nat'[c].obj = nat[c].obj /\ nat'[c].epoch = nat[c].epoch /\ nat'[c].dead
      BY <2>1, <2>2
    <2> QED  BY <2>2, <2>3, Zenon
  <1>3. NativeInv'
    BY <1>1, <1>2, Zenon DEF PInv, NativeInv
  <1>4. SourceInv' /\ RecordInv' /\ ThreadInv' /\ TargetInv' /\ StopsWithCause'
    BY <1>1, BooksFrame, Zenon
  <1> QED  BY <1>3, <1>4, Zenon DEF PInv

(* Steps that change nothing.                                              *)
LEMMA StutterKeepsBooks ==
  ASSUME PInv, UNCHANGED vars
  PROVE  PInv'
  <1>1. UNCHANGED <<src, said, reg, nobj, closed, nat, bind, cur, hist, pub, wr, th, over>>
    BY Zenon DEF vars
  <1>2. SourceInv' /\ RecordInv' /\ ThreadInv' /\ TargetInv' /\ StopsWithCause'
    BY <1>1, BooksFrame, Zenon
  <1>3. NativeInv'
    BY <1>1, Zenon DEF PInv, NativeInv
  <1> QED  BY <1>2, <1>3, Zenon DEF PInv

(* Every step keeps the books.                                             *)
LEMMA BooksStep == IInv /\ PInv /\ [Next]_vars => PInv'
  <1> SUFFICES ASSUME IInv, PInv, [Next]_vars PROVE PInv'
    BY Zenon
  <1>1. TypeOK
    BY Zenon DEF IInv
  <1>2. TRUE \in BOOLEAN /\ FALSE \in BOOLEAN
    OBVIOUS
  <1>3. \A t \in Thread : Step(t) \/ ControlDone(t, TRUE) => PInv'
    BY <1>1, <1>2, FindKeeps, MakeKeeps, PublishRecordKeeps, RegisterKeeps, ObserveKeeps,
       PublishKeeps, LockedKeeps, ReplacedKeeps, AnswerKeeps, ControlKeeps, DoneKeeps, Zenon DEF Step
  <1> QED
    BY <1>1, <1>3, ExecKeeps, CloneKeeps, ObserveStartKeeps, CaptureKeeps, EndsKeeps,
       StutterKeepsBooks, Zenon DEF Next

(* The books are true when the monitor starts.                             *)
LEMMA BooksInit == Init => PInv
  <1> SUFFICES ASSUME Init PROVE PInv
    BY Zenon
  <1> USE ExecutionTargetAssumption
  <1>1. /\ said = {First} /\ reg = {[id |-> RootMM, parent |-> NoMM, obj |-> 1]}
        /\ nobj = 1 /\ closed = {} /\ over = "no"
    BY Zenon DEF Init
  <1>2. First.ctx = Root /\ First.mm = RootMM /\ First.epoch = 1
    BY DEF First
  <1>3. \A t \in Thread : th[t].st = "idle"
    BY IdleFields, Zenon DEF Init
  <1>4. \A c \in Ctx : /\ c = Root => src[c] = First
                       /\ c # Root => src[c] = [First EXCEPT !.ctx = c, !.epoch = 0]
    BY Zenon DEF Init
  <1>5. \A c \in Ctx : src[c].ctx = c /\ src[c].epoch = IF c = Root THEN 1 ELSE 0
    <2>1. \A c : /\ [First EXCEPT !.ctx = c, !.epoch = 0].ctx = c
                 /\ [First EXCEPT !.ctx = c, !.epoch = 0].epoch = 0
      BY DEF First
    <2> SUFFICES ASSUME NEW c \in Ctx
                 PROVE  src[c].ctx = c /\ src[c].epoch = IF c = Root THEN 1 ELSE 0
      BY Zenon
    <2>2. CASE c = Root
      BY <1>2, <1>4, <2>2, Zenon
    <2>3. CASE c # Root
      <3>1. src[c] = [First EXCEPT !.ctx = c, !.epoch = 0]
        BY <1>4, <2>3, Zenon
      <3> QED  BY <2>3, <3>1 DEF First
    <2> QED  BY <2>2, <2>3, Zenon
  <1>6. \A c \in Ctx : /\ bind[c] = [obj |-> IF c = Root THEN 1 ELSE 0, epoch |-> IF c = Root THEN 1 ELSE 0]
                       /\ nat[c].obj = bind[c].obj /\ nat[c].epoch = bind[c].epoch
                       /\ cur[c] = IF c = Root THEN TargetOf(First, 1, 1) ELSE NoTarget
                       /\ hist[c] = IF c = Root THEN {TargetOf(First, 1, 1)} ELSE {}
    BY ZenonT(30) DEF Init
  <1>7. Live = {Root}
    <2>1. \A c \in Ctx : bind[c].epoch = IF c = Root THEN 1 ELSE 0
      <3> SUFFICES ASSUME NEW c \in Ctx PROVE bind[c].epoch = IF c = Root THEN 1 ELSE 0
        OBVIOUS
      <3>1. bind[c] = [obj |-> IF c = Root THEN 1 ELSE 0, epoch |-> IF c = Root THEN 1 ELSE 0]
        BY <1>6, Zenon
      <3> QED  BY <3>1
    <2>2. \A c \in Ctx : bind[c].epoch > 0 <=> c = Root
      BY <2>1
    <2> QED  BY <2>2, Zenon DEF Live
  <1>8. SourceInv
    <2>1. \A c \in Ctx : src[c].epoch > 0 => src[c] \in said
      <3>1. \A c \in Ctx : src[c].epoch > 0 => c = Root
        BY <1>5
      <3> QED  BY <1>1, <1>4, <3>1, Zenon
    <2>2. \A b \in said : 0 < b.epoch /\ b.epoch <= src[b.ctx].epoch
      BY <1>1, <1>2, <1>5
    <2>3. \A c \in Ctx : c \notin Live => src[c].epoch <= 1 /\ th[c].st = "idle"
      BY <1>3, <1>5, <1>7 DEF Thread
    <2> QED  BY <1>1, <1>5, <2>1, <2>2, <2>3, Zenon DEF SourceInv
  <1>9. RecordInv
    <2>1. Known(RootMM)
      BY Zenon DEF Known
    <2> QED  BY <1>1, <1>3, <2>1 DEF RecordInv
  <1>10. ThreadInv
    BY <1>3 DEF ThreadInv, ThreadOK, Named
  <1>11. /\ TargetOf(First, 1, 1).ctx = Root /\ TargetOf(First, 1, 1).mm = RootMM
         /\ TargetOf(First, 1, 1).se = 1 /\ TargetOf(First, 1, 1).obj = 1
         /\ TargetOf(First, 1, 1).ne = 1
    BY <1>2 DEF TargetOf
  <1>12. TargetInv
    <2>1. Recorded(RootMM, 1)
      BY <1>1 DEF Recorded
    <2>2. [ctx |-> Root, mm |-> RootMM, epoch |-> 1] \in said
      BY <1>1 DEF First
    <2>3. Grounded(Root, TargetOf(First, 1, 1))
      BY <1>11, <2>1, <2>2, Zenon DEF Grounded
    <2>4. Root \in Thread /\ ~Imaging(Root)
      BY <1>3 DEF Thread, Imaging, Named
    <2>5. \A c \in Ctx : \A x \in hist[c] : Grounded(c, x)
      <3>1. \A c \in Ctx : c # Root => hist[c] = {}
        BY <1>6, Zenon
      <3>2. hist[Root] = {TargetOf(First, 1, 1)}
        BY <1>6, Zenon
      <3> QED  BY <2>3, <3>1, <3>2, Zenon
    <2>6. cur[Root] \in hist[Root] /\ bind[Root] = [obj |-> cur[Root].obj, epoch |-> cur[Root].ne]
      <3>1. /\ hist[Root] = {TargetOf(First, 1, 1)} /\ cur[Root] = TargetOf(First, 1, 1)
            /\ bind[Root] = [obj |-> 1, epoch |-> 1]
        BY <1>6, Zenon
      <3> QED  BY <1>11, <3>1, Zenon
    <2>7. src[Root].epoch = IF Imaging(Root) THEN cur[Root].se + 1 ELSE cur[Root].se
      BY <1>5, <1>6, <1>11, <2>4, Zenon
    <2> QED  BY <1>7, <2>5, <2>6, <2>7, Zenon DEF TargetInv
  <1>13. NativeInv
    BY <1>6, Zenon DEF NativeInv
  <1>14. StopsWithCause
    BY <1>1 DEF StopsWithCause
  <1> QED  BY <1>8, <1>9, <1>10, <1>12, <1>13, <1>14, Zenon DEF PInv

(* The books are always true.                                              *)
LEMMA AlwaysBooks == Spec => [](IInv /\ PInv)
  <1>1. Init => GuardInv /\ ControlExact
    BY GuardInit
  <1>2. Init /\ TypeOK => IInv /\ PInv
    BY <1>1, BooksInit, Zenon DEF IInv
  <1> QED  BY <1>2, TypeCorrect, GuardStep, BooksStep, PTL DEF Spec

(* What later operations capture is true, for any number of contexts and   *)
(* whatever first uses of an address space, execs and lost results cross:  *)
(* one record and one object for an address space (execution_mm_resolve),  *)
(* the current target the native binding, and the source's image after an  *)
(* exec (execution_target_publish).                                        *)
THEOREM WhatIsPublished == Spec => []PublishedTrue
  <1>1. IInv /\ PInv => PublishedTrue
    <2> SUFFICES ASSUME IInv, PInv PROVE PublishedTrue
      BY Zenon
    <2>1. TypeOK
      BY Zenon DEF IInv
    <2>2. CurrentExact
      <3> SUFFICES ASSUME NEW c \in Live, pub[c] = NoThread, ~nat[c].dead
                   PROVE  /\ cur[c].obj = nat[c].obj /\ cur[c].ne = nat[c].epoch
                          /\ bind[c] = [obj |-> cur[c].obj, epoch |-> cur[c].ne]
                          /\ [ctx |-> c, mm |-> cur[c].mm, epoch |-> cur[c].se] \in said
        BY Zenon DEF CurrentExact
      <3>1. c \in Ctx /\ [ctx |-> c, mm |-> cur[c].mm, epoch |-> cur[c].se] \in said
        BY <2>1, Born, Zenon
      <3>2. wr[c] = NoThread
        <4> SUFFICES ASSUME wr[c] # NoThread PROVE FALSE
          BY Zenon
        <4>1. wr[c] \in Thread
          BY <2>1, <3>1 DEF TypeOK
        <4>2. PICK u \in Thread : u = wr[c]
          BY <4>1, Zenon
        <4>3. th[u].st = "replace" /\ th[u].b.ctx = c
          BY <3>1, <4>2, Zenon DEF IInv, GuardInv
        <4>4. pub[c] = u
          BY <4>3, Zenon DEF PInv, ThreadInv, ThreadOK
        <4> QED  BY <4>2, <4>4, Zenon
      <3>3. nat[c].obj = bind[c].obj /\ nat[c].epoch = bind[c].epoch
        BY <3>1, <3>2, Zenon DEF PInv, NativeInv
      <3>4. bind[c] = [obj |-> cur[c].obj, epoch |-> cur[c].ne]
        BY Zenon DEF PInv, TargetInv
      <3>5. bind[c].obj = cur[c].obj /\ bind[c].epoch = cur[c].ne
        BY <3>4
      <3> QED  BY <3>1, <3>3, <3>4, <3>5, Zenon
    <2>3. ImageInstalled
      <3> SUFFICES ASSUME NEW c \in Live, th[c].st \in {"idle", "have", "control"}, over = "no"
                   PROVE  cur[c].se = src[c].epoch /\ cur[c].mm = src[c].mm
        BY Zenon DEF ImageInstalled
      <3>1. c \in Thread
        BY Zenon DEF Live, Thread
      <3>2. ~Imaging(c)
        BY <3>1, AtRest, Zenon
      <3> QED  BY <2>1, <3>2, CurrentIsSource, Zenon
    <2>4. OneRecord
      <3>1. \A r \in reg : r.parent = NoMM \/ Records(r.parent) # {}
        BY Zenon DEF PInv, RecordInv, Known
      <3>2. \A c \in Ctx : \A x \in hist[c] : \E r \in reg : r.id = x.mm /\ r.obj = x.obj
        BY Zenon DEF PInv, TargetInv, Grounded, Recorded
      <3> QED  BY <3>1, <3>2, Zenon DEF PInv, RecordInv, OneRecord
    <2> QED  BY <2>2, <2>3, <2>4, Zenon DEF PublishedTrue
  <1> QED  BY <1>1, AlwaysBooks, PTL

(* The program is stopped for want of an image or a context only when the  *)
(* context table is full: no publication and no resolution of an exec or a *)
(* clone is ever refused by the monitor's own books (ctx_register,         *)
(* execution_mm_resolve, execution_target_publish).                        *)
THEOREM StopHasCause == Spec => []StopsWithCause
  <1>1. IInv /\ PInv => StopsWithCause
    BY Zenon DEF PInv
  <1> QED  BY <1>1, AlwaysBooks, PTL

(* Targets once returned stay as they are, and the current one moves only  *)
(* to a later image of the source and the next native epoch: an old reply  *)
(* or callback rolls nothing back (execution_target_observe,               *)
(* execution_target_publish).                                              *)
THEOREM TargetsOnlyMoveOn == Spec => HistoryOnly
  <1> DEFINE Moves == \A c \in Live : /\ hist[c] \subseteq hist'[c]
                                      /\ cur'[c] # cur[c] => /\ cur'[c].se > cur[c].se
                                                             /\ cur'[c].ne = cur[c].ne + 1
  <1>1. IInv /\ PInv /\ [Next]_vars => [Moves]_vars
    <2> SUFFICES ASSUME IInv, PInv, [Next]_vars PROVE Moves
      BY Zenon
    <2>1. TypeOK
      BY Zenon DEF IInv
    <2>2. CASE UNCHANGED <<cur, hist>>
      BY <2>2, Zenon
    <2>3. ASSUME NEW t \in Thread, ctx_register(t) PROVE Moves
      <3>1. CASE th[t].b.ctx \in Live
        BY <2>2, <2>3, <3>1, Zenon DEF ctx_register
      <3>2. CASE th[t].b.ctx \notin Live
        <4>1. \A c \in Ctx : c # th[t].b.ctx => cur'[c] = cur[c] /\ hist'[c] = hist[c]
          <5>1. cur \in [Ctx -> Target] /\ hist \in [Ctx -> SUBSET Target]
            BY <2>1 DEF TypeOK
          <5> QED  BY <2>3, <5>1, Zenon DEF ctx_register
        <4> QED  BY <3>2, <4>1, Zenon DEF Live
      <3> QED  BY <3>1, <3>2, Zenon
    <2>4. ASSUME NEW t \in Thread, execution_target_observe(t) PROVE Moves
      <3>1. cur' = cur /\ \A c \in Ctx : hist[c] \subseteq hist'[c]
        <4>1. hist \in [Ctx -> SUBSET Target]
          BY <2>1 DEF TypeOK
        <4> QED  BY <2>4, <4>1, Zenon DEF execution_target_observe
      <3> QED  BY <3>1, Zenon DEF Live
    <2>5. ASSUME NEW t \in Thread, execution_target_publish(t) PROVE Moves
      <3>1. At(t, "image")
        BY <2>5, Zenon DEF execution_target_publish
      <3>2. ~PublishRefused(th[t].b, th[t].obj) /\ ~(th[t].b.epoch <= cur[th[t].b.ctx].se)
        BY <2>1, <3>1, NeverRefused, Zenon
      <3> QED  BY <2>2, <2>5, <3>2, Zenon DEF execution_target_publish
    <2>6. ASSUME NEW t \in Thread, ObjectReplaced(t) PROVE Moves
      <3> DEFINE b == th[t].b
                 c == th[t].b.ctx
                 x == TargetOf(b, th[t].obj, bind[c].epoch + 1)
      <3>1. CASE UNCHANGED <<cur, hist>>
        BY <2>2, <3>1, Zenon
      <3>2. CASE cur' = [cur EXCEPT ![c] = x] /\ hist' = [hist EXCEPT ![c] = @ \cup {x}]
        <4>1. th[t].st = "replace" /\ over = "no" /\ ThreadOK(t)
          BY <2>6, Zenon DEF ObjectReplaced, At, PInv, ThreadInv
        <4>2. Imaging(t)
          <5>1. th[t].st \in Named /\ th[t].st \in {"drain", "replace"}
            BY <4>1 DEF Named
          <5> QED  BY <4>1, <5>1, Zenon DEF ThreadOK, Imaging
        <4>3. t \in Ctx /\ t \in Live /\ b = src[t] /\ c = t
          BY <2>1, <4>2, OwnImage, Zenon
        <4>4. x.se = b.epoch /\ x.ne = bind[c].epoch + 1
          BY DEF TargetOf
        <4>5. b.epoch = cur[t].se + 1 /\ bind[t] = [obj |-> cur[t].obj, epoch |-> cur[t].ne]
          BY <4>1, <4>2, <4>3, Zenon DEF PInv, TargetInv
        <4>6. cur[t].se \in Nat /\ bind[t].epoch = cur[t].ne
          <5>1. cur[t].se \in Nat
            BY <2>1, <4>3, Shapes, Zenon
          <5>2. bind[t].epoch = cur[t].ne
            BY <4>5
          <5> QED  BY <5>1, <5>2, Zenon
        <4>7. x.se > cur[t].se /\ x.ne = cur[t].ne + 1
          <5>1. cur[t].se + 1 > cur[t].se
            BY <4>6
          <5> QED  BY <4>3, <4>4, <4>5, <4>6, <5>1, Zenon
        <4>8. /\ cur'[t] = x /\ hist[t] \subseteq hist'[t]
              /\ \A d \in Ctx : d # t => cur'[d] = cur[d] /\ hist'[d] = hist[d]
          <5>1. cur \in [Ctx -> Target] /\ hist \in [Ctx -> SUBSET Target]
            BY <2>1 DEF TypeOK
          <5> QED  BY <3>2, <4>3, <5>1, Zenon
        <4> QED  BY <4>3, <4>7, <4>8, Zenon DEF Live
      <3> QED  BY <2>6, <3>1, <3>2, Zenon DEF ObjectReplaced
    <2>7. ASSUME NEW t \in Thread, Step(t) \/ ControlDone(t, TRUE) PROVE Moves
      <3>1. CASE ctx_register(t) \/ execution_target_observe(t) \/ execution_target_publish(t)
                 \/ ObjectReplaced(t)
        BY <2>3, <2>4, <2>5, <2>6, <3>1, Zenon
      <3>2. CASE ~(ctx_register(t) \/ execution_target_observe(t) \/ execution_target_publish(t)
                   \/ ObjectReplaced(t))
        <4>1. UNCHANGED <<cur, hist>>
          BY <2>7, <3>2, Zenon DEF Step, ResolveFind, ResolveMake, ResolvePublish, BindingLocked,
             ObjectUnread, ObjectBusy, ObjectEnded, execution_context_ctl, ControlDone
        <4> QED  BY <2>2, <4>1, Zenon
      <3> QED  BY <3>1, <3>2, Zenon
    <2>8. CASE \/ \E c \in Ctx, m \in MM : SourceExec(c, m)
               \/ \E c, d \in Ctx, m \in MM : SourceClone(c, d, m)
               \/ \E t \in Thread, b \in said : ctx_observe_source(t, b)
               \/ \E t \in Thread, c \in Ctx : execution_target_capture(t, c)
               \/ \E c \in Ctx : NativeEnds(c)
      <3>1. UNCHANGED <<cur, hist>>
        BY <2>8, Zenon DEF SourceExec, SourceClone, ctx_observe_source, execution_target_capture, NativeEnds
      <3> QED  BY <2>2, <3>1, Zenon
    <2>9. CASE UNCHANGED vars
      BY <2>2, <2>9, Zenon DEF vars
    <2> QED  BY <2>7, <2>8, <2>9, Zenon DEF Next
  <1> QED  BY <1>1, AlwaysBooks, PTL DEF Spec, HistoryOnly
=============================================================================
