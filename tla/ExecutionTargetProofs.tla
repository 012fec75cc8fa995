------------------------ MODULE ExecutionTargetProofs ------------------------
(***************************************************************************)
(* No control ever works on a memory other than the one its target names,  *)
(* for any number of contexts, threads, address spaces and lost results.   *)
(***************************************************************************)
EXTENDS ExecutionTarget, TLAPS

ThreadRecord ==
  [st : {"idle", "resolve", "make", "publish", "birth", "observe", "image",
         "drain", "replace", "have", "control"},
   op : {"image", "birth", "observe"}, b : Binding,
   obj : Nat, tgt : Target, tries : Nat, unsure : BOOLEAN]

-----------------------------------------------------------------------------
(* What the helpers return.                                                *)

LEMMA IdleType == Idle \in ThreadRecord /\ NoTarget \in Target
  BY ExecutionTargetAssumption DEF Idle, NoTarget, ThreadRecord, Binding, Target

LEMMA TargetOfType ==
  ASSUME NEW b \in Binding, NEW obj \in Nat, NEW ne \in Nat
  PROVE  TargetOf(b, obj, ne) \in Target
  BY DEF TargetOf, Binding, Target

LEMMA ObservedType ==
  ASSUME TypeOK, NEW b \in Binding, NEW obj \in Nat
  PROVE  Observed(b, obj) \in Target
  <1>1. Entries(b) \subseteq Target
    BY DEF Entries, TypeOK, Binding
  <1>2. CASE Entries(b) = {}
    BY <1>2, TargetOfType DEF Observed
  <1>3. CASE Entries(b) # {}
    <2>1. execution_target_find_locked(b) \in Entries(b)
      BY <1>3 DEF execution_target_find_locked
    <2> QED  BY <1>1, <1>3, <2>1 DEF Observed
  <1> QED  BY <1>2, <1>3

LEMMA RecordType ==
  ASSUME TypeOK, NEW m \in MM, Records(m) # {}
  PROVE  (CHOOSE r \in Records(m) : TRUE).obj \in Nat
  <1>1. (CHOOSE r \in Records(m) : TRUE) \in reg
    BY DEF Records
  <1> QED  BY <1>1 DEF TypeOK

LEMMA Forwarded ==
  ASSUME th \in [Thread -> ThreadRecord], NEW t \in Thread, NEW obj \in Nat
  PROVE  Resolved(t, obj) \in [Thread -> ThreadRecord]
  BY ZenonT(30) DEF Resolved, ThreadRecord

-----------------------------------------------------------------------------
(* Types are kept by every step.                                           *)

LEMMA TypeStep == TypeOK /\ [Next]_vars => TypeOK'
  <1> SUFFICES ASSUME TypeOK, [Next]_vars PROVE TypeOK'
    OBVIOUS
  <1> USE ExecutionTargetAssumption, IdleType
  <1>t. th \in [Thread -> ThreadRecord]
    BY DEF TypeOK, ThreadRecord
  <1>u. ASSUME th' \in [Thread -> ThreadRecord]
        PROVE  th' \in [Thread ->
           [st : {"idle", "resolve", "make", "publish", "birth", "observe", "image",
                  "drain", "replace", "have", "control"},
            op : {"image", "birth", "observe"}, b : Binding,
            obj : Nat, tgt : Target, tries : Nat, unsure : BOOLEAN]]
    BY <1>u DEF ThreadRecord
  <1>1. ASSUME NEW c \in Ctx, NEW m \in MM, SourceExec(c, m) PROVE TypeOK'
    <2> DEFINE b == [ctx |-> c, mm |-> m, epoch |-> src[c].epoch + 1]
    <2>1. b \in Binding
      BY DEF TypeOK, Binding
    <2>2. [Idle EXCEPT !.st = "resolve", !.op = "image", !.b = b] \in ThreadRecord
      BY <2>1, ZenonT(30) DEF ThreadRecord
    <2>3. th' \in [Thread -> ThreadRecord]
      BY <1>1, <1>t, <2>2, ZenonT(30) DEF SourceExec, Start
    <2>4. src' \in [Ctx -> Binding] /\ said' \subseteq Binding
      BY <1>1, <2>1 DEF SourceExec, TypeOK
    <2> QED  BY <1>1, <1>u, <2>3, <2>4 DEF SourceExec, Start, TypeOK
  <1>2. ASSUME NEW c \in Ctx, NEW d \in Ctx, NEW m \in MM, SourceClone(c, d, m) PROVE TypeOK'
    <2> DEFINE b == [ctx |-> d, mm |-> m, epoch |-> 1]
    <2>1. b \in Binding
      BY DEF Binding
    <2>2. [Idle EXCEPT !.st = "resolve", !.op = "birth", !.b = b] \in ThreadRecord
      BY <2>1, ZenonT(30) DEF ThreadRecord
    <2>3. th' \in [Thread -> ThreadRecord]
      BY <1>2, <1>t, <2>2, ZenonT(30) DEF SourceClone, Start
    <2>4. src' \in [Ctx -> Binding] /\ said' \subseteq Binding
      BY <1>2, <2>1 DEF SourceClone, TypeOK
    <2> QED  BY <1>2, <1>u, <2>3, <2>4 DEF SourceClone, Start, TypeOK
  <1>3. ASSUME NEW t \in Thread, NEW b \in said, ctx_observe_source(t, b) PROVE TypeOK'
    <2>1. b \in Binding
      BY DEF TypeOK
    <2>2. [Idle EXCEPT !.st = "resolve", !.op = "observe", !.b = b] \in ThreadRecord
      BY <2>1, ZenonT(30) DEF ThreadRecord
    <2>3. th' \in [Thread -> ThreadRecord]
      BY <1>3, <1>t, <2>2 DEF ctx_observe_source, Start
    <2> QED  BY <1>3, <1>u, <2>3 DEF ctx_observe_source, Start, TypeOK
  <1>4. ASSUME NEW t \in Thread, NEW c \in Ctx, execution_target_capture(t, c) PROVE TypeOK'
    <2>2. [Idle EXCEPT !.st = "have", !.tgt = cur[c]] \in ThreadRecord
      BY ZenonT(30) DEF ThreadRecord, TypeOK
    <2>3. th' \in [Thread -> ThreadRecord]
      BY <1>4, <1>t, <2>2 DEF execution_target_capture, Start
    <2> QED  BY <1>4, <1>u, <2>3 DEF execution_target_capture, Start, TypeOK
  <1>5. ASSUME NEW t \in Thread, ResolveFind(t) PROVE TypeOK'
    <2>1. th[t].b.mm \in MM /\ th[t].op \in {"image", "birth", "observe"}
      BY DEF TypeOK, Binding
    <2>2. th' \in [Thread -> ThreadRecord]
      <3>1. CASE th' = [th EXCEPT ![t] = Idle]
        BY <1>t, <3>1
      <3>2. CASE th' = [th EXCEPT ![t].st = "make"]
        BY <1>t, <3>2 DEF ThreadRecord
      <3>3. CASE /\ Records(th[t].b.mm) # {}
                 /\ th' = Resolved(t, (CHOOSE r \in Records(th[t].b.mm) : TRUE).obj)
        BY <1>t, <2>1, <3>3, RecordType, Forwarded
      <3> QED  BY Zenon, <1>5, <3>1, <3>2, <3>3 DEF ResolveFind
    <2> QED  BY <1>5, <1>u, <2>2 DEF ResolveFind, TypeOK
  <1>6. ASSUME NEW t \in Thread, ResolveMake(t) PROVE TypeOK'
    <2>1. th' \in [Thread -> ThreadRecord]
      <3>1. nobj + 1 \in Nat
        BY DEF TypeOK
      <3>2. [[th[t] EXCEPT !.st = "publish"] EXCEPT !.obj = nobj + 1] \in ThreadRecord
        BY <1>t, <3>1, ZenonT(30) DEF ThreadRecord
      <3>3. th' = [th EXCEPT ![t] = [[th[t] EXCEPT !.st = "publish"] EXCEPT !.obj = nobj + 1]]
        BY <1>t, <1>6, ZenonT(30) DEF ResolveMake
      <3> QED  BY <1>t, <3>2, <3>3
    <2> QED  BY <1>6, <1>u, <2>1 DEF ResolveMake, TypeOK
  <1>7. ASSUME NEW t \in Thread, ResolvePublish(t) PROVE TypeOK'
    <2>1. th[t].b.mm \in MM /\ th[t].obj \in Nat
      BY DEF TypeOK, Binding
    <2>2. th' \in [Thread -> ThreadRecord]
      BY <1>t, <1>7, <2>1, RecordType, Forwarded DEF ResolvePublish
    <2>3. reg' \subseteq [id : MM, parent : MM \cup {NoMM}, obj : Nat] /\ closed' \subseteq Nat
      <3>1. [id |-> th[t].b.mm, parent |-> Parent[th[t].b.mm], obj |-> th[t].obj]
              \in [id : MM, parent : MM \cup {NoMM}, obj : Nat]
        BY <2>1
      <3>2. /\ reg \subseteq [id : MM, parent : MM \cup {NoMM}, obj : Nat]
            /\ closed \subseteq Nat
        BY DEF TypeOK
      <3> QED  BY <1>7, <2>1, <3>1, <3>2, ZenonT(30) DEF ResolvePublish
    <2> QED  BY Zenon, <1>7, <1>u, <2>2, <2>3 DEF ResolvePublish, TypeOK
  <1>8. ASSUME NEW t \in Thread, ctx_register(t) PROVE TypeOK'
    <2>1. th[t].b \in Binding /\ th[t].b.ctx \in Ctx /\ th[t].obj \in Nat
      BY DEF TypeOK, Binding
    <2>2. TargetOf(th[t].b, th[t].obj, 1) \in Target
      BY <2>1, TargetOfType
    <2>3. th' \in [Thread -> ThreadRecord]
      BY <1>t, <1>8 DEF ctx_register
    <2>4. /\ nat' \in [Ctx -> [obj : Nat, epoch : Nat, dead : BOOLEAN]]
          /\ bind' \in [Ctx -> [obj : Nat, epoch : Nat]]
      <3>1. /\ [obj |-> th[t].obj, epoch |-> 1, dead |-> FALSE]
                  \in [obj : Nat, epoch : Nat, dead : BOOLEAN]
            /\ [obj |-> th[t].obj, epoch |-> 1] \in [obj : Nat, epoch : Nat]
        BY <2>1
      <3>2. /\ nat \in [Ctx -> [obj : Nat, epoch : Nat, dead : BOOLEAN]]
            /\ bind \in [Ctx -> [obj : Nat, epoch : Nat]]
        BY DEF TypeOK
      <3>3. CASE UNCHANGED <<nat, bind>>
        BY <3>2, <3>3
      <3>4. CASE /\ nat' = [nat EXCEPT ![th[t].b.ctx] =
                             [obj |-> th[t].obj, epoch |-> 1, dead |-> FALSE]]
                 /\ bind' = [bind EXCEPT ![th[t].b.ctx] = [obj |-> th[t].obj, epoch |-> 1]]
        BY <2>1, <3>1, <3>2, <3>4, SMTT(30)
      <3> QED  BY Zenon, <1>8, <3>3, <3>4 DEF ctx_register, linux_execution_object_verify
    <2>5. cur' \in [Ctx -> Target] /\ hist' \in [Ctx -> SUBSET Target]
      <3>1. cur \in [Ctx -> Target] /\ hist \in [Ctx -> SUBSET Target]
        BY DEF TypeOK
      <3>2. CASE UNCHANGED <<cur, hist>>
        BY <3>1, <3>2
      <3>3. CASE /\ cur' = [cur EXCEPT ![th[t].b.ctx] = TargetOf(th[t].b, th[t].obj, 1)]
                 /\ hist' = [hist EXCEPT ![th[t].b.ctx] = {TargetOf(th[t].b, th[t].obj, 1)}]
        BY <2>1, <2>2, <3>1, <3>3
      <3> QED  BY Zenon, <1>8, <3>2, <3>3 DEF ctx_register, execution_context_binding_init
    <2> QED  BY Zenon, <1>8, <1>u, <2>3, <2>4, <2>5 DEF ctx_register, TypeOK
  <1>9. ASSUME NEW t \in Thread, execution_target_observe(t) PROVE TypeOK'
    <2>1. th[t].b \in Binding /\ th[t].b.ctx \in Ctx /\ th[t].obj \in Nat
      BY DEF TypeOK, Binding
    <2>2. Observed(th[t].b, th[t].obj) \in Target
      BY <2>1, ObservedType
    <2>3. th' \in [Thread -> ThreadRecord]
      BY <1>t, <1>9, <2>2 DEF execution_target_observe, ThreadRecord
    <2>4. hist' \in [Ctx -> SUBSET Target]
      <3>1. hist \in [Ctx -> SUBSET Target]
        BY DEF TypeOK
      <3>2. [hist EXCEPT ![th[t].b.ctx] = @ \cup {Observed(th[t].b, th[t].obj)}]
              \in [Ctx -> SUBSET Target]
        BY <2>1, <2>2, <3>1
      <3> QED  BY <1>9, <3>1, <3>2 DEF execution_target_observe
    <2> QED  BY <1>9, <1>u, <2>3, <2>4 DEF execution_target_observe, TypeOK
  <1>10. ASSUME NEW t \in Thread, execution_target_publish(t) PROVE TypeOK'
    <2>1. th[t].b \in Binding /\ th[t].b.ctx \in Ctx /\ th[t].obj \in Nat
      BY DEF TypeOK, Binding
    <2>2. Observed(th[t].b, th[t].obj) \in Target
      BY <2>1, ObservedType
    <2>3. th' \in [Thread -> ThreadRecord]
      BY <1>t, <1>10 DEF execution_target_publish, Installed, ThreadRecord
    <2>4. /\ hist' \in [Ctx -> SUBSET Target]
          /\ pub' \in [Ctx -> Thread \cup {NoThread}]
          /\ cur' \in [Ctx -> Target]
      <3>1. /\ hist \in [Ctx -> SUBSET Target] /\ cur \in [Ctx -> Target]
            /\ pub \in [Ctx -> Thread \cup {NoThread}]
        BY DEF TypeOK
      <3>2. [hist EXCEPT ![th[t].b.ctx] = @ \cup {Observed(th[t].b, th[t].obj)}]
              \in [Ctx -> SUBSET Target]
        BY <2>1, <2>2, <3>1
      <3> QED  BY <1>10, <2>1, <3>1, <3>2 DEF execution_target_publish
    <2>5. over' \in {"no", "broken", "refused", "aborted"}
      BY <1>10 DEF execution_target_publish, Installed, TypeOK
    <2> QED  BY Zenon, <1>10, <1>u, <2>3, <2>4, <2>5 DEF execution_target_publish, TypeOK
  <1>11. ASSUME NEW t \in Thread, BindingLocked(t) PROVE TypeOK'
    <2>1. th[t].b.ctx \in Ctx
      BY DEF TypeOK, Binding
    <2>2. th' \in [Thread -> ThreadRecord]
      BY <1>t, <1>11 DEF BindingLocked, ThreadRecord
    <2> QED  BY <1>11, <1>u, <2>1, <2>2 DEF BindingLocked, TypeOK
  <1>12. ASSUME NEW t \in Thread, Refuse(t) PROVE
           /\ th' \in [Thread -> ThreadRecord] /\ over' \in {"no", "broken", "refused", "aborted"}
           /\ wr' \in [Ctx -> Thread \cup {NoThread}] /\ pub' \in [Ctx -> Thread \cup {NoThread}]
    <2>1. th[t].b.ctx \in Ctx
      BY DEF TypeOK, Binding
    <2> QED  BY <1>t, <1>12, <2>1 DEF Refuse, Unlock, TypeOK
  <1>13. ASSUME NEW t \in Thread, Retry(t) PROVE
           /\ th' \in [Thread -> ThreadRecord] /\ over' \in {"no", "broken", "refused", "aborted"}
           /\ wr' \in [Ctx -> Thread \cup {NoThread}] /\ pub' \in [Ctx -> Thread \cup {NoThread}]
    <2>1. th' \in [Thread -> ThreadRecord]
      BY <1>t, <1>13 DEF Retry, ThreadRecord
    <2> QED  BY <1>13, <2>1 DEF Retry, TypeOK
  <1>14. ASSUME NEW t \in Thread, ObjectReplaced(t) PROVE TypeOK'
    <2> DEFINE b == th[t].b
               ne == bind[b.ctx].epoch + 1
    <2>1. b \in Binding /\ b.ctx \in Ctx /\ th[t].obj \in Nat /\ ne \in Nat
      BY DEF TypeOK, Binding
    <2>2. TargetOf(b, th[t].obj, ne) \in Target
      BY <2>1, TargetOfType, SMTT(30)
    <2>3. nat' \in [Ctx -> [obj : Nat, epoch : Nat, dead : BOOLEAN]]
      BY Zenon, <1>14, <2>1 DEF ObjectReplaced, TypeOK
    <2>4. CASE ResultLost(t) /\ UNCHANGED <<bind, cur, hist>>
      BY Zenon, <1>13, <1>14, <1>u, <2>3, <2>4 DEF ObjectReplaced, ResultLost, TypeOK
    <2>5. CASE /\ bind' = [bind EXCEPT ![b.ctx] = [obj |-> th[t].obj, epoch |-> ne]]
               /\ cur' = [cur EXCEPT ![b.ctx] = TargetOf(b, th[t].obj, ne)]
               /\ hist' = [hist EXCEPT ![b.ctx] = @ \cup {TargetOf(b, th[t].obj, ne)}]
               /\ Unlock(t)
               /\ Installed(t, TargetOf(b, th[t].obj, ne))
      <3>1. th' \in [Thread -> ThreadRecord] /\ over' \in {"no", "broken", "refused", "aborted"}
        BY Zenon, <1>t, <2>5 DEF Installed, TypeOK
      <3>2. bind' \in [Ctx -> [obj : Nat, epoch : Nat]]
        BY Zenon, <2>1, <2>5 DEF TypeOK
      <3>3. cur' \in [Ctx -> Target] /\ hist' \in [Ctx -> SUBSET Target]
        BY Zenon, <2>1, <2>2, <2>5 DEF TypeOK
      <3>4. wr' \in [Ctx -> Thread \cup {NoThread}] /\ pub' \in [Ctx -> Thread \cup {NoThread}]
        BY Zenon, <2>1, <2>5 DEF Unlock, TypeOK
      <3> QED  BY Zenon, <1>14, <1>u, <2>3, <3>1, <3>2, <3>3, <3>4 DEF ObjectReplaced, TypeOK
    <2> QED  BY <1>14, <2>4, <2>5, ZenonT(30) DEF ObjectReplaced
  <1>15. ASSUME NEW t \in Thread, ObjectUnread(t) \/ ObjectBusy(t) \/ ObjectEnded(t) PROVE TypeOK'
    BY <1>12, <1>13, <1>15, <1>u, ZenonT(30)
       DEF ObjectUnread, ObjectBusy, ObjectEnded, ResultLost, TypeOK
  <1>16. ASSUME NEW t \in Thread, execution_context_ctl(t) PROVE TypeOK'
    <2>1. th[t].tgt.ctx \in Ctx
      BY DEF TypeOK, Target
    <2>2. th' \in [Thread -> ThreadRecord]
      BY <1>t, <1>16 DEF execution_context_ctl, ThreadRecord
    <2>3. rd' \in [Ctx -> SUBSET Thread]
      BY <1>16, <2>1 DEF execution_context_ctl, TypeOK
    <2> QED  BY <1>16, <1>u, <2>2, <2>3 DEF execution_context_ctl, TypeOK
  <1>17. ASSUME NEW t \in Thread, NEW again \in BOOLEAN, ControlDone(t, again) PROVE TypeOK'
    <2>1. th[t].tgt.ctx \in Ctx
      BY DEF TypeOK, Target
    <2>2. th' \in [Thread -> ThreadRecord]
      BY <1>t, <1>17 DEF ControlDone, ThreadRecord
    <2>3. rd' \in [Ctx -> SUBSET Thread] /\ asks' \in Nat
      BY <1>17, <2>1 DEF ControlDone, TypeOK
    <2> QED  BY <1>17, <1>u, <2>2, <2>3 DEF ControlDone, TypeOK
  <1>18. ASSUME NEW c \in Ctx, NativeEnds(c) PROVE TypeOK'
    <2>1. nat' \in [Ctx -> [obj : Nat, epoch : Nat, dead : BOOLEAN]]
      <3>1. nat \in [Ctx -> [obj : Nat, epoch : Nat, dead : BOOLEAN]]
        BY DEF TypeOK
      <3>2. [nat[c] EXCEPT !.dead = TRUE] \in [obj : Nat, epoch : Nat, dead : BOOLEAN]
        BY <3>1, ZenonT(30)
      <3> QED  BY <1>18, <3>1, <3>2 DEF NativeEnds
    <2> QED  BY <1>18, <2>1 DEF NativeEnds, TypeOK
  <1>19. CASE UNCHANGED vars
    BY Zenon, <1>19 DEF vars, TypeOK
  <1> QED
    BY <1>1, <1>2, <1>3, <1>4, <1>5, <1>6, <1>7, <1>8, <1>9, <1>10, <1>11, <1>14, <1>15, ZenonT(30),
       <1>16, <1>17, <1>18, <1>19 DEF Next, Step

(* The types of the module hold in every reachable state.                  *)
THEOREM TypeCorrect == Spec => []TypeOK
  <1>1. Init => TypeOK
    <2> SUFFICES ASSUME Init PROVE TypeOK
      OBVIOUS
    <2> USE ExecutionTargetAssumption, IdleType
    <2>1. First \in Binding /\ \A c \in Ctx : [First EXCEPT !.ctx = c, !.epoch = 0] \in Binding
      BY ZenonT(30) DEF First, Binding
    <2>2. TargetOf(First, 1, 1) \in Target
      BY <2>1, TargetOfType, ZenonT(30)
    <2>3. src \in [Ctx -> Binding] /\ said \subseteq Binding
      BY <2>1, ZenonT(30) DEF Init
    <2>4. cur \in [Ctx -> Target] /\ hist \in [Ctx -> SUBSET Target]
      BY <2>2, ZenonT(30) DEF Init
    <2>5. th \in [Thread -> ThreadRecord]
      BY ZenonT(30) DEF Init
    <2>6. /\ nat \in [Ctx -> [obj : Nat, epoch : Nat, dead : BOOLEAN]]
          /\ bind \in [Ctx -> [obj : Nat, epoch : Nat]]
      BY ZenonT(30) DEF Init
    <2>7. reg \subseteq [id : MM, parent : MM \cup {NoMM}, obj : Nat]
      <3>1. [id |-> RootMM, parent |-> NoMM, obj |-> 1]
              \in [id : MM, parent : MM \cup {NoMM}, obj : Nat]
        OBVIOUS
      <3> QED  BY <3>1, ZenonT(30) DEF Init
    <2>8. /\ pub \in [Ctx -> Thread \cup {NoThread}] /\ wr \in [Ctx -> Thread \cup {NoThread}]
          /\ rd \in [Ctx -> SUBSET Thread]
      BY ZenonT(30) DEF Init
    <2>9. nobj \in Nat /\ closed \subseteq Nat /\ asks \in Nat
          /\ over \in {"no", "broken", "refused", "aborted"}
      BY ZenonT(30) DEF Init
    <2> QED  BY <2>3, <2>4, <2>5, <2>6, <2>7, <2>8, <2>9 DEF TypeOK, ThreadRecord
  <1> QED  BY <1>1, TypeStep, PTL DEF Spec

-----------------------------------------------------------------------------
(* The guard's invariant.                                                  *)
IInv == TypeOK /\ GuardInv /\ ControlExact

(* The invariant in the form the steps use.                                *)
LEMMA Guards ==
  ASSUME IInv
  PROVE  /\ wr \in [Ctx -> Thread \cup {NoThread}] /\ rd \in [Ctx -> SUBSET Thread]
         /\ \A u \in Thread : th[u].tgt.ctx \in Ctx /\ th[u].b.ctx \in Ctx
         /\ \A u \in Thread : th[u].st = "control" =>
              /\ u \in rd[th[u].tgt.ctx] /\ th[u].tgt.ne > 0
              /\ nat[th[u].tgt.ctx].obj = th[u].tgt.obj
              /\ nat[th[u].tgt.ctx].epoch = th[u].tgt.ne
         /\ \A d \in Ctx : wr[d] # NoThread =>
              wr[d] \in Thread /\ rd[d] = {} /\ th[wr[d]].st = "replace" /\ th[wr[d]].b.ctx = d
         /\ \A u \in Thread : th[u].st = "replace" => wr[th[u].b.ctx] = u
         /\ over = "no" => \A d \in Ctx : (wr[d] = NoThread \/ ~th[wr[d]].unsure) =>
              nat[d].obj = bind[d].obj /\ nat[d].epoch = bind[d].epoch
  <1>1. wr \in [Ctx -> Thread \cup {NoThread}] /\ rd \in [Ctx -> SUBSET Thread]
    BY Zenon DEF IInv, TypeOK
  <1>2. \A u \in Thread : th[u].tgt.ctx \in Ctx /\ th[u].b.ctx \in Ctx
    BY DEF IInv, TypeOK, Binding, Target
  <1>3. \A d \in Ctx : wr[d] # NoThread => wr[d] \in Thread
    BY <1>1, Zenon
  <1> QED  BY <1>1, <1>2, <1>3, Zenon DEF IInv, GuardInv, ControlExact

(* A step of a thread that neither controls nor replaces.                  *)
LEMMA Quiet ==
  ASSUME IInv, TypeOK', NEW t \in Thread, UNCHANGED <<nat, bind, rd, wr>>, over = "no",
         \A u \in Thread : u # t => th'[u] = th[u],
         th[t].st \notin {"control", "replace"}, th'[t].st \notin {"control", "replace"}
  PROVE  GuardInv' /\ ControlExact'
  <1>1. \A c \in Ctx : wr[c] # NoThread => wr[c] \in Thread /\ wr[c] # t
    BY DEF IInv, GuardInv, TypeOK
  <1>2. \A u \in Thread : th'[u].st \in {"control", "replace"} => th'[u] = th[u]
    OBVIOUS
  <1>3. ControlExact'
    BY Zenon, <1>2 DEF IInv, ControlExact
  <1>4. GuardInv'
    BY <1>1, <1>2 DEF IInv, GuardInv
  <1> QED  BY <1>3, <1>4

(* The replacing thread has the context to itself.                         *)
LEMMA Alone ==
  ASSUME IInv, NEW t \in Thread, th[t].st = "replace"
  PROVE  /\ th[t].b.ctx \in Ctx /\ wr[th[t].b.ctx] = t /\ rd[th[t].b.ctx] = {}
         /\ \A u \in Thread : th[u].st = "control" =>
              th[u].tgt.ctx \in Ctx /\ th[u].tgt.ctx # th[t].b.ctx
         /\ \A u \in Thread : th[u].st = "replace" /\ u # t =>
              th[u].b.ctx \in Ctx /\ th[u].b.ctx # th[t].b.ctx
         /\ \A d \in Ctx : wr[d] # NoThread /\ d # th[t].b.ctx => wr[d] \in Thread /\ wr[d] # t
  <1>1. \A u \in Thread : th[u].b.ctx \in Ctx /\ th[u].tgt.ctx \in Ctx
    BY DEF IInv, TypeOK, Binding, Target
  <1>2. wr[th[t].b.ctx] = t /\ t # NoThread
    BY ExecutionTargetAssumption DEF IInv, GuardInv, Thread
  <1>3. rd[th[t].b.ctx] = {}
    BY <1>1, <1>2 DEF IInv, GuardInv
  <1>4. \A u \in Thread : th[u].st = "control" => u \in rd[th[u].tgt.ctx]
    BY DEF IInv, GuardInv
  <1>5. \A u \in Thread : th[u].st = "replace" => wr[th[u].b.ctx] = u
    BY DEF IInv, GuardInv
  <1>6. \A d \in Ctx : wr[d] # NoThread => wr[d] \in Thread /\ th[wr[d]].b.ctx = d
    BY DEF IInv, GuardInv, TypeOK
  <1> QED  BY Zenon, <1>1, <1>2, <1>3, <1>4, <1>5, <1>6

LEMMA Released ==
  ASSUME IInv, TypeOK', NEW t \in Thread, th[t].st = "replace", Unlock(t), over = "no",
         UNCHANGED rd, th'[t].st = "idle", \A u \in Thread : u # t => th'[u] = th[u],
         \A d \in Ctx : d # th[t].b.ctx => nat'[d] = nat[d] /\ bind'[d] = bind[d],
         over' = "no" => /\ nat'[th[t].b.ctx].obj = bind'[th[t].b.ctx].obj
                         /\ nat'[th[t].b.ctx].epoch = bind'[th[t].b.ctx].epoch
  PROVE  GuardInv' /\ ControlExact'
  <1> DEFINE c == th[t].b.ctx
  <1>0. c \in Ctx /\ wr \in [Ctx -> Thread \cup {NoThread}]
    BY Alone, Guards, Zenon
  <1>1. wr'[c] = NoThread /\ \A d \in Ctx : d # c => wr'[d] = wr[d]
    BY <1>0, Zenon DEF Unlock
  <1>2. \A u \in Thread : th'[u].st \in {"control", "replace"} => th'[u] = th[u] /\ u # t
    OBVIOUS
  <1>a. /\ \A u \in Thread : th[u].st = "control" => th[u].tgt.ctx \in Ctx /\ th[u].tgt.ctx # c
        /\ \A u \in Thread : th[u].st = "replace" /\ u # t => th[u].b.ctx \in Ctx /\ th[u].b.ctx # c
        /\ \A d \in Ctx : wr[d] # NoThread /\ d # c => wr[d] \in Thread /\ wr[d] # t
    BY Alone
  <1>3. \A u \in Thread : th'[u].st = "control" =>
          /\ th'[u] = th[u] /\ th[u].st = "control" /\ th[u].tgt.ctx \in Ctx
          /\ nat'[th[u].tgt.ctx] = nat[th[u].tgt.ctx]
    <2>1. \A u \in Thread : th'[u].st = "control" => th'[u] = th[u] /\ th[u].st = "control"
      BY <1>2
    <2> QED  BY <1>a, <2>1, Zenon
  <1>4. \A d \in Ctx : d # c /\ wr[d] # NoThread => wr[d] \in Thread /\ th'[wr[d]] = th[wr[d]]
    BY <1>a, Zenon
  <1>5. \A u \in Thread : th'[u].st = "replace" =>
          th'[u] = th[u] /\ th[u].st = "replace" /\ th[u].b.ctx \in Ctx /\ th[u].b.ctx # c
    BY <1>2, <1>a, Zenon
  <1>6. ControlExact'
    <2> SUFFICES ASSUME NEW u \in Thread, th'[u].st = "control"
                 PROVE  /\ nat'[th'[u].tgt.ctx].obj = th'[u].tgt.obj
                        /\ nat'[th'[u].tgt.ctx].epoch = th'[u].tgt.ne
      BY Zenon DEF ControlExact
    <2>1. nat[th[u].tgt.ctx].obj = th[u].tgt.obj /\ nat[th[u].tgt.ctx].epoch = th[u].tgt.ne
      BY <1>3, Guards, Zenon
    <2> QED  BY <1>3, <2>1, Zenon
  <1>7. \A u \in Thread : th'[u].st = "control" =>
          u \in rd'[th'[u].tgt.ctx] /\ th'[u].tgt.ne > 0
    BY <1>3, Guards, Zenon
  <1>8. \A d \in Ctx : wr'[d] # NoThread =>
          rd'[d] = {} /\ th'[wr'[d]].st = "replace" /\ th'[wr'[d]].b.ctx = d
    <2> SUFFICES ASSUME NEW d \in Ctx, wr'[d] # NoThread
                 PROVE  rd'[d] = {} /\ th'[wr'[d]].st = "replace" /\ th'[wr'[d]].b.ctx = d
      BY Zenon
    <2>1. d # c /\ wr'[d] = wr[d] /\ wr[d] # NoThread
      BY <1>1, Zenon
    <2>2. rd[d] = {} /\ th[wr[d]].st = "replace" /\ th[wr[d]].b.ctx = d
      BY <2>1, Guards, Zenon
    <2> QED  BY <1>4, <2>1, <2>2, Zenon
  <1>9. \A u \in Thread : th'[u].st = "replace" => wr'[th'[u].b.ctx] = u
    <2> SUFFICES ASSUME NEW u \in Thread, th'[u].st = "replace" PROVE wr'[th'[u].b.ctx] = u
      BY Zenon
    <2>1. wr[th[u].b.ctx] = u
      BY <1>5, Guards, Zenon
    <2> QED  BY <1>1, <1>5, <2>1, Zenon
  <1>10. over' = "no" => \A d \in Ctx : (wr'[d] = NoThread \/ ~th'[wr'[d]].unsure) =>
          nat'[d].obj = bind'[d].obj /\ nat'[d].epoch = bind'[d].epoch
    <2> SUFFICES ASSUME over' = "no", NEW d \in Ctx, wr'[d] = NoThread \/ ~th'[wr'[d]].unsure
                 PROVE  nat'[d].obj = bind'[d].obj /\ nat'[d].epoch = bind'[d].epoch
      BY Zenon
    <2>1. CASE d = c
      BY <2>1, Zenon
    <2>2. CASE d # c
      <3>1. wr[d] = NoThread \/ ~th[wr[d]].unsure
        BY <1>1, <1>4, <2>2, Zenon
      <3>2. nat[d].obj = bind[d].obj /\ nat[d].epoch = bind[d].epoch
        BY <3>1, Guards, Zenon
      <3> QED  BY <2>2, <3>2, Zenon
    <2> QED  BY <2>1, <2>2, Zenon
  <1>11. GuardInv'
    BY <1>7, <1>8, <1>9, <1>10, Zenon DEF GuardInv
  <1> QED  BY <1>6, <1>11, Zenon

LEMMA Retried ==
  ASSUME IInv, TypeOK', NEW t \in Thread, th[t].st = "replace", over = "no",
         UNCHANGED <<rd, wr, bind>>, Retry(t),
         \A d \in Ctx : d # th[t].b.ctx => nat'[d] = nat[d]
  PROVE  GuardInv' /\ ControlExact'
  <1> DEFINE c == th[t].b.ctx
  <1>1. /\ th'[t].st = "replace" /\ th'[t].b = th[t].b /\ th'[t].unsure
        /\ \A u \in Thread : u # t => th'[u] = th[u]
    BY DEF Retry, IInv, TypeOK
  <1>2. \A u \in Thread : th'[u].st = "control" => th'[u] = th[u] /\ th[u].st = "control"
    BY Zenon, <1>1
  <1>3. ControlExact'
    BY <1>2, Alone DEF IInv, ControlExact
  <1>4. GuardInv'
    <2>1. \A u \in Thread : th'[u].st = "control" =>
            u \in rd'[th'[u].tgt.ctx] /\ th'[u].tgt.ne > 0
      BY Zenon, <1>2 DEF IInv, GuardInv
    <2>2. \A d \in Ctx : wr'[d] # NoThread =>
            rd'[d] = {} /\ th'[wr'[d]].st = "replace" /\ th'[wr'[d]].b.ctx = d
      BY <1>1, Alone DEF IInv, GuardInv
    <2>3. \A u \in Thread : th'[u].st = "replace" => wr'[th'[u].b.ctx] = u
      BY <1>1, Alone DEF IInv, GuardInv
    <2>4. over' = "no" => \A d \in Ctx : (wr'[d] = NoThread \/ ~th'[wr'[d]].unsure) =>
            nat'[d].obj = bind'[d].obj /\ nat'[d].epoch = bind'[d].epoch
      <3> SUFFICES ASSUME NEW d \in Ctx, wr'[d] = NoThread \/ ~th'[wr'[d]].unsure
                   PROVE  nat'[d].obj = bind'[d].obj /\ nat'[d].epoch = bind'[d].epoch
        OBVIOUS
      <3>1. d # c
        BY <1>1, Alone, ExecutionTargetAssumption, SMTT(30) DEF Thread
      <3>2. wr[d] = NoThread \/ ~th[wr[d]].unsure
        BY Zenon, <1>1, <3>1, Alone
      <3> QED  BY <3>1, <3>2 DEF IInv, GuardInv
    <2> QED  BY Zenon, <2>1, <2>2, <2>3, <2>4 DEF GuardInv
  <1> QED  BY Zenon, <1>3, <1>4

LEMMA GuardStep == IInv /\ [Next]_vars => IInv'
  <1> SUFFICES ASSUME IInv, [Next]_vars PROVE IInv'
    OBVIOUS
  <1> USE ExecutionTargetAssumption
  <1>t. TypeOK'
    BY TypeStep DEF IInv
  <1>d. th \in [Thread -> ThreadRecord] /\ Ctx \subseteq Thread
    BY DEF IInv, TypeOK, ThreadRecord, Thread
  <1>i. Idle.st = "idle"
    BY DEF Idle
  <1> SUFFICES GuardInv' /\ ControlExact'
    BY <1>t DEF IInv
  <1>1. ASSUME NEW c \in Ctx, NEW m \in MM, SourceExec(c, m) PROVE GuardInv' /\ ControlExact'
    <2>1. th'[c].st = "resolve" /\ th[c].st = "idle" /\ \A u \in Thread : u # c => th'[u] = th[u]
      BY <1>1, <1>d DEF SourceExec, Start, At, Idle
    <2> QED  BY <1>1, <1>d, <1>t, <2>1, Quiet DEF SourceExec, Start, At
  <1>2. ASSUME NEW c \in Ctx, NEW d \in Ctx, NEW m \in MM, SourceClone(c, d, m)
        PROVE  GuardInv' /\ ControlExact'
    <2>1. th'[c].st = "resolve" /\ th[c].st = "idle" /\ \A u \in Thread : u # c => th'[u] = th[u]
      BY <1>2, <1>d DEF SourceClone, Start, At, Idle
    <2> QED  BY <1>2, <1>d, <1>t, <2>1, Quiet DEF SourceClone, Start, At
  <1>3. ASSUME NEW t \in Thread, NEW b \in said, ctx_observe_source(t, b)
        PROVE  GuardInv' /\ ControlExact'
    <2>1. th'[t].st = "resolve" /\ th[t].st = "idle" /\ \A u \in Thread : u # t => th'[u] = th[u]
      BY <1>3, <1>d DEF ctx_observe_source, Start, At, Idle
    <2> QED  BY <1>3, <1>t, <2>1, Quiet DEF ctx_observe_source, Start, At
  <1>4. ASSUME NEW t \in Thread, NEW c \in Ctx, execution_target_capture(t, c)
        PROVE  GuardInv' /\ ControlExact'
    <2>1. th'[t].st = "have" /\ th[t].st = "idle" /\ \A u \in Thread : u # t => th'[u] = th[u]
      BY <1>4, <1>d DEF execution_target_capture, Start, At, Idle
    <2> QED  BY <1>4, <1>t, <2>1, Quiet DEF execution_target_capture, Start, At
  <1>5. ASSUME NEW t \in Thread, ResolveFind(t) \/ ResolveMake(t) \/ ResolvePublish(t)
        PROVE  GuardInv' /\ ControlExact'
    <2>1. th[t].op \in {"image", "birth", "observe"}
      BY <1>d DEF ThreadRecord
    <2>2. \A obj : Resolved(t, obj)[t].st = th[t].op /\ \A u \in Thread : u # t => Resolved(t, obj)[u] = th[u]
      BY <1>d, SMTT(30) DEF Resolved, ThreadRecord
    <2>3. th[t].st \in {"resolve", "make", "publish"} /\ over = "no" /\ UNCHANGED <<nat, bind, rd, wr>>
      BY Zenon, <1>5 DEF ResolveFind, ResolveMake, ResolvePublish, At
    <2>4. /\ th'[t].st \in {"idle", "make", "publish", "image", "birth", "observe"}
          /\ \A u \in Thread : u # t => th'[u] = th[u]
      BY <1>5, <1>d, <1>i, <2>1, <2>2 DEF ResolveFind, ResolveMake, ResolvePublish, ThreadRecord
    <2> QED  BY <1>t, <2>3, <2>4, Quiet
  <1>6. ASSUME NEW t \in Thread, execution_target_observe(t) \/ execution_target_publish(t)
        PROVE  GuardInv' /\ ControlExact'
    <2>1. th[t].st \in {"observe", "image"} /\ over = "no" /\ UNCHANGED <<nat, bind, rd, wr>>
      BY Zenon, <1>6 DEF execution_target_observe, execution_target_publish, At
    <2>2. th'[t].st \in {"idle", "have", "drain"} /\ \A u \in Thread : u # t => th'[u] = th[u]
      BY <1>6, <1>d, <1>i, SMTT(30)
         DEF execution_target_observe, execution_target_publish, Installed, ThreadRecord
    <2> QED  BY <1>t, <2>1, <2>2, Quiet, SMTT(30)
  <1>7. ASSUME NEW t \in Thread, ctx_register(t) PROVE GuardInv' /\ ControlExact'
    <2> DEFINE c == th[t].b.ctx
    <2>1. c \in Ctx /\ th[t].st = "birth" /\ over = "no" /\ UNCHANGED <<rd, wr>>
      BY Zenon, <1>7, <1>d DEF ctx_register, At, ThreadRecord, Binding
    <2>2. th'[t].st = "idle" /\ \A u \in Thread : u # t => th'[u] = th[u]
      BY Zenon, <1>7, <1>d, <1>i DEF ctx_register
    <2>3. CASE UNCHANGED <<nat, bind>>
      BY Zenon, <1>t, <2>1, <2>2, <2>3, Quiet
    <2>4. CASE c \notin Live /\ ~UNCHANGED <<nat, bind>>
      <3>1. /\ nat' = [nat EXCEPT ![c] = [obj |-> th[t].obj, epoch |-> 1, dead |-> FALSE]]
            /\ bind' = [bind EXCEPT ![c] = [obj |-> th[t].obj, epoch |-> 1]]
        BY Zenon, <1>7, <2>4 DEF ctx_register, linux_execution_object_verify
      <3>2. bind[c].epoch = 0
        BY <2>1, <2>4, SMTT(30) DEF Live, IInv, TypeOK
      <3>3. \A u \in Thread : th[u].st = "control" => th[u].tgt.ctx # c
        <4> SUFFICES ASSUME NEW u \in Thread, th[u].st = "control", th[u].tgt.ctx = c PROVE FALSE
          OBVIOUS
        <4>1. u \in rd[c] /\ th[u].tgt.ne > 0 /\ nat[c].epoch = th[u].tgt.ne
          BY DEF IInv, GuardInv, ControlExact
        <4>2. wr[c] = NoThread
          BY Zenon, <2>1, <4>1 DEF IInv, GuardInv
        <4>3. nat[c].epoch = bind[c].epoch
          BY Zenon, <2>1, <4>2 DEF IInv, GuardInv
        <4> QED  BY <3>2, <4>1, <4>3
      <3>4. \A d \in Ctx : d # c => nat'[d] = nat[d] /\ bind'[d] = bind[d]
        BY Zenon, <3>1 DEF IInv, TypeOK
      <3>5. nat'[c].obj = bind'[c].obj /\ nat'[c].epoch = bind'[c].epoch
        BY Zenon, <2>1, <3>1 DEF IInv, TypeOK
      <3>6. \A d \in Ctx : wr[d] # NoThread => wr[d] \in Thread /\ wr[d] # t
        BY <2>1 DEF IInv, GuardInv, TypeOK
      <3>7. \A u \in Thread : th'[u].st \in {"control", "replace"} => th'[u] = th[u]
        BY Zenon, <2>2
      <3>8. \A u \in Thread : th[u].tgt.ctx \in Ctx
        BY <1>d DEF ThreadRecord, Target
      <3>9. ControlExact'
        BY <3>3, <3>4, <3>7, <3>8 DEF IInv, ControlExact
      <3>10. GuardInv'
        <4>1. \A u \in Thread : th'[u].st = "control" =>
                u \in rd'[th'[u].tgt.ctx] /\ th'[u].tgt.ne > 0
          BY <2>1, <3>7 DEF IInv, GuardInv
        <4>2. \A d \in Ctx : wr'[d] # NoThread =>
                rd'[d] = {} /\ th'[wr'[d]].st = "replace" /\ th'[wr'[d]].b.ctx = d
          BY <2>1, <2>2, <3>6 DEF IInv, GuardInv
        <4>3. \A u \in Thread : th'[u].st = "replace" => wr'[th'[u].b.ctx] = u
          BY <2>1, <3>7, SMTT(30) DEF IInv, GuardInv
        <4>4. over' = "no" => \A d \in Ctx : (wr'[d] = NoThread \/ ~th'[wr'[d]].unsure) =>
                nat'[d].obj = bind'[d].obj /\ nat'[d].epoch = bind'[d].epoch
          BY <2>1, <2>2, <3>4, <3>5, <3>6 DEF IInv, GuardInv
        <4> QED  BY Zenon, <4>1, <4>2, <4>3, <4>4 DEF GuardInv
      <3> QED  BY <3>9, <3>10, SMTT(30)
    <2> QED  BY Zenon, <1>7, <2>3, <2>4 DEF ctx_register
  <1>8. ASSUME NEW t \in Thread, BindingLocked(t) PROVE GuardInv' /\ ControlExact'
    <2> DEFINE c == th[t].b.ctx
    <2>1. /\ c \in Ctx /\ th[t].st = "drain" /\ over = "no" /\ over' = "no"
          /\ wr[c] = NoThread /\ rd[c] = {} /\ UNCHANGED <<nat, bind, rd>>
      BY <1>8, <1>d DEF BindingLocked, At, ThreadRecord, Binding
    <2>2. /\ th'[t].st = "replace" /\ th'[t].b = th[t].b
          /\ \A u \in Thread : u # t => th'[u] = th[u]
      BY <1>8, <1>d DEF BindingLocked, ThreadRecord
    <2>3. wr'[c] = t /\ \A d \in Ctx : d # c => wr'[d] = wr[d]
      BY <1>8, <2>1 DEF BindingLocked, IInv, TypeOK
    <2>4. \A d \in Ctx : wr[d] # NoThread => wr[d] \in Thread /\ wr[d] # t
      BY <2>1 DEF IInv, GuardInv, TypeOK
    <2>5. \A u \in Thread : th'[u].st = "control" => th'[u] = th[u]
      BY <2>2
    <2>6. ControlExact'
      BY Zenon, <2>1, <2>5 DEF IInv, ControlExact
    <2>7. nat[c].obj = bind[c].obj /\ nat[c].epoch = bind[c].epoch
      BY Zenon, <2>1 DEF IInv, GuardInv
    <2>8. \A u \in Thread : th'[u].st = "replace" => wr'[th'[u].b.ctx] = u
      <3> SUFFICES ASSUME NEW u \in Thread, th'[u].st = "replace" PROVE wr'[th'[u].b.ctx] = u
        OBVIOUS
      <3>1. CASE u = t
        BY <2>2, <2>3, <3>1
      <3>2. CASE u # t
        <4>1. th[u].st = "replace" /\ th'[u] = th[u] /\ wr[th[u].b.ctx] = u
          BY <2>2, <3>2 DEF IInv, GuardInv
        <4>2. th[u].b.ctx \in Ctx /\ th[u].b.ctx # c
          BY Zenon, <1>d, <2>1, <4>1 DEF ThreadRecord, Binding, Thread
        <4> QED  BY Zenon, <2>3, <4>1, <4>2
      <3> QED  BY <3>1, <3>2
    <2>9. GuardInv'
      <3>1. \A u \in Thread : th'[u].st = "control" =>
              u \in rd'[th'[u].tgt.ctx] /\ th'[u].tgt.ne > 0
        BY <2>1, <2>5, SMTT(30) DEF IInv, GuardInv
      <3>2. \A d \in Ctx : wr'[d] # NoThread =>
              rd'[d] = {} /\ th'[wr'[d]].st = "replace" /\ th'[wr'[d]].b.ctx = d
        BY <2>1, <2>2, <2>3, <2>4 DEF IInv, GuardInv
      <3>3. \A u \in Thread : th'[u].st = "replace" => wr'[th'[u].b.ctx] = u
        BY Zenon, <2>8 DEF IInv, GuardInv
      <3>4. over' = "no" => \A d \in Ctx : (wr'[d] = NoThread \/ ~th'[wr'[d]].unsure) =>
              nat'[d].obj = bind'[d].obj /\ nat'[d].epoch = bind'[d].epoch
        <4> SUFFICES ASSUME over' = "no", NEW d \in Ctx, wr'[d] = NoThread \/ ~th'[wr'[d]].unsure
                     PROVE  nat'[d].obj = bind'[d].obj /\ nat'[d].epoch = bind'[d].epoch
          BY Zenon
        <4>1. CASE d = c
          BY <2>1, <2>7, <4>1, Zenon
        <4>2. CASE d # c
          <5>1. wr[d] = NoThread \/ ~th[wr[d]].unsure
            BY <2>2, <2>3, <2>4, <4>2, Zenon
          <5> QED  BY <2>1, <5>1, Guards, Zenon
        <4> QED  BY <4>1, <4>2, Zenon
      <3> QED  BY Zenon, <3>1, <3>2, <3>3, <3>4 DEF GuardInv
    <2> QED  BY <2>6, <2>9
  <1>9. ASSUME NEW t \in Thread, ObjectReplaced(t) PROVE GuardInv' /\ ControlExact'
    <2> DEFINE c == th[t].b.ctx
               ne == bind[c].epoch + 1
    <2>1. c \in Ctx /\ th[t].st = "replace" /\ over = "no" /\ UNCHANGED rd
      BY Zenon, <1>9, <1>d DEF ObjectReplaced, At, ThreadRecord, Binding
    <2>2. nat' = [nat EXCEPT ![c] = [obj |-> th[t].obj, epoch |-> ne, dead |-> FALSE]]
      BY <1>9, ZenonT(30) DEF ObjectReplaced
    <2>3. \A d \in Ctx : d # c => nat'[d] = nat[d]
      BY Zenon, <2>2 DEF IInv, TypeOK
    <2>4. CASE ResultLost(t) /\ UNCHANGED <<bind, cur, hist>>
      BY <1>t, <2>1, <2>3, <2>4, Retried, ZenonT(30) DEF ResultLost, Retry
    <2>5. CASE /\ bind' = [bind EXCEPT ![c] = [obj |-> th[t].obj, epoch |-> ne]]
               /\ Unlock(t) /\ th' = [th EXCEPT ![t] = Idle]
      <3>1. \A d \in Ctx : d # c => bind'[d] = bind[d]
        BY Zenon, <2>5 DEF IInv, TypeOK
      <3>2. nat'[c].obj = bind'[c].obj /\ nat'[c].epoch = bind'[c].epoch
        BY Zenon, <2>1, <2>2, <2>5 DEF IInv, TypeOK
      <3>3. th'[t].st = "idle" /\ \A u \in Thread : u # t => th'[u] = th[u]
        BY Zenon, <1>d, <1>i, <2>5
      <3> QED  BY <1>t, <2>1, <2>3, <2>5, <3>1, <3>2, <3>3, Released, ZenonT(30)
    <2> QED  BY <1>9, <2>4, <2>5, ZenonT(30) DEF ObjectReplaced, Installed
  <1>10. ASSUME NEW t \in Thread, ObjectUnread(t) \/ ObjectBusy(t) \/ ObjectEnded(t)
         PROVE  GuardInv' /\ ControlExact'
    <2>1. th[t].st = "replace" /\ over = "no" /\ UNCHANGED <<nat, bind, rd>>
      BY Zenon, <1>10 DEF ObjectUnread, ObjectBusy, ObjectEnded, At
    <2>2. Retry(t) \/ Refuse(t)
      BY Zenon, <1>10 DEF ObjectUnread, ObjectBusy, ObjectEnded, ResultLost
    <2>3. CASE Retry(t)
      BY <1>t, <2>1, <2>3, Retried, ZenonT(30) DEF Retry
    <2>4. CASE Refuse(t)
      <3>1. /\ Unlock(t) /\ over' = "refused"
            /\ th'[t].st = "idle" /\ \A u \in Thread : u # t => th'[u] = th[u]
        BY <1>d, <1>i, <2>4 DEF Refuse
      <3> QED  BY Zenon, <1>t, <2>1, <3>1, Released
    <2> QED  BY <2>2, <2>3, <2>4
  <1>11. ASSUME NEW t \in Thread, execution_context_ctl(t) PROVE GuardInv' /\ ControlExact'
    <2> DEFINE g == th[t].tgt
    <2>1. /\ g.ctx \in Ctx /\ g.ne \in Nat /\ th[t].st = "have"
          /\ over = "no" /\ UNCHANGED <<nat, bind, wr, over>>
          /\ g.ne # 0 => wr[g.ctx] = NoThread
      BY <1>11, <1>d DEF execution_context_ctl, At, ThreadRecord, Target
    <2>2. CASE ~(g.ne # 0 /\ bind[g.ctx] = [obj |-> g.obj, epoch |-> g.ne])
      <3>1. UNCHANGED rd /\ th' = [th EXCEPT ![t] = Idle]
        BY <1>11, <2>2, ZenonT(30) DEF execution_context_ctl, execution_target_control, execution_binding_control
      <3>2. th'[t].st = "idle" /\ \A u \in Thread : u # t => th'[u] = th[u]
        BY <1>d, <1>i, <3>1, SMTT(30)
      <3> QED  BY Zenon, <1>t, <2>1, <3>1, <3>2, Quiet
    <2>3. CASE g.ne # 0 /\ bind[g.ctx] = [obj |-> g.obj, epoch |-> g.ne]
      <3>1. /\ rd' = [rd EXCEPT ![g.ctx] = @ \cup {t}]
            /\ th' = [th EXCEPT ![t] = [th[t] EXCEPT !.st = "control"]]
        BY <1>11, <2>3 DEF execution_context_ctl, execution_target_control, execution_binding_control
      <3>2. /\ th'[t].st = "control" /\ th'[t].tgt = g
            /\ \A u \in Thread : u # t => th'[u] = th[u]
        BY <1>d, <3>1 DEF ThreadRecord
      <3>3. /\ rd'[g.ctx] = rd[g.ctx] \cup {t}
            /\ \A d \in Ctx : d # g.ctx => rd'[d] = rd[d]
        <4>1. rd \in [Ctx -> SUBSET Thread]
          BY Guards, Zenon
        <4> QED  BY <2>1, <3>1, <4>1
      <3>4. nat[g.ctx].obj = g.obj /\ nat[g.ctx].epoch = g.ne
        <4>1. bind[g.ctx].obj = g.obj /\ bind[g.ctx].epoch = g.ne
          BY <2>3
        <4>2. nat[g.ctx].obj = bind[g.ctx].obj /\ nat[g.ctx].epoch = bind[g.ctx].epoch
          BY <2>1, <2>3, Guards
        <4> QED  BY <4>1, <4>2
      <3>5. ControlExact'
        <4> SUFFICES ASSUME NEW u \in Thread, th'[u].st = "control"
                     PROVE  /\ nat'[th'[u].tgt.ctx].obj = th'[u].tgt.obj
                            /\ nat'[th'[u].tgt.ctx].epoch = th'[u].tgt.ne
          BY Zenon DEF ControlExact
        <4>1. CASE u = t
          BY <2>1, <3>2, <3>4, <4>1, Zenon
        <4>2. CASE u # t
          <5>1. th'[u] = th[u] /\ th[u].st = "control"
            BY <3>2, <4>2, Zenon
          <5>2. nat[th[u].tgt.ctx].obj = th[u].tgt.obj /\ nat[th[u].tgt.ctx].epoch = th[u].tgt.ne
            BY <5>1, Guards, Zenon
          <5> QED  BY <2>1, <5>1, <5>2, Zenon
        <4> QED  BY <4>1, <4>2, Zenon
      <3>6. \A d \in Ctx : wr[d] # NoThread =>
              /\ wr[d] \in Thread /\ wr[d] # t /\ th'[wr[d]] = th[wr[d]]
        <4>1. \A d \in Ctx : wr[d] # NoThread => wr[d] \in Thread /\ wr[d] # t
          BY <2>1, Guards, Zenon
        <4> QED  BY <3>2, <4>1, Zenon
      <3>8. \A u \in Thread : th'[u].st = "control" =>
              u \in rd'[th'[u].tgt.ctx] /\ th'[u].tgt.ne > 0
        <4> SUFFICES ASSUME NEW u \in Thread, th'[u].st = "control"
                     PROVE  u \in rd'[th'[u].tgt.ctx] /\ th'[u].tgt.ne > 0
          BY Zenon
        <4>1. CASE u = t
          <5>1. g.ne > 0
            BY <2>1, <2>3
          <5> QED  BY <3>2, <3>3, <4>1, <5>1, Zenon
        <4>2. CASE u # t
          <5>1. th'[u] = th[u] /\ th[u].st = "control"
            BY <3>2, <4>2, Zenon
          <5>2. u \in rd[th[u].tgt.ctx] /\ th[u].tgt.ne > 0 /\ th[u].tgt.ctx \in Ctx
            BY <5>1, Guards, Zenon
          <5> QED  BY <3>3, <5>1, <5>2, Zenon
        <4> QED  BY <4>1, <4>2, Zenon
      <3>9. \A d \in Ctx : wr'[d] # NoThread =>
              rd'[d] = {} /\ th'[wr'[d]].st = "replace" /\ th'[wr'[d]].b.ctx = d
        <4> SUFFICES ASSUME NEW d \in Ctx, wr'[d] # NoThread
                     PROVE  rd'[d] = {} /\ th'[wr'[d]].st = "replace" /\ th'[wr'[d]].b.ctx = d
          BY Zenon
        <4>1. wr'[d] = wr[d] /\ d # g.ctx /\ th'[wr[d]] = th[wr[d]]
          BY <2>1, <2>3, <3>6, Zenon
        <4>2. rd[d] = {} /\ th[wr[d]].st = "replace" /\ th[wr[d]].b.ctx = d
          BY <4>1, Guards, Zenon
        <4> QED  BY <3>3, <4>1, <4>2, Zenon
      <3>10. \A u \in Thread : th'[u].st = "replace" => wr'[th'[u].b.ctx] = u
        <4> SUFFICES ASSUME NEW u \in Thread, th'[u].st = "replace" PROVE wr'[th'[u].b.ctx] = u
          BY Zenon
        <4>1. u # t
          BY <3>2
        <4>2. th'[u] = th[u] /\ th[u].st = "replace"
          BY <3>2, <4>1, Zenon
        <4>3. wr[th[u].b.ctx] = u
          BY <4>2, Guards, Zenon
        <4> QED  BY <2>1, <4>2, <4>3, Zenon
      <3>11. over' = "no" => \A d \in Ctx : (wr'[d] = NoThread \/ ~th'[wr'[d]].unsure) =>
              nat'[d].obj = bind'[d].obj /\ nat'[d].epoch = bind'[d].epoch
        <4> SUFFICES ASSUME NEW d \in Ctx, wr'[d] = NoThread \/ ~th'[wr'[d]].unsure
                     PROVE  nat'[d].obj = bind'[d].obj /\ nat'[d].epoch = bind'[d].epoch
          BY Zenon
        <4>1. wr[d] = NoThread \/ ~th[wr[d]].unsure
          BY <2>1, <3>6, Zenon
        <4> QED  BY <2>1, <4>1, Guards, Zenon
      <3> QED  BY Zenon, <3>5, <3>8, <3>9, <3>10, <3>11 DEF GuardInv
    <2> QED  BY Zenon, <2>2, <2>3
  <1>12. ASSUME NEW t \in Thread, NEW again \in BOOLEAN, ControlDone(t, again)
         PROVE  GuardInv' /\ ControlExact'
    <2> DEFINE c == th[t].tgt.ctx
    <2>1. /\ c \in Ctx /\ th[t].st = "control" /\ over = "no" /\ UNCHANGED <<nat, bind, wr, over>>
          /\ rd' = [rd EXCEPT ![c] = @ \ {t}]
      BY <1>12, <1>d DEF ControlDone, At, ThreadRecord, Target
    <2>2. th'[t].st \in {"idle", "have"} /\ \A u \in Thread : u # t => th'[u] = th[u]
      BY <1>12, <1>d, <1>i DEF ControlDone, ThreadRecord
    <2>3. rd'[c] = rd[c] \ {t} /\ \A d \in Ctx : d # c => rd'[d] = rd[d]
      BY Zenon, <2>1 DEF IInv, TypeOK
    <2>4. \A u \in Thread : th'[u].st \in {"control", "replace"} => th'[u] = th[u] /\ u # t
      BY Zenon, <2>2
    <2>5. \A u \in Thread : th[u].tgt.ctx \in Ctx
      BY <1>d, SMTT(30) DEF ThreadRecord, Target
    <2>6. ControlExact'
      BY Zenon, <2>1, <2>4 DEF IInv, ControlExact
    <2>7. \A d \in Ctx : wr[d] # NoThread =>
            /\ wr[d] \in Thread /\ wr[d] # t /\ th'[wr[d]] = th[wr[d]]
      <3>1. \A d \in Ctx : wr[d] # NoThread => wr[d] \in Thread /\ wr[d] # t
        BY <2>1, Guards, Zenon
      <3> QED  BY <2>2, <3>1, Zenon
    <2>8. GuardInv'
      <3>1. \A u \in Thread : th'[u].st = "control" =>
              u \in rd'[th'[u].tgt.ctx] /\ th'[u].tgt.ne > 0
        <4> SUFFICES ASSUME NEW u \in Thread, th'[u].st = "control"
                     PROVE  u \in rd'[th'[u].tgt.ctx] /\ th'[u].tgt.ne > 0
          BY Zenon
        <4>1. th'[u] = th[u] /\ u # t
          BY <2>4, Zenon
        <4>2. u \in rd[th[u].tgt.ctx] /\ th[u].tgt.ne > 0 /\ th[u].tgt.ctx \in Ctx
          BY <4>1, Guards, Zenon
        <4>3. u \in rd'[th[u].tgt.ctx]
          BY <2>3, <4>1, <4>2, Zenon
        <4> QED  BY <4>1, <4>2, <4>3, Zenon
      <3>2. \A d \in Ctx : wr'[d] # NoThread =>
              rd'[d] = {} /\ th'[wr'[d]].st = "replace" /\ th'[wr'[d]].b.ctx = d
        <4> SUFFICES ASSUME NEW d \in Ctx, wr'[d] # NoThread
                     PROVE  rd'[d] = {} /\ th'[wr'[d]].st = "replace" /\ th'[wr'[d]].b.ctx = d
          BY Zenon
        <4>1. wr'[d] = wr[d] /\ th'[wr[d]] = th[wr[d]]
          BY <2>1, <2>7, Zenon
        <4>2. rd[d] = {} /\ th[wr[d]].st = "replace" /\ th[wr[d]].b.ctx = d
          BY <4>1, Guards, Zenon
        <4>3. rd'[d] = {}
          BY <2>3, <4>2, Zenon
        <4> QED  BY <4>1, <4>2, <4>3, Zenon
      <3>3. \A u \in Thread : th'[u].st = "replace" => wr'[th'[u].b.ctx] = u
        <4> SUFFICES ASSUME NEW u \in Thread, th'[u].st = "replace" PROVE wr'[th'[u].b.ctx] = u
          BY Zenon
        <4>1. th'[u] = th[u] /\ th[u].st = "replace"
          BY <2>4, Zenon
        <4>2. wr[th[u].b.ctx] = u
          BY <4>1, Guards, Zenon
        <4> QED  BY <2>1, <4>1, <4>2, Zenon
      <3>4. over' = "no" => \A d \in Ctx : (wr'[d] = NoThread \/ ~th'[wr'[d]].unsure) =>
              nat'[d].obj = bind'[d].obj /\ nat'[d].epoch = bind'[d].epoch
        <4> SUFFICES ASSUME NEW d \in Ctx, wr'[d] = NoThread \/ ~th'[wr'[d]].unsure
                     PROVE  nat'[d].obj = bind'[d].obj /\ nat'[d].epoch = bind'[d].epoch
          BY Zenon
        <4>1. wr[d] = NoThread \/ ~th[wr[d]].unsure
          BY <2>1, <2>7, Zenon
        <4> QED  BY <2>1, <4>1, Guards, Zenon
      <3> QED  BY Zenon, <3>1, <3>2, <3>3, <3>4 DEF GuardInv
    <2> QED  BY <2>6, <2>8
  <1>13. ASSUME NEW c \in Ctx, NativeEnds(c) PROVE GuardInv' /\ ControlExact'
    <2>1. \A d \in Ctx : nat'[d].obj = nat[d].obj /\ nat'[d].epoch = nat[d].epoch
      BY <1>13 DEF NativeEnds, IInv, TypeOK
    <2>2. UNCHANGED <<bind, rd, wr, th, over>>
      BY <1>13 DEF NativeEnds
    <2>3. \A u \in Thread : th[u].tgt.ctx \in Ctx
      BY <1>d, SMTT(30) DEF ThreadRecord, Target
    <2>4. ControlExact'
      <3> SUFFICES ASSUME NEW u \in Thread, th[u].st = "control"
                   PROVE  /\ nat'[th[u].tgt.ctx].obj = th[u].tgt.obj
                          /\ nat'[th[u].tgt.ctx].epoch = th[u].tgt.ne
        BY <2>2, Zenon DEF ControlExact
      <3>1. nat[th[u].tgt.ctx].obj = th[u].tgt.obj /\ nat[th[u].tgt.ctx].epoch = th[u].tgt.ne
        BY Guards, Zenon
      <3> QED  BY <2>1, <2>3, <3>1, Zenon
    <2>5. GuardInv'
      BY <2>1, <2>2, Zenon DEF IInv, GuardInv
    <2> QED  BY <2>4, <2>5, Zenon
  <1>14. CASE UNCHANGED vars
    BY Zenon, <1>14 DEF vars, IInv, GuardInv, ControlExact
  <1> QED
    BY <1>1, <1>2, <1>3, <1>4, <1>5, <1>6, <1>7, <1>8, <1>9, <1>10, <1>11, <1>12, <1>13, <1>14, ZenonT(30)
    DEF Next, Step

LEMMA GuardInit == Init => GuardInv /\ ControlExact
  <1> SUFFICES ASSUME Init PROVE GuardInv /\ ControlExact
    OBVIOUS
  <1>1. \A t \in Thread : th[t].st = "idle"
    BY ZenonT(30) DEF Init, Idle
  <1>2. \A c \in Ctx : wr[c] = NoThread
    BY ZenonT(30) DEF Init
  <1>3. \A c \in Ctx : nat[c].obj = bind[c].obj /\ nat[c].epoch = bind[c].epoch
    BY ZenonT(30) DEF Init
  <1> QED  BY Zenon, <1>1, <1>2, <1>3 DEF GuardInv, ControlExact

(* Whatever image the program moves to meanwhile, and however often the    *)
(* result of a replacement is lost, a native control runs on the object    *)
(* and in the epoch of the target it was given.                            *)
THEOREM ControlSafe == Spec => []ControlExact
  <1>2. Init /\ TypeOK => IInv
    BY GuardInit DEF IInv
  <1>3. IInv => ControlExact
    BY DEF IInv
  <1> QED  BY <1>2, <1>3, TypeCorrect, GuardStep, PTL, SMTT(30) DEF Spec
=============================================================================
