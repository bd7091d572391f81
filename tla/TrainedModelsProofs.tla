-------------------------- MODULE TrainedModelsProofs --------------------------
(***************************************************************************)
(* What the ConfigMap of an InferenceService may list, proved for any      *)
(* number of models, objects, failed calls and restarts, with caches that  *)
(* are current or behind.                                                  *)
(***************************************************************************)
EXTENDS TrainedModels, FiniteSetTheorems, TLAPS

\* An object gets the finalizer and the label of its parent together, and is
\* promised memory only after that.
Good(o) ==
  /\ o.uid = 0 => o = None
  /\ o.allocated => o.finalizer
  /\ o.finalizer => o.parent
AllGood ==
  /\ \A m \in Models : Good(tm[m]) /\ Good(cache[m])
  /\ Good(worker.obj)

\* What the worker knows of the object it has read, at each of its calls.
WorkerKnows ==
  /\ worker.pc # "idle" => Exists(worker.obj)
  /\ worker.pc = "conditions" => worker.obj.finalizer
  /\ worker.pc = "enlist" => tm[worker.m].finalizer /\ tm[worker.m].allocated
  /\ worker.pc \in {"unlist", "unfinalize"} => worker.obj.deleting
  /\ worker.pc = "unfinalize" => worker.m \notin config

IInv == TypeOK /\ AllGood /\ WorkerKnows /\ ListedIsHeld

-----------------------------------------------------------------------------
\* A write of a good object leaves good objects, and changes no other one.
LEMMA WriteIsGood ==
  ASSUME NEW m \in Models, NEW o \in Objects, NEW q \in SUBSET Models,
         tm \in [Models -> Objects], \A k \in Models : Good(tm[k]),
         Good(o), Write(m, o, q)
  PROVE  /\ tm' \in [Models -> Objects]
         /\ \A k \in Models : Good(tm'[k])
         /\ tm'[m] = IF o.deleting /\ ~o.finalizer THEN None ELSE o
         /\ \A k \in Models \ {m} : tm'[k] = tm[k]
         /\ queue' \in SUBSET Models
<1>1. None \in Objects /\ Good(None)
  BY TrainedModelsAssumption DEF None, New, Objects, Good
<1> QED
  BY <1>1 DEF Write

\* Deleting an object that is there does not take its finalizer or its memory.
LEMMA DeleteIsGood ==
  ASSUME NEW m \in Models, NEW q \in SUBSET Models,
         tm \in [Models -> Objects], \A k \in Models : Good(tm[k]),
         Exists(tm[m]), Delete(m, q)
  PROVE  /\ tm' \in [Models -> Objects]
         /\ \A k \in Models : Good(tm'[k])
         /\ \A k \in Models : tm[k].finalizer =>
              tm'[k].finalizer /\ (tm[k].allocated => tm'[k].allocated)
         /\ \A k \in Models : tm'[k].allocated => tm[k].allocated
         /\ queue' \in SUBSET Models
<1> DEFINE o == [tm[m] EXCEPT !.deleting = TRUE]
<1>1. /\ o \in Objects /\ Good(o) /\ Write(m, o, q)
      /\ o.finalizer = tm[m].finalizer /\ o.allocated = tm[m].allocated
  BY DEF Objects, Good, Exists, Delete, None, New
<1>2. /\ tm' \in [Models -> Objects]
      /\ \A k \in Models : Good(tm'[k])
      /\ tm'[m] = IF o.deleting /\ ~o.finalizer THEN None ELSE o
      /\ \A k \in Models \ {m} : tm'[k] = tm[k]
      /\ queue' \in SUBSET Models
  BY <1>1, WriteIsGood
<1> HIDE DEF o
<1> QED
  BY <1>1, <1>2 DEF None, New

LEMMA InitIInv == Init => IInv
<1>1. None \in Objects /\ Good(None)
  BY TrainedModelsAssumption DEF None, New, Objects, Good
<1>2. Idle.pc = "idle" /\ Idle.obj = None
  BY DEF Idle
<1>3. ASSUME Init PROVE TypeOK
  <2>1. tm \in [Models -> Objects] /\ cache \in [Models -> Objects] /\ made \in 0..MaxUid
    BY <1>1, <1>3, TrainedModelsAssumption DEF Init
  <2>2. /\ worker \in {Idle} \cup [pc : Calls, m : Models, obj : Objects]
        /\ isvc \in {"live", "deleting", "gone"} /\ cached \in {"live", "deleting", "gone"}
        /\ isvcPc \in {"idle", "deleting"}
    BY <1>3 DEF Init
  <2> QED
    BY <1>3, <2>1, <2>2 DEF Init, TypeOK
<1>4. Init => AllGood /\ WorkerKnows /\ ListedIsHeld
  BY <1>1, <1>2 DEF Init, AllGood, WorkerKnows, ListedIsHeld
<1> QED
  BY <1>3, <1>4 DEF IInv

\* The users, the informers and the other controller.
LEMMA OthersIInv ==
  ASSUME IInv, Environment \/ Faults \/ Controller \/ SyncIsvc \/ CollectConfig
               \/ \E m \in Models : SyncModel(m)
  PROVE  IInv'
<1> USE DEF IInv
<1>1. /\ None \in Objects /\ Good(None)
      /\ tm \in [Models -> Objects] /\ \A k \in Models : Good(tm[k])
      /\ queue \in SUBSET Models /\ Idle.pc = "idle" /\ Idle.obj = None
  BY TrainedModelsAssumption DEF None, New, Objects, Good, TypeOK, AllGood, Idle
<1>2. ASSUME NEW m \in Models, CreateModel(m) PROVE IInv'
  <2> DEFINE o == New(made + 1)
  <2>1. /\ o \in Objects /\ Good(o) /\ Write(m, o, queue)
        /\ ~o.deleting /\ ~o.finalizer /\ ~o.allocated
        /\ tm[m] = None
    <3>1. made' = made + 1 /\ made + 1 \in 1..MaxUid /\ tm[m].uid = 0
      BY <1>2, TrainedModelsAssumption DEF CreateModel, Exists, TypeOK
    <3>2. o \in Objects /\ Good(o) /\ ~o.deleting /\ ~o.finalizer /\ ~o.allocated
      <4>1. made + 1 \in 0..MaxUid /\ made + 1 # 0
        BY <3>1, TrainedModelsAssumption
      <4> QED
        BY <4>1 DEF New, Objects, Good
    <3>3. Write(m, o, queue)
      BY <1>2, <3>1 DEF CreateModel
    <3>4. tm[m] = None
      BY <1>1, <3>1 DEF Good
    <3> QED
      BY <3>2, <3>3, <3>4
  <2>2. /\ tm' \in [Models -> Objects]
        /\ \A k \in Models : Good(tm'[k])
        /\ \A k \in Models \ {m} : tm'[k] = tm[k]
        /\ queue' \in SUBSET Models
    BY <1>1, <2>1, WriteIsGood
  <2>3. ~tm[m].finalizer
    BY <2>1 DEF None, New
  <2> HIDE DEF o
  <2>4. TypeOK'
    BY <1>2, <2>2, TrainedModelsAssumption
    DEF CreateModel, TypeOK, caches, parent, isvcCtl
  <2>5. (AllGood /\ WorkerKnows /\ ListedIsHeld)'
    BY <1>2, <2>2, <2>3
    DEF CreateModel, TypeOK, AllGood, WorkerKnows, ListedIsHeld, caches, parent, Idle
  <2> QED
    BY <2>4, <2>5
<1>3. ASSUME NEW m \in Models, NEW q \in SUBSET Models, Exists(tm[m]), Delete(m, q),
             children' \subseteq children,
             UNCHANGED <<caches, made, parent, worker, isvcPc, failed, faults>>
      PROVE  IInv'
  <2>1. /\ tm' \in [Models -> Objects]
        /\ \A k \in Models : Good(tm'[k])
        /\ \A k \in Models : tm[k].finalizer =>
             tm'[k].finalizer /\ (tm[k].allocated => tm'[k].allocated)
        /\ queue' \in SUBSET Models
    BY <1>1, <1>3, DeleteIsGood
  <2>2. TypeOK'
    BY <1>3, <2>1 DEF TypeOK, caches, parent
  <2>3. (AllGood /\ WorkerKnows /\ ListedIsHeld)'
    BY <1>3, <2>1 DEF TypeOK, AllGood, WorkerKnows, ListedIsHeld, caches, parent, Idle
  <2> QED
    BY <2>2, <2>3
<1>4. ASSUME NEW m \in Models, DeleteModel(m) PROVE IInv'
  BY <1>1, <1>3, <1>4 DEF DeleteModel, isvcCtl
<1>5. ASSUME NEW m \in Models, DeleteChild(m) PROVE IInv'
  <2>1. CASE Exists(tm[m])
    BY <1>1, <1>3, <1>5, <2>1 DEF DeleteChild
  <2>2. CASE ~Exists(tm[m])
    BY <1>5, <2>2
    DEF DeleteChild, TypeOK, AllGood, WorkerKnows, ListedIsHeld, caches, parent
  <2> QED
    BY <2>1, <2>2
<1>6. ASSUME NEW m \in Models, SyncModel(m) PROVE IInv'
  BY <1>1, <1>6
  DEF SyncModel, TypeOK, AllGood, WorkerKnows, ListedIsHeld, parent, isvcCtl
<1>7. ASSUME SyncIsvc \/ DeleteIsvc \/ ReadyChanges \/ CollectConfig \/ CreateConfig
             \/ ListChildren \/ RemoveFinalizer \/ RemoveFinalizerFails
             \/ \E m \in Models : DeleteChildFails(m)
      PROVE  IInv'
  <2>1. /\ tm' = tm /\ cache' = cache /\ worker' = worker /\ config' \subseteq config
        /\ lags' = lags /\ queue' = queue /\ made' = made
    BY <1>7
    DEF SyncIsvc, DeleteIsvc, ReadyChanges, CollectConfig, CreateConfig, ListChildren,
        RemoveFinalizer, RemoveFinalizerFails, DeleteChildFails, caches, parent
  <2>2. /\ isvc' \in {"live", "deleting", "gone"} /\ cached' \in {"live", "deleting", "gone"}
        /\ isReady' \in BOOLEAN /\ hasConfig' \in BOOLEAN
        /\ isvcPc' \in {"idle", "deleting"}
    BY <1>7
    DEF SyncIsvc, DeleteIsvc, ReadyChanges, CollectConfig, CreateConfig, ListChildren,
        RemoveFinalizer, RemoveFinalizerFails, DeleteChildFails, caches, parent, isvcCtl, TypeOK
  <2>3. /\ children' \subseteq Models /\ failed' \subseteq Models
        /\ faults' \in 0..MaxFaults
    BY <1>7, TrainedModelsAssumption
    DEF SyncIsvc, DeleteIsvc, ReadyChanges, CollectConfig, CreateConfig, ListChildren,
        RemoveFinalizer, RemoveFinalizerFails, DeleteChildFails, caches, parent, isvcCtl, TypeOK
  <2>4. TypeOK'
    BY <2>1, <2>2, <2>3 DEF TypeOK
  <2>5. (AllGood /\ WorkerKnows /\ ListedIsHeld)'
    BY <2>1 DEF TypeOK, AllGood, WorkerKnows, ListedIsHeld
  <2> QED
    BY <2>4, <2>5
<1>8. ASSUME CallFails PROVE IInv'
  BY <1>1, <1>8, TrainedModelsAssumption
  DEF CallFails, Requeue, TypeOK, AllGood, WorkerKnows, ListedIsHeld, caches, parent, isvcCtl
<1>9. ASSUME Restart PROVE IInv'
  BY <1>1, <1>9, TrainedModelsAssumption
  DEF Restart, TypeOK, AllGood, WorkerKnows, ListedIsHeld, parent
<1> QED
  BY <1>2, <1>4, <1>5, <1>6, <1>7, <1>8, <1>9 DEF Environment, Faults, Controller

\* The worker.
LEMMA WorkerIInv ==
  ASSUME IInv, Worker \/ \E m \in Models : Begin(m)
  PROVE  IInv'
<1> USE DEF IInv
<1>1. /\ None \in Objects /\ Good(None)
      /\ tm \in [Models -> Objects] /\ cache \in [Models -> Objects]
      /\ \A k \in Models : Good(tm[k]) /\ Good(cache[k])
      /\ queue \in SUBSET Models
      /\ Idle.pc = "idle" /\ Idle.obj = None /\ Idle.m = NoModel
      /\ worker # Idle => worker.m \in Models /\ worker.obj \in Objects
      /\ worker.pc \in Calls => worker # Idle
  BY TrainedModelsAssumption DEF None, New, Objects, Good, TypeOK, AllGood, Idle, Calls
<1>2. \A m \in Models : Object(m) \in Objects /\ Good(Object(m))
  BY <1>1 DEF Object
<1>3. ASSUME NEW m \in Models, worker = Idle, BeginDelete(m),
             UNCHANGED <<caches, made, parent, isvcCtl, faults>>
      PROVE  IInv'
  <2>1. /\ tm' \in [Models -> Objects]
        /\ \A k \in Models : Good(tm'[k])
        /\ \A k \in Models : tm[k].finalizer =>
             tm'[k].finalizer /\ (tm[k].allocated => tm'[k].allocated)
        /\ queue' \in SUBSET Models
    <3>1. queue \ {m} \in SUBSET Models
      BY <1>1
    <3> QED
      BY <1>1, <1>3, <3>1, DeleteIsGood DEF BeginDelete
  <2> QED
    BY <1>1, <1>3, <2>1
    DEF BeginDelete, TypeOK, AllGood, WorkerKnows, ListedIsHeld, caches, parent, isvcCtl
<1>4. ASSUME NEW m \in Models, BeginReconcile(m),
             UNCHANGED <<caches, made, parent, isvcCtl, faults>>
      PROVE  IInv'
  <2>1. /\ worker'.pc \in {"register", "conditions", "unlist"}
        /\ worker' \in [pc : Calls, m : Models, obj : Objects]
        /\ worker'.obj = Object(m) /\ Exists(Object(m))
        /\ worker'.pc = "conditions" => Object(m).finalizer
        /\ worker'.pc = "unlist" => Object(m).deleting
    BY <1>2, <1>4 DEF BeginReconcile, Calls
  <2>2. queue' \subseteq Models /\ tm' = tm
    BY <1>1, <1>4 DEF BeginReconcile
  <2>3. TypeOK'
    BY <1>4, <2>1, <2>2 DEF TypeOK, caches, parent, isvcCtl
  <2>4. (AllGood /\ WorkerKnows /\ ListedIsHeld)'
    BY <1>2, <1>4, <2>1, <2>2 DEF AllGood, WorkerKnows, ListedIsHeld, caches, parent
  <2> QED
    BY <2>3, <2>4
<1>5. ASSUME NEW m \in Models, Begin(m) PROVE IInv'
  <2>1. CASE ~Exists(Object(m)) /\ queue' = queue \ {m} /\ UNCHANGED <<tm, worker>>
    BY <1>5, <2>1
    DEF Begin, TypeOK, AllGood, WorkerKnows, ListedIsHeld, caches, parent, isvcCtl
  <2> QED
    BY <1>3, <1>4, <1>5, <2>1 DEF Begin
<1>6. ASSUME worker # Idle, Requeue, UNCHANGED <<caches, made, parent, isvcCtl, faults>>
      PROVE  IInv'
  BY <1>1, <1>6
  DEF Requeue, TypeOK, AllGood, WorkerKnows, ListedIsHeld, caches, parent, isvcCtl
\* A write of the worker that keeps the finalizer.
<1>7. ASSUME NEW o \in Objects, NEW q \in SUBSET Models,
             worker # Idle, tm[worker.m] = worker.obj, Write(worker.m, o, q),
             Good(o), Exists(o), o.finalizer, worker.obj.allocated => o.allocated,
             \/ worker' = Idle
             \/ worker' = [worker EXCEPT !.pc = "conditions", !.obj = o]
             \/ o.allocated /\ worker' = [worker EXCEPT !.pc = "enlist", !.obj = o],
             UNCHANGED <<caches, made, parent, isvcCtl, faults>>
      PROVE  IInv'
  <2>1. /\ tm' \in [Models -> Objects]
        /\ \A k \in Models : Good(tm'[k])
        /\ tm'[worker.m] = o
        /\ \A k \in Models \ {worker.m} : tm'[k] = tm[k]
        /\ queue' \in SUBSET Models
    BY <1>1, <1>7, WriteIsGood
  <2>2. \/ worker' = Idle
        \/ /\ worker' \in [pc : Calls, m : Models, obj : Objects]
           /\ worker'.obj = o /\ worker'.m = worker.m
           /\ \/ worker'.pc = "conditions"
              \/ worker'.pc = "enlist" /\ o.allocated
    BY <1>1, <1>7 DEF TypeOK, Calls
  <2>3. TypeOK'
    BY <1>7, <2>1, <2>2 DEF TypeOK, caches, parent, isvcCtl
  <2>4. (AllGood /\ WorkerKnows)'
    BY <1>1, <1>7, <2>1, <2>2 DEF AllGood, WorkerKnows, caches
  <2>5. ListedIsHeld'
    BY <1>7, <2>1 DEF ListedIsHeld, TypeOK, parent
  <2> QED
    BY <2>3, <2>4, <2>5
<1>8. ASSUME Register PROVE IInv'
  <2> DEFINE o == [worker.obj EXCEPT !.finalizer = TRUE, !.parent = TRUE]
  <2>1. worker # Idle /\ worker.obj \in Objects /\ Good(worker.obj)
    BY <1>1, <1>8 DEF Register, AllGood, Calls
  <2>2. CASE Requeue
    BY <1>6, <1>8, <2>1, <2>2 DEF Register
  <2>3. CASE /\ tm[worker.m] = worker.obj
             /\ Write(worker.m, o, queue)
             /\ worker' = [worker EXCEPT !.pc = "conditions", !.obj = o]
    <3>1. Exists(worker.obj)
      BY <1>8 DEF Register, WorkerKnows
    <3>2. /\ o \in Objects /\ Good(o) /\ Exists(o) /\ o.finalizer
          /\ o.allocated = worker.obj.allocated
      BY <2>1, <3>1 DEF Objects, Good, Exists
    <3> HIDE DEF o
    <3> QED
      BY <1>1, <1>7, <1>8, <2>1, <2>3, <3>2 DEF Register
  <2> QED
    BY <1>8, <2>2, <2>3 DEF Register, Update
<1>9. ASSUME UpdateConditions PROVE IInv'
  <2> DEFINE o == IF Fits THEN [worker.obj EXCEPT !.allocated = TRUE] ELSE worker.obj
  <2>1. /\ worker # Idle /\ worker.m \in Models
        /\ worker.obj \in Objects /\ Good(worker.obj) /\ Exists(worker.obj)
        /\ worker.obj.finalizer
    BY <1>1, <1>9 DEF UpdateConditions, AllGood, WorkerKnows, Calls
  <2>2. /\ o \in Objects /\ Good(o) /\ Exists(o) /\ o.finalizer
        /\ worker.obj.allocated => o.allocated
        /\ Fits => o.allocated
    BY <2>1 DEF Objects, Good, Exists
  <2>3. UNCHANGED <<caches, made, parent, isvcCtl, faults>>
    BY <1>9 DEF UpdateConditions
  <2>4. \/ Requeue
        \/ Fits /\ Update(o, [worker EXCEPT !.pc = "enlist", !.obj = o])
        \/ /\ tm[worker.m] = worker.obj
           /\ Write(worker.m, o, queue \cup {worker.m})
           /\ worker' = Idle
    BY <1>9 DEF UpdateConditions
  <2> HIDE DEF o
  <2>5. CASE Requeue
    BY <1>6, <2>1, <2>3, <2>5
  <2>6. CASE Fits /\ Update(o, [worker EXCEPT !.pc = "enlist", !.obj = o])
    <3>1. CASE Requeue
      BY <1>6, <2>1, <2>3, <3>1
    <3>2. CASE /\ tm[worker.m] = worker.obj
               /\ Write(worker.m, o, queue)
               /\ worker' = [worker EXCEPT !.pc = "enlist", !.obj = o]
      BY <1>1, <1>7, <2>1, <2>2, <2>3, <2>6, <3>2
    <3> QED
      BY <2>6, <3>1, <3>2 DEF Update
  <2>7. CASE /\ tm[worker.m] = worker.obj
             /\ Write(worker.m, o, queue \cup {worker.m})
             /\ worker' = Idle
    <3>1. queue \cup {worker.m} \in SUBSET Models
      BY <1>1, <2>1
    <3> QED
      BY <1>7, <2>1, <2>2, <2>3, <2>7, <3>1
  <2> QED
    BY <2>4, <2>5, <2>6, <2>7
<1>10. ASSUME ConfigMissing PROVE IInv'
  BY <1>1, <1>6, <1>10 DEF ConfigMissing, Calls
<1>11. ASSUME Enlist PROVE IInv'
  BY <1>1, <1>11
  DEF Enlist, Calls, TypeOK, AllGood, WorkerKnows, ListedIsHeld, caches, isvcCtl
<1>12. ASSUME Unlist PROVE IInv'
  <2>1. /\ worker' \in [pc : Calls, m : Models, obj : Objects]
        /\ worker'.pc = "unfinalize" /\ worker'.m = worker.m /\ worker'.obj = worker.obj
    BY <1>1, <1>12 DEF Unlist, TypeOK, Calls
  <2> QED
    BY <1>1, <1>12, <2>1
    DEF Unlist, TypeOK, AllGood, WorkerKnows, ListedIsHeld, caches, isvcCtl
<1>13. ASSUME Unfinalize PROVE IInv'
  <2> DEFINE o == [worker.obj EXCEPT !.finalizer = FALSE]
  <2>1. /\ worker # Idle /\ worker.m \in Models /\ worker.m \notin config
        /\ worker.obj \in Objects /\ worker.obj.deleting
    BY <1>1, <1>13 DEF Unfinalize, WorkerKnows, Calls
  <2>2. CASE Requeue
    BY <1>6, <1>13, <2>1, <2>2 DEF Unfinalize
  <2>3. CASE Write(worker.m, o, queue) /\ worker' = Idle
    <3>1. o.deleting /\ ~o.finalizer
      BY <2>1 DEF Objects
    <3>2. tm' = [tm EXCEPT ![worker.m] = None] /\ queue' \subseteq Models
      BY <1>1, <2>1, <2>3, <3>1 DEF Write
    <3>3. TypeOK'
      BY <1>1, <1>13, <2>3, <3>2 DEF Unfinalize, TypeOK, caches, parent, isvcCtl
    <3>4. (AllGood /\ WorkerKnows /\ ListedIsHeld)'
      BY <1>1, <1>13, <2>1, <2>3, <3>2
      DEF Unfinalize, AllGood, WorkerKnows, ListedIsHeld, TypeOK, caches, parent
    <3> QED
      BY <3>3, <3>4
  <2> QED
    BY <1>13, <2>2, <2>3 DEF Unfinalize, Update
<1> QED
  BY <1>5, <1>8, <1>9, <1>10, <1>11, <1>12, <1>13 DEF Worker

-----------------------------------------------------------------------------
\* The inductive invariant.
THEOREM Invariance == Spec => []IInv
<1>1. IInv /\ [Next]_vars => IInv'
  <2>1. ASSUME IInv, UNCHANGED vars PROVE IInv'
    BY <2>1
    DEF vars, caches, parent, isvcCtl, IInv, TypeOK, AllGood, WorkerKnows, ListedIsHeld
  <2> QED
    BY <2>1, OthersIInv, WorkerIInv DEF Next
<1> QED
  BY <1>1, InitIInv, PTL DEF Spec

\* However many models, failures and restarts, and however far the caches are
\* behind: the ConfigMap lists only models whose object is there, keeps its
\* finalizer and was promised memory.
THEOREM ListedModelsAreHeld == Spec => []ListedIsHeld
<1>1. IInv => ListedIsHeld
  BY DEF IInv
<1> QED
  BY <1>1, Invariance, PTL

-----------------------------------------------------------------------------
Allocated == {m \in Models : tm[m].allocated}

LEMMA FewerFit ==
  ASSUME tm' \in [Models -> Objects], Allocated' \subseteq Allocated, lags' = lags,
         MemoryRespected
  PROVE  MemoryRespected'
<1>1. IsFiniteSet(Allocated) /\ Cardinality(Allocated) \in Nat
  BY TrainedModelsAssumption, FS_Subset, FS_CardinalityType DEF Allocated
<1>2. Cardinality(Allocated') <= Cardinality(Allocated) /\ Cardinality(Allocated') \in Nat
  BY <1>1, FS_Subset, FS_CardinalityType
<1> QED
  BY <1>1, <1>2, TrainedModelsAssumption DEF MemoryRespected, Allocated

\* Only the worker promises memory, to one model, after it has counted the others.
LEMMA PromiseFits ==
  ASSUME IInv, MemoryRespected, UpdateConditions
  PROVE  MemoryRespected'
<1> USE DEF IInv
<1>1. /\ tm \in [Models -> Objects] /\ \A k \in Models : Good(tm[k])
      /\ worker.m \in Models /\ worker.obj \in Objects /\ Good(worker.obj)
      /\ worker.obj.finalizer /\ lags' = lags
  BY DEF TypeOK, AllGood, WorkerKnows, UpdateConditions, Calls, Idle, caches
<1>2. CASE tm' = tm
  BY <1>1, <1>2, FewerFit DEF Allocated
<1>3. CASE /\ tm[worker.m] = worker.obj
           /\ \/ ~Fits /\ tm' = [tm EXCEPT ![worker.m] = worker.obj]
              \/ Fits /\ tm' = [tm EXCEPT ![worker.m] = [worker.obj EXCEPT !.allocated = TRUE]]
  <2>1. CASE ~Fits \/ worker.obj.allocated
    <3>1. tm' \in [Models -> Objects] /\ Allocated' \subseteq Allocated
      BY <1>1, <1>3, <2>1 DEF Allocated, Objects
    <3> QED
      BY <1>1, <3>1, FewerFit
  <2>2. CASE Fits /\ ~worker.obj.allocated /\ ~lags
    <3>1. Siblings = Allocated /\ worker.m \notin Allocated
      BY <1>1, <1>3, <2>2 DEF Siblings, Allocated, Object, Good
    <3>2. IsFiniteSet(Allocated) /\ Cardinality(Allocated) \in Nat
      BY TrainedModelsAssumption, FS_Subset, FS_CardinalityType DEF Allocated
    <3>3. Cardinality(Allocated) + 1 <= Capacity
      BY <2>2, <3>1 DEF Fits, Requested
    <3>4. Allocated' = Allocated \cup {worker.m}
      BY <1>1, <1>3, <2>2 DEF Allocated, Objects
    <3>5. Cardinality(Allocated') = Cardinality(Allocated) + 1
      BY <3>1, <3>2, <3>4, FS_AddElement
    <3> QED
      BY <3>3, <3>5 DEF MemoryRespected, Allocated
  <2> QED
    BY <1>1, <2>1, <2>2 DEF MemoryRespected
<1> DEFINE o == IF Fits THEN [worker.obj EXCEPT !.allocated = TRUE] ELSE worker.obj
<1>4. \/ tm' = tm
      \/ tm[worker.m] = worker.obj /\ Write(worker.m, o, queue)
      \/ tm[worker.m] = worker.obj /\ Write(worker.m, o, queue \cup {worker.m})
  BY DEF UpdateConditions, Update, Requeue
<1>5. o.finalizer
  BY <1>1 DEF Objects
<1>6. tm' = tm \/ (tm[worker.m] = worker.obj /\ tm' = [tm EXCEPT ![worker.m] = o])
  BY <1>4, <1>5 DEF Write
<1> QED
  BY <1>2, <1>3, <1>6

LEMMA MemoryStep ==
  ASSUME IInv, IInv', MemoryRespected, [Next]_vars
  PROVE  MemoryRespected'
<1> USE DEF IInv
<1>1. /\ tm \in [Models -> Objects] /\ tm' \in [Models -> Objects]
      /\ \A k \in Models : Good(tm[k])
      /\ queue \in SUBSET Models
  BY DEF TypeOK, AllGood
<1>2. lags' = lags
  BY DEF Next, Environment, Faults, Worker, Controller, Begin, CreateModel, DeleteModel,
         SyncModel, SyncIsvc, DeleteIsvc, ReadyChanges, CollectConfig, Register,
         UpdateConditions, ConfigMissing, Enlist, Unlist, Unfinalize, CallFails,
         CreateConfig, ListChildren, DeleteChild, DeleteChildFails, RemoveFinalizer,
         RemoveFinalizerFails, Restart, caches, vars
<1>3. ASSUME NEW m \in Models, NEW q \in SUBSET Models, Exists(tm[m]), Delete(m, q)
      PROVE  Allocated' \subseteq Allocated
  BY <1>1, <1>3, DeleteIsGood DEF Allocated
<1>4. ASSUME UpdateConditions PROVE MemoryRespected'
  BY <1>4, PromiseFits
<1>5. ASSUME NEW m \in Models, CreateModel(m) PROVE Allocated' \subseteq Allocated
  BY <1>1, <1>5 DEF CreateModel, Write, New, None, Allocated
<1>6. ASSUME NEW m \in Models, DeleteModel(m) \/ DeleteChild(m) \/ Begin(m)
      PROVE  Allocated' \subseteq Allocated
  <2>1. CASE tm' = tm
    BY <2>1 DEF Allocated
  <2>2. \/ tm' = tm
        \/ Exists(tm[m]) /\ Delete(m, queue)
        \/ Exists(tm[m]) /\ Delete(m, queue \ {m})
    BY <1>6 DEF DeleteModel, DeleteChild, Begin, BeginDelete, BeginReconcile
  <2> QED
    BY <1>1, <1>3, <2>1, <2>2
<1>7. ASSUME Register \/ Unfinalize PROVE Allocated' \subseteq Allocated
  <2> DEFINE o == IF worker.pc = "register"
                  THEN [worker.obj EXCEPT !.finalizer = TRUE, !.parent = TRUE]
                  ELSE [worker.obj EXCEPT !.finalizer = FALSE]
  <2>1. /\ worker.m \in Models /\ worker.obj \in Objects
        /\ o.allocated = worker.obj.allocated
    BY <1>7 DEF Register, Unfinalize, TypeOK, Calls, Idle, Objects
  <2>2. tm' = tm \/ (tm[worker.m] = worker.obj /\ Write(worker.m, o, queue))
    BY <1>7 DEF Register, Unfinalize, Update, Requeue
  <2> HIDE DEF o
  <2> QED
    BY <1>1, <2>1, <2>2 DEF Write, None, New, Allocated
<1>8. ASSUME \/ ConfigMissing \/ Enlist \/ Unlist \/ CallFails \/ SyncIsvc \/ DeleteIsvc
             \/ ReadyChanges \/ CollectConfig \/ CreateConfig \/ ListChildren
             \/ RemoveFinalizer \/ RemoveFinalizerFails \/ Restart \/ UNCHANGED vars
             \/ \E m \in Models : SyncModel(m) \/ DeleteChildFails(m)
      PROVE  Allocated' \subseteq Allocated
  <2>1. tm' = tm
    BY <1>8
    DEF ConfigMissing, Enlist, Unlist, CallFails, Requeue, SyncIsvc, DeleteIsvc,
        ReadyChanges, CollectConfig, CreateConfig, ListChildren, RemoveFinalizer,
        RemoveFinalizerFails, Restart, SyncModel, DeleteChildFails, vars
  <2> QED
    BY <2>1 DEF Allocated
<1>9. Allocated' \subseteq Allocated => MemoryRespected'
  BY <1>1, <1>2, FewerFit
<1> QED
  BY <1>4, <1>5, <1>6, <1>7, <1>8, <1>9
  DEF Next, Environment, Faults, Worker, Controller

\* While the caches are current, the models that were promised memory fit into
\* the predictor, however many there are and whatever is created, deleted,
\* restarted and fails meanwhile.
THEOREM PromisesFit == Spec => []MemoryRespected
<1>1. Init => MemoryRespected
  <2>1. ASSUME Init PROVE Allocated = {}
    BY <2>1 DEF Init, Allocated, None, New
  <2> QED
    BY <2>1, FS_EmptySet, TrainedModelsAssumption DEF MemoryRespected, Allocated
<1>2. IInv /\ IInv' /\ MemoryRespected /\ [Next]_vars => MemoryRespected'
  BY MemoryStep
<1> QED
  BY <1>1, <1>2, Invariance, PTL DEF Spec

-----------------------------------------------------------------------------
(* What leaves the ConfigMap.                                              *)

\* What a step does to the objects: one goes on, with its deletion begun at most,
\* or it is removed, or a new one is made.
ObjectStep(m) ==
  \/ tm'[m].uid = tm[m].uid /\ (tm[m].deleting => tm'[m].deleting)
  \/ tm'[m] = None
  \/ tm[m] = None /\ tm'[m].uid = made + 1 /\ made' = made + 1
CacheStep(m) == cache'[m] = cache[m] \/ (cache'[m] = tm[m] /\ tm' = tm)

\* The worker goes on with the object it has written, or with none.
WorkerGoesOn ==
  \/ worker' = worker
  \/ worker' = Idle
  \/ /\ worker # Idle /\ worker' # Idle
     /\ worker'.m = worker.m
     /\ worker'.obj.uid = worker.obj.uid
     /\ worker'.obj.deleting = worker.obj.deleting
     /\ \/ /\ worker.pc \in {"register", "conditions"}
           /\ worker'.pc \in {"conditions", "enlist"}
           /\ tm'[worker.m].uid = worker.obj.uid
        \/ worker'.pc = "unfinalize"

\* Such steps keep the invariant, if they list nothing.
LEMMA StepsKeepListing ==
  ASSUME IInv, IInv', ListingIInv,
         \A m \in Models : ObjectStep(m) /\ CacheStep(m),
         lags' = lags, made' \in {made, made + 1}, config' \subseteq config, WorkerGoesOn
  PROVE  ListingIInv'
<1>1. /\ made \in Nat /\ made' \in Nat /\ made <= made'
      /\ \A m \in Models : /\ tm[m].uid \in Nat /\ cache[m].uid \in Nat
                           /\ tm'[m].uid \in Nat /\ cache'[m].uid \in Nat
      /\ worker # Idle => /\ worker.m \in Models /\ worker.obj.uid \in Nat
                          /\ worker.obj.uid # 0 /\ worker.pc \in Calls
  <2>1. made \in Nat /\ made' \in Nat
    BY TrainedModelsAssumption DEF IInv, TypeOK
  <2>2. \A o \in Objects : o.uid \in Nat
    BY TrainedModelsAssumption DEF Objects
  <2>3. worker # Idle => /\ worker.m \in Models /\ worker.obj \in Objects
                         /\ worker.pc \in Calls
    BY DEF IInv, TypeOK
  <2>4. worker # Idle => worker.obj.uid # 0
    BY <2>3 DEF IInv, WorkerKnows, Exists, Calls
  <2> QED
    BY <2>1, <2>2, <2>3, <2>4 DEF IInv, TypeOK
<1>2. None.uid = 0 /\ ~None.deleting /\ ~None.finalizer
  BY DEF None, New
<1>3. \A m \in Models : (tm'[m] = None \/ tm[m] = None) => m \notin config'
  BY <1>2 DEF IInv, ListedIsHeld
<1>4. ASSUME NEW m \in Models
      PROVE  /\ tm'[m].uid <= made' /\ cache'[m].uid <= made'
             /\ IsEarlier(cache'[m], tm'[m])
             /\ lags' /\ m \in config' => cache'[m].uid = tm'[m].uid
  <2>1. /\ tm[m].uid <= made /\ cache[m].uid <= made /\ IsEarlier(cache[m], tm[m])
        /\ lags /\ m \in config => cache[m].uid = tm[m].uid
        /\ cache[m].uid = 0 => ~cache[m].deleting
    BY <1>2 DEF ListingIInv, CopiesRight, ListedIsCached, IInv, AllGood, Good
  <2>2. ObjectStep(m) /\ CacheStep(m)
    OBVIOUS
  <2>3. tm'[m].uid <= made' /\ cache'[m].uid <= made'
    BY <1>1, <1>2, <2>1, <2>2 DEF ObjectStep, CacheStep
  <2>4. CASE cache'[m] = tm[m] /\ tm' = tm
    BY <2>3, <2>4 DEF IsEarlier
  <2>5. CASE cache'[m] = cache[m]
    <3>1. CASE tm'[m].uid = tm[m].uid /\ (tm[m].deleting => tm'[m].deleting)
      BY <2>1, <2>3, <2>5, <3>1 DEF IsEarlier
    <3>2. CASE tm'[m] = None
      BY <1>2, <1>3, <2>1, <2>3, <2>5, <3>2 DEF IsEarlier
    <3>3. CASE tm[m] = None /\ tm'[m].uid = made + 1 /\ made' = made + 1
      <4>1. cache[m].uid # made + 1
        BY <1>1, <2>1
      <4> QED
        BY <1>3, <2>3, <2>5, <3>3, <4>1 DEF IsEarlier
    <3> QED
      BY <2>2, <2>5, <3>1, <3>2, <3>3 DEF ObjectStep
  <2> QED
    BY <2>2, <2>4, <2>5 DEF CacheStep
\* An object the worker has read and that is there no more never comes again.
<1>5. ASSUME worker # Idle
      PROVE  /\ worker.obj.uid <= made'
             /\ IsEarlier(worker.obj, tm'[worker.m])
             /\ tm'[worker.m].uid = worker.obj.uid => tm[worker.m].uid = worker.obj.uid
  <2>1. /\ worker.obj.uid <= made /\ IsEarlier(worker.obj, tm[worker.m])
        /\ ObjectStep(worker.m)
    BY <1>1, <1>5 DEF ListingIInv, CopiesRight
  <2>2. worker.obj.uid # made + 1
    BY <1>1, <1>5, <2>1
  <2>3. worker.obj.uid <= made'
    BY <1>1, <1>5, <2>1
  <2> QED
    BY <1>1, <1>2, <1>5, <2>1, <2>2, <2>3 DEF IsEarlier, ObjectStep
<1>6. Idle.pc = "idle"
  BY DEF Idle
<1>7. CopiesRight'
  <2>1. worker' # Idle =>
          worker'.obj.uid <= made' /\ IsEarlier(worker'.obj, tm'[worker'.m])
    BY <1>5 DEF WorkerGoesOn, IsEarlier
  <2> QED
    BY <1>4, <2>1 DEF CopiesRight
<1>8. ASSUME lags', worker'.pc \in {"register", "conditions", "enlist"},
             worker'.obj.uid = tm'[worker'.m].uid
      PROVE  cache'[worker'.m].uid = tm'[worker'.m].uid
  <2>1. /\ worker # Idle /\ worker'.m = worker.m /\ worker'.obj.uid = worker.obj.uid
        /\ worker.pc \in {"register", "conditions", "enlist"}
    BY <1>6, <1>8 DEF WorkerGoesOn
  <2>2. tm[worker.m].uid = worker.obj.uid /\ worker.m \in Models
    BY <1>1, <1>5, <1>8, <2>1
  <2>3. cache[worker.m].uid = tm[worker.m].uid
    BY <1>8, <2>1, <2>2 DEF ListingIInv, ListedIsCached
  <2> QED
    BY <1>8, <2>1, <2>2, <2>3 DEF CacheStep
<1>9. worker'.pc = "enlist" => worker'.obj.uid = tm'[worker'.m].uid
  <2>1. CASE worker'.pc = "enlist" /\ worker' = worker
    <3>1. worker # Idle /\ worker.m \in Models /\ worker.obj.uid = tm[worker.m].uid
      BY <1>1, <1>6, <2>1 DEF ListingIInv, ListedIsCached
    <3>2. tm'[worker.m].finalizer /\ tm[worker.m].finalizer
      BY <2>1 DEF IInv, WorkerKnows
    <3> QED
      BY <1>2, <2>1, <3>1, <3>2 DEF ObjectStep
  <2> QED
    BY <1>6, <2>1 DEF WorkerGoesOn
<1>10. worker'.pc = "unlist" /\ worker'.m \in config' => worker'.obj.uid = tm'[worker'.m].uid
  <2>1. CASE worker'.pc = "unlist" /\ worker'.m \in config'
    <3>1. worker' = worker /\ worker # Idle
      BY <1>6, <2>1 DEF WorkerGoesOn
    <3>2. worker.m \in Models /\ worker.obj.uid = tm[worker.m].uid
      BY <1>1, <2>1, <3>1 DEF ListingIInv, ListedIsCached
    <3> QED
      BY <1>3, <2>1, <3>1, <3>2 DEF ObjectStep
  <2> QED
    BY <2>1
<1> QED
  BY <1>4, <1>7, <1>8, <1>9, <1>10 DEF ListingIInv, ListedIsCached, IInv, TypeOK

\* A write of the worker changes the object it has read, or takes it away.
LEMMA WritesAreSteps ==
  ASSUME IInv, worker # Idle, NEW o \in Objects, NEW q, tm[worker.m] = worker.obj,
         Write(worker.m, o, q), o.uid = worker.obj.uid, o.deleting = worker.obj.deleting
  PROVE  \A m \in Models : ObjectStep(m)
<1>1. worker.m \in Models /\ tm \in [Models -> Objects]
  BY DEF IInv, TypeOK
<1> QED
  BY <1>1 DEF Write, ObjectStep

\* The deletion of an object that is there.
LEMMA DeletesAreSteps ==
  ASSUME IInv, NEW m \in Models, NEW q, Delete(m, q)
  PROVE  \A k \in Models : ObjectStep(k)
<1>1. tm \in [Models -> Objects]
  BY DEF IInv, TypeOK
<1> DEFINE o == [tm[m] EXCEPT !.deleting = TRUE]
<1>2. o.uid = tm[m].uid /\ o.deleting
  BY <1>1 DEF Objects
<1>3. tm' = [tm EXCEPT ![m] = None] \/ tm' = [tm EXCEPT ![m] = o]
  BY DEF Delete, Write
<1> HIDE DEF o
<1> QED
  BY <1>1, <1>2, <1>3 DEF ObjectStep

LEMMA InitListing == Init => ListingIInv
<1> SUFFICES ASSUME Init PROVE ListingIInv
  OBVIOUS
<1>1. None.uid = 0 /\ ~None.deleting /\ Idle.pc = "idle" /\ 0 <= made /\ config = {}
  BY DEF Init, None, New, Idle
<1> QED
  BY <1>1 DEF Init, ListingIInv, CopiesRight, ListedIsCached, IsEarlier

\* The users, the informers, the failures and the other controller.
LEMMA OthersKeepListing ==
  ASSUME IInv, IInv', ListingIInv,
         Environment \/ Faults \/ Controller \/ SyncIsvc \/ CollectConfig
         \/ (\E m \in Models : SyncModel(m)) \/ UNCHANGED vars
  PROVE  ListingIInv'
<1> USE DEF WorkerGoesOn, CacheStep, caches, parent, isvcCtl
<1>1. tm' = tm => \A m \in Models : ObjectStep(m)
  BY DEF ObjectStep
<1>2. made' \in {made, made + 1} /\ lags' = lags
  BY DEF Environment, Faults, Controller, CreateModel, DeleteModel, SyncModel, SyncIsvc,
         DeleteIsvc, ReadyChanges, CollectConfig, CallFails, CreateConfig, ListChildren,
         DeleteChild, DeleteChildFails, RemoveFinalizer, RemoveFinalizerFails, Restart, vars
<1>3. \/ worker' = worker
      \/ worker' = Idle
  BY DEF Environment, Faults, Controller, CreateModel, DeleteModel, SyncModel, SyncIsvc,
         DeleteIsvc, ReadyChanges, CollectConfig, CallFails, Requeue, CreateConfig,
         ListChildren, DeleteChild, DeleteChildFails, RemoveFinalizer,
         RemoveFinalizerFails, Restart, vars
<1>4. config' \subseteq config
  BY DEF Environment, Faults, Controller, CreateModel, DeleteModel, SyncModel, SyncIsvc,
         DeleteIsvc, ReadyChanges, CollectConfig, CallFails, CreateConfig, ListChildren,
         DeleteChild, DeleteChildFails, RemoveFinalizer, RemoveFinalizerFails, Restart, vars
<1>5. (\A m \in Models : ObjectStep(m) /\ CacheStep(m)) => ListingIInv'
  BY <1>2, <1>3, <1>4, StepsKeepListing
<1>6. ASSUME NEW m \in Models, CreateModel(m) PROVE ListingIInv'
  <2>1. /\ tm[m] = None
        /\ tm' = [tm EXCEPT ![m] = New(made + 1)] /\ made' = made + 1 /\ cache' = cache
        /\ New(made + 1).uid = made + 1
    BY <1>6 DEF CreateModel, Write, Exists, IInv, AllGood, Good, New
  <2> QED
    BY <1>5, <2>1 DEF IInv, TypeOK, ObjectStep
<1>7. ASSUME NEW m \in Models, DeleteModel(m) \/ DeleteChild(m) PROVE ListingIInv'
  <2>1. tm' = tm \/ Delete(m, queue)
    BY <1>7 DEF DeleteModel, DeleteChild
  <2>2. cache' = cache
    BY <1>7 DEF DeleteModel, DeleteChild
  <2> QED
    BY <1>1, <1>5, <2>1, <2>2, DeletesAreSteps
<1>8. ASSUME NEW m \in Models, SyncModel(m) PROVE ListingIInv'
  <2>1. tm' = tm /\ \A k \in Models : CacheStep(k)
    BY <1>8 DEF SyncModel, IInv, TypeOK
  <2> QED
    BY <1>1, <1>5, <2>1
<1>9. ASSUME Restart PROVE ListingIInv'
  <2>1. tm' = tm /\ \A k \in Models : CacheStep(k)
    BY <1>9 DEF Restart
  <2> QED
    BY <1>1, <1>5, <2>1
<1>10. ASSUME SyncIsvc \/ DeleteIsvc \/ ReadyChanges \/ CollectConfig \/ CreateConfig
              \/ ListChildren \/ RemoveFinalizer \/ RemoveFinalizerFails \/ CallFails
              \/ (\E m \in Models : DeleteChildFails(m)) \/ UNCHANGED vars
       PROVE  ListingIInv'
  <2>1. tm' = tm /\ cache' = cache
    BY <1>10
    DEF SyncIsvc, DeleteIsvc, ReadyChanges, CollectConfig, CreateConfig, ListChildren,
        RemoveFinalizer, RemoveFinalizerFails, CallFails, Requeue, DeleteChildFails, vars
  <2> QED
    BY <1>1, <1>5, <2>1
<1> QED
  BY <1>6, <1>7, <1>8, <1>9, <1>10 DEF Environment, Faults, Controller

\* The worker begins with an object it has read: as the cache does not go back
\* behind one that is listed, this is the one that is listed if there is one.
LEMMA BeginKeepsListing ==
  ASSUME IInv, IInv', ListingIInv, NEW m \in Models, Begin(m)
  PROVE  ListingIInv'
<1> USE DEF caches, parent, isvcCtl
<1>1. UNCHANGED <<lags, cache, made, config>> /\ \A k \in Models : CacheStep(k)
  BY DEF Begin, CacheStep
<1>2. CASE BeginDelete(m)
  BY <1>1, <1>2, DeletesAreSteps, StepsKeepListing DEF BeginDelete, WorkerGoesOn
<1>3. CASE UNCHANGED <<tm, worker>>
  <2>1. \A k \in Models : ObjectStep(k)
    BY <1>3 DEF ObjectStep
  <2> QED
    BY <1>1, <1>3, <2>1, StepsKeepListing DEF WorkerGoesOn
<1>4. CASE BeginReconcile(m)
  <2>1. /\ worker'.pc \in {"register", "conditions", "unlist"}
        /\ worker'.m = m /\ worker'.obj = Object(m) /\ tm' = tm
    BY <1>4 DEF BeginReconcile
  <2>2. /\ \A k \in Models : /\ tm[k].uid <= made /\ cache[k].uid <= made
                             /\ IsEarlier(cache[k], tm[k])
        /\ lags => \A k \in config : cache[k].uid = tm[k].uid
    BY DEF ListingIInv, CopiesRight, ListedIsCached
  <2>3. Object(m).uid <= made /\ IsEarlier(Object(m), tm[m])
        /\ (m \in config => Object(m).uid = tm[m].uid)
    BY <2>2 DEF Object, IsEarlier
  <2>4. CopiesRight'
    BY <1>1, <2>1, <2>2, <2>3 DEF CopiesRight
  <2>5. ListedIsCached'
    BY <1>1, <2>1, <2>2, <2>3 DEF ListedIsCached, Object
  <2> QED
    BY <2>4, <2>5 DEF ListingIInv
<1> QED
  BY <1>2, <1>3, <1>4 DEF Begin

\* The calls of the worker.
LEMMA WorkerKeepsListing ==
  ASSUME IInv, IInv', ListingIInv, Worker
  PROVE  ListingIInv'
<1> USE DEF caches, parent, isvcCtl
<1>1. /\ worker # Idle /\ worker.m \in Models /\ worker.obj \in Objects
      /\ tm \in [Models -> Objects] /\ worker.pc \in Calls
      /\ worker \in [pc : Calls, m : Models, obj : Objects]
  BY DEF Worker, Register, UpdateConditions, ConfigMissing, Enlist, Unlist, Unfinalize,
         Calls, Idle, IInv, TypeOK
<1>2. UNCHANGED <<lags, cache, made>> /\ \A k \in Models : CacheStep(k)
  BY DEF Worker, Register, UpdateConditions, ConfigMissing, Enlist, Unlist, Unfinalize, CacheStep
<1>3. tm' = tm => \A k \in Models : ObjectStep(k)
  BY DEF ObjectStep
<1>4. ASSUME Requeue, config' = config PROVE ListingIInv'
  BY <1>2, <1>3, <1>4, StepsKeepListing DEF Requeue, WorkerGoesOn
<1>5. ASSUME NEW o \in Objects, NEW q, tm[worker.m] = worker.obj, Write(worker.m, o, q),
             o.uid = worker.obj.uid, o.deleting = worker.obj.deleting, config' = config,
             \/ worker' = Idle
             \/ /\ worker.pc \in {"register", "conditions"} /\ o.finalizer
                /\ \E pc \in {"conditions", "enlist"} :
                     worker' = [worker EXCEPT !.pc = pc, !.obj = o]
      PROVE  ListingIInv'
  <2>1. \A k \in Models : ObjectStep(k)
    BY <1>1, <1>5, WritesAreSteps
  <2>2. WorkerGoesOn
    <3>1. CASE worker' = Idle
      BY <3>1 DEF WorkerGoesOn
    <3>2. ASSUME worker.pc \in {"register", "conditions"}, o.finalizer,
                 NEW pc \in {"conditions", "enlist"},
                 worker' = [worker EXCEPT !.pc = pc, !.obj = o]
          PROVE  WorkerGoesOn
      <4>1. worker'.pc = pc /\ worker'.obj = o /\ worker'.m = worker.m
        BY <1>1, <3>2
      <4>2. worker' # Idle
        BY <3>2, <4>1 DEF Idle
      <4>3. tm'[worker.m] = o
        BY <1>1, <1>5, <3>2 DEF Write
      <4> QED
        BY <1>1, <1>5, <3>2, <4>1, <4>2, <4>3 DEF WorkerGoesOn
    <3> QED
      BY <1>5, <3>1, <3>2
  <2> QED
    BY <1>2, <1>5, <2>1, <2>2, StepsKeepListing
<1>6. CASE Register
  <2> DEFINE o == [worker.obj EXCEPT !.finalizer = TRUE, !.parent = TRUE]
  <2>1. /\ o \in Objects /\ o.finalizer
        /\ o.uid = worker.obj.uid /\ o.deleting = worker.obj.deleting
    BY <1>1 DEF Objects
  <2> HIDE DEF o
  <2>2. config' = config /\ worker.pc = "register"
        /\ Update(o, [worker EXCEPT !.pc = "conditions", !.obj = o])
    BY <1>6 DEF Register, o
  <2> QED
    BY <1>4, <1>5, <2>1, <2>2 DEF Update
<1>7. CASE UpdateConditions
  <2> DEFINE o == IF Fits THEN [worker.obj EXCEPT !.allocated = TRUE] ELSE worker.obj
  <2>1. /\ o \in Objects /\ o.finalizer
        /\ o.uid = worker.obj.uid /\ o.deleting = worker.obj.deleting
    <3>1. worker.obj.finalizer
      BY <1>7 DEF UpdateConditions, IInv, WorkerKnows
    <3> QED
      BY <1>1, <3>1 DEF Objects
  <2>2. \/ Requeue
        \/ Update(o, [worker EXCEPT !.pc = "enlist", !.obj = o])
        \/ /\ tm[worker.m] = worker.obj
           /\ Write(worker.m, o, queue \cup {worker.m})
           /\ worker' = Idle
    BY <1>7 DEF UpdateConditions
  <2> HIDE DEF o
  <2>3. config' = config /\ worker.pc = "conditions"
    BY <1>7 DEF UpdateConditions
  <2> QED
    BY <1>4, <1>5, <2>1, <2>2, <2>3 DEF Update
<1>8. CASE ConfigMissing
  BY <1>4, <1>8 DEF ConfigMissing
<1>9. CASE Enlist
  <2>1. config' = config \cup {worker.m} /\ worker' = Idle /\ tm' = tm /\ worker.pc = "enlist"
    BY <1>9 DEF Enlist
  <2>2. Idle.pc = "idle"
    BY DEF Idle
  <2> QED
    BY <1>2, <2>1, <2>2 DEF ListingIInv, CopiesRight, ListedIsCached
<1>10. CASE Unlist
  <2>1. /\ tm' = tm /\ config' \subseteq config
        /\ worker' = [worker EXCEPT !.pc = "unfinalize"]
    BY <1>10 DEF Unlist
  <2>2. worker'.pc = "unfinalize" /\ worker'.obj = worker.obj /\ worker'.m = worker.m
    BY <1>1, <2>1
  <2>3. worker' # Idle
    BY <2>2 DEF Idle
  <2> QED
    BY <1>1, <1>2, <1>3, <2>1, <2>2, <2>3, StepsKeepListing DEF WorkerGoesOn
<1>11. CASE Unfinalize
  <2> DEFINE o == [worker.obj EXCEPT !.finalizer = FALSE]
  <2>1. o \in Objects /\ o.uid = worker.obj.uid /\ o.deleting = worker.obj.deleting
    BY <1>1 DEF Objects
  <2> HIDE DEF o
  <2>2. config' = config /\ Update(o, Idle)
    BY <1>11 DEF Unfinalize, o
  <2> QED
    BY <1>4, <1>5, <2>1, <2>2 DEF Update
<1> QED
  BY <1>6, <1>7, <1>8, <1>9, <1>10, <1>11 DEF Worker

\* Only the worker takes a single model out, and if it is the listed one that it
\* has read, it was being deleted.
LEMMA OnlyDeletedAreUnlisted ==
  ASSUME IInv, ListingIInv, [Next]_vars, NEW m \in config \ config'
  PROVE  tm[m].deleting \/ ~hasConfig'
<1>1. CASE CollectConfig
  BY <1>1 DEF CollectConfig
<1>2. CASE Unlist
  <2>1. worker.pc = "unlist" /\ m = worker.m /\ worker # Idle
    BY <1>2 DEF Unlist, Idle
  <2>2. worker.obj.deleting /\ worker.obj.uid = tm[m].uid
    BY <2>1 DEF IInv, WorkerKnows, ListingIInv, ListedIsCached
  <2> QED
    BY <2>1, <2>2 DEF ListingIInv, CopiesRight, IsEarlier
<1>3. ~CollectConfig /\ ~Unlist => config \subseteq config'
  BY DEF Next, Environment, Faults, Worker, Controller, Begin, CreateModel, DeleteModel,
         SyncModel, SyncIsvc, DeleteIsvc, ReadyChanges, Register, UpdateConditions,
         ConfigMissing, Enlist, Unfinalize, CallFails, CreateConfig, ListChildren,
         DeleteChild, DeleteChildFails, RemoveFinalizer, RemoveFinalizerFails, Restart,
         parent, vars
<1> QED
  BY <1>1, <1>2, <1>3

\* However far the caches are behind, and whatever is made again under a name: a
\* model leaves the ConfigMap only when it is being deleted, or with the ConfigMap.
THEOREM OnlyDeletionUnlists == Spec => ListedUntilDeleted
<1>1. IInv /\ IInv' /\ ListingIInv /\ [Next]_vars => ListingIInv'
  BY OthersKeepListing, BeginKeepsListing, WorkerKeepsListing DEF Next
<1>2. IInv /\ ListingIInv /\ [Next]_vars
        => [\A m \in config \ config' : tm[m].deleting \/ ~hasConfig']_vars
  BY OnlyDeletedAreUnlisted
<1> QED
  BY <1>1, <1>2, InitListing, Invariance, PTL DEF Spec, ListedUntilDeleted

=============================================================================
