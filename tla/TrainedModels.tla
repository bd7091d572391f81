----------------------------- MODULE TrainedModels -----------------------------
(***************************************************************************)
(* pkg/controller/v1alpha1/trainedmodel: the TrainedModels of one          *)
(* InferenceService, the ConfigMap that names the models its agent has to  *)
(* serve, and the deletion of the InferenceService by its own controller.  *)
(*                                                                         *)
(* The controllers read objects from informer caches, which may be behind  *)
(* the API server, and write them with the version they have read: a write *)
(* on an older version is a conflict, and the object is reconciled again.  *)
(* A TrainedModel is reconciled by one worker. All of them ask for the     *)
(* same memory.                                                            *)
(***************************************************************************)
EXTENDS Naturals, FiniteSets

CONSTANTS
  Models,
  NoModel,
  Capacity,   \* models that fit into the memory of the predictor
  MaxUid,     \* bound on the objects that are made
  MaxFaults   \* bound on failed calls and restarts

ASSUME TrainedModelsAssumption ==
  /\ IsFiniteSet(Models)
  /\ NoModel \notin Models
  /\ Capacity \in Nat /\ MaxUid \in Nat /\ MaxFaults \in Nat

VARIABLES
  lags,      \* the caches may be behind the API server
  tm,        \* [Models -> the object in the API server]
  made,      \* objects made so far
  cache,     \* [Models -> the object in the cache]
  isvc,      \* the InferenceService: "live", "deleting" or "gone"
  cached,    \* the same in the cache
  isReady,   \* its status
  config,    \* the models in the ConfigMap
  hasConfig, \* the ConfigMap is there
  queue,     \* models to be reconciled
  worker,    \* the reconciliation that is going on
  isvcPc,    \* what the other controller does: "idle" or "deleting"
  children,  \* and the models it is about to delete
  failed,    \* history: the models it could not delete
  faults     \* calls that may still fail, and restarts

caches == <<lags, cache, cached>>
parent == <<isvc, isReady, config, hasConfig>>
isvcCtl == <<isvcPc, children, failed>>
vars == <<caches, tm, made, parent, queue, worker, isvcCtl, faults>>

Objects == [uid : 0..MaxUid,   \* 0: there is none
            deleting : BOOLEAN, finalizer : BOOLEAN, parent : BOOLEAN, allocated : BOOLEAN]
New(uid) ==
  [uid |-> uid, deleting |-> FALSE, finalizer |-> FALSE, parent |-> FALSE, allocated |-> FALSE]
None == New(0)
Calls == {"register", "conditions", "enlist", "unlist", "unfinalize"}
Idle == [pc |-> "idle", m |-> NoModel, obj |-> None]

Init ==
  /\ lags \in BOOLEAN
  /\ tm = [m \in Models |-> None]
  /\ made = 0
  /\ cache = tm
  /\ isvc = "live"
  /\ cached = "live"
  /\ isReady = FALSE
  /\ config = {}
  /\ hasConfig = FALSE
  /\ queue = {}
  /\ worker = Idle
  /\ isvcPc = "idle"
  /\ children = {}
  /\ failed = {}
  /\ faults \in 0..MaxFaults

Exists(o) == o.uid # 0

\* What the controllers read.
Object(m) == IF lags THEN cache[m] ELSE tm[m]
Parent == IF lags THEN cached ELSE isvc

-----------------------------------------------------------------------------
(* The API server and the informers.                                       *)

\* An object that is being deleted is removed with its last finalizer. The
\* event of a change makes the object be reconciled, after those in q.
Write(m, o, q) ==
  /\ tm' = [tm EXCEPT ![m] = IF o.deleting /\ ~o.finalizer THEN None ELSE o]
  /\ queue' = IF lags THEN q ELSE q \cup {m}

CreateModel(m) ==
  /\ ~Exists(tm[m])
  /\ made < MaxUid
  /\ made' = made + 1
  /\ Write(m, New(made'), queue)
  /\ UNCHANGED <<caches, parent, worker, isvcCtl, faults>>

Delete(m, q) == Write(m, [tm[m] EXCEPT !.deleting = TRUE], q)

DeleteModel(m) ==
  /\ Exists(tm[m]) /\ ~tm[m].deleting
  /\ Delete(m, queue)
  /\ UNCHANGED <<caches, made, parent, worker, isvcCtl, faults>>

SyncModel(m) ==
  /\ lags
  /\ cache[m] # tm[m]
  /\ cache' = [cache EXCEPT ![m] = tm[m]]
  /\ queue' = queue \cup {m}
  /\ UNCHANGED <<lags, cached, tm, made, parent, worker, isvcCtl, faults>>

\* The controller of the models does not watch InferenceServices.
SyncIsvc ==
  /\ lags
  /\ cached # isvc
  /\ cached' = isvc
  /\ UNCHANGED <<lags, cache, tm, made, parent, queue, worker, isvcCtl, faults>>

DeleteIsvc ==
  /\ isvc = "live"
  /\ isvc' = "deleting"
  /\ UNCHANGED <<caches, tm, made, isReady, config, hasConfig, queue, worker, isvcCtl, faults>>

ReadyChanges ==
  /\ isvc = "live"
  /\ isReady' = ~isReady
  /\ UNCHANGED <<caches, tm, made, isvc, config, hasConfig, queue, worker, isvcCtl, faults>>

\* The ConfigMap is owned by the InferenceService.
CollectConfig ==
  /\ isvc = "gone"
  /\ hasConfig
  /\ hasConfig' = FALSE
  /\ config' = {}
  /\ UNCHANGED <<caches, tm, made, isvc, isReady, queue, worker, isvcCtl, faults>>

-----------------------------------------------------------------------------
(* The TrainedModel controller.                                            *)

\* If the parent is gone the model is deleted, with nothing else done for it
\* (one that is gone as well is an error, and stays in the queue).
BeginDelete(m) ==
  /\ Exists(Object(m)) /\ Parent = "gone"
  /\ Exists(tm[m])
  /\ Delete(m, queue \ {m})
  /\ worker' = worker

\* Variant: no finalizer is added.
BeginUnregistered(m) ==
  /\ Exists(Object(m)) /\ Parent # "gone"
  /\ worker' = [pc |-> IF Object(m).deleting THEN "unlist" ELSE "conditions",
                m |-> m, obj |-> Object(m)]
  /\ queue' = queue \ {m}
  /\ UNCHANGED tm

BeginReconcile(m) ==
  /\ Exists(Object(m)) /\ Parent # "gone"
  /\ worker' = [pc |-> IF Object(m).deleting THEN "unlist"
                       ELSE IF Object(m).finalizer THEN "conditions" ELSE "register",
                m |-> m, obj |-> Object(m)]
  /\ queue' = queue \ {m}
  /\ UNCHANGED tm

Begin(m) ==
  /\ worker = Idle
  /\ m \in queue
  /\ \/ BeginDelete(m)
     \/ BeginReconcile(m)
     \/ /\ ~Exists(Object(m))
        /\ queue' = queue \ {m}
        /\ UNCHANGED <<tm, worker>>
  /\ UNCHANGED <<caches, made, parent, isvcCtl, faults>>

\* Variant: the error is swallowed.
Forget ==
  /\ worker' = Idle
  /\ queue' = queue
  /\ UNCHANGED tm

\* The worker returns an error: the object is reconciled again later.
Requeue ==
  /\ worker' = Idle
  /\ queue' = queue \cup {worker.m}
  /\ UNCHANGED tm

\* Variant: a Patch, which does not look at the version.
Patch(o, next) ==
  /\ Write(worker.m, o, queue)
  /\ worker' = next

\* An Update with the version the worker has read.
Update(o, next) ==
  \/ /\ tm[worker.m] = worker.obj
     /\ Write(worker.m, o, queue)
     /\ worker' = next
  \/ /\ tm[worker.m] # worker.obj
     /\ Requeue

Register ==
  /\ worker.pc = "register"
  /\ LET o == [worker.obj EXCEPT !.finalizer = TRUE, !.parent = TRUE]
     IN  Update(o, [worker EXCEPT !.pc = "conditions", !.obj = o])
  /\ UNCHANGED <<caches, made, parent, isvcCtl, faults>>

\* The models that have been promised memory, with the one at hand.
Siblings == {m \in Models : Object(m).parent /\ Object(m).allocated}

\* Variant: without the model at hand.
RequestedBefore == Cardinality(Siblings)

Requested == Cardinality(Siblings) + (IF worker.obj.allocated THEN 0 ELSE 1)
Fits == Requested <= Capacity

\* The conditions are written even if they are not met: a model that fits
\* keeps its memory while the parent is not ready.
UpdateConditions ==
  /\ worker.pc = "conditions"
  /\ LET o == IF Fits THEN [worker.obj EXCEPT !.allocated = TRUE] ELSE worker.obj
     IN  \/ /\ Parent # "gone"
            /\ Fits /\ isReady
            /\ Update(o, [worker EXCEPT !.pc = "enlist", !.obj = o])
         \/ /\ Parent # "gone"
            /\ ~(Fits /\ isReady)
            /\ tm[worker.m] = worker.obj
            /\ Write(worker.m, o, queue \cup {worker.m})
            /\ worker' = Idle
         \/ /\ \/ Parent = "gone"
               \/ ~(Fits /\ isReady) /\ tm[worker.m] # worker.obj
            /\ Requeue
  /\ UNCHANGED <<caches, made, parent, isvcCtl, faults>>

ConfigMissing ==
  /\ worker.pc \in {"enlist", "unlist"}
  /\ ~hasConfig
  /\ Requeue
  /\ UNCHANGED <<caches, made, parent, isvcCtl, faults>>

Enlist ==
  /\ worker.pc = "enlist"
  /\ hasConfig
  /\ config' = config \cup {worker.m}
  /\ worker' = Idle
  /\ UNCHANGED <<caches, tm, made, isvc, isReady, hasConfig, queue, isvcCtl, faults>>

Unlist ==
  /\ worker.pc = "unlist"
  /\ hasConfig
  /\ config' = config \ {worker.m}
  /\ worker' = [worker EXCEPT !.pc = "unfinalize"]
  /\ UNCHANGED <<caches, tm, made, isvc, isReady, hasConfig, queue, isvcCtl, faults>>

Unfinalize ==
  /\ worker.pc = "unfinalize"
  /\ Update([worker.obj EXCEPT !.finalizer = FALSE], Idle)
  /\ UNCHANGED <<caches, made, parent, isvcCtl, faults>>

CallFails ==
  /\ worker # Idle
  /\ faults > 0
  /\ faults' = faults - 1
  /\ Requeue
  /\ UNCHANGED <<caches, made, parent, isvcCtl>>

-----------------------------------------------------------------------------
(* The controller of the InferenceService.                                 *)

CreateConfig ==
  /\ Parent = "live"
  /\ ~hasConfig
  /\ hasConfig' = TRUE
  /\ UNCHANGED <<caches, tm, made, isvc, isReady, config, queue, worker, isvcCtl, faults>>

\* It deletes the models it finds by their label.
ListChildren ==
  /\ Parent = "deleting"
  /\ isvcPc = "idle"
  /\ isvcPc' = "deleting"
  /\ children' = {m \in Models : Object(m).parent}
  /\ UNCHANGED <<caches, tm, made, parent, queue, worker, failed, faults>>

DeleteChild(m) ==
  /\ m \in children
  /\ children' = children \ {m}
  /\ IF Exists(tm[m]) THEN Delete(m, queue) ELSE UNCHANGED <<tm, queue>>
  /\ UNCHANGED <<caches, made, parent, worker, isvcPc, failed, faults>>

\* The error is only logged.
DeleteChildFails(m) ==
  /\ m \in children
  /\ faults > 0
  /\ faults' = faults - 1
  /\ children' = children \ {m}
  /\ failed' = failed \cup {m}
  /\ UNCHANGED <<caches, tm, made, parent, queue, worker, isvcPc>>

RemoveFinalizer ==
  /\ isvcPc = "deleting"
  /\ children = {}
  /\ isvc' = "gone"
  /\ isvcPc' = "idle"
  /\ UNCHANGED <<caches, tm, made, isReady, config, hasConfig, queue, worker, children, failed, faults>>

RemoveFinalizerFails ==
  /\ isvcPc = "deleting"
  /\ children = {}
  /\ faults > 0
  /\ faults' = faults - 1
  /\ isvcPc' = "idle"
  /\ UNCHANGED <<caches, tm, made, parent, queue, worker, children, failed>>

\* The manager starts again, with current caches and every model to reconcile.
Restart ==
  /\ faults > 0
  /\ faults' = faults - 1
  /\ worker' = Idle
  /\ isvcPc' = "idle"
  /\ children' = {}
  /\ cache' = IF lags THEN tm ELSE cache
  /\ cached' = IF lags THEN isvc ELSE cached
  /\ queue' = {m \in Models : Exists(tm[m])}
  /\ UNCHANGED <<lags, tm, made, parent, failed>>

-----------------------------------------------------------------------------
Worker == Register \/ UpdateConditions \/ ConfigMissing \/ Enlist \/ Unlist \/ Unfinalize

Controller ==
  CreateConfig \/ ListChildren \/ RemoveFinalizer \/ (\E m \in Models : DeleteChild(m))

Faults ==
  \/ CallFails \/ RemoveFinalizerFails \/ Restart
  \/ \E m \in Models : DeleteChildFails(m)

Environment ==
  \/ DeleteIsvc \/ ReadyChanges
  \/ \E m \in Models : CreateModel(m) \/ DeleteModel(m)

Next ==
  \/ Environment \/ Faults \/ Worker \/ Controller
  \/ SyncIsvc \/ CollectConfig
  \/ \E m \in Models : SyncModel(m) \/ Begin(m)

\* The caches follow the API server, calls fail a bounded number of times, both
\* controllers work, and the queue, which is first in, first out, gives every
\* model its turn.
Fairness ==
  /\ WF_vars(Worker)
  /\ WF_vars(Controller)
  /\ WF_vars(SyncIsvc)
  /\ WF_vars(\E m \in Models : SyncModel(m))
  /\ \A m \in Models : SF_vars(Begin(m))

Spec == Init /\ [][Next]_vars /\ Fairness

-----------------------------------------------------------------------------
(* Properties.                                                             *)

TypeOK ==
  /\ lags \in BOOLEAN
  /\ tm \in [Models -> Objects] /\ cache \in [Models -> Objects]
  /\ made \in 0..MaxUid
  /\ isvc \in {"live", "deleting", "gone"} /\ cached \in {"live", "deleting", "gone"}
  /\ isReady \in BOOLEAN /\ hasConfig \in BOOLEAN
  /\ config \subseteq Models /\ queue \subseteq Models
  /\ worker \in {Idle} \cup [pc : Calls, m : Models, obj : Objects]
  /\ isvcPc \in {"idle", "deleting"}
  /\ children \subseteq Models /\ failed \subseteq Models
  /\ faults \in 0..MaxFaults

\* The ConfigMap lists only models whose object is there, keeps the finalizer
\* that will take it out again, and was promised memory, although it is written
\* from an object read before and without a look at the current one. (The names
\* in the ConfigMap are never compared with the objects.)
ListedIsHeld == \A m \in config : tm[m].finalizer /\ tm[m].allocated

\* While the caches are current the models with a promise of memory fit into the
\* predictor, whatever is created and deleted while the worker is between its
\* calls. (With a cache that is behind, the worker forgets its last promise.)
MemoryRespected == ~lags => Cardinality({m \in Models : tm[m].allocated}) <= Capacity

\* A model leaves the ConfigMap only if its object is being deleted, or with the
\* ConfigMap: a worker with the object of an earlier model of the same name
\* never takes out the new one.
ListedUntilDeleted ==
  [][\A m \in config \ config' : tm[m].deleting \/ ~hasConfig']_vars

\* A deletion ends while the parent lives, over conflicts, failed calls and
\* restarts between the removal from the ConfigMap and that of the finalizer.
DeletionEnds == \A m \in Models : tm[m].deleting ~> (~Exists(tm[m]) \/ isvc # "live")

\* A model that stays, beside no more than fit, with a parent that is ready, is
\* listed in the end: it is tried again until the parent is ready and the
\* memory of those that were deleted is free again.
Wanted(m) ==
  /\ isvc = "live" /\ isReady
  /\ Exists(tm[m]) /\ ~tm[m].deleting
  /\ Cardinality({k \in Models : Exists(tm[k])}) <= Capacity
WantedIsListed == \A m \in Models : <>[]Wanted(m) => <>[](m \in config)

\* When an InferenceService is deleted, the models that carry its label are
\* deleted as well, over restarts of the controller and a finalizer it cannot
\* remove, unless it could not delete one, which is only logged. (One that is
\* labelled later keeps a parent that is gone.)
Labelled(m) ==
  /\ isvc = "deleting" /\ isvcPc = "idle"
  /\ tm[m].parent
  /\ Object(m) = tm[m]
ChildrenAreDeleted ==
  \A m \in Models :
    Labelled(m) ~> (~Exists(tm[m]) \/ tm[m].deleting \/ m \in failed)

\* Whatever fails meanwhile, what was asked for is done in the end: a model that
\* is wanted is listed, and the deletions of models and of their parent end.
EverythingSettles == WantedIsListed /\ DeletionEnds /\ ChildrenAreDeleted

-----------------------------------------------------------------------------
(* The inductive invariant behind ListedUntilDeleted.                      *)

\* o was read from the object that p is, or from another one.
IsEarlier(o, p) == o.uid = p.uid /\ o.deleting => p.deleting

\* An object has a number that was never given before, and no copy of it knows of
\* a deletion that has not begun.
CopiesRight ==
  /\ \A m \in Models :
       /\ tm[m].uid <= made /\ cache[m].uid <= made
       /\ IsEarlier(cache[m], tm[m])
  /\ worker # Idle => worker.obj.uid <= made /\ IsEarlier(worker.obj, tm[worker.m])

\* A worker that makes an object listed has read it from the cache, which does
\* not go back to an earlier one: nor will a later worker.
ListedIsCached ==
  /\ lags =>
       /\ \A m \in config : cache[m].uid = tm[m].uid
       /\ worker.pc \in {"register", "conditions", "enlist"}
          /\ worker.obj.uid = tm[worker.m].uid => cache[worker.m].uid = tm[worker.m].uid
  /\ worker.pc = "enlist" => worker.obj.uid = tm[worker.m].uid
  /\ worker.pc = "unlist" /\ worker.m \in config => worker.obj.uid = tm[worker.m].uid

ListingIInv == CopiesRight /\ ListedIsCached
=============================================================================
