--------------------------- MODULE LocalModelCache ---------------------------
(***************************************************************************)
(* src/pkg/controller/v1alpha1/localmodel/controller.go: the reconciler    *)
(* that keeps every LocalModelCache of a node group listed in the          *)
(* LocalModelNode object of each of its ready nodes, and collects what the *)
(* node agents report there.                                               *)
(*                                                                         *)
(* One node group; volumes and InferenceServices (steps 3 and 4 of         *)
(* Reconcile) only appear as the events they cause. The source URI of a    *)
(* cache never changes, so a model is its name. Reads are current: the lag *)
(* of the informer caches is left out, that of their events is not.        *)
(***************************************************************************)
EXTENDS Naturals

CONSTANTS
  Models,     \* names of LocalModelCache objects
  Nodes,      \* names of nodes whose labels match the node group
  NoModel,
  MaxUser,    \* bound on the creations and deletions of LocalModelCaches
  MaxEvents,  \* bound on the nodes that join, leave, change or lose a model, and
              \* on the restarts of the manager
  MaxFaults   \* bound on the calls of the API server that fail

ASSUME LocalModelAssumption ==
  /\ NoModel \notin Models
  /\ MaxUser \in Nat
  /\ MaxEvents \in Nat
  /\ MaxFaults \in Nat

VARIABLES
  cr,          \* [Models -> whether the object exists, or is being deleted]
  finalizer,   \* models whose object has the finalizer
  available,   \* [Models -> nodes that are NodeDownloaded in its status]
  joined,      \* nodes of the cluster
  ready,       \* the ready ones
  absent,      \* history: nodes that have ever been outside the cluster
  created,     \* nodes with a LocalModelNode object
  listed,      \* [Nodes -> its Spec.LocalModels]
  downloaded,  \* [Nodes -> models that are ModelDownloaded in its status]
  reported,    \* [Nodes -> downloaded, as of the last event of the object]
  queue,       \* the work queue of the controller
  current,     \* the model it reconciles
  deleting,    \* localModel.DeletionTimestamp is set, as it was read
  todo,        \* nodes the loop has still to visit
  status,      \* nodes that are NodeDownloaded in localModel.Status
  userOps, events, faults

crVars == <<cr, finalizer, available>>
nodeVars == <<joined, ready, absent>>
lmnVars == <<created, listed, downloaded>>
loopVars == <<current, deleting, todo, status>>
opVars == <<userOps, events, faults>>
vars == <<crVars, nodeVars, lmnVars, reported, queue, loopVars, opVars>>

LocalModelTypeOK ==
  /\ cr \in [Models -> {"none", "live", "deleting"}]
  /\ finalizer \subseteq {m \in Models : cr[m] # "none"}
  /\ available \in [Models -> SUBSET Nodes]
  /\ ready \subseteq joined
  /\ joined \cup absent = Nodes
  /\ created \subseteq Nodes
  /\ listed \in [Nodes -> SUBSET Models]
  /\ downloaded \in [Nodes -> SUBSET Models]
  /\ \A n \in Nodes \ created : listed[n] = {} /\ downloaded[n] = {}
  /\ reported \in [Nodes -> SUBSET Models]
  /\ queue \subseteq Models
  /\ current \in {NoModel} \cup finalizer
  /\ deleting => current # NoModel /\ cr[current] = "deleting"
  /\ todo \subseteq Nodes
  /\ status \subseteq Nodes
  /\ userOps \in 0..MaxUser
  /\ events \in 0..MaxEvents
  /\ faults \in 0..MaxFaults

Init ==
  /\ cr = [m \in Models |-> "none"]
  /\ finalizer = {}
  /\ available = [m \in Models |-> {}]
  /\ joined \in SUBSET Nodes
  /\ ready \in SUBSET joined
  /\ absent = Nodes \ joined
  /\ created = {}
  /\ listed = [n \in Nodes |-> {}]
  /\ downloaded = [n \in Nodes |-> {}]
  /\ reported = [n \in Nodes |-> {}]
  /\ queue = {}
  /\ current = NoModel
  /\ deleting = FALSE
  /\ todo = {}
  /\ status = {}
  /\ userOps = 0
  /\ events = 0
  /\ faults = 0

-----------------------------------------------------------------------------
(* The user, the cluster and the node agents.                              *)

Existing == {m \in Models : cr[m] # "none"}

UserCreates(m) ==
  /\ userOps < MaxUser
  /\ userOps' = userOps + 1
  /\ cr[m] = "none"
  /\ cr' = [cr EXCEPT ![m] = "live"]
  /\ queue' = queue \cup {m}
  /\ UNCHANGED <<finalizer, available, nodeVars, lmnVars, reported, loopVars,
                 events, faults>>

\* An object with a finalizer stays until the finalizer is removed.
UserDeletes(m) ==
  /\ userOps < MaxUser
  /\ userOps' = userOps + 1
  /\ cr[m] = "live"
  /\ cr' = [cr EXCEPT ![m] = IF m \in finalizer THEN "deleting" ELSE "none"]
  /\ queue' = queue \cup {m}
  /\ UNCHANGED <<finalizer, available, nodeVars, lmnVars, reported, loopVars,
                 events, faults>>

NodeEvent ==
  /\ events < MaxEvents
  /\ events' = events + 1
  /\ UNCHANGED <<crVars, loopVars, reported, userOps, faults>>

\* nodePredicates.CreateFunc and nodeFunc: an event for every model.
NodeJoins(n) ==
  /\ NodeEvent
  /\ n \notin joined
  /\ joined' = joined \cup {n}
  /\ ready' \in {ready, ready \cup {n}}
  /\ queue' = queue \cup Existing
  /\ UNCHANGED <<absent, lmnVars>>

\* nodePredicates.UpdateFunc compares the new node with itself: no event.
NodeChanges(n) ==
  /\ NodeEvent
  /\ n \in joined
  /\ ready' = IF n \in ready THEN ready \ {n} ELSE ready \cup {n}
  /\ UNCHANGED <<joined, absent, lmnVars, queue>>

\* nodePredicates.DeleteFunc: no event. The LocalModelNode object, which no
\* node owns, stays.
NodeLeaves(n) ==
  /\ NodeEvent
  /\ n \in joined
  /\ joined' = joined \ {n}
  /\ ready' = ready \ {n}
  /\ absent' = absent \cup {n}
  /\ UNCHANGED <<lmnVars, queue>>

\* The folder of a model is gone: the agent downloads it again.
AgentLoses(n, m) ==
  /\ NodeEvent
  /\ n \in ready
  /\ m \in downloaded[n] \cap listed[n]
  /\ downloaded' = [downloaded EXCEPT ![n] = @ \ {m}]
  /\ UNCHANGED <<nodeVars, created, listed, queue>>

\* The agent writes a new status for the models on the list.
AgentReports(n) ==
  /\ n \in ready \cap created
  /\ \/ \E m \in listed[n] \ downloaded[n] :
          downloaded' = [downloaded EXCEPT ![n] = (@ \cap listed[n]) \cup {m}]
     \/ /\ downloaded[n] \ listed[n] # {}
        /\ downloaded' = [downloaded EXCEPT ![n] = @ \cap listed[n]]
  /\ UNCHANGED <<crVars, nodeVars, created, listed, reported, queue, loopVars, opVars>>

\* Variant: the models whose download has not ended.
ModelsInProgressOf(n) == listed[n] \ downloaded[n]

\* localmodelNodeFunc: the models on the list.
ModelsOf(n) == listed[n]

\* localModelNodePredicates: a changed status is an event.
StatusEvent(n) ==
  /\ reported[n] # downloaded[n]
  /\ reported' = [reported EXCEPT ![n] = downloaded[n]]
  /\ queue' = queue \cup ModelsOf(n)
  /\ UNCHANGED <<crVars, nodeVars, lmnVars, loopVars, opVars>>

\* An event of a volume the cache owns, of an InferenceService that uses it,
\* or of a part of its own status that is not modelled.
OtherEvent(m) ==
  /\ cr[m] # "none"
  /\ m \notin queue
  /\ queue' = queue \cup {m}
  /\ UNCHANGED <<crVars, nodeVars, lmnVars, reported, loopVars, opVars>>

-----------------------------------------------------------------------------
(* Reconcile: one worker.                                                  *)

Idle ==
  /\ current' = NoModel
  /\ deleting' = FALSE
  /\ todo' = {}
  /\ status' = {}

\* The manager is restarted: the informers list every object, and each of the
\* caches is an event.
Restart ==
  /\ events < MaxEvents
  /\ events' = events + 1
  /\ Idle
  /\ queue' = Existing
  /\ reported' = downloaded
  /\ UNCHANGED <<crVars, nodeVars, lmnVars, userOps, faults>>

\* Variant: the models of a node that is not ready are left alone.
ReadyNodesToVisit(m) == ready

\* The nodes of a deletion or of an update.
NodesToVisit(m) == IF cr[m] = "deleting" THEN joined ELSE ready

\* An object that is gone needs nothing.
SkipReconcile(m) ==
  /\ current = NoModel
  /\ m \in queue
  /\ cr[m] = "none"
  /\ queue' = queue \ {m}
  /\ UNCHANGED <<crVars, nodeVars, lmnVars, reported, loopVars, opVars>>

\* The patch that adds the finalizer is itself an event.
BeginReconcile(m) ==
  /\ current = NoModel
  /\ m \in queue
  /\ cr[m] # "none"
  /\ current' = m
  /\ deleting' = (cr[m] = "deleting")
  /\ todo' = NodesToVisit(m)
  /\ status' = available[m]
  /\ finalizer' = finalizer \cup {m}
  /\ queue' = IF m \in finalizer THEN queue \ {m} ELSE queue
  /\ UNCHANGED <<cr, available, nodeVars, lmnVars, reported, opVars>>

\* Variant: a node without an object is left to its agent.
AddToNodeIfCreated(n) ==
  /\ current # NoModel /\ ~deleting
  /\ n \in todo
  /\ todo' = todo \ {n}
  /\ listed' = IF n \in created THEN [listed EXCEPT ![n] = @ \cup {current}] ELSE listed
  /\ status' = IF current \in downloaded[n] THEN status \cup {n} ELSE status \ {n}
  /\ UNCHANGED <<crVars, nodeVars, created, downloaded, reported, queue, current,
                 deleting, opVars>>

\* ReconcileLocalModelNode, for one node: its object is created with the model
\* or gets it added, and what it says of the model is noted.
AddToNode(n) ==
  /\ current # NoModel /\ ~deleting
  /\ n \in todo
  /\ todo' = todo \ {n}
  /\ created' = created \cup {n}
  /\ listed' = [listed EXCEPT ![n] = @ \cup {current}]
  /\ status' = IF current \in downloaded[n] THEN status \cup {n} ELSE status \ {n}
  /\ UNCHANGED <<crVars, nodeVars, downloaded, reported, queue, current, deleting, opVars>>

\* Status().Update is refused when the object has changed meanwhile, which it
\* only does when it is deleted. A changed status is an event.
FinishUpdate ==
  /\ current # NoModel /\ ~deleting
  /\ todo = {}
  /\ available' = IF cr[current] = "live" THEN [available EXCEPT ![current] = status]
                  ELSE available
  /\ queue' = IF available' # available THEN queue \cup {current} ELSE queue
  /\ Idle
  /\ UNCHANGED <<cr, finalizer, nodeVars, lmnVars, reported, opVars>>

\* An API call of ReconcileLocalModelNode fails: the error is only logged, and
\* the model is not queued again.
UpdateFails ==
  /\ current # NoModel /\ ~deleting
  /\ faults < MaxFaults
  /\ faults' = faults + 1
  /\ Idle
  /\ UNCHANGED <<crVars, nodeVars, lmnVars, reported, queue, userOps, events>>

\* deleteModelFromNodes, for one node; one without an object is passed over.
DeleteFromNode(n) ==
  /\ deleting
  /\ n \in todo
  /\ todo' = todo \ {n}
  /\ listed' = [listed EXCEPT ![n] = @ \ {current}]
  /\ UNCHANGED <<crVars, nodeVars, created, downloaded, reported, queue, current,
                 deleting, status, opVars>>

\* The finalizer is removed, and with it the object.
FinishDelete ==
  /\ deleting
  /\ todo = {}
  /\ cr' = [cr EXCEPT ![current] = "none"]
  /\ finalizer' = finalizer \ {current}
  /\ available' = [available EXCEPT ![current] = {}]
  /\ queue' = queue \cup {current}
  /\ Idle
  /\ UNCHANGED <<nodeVars, lmnVars, reported, opVars>>

\* Variant: an error ends the deletion, as it ends an update.
DeleteFailsQuietly ==
  /\ deleting
  /\ faults < MaxFaults
  /\ faults' = faults + 1
  /\ Idle
  /\ UNCHANGED <<crVars, nodeVars, lmnVars, reported, queue, userOps, events>>

\* An API call of deleteModelFromNodes fails: the model is queued again.
DeleteFails ==
  /\ deleting
  /\ faults < MaxFaults
  /\ faults' = faults + 1
  /\ Idle
  /\ queue' = queue \cup {current}
  /\ UNCHANGED <<crVars, nodeVars, lmnVars, reported, userOps, events>>

-----------------------------------------------------------------------------
Reconcile ==
  \/ \E m \in Models : SkipReconcile(m) \/ BeginReconcile(m)
  \/ \E n \in Nodes : AddToNode(n) \/ DeleteFromNode(n)
  \/ FinishUpdate \/ FinishDelete

Environment ==
  \/ \E m \in Models : UserCreates(m) \/ UserDeletes(m) \/ OtherEvent(m)
  \/ \E n \in Nodes :
       \/ NodeJoins(n) \/ NodeChanges(n) \/ NodeLeaves(n)
       \/ AgentReports(n) \/ StatusEvent(n)
       \/ \E m \in Models : AgentLoses(n, m)
  \/ UpdateFails \/ DeleteFails \/ Restart

Next == Reconcile \/ Environment

Spec == Init /\ [][Next]_vars

\* The worker runs and takes every model of its queue in its turn; the events
\* of the API server arrive. Nothing is assumed of users, nodes and agents.
Fairness ==
  /\ \A m \in Models :
       SF_vars(SkipReconcile(m) \/ BeginReconcile(m))
  /\ \A n \in Nodes :
       WF_vars(AddToNode(n)) /\ WF_vars(DeleteFromNode(n)) /\ WF_vars(StatusEvent(n))
  /\ WF_vars(FinishUpdate) /\ WF_vars(FinishDelete)

FairSpec == Spec /\ Fairness

-----------------------------------------------------------------------------
\* deleteModelFromNodes, through updates, errors and restarts: when a cache is
\* gone, no node that was in the cluster all the time still lists it, ready or
\* not.
NothingLeftBehind ==
  \A m \in Models, n \in Nodes \ absent : cr[m] = "none" => m \notin listed[n]

\* The finalizer is there before any node lists the model, so that a deletion
\* that comes at any moment is seen.
ListedIsHeld ==
  \A m \in Models, n \in Nodes \ absent : m \in listed[n] => m \in finalizer

\* The loop of a deletion has been to every node it does not have to visit any
\* more. With ListedIsHeld this is the inductive invariant behind
\* NothingLeftBehind.
VisitedAreClean ==
  deleting => \A n \in Nodes \ (absent \cup todo) : current \notin listed[n]

LocalModelIInv ==
  /\ LocalModelTypeOK
  /\ ListedIsHeld
  /\ VisitedAreClean

\* "Step 2 - Adds this model to LocalModelNode resources in the node group":
\* once a model is queued, every node that stays ready lists it, unless a call
\* fails, whose error is only logged.
QueuedReachesReadyNodes ==
  \A m \in Models, n \in Nodes :
    m \in queue /\ cr[m] = "live" /\ n \in ready /\ faults = 0
      ~> m \in listed[n] \/ cr[m] # "live" \/ n \notin ready \/ faults > 0

\* "Updates model status when localmodelnode status changes": what an agent
\* reports gets into the status of the cache.
ReportsReachTheCache ==
  \A m \in Models, n \in Nodes :
    m \in listed[n] \cap downloaded[n] /\ reported[n] # downloaded[n]
      /\ cr[m] = "live" /\ n \in ready /\ faults = 0
      ~> \/ n \in available[m]
         \/ m \notin listed[n] \cap downloaded[n]
         \/ cr[m] # "live" \/ n \notin ready \/ faults > 0

\* A deletion ends, although calls fail and nodes are not ready.
DeletionEnds ==
  \A m \in Models : cr[m] = "deleting" ~> cr[m] = "none"
=============================================================================
