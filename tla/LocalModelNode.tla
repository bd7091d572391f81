---------------------------- MODULE LocalModelNode ----------------------------
(***************************************************************************)
(* src/pkg/controller/v1alpha1/localmodelnode: the agent of one node. It   *)
(* has a job download each model of the list in its LocalModelNode object, *)
(* reports in the status of the object how far the models are, and removes *)
(* the jobs and folders of models that have left the list.                 *)
(*                                                                         *)
(* The object and the jobs are read from caches that follow the API server *)
(* at their own pace. The source of a model is left out: the agent passes  *)
(* it to a new job and compares it with nothing.                           *)
(***************************************************************************)
EXTENDS Naturals, FiniteSets

CONSTANTS
  Models,
  MaxJobs,     \* bound on the jobs of one model at a time
  MaxChanges,  \* bound on the changes of the list
  MaxFaults    \* bound on the failing calls, restarts and folders that get lost

ASSUME NodeAssumption ==
  /\ MaxJobs \in Nat
  /\ MaxChanges \in Nat /\ MaxFaults \in Nat

Jobs == 1..MaxJobs   \* in the order of their creation

\* ModelDownloading stands for ModelDownloadPending, too.
ModelStatus == {"ModelDownloading", "ModelDownloaded", "ModelDownloadError"}
NoStatus == "none"

\* state: "failed" is a job without a pod, which may try again or have given up
\* visible: the API server has the job; else only a pod of it is left
\* mounted: the folder its pod writes is still the folder of the model
Job == [state : {"pending", "running", "retrying", "failed", "succeeded"}, visible : BOOLEAN,
        mounted : BOOLEAN]
NoJob == [state |-> "none", visible |-> FALSE, mounted |-> FALSE]

VARIABLES
  listed,      \* Spec.LocalModels
  status,      \* [Models -> Status.ModelStatus, NoStatus if it has none]
  cached,      \* list and status, as the cache of the agent has them
  current,     \* the cache has the last version of the object
  jobs,        \* [Models -> [Jobs -> the jobs and their pods]]
  cachedJobs,  \* [Models -> the jobs the cache has, with their status]
  folder,      \* [Models -> "none", "partial" or "complete"]
  pc,          \* where Reconcile is
  object,      \* localModelNode: list and status
  fresh,       \* it is the last version
  newStatus,
  todo,        \* the models, or the folders, the loop has still to visit
  doomed,      \* the jobs that cleanupJobs has still to visit
  mishaps,     \* history: the models whose status may be wrong
  changes, faults

objectVars == <<listed, status, cached, current>>
jobVars == <<jobs, cachedJobs, folder>>
agentVars == <<pc, object, fresh, newStatus, todo, doomed>>
boundVars == <<changes, faults>>
vars == <<objectVars, jobVars, agentVars, mishaps, boundVars>>

Objects == [listed : SUBSET Models, status : [Models -> ModelStatus \cup {NoStatus}]]
NoObject == [listed |-> {}, status |-> [m \in Models |-> NoStatus]]

Init ==
  /\ listed = {}
  /\ status = [m \in Models |-> NoStatus]
  /\ cached = NoObject
  /\ current = TRUE
  /\ jobs = [m \in Models |-> [j \in Jobs |-> NoJob]]
  /\ cachedJobs = [m \in Models |-> [j \in {} |-> NoStatus]]
  /\ folder \in [Models -> {"none", "partial"}]
  /\ pc = "idle"
  /\ object = NoObject
  /\ fresh = FALSE
  /\ newStatus = status
  /\ todo = {}
  /\ doomed = {}
  /\ mishaps = {}
  /\ changes = 0 /\ faults = 0

-----------------------------------------------------------------------------
(* Jobs and their pods.                                                    *)

VisibleJobs(m) == {j \in Jobs : jobs[m][j].visible}
Writers(m) == {j \in Jobs : jobs[m][j].mounted}

\* getModelStatusFromJobStatus.
ModelStatusOf(job) ==
  CASE job.state = "succeeded" -> "ModelDownloaded"
    [] job.state \in {"retrying", "failed"} -> "ModelDownloadError"
    [] job.state \in {"pending", "running"} -> "ModelDownloading"

\* What a list of the jobs of a model returns.
JobList(m) == [j \in VisibleJobs(m) |-> ModelStatusOf(jobs[m][j])]

\* The mount of the folder makes it.
Starts(m, j, state) ==
  /\ jobs' = [jobs EXCEPT ![m][j] = [@ EXCEPT !.state = state, !.mounted = TRUE]]
  /\ folder' = [folder EXCEPT ![m] = "partial"]
  /\ UNCHANGED <<objectVars, cachedJobs, agentVars, mishaps, boundVars>>

PodStarts(m, j) == jobs[m][j].state = "pending" /\ Starts(m, j, "running")
PodRestarts(m, j) == jobs[m][j].state = "failed" /\ Starts(m, j, "retrying")

\* The pod of the job ends, and with it the job if that was deleted.
Ended(m, j, state) ==
  [jobs EXCEPT ![m][j] =
     IF @.visible THEN [@ EXCEPT !.state = state, !.mounted = FALSE] ELSE NoJob]

\* Two pods that write the same files at a time leave no complete model, until
\* the last one ends.
PodSucceeds(m, j) ==
  /\ jobs[m][j].state \in {"running", "retrying"}
  /\ jobs' = Ended(m, j, "succeeded")
  /\ folder' = IF Writers(m) = {j} THEN [folder EXCEPT ![m] = "complete"] ELSE folder
  /\ UNCHANGED <<objectVars, cachedJobs, agentVars, mishaps, boundVars>>

PodFails(m, j) ==
  /\ jobs[m][j].state \in {"running", "retrying"}
  /\ jobs' = Ended(m, j, "failed")
  /\ UNCHANGED <<objectVars, cachedJobs, folder, agentVars, mishaps, boundVars>>

\* A job that is deleted leaves its pod for a while.
Deleted(m, j) ==
  [jobs EXCEPT ![m][j] =
     IF @.state \in {"succeeded", "failed"} THEN NoJob ELSE [@ EXCEPT !.visible = FALSE]]

\* A job that has ended is deleted by a user, or after its time to live.
JobExpires(m, j) ==
  /\ jobs[m][j].state \in {"succeeded", "failed"}
  /\ jobs' = Deleted(m, j)
  /\ UNCHANGED <<objectVars, cachedJobs, folder, agentVars, mishaps, boundVars>>

\* The folder of m is removed, from under the pods that write to it.
Unmounted(m) ==
  [jobs EXCEPT ![m] = [j \in Jobs |-> IF j \in Writers(m) THEN [@[j] EXCEPT !.mounted = FALSE] ELSE @[j]]]

FolderGetsLost(m) ==
  /\ faults < MaxFaults
  /\ faults' = faults + 1
  /\ folder[m] # "none"
  /\ folder' = [folder EXCEPT ![m] = "none"]
  /\ jobs' = Unmounted(m)
  /\ mishaps' = mishaps \cup {m}
  /\ UNCHANGED <<objectVars, cachedJobs, agentVars, changes>>

-----------------------------------------------------------------------------
(* The controller and the caches.                                          *)

\* LocalModelCache adds a model to the list or removes it.
ChangeList(m) ==
  /\ changes < MaxChanges
  /\ changes' = changes + 1
  /\ listed' = IF m \in listed THEN listed \ {m} ELSE listed \cup {m}
  /\ current' = FALSE
  /\ fresh' = FALSE
  /\ UNCHANGED <<status, cached, jobVars, pc, object, newStatus, todo, doomed, mishaps, faults>>

ObjectEvent ==
  /\ ~current
  /\ cached' = [listed |-> listed, status |-> status]
  /\ current' = TRUE
  /\ UNCHANGED <<listed, status, jobVars, agentVars, mishaps, boundVars>>

JobEvent(m) ==
  /\ cachedJobs[m] # JobList(m)
  /\ cachedJobs' = [cachedJobs EXCEPT ![m] = JobList(m)]
  /\ UNCHANGED <<objectVars, jobs, folder, agentVars, mishaps, boundVars>>

-----------------------------------------------------------------------------
(* Reconcile. It runs again a minute after it has ended, sooner after an   *)
(* error or an event.                                                      *)

Ends ==
  /\ pc' = "idle"
  /\ newStatus' = [m \in Models |-> NoStatus]
  /\ todo' = {}
  /\ doomed' = {}
  /\ object' = NoObject
  /\ fresh' = FALSE

\* The models of which the cache has other jobs than the API server. The agent
\* does not wait for its cache; to read the jobs of one of these is a mishap.
Behind == {m \in Models : DOMAIN cachedJobs[m] # VisibleJobs(m)}
ReadJobs(set) == mishaps' = mishaps \cup (set \cap Behind)

\* Variant: jobs that have ended are left to their time to live.
BeginWithoutEnded ==
  /\ pc = "idle"
  /\ pc' = "cleanup"
  /\ object' = cached
  /\ fresh' = current
  /\ ReadJobs(Models \ cached.listed)
  /\ doomed' = UNION {{m} \X {j \in DOMAIN cachedJobs[m] : cachedJobs[m][j] = "ModelDownloading"}
                      : m \in Models \ cached.listed}
  /\ UNCHANGED <<objectVars, jobVars, newStatus, todo, boundVars>>

\* Get, and the list of cleanupJobs.
BeginReconcile ==
  /\ pc = "idle"
  /\ pc' = "cleanup"
  /\ object' = cached
  /\ fresh' = current
  /\ ReadJobs(Models \ cached.listed)
  /\ doomed' = UNION {{m} \X DOMAIN cachedJobs[m] : m \in Models \ cached.listed}
  /\ UNCHANGED <<objectVars, jobVars, newStatus, todo, boundVars>>

\* A job that is gone already is an error.
CleanupJob(m, j) ==
  /\ pc = "cleanup"
  /\ <<m, j>> \in doomed
  /\ IF jobs[m][j].visible
     THEN /\ jobs' = Deleted(m, j)
          /\ doomed' = doomed \ {<<m, j>>}
          /\ UNCHANGED <<pc, object, fresh, newStatus, todo>>
     ELSE Ends /\ UNCHANGED jobs
  /\ UNCHANGED <<objectVars, cachedJobs, folder, mishaps, boundVars>>

BeginDownload ==
  /\ pc = "cleanup"
  /\ doomed = {}
  /\ pc' = "download"
  /\ todo' = object.listed
  /\ newStatus' = [m \in Models |-> NoStatus]
  /\ UNCHANGED <<objectVars, jobVars, object, fresh, doomed, mishaps, boundVars>>

\* A model in the folder that is reported as downloaded is not looked at again.
Keeps(m) == folder[m] # "none" /\ object.status[m] = "ModelDownloaded"

SkipModel(m) ==
  /\ pc = "download"
  /\ m \in todo
  /\ Keeps(m)
  /\ newStatus' = [newStatus EXCEPT ![m] = "ModelDownloaded"]
  /\ todo' = todo \ {m}
  /\ UNCHANGED <<objectVars, jobVars, pc, object, fresh, doomed, mishaps, boundVars>>

\* launchJob. The numbers of jobs that are gone are used again.
NewJobs(m) ==
  {j \in Jobs \ DOMAIN cachedJobs[m] : jobs[m][j] = NoJob /\ \A i \in VisibleJobs(m) : i < j}

LaunchJob(m) ==
  \E j \in NewJobs(m) :
    /\ \A i \in NewJobs(m) : j <= i
    /\ jobs' = [jobs EXCEPT ![m][j] = [NoJob EXCEPT !.state = "pending", !.visible = TRUE]]

\* getLatestJob.
Latest(m, j) == j \in DOMAIN cachedJobs[m] /\ \A i \in DOMAIN cachedJobs[m] : i <= j

\* A job that has succeeded is followed by another one if the folder is not there,
\* unless there are two already.
Again(m, j) ==
  /\ folder[m] = "none"
  /\ cachedJobs[m][j] = "ModelDownloaded"
  /\ Cardinality(DOMAIN cachedJobs[m]) < 2

Considers(m, modelStatus) ==
  /\ pc = "download"
  /\ m \in todo
  /\ ~Keeps(m)
  /\ newStatus' = [newStatus EXCEPT ![m] = modelStatus]
  /\ todo' = todo \ {m}
  /\ UNCHANGED <<objectVars, cachedJobs, folder, pc, object, fresh, doomed, boundVars>>

NeedsJob(m) == DOMAIN cachedJobs[m] = {} \/ \E j \in Jobs : Latest(m, j) /\ Again(m, j)

\* It is a mishap to launch a job beside another one, or a pod of a job that was
\* deleted, or for an object whose status of the model is not the last one.
LaunchFor(m) ==
  /\ NeedsJob(m)
  /\ Considers(m, "ModelDownloading")
  /\ LaunchJob(m)
  /\ mishaps' =
       IF m \in Behind \/ object.status[m] # status[m] \/ \E j \in Jobs : jobs[m][j] # NoJob
       THEN mishaps \cup {m} ELSE mishaps

FollowJob(m) ==
  /\ \E j \in Jobs : Latest(m, j) /\ ~Again(m, j) /\ Considers(m, cachedJobs[m][j])
  /\ ReadJobs({m})
  /\ UNCHANGED jobs

\* deleteModels finds the folders that it has to remove.
BeginDelete ==
  /\ pc' = "delete"
  /\ todo' = {m \in Models : folder[m] # "none"} \ object.listed
  /\ newStatus' = [m \in Models |-> NoStatus]
  /\ UNCHANGED <<fresh, doomed>>

\* Variant: the write is not refused.
UpdateAnyStatus ==
  /\ pc = "download"
  /\ todo = {}
  /\ status' = newStatus
  /\ object' = [object EXCEPT !.status = newStatus]
  /\ current' = FALSE
  /\ BeginDelete
  /\ UNCHANGED <<listed, cached, jobVars, mishaps, boundVars>>

\* The status is only written if it is another one, and refused if the object
\* has changed meanwhile.
UpdateStatus ==
  /\ pc = "download"
  /\ todo = {}
  /\ CASE object.status = newStatus -> BeginDelete /\ UNCHANGED <<objectVars, object>>
       [] object.status # newStatus /\ fresh ->
            /\ status' = newStatus
            /\ object' = [object EXCEPT !.status = newStatus]
            /\ current' = FALSE
            /\ BeginDelete
            /\ UNCHANGED <<listed, cached>>
       [] OTHER -> Ends /\ UNCHANGED objectVars
  /\ UNCHANGED <<jobVars, mishaps, boundVars>>

RemoveModel(m) ==
  /\ pc = "delete"
  /\ m \in todo
  /\ todo' = todo \ {m}
  /\ folder' = [folder EXCEPT ![m] = "none"]
  /\ jobs' = Unmounted(m)
  /\ UNCHANGED <<objectVars, cachedJobs, pc, object, fresh, newStatus, doomed,
                 mishaps, boundVars>>

EndReconcile ==
  /\ pc = "delete"
  /\ todo = {}
  /\ Ends
  /\ UNCHANGED <<objectVars, jobVars, mishaps, boundVars>>

\* Any call may fail, and a removal leave a part of the folder.
PartlyRemoved ==
  \/ UNCHANGED folder
  \/ \E m \in todo : pc = "delete" /\ folder[m] # "none" /\ folder' = [folder EXCEPT ![m] = "partial"]

ReconcileFails ==
  /\ pc # "idle"
  /\ faults < MaxFaults
  /\ faults' = faults + 1
  /\ PartlyRemoved
  /\ Ends
  /\ UNCHANGED <<objectVars, jobs, cachedJobs, mishaps, changes>>

Restart ==
  /\ faults < MaxFaults
  /\ faults' = faults + 1
  /\ PartlyRemoved
  /\ Ends
  /\ cached' = [listed |-> listed, status |-> status]
  /\ current' = TRUE
  /\ cachedJobs' = [m \in Models |-> JobList(m)]
  /\ UNCHANGED <<listed, status, jobs, mishaps, changes>>

-----------------------------------------------------------------------------
Pod(m, j) == PodStarts(m, j) \/ PodSucceeds(m, j) \/ PodFails(m, j)

Reconcile ==
  \/ BeginReconcile \/ BeginDownload \/ UpdateStatus \/ EndReconcile
  \/ \E m \in Models :
       \/ SkipModel(m) \/ LaunchFor(m) \/ FollowJob(m) \/ RemoveModel(m)
       \/ \E j \in Jobs : CleanupJob(m, j)

Environment ==
  \/ ObjectEvent
  \/ \E m \in Models :
       \/ ChangeList(m) \/ JobEvent(m) \/ FolderGetsLost(m)
       \/ \E j \in Jobs : Pod(m, j) \/ PodRestarts(m, j) \/ JobExpires(m, j)
  \/ ReconcileFails \/ Restart

Next == Reconcile \/ Environment

Spec == Init /\ [][Next]_vars

\* The agent runs (RequeueAfter), the caches follow the API server, pods start and
\* end. Nothing is assumed of downloads, users and the time to live.
FairSpec ==
  /\ Spec
  /\ WF_vars(Reconcile)
  /\ WF_vars(ObjectEvent)
  /\ \A m \in Models :
       /\ WF_vars(JobEvent(m))
       /\ \A j \in Jobs : WF_vars(Pod(m, j))

-----------------------------------------------------------------------------
ObjectsTyped ==
  /\ listed \subseteq Models
  /\ status \in [Models -> ModelStatus \cup {NoStatus}]
  /\ newStatus \in [Models -> ModelStatus \cup {NoStatus}]
  /\ cached \in Objects /\ object \in Objects
  /\ current \in BOOLEAN /\ fresh \in BOOLEAN

JobsTyped ==
  /\ jobs \in [Models -> [Jobs -> Job \cup {NoJob}]]
  /\ \A m \in Models, j \in Jobs : jobs[m][j].state \in {"succeeded", "failed"} => jobs[m][j].visible

CachedJobsTyped ==
  /\ DOMAIN cachedJobs = Models
  /\ \A m \in Models :
       /\ DOMAIN cachedJobs[m] \subseteq Jobs
       /\ \A j \in DOMAIN cachedJobs[m] : cachedJobs[m][j] \in ModelStatus

NodeTypeOK ==
  /\ ObjectsTyped /\ JobsTyped /\ CachedJobsTyped
  /\ folder \in [Models -> {"none", "partial", "complete"}]
  /\ pc \in {"idle", "cleanup", "download", "delete"}
  /\ todo \subseteq Models /\ doomed \subseteq Models \X Jobs
  /\ mishaps \subseteq Models
  /\ changes \in 0..MaxChanges /\ faults \in 0..MaxFaults

\* "If folder exists and the job has been successfully completed, do nothing": a
\* model that is reported as downloaded is on the node, complete, whatever the
\* list, the jobs, the caches, failing calls and restarts do meanwhile; unless a
\* mishap has befallen it.
DownloadedIsComplete ==
  \A m \in Models :
    status[m] = "ModelDownloaded" /\ m \notin mishaps => folder[m] = "complete"

\* What the API server, the agent and its caches hold has its type, and a model
\* that is reported as downloaded is complete.
NodeInv == NodeTypeOK /\ DownloadedIsComplete

\* The bound of the jobs does not stop the agent.
BoundIsEnough == \A m \in todo : pc = "download" /\ ~Keeps(m) /\ NeedsJob(m) => NewJobs(m) # {}

\* A model that stays on the list is reported as downloaded, or as failed, if not
\* all its jobs are deleted before the agent has seen how they ended.
ListedIsAnswered ==
  <>[][\A m \in Models, j \in Jobs : ~JobExpires(m, j)]_vars =>
    \A m \in Models :
      m \in listed ~> status[m] \in {"ModelDownloaded", "ModelDownloadError"} \/ m \notin listed

\* Of a model that stays off the list nothing stays on the node: no folder, also
\* none that a job has made again, no job and no status.
UnlistedIsRemoved ==
  \A m \in Models :
    <>[](m \notin listed) =>
      <>[](folder[m] = "none" /\ status[m] = NoStatus /\ \A j \in Jobs : jobs[m][j] = NoJob)

\* The node ends up as the list says.
ListIsFollowed == []BoundIsEnough => ListedIsAnswered /\ UnlistedIsRemoved
===============================================================================
