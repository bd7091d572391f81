-------------------------- MODULE LocalModelNodeProofs --------------------------
(***************************************************************************)
(* What the agent of a node reports as downloaded is complete, unless a    *)
(* mishap has befallen the model, for any number of models, jobs, changes, *)
(* failing calls and restarts.                                             *)
(***************************************************************************)
EXTENDS LocalModelNode, TLAPS

Downloaded == "ModelDownloaded"

\* No job or pod of m will write its folder.
Quiet(m) == \A j \in Jobs : jobs[m][j].state \in {"succeeded", "none"}

Safe(m) == folder[m] = "complete" /\ Quiet(m)

\* A report is true, where it is written and where it is about to be.
ReportsTrue ==
  \A m \in Models \ mishaps :
    /\ status[m] = Downloaded => Safe(m)
    /\ pc = "download" /\ newStatus[m] = Downloaded => Safe(m)

\* A model has one job or pod at a time, which writes the folder of the model
\* as long as it can be seen; what a list of jobs says of its success is true.
JobsRight ==
  /\ \A m \in Models, j \in Jobs :
       jobs[m][j].mounted => jobs[m][j].state \in {"running", "retrying"}
  /\ \A m \in Models : \A j \in DOMAIN cachedJobs[m] :
       cachedJobs[m][j] = Downloaded => jobs[m][j].state \in {"succeeded", "none"}
  /\ \A m \in Models \ mishaps :
       /\ \A i, j \in Jobs : jobs[m][i] # NoJob /\ jobs[m][j] # NoJob => i = j
       /\ \A j \in Jobs :
            /\ jobs[m][j].visible /\ jobs[m][j].state \in {"running", "retrying"}
                 => jobs[m][j].mounted
            /\ jobs[m][j].state = "succeeded" => folder[m] = "complete"

\* The object o is a version since which only the agent has written the status.
Follows(o) ==
  /\ o.status # status => \A m \in Models : status[m] # NoStatus => m \in o.listed
  /\ \A m \in o.listed \ mishaps : o.status[m] = Downloaded => status[m] = Downloaded

VersionsRight ==
  /\ current => cached = [listed |-> listed, status |-> status]
  /\ Follows(cached)
  /\ pc \in {"cleanup", "download"} =>
       /\ fresh => current /\ object = cached
       /\ Follows(object)

\* How far Reconcile is.
LoopRight ==
  /\ pc \in {"download", "delete"} => doomed = {}
  /\ pc # "idle" =>
       \A m \in Models \ (object.listed \cup mishaps) :
         \A j \in Jobs : jobs[m][j].visible => <<m, j>> \in doomed
  /\ pc = "download" =>
       /\ todo \subseteq object.listed
       /\ \A m \in Models : newStatus[m] # NoStatus => m \in object.listed \ todo
       /\ \A m \in object.listed \ (todo \cup mishaps) :
            object.status[m] = Downloaded => newStatus[m] = Downloaded
  /\ pc = "delete" =>
       /\ todo \cap object.listed = {}
       /\ \A m \in Models \ object.listed : status[m] = NoStatus

IInv == NodeTypeOK /\ ReportsTrue /\ JobsRight /\ VersionsRight /\ LoopRight

-----------------------------------------------------------------------------
(* Jobs and pods.                                                          *)

\* What JobsTyped says of one job.
Typed(r) == r \in Job \cup {NoJob} /\ (r.state \in {"succeeded", "failed"} => r.visible)

\* No other job changes.
Only(m, j) == \A a \in Models, b \in Jobs : a # m \/ b # j => jobs'[a][b] = jobs[a][b]

LEMMA JobForm ==
  ASSUME NEW r \in Job \cup {NoJob}
  PROVE  /\ r \in Job <=> r # NoJob
         /\ r # NoJob <=> r.state # "none"
         /\ r.visible \in BOOLEAN /\ r.mounted \in BOOLEAN
         /\ r.state \in {"none", "pending", "running", "retrying", "failed", "succeeded"}
         /\ r = NoJob => ~r.visible /\ ~r.mounted
<1>1. NoJob.state = "none" /\ NoJob.visible = FALSE /\ NoJob.mounted = FALSE
  BY DEF NoJob
<1>2. CASE r = NoJob
  <2>1. r \notin Job
    BY <1>1, <1>2 DEF Job
  <2> QED
    BY <1>1, <1>2, <2>1
<1>3. CASE r \in Job
  BY <1>1, <1>3 DEF Job
<1> QED
  BY <1>2, <1>3

\* The changes of a job.
Started(r, s) == [r EXCEPT !.state = s, !.mounted = TRUE]
Stopped(r, s) == [r EXCEPT !.state = s, !.mounted = FALSE]
Hidden(r) == [r EXCEPT !.visible = FALSE]
Detached(r) == [r EXCEPT !.mounted = FALSE]

LEMMA Updates ==
  ASSUME NEW r \in Job
  PROVE  /\ \A s \in {"running", "retrying"} :
              /\ Started(r, s) \in Job /\ Started(r, s).state = s
              /\ Started(r, s).mounted /\ (Started(r, s).visible <=> r.visible)
         /\ \A s \in {"failed", "succeeded"} :
              /\ Stopped(r, s) \in Job /\ Stopped(r, s).state = s
              /\ ~Stopped(r, s).mounted /\ (Stopped(r, s).visible <=> r.visible)
         /\ /\ Hidden(r) \in Job /\ Hidden(r).state = r.state
            /\ ~Hidden(r).visible /\ (Hidden(r).mounted <=> r.mounted)
         /\ /\ Detached(r) \in Job /\ Detached(r).state = r.state
            /\ ~Detached(r).mounted /\ (Detached(r).visible <=> r.visible)
BY DEF Job, Started, Stopped, Hidden, Detached

LEMMA Changes ==
  ASSUME JobsTyped, NEW m \in Models, NEW j \in Jobs, NEW r, Typed(r), jobs' = [jobs EXCEPT ![m][j] = r]
  PROVE  JobsTyped' /\ Only(m, j) /\ jobs'[m][j] = r
<1>1. jobs \in [Models -> [Jobs -> Job \cup {NoJob}]] /\ r \in Job \cup {NoJob}
  BY DEF JobsTyped, Typed
<1> DEFINE JobValues == Job \cup {NoJob}
<1>2. jobs \in [Models -> [Jobs -> JobValues]] /\ r \in JobValues
  BY <1>1
<1> HIDE DEF JobValues
<1>3. jobs' \in [Models -> [Jobs -> JobValues]] /\ Only(m, j) /\ jobs'[m][j] = r
  BY <1>2 DEF Only
<1> USE DEF JobValues
<1>4. \A a \in Models, b \in Jobs : jobs'[a][b].state \in {"succeeded", "failed"} => jobs'[a][b].visible
  BY <1>3 DEF Only, JobsTyped, Typed
<1> QED
  BY <1>3, <1>4 DEF JobsTyped

\* A pod starts.
LEMMA StartChanges ==
  ASSUME JobsTyped, NEW m \in Models, NEW j \in Jobs, PodStarts(m, j) \/ PodRestarts(m, j)
  PROVE  /\ JobsTyped' /\ Only(m, j)
         /\ jobs[m][j].state \in {"pending", "failed"}
         /\ jobs'[m][j].state \in {"running", "retrying"} /\ jobs'[m][j].mounted
         /\ jobs'[m][j].visible <=> jobs[m][j].visible
<1>1. PICK s \in {"running", "retrying"} :
        /\ jobs[m][j].state \in {"pending", "failed"}
        /\ jobs' = [jobs EXCEPT ![m][j] = Started(jobs[m][j], s)]
  BY DEF PodStarts, PodRestarts, Starts, JobsTyped, Started
<1>2. jobs[m][j] \in Job
  BY <1>1, JobForm DEF JobsTyped
<1> DEFINE r == Started(jobs[m][j], s)
<1>3. r \in Job /\ r.state = s /\ r.mounted /\ (r.visible <=> jobs[m][j].visible)
  BY <1>2, Updates
<1>4. jobs' = [jobs EXCEPT ![m][j] = r]
  BY <1>1
<1> HIDE DEF r
<1>5. Typed(r)
  BY <1>3 DEF Typed
<1>6. JobsTyped' /\ Only(m, j) /\ jobs'[m][j] = r
  BY <1>4, <1>5, Changes
<1> QED
  BY <1>1, <1>3, <1>6

\* A pod ends, and its job stays if it can be seen.
LEMMA EndChanges ==
  ASSUME JobsTyped, NEW m \in Models, NEW j \in Jobs, NEW s \in {"succeeded", "failed"},
         jobs[m][j].state \in {"running", "retrying"}, jobs' = Ended(m, j, s)
  PROVE  /\ JobsTyped' /\ Only(m, j)
         /\ jobs[m][j].visible => /\ jobs'[m][j].state = s
                                  /\ jobs'[m][j].visible /\ ~jobs'[m][j].mounted
         /\ ~jobs[m][j].visible => jobs'[m][j] = NoJob
<1>1. jobs[m][j] \in Job
  BY JobForm DEF JobsTyped
<1>2. CASE jobs[m][j].visible
  <2> DEFINE r == Stopped(jobs[m][j], s)
  <2>1. r \in Job /\ r.state = s /\ ~r.mounted /\ (r.visible <=> jobs[m][j].visible)
    BY <1>1, Updates
  <2>2. jobs' = [jobs EXCEPT ![m][j] = r]
    BY <1>2 DEF Ended, JobsTyped, Stopped
  <2> HIDE DEF r
  <2>3. Typed(r)
    BY <1>2, <2>1 DEF Typed
  <2>4. JobsTyped' /\ Only(m, j) /\ jobs'[m][j] = r
    BY <2>2, <2>3, Changes
  <2> QED
    BY <1>2, <2>1, <2>4
<1>3. CASE ~jobs[m][j].visible
  <2>1. jobs' = [jobs EXCEPT ![m][j] = NoJob]
    BY <1>3 DEF Ended, JobsTyped
  <2>2. Typed(NoJob)
    BY DEF Typed, NoJob
  <2> QED
    BY <1>3, <2>1, <2>2, Changes
<1> QED
  BY <1>2, <1>3

\* A job is deleted.
LEMMA DeleteChanges ==
  ASSUME JobsTyped, NEW m \in Models, NEW j \in Jobs, jobs[m][j] # NoJob, jobs' = Deleted(m, j)
  PROVE  /\ JobsTyped' /\ Only(m, j)
         /\ ~jobs'[m][j].visible
         /\ \/ jobs'[m][j] = NoJob
            \/ /\ jobs'[m][j].state = jobs[m][j].state /\ (jobs'[m][j].mounted <=> jobs[m][j].mounted)
               /\ jobs[m][j].state \notin {"succeeded", "failed"}
<1>1. jobs[m][j] \in Job
  BY JobForm DEF JobsTyped
<1>2. CASE jobs[m][j].state \in {"succeeded", "failed"}
  <2>1. jobs' = [jobs EXCEPT ![m][j] = NoJob]
    BY <1>2 DEF Deleted, JobsTyped
  <2>2. Typed(NoJob) /\ ~NoJob.visible
    BY DEF Typed, NoJob
  <2> QED
    BY <2>1, <2>2, Changes
<1>3. CASE jobs[m][j].state \notin {"succeeded", "failed"}
  <2> DEFINE r == Hidden(jobs[m][j])
  <2>1. r \in Job /\ r.state = jobs[m][j].state /\ (r.mounted <=> jobs[m][j].mounted) /\ ~r.visible
    BY <1>1, Updates
  <2>2. jobs' = [jobs EXCEPT ![m][j] = r]
    BY <1>3 DEF Deleted, JobsTyped, Hidden
  <2> HIDE DEF r
  <2>3. Typed(r)
    BY <1>3, <2>1 DEF Typed
  <2>4. JobsTyped' /\ Only(m, j) /\ jobs'[m][j] = r
    BY <2>2, <2>3, Changes
  <2> QED
    BY <1>3, <2>1, <2>4
<1> QED
  BY <1>2, <1>3

\* A job is launched under a number that neither the API server nor the cache has.
LEMMA LaunchChanges ==
  ASSUME JobsTyped, NEW m \in Models, LaunchJob(m)
  PROVE  JobsTyped' /\ \E j \in Jobs :
           /\ Only(m, j) /\ jobs[m][j] = NoJob /\ j \notin DOMAIN cachedJobs[m]
           /\ jobs'[m][j].state = "pending" /\ jobs'[m][j].visible /\ ~jobs'[m][j].mounted
<1> DEFINE r == [NoJob EXCEPT !.state = "pending", !.visible = TRUE]
<1>1. PICK j \in Jobs : /\ jobs[m][j] = NoJob /\ j \notin DOMAIN cachedJobs[m]
                        /\ jobs' = [jobs EXCEPT ![m][j] = r]
  BY DEF LaunchJob, NewJobs
<1>2. Typed(r) /\ r.state = "pending" /\ r.visible /\ ~r.mounted
  BY DEF Typed, NoJob, Job
<1> HIDE DEF r
<1> QED
  BY <1>1, <1>2, Changes

\* A folder is removed.
LEMMA UnmountChanges ==
  ASSUME JobsTyped, NEW m \in Models, jobs' = Unmounted(m)
  PROVE  /\ JobsTyped'
         /\ \A a \in Models \ {m} : jobs'[a] = jobs[a]
         /\ \A j \in Jobs : /\ jobs'[m][j].state = jobs[m][j].state
                            /\ jobs'[m][j].visible <=> jobs[m][j].visible
                            /\ ~jobs'[m][j].mounted
<1> DEFINE r(j) == IF j \in Writers(m) THEN Detached(jobs[m][j]) ELSE jobs[m][j]
<1>1. ASSUME NEW j \in Jobs
      PROVE  /\ r(j) \in Job \cup {NoJob} /\ r(j).state = jobs[m][j].state
             /\ (r(j).visible <=> jobs[m][j].visible) /\ ~r(j).mounted
  <2>1. jobs[m][j] \in Job \cup {NoJob}
    BY DEF JobsTyped
  <2>2. CASE jobs[m][j].mounted
    <3>1. jobs[m][j] \in Job
      BY <2>1, <2>2, JobForm
    <3>2. r(j) = Detached(jobs[m][j])
      BY <2>2 DEF Writers
    <3> QED
      BY <3>1, <3>2, Updates
  <2>3. CASE ~jobs[m][j].mounted
    <3>1. r(j) = jobs[m][j]
      BY <2>3 DEF Writers
    <3> QED
      BY <2>1, <2>3, <3>1
  <2> QED
    BY <2>2, <2>3
<1>2. jobs' = [jobs EXCEPT ![m] = [j \in Jobs |-> r(j)]]
  BY DEF Unmounted, Detached
<1> HIDE DEF r
<1> DEFINE JobValues == Job \cup {NoJob}
<1>3. jobs \in [Models -> [Jobs -> JobValues]] /\ \A j \in Jobs : r(j) \in JobValues
  BY <1>1 DEF JobsTyped
<1> HIDE DEF JobValues
<1>4. /\ jobs' \in [Models -> [Jobs -> JobValues]]
      /\ \A a \in Models \ {m} : jobs'[a] = jobs[a]
      /\ \A j \in Jobs : jobs'[m][j] = r(j)
  BY <1>2, <1>3
<1> USE DEF JobValues
<1>5. \A a \in Models, b \in Jobs : jobs'[a][b].state \in {"succeeded", "failed"} => jobs'[a][b].visible
  BY <1>1, <1>4 DEF JobsTyped
<1> QED
  BY <1>1, <1>4, <1>5 DEF JobsTyped

-----------------------------------------------------------------------------
(* Types.                                                                  *)

LEMMA JobsStep ==
  ASSUME NodeTypeOK, [Next]_vars
  PROVE  JobsTyped'
<1>1. ASSUME NEW m \in Models, NEW j \in Jobs, CleanupJob(m, j)  PROVE JobsTyped'
  <2>1. CASE jobs[m][j].visible
    <3>1. jobs[m][j] # NoJob
      BY <2>1 DEF NoJob
    <3> QED
      BY <1>1, <2>1, <3>1, DeleteChanges DEF CleanupJob, NodeTypeOK
  <2>2. CASE ~jobs[m][j].visible
    BY <1>1, <2>2 DEF CleanupJob, NodeTypeOK, JobsTyped
  <2> QED
    BY <2>1, <2>2
<1>2. ASSUME NEW m \in Models, LaunchFor(m)  PROVE JobsTyped'
  BY <1>2, LaunchChanges DEF LaunchFor, NodeTypeOK
<1>3. ASSUME NEW m \in Models, RemoveModel(m) \/ FolderGetsLost(m)  PROVE JobsTyped'
  BY <1>3, UnmountChanges DEF RemoveModel, FolderGetsLost, NodeTypeOK
<1>4. ASSUME NEW m \in Models, NEW j \in Jobs, PodStarts(m, j) \/ PodRestarts(m, j)  PROVE JobsTyped'
  BY <1>4, StartChanges DEF NodeTypeOK
<1>5. ASSUME NEW m \in Models, NEW j \in Jobs, PodSucceeds(m, j) \/ PodFails(m, j)  PROVE JobsTyped'
  BY <1>5, EndChanges DEF NodeTypeOK, PodSucceeds, PodFails
<1>6. ASSUME NEW m \in Models, NEW j \in Jobs, JobExpires(m, j)  PROVE JobsTyped'
  <2>1. jobs[m][j] # NoJob
    BY <1>6 DEF JobExpires, NoJob
  <2> QED
    BY <1>6, <2>1, DeleteChanges DEF JobExpires, NodeTypeOK
<1>7. CASE UNCHANGED jobs
  BY <1>7 DEF NodeTypeOK, JobsTyped
<1>8. ASSUME NEW m \in Models, SkipModel(m) \/ FollowJob(m) \/ ChangeList(m) \/ JobEvent(m)  PROVE UNCHANGED jobs
  BY <1>8 DEF SkipModel, FollowJob, ChangeList, JobEvent, jobVars
<1>9. BeginReconcile \/ BeginDownload \/ UpdateStatus \/ EndReconcile \/ ObjectEvent \/ ReconcileFails
        \/ Restart \/ UNCHANGED vars => UNCHANGED jobs
  BY DEF BeginReconcile, BeginDownload, UpdateStatus, EndReconcile, ObjectEvent, ReconcileFails, Restart,
         jobVars, vars
<1> QED
  BY <1>1, <1>2, <1>3, <1>4, <1>5, <1>6, <1>7, <1>8, <1>9 DEF Next, Reconcile, Environment, Pod

LEMMA ListForm ==
  ASSUME JobsTyped, NEW m \in Models
  PROVE  /\ DOMAIN JobList(m) = VisibleJobs(m) /\ VisibleJobs(m) \subseteq Jobs
         /\ \A j \in DOMAIN JobList(m) :
              /\ JobList(m)[j] \in ModelStatus
              /\ JobList(m)[j] = Downloaded => jobs[m][j].state = "succeeded"
<1>1. DOMAIN JobList(m) = VisibleJobs(m) /\ VisibleJobs(m) \subseteq Jobs
  BY DEF JobList, VisibleJobs
<1>2. ASSUME NEW j \in VisibleJobs(m)
      PROVE  /\ JobList(m)[j] \in ModelStatus
             /\ JobList(m)[j] = Downloaded => jobs[m][j].state = "succeeded"
  <2>1. JobList(m)[j] = ModelStatusOf(jobs[m][j])
    BY DEF JobList
  <2>2. jobs[m][j].state \in {"pending", "running", "retrying", "failed", "succeeded"}
    BY JobForm DEF JobsTyped, VisibleJobs
  <2> QED
    BY <2>1, <2>2 DEF ModelStatusOf, ModelStatus, Downloaded
<1> QED
  BY <1>1, <1>2

LEMMA CachedJobsStep ==
  ASSUME NodeTypeOK, [Next]_vars
  PROVE  CachedJobsTyped'
<1> USE DEF NodeTypeOK, CachedJobsTyped
<1>1. ASSUME NEW m \in Models, JobEvent(m)  PROVE CachedJobsTyped'
  BY <1>1, ListForm DEF JobEvent
<1>2. CASE Restart
  BY <1>2, ListForm DEF Restart
<1>3. CASE UNCHANGED cachedJobs
  BY <1>3
<1>4. ASSUME NEW m \in Models,
             \/ SkipModel(m) \/ FollowJob(m) \/ ChangeList(m) \/ LaunchFor(m) \/ RemoveModel(m) \/ FolderGetsLost(m)
             \/ \E j \in Jobs : \/ CleanupJob(m, j) \/ PodStarts(m, j) \/ PodRestarts(m, j)
                                \/ PodSucceeds(m, j) \/ PodFails(m, j) \/ JobExpires(m, j)
      PROVE  UNCHANGED cachedJobs
  BY <1>4 DEF SkipModel, FollowJob, ChangeList, LaunchFor, RemoveModel, FolderGetsLost, CleanupJob,
              PodStarts, PodRestarts, Starts, PodSucceeds, PodFails, JobExpires, Considers, jobVars
<1>5. BeginReconcile \/ BeginDownload \/ UpdateStatus \/ EndReconcile \/ ObjectEvent \/ ReconcileFails
        \/ UNCHANGED vars => UNCHANGED cachedJobs
  BY DEF BeginReconcile, BeginDownload, UpdateStatus, EndReconcile, ObjectEvent, ReconcileFails, jobVars, vars
<1> QED
  BY <1>1, <1>2, <1>3, <1>4, <1>5 DEF Next, Reconcile, Environment, Pod

LEMMA ObjectsStep ==
  ASSUME NodeTypeOK, [Next]_vars
  PROVE  ObjectsTyped'
<1> USE DEF NodeTypeOK, ObjectsTyped, Objects, ModelStatus, NoStatus
<1>1. NoObject \in Objects /\ [m \in Models |-> NoStatus] \in [Models -> ModelStatus \cup {NoStatus}]
  BY DEF NoObject
<1>2. [listed |-> listed, status |-> status] \in Objects /\ [object EXCEPT !.status = newStatus] \in Objects
  BY DEF Objects
<1>3. ASSUME Ends  PROVE object' \in Objects /\ fresh' \in BOOLEAN
                         /\ newStatus' \in [Models -> ModelStatus \cup {NoStatus}]
  BY <1>1, <1>3 DEF Ends
<1>4. ASSUME NEW m \in Models, NEW s \in ModelStatus, newStatus' = [newStatus EXCEPT ![m] = s]
      PROVE  newStatus' \in [Models -> ModelStatus \cup {NoStatus}]
  BY <1>4
<1> HIDE DEF Objects, ModelStatus, NoStatus
<1>5. "ModelDownloading" \in ModelStatus /\ "ModelDownloaded" \in ModelStatus
  BY DEF ModelStatus
<1>6. CASE BeginReconcile
  BY <1>6 DEF BeginReconcile, objectVars
<1>7. ASSUME NEW m \in Models, NEW j \in Jobs, CleanupJob(m, j)  PROVE ObjectsTyped'
  BY <1>7, <1>3 DEF CleanupJob, objectVars
<1>8. CASE BeginDownload
  BY <1>8, <1>1 DEF BeginDownload, objectVars
<1>9. ASSUME NEW m \in Models, SkipModel(m)  PROVE ObjectsTyped'
  BY <1>9, <1>4, <1>5 DEF SkipModel, objectVars
<1>10. ASSUME NEW m \in Models, NEW s \in ModelStatus, Considers(m, s)  PROVE ObjectsTyped'
  BY <1>10, <1>4 DEF Considers, objectVars
<1>11. ASSUME NEW m \in Models, LaunchFor(m)  PROVE ObjectsTyped'
  BY <1>11, <1>5, <1>10 DEF LaunchFor
<1>12. ASSUME NEW m \in Models, FollowJob(m)  PROVE ObjectsTyped'
  <2>1. PICK j \in Jobs : j \in DOMAIN cachedJobs[m] /\ Considers(m, cachedJobs[m][j])
    BY <1>12 DEF FollowJob, Latest
  <2>2. cachedJobs[m][j] \in ModelStatus
    BY <2>1 DEF CachedJobsTyped
  <2> QED
    BY <2>1, <2>2, <1>10
<1>13. CASE UpdateStatus
  <2>1. CASE Ends /\ UNCHANGED objectVars
    BY <2>1, <1>3 DEF objectVars
  <2>2. CASE BeginDelete /\ UNCHANGED <<objectVars, object>>
    BY <2>2, <1>1 DEF BeginDelete, objectVars
  <2>3. CASE /\ BeginDelete /\ status' = newStatus /\ object' = [object EXCEPT !.status = newStatus]
             /\ current' = FALSE /\ UNCHANGED <<listed, cached>>
    BY <2>3, <1>1, <1>2 DEF BeginDelete
  <2> QED
    BY <1>13, <2>1, <2>2, <2>3 DEF UpdateStatus
<1>14. ASSUME NEW m \in Models, RemoveModel(m) \/ FolderGetsLost(m) \/ JobEvent(m)  PROVE ObjectsTyped'
  BY <1>14 DEF RemoveModel, FolderGetsLost, JobEvent, objectVars, agentVars
<1>15. CASE EndReconcile \/ ReconcileFails
  BY <1>15, <1>3 DEF EndReconcile, ReconcileFails, objectVars
<1>16. CASE ObjectEvent
  BY <1>16, <1>2 DEF ObjectEvent, agentVars
<1>17. ASSUME NEW m \in Models, ChangeList(m)  PROVE ObjectsTyped'
  BY <1>17 DEF ChangeList
<1>18. CASE Restart
  BY <1>18, <1>2, <1>3 DEF Restart
<1>19. ASSUME NEW m \in Models, NEW j \in Jobs,
              \/ PodStarts(m, j) \/ PodRestarts(m, j) \/ PodSucceeds(m, j) \/ PodFails(m, j) \/ JobExpires(m, j)
       PROVE  ObjectsTyped'
  BY <1>19 DEF PodStarts, PodRestarts, Starts, PodSucceeds, PodFails, JobExpires, objectVars, agentVars
<1>20. CASE UNCHANGED vars
  BY <1>20 DEF vars, objectVars, agentVars
<1> QED
  BY <1>6, <1>7, <1>8, <1>9, <1>11, <1>12, <1>13, <1>14, <1>15, <1>16, <1>17, <1>18, <1>19, <1>20
     DEF Next, Reconcile, Environment, Pod

LEMMA TypeStep ==
  ASSUME NodeAssumption, NodeTypeOK, [Next]_vars
  PROVE  NodeTypeOK'
<1> DEFINE RestTyped ==
      /\ folder \in [Models -> {"none", "partial", "complete"}]
      /\ pc \in {"idle", "cleanup", "download", "delete"}
      /\ todo \subseteq Models /\ doomed \subseteq Models \X Jobs
      /\ mishaps \subseteq Models
      /\ changes \in 0..MaxChanges /\ faults \in 0..MaxFaults
<1> SUFFICES RestTyped'
  BY JobsStep, CachedJobsStep, ObjectsStep DEF NodeTypeOK
<1> USE DEF NodeAssumption
<1>1. RestTyped
  BY DEF NodeTypeOK
<1>2. object.listed \subseteq Models /\ cached.listed \subseteq Models
  BY DEF NodeTypeOK, ObjectsTyped, Objects
<1>3. CASE BeginReconcile
  <2>1. doomed' \subseteq Models \X Jobs
    BY <1>3, <1>2 DEF BeginReconcile, NodeTypeOK, CachedJobsTyped
  <2> QED
    BY <1>1, <1>3, <2>1 DEF BeginReconcile, ReadJobs, Behind, jobVars, boundVars
<1>4. ASSUME NEW m \in Models, NEW j \in Jobs, CleanupJob(m, j)  PROVE RestTyped'
  BY <1>1, <1>4 DEF CleanupJob, Ends, boundVars
<1>5. CASE BeginDownload
  BY <1>1, <1>2, <1>5 DEF BeginDownload, jobVars, boundVars
<1>6. ASSUME NEW m \in Models, SkipModel(m)  PROVE RestTyped'
  BY <1>1, <1>6 DEF SkipModel, jobVars, boundVars
<1>7. ASSUME NEW m \in Models, LaunchFor(m)  PROVE RestTyped'
  BY <1>1, <1>7 DEF LaunchFor, Considers, boundVars
<1>8. ASSUME NEW m \in Models, FollowJob(m)  PROVE RestTyped'
  BY <1>1, <1>8 DEF FollowJob, Considers, ReadJobs, boundVars
<1>9. CASE UpdateStatus
  <2>1. CASE Ends
    BY <1>1, <1>9, <2>1 DEF UpdateStatus, Ends, jobVars, boundVars
  <2>2. CASE BeginDelete
    BY <1>1, <1>9, <2>2 DEF UpdateStatus, BeginDelete, jobVars, boundVars
  <2> QED
    BY <1>9, <2>1, <2>2 DEF UpdateStatus
<1>10. ASSUME NEW m \in Models, RemoveModel(m)  PROVE RestTyped'
  BY <1>1, <1>10 DEF RemoveModel, boundVars
<1>11. CASE EndReconcile
  BY <1>1, <1>11 DEF EndReconcile, Ends, jobVars, boundVars
<1>12. CASE ObjectEvent
  BY <1>1, <1>12 DEF ObjectEvent, jobVars, agentVars, boundVars
<1>13. ASSUME NEW m \in Models, ChangeList(m)  PROVE RestTyped'
  BY <1>1, <1>13 DEF ChangeList, jobVars
<1>14. ASSUME NEW m \in Models, JobEvent(m)  PROVE RestTyped'
  BY <1>1, <1>14 DEF JobEvent, agentVars, boundVars
<1>15. ASSUME NEW m \in Models, FolderGetsLost(m)  PROVE RestTyped'
  BY <1>1, <1>15 DEF FolderGetsLost, agentVars
<1>16. ASSUME NEW m \in Models, NEW j \in Jobs, PodStarts(m, j) \/ PodRestarts(m, j)  PROVE RestTyped'
  BY <1>1, <1>16 DEF PodStarts, PodRestarts, Starts, agentVars, boundVars
<1>17. ASSUME NEW m \in Models, NEW j \in Jobs, PodSucceeds(m, j)  PROVE RestTyped'
  BY <1>1, <1>17 DEF PodSucceeds, agentVars, boundVars
<1>18. ASSUME NEW m \in Models, NEW j \in Jobs, PodFails(m, j) \/ JobExpires(m, j)  PROVE RestTyped'
  BY <1>1, <1>18 DEF PodFails, JobExpires, agentVars, boundVars
<1>19. CASE ReconcileFails \/ Restart
  BY <1>1, <1>19 DEF ReconcileFails, Restart, PartlyRemoved, Ends
<1>20. CASE UNCHANGED vars
  BY <1>1, <1>20 DEF vars, agentVars, jobVars, boundVars
<1> QED
  BY <1>3, <1>4, <1>5, <1>6, <1>7, <1>8, <1>9, <1>10, <1>11, <1>12, <1>13, <1>14, <1>15, <1>16, <1>17, <1>18,
     <1>19, <1>20 DEF Next, Reconcile, Environment, Pod

-----------------------------------------------------------------------------
(* The inductive invariant.                                                *)

\* A mishap is never forgotten.
LEMMA MishapsStay ==
  ASSUME [Next]_vars
  PROVE  mishaps \subseteq mishaps'
<1>1. ASSUME NEW m \in Models,
             \/ SkipModel(m) \/ LaunchFor(m) \/ FollowJob(m) \/ RemoveModel(m)
             \/ ChangeList(m) \/ JobEvent(m) \/ FolderGetsLost(m)
      PROVE  mishaps \subseteq mishaps'
  BY <1>1 DEF SkipModel, LaunchFor, FollowJob, RemoveModel, ChangeList, JobEvent, FolderGetsLost, ReadJobs
<1>2. ASSUME NEW m \in Models, NEW j \in Jobs,
             \/ CleanupJob(m, j) \/ PodStarts(m, j) \/ PodRestarts(m, j)
             \/ PodSucceeds(m, j) \/ PodFails(m, j) \/ JobExpires(m, j)
      PROVE  mishaps \subseteq mishaps'
  BY <1>2 DEF CleanupJob, PodStarts, PodRestarts, Starts, PodSucceeds, PodFails, JobExpires
<1>3. \/ BeginReconcile \/ BeginDownload \/ UpdateStatus \/ EndReconcile \/ ObjectEvent \/ ReconcileFails
      \/ Restart \/ UNCHANGED vars
      => mishaps \subseteq mishaps'
  BY DEF BeginReconcile, ReadJobs, BeginDownload, UpdateStatus, EndReconcile, ObjectEvent, ReconcileFails,
         Restart, vars
<1> QED
  BY <1>1, <1>2, <1>3 DEF Next, Reconcile, Environment, Pod

LEMMA VersionsStep ==
  ASSUME IInv, [Next]_vars
  PROVE  VersionsRight'
<1>1. VersionsRight /\ mishaps \subseteq mishaps'
  BY MishapsStay DEF IInv
<1> USE DEF VersionsRight, Follows
<1>2. CASE BeginReconcile
  BY <1>1, <1>2 DEF BeginReconcile, objectVars
<1>3. ASSUME NEW m \in Models, NEW j \in Jobs, CleanupJob(m, j)  PROVE VersionsRight'
  BY <1>1, <1>3 DEF CleanupJob, Ends, objectVars
<1>4. CASE BeginDownload
  BY <1>1, <1>4 DEF BeginDownload, objectVars
<1>5. ASSUME NEW m \in Models, SkipModel(m) \/ LaunchFor(m) \/ FollowJob(m)  PROVE VersionsRight'
  BY <1>1, <1>5 DEF SkipModel, LaunchFor, FollowJob, Considers, objectVars
<1>6. CASE UpdateStatus
  <2>1. CASE Ends /\ UNCHANGED objectVars
    BY <1>1, <2>1 DEF Ends, objectVars
  <2>2. CASE BeginDelete /\ UNCHANGED <<objectVars, object>>
    BY <1>1, <1>6, <2>2 DEF BeginDelete, objectVars
  <2>3. CASE /\ fresh /\ BeginDelete /\ status' = newStatus /\ current' = FALSE
             /\ UNCHANGED <<listed, cached>>
    <3>1. pc = "download" /\ todo = {} /\ pc' = "delete"
      BY <1>6, <2>3 DEF UpdateStatus, BeginDelete
    <3>2. object = cached
      BY <1>1, <2>3, <3>1
    <3>3. /\ \A m \in Models : newStatus[m] # NoStatus => m \in cached.listed
          /\ \A m \in cached.listed \ mishaps :
               cached.status[m] = Downloaded => newStatus[m] = Downloaded
      BY <3>1, <3>2 DEF IInv, LoopRight
    <3> QED
      BY <1>1, <2>3, <3>1, <3>3
  <2> QED
    BY <1>6, <2>1, <2>2, <2>3 DEF UpdateStatus
<1>7. ASSUME NEW m \in Models, RemoveModel(m) \/ JobEvent(m) \/ FolderGetsLost(m)  PROVE VersionsRight'
  BY <1>1, <1>7 DEF RemoveModel, JobEvent, FolderGetsLost, objectVars, agentVars
<1>8. CASE EndReconcile \/ ReconcileFails
  BY <1>1, <1>8 DEF EndReconcile, ReconcileFails, Ends, objectVars
<1>9. CASE ObjectEvent
  BY <1>1, <1>9 DEF ObjectEvent, agentVars
<1>10. ASSUME NEW m \in Models, ChangeList(m)  PROVE VersionsRight'
  BY <1>1, <1>10 DEF ChangeList
<1>11. CASE Restart
  BY <1>11 DEF Restart, Ends
<1>12. ASSUME NEW m \in Models, NEW j \in Jobs,
              \/ PodStarts(m, j) \/ PodRestarts(m, j) \/ PodSucceeds(m, j) \/ PodFails(m, j) \/ JobExpires(m, j)
       PROVE  VersionsRight'
  BY <1>1, <1>12 DEF PodStarts, PodRestarts, Starts, PodSucceeds, PodFails, JobExpires, objectVars, agentVars
<1>13. CASE UNCHANGED vars
  BY <1>1, <1>13 DEF vars, objectVars, agentVars
<1> QED
  BY <1>2, <1>3, <1>4, <1>5, <1>6, <1>7, <1>8, <1>9, <1>10, <1>11, <1>12, <1>13
     DEF Next, Reconcile, Environment, Pod

\* Only the loop of downloadModels makes jobs, for models of the list it goes by.
LEMMA NewJobsAreListed ==
  ASSUME IInv, [Next]_vars, NEW a \in Models, NEW b \in Jobs, jobs'[a][b].visible
  PROVE  jobs[a][b].visible \/ (pc = "download" /\ a \in object.listed)
<1>1. JobsTyped
  BY DEF IInv, NodeTypeOK
<1>2. jobs[a][b] = jobs'[a][b] => jobs[a][b].visible
  OBVIOUS
<1>3. ASSUME NEW m \in Models, NEW j \in Jobs, CleanupJob(m, j), jobs[m][j].visible
      PROVE  jobs[a][b].visible
  <2>1. jobs[m][j] # NoJob
    BY <1>3 DEF NoJob
  <2> QED
    BY <1>1, <1>2, <1>3, <2>1, DeleteChanges DEF CleanupJob, Only
<1>4. ASSUME NEW m \in Models, LaunchFor(m), jobs'[a] # jobs[a]
      PROVE  pc = "download" /\ a \in object.listed
  <2>1. pc = "download" /\ m \in todo /\ LaunchJob(m)
    BY <1>4 DEF LaunchFor, Considers
  <2>2. m \in object.listed
    BY <2>1 DEF IInv, LoopRight
  <2>3. a = m
    BY <1>1, <1>4, <2>1 DEF LaunchJob, JobsTyped
  <2> QED
    BY <2>1, <2>2, <2>3
<1>5. ASSUME NEW m \in Models, RemoveModel(m) \/ FolderGetsLost(m)  PROVE jobs[a][b].visible
  BY <1>1, <1>2, <1>5, UnmountChanges DEF RemoveModel, FolderGetsLost
<1>6. ASSUME NEW m \in Models, NEW j \in Jobs, PodStarts(m, j) \/ PodRestarts(m, j)
      PROVE  jobs[a][b].visible
  BY <1>1, <1>2, <1>6, StartChanges DEF Only
<1>7. ASSUME NEW m \in Models, NEW j \in Jobs, PodSucceeds(m, j) \/ PodFails(m, j)
      PROVE  jobs[a][b].visible
  <2>1. ~NoJob.visible
    BY DEF NoJob
  <2> QED
    BY <1>1, <1>2, <1>7, <2>1, EndChanges DEF PodSucceeds, PodFails, Only
<1>8. ASSUME NEW m \in Models, NEW j \in Jobs, JobExpires(m, j)  PROVE jobs[a][b].visible
  <2>1. jobs[m][j] # NoJob
    BY <1>8 DEF JobExpires, NoJob
  <2> QED
    BY <1>1, <1>2, <1>8, <2>1, DeleteChanges DEF JobExpires, Only
<1>9. ASSUME NEW m \in Models,
             \/ SkipModel(m) \/ FollowJob(m) \/ ChangeList(m) \/ JobEvent(m)
             \/ \E j \in Jobs : CleanupJob(m, j) /\ ~jobs[m][j].visible
      PROVE  UNCHANGED jobs
  BY <1>9 DEF SkipModel, FollowJob, ChangeList, JobEvent, CleanupJob, jobVars
<1>10. \/ BeginReconcile \/ BeginDownload \/ UpdateStatus \/ EndReconcile \/ ObjectEvent \/ ReconcileFails
       \/ Restart \/ UNCHANGED vars
       => UNCHANGED jobs
  BY DEF BeginReconcile, BeginDownload, UpdateStatus, EndReconcile, ObjectEvent, ReconcileFails, Restart,
         jobVars, vars
<1> QED
  BY <1>2, <1>3, <1>4, <1>5, <1>6, <1>7, <1>8, <1>9, <1>10 DEF Next, Reconcile, Environment, Pod

\* A model that was read as downloaded is kept.
LEMMA DownloadedIsKept ==
  ASSUME IInv, NEW m \in object.listed \ mishaps, pc = "download", object.status[m] = Downloaded
  PROVE  Keeps(m)
<1>1. m \in Models
  BY DEF IInv, NodeTypeOK, ObjectsTyped, Objects
<1>2. status[m] = Downloaded
  BY DEF IInv, VersionsRight, Follows
<1>3. folder[m] = "complete"
  BY <1>1, <1>2 DEF IInv, ReportsTrue, Safe
<1> QED
  BY <1>3 DEF Keeps, Downloaded

LEMMA LoopStep ==
  ASSUME IInv, [Next]_vars
  PROVE  LoopRight'
<1>1. LoopRight /\ mishaps \subseteq mishaps' /\ object.listed \subseteq Models
  BY MishapsStay DEF IInv, NodeTypeOK, ObjectsTyped, Objects
<1>2. ASSUME UNCHANGED <<pc, object, doomed>>
      PROVE  \A m \in Models \ (object'.listed \cup mishaps') :
               \A j \in Jobs : pc' # "idle" /\ jobs'[m][j].visible => <<m, j>> \in doomed'
  BY <1>1, <1>2, NewJobsAreListed DEF LoopRight
<1>3. CASE BeginReconcile
  <2>1. /\ pc' = "cleanup" /\ object' = cached /\ UNCHANGED jobs
        /\ doomed' = UNION {{m} \X DOMAIN cachedJobs[m] : m \in Models \ cached.listed}
        /\ \A m \in Models \ cached.listed : m \notin mishaps' => m \notin Behind
    BY <1>3 DEF BeginReconcile, ReadJobs, jobVars
  <2>2. ASSUME NEW m \in Models \ (cached.listed \cup mishaps'), NEW j \in Jobs, jobs[m][j].visible
        PROVE  <<m, j>> \in doomed'
    <3>1. j \in DOMAIN cachedJobs[m]
      BY <2>1, <2>2 DEF Behind, VisibleJobs
    <3> QED
      BY <2>1, <3>1
  <2> QED
    BY <2>1, <2>2 DEF LoopRight
<1>4. ASSUME NEW m \in Models, NEW j \in Jobs, CleanupJob(m, j)  PROVE LoopRight'
  <2>1. CASE ~jobs[m][j].visible
    BY <1>4, <2>1 DEF CleanupJob, Ends, LoopRight
  <2>2. CASE jobs[m][j].visible
    <3>1. /\ pc = "cleanup" /\ jobs' = Deleted(m, j) /\ doomed' = doomed \ {<<m, j>>}
          /\ UNCHANGED <<pc, object>>
      BY <1>4, <2>2 DEF CleanupJob
    <3>2. ~jobs'[m][j].visible
      <4>1. jobs[m][j] # NoJob
        BY <2>2 DEF NoJob
      <4> QED
        BY <3>1, <4>1, DeleteChanges DEF IInv, NodeTypeOK
    <3>3. ASSUME NEW a \in Models \ (object.listed \cup mishaps'), NEW b \in Jobs, jobs'[a][b].visible
          PROVE  <<a, b>> \in doomed'
      BY <1>1, <3>1, <3>2, <3>3, NewJobsAreListed DEF LoopRight
    <3> QED
      BY <3>1, <3>3 DEF LoopRight
  <2> QED
    BY <2>1, <2>2
<1>5. CASE BeginDownload
  BY <1>1, <1>2, <1>5 DEF BeginDownload, LoopRight, jobVars
<1>6. ASSUME NEW m \in Models, NEW s \in ModelStatus, pc = "download", m \in todo,
             newStatus' = [newStatus EXCEPT ![m] = s], todo' = todo \ {m},
             UNCHANGED <<pc, object, doomed>>,
             object.status[m] = Downloaded /\ m \notin mishaps => s = Downloaded
      PROVE  LoopRight'
  <2>1. newStatus'[m] = s /\ \A a \in Models \ {m} : newStatus'[a] = newStatus[a]
    BY <1>6 DEF IInv, NodeTypeOK, ObjectsTyped
  <2> QED
    BY <1>1, <1>2, <1>6, <2>1 DEF LoopRight
<1>7. "ModelDownloading" \in ModelStatus /\ "ModelDownloaded" \in ModelStatus
  BY DEF ModelStatus
<1>8. ASSUME NEW m \in Models, SkipModel(m)  PROVE LoopRight'
  BY <1>6, <1>7, <1>8 DEF SkipModel, Downloaded
<1>9. ASSUME NEW m \in Models, NEW s \in ModelStatus, Considers(m, s)  PROVE LoopRight'
  <2>1. m \in object.listed /\ (object.status[m] = Downloaded => m \in mishaps)
    BY <1>1, <1>9, DownloadedIsKept DEF Considers, LoopRight
  <2> QED
    BY <1>6, <1>9, <2>1 DEF Considers
<1>10. ASSUME NEW m \in Models, LaunchFor(m)  PROVE LoopRight'
  BY <1>7, <1>9, <1>10 DEF LaunchFor
<1>11. ASSUME NEW m \in Models, FollowJob(m)  PROVE LoopRight'
  <2>1. PICK j \in Jobs : j \in DOMAIN cachedJobs[m] /\ Considers(m, cachedJobs[m][j])
    BY <1>11 DEF FollowJob, Latest
  <2>2. cachedJobs[m][j] \in ModelStatus
    BY <2>1 DEF IInv, NodeTypeOK, CachedJobsTyped
  <2> QED
    BY <1>9, <2>1, <2>2
<1>12. CASE UpdateStatus
  <2>1. CASE Ends
    BY <2>1 DEF Ends, LoopRight
  <2>2. CASE BeginDelete
    <3>1. /\ pc = "download" /\ pc' = "delete" /\ UNCHANGED <<doomed, jobs, mishaps>>
          /\ todo' \cap object.listed = {} /\ object'.listed = object.listed
      <4>1. /\ pc = "download" /\ pc' = "delete" /\ UNCHANGED <<doomed, jobs, mishaps>>
            /\ todo' \cap object.listed = {}
        BY <1>12, <2>2 DEF UpdateStatus, BeginDelete, jobVars
      <4>2. object' = object \/ object' = [object EXCEPT !.status = newStatus]
        BY <1>12, <2>2, <4>1 DEF UpdateStatus, Ends
      <4>3. object \in Objects
        BY DEF IInv, NodeTypeOK, ObjectsTyped
      <4>4. [object EXCEPT !.status = newStatus].listed = object.listed
        BY <4>3 DEF Objects
      <4> QED
        BY <4>1, <4>2, <4>4
    <3>2. ASSUME NEW m \in Models \ object.listed  PROVE status'[m] = NoStatus
      <4>1. newStatus[m] = NoStatus
        BY <1>1, <3>1 DEF LoopRight
      <4>2. CASE object.status = newStatus /\ status' = status
        BY <3>1, <4>1, <4>2 DEF IInv, VersionsRight, Follows
      <4>3. CASE status' = newStatus
        BY <4>1, <4>3
      <4> QED
        BY <1>12, <2>2, <3>1, <4>2, <4>3 DEF UpdateStatus, objectVars, Ends
    <3> QED
      BY <1>1, <3>1, <3>2 DEF LoopRight
  <2> QED
    BY <1>12, <2>1, <2>2 DEF UpdateStatus
<1>13. ASSUME NEW m \in Models, RemoveModel(m)  PROVE LoopRight'
  BY <1>1, <1>2, <1>13 DEF RemoveModel, LoopRight, objectVars
<1>14. CASE EndReconcile \/ ReconcileFails \/ Restart
  BY <1>14 DEF EndReconcile, ReconcileFails, Restart, Ends, LoopRight
<1>15. ASSUME UNCHANGED <<agentVars, status>>
       PROVE  LoopRight'
  BY <1>1, <1>2, <1>15 DEF LoopRight, agentVars
<1>16. ASSUME NEW m \in Models, NEW j \in Jobs,
              \/ PodStarts(m, j) \/ PodRestarts(m, j) \/ PodSucceeds(m, j) \/ PodFails(m, j) \/ JobExpires(m, j)
       PROVE  LoopRight'
  BY <1>15, <1>16 DEF PodStarts, PodRestarts, Starts, PodSucceeds, PodFails, JobExpires, objectVars
<1>17. ASSUME NEW m \in Models, JobEvent(m) \/ FolderGetsLost(m)  PROVE LoopRight'
  BY <1>15, <1>17 DEF JobEvent, FolderGetsLost, objectVars
<1>18. CASE ObjectEvent \/ UNCHANGED vars
  BY <1>15, <1>18 DEF ObjectEvent, vars, objectVars
<1>19. ASSUME NEW m \in Models, ChangeList(m)  PROVE LoopRight'
  BY <1>1, <1>2, <1>19 DEF ChangeList, LoopRight
<1> QED
  BY <1>3, <1>4, <1>5, <1>8, <1>10, <1>11, <1>12, <1>13, <1>14, <1>16, <1>17, <1>18, <1>19
     DEF Next, Reconcile, Environment, Pod

\* A folder that is being removed is of a model without jobs and without a status.
LEMMA RemovedIsIdle ==
  ASSUME IInv, pc = "delete", NEW m \in todo
  PROVE  /\ m \in Models /\ status[m] = NoStatus
         /\ m \notin mishaps => \A j \in Jobs : ~jobs[m][j].visible /\ jobs[m][j].state # "succeeded"
<1>1. m \in Models /\ m \notin object.listed
  BY DEF IInv, NodeTypeOK, LoopRight
<1>2. m \notin mishaps => \A j \in Jobs : ~jobs[m][j].visible
  BY <1>1 DEF IInv, LoopRight
<1> QED
  BY <1>1, <1>2 DEF IInv, LoopRight, NodeTypeOK, JobsTyped

\* What is said of the jobs of one model.
JobsOfOne(m) ==
  /\ \A i, j \in Jobs : jobs[m][i] # NoJob /\ jobs[m][j] # NoJob => i = j
  /\ \A j \in Jobs :
       /\ jobs[m][j].visible /\ jobs[m][j].state \in {"running", "retrying"} => jobs[m][j].mounted
       /\ jobs[m][j].state = "succeeded" => folder[m] = "complete"

WritersRight ==
  \A m \in Models, j \in Jobs : jobs[m][j].mounted => jobs[m][j].state \in {"running", "retrying"}

ListsRight ==
  \A m \in Models : \A j \in DOMAIN cachedJobs[m] :
    cachedJobs[m][j] = Downloaded => jobs[m][j].state \in {"succeeded", "none"}

LEMMA JobsRightParts ==
  JobsRight <=> WritersRight /\ ListsRight /\ \A m \in Models \ mishaps : JobsOfOne(m)
BY DEF JobsRight, WritersRight, ListsRight, JobsOfOne

\* Nothing is lost by a step that leaves the jobs alone and no folder of a model
\* with a job that has succeeded.
LEMMA FoldersStep ==
  ASSUME IInv, mishaps \subseteq mishaps', UNCHANGED <<jobs, cachedJobs>>,
         \A m \in Models \ mishaps' : folder'[m] = folder[m] \/ \A j \in Jobs : jobs[m][j].state # "succeeded"
  PROVE  JobsRight'
<1>1. WritersRight /\ ListsRight /\ \A m \in Models \ mishaps : JobsOfOne(m)
  BY JobsRightParts DEF IInv
<1>2. WritersRight' /\ ListsRight'
  BY <1>1 DEF WritersRight, ListsRight
<1>3. \A m \in Models \ mishaps' : JobsOfOne(m)'
  BY <1>1 DEF JobsOfOne
<1> QED
  BY <1>2, <1>3 DEF JobsRight, WritersRight, ListsRight, JobsOfOne

\* One job of m changes: what has to be said of it.
LEMMA OneJobStep ==
  ASSUME IInv, JobsTyped', mishaps \subseteq mishaps', NEW m \in Models, NEW j \in Jobs, Only(m, j),
         UNCHANGED cachedJobs,
         \A a \in Models \ {m} : folder'[a] = folder[a],
         jobs'[m][j].mounted => jobs'[m][j].state \in {"running", "retrying"},
         j \in DOMAIN cachedJobs[m] /\ cachedJobs[m][j] = Downloaded
           => jobs'[m][j].state \in {"succeeded", "none"},
         m \notin mishaps' => JobsOfOne(m)'
  PROVE  JobsRight'
<1>1. WritersRight /\ ListsRight /\ \A a \in Models \ mishaps : JobsOfOne(a)
  BY JobsRightParts DEF IInv
<1>2. CachedJobsTyped
  BY DEF IInv, NodeTypeOK
<1>3. WritersRight'
  BY <1>1 DEF WritersRight, Only
<1>4. ListsRight'
  BY <1>1, <1>2 DEF ListsRight, Only, CachedJobsTyped
<1>5. ASSUME NEW a \in Models \ mishaps'  PROVE JobsOfOne(a)'
  BY <1>1, <1>5 DEF JobsOfOne, Only
<1> QED
  BY <1>3, <1>4, <1>5 DEF JobsRight, WritersRight, ListsRight, JobsOfOne

LEMMA JobsRightStep ==
  ASSUME IInv, [Next]_vars
  PROVE  JobsRight'
<1>1. /\ JobsTyped /\ CachedJobsTyped /\ JobsTyped' /\ mishaps \subseteq mishaps'
      /\ folder \in [Models -> {"none", "partial", "complete"}]
  BY JobsStep, MishapsStay DEF IInv, NodeTypeOK
<1>2. WritersRight /\ ListsRight /\ \A m \in Models \ mishaps : JobsOfOne(m)
  BY JobsRightParts DEF IInv
<1>3. ~NoJob.visible /\ ~NoJob.mounted /\ NoJob.state = "none"
  BY DEF NoJob
<1>4. ASSUME NEW m \in Models, NEW j \in Jobs, jobs[m][j] # NoJob, jobs' = Deleted(m, j),
             UNCHANGED <<cachedJobs, folder>>
      PROVE  JobsRight'
  <2>1. /\ Only(m, j) /\ ~jobs'[m][j].visible
        /\ \/ jobs'[m][j] = NoJob
           \/ /\ jobs'[m][j].state = jobs[m][j].state /\ (jobs'[m][j].mounted <=> jobs[m][j].mounted)
              /\ jobs[m][j].state \notin {"succeeded", "failed"}
    BY <1>1, <1>4, DeleteChanges
  <2>2. m \notin mishaps' => JobsOfOne(m)'
    BY <1>1, <1>2, <1>3, <1>4, <2>1 DEF JobsOfOne, Only
  <2> QED
    BY <1>1, <1>2, <1>3, <1>4, <2>1, <2>2, OneJobStep DEF WritersRight, ListsRight
<1>5. ASSUME NEW m \in Models, NEW j \in Jobs, CleanupJob(m, j)  PROVE JobsRight'
  <2>1. CASE jobs[m][j].visible
    BY <1>3, <1>4, <1>5, <2>1 DEF CleanupJob
  <2>2. CASE ~jobs[m][j].visible
    BY <1>1, <1>5, <2>2, FoldersStep DEF CleanupJob
  <2> QED
    BY <2>1, <2>2
<1>6. ASSUME NEW m \in Models, NEW j \in Jobs, JobExpires(m, j)  PROVE JobsRight'
  BY <1>3, <1>4, <1>6 DEF JobExpires
<1>7. ASSUME NEW m \in Models, LaunchFor(m)  PROVE JobsRight'
  <2>1. PICK j \in Jobs :
          /\ Only(m, j) /\ jobs[m][j] = NoJob /\ j \notin DOMAIN cachedJobs[m]
          /\ jobs'[m][j].state = "pending" /\ jobs'[m][j].visible /\ ~jobs'[m][j].mounted
    BY <1>1, <1>7, LaunchChanges DEF LaunchFor
  <2>2. m \notin mishaps' => \A i \in Jobs : jobs[m][i] = NoJob
    BY <1>7 DEF LaunchFor
  <2>3. m \notin mishaps' => JobsOfOne(m)'
    BY <1>3, <2>1, <2>2 DEF JobsOfOne, Only
  <2>4. UNCHANGED <<cachedJobs, folder>>
    BY <1>7 DEF LaunchFor, Considers
  <2> QED
    BY <1>1, <2>1, <2>3, <2>4, OneJobStep
<1>8. ASSUME NEW m \in Models, jobs' = Unmounted(m), folder' = [folder EXCEPT ![m] = "none"], UNCHANGED cachedJobs,
             m \notin mishaps' => \A j \in Jobs : ~jobs[m][j].visible /\ jobs[m][j].state # "succeeded"
      PROVE  JobsRight'
  <2>1. /\ \A a \in Models \ {m} : jobs'[a] = jobs[a]
        /\ \A j \in Jobs : /\ jobs'[m][j].state = jobs[m][j].state
                           /\ jobs'[m][j].visible <=> jobs[m][j].visible
                           /\ ~jobs'[m][j].mounted
    BY <1>1, <1>8, UnmountChanges
  <2>2. WritersRight'
    BY <1>2, <2>1 DEF WritersRight
  <2>3. ListsRight'
    BY <1>1, <1>2, <1>8, <2>1 DEF ListsRight, CachedJobsTyped
  <2>4. \A j \in Jobs : jobs'[m][j] = NoJob <=> jobs[m][j] = NoJob
    <3>1. \A j \in Jobs : jobs[m][j] \in Job \cup {NoJob} /\ jobs'[m][j] \in Job \cup {NoJob}
      BY <1>1 DEF JobsTyped
    <3> QED
      BY <2>1, <3>1, JobForm
  <2>5. ASSUME NEW a \in Models \ mishaps'  PROVE JobsOfOne(a)'
    <3>1. CASE a = m
      BY <1>1, <1>2, <1>8, <2>1, <2>4, <2>5, <3>1 DEF JobsOfOne
    <3>2. CASE a # m
      BY <1>1, <1>2, <1>8, <2>1, <2>5, <3>2 DEF JobsOfOne
    <3> QED
      BY <3>1, <3>2
  <2> QED
    BY <2>2, <2>3, <2>5 DEF JobsRight, WritersRight, ListsRight, JobsOfOne
<1>9. ASSUME NEW m \in Models, RemoveModel(m)  PROVE JobsRight'
  BY <1>8, <1>9, RemovedIsIdle DEF RemoveModel
<1>10. ASSUME NEW m \in Models, FolderGetsLost(m)  PROVE JobsRight'
  BY <1>8, <1>10 DEF FolderGetsLost
<1>11. ASSUME NEW m \in Models, NEW j \in Jobs, PodStarts(m, j) \/ PodRestarts(m, j)  PROVE JobsRight'
  <2>1. /\ Only(m, j)
        /\ jobs[m][j].state \in {"pending", "failed"}
        /\ jobs'[m][j].state \in {"running", "retrying"} /\ jobs'[m][j].mounted
    BY <1>1, <1>11, StartChanges
  <2>2. UNCHANGED <<cachedJobs, mishaps>> /\ folder' = [folder EXCEPT ![m] = "partial"]
    BY <1>11 DEF PodStarts, PodRestarts, Starts
  <2>3. m \notin mishaps' => JobsOfOne(m)'
    BY <1>2, <1>3, <2>1, <2>2 DEF JobsOfOne, Only
  <2>4. j \in DOMAIN cachedJobs[m] => cachedJobs[m][j] # Downloaded
    BY <1>2, <2>1 DEF ListsRight
  <2> QED
    BY <1>1, <2>1, <2>2, <2>3, <2>4, OneJobStep
<1>12. ASSUME NEW m \in Models, NEW j \in Jobs, NEW s \in {"succeeded", "failed"},
              jobs[m][j].state \in {"running", "retrying"}, jobs' = Ended(m, j, s), UNCHANGED cachedJobs,
              \A a \in Models \ {m} : folder'[a] = folder[a],
              folder'[m] \in {folder[m], "complete"},
              s = "succeeded" /\ Writers(m) = {j} => folder'[m] = "complete"
       PROVE  JobsRight'
  <2>1. /\ Only(m, j)
        /\ jobs[m][j].visible => jobs'[m][j].state = s /\ jobs'[m][j].visible /\ ~jobs'[m][j].mounted
        /\ ~jobs[m][j].visible => jobs'[m][j] = NoJob
    BY <1>1, <1>12, EndChanges
  <2>2. m \notin mishaps /\ jobs[m][j].visible => Writers(m) = {j}
    <3>1. m \notin mishaps /\ jobs[m][j].visible => j \in Writers(m)
      BY <1>2, <1>12 DEF JobsOfOne, Writers
    <3>2. m \notin mishaps => \A i \in Jobs : i \in Writers(m) => i = j
      BY <1>2, <1>3, <1>12 DEF JobsOfOne, Writers
    <3> QED
      BY <3>1, <3>2 DEF Writers
  <2>3. m \notin mishaps' => JobsOfOne(m)'
    BY <1>1, <1>2, <1>3, <1>12, <2>1, <2>2 DEF JobsOfOne, Only
  <2>4. j \in DOMAIN cachedJobs[m] => cachedJobs[m][j] # Downloaded
    BY <1>2, <1>12 DEF ListsRight
  <2>5. ~jobs'[m][j].mounted
    BY <1>3, <2>1
  <2> QED
    BY <1>1, <1>12, <2>1, <2>3, <2>4, <2>5, OneJobStep
<1>13. ASSUME NEW m \in Models, NEW j \in Jobs, PodSucceeds(m, j)  PROVE JobsRight'
  <2>1. /\ \A a \in Models \ {m} : folder'[a] = folder[a]
        /\ folder'[m] \in {folder[m], "complete"}
        /\ Writers(m) = {j} => folder'[m] = "complete"
    BY <1>1, <1>13 DEF PodSucceeds
  <2> QED
    BY <1>12, <1>13, <2>1 DEF PodSucceeds
<1>14. ASSUME NEW m \in Models, NEW j \in Jobs, PodFails(m, j)  PROVE JobsRight'
  BY <1>12, <1>14 DEF PodFails
<1>15. ASSUME UNCHANGED jobs,
              \A m \in Models : \/ UNCHANGED cachedJobs[m]
                                \/ cachedJobs'[m] = JobList(m),
              UNCHANGED folder
       PROVE  JobsRight'
  <2>1. WritersRight' /\ \A m \in Models \ mishaps' : JobsOfOne(m)'
    BY <1>1, <1>2, <1>15 DEF WritersRight, JobsOfOne
  <2>2. ListsRight'
    BY <1>1, <1>2, <1>15, ListForm DEF ListsRight
  <2> QED
    BY <2>1, <2>2 DEF JobsRight, WritersRight, ListsRight, JobsOfOne
<1>16. ASSUME NEW m \in Models, JobEvent(m)  PROVE JobsRight'
  BY <1>1, <1>15, <1>16 DEF JobEvent, CachedJobsTyped
<1>17. ASSUME PartlyRemoved
       PROVE  \A m \in Models \ mishaps' : folder'[m] = folder[m] \/ \A j \in Jobs : jobs[m][j].state # "succeeded"
  BY <1>1, <1>17, RemovedIsIdle DEF PartlyRemoved
<1>18. CASE ReconcileFails
  BY <1>1, <1>17, <1>18, FoldersStep DEF ReconcileFails
<1>19. CASE Restart
  <2>1. /\ UNCHANGED jobs /\ cachedJobs' = [m \in Models |-> JobList(m)]
        /\ \A m \in Models \ mishaps' : folder'[m] = folder[m] \/ \A j \in Jobs : jobs[m][j].state # "succeeded"
    BY <1>17, <1>19 DEF Restart
  <2>2. WritersRight' /\ \A m \in Models \ mishaps' : JobsOfOne(m)'
    BY <1>1, <1>2, <2>1 DEF WritersRight, JobsOfOne
  <2>3. ListsRight'
    BY <1>1, <2>1, ListForm DEF ListsRight
  <2> QED
    BY <2>2, <2>3 DEF JobsRight, WritersRight, ListsRight, JobsOfOne
<1>20. ASSUME NEW m \in Models, SkipModel(m) \/ FollowJob(m) \/ ChangeList(m)  PROVE JobsRight'
  BY <1>1, <1>20, FoldersStep DEF SkipModel, FollowJob, Considers, ChangeList, jobVars
<1>21. CASE BeginReconcile \/ BeginDownload \/ UpdateStatus \/ EndReconcile \/ ObjectEvent \/ UNCHANGED vars
  BY <1>1, <1>21, FoldersStep
     DEF BeginReconcile, BeginDownload, UpdateStatus, EndReconcile, ObjectEvent, jobVars, vars
<1> QED
  BY <1>5, <1>6, <1>7, <1>9, <1>10, <1>11, <1>13, <1>14, <1>16, <1>18, <1>19, <1>20, <1>21
     DEF Next, Reconcile, Environment, Pod

\* What is reported, or about to be.
Reported(m) == status[m] = Downloaded \/ (pc = "download" /\ newStatus[m] = Downloaded)

\* Nothing more is reported, and what is stays safe.
LEMMA NoMoreReports ==
  ASSUME IInv, [Next]_vars,
         \A m \in Models \ mishaps' : Reported(m)' => Reported(m) /\ (Safe(m) => Safe(m)')
  PROVE  ReportsTrue'
BY MishapsStay DEF IInv, ReportsTrue, Reported

\* One model more is reported, the jobs and folders of the others stay as they are.
LEMMA OneMoreReport ==
  ASSUME IInv, [Next]_vars, NEW m \in Models, NEW s, pc = "download", UNCHANGED <<pc, status, folder>>,
         newStatus' = [newStatus EXCEPT ![m] = s],
         \A a \in Models \ {m} : jobs'[a] = jobs[a],
         m \notin mishaps' => /\ s = Downloaded => Safe(m)'
                              /\ status[m] = Downloaded => Safe(m)'
  PROVE  ReportsTrue'
<1>1. /\ newStatus'[m] = s /\ \A a \in Models \ {m} : newStatus'[a] = newStatus[a]
      /\ mishaps \subseteq mishaps'
  BY MishapsStay DEF IInv, NodeTypeOK, ObjectsTyped
<1>2. ASSUME NEW a \in Models \ mishaps', a # m, Reported(a)'  PROVE Safe(a)'
  BY <1>1, <1>2 DEF IInv, ReportsTrue, Reported, Safe, Quiet
<1>3. ASSUME m \notin mishaps', Reported(m)'  PROVE Safe(m)'
  BY <1>1, <1>3 DEF Reported
<1> QED
  BY <1>2, <1>3 DEF ReportsTrue, Reported

\* A list that says that the last job of a model has succeeded makes it safe.
LEMMA FollowedIsSafe ==
  ASSUME IInv, NEW m \in Models \ mishaps, m \notin Behind,
         NEW j \in DOMAIN cachedJobs[m], cachedJobs[m][j] = Downloaded
  PROVE  Safe(m)
<1>1. JobsTyped /\ JobsOfOne(m)
  BY JobsRightParts DEF IInv, NodeTypeOK
<1>2. j \in Jobs /\ jobs[m][j].visible
  BY DEF Behind, VisibleJobs
<1>3. jobs[m][j].state \in {"succeeded", "none"}
  BY JobsRightParts DEF IInv, ListsRight
<1>4. \A i \in Jobs : jobs[m][i] \in Job \cup {NoJob}
  BY <1>1 DEF JobsTyped
<1>5. jobs[m][j].state = "succeeded" /\ jobs[m][j] # NoJob
  BY <1>2, <1>3, <1>4, JobForm
<1>6. \A i \in Jobs : i # j => jobs[m][i].state = "none"
  BY <1>1, <1>2, <1>4, <1>5, JobForm DEF JobsOfOne
<1> QED
  BY <1>1, <1>2, <1>5, <1>6 DEF JobsOfOne, Safe, Quiet

LEMMA ReportsStep ==
  ASSUME IInv, [Next]_vars
  PROVE  ReportsTrue'
<1>1. /\ JobsTyped /\ folder \in [Models -> {"none", "partial", "complete"}]
      /\ mishaps \subseteq mishaps' /\ Downloaded # NoStatus
  BY MishapsStay DEF IInv, NodeTypeOK, Downloaded, NoStatus
<1>2. NoJob.state = "none"
  BY DEF NoJob
<1>3. ASSUME UNCHANGED <<status, jobs, folder>>,
             pc' = "download" => \A m \in Models : newStatus'[m] = Downloaded => Reported(m)
      PROVE  ReportsTrue'
  <2>1. \A m \in Models : Safe(m) => Safe(m)'
    BY <1>3 DEF Safe, Quiet
  <2>2. \A m \in Models : Reported(m)' => Reported(m)
    BY <1>3 DEF Reported
  <2> QED
    BY <2>1, <2>2, NoMoreReports
<1>4. ASSUME NEW m \in Models, NEW j \in Jobs, jobs[m][j] # NoJob, jobs' = Deleted(m, j),
             UNCHANGED <<status, folder, pc, newStatus>>
      PROVE  ReportsTrue'
  <2>1. Only(m, j) /\ jobs'[m][j].state \in {jobs[m][j].state, "none"}
    BY <1>1, <1>2, <1>4, DeleteChanges
  <2>2. \A a \in Models : Safe(a) => Safe(a)'
    BY <1>4, <2>1 DEF Safe, Quiet, Only
  <2>3. \A a \in Models : Reported(a)' => Reported(a)
    BY <1>4 DEF Reported
  <2> QED
    BY <2>2, <2>3, NoMoreReports
<1>5. ASSUME NEW m \in Models, NEW j \in Jobs, CleanupJob(m, j) \/ JobExpires(m, j)  PROVE ReportsTrue'
  <2>1. CASE CleanupJob(m, j) /\ ~jobs[m][j].visible
    BY <1>3, <2>1 DEF CleanupJob, Ends, objectVars
  <2>2. CASE CleanupJob(m, j) /\ jobs[m][j].visible
    <3>1. jobs[m][j] # NoJob
      BY <2>2 DEF NoJob
    <3> QED
      BY <1>4, <2>2, <3>1 DEF CleanupJob, objectVars
  <2>3. CASE JobExpires(m, j)
    <3>1. jobs[m][j] # NoJob
      BY <1>2, <2>3 DEF JobExpires
    <3> QED
      BY <1>4, <2>3, <3>1 DEF JobExpires, objectVars, agentVars
  <2> QED
    BY <1>5, <2>1, <2>2, <2>3
<1>6. CASE BeginDownload
  BY <1>1, <1>3, <1>6 DEF BeginDownload, objectVars, jobVars
<1>7. ASSUME NEW m \in Models, SkipModel(m)  PROVE ReportsTrue'
  <2>1. /\ pc = "download" /\ UNCHANGED <<pc, status, folder, jobs, mishaps>>
        /\ newStatus' = [newStatus EXCEPT ![m] = Downloaded]
        /\ object.status[m] = Downloaded /\ m \in todo
    BY <1>7 DEF SkipModel, Keeps, objectVars, jobVars, Downloaded
  <2>2. m \notin mishaps => status[m] = Downloaded
    BY <2>1 DEF IInv, LoopRight, VersionsRight, Follows
  <2>3. m \notin mishaps => Safe(m)'
    BY <2>1, <2>2 DEF IInv, ReportsTrue, Safe, Quiet
  <2> QED
    BY <2>1, <2>3, OneMoreReport
<1>8. ASSUME NEW m \in Models, LaunchFor(m)  PROVE ReportsTrue'
  <2>1. /\ pc = "download" /\ UNCHANGED <<pc, status, folder>> /\ m \in todo /\ ~Keeps(m)
        /\ newStatus' = [newStatus EXCEPT ![m] = "ModelDownloading"] /\ LaunchJob(m)
    BY <1>8 DEF LaunchFor, Considers, objectVars
  <2>2. \A a \in Models \ {m} : jobs'[a] = jobs[a]
    BY <1>1, <2>1 DEF LaunchJob, JobsTyped
  <2>3. m \notin mishaps' => status[m] # Downloaded
    <3>1. m \notin mishaps' => object.status[m] = status[m]
      BY <1>8 DEF LaunchFor
    <3>2. m \in object.listed
      BY <2>1 DEF IInv, LoopRight
    <3> QED
      BY <1>1, <2>1, <3>1, <3>2, DownloadedIsKept
  <2>4. "ModelDownloading" # Downloaded
    BY DEF Downloaded
  <2> QED
    BY <2>1, <2>2, <2>3, <2>4, OneMoreReport
<1>9. ASSUME NEW m \in Models, FollowJob(m)  PROVE ReportsTrue'
  <2>1. PICK j \in DOMAIN cachedJobs[m] : Considers(m, cachedJobs[m][j])
    BY <1>9 DEF FollowJob, Latest
  <2>2. /\ pc = "download" /\ UNCHANGED <<pc, status, folder, jobs>> /\ m \in todo /\ ~Keeps(m)
        /\ newStatus' = [newStatus EXCEPT ![m] = cachedJobs[m][j]]
        /\ m \notin mishaps' => m \notin Behind
    BY <1>9, <2>1 DEF FollowJob, Considers, ReadJobs, objectVars
  <2>3. m \notin mishaps' /\ cachedJobs[m][j] = Downloaded => Safe(m)'
    <3>1. m \notin mishaps' /\ cachedJobs[m][j] = Downloaded => Safe(m)
      BY <1>1, <2>2, FollowedIsSafe
    <3> QED
      BY <2>2, <3>1 DEF Safe, Quiet
  <2>4. m \notin mishaps' /\ status[m] = Downloaded => Safe(m)'
    BY <1>1, <2>2 DEF IInv, ReportsTrue, Safe, Quiet
  <2> QED
    BY <2>2, <2>3, <2>4, OneMoreReport
<1>10. CASE UpdateStatus
  <2>1. UNCHANGED <<jobs, folder>> /\ pc = "download" /\ pc' # "download"
    BY <1>10 DEF UpdateStatus, BeginDelete, Ends, jobVars
  <2>2. status' \in {status, newStatus}
    BY <1>10 DEF UpdateStatus, objectVars
  <2>3. \A m \in Models : Reported(m)' => Reported(m)
    BY <2>1, <2>2 DEF Reported
  <2>4. \A m \in Models : Safe(m) => Safe(m)'
    BY <2>1 DEF Safe, Quiet
  <2> QED
    BY <2>3, <2>4, NoMoreReports
<1>11. ASSUME UNCHANGED status, pc' # "download",
              \A m \in Models \ mishaps' :
                status[m] = NoStatus \/ (folder'[m] = folder[m] /\ jobs'[m] = jobs[m])
       PROVE  ReportsTrue'
  BY <1>1, <1>11, NoMoreReports DEF Reported, Safe, Quiet
<1>12. ASSUME NEW m \in Models, RemoveModel(m)  PROVE ReportsTrue'
  <2>1. \A a \in Models \ {m} : folder'[a] = folder[a] /\ jobs'[a] = jobs[a]
    BY <1>1, <1>12, UnmountChanges DEF RemoveModel
  <2> QED
    BY <1>11, <1>12, <2>1, RemovedIsIdle DEF RemoveModel, objectVars
<1>13. CASE ReconcileFails \/ Restart
  <2>1. PartlyRemoved /\ Ends /\ UNCHANGED <<status, jobs>>
    BY <1>13 DEF ReconcileFails, Restart, objectVars
  <2>2. \A m \in Models : status[m] = NoStatus \/ folder'[m] = folder[m]
    BY <1>1, <2>1, RemovedIsIdle DEF PartlyRemoved
  <2> QED
    BY <1>11, <2>1, <2>2 DEF Ends
<1>14. ASSUME NEW m \in Models, NEW j \in Jobs, jobs[m][j].state \notin {"succeeded", "none"}, Only(m, j),
              \A a \in Models \ {m} : folder'[a] = folder[a], UNCHANGED <<status, pc, newStatus>>
       PROVE  ReportsTrue'
  <2>1. ~Safe(m)
    BY <1>14 DEF Safe, Quiet
  <2>2. \A a \in Models \ {m} : Safe(a) => Safe(a)'
    BY <1>14 DEF Safe, Quiet, Only
  <2>3. \A a \in Models : Reported(a)' => Reported(a)
    BY <1>14 DEF Reported
  <2> QED
    BY <2>1, <2>2, <2>3, NoMoreReports
<1>15. ASSUME NEW m \in Models, NEW j \in Jobs, PodStarts(m, j) \/ PodRestarts(m, j)  PROVE ReportsTrue'
  <2>1. Only(m, j) /\ jobs[m][j].state \in {"pending", "failed"}
    BY <1>1, <1>15, StartChanges
  <2>2. UNCHANGED <<status, pc, newStatus>> /\ folder' = [folder EXCEPT ![m] = "partial"]
    BY <1>15 DEF PodStarts, PodRestarts, Starts, objectVars, agentVars
  <2> QED
    BY <1>1, <1>14, <2>1, <2>2
<1>16. ASSUME NEW m \in Models, NEW j \in Jobs, PodSucceeds(m, j) \/ PodFails(m, j)  PROVE ReportsTrue'
  <2>1. jobs[m][j].state \in {"running", "retrying"} /\ Only(m, j)
    BY <1>1, <1>16, EndChanges DEF PodSucceeds, PodFails
  <2>2. UNCHANGED <<status, pc, newStatus>> /\ \A a \in Models \ {m} : folder'[a] = folder[a]
    BY <1>1, <1>16 DEF PodSucceeds, PodFails, objectVars, agentVars
  <2> QED
    BY <1>14, <2>1, <2>2
<1>17. ASSUME NEW m \in Models, FolderGetsLost(m)  PROVE ReportsTrue'
  <2>1. /\ m \in mishaps' /\ UNCHANGED <<status, pc, newStatus>>
        /\ \A a \in Models \ {m} : folder'[a] = folder[a] /\ jobs'[a] = jobs[a]
    BY <1>1, <1>17, UnmountChanges DEF FolderGetsLost, objectVars, agentVars, NodeTypeOK, IInv
  <2> QED
    BY <2>1, NoMoreReports DEF Reported, Safe, Quiet
<1>18. ASSUME NEW m \in Models, ChangeList(m) \/ JobEvent(m)  PROVE ReportsTrue'
  BY <1>3, <1>18 DEF ChangeList, JobEvent, Reported, objectVars, jobVars, agentVars
<1>19. CASE BeginReconcile \/ EndReconcile \/ ObjectEvent \/ UNCHANGED vars
  BY <1>3, <1>19 DEF BeginReconcile, EndReconcile, Ends, ObjectEvent, Reported, objectVars, jobVars,
                     agentVars, vars
<1> QED
  BY <1>5, <1>6, <1>7, <1>8, <1>9, <1>10, <1>12, <1>13, <1>15, <1>16, <1>17, <1>18, <1>19
     DEF Next, Reconcile, Environment, Pod

LEMMA InitInv ==
  ASSUME NodeAssumption, Init
  PROVE  IInv
<1>1. NoJob.state = "none" /\ ~NoJob.visible /\ ~NoJob.mounted
  BY DEF NoJob
<1>2. \A m \in Models : status[m] = NoStatus /\ NoStatus # Downloaded
  BY DEF Init, NoStatus, Downloaded
<1>3. ObjectsTyped
  BY DEF Init, ObjectsTyped, Objects, NoObject
<1>4. JobsTyped
  BY <1>1 DEF Init, JobsTyped
<1>5. CachedJobsTyped /\ \A m \in Models : DOMAIN cachedJobs[m] = {}
  BY DEF Init, CachedJobsTyped
<1>6. NodeTypeOK
  BY <1>3, <1>4, <1>5 DEF Init, NodeTypeOK, NodeAssumption
<1>7. ReportsTrue
  BY <1>2 DEF Init, ReportsTrue
<1>8. JobsRight
  BY <1>1, <1>5 DEF Init, JobsRight
<1>9. VersionsRight
  BY DEF Init, VersionsRight, Follows, NoObject
<1>10. LoopRight
  BY DEF Init, LoopRight
<1> QED
  BY <1>6, <1>7, <1>8, <1>9, <1>10 DEF IInv

\* Whatever the list, the jobs, the caches, failing calls and restarts of the agent
\* do: a model that the node reports as downloaded is in its folder, complete, unless
\* a mishap has befallen it (downloadModels and deleteModels of controller.go).
THEOREM DownloadsAreComplete == Spec => []NodeInv
<1>1. Init => IInv
  BY NodeAssumption, InitInv
<1>2. IInv /\ [Next]_vars => IInv'
  <2> SUFFICES ASSUME IInv, [Next]_vars  PROVE IInv'
    OBVIOUS
  <2>1. NodeTypeOK'
    BY NodeAssumption, TypeStep DEF IInv
  <2> QED
    BY <2>1, ReportsStep, JobsRightStep, VersionsStep, LoopStep DEF IInv
<1>3. IInv => NodeInv
  BY DEF IInv, NodeInv, DownloadedIsComplete, ReportsTrue, Safe, Downloaded
<1> QED
  BY <1>1, <1>2, <1>3, PTL DEF Spec
================================================================================
