----------------------------- MODULE ModelAgent ------------------------------
(***************************************************************************)
(* The model agent of a multi-model InferenceService: the Watcher and the  *)
(* Puller joined by the ModelEvents channel, as startModelPuller           *)
(* (src/cmd/agent/main.go) starts them, with restarts of the container     *)
(* over the same model directory and the same model server.                *)
(***************************************************************************)
EXTENDS Puller, Watcher

CONSTANTS MaxCrashes    \* bound on the times the container is killed

ASSUME CrashesAssumption == MaxCrashes \in Nat

VARIABLES crashes

agentVars == <<vars, watcherVars, crashes>>

AgentTypeOK ==
  /\ TypeOK
  /\ WatcherTypeOK
  /\ crashes \in 0..MaxCrashes

AgentInit ==
  /\ Init
  /\ WatcherInit
  /\ crashes = 0

-----------------------------------------------------------------------------
\* NewWatcher: recover the tracker from the model directory (every recovered
\* model is stale), then read the configuration.
NewWatcher ==
  /\ Boot
  /\ nilTracker' = SyncModelDirFails
  /\ IF SyncModelDirFails
       THEN tracker' = NoConfig
       ELSE /\ tracker' \in Configs
            /\ \A m \in Models : tracker'[m] \in Recovered(m)
  /\ stale' = [m \in Models |-> tracker'[m] # NoSpec]
  /\ ReadConfig
  /\ UNCHANGED <<config, changes, notified, outbox, crashes>>

\* StartPullerAndProcessModels is called when NewWatcher has returned.
StartPullerAndProcessModels ==
  /\ parse = "idle"
  /\ StartPuller
  /\ UNCHANGED <<watcherVars, crashes>>

StartWatching ==
  /\ WaitReturns
  /\ UNCHANGED <<watcherVars, crashes>>

\* The memory of both halves is lost.
Dies ==
  /\ Crash
  /\ ForgetWatcher
  /\ UNCHANGED <<config, changes>>

Kill ==
  /\ crashes < MaxCrashes
  /\ crashes' = crashes + 1
  /\ Dies

Panic ==
  /\ Panics
  /\ Dies
  /\ UNCHANGED crashes

AgentPull ==
  /\ PullerStep
  /\ UNCHANGED <<watcherVars, crashes>>

AgentWatch ==
  /\ ReceiveNotification \/ ParseStep
  /\ UNCHANGED <<storeVars, pullerVars, crashes>>

AgentConfigUpdate ==
  /\ ConfigUpdate
  /\ UNCHANGED <<storeVars, pullerVars, crashes>>

AgentNext ==
  \/ AgentConfigUpdate
  \/ NewWatcher
  \/ StartPullerAndProcessModels
  \/ StartWatching
  \/ Kill
  \/ Panic
  \/ AgentPull
  \/ AgentWatch

AgentSpec == AgentInit /\ [][AgentNext]_agentVars

\* Goroutines are scheduled, downloads and requests return, and the kubelet
\* restarts the container. Nothing is assumed of updates and kills; of the
\* outcomes of a step that may fail, either may be the one that happens.
AgentFairness ==
  /\ WF_agentVars(NewWatcher)
  /\ WF_agentVars(StartPullerAndProcessModels)
  /\ WF_agentVars(StartWatching)
  /\ WF_agentVars(Panic)
  /\ WF_agentVars(AgentWatch)
  /\ WF_agentVars(TakeCommand /\ UNCHANGED <<watcherVars, crashes>>)
  /\ WF_agentVars(SendToProcessor /\ UNCHANGED <<watcherVars, crashes>>)
  /\ WF_agentVars(CompleteOp /\ UNCHANGED <<watcherVars, crashes>>)
  /\ \A m \in Models, w \in Workers :
       WF_agentVars(Processor(m, w) /\ UNCHANGED <<watcherVars, crashes>>)

FairAgentSpec == AgentSpec /\ AgentFairness

-----------------------------------------------------------------------------
(* The commands of a model that have not taken effect yet, oldest first:   *)
(* with a processor, with processCommands, in the channel, with the        *)
(* watcher.                                                                *)

EffectOf(op) == IF op.op = "Add" THEN op.spec ELSE NoSpec

InProgress(m, w) ==
  IF work[m][w] # NoOp /\ step[m][w] # "complete" THEN <<work[m][w]>> ELSE <<>>

TakenOps(m) ==
  IF chan[m] = NoWorker THEN <<>> ELSE InProgress(m, chan[m]) \o modelOps[m][chan[m]]

\* Those of the model in a queue.
OfModel(queue, m) ==
  LET kept[i \in 0..Len(queue)] ==
        IF i = 0 THEN <<>>
        ELSE kept[i - 1] \o (IF queue[i].model = m THEN <<queue[i]>> ELSE <<>>)
  IN  kept[Len(queue)]

Sent == IF sending = NoOp THEN <<>> ELSE <<sending>>
PendingOps(m) == TakenOps(m) \o OfModel(Sent \o events \o outbox, m)

Pending(m) ==
  LET ops == PendingOps(m)
  IN  [i \in DOMAIN ops |-> EffectOf(ops[i])]

\* The models a processor is about to load although its look at the success
\* file failed.
Unchecked == {m \in Models : \E w \in Workers : At(m, w, "Add", "unchecked")}

Promise ==
  INSTANCE ModelCommands
    WITH pending <- [m \in Models |-> Pending(m)], unchecked <- Unchecked

\* The agent keeps its promise to the watcher: whatever fails and whenever it
\* is killed, what is served only changes to the effect of the oldest command
\* of the model that has not taken effect. The one exception the code makes is
\* a load whose look at the success file failed: it comes in its turn too, but
\* loads whatever the directory holds.
CommandsInOrder == Promise!Spec

\* When nothing fails and the agent is not killed no command is lost: a change
\* handed over through the three channels and two goroutines takes effect.
EveryCommandApplied == Promise!ReliableSpec

-----------------------------------------------------------------------------
\* Nothing left to do: every command is completed and every notification
\* received was handled.
Quiescent ==
  /\ phase = "watching"
  /\ parse = "idle"
  /\ notified = 0
  /\ \A m \in Models : chan[m] = NoWorker /\ Pending(m) = <<>>

\* Mark and sweep: between two calls of parseConfig the tracker has exactly the
\* models of the configuration read last, and all are stale, so that the next
\* call removes the ones it does not meet; also for models recovered from disk.
TrackerMatchesConfig ==
  phase # "down" /\ parse = "idle" =>
    /\ InConfig(tracker) = InConfig(snapshot)
    /\ \A m \in InConfig(tracker) : stale[m]

AgentInv == AgentTypeOK /\ TrackerMatchesConfig

\* When DownloadModel found the success file or has come to its end, and the
\* model server is about to be asked to load the directory, that holds exactly
\* the artifact of the command: neither what a download, a removal or a kill
\* has left incomplete nor the artifact of another spec of the model. (When the
\* look at the success file failed, nothing is promised of the directory.)
LoadedIsComplete ==
  \A m \in Models, w \in Workers :
    At(m, w, "Add", "load") => data[m] = work[m][w].spec

\* A success file is only found beside the artifact it was written for, unless
\* the agent was killed while it removed the directory; and there is one at
\* most, so the spec recovered after a restart does not depend on hash order.
SuccessFilesAreTruthful ==
  \A m \in Models, s \in Specs :
    SuccessFileExists(m, s) =>
      /\ data[m] \in {s, Torn}
      /\ \A t \in Specs : SuccessFileExists(m, t) => t = s

\* The wait of the agent for its startup operations comes to an end.
StartupTerminates == phase = "starting" ~> phase = "watching"

\* The promise of "should download and reload the model" when a uri is updated:
\* once the configuration stays the same the agent comes to rest, no command,
\* completion or notification is left waiting for ever, and, if it was told of
\* the configuration, the server serves what it says.
ConfigEndsServed == <>[](Quiescent /\ (snapshot = config => served = config))

-----------------------------------------------------------------------------
(* The inductive invariant behind the files. It follows the commands of a  *)
(* model from the processor back to the watcher and asks at each of them   *)
(* whether the success files of the model are gone when its turn comes.    *)

Gone(m) == marker[m] = NoMarkers

\* The files are gone when position i of a queue is reached, if `before` says
\* whether they are when its head is: the last command of the model is a removal.
GoneAt(seq, m, before, i) ==
  \/ before /\ \A j \in OpsOf(seq, m) : j >= i
  \/ \E k \in OpsOf(seq, m) :
       k < i /\ seq[k].op = "Remove" /\ \A j \in OpsOf(seq, m) : j <= k \/ j >= i

\* They are at the end of the queue, and at each Add in it.
LeavesGone(seq, m, before) == GoneAt(seq, m, before, Len(seq) + 1)
AddsFindGone(seq, m, before) ==
  \A i \in OpsOf(seq, m) : seq[i].op = "Add" => GoneAt(seq, m, before, i)

Works(m, w, kind) == work[m][w] # NoOp /\ work[m][w].op = kind

\* After the operation a processor is at, after those it has in its channel,
\* after the one that is sent to it, after the commands in the channel of the
\* watcher, and after those the watcher has still to send.
GoneAfterWork(m) ==
  \/ \E w \in Workers : Works(m, w, "Remove")
  \/ Gone(m) /\ \A w \in Workers : Works(m, w, "Add") => step[m][w] = "complete"
Given(m) == IF chan[m] = NoWorker THEN <<>> ELSE modelOps[m][chan[m]]
GoneAfterGiven(m) == LeavesGone(Given(m), m, GoneAfterWork(m))
GoneAfterSent(m) == LeavesGone(Sent, m, GoneAfterGiven(m))
GoneAfterEvents(m) == LeavesGone(events, m, GoneAfterSent(m))
GoneAfterOutbox(m) == LeavesGone(outbox, m, GoneAfterEvents(m))

\* Wherever an Add is, the success files of its model are gone when it is begun,
\* and they would be for the next one if the tracker does not have the model.
AddsComeToNoFiles(m) ==
  /\ AddsFindGone(Given(m), m, GoneAfterWork(m))
  /\ AddsFindGone(Sent, m, GoneAfterGiven(m))
  /\ AddsFindGone(events, m, GoneAfterSent(m))
  /\ AddsFindGone(outbox, m, GoneAfterEvents(m))
  /\ phase # "down" /\ ~nilTracker /\ tracker[m] = NoSpec => GoneAfterOutbox(m)

\* How the files of the model are at each step of an operation.
FilesAtStep(m, w) ==
  LET s == step[m][w] IN
  /\ work[m][w] = NoOp => s = "start"
  /\ Works(m, w, "Add") =>
       /\ s \notin {"clear", "unload"}
       /\ s \in {"start", "download", "downloading", "create"} => Gone(m)
       /\ s \in {"create", "write", "load"} => data[m] = work[m][w].spec
       /\ s = "unchecked" => "stat" \in Faults /\ Gone(m)
       /\ s \in {"write", "load"} =>
            \A t \in Specs : SuccessFileExists(m, t) => t = work[m][w].spec
  /\ Works(m, w, "Remove") =>
       /\ s \in {"start", "clear", "unload", "complete"}
       /\ s \in {"unload", "complete"} => Gone(m)

FilesIInv ==
  /\ PullerAtRest
  /\ SuccessFilesAreTruthful
  /\ \A m \in Models : AddsComeToNoFiles(m) /\ \A w \in Workers : FilesAtStep(m, w)

\* The inductive invariant behind EveryCommandApplied, of an agent that is started
\* once: it begins without success files and never panics, and a model without a
\* directory is not served but by the unload that is about to be sent, so that a
\* removal that finds no directory has nothing to unload.
NothingLost ==
  /\ ~nilTracker
  /\ phase = "down" => \A m \in Models : Gone(m)
  /\ \A m \in Models : data[m] = Absent =>
       \/ served[m] = NoSpec
       \/ \E w \in Workers : Works(m, w, "Remove") /\ step[m][w] = "unload"
=============================================================================
