# A TLA+ development for KServe

KServe runs model servers on Kubernetes. This directory holds TLA+ modules
translated from its source, TLC configurations that check them on small instances,
and TLAPS proofs of what matters most for all instances. Source paths below are
relative to the repository.

1. [The system](#1-the-system): every part, with its state, operations, hard
   behaviours and properties
2. [The modules](#2-the-modules) and how they correspond to the code
3. [The runs](#3-the-runs): what each shows, its bounds, the fairness assumed
4. [What is proved](#4-what-is-proved)
5. [Disagreements between code and documentation](#5-disagreements)
6. [What is abstracted or left out](#6-what-is-abstracted-or-left-out)
7. [The plan](#7-the-plan)
8. [Running it](#8-running-it)

## 1. The system

KServe is one Kubernetes controller manager, a second one for local model caches
with an agent on every node, webhooks, a router for inference graphs, a sidecar
(the *agent*) beside each model server, and the Python model servers. They share
state through the objects of the API server, through the model ConfigMap that is
mounted into the agent, through a volume that the agent and the model server
share, and through HTTP.

    TrainedModel controller --(model ConfigMap: models.json)--> agent: watcher
    agent: watcher --(ModelEvents)--> agent: puller --(load/unload)--> model server
    request --> agent: logger --> agent: batcher --> reverse proxy --> model server
    LocalModelCache controller --(LocalModelNode spec)--> node agent
    node agent --(LocalModelNode status)--> LocalModelCache controller
    InferenceService controller --> Knative or raw deployment, ingress
    InferenceGraph controller --> router --> InferenceServices
    client --(open inference protocol, REST or gRPC)--> transformer --> model server
    model server: endpoints --> model repository --> generative model or vLLM

### Modelled

**Agent: watcher** (`pkg/agent/watcher.go`, `pkg/agent/syncer.go`). State: the
`ModelTracker` (spec and stale mark of every model), recovered from the success
files of the model directory. Operations: `NewWatcher`, `syncModelConfig`,
`parseConfig` (mark and sweep), the inotify loop of `Start`. Hard: the tracker and
the disk outlive each other in both directions; commands are sent one by one on a
bounded channel while the file changes again; the first parse runs before anybody
receives. Correct when the tracker follows the file, and the file ends up served.

**Agent: puller and downloader** (`pkg/agent/puller.go`,
`pkg/agent/downloader.go`, `pkg/agent/storage`). State: a channel, a processor
goroutine and `opsInFlight` per busy model, the completions channel, the wait
group that holds back the server, the files of each model. Operations:
`processCommands` (enqueue and complete), `modelProcessor` (download, load,
remove, unload). Hard: channels are closed and made again while old goroutines
drain; several channels of bounded size form a cycle; a kill or an error between
any two file operations. Correct when commands of a model take effect one at a
time and in order, the accounting of `opsInFlight` is exact, no torn artifact is
loaded and a start ends.

**Agent: batcher** (`pkg/batcher/handler.go`). State: one `BatcherInfo` owned by
one goroutine. Operations: `ServeHTTP`, the loop of `batch()`, `batchPredict`.
Hard: the positions of each caller's instances are fixed while the batch grows;
the predictor may fail or answer something else; every caller blocks on the one
goroutine. Correct when each caller is answered with its own predictions, or a
message, within the limits of size and latency.

**Agent: payload logger** (`pkg/logger`). State: the work queue, goroutines that
hold one entry each, the workers. Operations: `ServeHTTP`, `QueueLogRequest`, the
dispatcher, `sendCloudEvent`. Hard: entries overtake each other; a slow sink must
not hold back the requests. Correct when entries are conserved and requests are
served in any case.

**LocalModelCache controller**
(`pkg/controller/v1alpha1/localmodel/controller.go`). State: `LocalModelCache`
objects with a finalizer and a status, one `LocalModelNode` object per node.
Operations: `Reconcile` (add to nodes, or delete from nodes), event filters for
nodes and node status. Hard: nodes come, go and change, the cache is deleted, the
manager restarts and calls fail between any two of its steps; some errors are
retried and others only logged. Correct when a deleted cache is listed nowhere,
deletions end, models reach the ready nodes and reports reach the cache. (Partly:
see section 6.)

**LocalModelNode agent** (`pkg/controller/v1alpha1/localmodelnode`). State: the
folders and the download jobs of one node, and the status of the
`LocalModelNode` object. Operations: `Reconcile`, which cleans up jobs, downloads,
writes the status and removes folders, every minute and on every event. Hard: the
object and the jobs are read from caches; jobs and pods outlive the decision that
made them; folders are removed while a pod writes; each of several calls may fail.
Correct when what is reported as downloaded is complete, what is listed is
answered, and what is not listed is removed for good.

**TrainedModel controller and model ConfigMap**
(`pkg/controller/v1alpha1/trainedmodel`, `pkg/modelconfig`, and the deletion of
children in `pkg/controller/v1beta1/inferenceservice/controller.go`). State:
TrainedModel objects with a finalizer, the label of their parent and a promise of
memory; the `models.json` of the InferenceService. Operations: `Reconcile`,
`updateConditions`, `ModelConfigReconciler.Reconcile`, `deleteExternalResources`.
Hard: every decision is taken on a cached object and written later; a restart
between the ConfigMap and the finalizer; the parent goes away meanwhile. Correct
when the ConfigMap lists only what is held, memory is not promised twice,
deletions end and what is wanted is listed. (Partly.)

**InferenceGraph router** (`cmd/router/main.go`). State: per request a tree of
calls, the goroutines and channels of each ensemble; per process the shutdown
flag. Operations: `routeStep`, `executeStep`, `pickupRoute`,
`pickupRouteByCondition`, `handleSplitterORSwitchNode`, the signal handler. Hard:
results and errors of an ensemble arrive on several unbuffered channels in any
order, the handler may return early, the process is told to end at any moment.
Correct when an answer follows from what the steps answered, steps of a sequence
run in order, and the request and the process end.

**Python model server** (`python/kserve/kserve/model_server.py`,
`model_repository.py`, `protocol/`). State: the model repository, shared by
coroutines; two servers; the task that stops them. Operations: inference,
readiness, load, unload and index over REST and gRPC, signals, `stop()`. Hard:
each handler reads the repository, awaits and goes on; models are replaced and
unloaded meanwhile; calls are under way when the servers are stopped. Correct when
answers come from a model that was in place during the call, and the end is
orderly. (Partly.)

**Open inference protocol types** (`python/kserve/kserve/protocol/infer_type.py`).
State: the tensors of a request, which are converted in place when it is sent.
Operations: every conversion to and from REST (JSON, and JSON with binary data)
and gRPC (contents, raw contents). Hard: conversions are composed over hops of
different protocols, repeated on the same object after an error, and choose their
form by parameters of the tensor, of the request and of the type. Correct when
what is read at the other end is what was put in, in the form that was asked for.
(Partly.)

**Hugging Face server** (`python/huggingfaceserver/huggingfaceserver`). State: the
queue of a background thread, a streamer thread, queues of responses, the stop
criteria and statistics of each request; for vLLM the lengths already sent of each
choice. Operations: the choice of the backend, `create_completion`, the loop of
the thread, `stop`, and the two generators over the results of the engine. Hard: three kinds of threads hand a
result on; the engine answers choices in any order, cumulatively and ranked anew.
Correct when each client gets its own text, usage and finish reason, a stream adds
up to the whole answer, and everybody is answered. (Partly.)

**InferenceService controller and Knative reconciler**
(`pkg/controller/v1beta1/inferenceservice`, its `reconcilers/knative`, and
`pkg/apis/serving/v1beta1/inference_service_status.go`). State: the status of the
InferenceService, which remembers the revision that was rolled out last and the one
before. Operations: `Reconcile`, `createKnativeService` (the split of the traffic),
`PropagateStatus`, `updateStatus`. Hard: a rollout is inferred from what Knative
reports, in its own time, after a write that was made from an older status; the
status is the only memory and may be refused or lost between the two writes; the
user changes his mind meanwhile. Correct when traffic is kept only on revisions that
had it, a rollout is taken back only when asked, and the traffic settles as asked.
Its deletion is part of `TrainedModels`. (Partly.)

### Not modelled

**LocalModelCache webhook** (`pkg/webhook/admission/localmodelcache`). Refuses a
deletion while InferenceServices use the cache, by a status that is written later
(`:100`), and two caches with one URI, by a list.

The conditions and model states of an InferenceService are aggregated over
components and pods, and nothing reads them again but the user. Raw deployment
reconcilers, ingress reconcilers and the InferenceGraph controller compare one
object with a template and write it: one actor, no state of their own. Pod webhooks,
validation and defaulting are functions from an object to an object. Credentials and
storage providers, the queue proxy extension, the generated Python clients and the
framework servers are translation of formats and I/O. Most of the Python in the
repository is of this kind: API types and clients generated from the OpenAPI
description of the resources and of the protocols, samples and tests. The state and
the concurrency of KServe are in the Go code and in a small part of the Python, so
the modelled lines are a small share of the whole.

`PROJECT.json` lists every component with its files, and under `hazards` the
behaviours that are hard to test, each at the line where it bites, with the
properties that cover it. Some more are covered by no property: the success file
that is created empty (`downloader.go:54`), the start that sends more commands
than the channel holds (`watcher.go:49`), a log entry whose status is 0 behind the
batcher (`logger/handler.go:174`), a list of models patched from a stale cache
(`localmodel/controller.go:603`), an addition to nodes of which only a part is
done (`:314`), the hazard of the webhook above, and a model that is
listed again with another source before the agent has removed it, which keeps the
files of the first (`localmodelnode/controller.go:258`).

## 2. The modules

| module | models | builds on |
| --- | --- | --- |
| `ModelEvents` | commands, the ModelEvents channel, the life of the process | |
| `ModelStore` | model directory, success files, what the server has loaded | `ModelEvents` |
| `Puller` | `puller.go`, `downloader.go` under arbitrary commands | `ModelStore` |
| `Watcher` | `watcher.go` | `ModelEvents` |
| `ModelCommands` | what the agent promises: the abstract specification | |
| `ModelAgent` | watcher and puller joined, with restarts; implements `ModelCommands` | `Puller`, `Watcher` |
| `AgentRequests` | the requests both handlers see | |
| `Batcher` | `batcher/handler.go` | `AgentRequests` |
| `PayloadLogger` | `logger/*.go` | `AgentRequests` |
| `AgentServer` | the logger around the batcher, as `buildServer` nests them | `Batcher`, `PayloadLogger` |
| `LocalModelCache` | `localmodel/controller.go` | |
| `LocalModelNode` | `localmodelnode/*.go` with the jobs and pods it starts | |
| `TrainedModels` | the TrainedModel controller, the model ConfigMap, the deletion of children | |
| `CanaryRollout` | the predictor of an InferenceService with Knative: split and record of rollouts | |
| `Router` | `cmd/router/main.go` | |
| `ModelServer` | the model repository and the calls of both protocols, start and stop | |
| `OpenInference` | `infer_type.py` along a path of hops | |
| `GenerativeModel` | `generative_model.py` with its threads and streams | |
| `VllmCompletions` | `vllm_completions.py` | |
| `HuggingFaceServer` | `__main__.py`: one of the two backends | `GenerativeModel`, `VllmCompletions` |
| `MCPuller`, `MCTrainedModels`, `MCRouter`, `MCOpenInference`, `MCHuggingFaceServer` | symmetry, restrictions and structured inputs for TLC | the module of the name |
| `AgentProofs`, `LocalModelCacheProofs`, `TrainedModelsProofs`, `ModelServerProofs`, `LocalModelNodeProofs`, `CanaryRolloutProofs`, `HuggingFaceServerProofs`, `RouterProofs` | theorems and proofs | the module of the name; `AgentProofs` both `ModelAgent` and `AgentServer`, `ModelServerProofs` also `OpenInference` |

Operators introduced by "Variant:" are changed forms of the definition that
follows them, the way a plausible mistake in that code would read. No
specification uses them: they show that each property notices a mistake.

**The agent.** `phase` is where `main` is: `NewWatcher` ("syncing"), the wait for
startup operations ("starting"), `Watcher.Start` and the HTTP server ("watching").
The `ModelEvents` channel is the sequence `events`; `TakeCommand` and
`SendToProcessor` are the two halves of `enqueueModelOp`, split at the channel
send where the goroutine may block, and `CompleteOp` is `modelOpComplete`. A
processor is a pair of a model and a worker identity; a free identity is taken
when a channel is made, so that the goroutine of a closed channel may still be
draining while a new one starts: whether that happens is what
`OneProcessorPerModel` asks. `step` walks through `processOp`, one file operation
or request at a time, and a kill may come between any two. `MarkModel` and
`SweepModel` are one turn of the two loops of `parseConfig` in any order of the
maps, and `SendCommand` sends what the turn produced.

A refinement mapping hides all of this: in `ModelAgent`, `PendingOps(m)` is the
sequence of commands of a model that have not taken effect, wherever they are:
with the processor, in its channel, in `processCommands`, in `ModelEvents`, or
with the watcher. `ModelCommands` says that only its head may take effect. The
agent with faults and kills implements `Spec` (a command may be given up, all may
be forgotten, and a load may be of what is there); without them it implements
`ReliableSpec` (none is lost). The last belongs to `StatFails`: when the look at the
success file fails, the code sends the load request all the same. `Unchecked` are the
models that are between the two, `CheckFails` and `ApplyUnchecked` the two steps in
`ModelCommands`.

**The batcher.** An instance is a pair of a request and a position, a prediction
an instance with the path it was posted to, so that a wrong share, order or path
is visible. `ReceiveRequest` and `WakeUp` are one turn of the `select` with what follows
it; the clock is `age`, in ticks of the loop's sleep, and a turn may take a tick
or none. `Reply` gives one caller its share; `waited` is a history variable that
only `LatencyOfOldest` reads.

**The logger.** `workQueue` is the channel; each entry gets a goroutine
(`carriers`) that waits for an idle worker, and the worker sends it or fails. In
`AgentServer` the handler below the logger is the batcher: `NextReturns` gets the
status code the logger's response writer saw, 0 when the handler below it never
called `WriteHeader`.

**The LocalModelCache controller.** `Reconcile` is a loop over nodes:
`BeginReconcile` reads the object, adds the finalizer and fixes the nodes to
visit; `AddToNode` or `DeleteFromNode` is one turn; `FinishUpdate` or
`FinishDelete` writes the status or removes the finalizer; `UpdateFails` and
`DeleteFails` end it at any point. `queue` is the work queue, and which events
enter it is translated from the predicates of `SetupWithManager`; `reported` makes
the delay of a status event visible. `absent` is history: the nodes that have ever
been outside the cluster.

**The LocalModelNode agent.** `pc` is where `Reconcile` is: between the `Get` with
the list of the jobs and the last of the deletions ("cleanup"), in the loop of
`downloadModels` ("download"), between the status and the last folder ("delete").
`SkipModel`, `LaunchFor` and `FollowJob` are the three ways a turn of that loop
may go. `object` is what it read, `fresh` whether a status it writes will be
accepted. `cached` and `cachedJobs` follow the API server by `ObjectEvent` and
`JobEvent`. A job is numbered in the order of creation; one that is deleted stays
as `visible = FALSE` while its pod is alive, and `mounted` says that the folder
the pod writes is still the one at the path. `mishaps` is history: the models for
which the agent has acted on a job list that was behind, on a status that was not
the last, or whose folder was lost.

**The TrainedModel controller.** `worker` is the reconcile under way: its program
counter and the object it read. Each action is one call to the API server with
what follows it (`Register` the label and finalizer, `UpdateConditions` the
promise of memory, `Enlist` and `Unlist` the ConfigMap, `Unfinalize` the
finalizer); a write with an older version than the server's is a conflict
(`Update`), and `CallFails` and `Restart` may come instead of any. `cache` is what
the informers have; `lags` says whether it may be behind. `uid` tells an object
from a later one of the same name. `isvcPc`, `children`, `ListChildren` and
`DeleteChild` are the deletion of the InferenceService by its own controller.

**The InferenceService controller.** `worker` is the reconcile under way, with the
specification and status it read; `current` says whether the object in the API
server is still that one. `WriteService` is `KsvcReconciler.Reconcile` with the
`PropagateStatus` of what the write returns, `UpdateStatus` the write of the status,
`Requeue` the return while the storage initializer is tried again. `kstatus` is the
status of the Knative Service, changed by `CreateRevision`, `BecomesReady` and
`Route`; a revision has the number of its template. `ordered` says whether Knative
reports a new revision before it routes for it. `asked` and `full` are history.

**The router.** A call of `routeStep` or `executeStep` is named by its path in the
tree of steps. `CallService`, `PickupRoute`, `PickupRouteByCondition`,
`RouteReturns`, `StartSteps` and the receiving actions are what a call does
between two waits. A goroutine of an ensemble is "done" when it is ready to send
and "taken" when it was received, because the channels have no buffer. Nobody
checks that the node a step names is in the graph: Go reads an empty node there,
whose type is none of the four, and `InvalidRouteType` is the error that follows.

**The model server.** A handler is a record in `req` whose `pc` says what it
awaits; one action is one turn of the event loop, in which nothing else runs. An
object is a name and a version, so an answer by an object that was replaced is
visible. `seen` is history: the versions that were in place during the call. The
index call iterates over the live dictionary, and the iterator fails as CPython's
does when the size has changed. `Signal`, `RestEnds`, `ClientsClosed`,
`GrpcStopped` and `LoopEnds` are the end as uvicorn, `stop()` and `asyncio.run`
share it.

**The protocol types.** A tensor has data (a list, bytes or an array) or raw
contents; an element is the sequence of its bytes, so a conversion is what it does
to bytes. `EncodeRequest`, `DecodeRequest`, `EncodeResponse` and `DecodeResponse`
translate the methods of `InferRequest` and `InferResponse` step by step, errors
included; the actions send a message over one hop, read it, forward it, predict,
reply and return. The client keeps its object, as converted, for the next attempt.

**The Hugging Face server.** `GenerativeModel` has one variable for each shared
object: the request queue, the worker, the stream's thread, the streamer, the
response queue, the statistics and the stop criterion. Actions are split where the
other threads can come between. `HuggingFaceServer` is one of the two for good, as
`load_model` chooses. In `VllmCompletions` a token is a prompt, a choice
and a position, and what the client has put together is compared with what the
whole answer shows.

## 3. The runs

### What each shows

`puller` (`MCPuller`): arbitrary commands, every fault, restarts without bound.
One model with one spec, two worker identities, channels of 3, 2 and 2. One model
is enough because models share only the completions channel and `processCommands`,
which the run fills anyway; two identities are enough to break
`OneProcessorPerModel`, and two slots per channel are enough to have operations in
every place at once. It shows that at most one processor ever has work for a model
(`OneProcessorPerModel`), that `opsInFlight` counts exactly what is under way
(`InFlightIsOutstanding`), and that no startup operation is left when the wait is
over (`StartupCompletesFirst`).

`agent_faults` (`MCModelAgentFaults`): watcher and puller, one model, two specs,
two updates of the configuration, two kills, and looks at the success file,
downloads, writes of the success file and requests that fail. Two kills are needed
for a start that recovers what an earlier start left, and a third update adds no
new relation between two specs. It shows `AgentInv` (mark and sweep also works on
a recovered tracker), `LoadedIsComplete` (a load that follows a look at the
success file or a download only comes while the directory has exactly what the
command asks for, complete; a load whose look failed is the deviation of section
5), `SuccessFilesAreTruthful`, and the refinement `CommandsInOrder`. The channels
hold what two updates produce; that they fill up is the subject of `puller`.

`agent_fair` (`MCModelAgentFair`): two models, two specs, one update from any
configuration to any other, no fault, no kill, under fairness. It shows that no
command is lost (`EveryCommandApplied`), that the start ends
(`StartupTerminates`), and that the agent comes to rest with what the
configuration says (`ConfigEndsServed`). Section 5 says what a second update, a
kill or smaller channels do to these.

`agent_server` (`MCAgentServer`): two requests of one or two instances each, in
batches of three instances and a latency of two ticks, so that batches close by
size, by time, and over their size, one or two of them follow each other, and the
predictor may fail in each; requests and responses are logged, through a log
channel of one entry and one worker, so that the channel is full as soon as a
second entry comes. It shows `OwnPredictions`, `LimitsKept` (no batch outgrows its
size by a request or its latency by a tick, none leaves early, and all who wait
are in it), that an entry is in exactly one place (`LoggerInv`), and
`EveryRequestEnds`: every request comes back if the predictor answers, although
the sink may never answer, and every entry is sent, or rejected by the sink, when
the sink answers.

`localmodel` (`MCLocalModelCache`): one cache created, deleted and created again,
two nodes, two events of nodes or restarts, one failing API call. One model is
enough because models share nothing but the queue and the lists of a node, and of
the lists each step only changes the element of its own model; the proofs below
have no such bound. It shows `NothingLeftBehind` and the liveness of deletions
(`DeletionEnds`), additions (`QueuedReachesReadyNodes`) and reports
(`ReportsReachTheCache`).

`local_model_node` (`MCLocalModelNode`): one model that is listed, taken off the
list and listed again, up to two jobs at a time, and one failing call, restart or
lost folder. Models share only the program counter, the object and its versions,
and three changes are what a list that changes under a status write and changes
back needs. The agent never waits for its caches: it goes by the jobs it lists
however old the list is, again and again, and may launch a second job by it. It
shows `NodeInv`, whose part `DownloadedIsComplete` is the promise that the agent
keeps as long as no mishap befalls the model (section 5), and `ListIsFollowed`: a
model that stays on the list is answered, and of one that stays off it no folder,
job, pod or status is left. Both liveness parts have the premise that the bound of
two jobs does not stop the agent.

`trained_models` (`MCTrainedModels`): two models for the memory of one, two objects
for each name, and either caches that are behind or one failed call or restart; both
at once adds states and no case of its own. It shows `ListedIsHeld`,
`MemoryRespected`, `ListedUntilDeleted` (a model made again under its name is not
taken for the old one and taken out for it) and `EverythingSettles`: a second model
waits and is tried again when the first is gone (`WantedIsListed`), and deletions, that
of a model (`DeletionEnds`) and that of its parent (`ChildrenAreDeleted`), pass every
conflict, failure and restart.

`router` (`MCRouter`): one request and six graphs, which put each kind of node
below each other kind that treats it differently, with hard and soft dependencies,
conditions and responses passed on, and one that names a node it does not have;
services answer well, badly, or with something
unreadable, and a signal may come at any moment. Requests share nothing but the
shutdown. It shows `RouterInv` (steps of a sequence in order, no exit while a
request is under way), `EnsembleIsJustified` (what an ensemble returns follows
from what its steps returned, whatever the order of arrival) and
`EveryRequestEnds`.

`model_server` (`MCModelServer`): two callers with any calls over both protocols,
two models, one load and any unloads, SIGTERM or SIGQUIT. A second call and one
change of the registry are enough to come between any two turns of the first. It
shows `ShutdownIsOrderly`, `AnswersAreCurrent`, `IndexIsRight` (an index that does
not fail is exact) and `EverythingEnds`.

`open_inference` (`MCOpenInference`): two tensors of numbers, half-precision
numbers or strings, empty ones and strings that are not UTF-8 included, in every
form a client can give them; one or two hops over REST or gRPC, and from REST over
gRPC to REST again, the one order of protocols that `PlainIsServed` excepts, for
strings; up to three attempts with the same object. Two tensors are enough for a
message that mixes forms, and three attempts for a conversion that is repeated over
the other protocol. It shows `ValuesArrive`, `MessagesInForm` and `PlainIsServed`.

`hugging_face` (`MCHuggingFaceServer`): with the transformers library, two requests
that differ in what the code tells apart (stream, echo, rows, stop sequence, limit,
seed), a client that goes away, exceptions of `generate()`, and the stop of the
model; with vLLM, one request of one or two prompts, one or two choices, up to two
candidates and any limit, where the engine answers prompts in any order, a token of
each choice at a time, text behind tokens. The context has three tokens. It shows
`AnswersAreOwn` (text, usage, finish reason and random numbers), `CompletionsAgree`
and `EveryRequestEnds`. Requests to vLLM share nothing in this code.

`canary_rollout` (`MCCanaryRollout`): two changes of the specification of one
InferenceService, with canaries of 10 and 100 percent or none, and two failed calls
or restarts. Three templates are what a rollout on top of a rollout needs, two
changes what taking one back needs; the same properties were found to hold with three
changes and no fault, and with a canary of 0 percent. It shows `RolloutInv` (only a
revision that had all traffic before keeps the rest of it, or is remembered),
`RollbackIsAsked`, and `RolloutSettles`: when the user is done, the traffic comes to
rest as asked, as far as a revision is ready. A revision may never be.

A property named `...Inv`, or one that joins others, is a conjunction whose parts
have names and comments of their own in the module.

### Deadlock

`puller`, `router` and `model_server` are checked for deadlock:
their systems either go on for ever or end in a state that has a step of its own
(`Exited`, `Ended`). The others really come to rest: the configuration is loaded,
the requests are answered, the objects are reconciled, the client has made its
last attempt, a generation hangs. Their configurations switch the check off, and
the liveness properties say that they come to rest only where they should.

### Fairness

* Agent: every goroutine that can take a step takes one (weak fairness per
  goroutine), downloads and requests return, one way or the other, and the kubelet
  restarts the container. Nothing is assumed of updates and kills.
* Agent server: every kind of goroutine that can take a step takes one (weak
  fairness per kind: the requests, the loop of the batcher, the dispatcher, the
  carriers and workers). There are finitely many requests, so that no order among
  those who wait on a channel has to be assumed. That the predictor and the sink
  answer are premises: the code sets no deadline.
* LocalModelCache and TrainedModels: the worker runs, and every queued key gets
  its turn (strong fairness: the work queue is first in, first out, while other
  keys keep coming); watch events arrive. Nothing is assumed of users, nodes, node
  agents or failures. `WantedIsListed` has the premise that the model stays
  wanted.
* LocalModelNode: the agent runs again and again (`RequeueAfter`), the caches
  follow the API server, and pods start and end, one way or the other.
  `ListedIsAnswered` has the premise that jobs that have ended are not, for ever,
  deleted before the agent has seen them.
* InferenceService: the controller runs while the object is queued, the cache
  follows, and Knative makes revisions and routes. Nothing is assumed of users,
  failures, or of revisions getting ready. `RolloutSettles` has the premise that
  the storage initializer is not tried again for ever.
* Router: goroutines are scheduled, services answer (the HTTP client has no
  timeout) and the sleep of the shutdown ends. Nothing is assumed of requests and
  signals.
* Model server: the event loop runs every coroutine that has what it waits for;
  `healthy()`, models and the connections of the clients end.
* Generative model: threads are scheduled and the loop runs what it can. That
  `generate()` does not raise is a premise of `EveryRequestEnds`.
* The protocol types and vLLM's completions have only safety properties: both are
  one conversion after the other.

## 4. What is proved

For all values of the constants, under the named assumptions of the modules
(`Workers`, `NoOp` and the like are distinct from real values, capacities are
positive, bounds are natural numbers, sets over which the code counts are finite):

* `PullerTypeOK`, `PullerAccounting`, `PullerExclusion` (`AgentProofs`): `Spec =>
  []TypeOK`, `[]InFlightIsOutstanding`, `[]OneProcessorPerModel`, for any number
  of models, specs and workers and any channel sizes. `OneProcessorPerModel` is
  not inductive: that a new processor finds no other at work rests on
  `opsInFlight` being exact, and this on every operation being where its channel
  says. `IInv` adds these two: `OpsAtHome` (a processor only has operations of its
  model) and `NoOrphanedProcessor` (work is only with the processor whose channel
  is in the map). The delicate step is `CompleteOp`: the counter goes to zero
  exactly when nothing is buffered, at work or completed. `OpsOfTail` and
  `OpsOfAppend` say how the number of a model's operations in the completions
  channel changes.
* `StartupIsWaitedFor` (`AgentProofs`): `Spec => []StartupCompletesFirst`, for any
  models, processors and channels, and whatever fails. The wait group is a number
  and what it counts is spread over four kinds of places, so `WaitIInv` says that
  the places of startup operations (`HeldPlaces`) are a finite set and that there
  are no more of them than the wait group counts. An operation moves from one
  place to another, and `Done` is called only for one that leaves the last.
* `AgentIsPuller`, `TrackerFollowsConfig` (`AgentProofs`): `AgentSpec => Spec`
  and `AgentSpec => []AgentInv`, for any number of changes and kills. The composed
  agent only takes steps the puller allows, so every theorem above holds of it;
  what has to be shown is that the watcher only sends commands while its phase
  allows (`PhaseOut`). For the tracker, `WatcherIInv` says how far a parse
  of the configuration is (`Marked`, `ParseRight`): which models are marked and
  right already, and which are left for the sweep.
* `SuccessFilesTellTheTruth`, `OnlyCompleteModelsAreLoaded` (`AgentProofs`):
  `AgentSpec => []SuccessFilesAreTruthful` and `[]LoadedIsComplete`, for any number
  of changes, kills and faults, failed looks at success files included, except that
  a removal does not fail (`"remove" \notin Faults`). The exception is real: such a removal leaves a success
  file beside a torn directory, and the next download of the spec is skipped. A
  kill at the same place is not excepted. `FilesIInv` follows the directory
  through `processOp` (`FilesAtStep`: before a load the artifact of the command is
  there, complete; before one whose look at the success file failed, anything may be)
  and says that a model whose next command is an addition has no
  other success file (`AddsComeToNoFiles`), because the tracker, recovered or not,
  would have removed it first.
* `CommandsKeepTheirOrder`, `NoCommandIsLost` (`AgentProofs`): `AgentSpec =>
  CommandsInOrder` and `AgentSpec => EveryCommandApplied`, the two refinements of
  `ModelCommands`. The mapping puts the commands of a model together from where they
  wait: with a processor, in its channel, with `processCommands`, in `ModelEvents`,
  with the watcher. A step either moves a command within this sequence, which is a
  stutter, or is the last one of `processOp` and takes its head. That it takes
  effect with its own spec needs `FilesIInv`, since a load serves what the
  directory has. A load whose look at the success file failed is mapped to
  `ApplyUnchecked`, and may serve what is there; `UncheckedSame` and `UncheckedStays`
  are the lemmas about `Unchecked` that the other steps need. The first theorem has
  the hypothesis of the files; the second has `MaxCrashes = 0` and
  `Faults \subseteq {"write"}`, because a kill forgets commands, a failing download or
  request gives one up and a failing look at a success file may load another spec,
  while a failing write of a success file does none of these. Its invariant
  `NothingLost` is that a removal that finds no directory has nothing to unload.
* `CallersGetTheirOwn` (`AgentProofs`): `BatcherSpec => []OwnPredictions`, for
  any requests and batch sizes. `BatchIInv` adds `PositionsRight` (a caller's
  positions hold exactly its instances, in order) and `ReplyMatches` (a reply of
  the right length has the predictions in the order of the instances). Without
  them the answer says nothing of how it came about. `ShareIsOwn` is the lemma
  that joins them.
* `BatchesKeepTheLimits` (`AgentProofs`): `BatcherSpec => []LimitsKept`, for any
  limits and arrivals. The invariant `LimitsIInv` ties the clock of the batch to
  the requests that wait in it (`ClockRight`): the age is zero while the batch is
  empty and no caller has waited longer than it.
* `EntriesAreConserved` (`AgentProofs`): `ServerSpec => []LoggerInv`, for
  any requests, workers and size of the channel, with the batcher below. The five
  places of an entry partition what was queued; `StagesRight` says which entries a
  handler can have queued so far, so that a new one is in no place yet, and
  `NoDoubles` that the channel holds none twice. `AppendEntry` and `TakeEntry` are
  the lemmas about the channel.
* `DeletedLeavesNothing` (`LocalModelCacheProofs`): `Spec => []NothingLeftBehind`,
  for any number of caches, nodes, failures and restarts. A node that lists a
  model implies that its finalizer is there (`ListedIsHeld`); and so that this
  survives the removal of the finalizer, the loop of a deletion must be known to
  have cleaned every node it has visited (`VisitedAreClean`), which in turn needs
  that no node joins the set to be visited unseen (`joined \cup absent = Nodes`,
  part of the type invariant).
* `ListedModelsAreHeld`, `PromisesFit` (`TrainedModelsProofs`): `Spec =>
  []ListedIsHeld` and `Spec => []MemoryRespected`, for any number of models,
  objects, failed calls and restarts. The inductive invariant says of every step
  of the worker what the object it read guarantees of the object that is there
  now: the versions make a write on an old object impossible, and where the code
  does not write the object (`Enlist`) the finalizer of the object it read must
  still be there, because only the worker itself removes it.
* `ShutdownInOrder`, `CurrentAnswers` (`ModelServerProofs`): `Spec =>
  []ShutdownIsOrderly` and `Spec => AnswersAreCurrent`, for any models, callers
  and number of loads. `ServerIInv` has the stages of the two servers and of
  `stop()` (`StagesRight`: for instance, the REST server drains only after
  SIGTERM, and `stop()` has not begun then), what their ends exclude (`EndsRight`:
  a server that has ended has no calls, and nothing is registered any more), and
  what a call has seen (`SeenRight`). `TurnKeeps` is the argument for one turn of
  the event loop, whatever handler it belongs to: it suffices that the handler
  leaves its call in a form that fits; `TurnEnds` says that only the call whose
  turn it is can end.
* `DownloadsAreComplete` (`LocalModelNodeProofs`): `Spec => []NodeInv`, for any
  number of models, jobs, changes of the list, failing calls and restarts. The
  status is read at the begin of a reconcile, through a cache, and written at its
  end, so `IInv` says what an old version still promises: where it says
  "downloaded" the status still does (`Follows`, in `VersionsRight`), because only
  the agent writes it and a write on an old version is refused. `JobsRight` says
  that, but for mishaps, a model has at most one job or pod and that its success
  means a complete folder; `LoopRight`, that a model off the list has no job left
  by the time its folder is removed; `ReportsTrue`, that a reported folder is
  complete and no pod will write it again (`Quiet`), for the status and for the
  one about to be written.
* `KeptHadAllTraffic` (`CanaryRolloutProofs`): `Spec => []RolloutInv`, for any
  canaries, changes, failures and restarts. What keeps traffic is taken from a status
  that was read from a cache and rests, through several writes, on a report of
  Knative, so `RolloutIInv` says of each of them (`cache`, `worker`, `kstatus`) that
  what it remembers, or reports as having all traffic, has had it. `TrafficIsSplit`,
  `RoutedIsSplit` and `StatusIsCarried` are the lemmas about the split, what Knative
  makes of it, and `PropagateStatus`.
* `RollbacksAreAskedFor` (`CanaryRolloutProofs`): `Spec => RollbackIsAsked`, for any
  canaries, changes, failures and restarts. `RollbackIInv` has the order in which a
  template goes its way, from the user over the object, the cache and the Knative
  Service to a revision (`TemplatesFollow`); that a part of the traffic was asked for
  with a template between the revision that got it and the one made last
  (`SplitAsked`); and that a status that can still be written was made from the one
  that is there (`StatusFollows`). The premise that Knative reports in order is part
  of the property (section 5).
* `RequestsGoByTheGraph`, `EnsemblesAreJustified` (`RouterProofs`): `Spec =>
  []RouterInv` and `Spec => []EnsembleIsJustified`, for any graphs, those that name
  nodes they do not have or that are cyclic included, and any answers. A call is
  named by its path, and `CallsIInv` says of every call what it knows of its steps:
  one that has not begun has begun none of them, what was received from a step is
  what that step returned, and a body comes from the call that returns it or from
  one below (`MadeBelow`). A call that acts changes itself and at most begins or
  receives its steps: `CallKeeps` and `OthersKeep` are the argument for all other
  calls, so that each action is left with its own.
* `OnlyDeletionUnlists` (`TrainedModelsProofs`): `Spec => ListedUntilDeleted`, for any
  models, objects, failed calls and restarts and caches that are behind. `Unlist`
  does not write the object, so no version protects the one that was made again
  under its name. `ListingIInv` says why that is never taken out: what the cache and
  the worker have is not newer than what is there and knows of no deletion that has
  not begun (`CopiesRight`), and what is listed is what the cache has, because the
  worker read it there and the cache does not go back (`ListedIsCached`).
* `IndexIsAlwaysRight` (`ModelServerProofs`): `Spec => IndexIsRight`, for any models,
  callers and loads. `IndexIInv` ties the iterator to the dictionary: as long as no
  key it has given was deleted, the names listed so far are the first keys
  (`IndexRight`), and if one was, its count can no longer come out at the size, so
  that the index fails. `KeysStep` is what every change of the registry does to the
  keys; for a deletion it rests on `FirstKeysStay`.
* `AnswersBelongToRequests` (`HuggingFaceServerProofs`): `ServerSpec =>
  []AnswersAreOwn`, for any requests and length of the context. `GenerativeIInv` says
  for each request where it is: in the queue, with the background thread, or answered
  (`QueueRight`, `WorkerRight`), that nobody else generates meanwhile (`SeedIsOwn`),
  and for a stream that what the client has, the items on their way in the queues and
  the text the streamer holds back continue each other up to the last token
  (`StreamRight`).

* `StreamsAddUp` (`HuggingFaceServerProofs`): `ServerSpec => []CompletionsAgree`, for
  any prompts, choices, candidates, limits and length of the context, and whatever the
  engine answers, in any order and rank. `CompletionsIInv` says of every prompt that
  there is no answer yet or an output for each of its choices (`AnswersRight`), and of
  a stream that the client has exactly what these outputs show so far, while the
  generator remembers how much that was (`SentRight`); before the first answer of a
  prompt nothing was sent for it (`Unsent`), and this decides whether an answer echoes
  the prompt. Together they say that a piece is what is new, and no more. The
  usage is a sum over prompts and choices, and the stream adds its parts in
  another way than the whole answer: `Total` counts a sum as the size of a disjoint
  union, so that two sums are compared by a bijection (`UsagesMean`). The assumption
  `VllmCompletionsAssumption` says that `None` is not a reason to finish.

* `ValuesSafety`, `FormSafety` (`ModelServerProofs`): `OpenSpec => []ValuesArrive`
  and `OpenSpec => []MessagesInForm`, for any requests, answers, paths of hops and
  number of attempts, and tensors of any length. What `MessagesInForm` says of binary
  outputs has the premise of section 5 (`LeavesNoneToRequest`). Both follow from `OpenIInv`
  (`CarryingInvariance`). A tensor changes its form on the way: a list, an array,
  bytes objects, raw data with or without its size; and the property only sees what
  `as_numpy` makes of it. So the invariant says of every tensor that it `Carries` the
  elements it began with, in one of these forms, or has lost some because a string was
  not UTF-8, and its shape tells (`Torn`); together `Conveys`. Each conversion has a
  lemma that says what it does to this, one for a tensor (`InputToRestConveys`,
  `FromSliceCarries`, ...), one for the message it is part of
  (`EncodeRequestConveys`, `DecodeInputsConveys`, ...) and one for the step
  (`SendCarries`, ...). The binary data of a message is one sequence, cut by the sizes
  of the tensors: `FlattenPart` says that a part of a join is found between the
  lengths of the joins before and after it, and `RawsRight` that what is joined is what
  the tensors without data need. `StringsBack` and `NumbersBack` say that what is
  written of strings and numbers is read again; `CarriesIsRead` joins all this to
  `as_numpy`. That a gRPC message is decoded by position is right only while it is not
  mixed: the invariant speaks of responses that are not, and a mixed request is
  refused (`ValidGrpc`).
* `PlainService` (`ModelServerProofs`): `OpenSpec => []PlainIsServed`, in the same
  generality. No conversion raises for ordinary tensors in one form because they stay
  alike: `PlainIInv` has of a request that all its tensors are raw data or all are
  data (`PlainRequests`), with the same of a response (`PlainResponses`), and of
  strings that they are data only after they have been in JSON, and bytes objects only
  after gRPC contents as well (`WasJson`, `WasContents`). Bytes objects meet JSON then
  only on a path that goes from REST over gRPC to REST: this is where the premise
  comes from (section 5).

For `OpenInference` the assumption on the constants (`OpenAssumption`) says that
`None` and `Error` are no data and no message, that a number in a tensor has the bytes
of its type (`Given`), and that paths have hops over REST or gRPC.

Only model-checked: all liveness properties (out of the prover's reach, as is
`ENABLED`), with them `EverythingSettles` and `RolloutSettles`. Every safety property
that a run checks is proved.

Induction over data is done where an argument needs it, without the theorems of the
library that take an operator: a set of numbers that has no smallest one is empty
(`WFMin`, `InductionOnNat`), and what the induction is about is a set. Functions
defined by recursion, such as that of `Strings` and that of `FlattenSeq`, are shown
to exist so (`ReadsExist`, `JoinsExist`).

## 5. Disagreements

What the code does differently from what its comments, documents or tests say, or
from what one would expect. Each was met while modelling; the properties above are
stated so that they hold of the code as it is, and where a property has a premise
because of one of these, it is said here.

The agent:

* `parseConfig` stores the *old* spec of a changed model in the tracker
  (`watcher.go:148-151`). When the spec is set back it is taken for unchanged, and
  the newer one stays loaded. `ConfigEndsServed` holds for one update.
* `processCommands` sends to the channel of a model while its processor sends to
  the completions channel that only `processCommands` receives. Once both are full
  nothing moves any more. With the code's sizes this takes fourteen outstanding
  commands; `agent_fair` has larger channels than commands.
* The wait group counts every command of the first parse, but `modelRemoved` never
  sets `OnStartup`, so the removal of a recovered model that left the
  configuration while the agent was down never calls `Done`: the agent never
  serves. `StartupTerminates` therefore speaks of a run without kills.
* A kill between the creation of a success file and its write leaves an empty
  file. `SyncModelDir` fails on it and returns a nil map, and the first write to
  the tracker panics, at every restart (`syncer.go:64`, `watcher.go:44,145`). The
  action `Panic` and the variable `nilTracker` model it, and `agent_faults`
  explores the restarts.
* `Start` writes an initial event to force a sync that the filter of its own loop
  drops (`watcher.go:107-110,130`): an update between the first read and the watch
  is only seen with the next one. In the model `ConfigUpdate` notifies only a
  process that watches; `ConfigEndsServed` therefore speaks of a configuration
  that was read.
* The write error of a success file is wrapped around the nil error of its
  creation and reported as success (`downloader.go:70`). This is `WriteFails`.
* Any error of the look at a success file other than "it does not exist" is only
  logged (`downloader.go:75-77`): `DownloadModel` returns nil, and the model server is
  asked to load a directory that may be absent, half written, or of another spec.
  This is `StatFails`. `LoadedIsComplete` and `CommandsInOrder` except exactly such a
  load, and the latter says of it that it comes in its turn and serves what is there.
* The path of a batch is that of the last request in it, so requests for two
  models in one batch are answered by one. `MCAgentServer` has one path.
* The batcher has no timeout, although `docs/samples/batcher/README.md:31,36`
  describes one, and never calls `WriteHeader`: the logger logs a response only
  for status 200, and the status it sees behind the batcher is 0, so no response
  is logged.

The controllers:

* `UpdateFunc` of the node predicate of the LocalModelCache controller compares
  the new node with itself, so a node that becomes ready is never an event.
  `QueuedReachesReadyNodes` speaks of a cache that is queued.
* A node that leaves the cluster, misses the deletion of a cache and returns still
  lists it: nothing deletes its `LocalModelNode`. `NothingLeftBehind` speaks of
  nodes that never left.
* An error while a cache is added to nodes is only logged (`controller.go:314`),
  so the other nodes wait for an unrelated event. `QueuedReachesReadyNodes` and
  `ReportsReachTheCache` therefore hold while no call fails.
* "If folder exists and the job has been successfully completed, do nothing"
  (`localmodelnode/controller.go:255`): the agent goes by the status it read, not
  by the job, and the status stays "ModelDownloaded" for ever. When a folder is
  lost and the write of the new status fails after the new job was launched, the
  half-written folder is taken for complete, for good. The same follows from a
  list of jobs that is behind, by which a second job is launched into the folder
  of the first, and from a pod that outlives its deleted job.
  `DownloadedIsComplete` leaves out the models that such a mishap has befallen.
* "To ensure not creating more than 2 jobs" (`:294`): the jobs are counted in a
  cache, and where there is none in it, not counted at all.
* A job that is gone when `cleanupJobs` deletes it is an error that ends the
  reconcile (`:386`), which is tried again; until the first reconcile has read the
  configuration, `jobNamespace` is empty and the jobs of all namespaces are listed.
* A TrainedModel whose parent is gone when its own deletion is reconciled keeps
  its finalizer for ever: the missing parent only leads to another `Delete`
  (`trainedmodel/controller.go:86-96`). `DeletionEnds` holds while the parent
  lives.
* The memory of the siblings is summed over the informer cache (`:259`): while it
  is behind, two models are admitted at once. `MemoryRespected` has the premise
  that it is not.
* A rollback is inferred from the traffic alone: if Knative routes a canary before
  it reports the revision of the new template, all traffic is on the old one, and the
  old one's rollout is taken back though nobody asked
  (`inference_service_status.go:459-470`); the rest of the traffic then goes to the
  revision before it. `RollbackIsAsked` has the premise that it reports in order.
* A canary that is asked for before the first rollout is recorded is ignored
  (`ksvc_reconciler.go:130`): the new revision gets all traffic, and when the record
  comes it is taken back to its part.
* While the storage initializer is tried again the controller returns before it
  writes the status (`predictor.go:396-400`), and pods are not watched, so that a
  rollout of an earlier revision is recorded late, or never.
* A TrainedModel that is labelled after the list of children was read
  (`inferenceservice/controller.go:405`), or enlisted before the ConfigMap is
  collected, is orphaned; a child that cannot be deleted is only logged.

The router:

* The splitter draws from 0 to 100, while its comment says `[0,100)`
  (`main.go:177`). At 100 no route is found and the handler panics on a nil one;
  `net/http` recovers and the connection ends without an answer.
* An ensemble that returns early leaves the goroutines of its other steps blocked
  on their channels for ever. Which of several errors or failed hard dependencies
  answers depends on timing; an error of any step may come before the status of an
  earlier one.

The Python servers:

* `stop()` closes the clients of the predictor before it stops the gRPC server,
  whose calls may still use them; after SIGQUIT the models are unloaded while the
  REST server goes on; without a gRPC server `asyncio.run` may cancel `stop()`
  before the models are unloaded (`model_server.py:293-333`). `ShutdownIsOrderly`
  says exactly this much.
* The gRPC handlers of load and unload fail with a `TypeError` on the result of
  the data plane, after the effect (`servicer.py:90-108`).
* `index` iterates over the live dictionary while it awaits and fails when a model
  is loaded or unloaded meanwhile (`model_repository_extension.py:53`).
* A stream with several prompts raises in the thread that generates and blocks the
  background thread for ever; an exception of `generate()` in a plain request ends
  the background thread while the model stays ready
  (`generative_model.py:258-300`). `EveryRequestEnds` has the premise that nothing
  raises.
* The last chunk of a stream may say "length" although a stop sequence was met,
  and an end-of-sequence token gives "length"; the usage of an encoder-decoder
  counts the start token.
* With `max_tokens` absent, the limit is what the first prompt leaves, so a longer
  later prompt is refused; `best_of` counts as 1, so `n` = 2 is refused unless it
  is set (`vllm_completions.py`). A finished choice repeats its finish chunk and
  usage while others go on. The whole answer numbers choices by rank, a stream by
  the engine's index.
* A gRPC response that mixes raw contents with contents is assigned by position
  (`infer_type.py:1200`), so a tensor may silently get another's data; an output
  with an empty list is one way to such a mix (`:1416-1420`). Servers refuse such
  requests (`servicer.py:37-52`). `OutputsArrive`, a part of `ValuesArrive`, has this premise.
* Empty tensors are refused in several forms (null data after binary data of no
  bytes, binary data of an empty list); a raw gRPC request without a size is
  refused when it is forwarded over REST; FP16 received over REST cannot be
  forwarded, and `InferResponse.to_grpc` raises for an array of several elements
  when raw outputs are used. `PlainIsServed` names what is never refused.
* Requested outputs that say nothing of binary data ignore `binary_data_output`
  (`:1345-1346`), although comments say otherwise (`:525`, `:1187`), and a
  transformer that passes requests on loses the client's wish. `WantsBinary` is what
  the comments say; `EncodedAsAsked`, a part of `MessagesInForm`, has the premise that
  no output is left to a request that wants all as binary data.
* Strings sent over gRPC become bytes in place and are then refused over REST
  (`:816`): by a client that sends them again, and by a transformer that received
  over gRPC contents what the one before it had received as JSON, or as binary data
  over REST, which is read into a list. `PlainIsServed` has the premise that strings
  do not take such a path, and are binary data in the client. Binary strings that are
  not UTF-8 are always refused by `from_bytes`, although its message advises binary
  data; a failed `set_data_from_numpy(binary_data=False)` leaves a part of the list
  behind (`:292-318`). `as_dataframe` (`:843-858`) reads only `data` and is silently
  empty for raw requests; `set_data_from_numpy` raises on a response received over
  gRPC, whose parameters are a protobuf map. The last two are not in the model.

## 6. What is abstracted or left out

* Artifacts are one of: absent, partial, torn, or the complete artifact of a spec.
  A transfer is a beginning and an end with a kill or an error between them;
  providers and protocols are not told apart.
* A `models.json` that cannot be read or parsed leaves the watcher's state alone
  and is left out, as are `opStats` (written, never read) and the closing of the
  completions channel at the end of the process.
* The model server does what it is asked and keeps its models when the agent
  restarts; its own restarts are left out.
* A success file that cannot be created is one of the ways in which a download fails.
* A removal that fails, at once or half way (`"remove"` in `Faults`), is part of
  `puller`, where nothing is said of the files. It is not part of `agent_faults`: it leaves
  a success file beside a torn artifact, and the next download of the spec is then
  skipped, so that `LoadedIsComplete` does not hold. A kill at the same point is
  part of the run: the recovered tracker then has the model, and its removal is
  what comes next unless the configuration still wants that spec.
* Requests that the batcher answers itself (no JSON, no instances), kubelet probes
  in the logger and the contents of cloud events are left out.
* LocalModelCache: one node group; the volumes and InferenceServices of steps 3
  and 4 of `Reconcile` appear as events only; reads are current, so what a stale
  informer cache does to the list that is patched without a resource version
  (`controller.go:603`) is not covered.
* LocalModelNode: the template of a job and the source of a model, which is
  compared with nothing; jobs are never created in the same second; "pending" and
  "downloading" are one status. Whether a folder is there, the jobs and the launch
  are one step of a turn. Two pods that write at a time leave no complete model,
  the worst that can be. `LocalModelCache` keeps a simpler reporter of its own.
* TrainedModels: one InferenceService, models of one size, one shard; addresses
  and status writes that change nothing are left out; a read and the write that
  follows it in one call are one step; readiness of the parent changes at any
  moment, which covers its lag.
* CanaryRollout: one component with Knative; conditions, model states, ingress,
  tags and the rest of the status are left out, as is the deletion. Templates are
  only ever new ones, because Knative makes a new revision of an old template too. A
  write of the Knative Service and the status it returns are one step.
* HuggingFaceServer: one request at most to the engine; requests to the backend that
  was not chosen do not exist.
* Router: headers, and what a body says beyond the conditions on it, are left out,
  as is the cache of `isInMesh`.
* ModelServer: a handler's first segment is merged with the arrival of its call;
  the predictor's health check, readiness filters, metadata, explanations, cloud
  events and several worker processes are left out, as is the rebuilding of a
  CPython dictionary that shrinks and grows while it is iterated. No endpoint
  reaches `index`; it is modelled as the extension offers it.
* GenerativeModel: one of the tokens meets the stop sequence at any step;
  batching, padding and the tokenizer are left out. VllmCompletions: answers
  of the engine with several new tokens of a choice and log probabilities (their
  offsets too) are left out.
* OpenInference: shapes of one dimension, elements of one or two bytes, one tensor
  parameter; cloud events, data frames, headers and the JSON text itself are left
  out.

Bounds in the guards: `MaxChanges`, `MaxCrashes` (agent), `MaxUser`, `MaxEvents`,
`MaxFaults` (LocalModelCache), `MaxJobs`, `MaxChanges`, `MaxFaults`
(LocalModelNode), `MaxUid`, `MaxFaults` (TrainedModels), `MaxChanges`, `MaxFaults`
(CanaryRollout), `MaxVersions` (ModelServer), `MaxSends` (OpenInference).
`MaxLength` and `max_model_len` are the contexts of the models. `EventCap`, `OpCap`,
`CompCap` and `QueueCap` are capacities of the code's channels (100, 8, 4 and 100)
at small values. `MaxInstances`, `MaxBatchSize` and `MaxLatency` are parameters of
the batcher.

## 7. The plan

Done, in this order: the model agent, because it has the most concurrency and
survives restarts; the request path of the agent; the LocalModelCache and
TrainedModel controllers and the node agent; the router; the Python model server with
the messages and completions that pass through it; the rollouts of an
InferenceService. The proofs follow the safety properties.

Left:

1. `LocalModelCache` composed with `LocalModelNode` as the real reporter, lag of the
   informer cache, the volumes and the webhook. Abstract specification: a cache is,
   per node, absent, downloading or downloaded, and never downloaded after it is gone.
2. A composition of `TrainedModels` with `Watcher`, in which `ConfigUpdate` is a
   write of the controller.
3. `CanaryRollout`: model states and several components.

## 8. Running it

    tlc -workers 2 -config MCModelAgentFaults.cfg ModelAgent.tla
    tlapm AgentProofs.tla

`PROJECT.json` lists the module and configuration of every run. The longest takes
a few minutes on two workers, the proofs of the agent six or seven, those of the
Hugging Face server four or five, those of the model server and its messages six to
ten, and each other proof module from one to three.
