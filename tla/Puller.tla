------------------------------- MODULE Puller --------------------------------
(***************************************************************************)
(* src/pkg/agent/puller.go and downloader.go: the goroutine of             *)
(* processCommands, one modelProcessor goroutine per channel in channelMap *)
(* and the wait group that holds the agent until startup work is done.     *)
(*                                                                         *)
(* Here the commands are arbitrary; ModelAgent composes this module with   *)
(* the Watcher that produces them.                                         *)
(***************************************************************************)
EXTENDS ModelStore, Integers, FiniteSets

CONSTANTS
  Workers,     \* identities that keep the processors of one model apart
  NoWorker,
  NoOp,
  OpCap,       \* capacity of a ModelChannel.modelOps channel (8 in the code)
  CompCap,     \* capacity of the completions channel (4 in the code)
  Faults       \* what may fail: a subset of AllFaults

AllFaults == {"download", "write", "load", "remove", "stat"}

ASSUME WorkersAssumption == NoWorker \notin Workers
ASSUME NoOpAssumption == NoOp \notin ModelOp
ASSUME CapAssumption == OpCap \in Nat \ {0} /\ CompCap \in Nat \ {0}
ASSUME FaultsAssumption == Faults \subseteq AllFaults

VARIABLES
  chan,        \* channelMap: the processor an entry's channel feeds
  inFlight,    \* ModelChannel.opsInFlight
  modelOps,    \* the buffered operations of each processor
  work,        \* the operation each processor is at, NoOp when it receives
  step,        \* how far processOp got with it
  completions, \* Puller.completions
  sending,     \* operation processCommands is still sending to its channel
  waitCount    \* counter of Puller.waitGroup

pullerVars == <<chan, inFlight, modelOps, work, step, completions, sending, waitCount>>
vars == <<phase, events, storeVars, pullerVars>>

Steps == {"start", "download", "downloading", "create", "write", "load",
          "unchecked", "clear", "unload", "complete"}

TypeOK ==
  /\ EventsTypeOK
  /\ StoreTypeOK
  /\ chan \in [Models -> Workers \cup {NoWorker}]
  /\ inFlight \in [Models -> Nat]
  /\ modelOps \in [Models -> [Workers -> Seq(ModelOp)]]
  /\ work \in [Models -> [Workers -> ModelOp \cup {NoOp}]]
  /\ step \in [Models -> [Workers -> Steps]]
  /\ completions \in Seq(ModelOp)
  /\ sending \in ModelOp \cup {NoOp}
  /\ waitCount \in Int

PullerInit ==
  /\ chan = [m \in Models |-> NoWorker]
  /\ inFlight = [m \in Models |-> 0]
  /\ modelOps = [m \in Models |-> [w \in Workers |-> <<>>]]
  /\ work = [m \in Models |-> [w \in Workers |-> NoOp]]
  /\ step = [m \in Models |-> [w \in Workers |-> "start"]]
  /\ completions = <<>>
  /\ sending = NoOp
  /\ waitCount = 0

Init ==
  /\ phase = "down"
  /\ events = <<>>
  /\ StoreInit
  /\ PullerInit

-----------------------------------------------------------------------------
(* The life of the process.                                                *)

\* NewWatcher begins.
Boot ==
  /\ phase = "down"
  /\ phase' = "syncing"
  /\ UNCHANGED <<events, storeVars, pullerVars>>

\* The watcher sends a command, before the puller exists or while watching.
Command ==
  /\ phase \in {"syncing", "watching"}
  /\ \E op \in Commands : SendEvent(op)
  /\ UNCHANGED <<phase, storeVars, pullerVars>>

\* Variant: the wait group is not told of the startup operations.
StartPullerWithoutAdd ==
  /\ phase = "syncing"
  /\ phase' = "starting"
  /\ UNCHANGED <<events, storeVars, pullerVars>>

\* waitGroup.Add(len(commands)) counts every command that is buffered, the
\* removals included.
StartPuller ==
  /\ phase = "syncing"
  /\ phase' = "starting"
  /\ waitCount' = Len(events)
  /\ UNCHANGED <<events, storeVars, chan, inFlight, modelOps, work, step,
                 completions, sending>>

\* waitGroup.Wait() returns and main starts the watcher.
WaitReturns ==
  /\ phase = "starting"
  /\ waitCount = 0
  /\ phase' = "watching"
  /\ UNCHANGED <<events, storeVars, pullerVars>>

\* The container is killed: the memory of the process is lost, the model
\* directory and the model server are not.
Crash ==
  /\ phase # "down"
  /\ phase' = "down"
  /\ events' = <<>>
  /\ chan' = [m \in Models |-> NoWorker]
  /\ inFlight' = [m \in Models |-> 0]
  /\ modelOps' = [m \in Models |-> [w \in Workers |-> <<>>]]
  /\ work' = [m \in Models |-> [w \in Workers |-> NoOp]]
  /\ step' = [m \in Models |-> [w \in Workers |-> "start"]]
  /\ completions' = <<>>
  /\ sending' = NoOp
  /\ waitCount' = 0
  /\ UNCHANGED storeVars

-----------------------------------------------------------------------------
(* processCommands: one goroutine, one select.                             *)

Running == phase \in {"starting", "watching"}

\* A processor that was never started, or whose channel is closed and drained.
Free(m, w) == chan[m] # w /\ modelOps[m][w] = <<>> /\ work[m][w] = NoOp

\* Variant: opsInFlight is only set when the channel is made.
TakeCommandCountsOnce ==
  /\ Running
  /\ sending = NoOp
  /\ events # <<>>
  /\ events' = Tail(events)
  /\ sending' = Head(events)
  /\ LET m == Head(events).model
     IN  IF chan[m] # NoWorker
           THEN UNCHANGED <<chan, inFlight>>
           ELSE \E w \in Workers : /\ Free(m, w)
                                   /\ chan' = [chan EXCEPT ![m] = w]
                                   /\ inFlight' = [inFlight EXCEPT ![m] = 1]
  /\ UNCHANGED <<phase, storeVars, modelOps, work, step, completions, waitCount>>

\* enqueueModelOp up to the channel send: a new channel and its processor if
\* the model has none.
TakeCommand ==
  /\ Running
  /\ sending = NoOp
  /\ events # <<>>
  /\ events' = Tail(events)
  /\ sending' = Head(events)
  /\ LET m == Head(events).model
     IN  /\ inFlight' = [inFlight EXCEPT ![m] = @ + 1]
         /\ IF chan[m] # NoWorker
              THEN UNCHANGED chan
              ELSE \E w \in Workers : /\ Free(m, w)
                                      /\ chan' = [chan EXCEPT ![m] = w]
  /\ UNCHANGED <<phase, storeVars, modelOps, work, step, completions, waitCount>>

\* modelChan.modelOps <- modelOp: the goroutine blocks on a full channel.
SendToProcessor ==
  /\ sending # NoOp
  /\ LET m == sending.model
         w == chan[m]
     IN  /\ Len(modelOps[m][w]) < OpCap
         /\ modelOps' = [modelOps EXCEPT ![m][w] = Append(@, sending)]
  /\ sending' = NoOp
  /\ UNCHANGED <<phase, events, storeVars, chan, inFlight, work, step,
                 completions, waitCount>>

\* Variant: the channel of a model is never closed.
CompleteOpKeepsChannel ==
  /\ Running
  /\ sending = NoOp
  /\ completions # <<>>
  /\ completions' = Tail(completions)
  /\ LET op == Head(completions)
     IN  /\ waitCount' = IF op.onStartup THEN waitCount - 1 ELSE waitCount
         /\ inFlight' = [inFlight EXCEPT ![op.model] = @ - 1]
  /\ UNCHANGED <<phase, events, storeVars, chan, modelOps, work, step, sending>>

\* Variant: only the last operation of a model in flight calls Done.
CompleteOpLastDone ==
  /\ Running
  /\ sending = NoOp
  /\ completions # <<>>
  /\ completions' = Tail(completions)
  /\ LET op == Head(completions)
         m == op.model
     IN  /\ inFlight' = [inFlight EXCEPT ![m] = @ - 1]
         /\ IF inFlight[m] = 1
              THEN chan' = [chan EXCEPT ![m] = NoWorker] /\ UNCHANGED waitCount
              ELSE /\ waitCount' = IF op.onStartup THEN waitCount - 1 ELSE waitCount
                   /\ UNCHANGED chan
  /\ UNCHANGED <<phase, events, storeVars, modelOps, work, step, sending>>

\* modelOpComplete: the last operation in flight closes the channel.
CompleteOp ==
  /\ Running
  /\ sending = NoOp
  /\ completions # <<>>
  /\ completions' = Tail(completions)
  /\ LET op == Head(completions)
         m == op.model
     IN  /\ waitCount' = IF op.onStartup THEN waitCount - 1 ELSE waitCount
         /\ IF chan[m] = NoWorker
              THEN UNCHANGED <<chan, inFlight>>
              ELSE /\ inFlight' = [inFlight EXCEPT ![m] = @ - 1]
                   /\ chan' = IF inFlight[m] = 1
                                THEN [chan EXCEPT ![m] = NoWorker] ELSE chan
  /\ UNCHANGED <<phase, events, storeVars, modelOps, work, step, sending>>

-----------------------------------------------------------------------------
(* modelProcessor: the processor w of model m.                             *)

\* Variant: drain the channel and keep the newest operation only.
ReceiveNewest(m, w) ==
  /\ work[m][w] = NoOp
  /\ modelOps[m][w] # <<>>
  /\ work' = [work EXCEPT ![m][w] = modelOps[m][w][Len(modelOps[m][w])]]
  /\ modelOps' = [modelOps EXCEPT ![m][w] = <<>>]
  /\ UNCHANGED <<phase, events, storeVars, chan, inFlight, step, completions,
                 sending, waitCount>>

Receive(m, w) ==
  /\ work[m][w] = NoOp
  /\ modelOps[m][w] # <<>>
  /\ work' = [work EXCEPT ![m][w] = Head(modelOps[m][w])]
  /\ modelOps' = [modelOps EXCEPT ![m][w] = Tail(@)]
  /\ UNCHANGED <<phase, events, storeVars, chan, inFlight, step, completions,
                 sending, waitCount>>

\* The processor is at a step of an operation of the given kind.
At(m, w, kind, s) ==
  work[m][w] # NoOp /\ work[m][w].op = kind /\ step[m][w] = s

\* It moves to another step, and changes nothing else in memory.
Goto(m, w, s) ==
  /\ step' = [step EXCEPT ![m][w] = s]
  /\ UNCHANGED <<phase, events, chan, inFlight, modelOps, work, completions,
                 sending, waitCount>>

\* Variant: nothing is downloaded when the directory is there.
CheckModelDir(m, w) ==
  /\ At(m, w, "Add", "start")
  /\ Goto(m, w, IF data[m] # Absent THEN "load" ELSE "download")
  /\ UNCHANGED storeVars

\* DownloadModel: nothing is downloaded when the success file is there.
CheckSuccessFile(m, w) ==
  /\ At(m, w, "Add", "start")
  /\ Goto(m, w, IF SuccessFileExists(m, work[m][w].spec)
                  THEN "load" ELSE "download")
  /\ UNCHANGED storeVars

\* Any other error of os.Stat is only logged, and DownloadModel returns nil: the
\* load request is sent without a download, whatever the directory holds.
StatFails(m, w) ==
  /\ "stat" \in Faults
  /\ At(m, w, "Add", "start")
  /\ Goto(m, w, "unchecked")
  /\ UNCHANGED storeVars

DownloadBegins(m, w) ==
  /\ At(m, w, "Add", "download")
  /\ WriteData(m, Partial)
  /\ Goto(m, w, "downloading")

\* The provider finishes, and DownloadModel goes on to the success file.
DownloadEnds(m, w) ==
  /\ At(m, w, "Add", "downloading")
  /\ WriteData(m, work[m][w].spec)
  /\ Goto(m, w, "create")

\* Unsupported protocol, provider error, an error in mid-transfer, or a success
\* file that cannot be created: the operation ends without a load and is not
\* retried.
DownloadFails(m, w) ==
  /\ "download" \in Faults
  /\ \E s \in {"download", "downloading", "create"} : At(m, w, "Add", s)
  /\ Goto(m, w, "complete")
  /\ UNCHANGED storeVars

CreateSuccessFile(m, w) ==
  /\ At(m, w, "Add", "create")
  /\ WriteMarker(m, work[m][w].spec, "empty")
  /\ Goto(m, w, "write")

WriteSuccessFile(m, w) ==
  /\ At(m, w, "Add", "write")
  /\ WriteMarker(m, work[m][w].spec, "written")
  /\ Goto(m, w, "load")

\* errors.Wrapf(createErr, ...) wraps the nil error of the creation, so the
\* failed write is reported as success.
WriteFails(m, w) ==
  /\ "write" \in Faults
  /\ At(m, w, "Add", "write")
  /\ Goto(m, w, "load")
  /\ UNCHANGED storeVars

Load(m, w) ==
  /\ At(m, w, "Add", "load") \/ At(m, w, "Add", "unchecked")
  /\ ServerLoads(m)
  /\ Goto(m, w, "complete")

Unload(m, w) ==
  /\ At(m, w, "Remove", "unload")
  /\ ServerUnloads(m)
  /\ Goto(m, w, "complete")

\* A transport error or a status other than 200 is only logged.
RequestFails(m, w) ==
  /\ "load" \in Faults
  /\ \/ At(m, w, "Add", "load")
     \/ At(m, w, "Add", "unchecked")
     \/ At(m, w, "Remove", "unload")
  /\ Goto(m, w, "complete")
  /\ UNCHANGED storeVars

\* RemoveDir cannot open a directory that is not there: no unload is sent.
RemoveDirMissing(m, w) ==
  /\ At(m, w, "Remove", "start")
  /\ data[m] = Absent
  /\ Goto(m, w, "complete")
  /\ UNCHANGED storeVars

RemoveDirBegins(m, w) ==
  /\ At(m, w, "Remove", "start")
  /\ data[m] # Absent
  /\ RemoveSomeEntries(m)
  /\ Goto(m, w, "clear")

\* Variant: the removal ends without the unload request.
RemoveDirEndsQuietly(m, w) ==
  /\ At(m, w, "Remove", "clear")
  /\ RemoveLastEntries(m)
  /\ Goto(m, w, "complete")

RemoveDirEnds(m, w) ==
  /\ At(m, w, "Remove", "clear")
  /\ RemoveLastEntries(m)
  /\ Goto(m, w, "unload")

\* The directory cannot be read, or an entry cannot be removed: no unload.
RemoveDirFails(m, w) ==
  /\ "remove" \in Faults
  /\ At(m, w, "Remove", "start") \/ At(m, w, "Remove", "clear")
  /\ Goto(m, w, "complete")
  /\ UNCHANGED storeVars

\* p.completions <- modelOp: blocks while the channel is full.
Finish(m, w) ==
  /\ work[m][w] # NoOp
  /\ step[m][w] = "complete"
  /\ Len(completions) < CompCap
  /\ completions' = Append(completions, work[m][w])
  /\ work' = [work EXCEPT ![m][w] = NoOp]
  /\ step' = [step EXCEPT ![m][w] = "start"]
  /\ UNCHANGED <<phase, events, storeVars, chan, inFlight, modelOps, sending,
                 waitCount>>

\* One step of processOp.
ProcessOp(m, w) ==
  \/ CheckSuccessFile(m, w)
  \/ StatFails(m, w)
  \/ DownloadBegins(m, w)
  \/ DownloadEnds(m, w)
  \/ DownloadFails(m, w)
  \/ CreateSuccessFile(m, w)
  \/ WriteSuccessFile(m, w)
  \/ WriteFails(m, w)
  \/ Load(m, w)
  \/ Unload(m, w)
  \/ RequestFails(m, w)
  \/ RemoveDirMissing(m, w)
  \/ RemoveDirBegins(m, w)
  \/ RemoveDirEnds(m, w)
  \/ RemoveDirFails(m, w)

Processor(m, w) ==
  \/ Receive(m, w)
  \/ ProcessOp(m, w)
  \/ Finish(m, w)

PullerStep ==
  \/ TakeCommand
  \/ SendToProcessor
  \/ CompleteOp
  \/ \E m \in Models, w \in Workers : Processor(m, w)

Next ==
  \/ Boot
  \/ Command
  \/ StartPuller
  \/ WaitReturns
  \/ Crash
  \/ PullerStep

Spec == Init /\ [][Next]_vars

-----------------------------------------------------------------------------
(* Where the operations of a model are between enqueueModelOp and          *)
(* modelOpComplete.                                                        *)

OpsOf(seq, m) == {i \in DOMAIN seq : seq[i].model = m}
CompletedOps(m) == OpsOf(completions, m)

Busy(m, w) == modelOps[m][w] # <<>> \/ work[m][w] # NoOp

OneIf(b) == IF b THEN 1 ELSE 0

OpsWith(m, w) == Len(modelOps[m][w]) + OneIf(work[m][w] # NoOp)

\* At most one processor goroutine has work for a model: its download, load
\* and removal steps on the model's directory never interleave with those of
\* another processor, although a channel is closed and a new one made again
\* and again.
OneProcessorPerModel ==
  \A m \in Models : \A v, w \in Workers :
    Busy(m, v) /\ Busy(m, w) => v = w

\* Work is only with the processor whose channel is in channelMap, so closing
\* a channel never drops an operation.
NoOrphanedProcessor ==
  \A m \in Models, w \in Workers : Busy(m, w) => chan[m] = w

\* opsInFlight counts exactly the operations of the model that are being
\* sent, buffered, processed or waiting in completions, and the model has a
\* channel exactly while there are any; in particular modelOpComplete always
\* finds the channel it looks up.
InFlightIsOutstanding ==
  \A m \in Models :
    IF chan[m] = NoWorker
      THEN /\ inFlight[m] = 0
           /\ CompletedOps(m) = {}
           /\ sending # NoOp => sending.model # m
      ELSE /\ inFlight[m] > 0
           /\ inFlight[m] = OpsWith(m, chan[m]) + Cardinality(CompletedOps(m))
                              + OneIf(sending # NoOp /\ sending.model = m)

\* Every operation the puller has not yet completed.
Outstanding(op) ==
  \/ \E i \in DOMAIN events : events[i] = op
  \/ sending = op
  \/ \E m \in Models, w \in Workers :
       work[m][w] = op \/ \E i \in DOMAIN modelOps[m][w] : modelOps[m][w][i] = op
  \/ \E i \in DOMAIN completions : completions[i] = op

\* "The puller will wait until all models have been loaded before starting the
\* watcher": once main goes on, no startup operation is left anywhere.
StartupCompletesFirst ==
  phase = "watching" =>
    \A op \in ModelOp : Outstanding(op) => ~op.onStartup

\* A processor only ever has operations of its own model.
OpsAtHome ==
  \A m \in Models, w \in Workers :
    /\ work[m][w] # NoOp => work[m][w].model = m
    /\ \A i \in DOMAIN modelOps[m][w] : modelOps[m][w][i].model = m

\* A process that has not started its puller has nothing to process.
PullerAtRest ==
  phase \in {"down", "syncing"} =>
    /\ sending = NoOp
    /\ completions = <<>>
    /\ \A m \in Models, w \in Workers : ~Busy(m, w)
    /\ phase = "down" => events = <<>>

\* The inductive invariant behind the accounting: an operation is only
\* forgotten by opsInFlight when nothing of the model is left anywhere.
IInv == TypeOK /\ OpsAtHome /\ NoOrphanedProcessor /\ InFlightIsOutstanding

\* Where the operations of the startup are: in a channel by their index, with a
\* processor by theirs in its buffer, 0 for the one it is at.
StartupOps == {op \in ModelOp : op.onStartup}
PlacesOf(seq, S) == {i \in DOMAIN seq : seq[i] \in S}
HeldBy(m, w) ==
  {i \in {0} : work[m][w] \in StartupOps} \cup PlacesOf(modelOps[m][w], StartupOps)
HeldPlaces ==
  UNION {{<<m, w, i>> : i \in HeldBy(m, w)} : m \in Models, w \in Workers}
OutstandingStartup ==
  Cardinality(PlacesOf(events, StartupOps)) + OneIf(sending \in StartupOps)
    + Cardinality(HeldPlaces) + Cardinality(PlacesOf(completions, StartupOps))

\* The inductive invariant behind the wait: the wait group counts every startup
\* operation that is outstanding, and more if there were removals among the
\* commands.
WaitCovers ==
  /\ IsFiniteSet(HeldPlaces)
  /\ OutstandingStartup <= IF phase = "starting" THEN waitCount ELSE 0
WaitIInv == PullerAtRest /\ (Running => WaitCovers)
=============================================================================
