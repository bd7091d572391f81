------------------------------- MODULE Watcher -------------------------------
(***************************************************************************)
(* src/pkg/agent/watcher.go: the watcher reads models.json from the mount  *)
(* of the model ConfigMap, compares it with its ModelTracker and sends     *)
(* add and remove commands to the ModelEvents channel.                     *)
(***************************************************************************)
EXTENDS ModelEvents

CONSTANTS MaxChanges    \* bound on the updates of the ConfigMap

ASSUME ChangesAssumption == MaxChanges \in Nat

VARIABLES
  config,     \* models.json as the kubelet projects it: [Models -> Specs or NoSpec]
  changes,    \* how often it has been updated
  notified,   \* fsnotify events for a new ..data link, not yet received
  snapshot,   \* the content that the last syncModelConfig read
  tracker,    \* ModelTracker, the Spec fields (NoSpec: no entry)
  stale,      \* ModelTracker, the stale fields
  nilTracker, \* ModelTracker is a nil map
  parse,      \* where parseConfig is
  unseen,     \* the models its current loop has still to visit
  outbox      \* commands of the model just visited, still to be sent

trackerVars == <<tracker, stale, nilTracker>>
watcherVars == <<config, changes, notified, snapshot, trackerVars, parse, unseen, outbox>>

Configs == [Models -> Specs \cup {NoSpec}]
InConfig(c) == {m \in Models : c[m] # NoSpec}

WatcherTypeOK ==
  /\ config \in Configs
  /\ changes \in 0..MaxChanges
  /\ notified \in 0..MaxChanges
  /\ snapshot \in Configs
  /\ tracker \in Configs
  /\ stale \in [Models -> BOOLEAN]
  /\ nilTracker \in BOOLEAN
  /\ parse \in {"idle", "mark", "sweep"}
  /\ unseen \in SUBSET Models
  /\ outbox \in Seq(ModelOp)

NoConfig == [m \in Models |-> NoSpec]

\* Any configuration may be mounted when the pod starts.
WatcherInit ==
  /\ config \in Configs
  /\ changes = 0
  /\ notified = 0
  /\ snapshot = NoConfig
  /\ tracker = NoConfig
  /\ stale = [m \in Models |-> FALSE]
  /\ nilTracker = FALSE
  /\ parse = "idle"
  /\ unseen = {}
  /\ outbox = <<>>

\* The process dies, and what the watcher holds in memory with it.
ForgetWatcher ==
  /\ notified' = 0
  /\ snapshot' = NoConfig
  /\ tracker' = NoConfig
  /\ stale' = [m \in Models |-> FALSE]
  /\ nilTracker' = FALSE
  /\ parse' = "idle"
  /\ unseen' = {}
  /\ outbox' = <<>>

-----------------------------------------------------------------------------
\* The ConfigMap is updated and the kubelet swaps the ..data link. inotify
\* reports it only to a process that has added its watch.
ConfigUpdate ==
  /\ changes < MaxChanges
  /\ changes' = changes + 1
  /\ config' \in Configs \ {config}
  /\ notified' = IF phase = "watching" THEN notified + 1 ELSE notified
  /\ UNCHANGED <<phase, events, snapshot, trackerVars, parse, unseen, outbox>>

\* syncModelConfig: read the whole file, then begin parseConfig.
ReadConfig ==
  /\ snapshot' = config
  /\ unseen' = InConfig(config)
  /\ parse' = "mark"

\* The goroutine of Start receives the event of a new ..data link.
ReceiveNotification ==
  /\ phase = "watching"
  /\ parse = "idle"
  /\ notified > 0
  /\ notified' = notified - 1
  /\ ReadConfig
  /\ UNCHANGED <<phase, events, config, changes, trackerVars, outbox>>

\* Variant: a changed model is added over the old one, without a removal.
MarkModelAddsOnly(m) ==
  /\ parse = "mark"
  /\ outbox = <<>>
  /\ ~nilTracker
  /\ m \in unseen
  /\ unseen' = unseen \ {m}
  /\ stale' = [stale EXCEPT ![m] = FALSE]
  /\ tracker' = [tracker EXCEPT ![m] = snapshot[m]]
  /\ outbox' = IF tracker[m] = snapshot[m] THEN outbox
               ELSE <<AddOp(m, snapshot[m], phase = "syncing")>>
  /\ UNCHANGED <<phase, events, config, changes, notified, snapshot, nilTracker, parse>>

\* Variant: a changed model is added first and removed then.
MarkModelSwapped(m) ==
  /\ parse = "mark"
  /\ outbox = <<>>
  /\ ~nilTracker
  /\ m \in unseen
  /\ unseen' = unseen \ {m}
  /\ stale' = [stale EXCEPT ![m] = FALSE]
  /\ tracker' = [tracker EXCEPT ![m] = snapshot[m]]
  /\ LET add == AddOp(m, snapshot[m], phase = "syncing")
     IN  outbox' = IF tracker[m] = snapshot[m] THEN outbox
                   ELSE IF tracker[m] = NoSpec THEN <<add>>
                   ELSE <<add, RemoveOp(m)>>
  /\ UNCHANGED <<phase, events, config, changes, notified, snapshot, nilTracker, parse>>

\* parseConfig, first loop. A model whose spec changed keeps the spec it had in
\* the tracker.
MarkModel(m) ==
  /\ parse = "mark"
  /\ outbox = <<>>
  /\ ~nilTracker
  /\ m \in unseen
  /\ unseen' = unseen \ {m}
  /\ stale' = [stale EXCEPT ![m] = FALSE]
  /\ LET initializing == phase = "syncing"
     IN  \/ /\ tracker[m] = NoSpec
            /\ tracker' = [tracker EXCEPT ![m] = snapshot[m]]
            /\ outbox' = <<AddOp(m, snapshot[m], initializing)>>
         \/ /\ tracker[m] \notin {NoSpec, snapshot[m]}
            /\ outbox' = <<RemoveOp(m), AddOp(m, snapshot[m], initializing)>>
            /\ UNCHANGED tracker
         \/ /\ tracker[m] = snapshot[m]
            /\ UNCHANGED <<tracker, outbox>>
  /\ UNCHANGED <<phase, events, config, changes, notified, snapshot, nilTracker, parse>>

StartSweep ==
  /\ parse = "mark"
  /\ outbox = <<>>
  /\ unseen = {}
  /\ parse' = "sweep"
  /\ unseen' = InConfig(tracker)
  /\ UNCHANGED <<phase, events, config, changes, notified, snapshot, trackerVars, outbox>>

\* Variant: the models that stay are not made stale for the next call.
SweepModelOnce(m) ==
  /\ parse = "sweep"
  /\ outbox = <<>>
  /\ m \in unseen
  /\ unseen' = unseen \ {m}
  /\ IF stale[m]
       THEN /\ tracker' = [tracker EXCEPT ![m] = NoSpec]
            /\ outbox' = <<RemoveOp(m)>>
            /\ stale' = [stale EXCEPT ![m] = FALSE]
       ELSE UNCHANGED <<tracker, outbox, stale>>
  /\ UNCHANGED <<phase, events, config, changes, notified, snapshot, nilTracker, parse>>

\* parseConfig, second loop: drop what was not marked, and make everything
\* else stale for the next call.
SweepModel(m) ==
  /\ parse = "sweep"
  /\ outbox = <<>>
  /\ m \in unseen
  /\ unseen' = unseen \ {m}
  /\ \/ /\ stale[m]
        /\ tracker' = [tracker EXCEPT ![m] = NoSpec]
        /\ outbox' = <<RemoveOp(m)>>
        /\ stale' = [stale EXCEPT ![m] = FALSE]
     \/ /\ ~stale[m]
        /\ stale' = [stale EXCEPT ![m] = TRUE]
        /\ UNCHANGED <<tracker, outbox>>
  /\ UNCHANGED <<phase, events, config, changes, notified, snapshot, nilTracker, parse>>

EndSync ==
  /\ parse = "sweep"
  /\ outbox = <<>>
  /\ unseen = {}
  /\ parse' = "idle"
  /\ UNCHANGED <<phase, events, config, changes, notified, snapshot, trackerVars,
                 unseen, outbox>>

\* w.ModelEvents <- op: blocks while the channel is full.
SendCommand ==
  /\ outbox # <<>>
  /\ SendEvent(Head(outbox))
  /\ outbox' = Tail(outbox)
  /\ UNCHANGED <<phase, config, changes, notified, snapshot, trackerVars, parse, unseen>>

\* Writing to a nil map panics, in NewWatcher as in the goroutine of Start.
Panics == parse = "mark" /\ nilTracker /\ unseen # {}

ParseStep ==
  \/ StartSweep
  \/ EndSync
  \/ SendCommand
  \/ \E m \in Models : MarkModel(m) \/ SweepModel(m)

-----------------------------------------------------------------------------
(* The inductive invariant of the watcher.                                 *)

Marked == InConfig(snapshot) \ unseen

\* How far mark and sweep are: in the first loop exactly the models it has met
\* are tracked and not stale; in the second one the models it has still to visit
\* are stale unless they are wanted, and those it has visited are wanted and stale
\* for the next call. Between two calls the tracker has the models of the
\* configuration, all stale.
ParseRight ==
  CASE parse = "mark" ->
         /\ unseen \subseteq InConfig(snapshot)
         /\ \A m \in Marked : tracker[m] # NoSpec /\ ~stale[m]
         /\ \A m \in InConfig(tracker) \ Marked : stale[m]
    [] parse = "sweep" ->
         /\ InConfig(snapshot) \cup unseen \subseteq InConfig(tracker)
         /\ \A m \in unseen : stale[m] <=> m \notin InConfig(snapshot)
         /\ \A m \in InConfig(tracker) \ unseen : m \in InConfig(snapshot) /\ stale[m]
    [] OTHER ->
         /\ phase # "down" => InConfig(tracker) = InConfig(snapshot)
         /\ \A m \in InConfig(tracker) : stale[m]

\* The watcher runs before the puller, or after the wait for the startup
\* operations, and what it sends are commands of the phase it is in.
WatcherIInv ==
  /\ WatcherTypeOK
  /\ notified <= changes
  /\ parse # "idle" => phase \in {"syncing", "watching"}
  /\ parse = "idle" => outbox = <<>>
  /\ \A i \in DOMAIN outbox : outbox[i] \in Commands
  /\ ParseRight
=============================================================================
