----------------------------- MODULE ModelEvents -----------------------------
(***************************************************************************)
(* The vocabulary shared by the two halves of the model agent              *)
(* (src/pkg/agent): the ModelOp commands, the ModelEvents channel between  *)
(* the Watcher and the Puller, and the life of the agent process           *)
(* (src/cmd/agent/main.go, startModelPuller).                              *)
(***************************************************************************)
EXTENDS Naturals, Sequences

CONSTANTS
  Models,    \* names of trained models
  Specs,     \* the values a ModelSpec (storageUri, framework, memory) can take
  NoSpec,    \* "no model": a name absent from a map, nothing loaded
  EventCap   \* capacity of the ModelEvents channel (100 in the code)

ASSUME NoSpecAssumption == NoSpec \notin Specs
ASSUME EventCapAssumption == EventCap \in Nat \ {0}

VARIABLES
  phase,     \* where main() of the agent container is
  events     \* Watcher.ModelEvents, a FIFO channel

\* "syncing"  : NewWatcher is parsing the mounted config, no consumer exists yet
\* "starting" : StartPullerAndProcessModels waits for the startup operations
\* "watching" : Watcher.Start runs, and main goes on to serve requests
Phases == {"down", "syncing", "starting", "watching"}

ModelOp ==
  [model : Models, op : {"Add"}, spec : Specs, onStartup : BOOLEAN]
    \cup [model : Models, op : {"Remove"}, spec : {NoSpec}, onStartup : {FALSE}]

AddOp(m, s, initializing) ==
  [model |-> m, op |-> "Add", spec |-> s, onStartup |-> initializing]

\* modelRemoved never sets OnStartup, whoever calls it.
RemoveOp(m) ==
  [model |-> m, op |-> "Remove", spec |-> NoSpec, onStartup |-> FALSE]

\* The commands the watcher can produce while the process is in a phase.
Commands ==
  {AddOp(m, s, phase = "syncing") : m \in Models, s \in Specs}
    \cup {RemoveOp(m) : m \in Models}

\* A channel send: blocks (is disabled) while the buffer is full.
SendEvent(op) ==
  /\ Len(events) < EventCap
  /\ events' = Append(events, op)

EventsTypeOK ==
  /\ phase \in Phases
  /\ events \in Seq(ModelOp)
=============================================================================
