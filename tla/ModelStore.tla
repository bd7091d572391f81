----------------------------- MODULE ModelStore ------------------------------
(***************************************************************************)
(* What survives a restart of the agent: the model directory it shares     *)
(* with the model server (src/pkg/agent/downloader.go, storage/utils.go,   *)
(* syncer.go) and the models the server container has loaded.              *)
(*                                                                         *)
(* The directory of a model is abstracted to what its files amount to (a   *)
(* complete copy of one spec's artifact, or less), and its SUCCESS.<sha>   *)
(* files to one marker per spec: missing, created but still empty, or      *)
(* holding the encoded spec.                                               *)
(***************************************************************************)
EXTENDS ModelEvents

VARIABLES
  data,      \* [Models -> content of ModelDir/<model>]
  marker,    \* [Models -> [Specs -> state of SUCCESS.<sha of the spec>]]
  served     \* [Models -> content the model server loaded last, or NoSpec]

storeVars == <<data, marker, served>>

Absent  == "absent"    \* no directory
Partial == "partial"   \* a download that has not finished
Torn    == "torn"      \* a removal that has deleted some of the files

ASSUME ContentAssumption ==
  {Absent, Partial, Torn} \cap (Specs \cup {NoSpec}) = {}

Contents == Specs \cup {Absent, Partial, Torn}
MarkerStates == {"none", "empty", "written"}
NoMarkers == [s \in Specs |-> "none"]

StoreTypeOK ==
  /\ data \in [Models -> Contents]
  /\ marker \in [Models -> [Specs -> MarkerStates]]
  /\ served \in [Models -> Contents \cup {NoSpec}]

StoreInit ==
  /\ data = [m \in Models |-> Absent]
  /\ marker = [m \in Models |-> NoMarkers]
  /\ served = [m \in Models |-> NoSpec]

-----------------------------------------------------------------------------
\* os.Stat of the success file: an empty file exists too.
SuccessFileExists(m, s) == marker[m][s] # "none"

WriteData(m, c) ==
  /\ data' = [data EXCEPT ![m] = c]
  /\ UNCHANGED <<marker, served>>

WriteMarker(m, s, c) ==
  /\ marker' = [marker EXCEPT ![m][s] = c]
  /\ UNCHANGED <<data, served>>

\* RemoveDir deletes the entries in directory order, whatever it is: a crash
\* or an error in the middle leaves either the markers or the artifact behind.
RemoveSomeEntries(m) ==
  \/ WriteData(m, Torn)
  \/ /\ marker' = [marker EXCEPT ![m] = NoMarkers]
     /\ UNCHANGED <<data, served>>

RemoveLastEntries(m) ==
  /\ data' = [data EXCEPT ![m] = Absent]
  /\ marker' = [marker EXCEPT ![m] = NoMarkers]
  /\ UNCHANGED served

\* POST /v2/repository/models/<m>/load and /unload answered with 200.
ServerLoads(m) ==
  /\ served' = [served EXCEPT ![m] = data[m]]
  /\ UNCHANGED <<data, marker>>

ServerUnloads(m) ==
  /\ served' = [served EXCEPT ![m] = NoSpec]
  /\ UNCHANGED <<data, marker>>

-----------------------------------------------------------------------------
\* SyncModelDir. A success file that does not hold a spec (it is empty) makes
\* the walk fail, and the tracker that is returned is a nil map.
SyncModelDirFails ==
  \E m \in Models, s \in Specs : marker[m][s] = "empty"

\* The spec recovered for a model; with several success files the walk keeps
\* the last one in the order of their hashes.
Recovered(m) ==
  LET found == {s \in Specs : marker[m][s] = "written"}
  IN  IF found = {} THEN {NoSpec} ELSE found
=============================================================================
