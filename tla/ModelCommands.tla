---------------------------- MODULE ModelCommands ----------------------------
(***************************************************************************)
(* What the agent promises the watcher, whatever goroutines and channels   *)
(* carry the commands: those of one model take effect one at a time and in *)
(* the order they were issued, and the models do not wait for each other.  *)
(* What it does not promise is that a load after a failed check of the     *)
(* model's directory loads what the command asks for.                      *)
(***************************************************************************)
EXTENDS Sequences

CONSTANTS
  Models,
  Specs,
  NoSpec,
  Contents   \* what a model directory may hold, complete or not

VARIABLES
  pending,   \* [Models -> the commands issued and not yet carried out]
  unchecked, \* the models whose oldest command loads without a check
  served     \* [Models -> what the model server has loaded]

commandVars == <<pending, unchecked, served>>

\* A command is the spec to load, or NoSpec to unload.
Effects == Specs \cup {NoSpec}

Init ==
  /\ pending = [m \in Models |-> <<>>]
  /\ unchecked = {}
  /\ served = [m \in Models |-> NoSpec]

\* A new model, a removed model, or a replacement.
Issue(m) ==
  /\ \E s \in Specs : \E cmds \in {<<s>>, <<NoSpec>>, <<NoSpec, s>>} :
       pending' = [pending EXCEPT ![m] = @ \o cmds]
  /\ UNCHANGED <<unchecked, served>>

Apply(m) ==
  /\ pending[m] # <<>>
  /\ m \notin unchecked
  /\ pending' = [pending EXCEPT ![m] = Tail(@)]
  /\ served' = [served EXCEPT ![m] = Head(pending[m])]
  /\ UNCHANGED unchecked

\* The directory cannot be checked for the oldest command, which is a load.
CheckFails(m) ==
  /\ pending[m] # <<>>
  /\ Head(pending[m]) # NoSpec
  /\ m \notin unchecked
  /\ unchecked' = unchecked \cup {m}
  /\ UNCHANGED <<pending, served>>

\* It is a load all the same, of whatever is there.
ApplyUnchecked(m) ==
  /\ pending[m] # <<>>
  /\ m \in unchecked
  /\ unchecked' = unchecked \ {m}
  /\ pending' = [pending EXCEPT ![m] = Tail(@)]
  /\ \E c \in Contents : served' = [served EXCEPT ![m] = c]

\* A command that fails is given up, and the next one is taken.
GiveUp(m) ==
  /\ pending[m] # <<>>
  /\ pending' = [pending EXCEPT ![m] = Tail(@)]
  /\ unchecked' = unchecked \ {m}
  /\ UNCHANGED served

\* A restart of the agent forgets the commands of every model.
Forget ==
  /\ pending' = [m \in Models |-> <<>>]
  /\ unchecked' = {}
  /\ UNCHANGED served

ReliableNext == \E m \in Models : Issue(m) \/ Apply(m)

Next ==
  \/ ReliableNext
  \/ Forget
  \/ \E m \in Models : GiveUp(m) \/ CheckFails(m) \/ ApplyUnchecked(m)

\* Every command takes effect.
ReliableSpec == Init /\ [][ReliableNext]_commandVars

\* Every command takes effect, is given up, or is a load without a check.
Spec == Init /\ [][Next]_commandVars
=============================================================================
