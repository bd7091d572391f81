----------------------------- MODULE AgentProofs -----------------------------
(***************************************************************************)
(* Theorems about the agent container, for any models, specs, processors,  *)
(* requests, workers and sizes, any number of updates and kills.           *)
(*                                                                         *)
(* The model agent. First the puller fed with any commands: the accounting *)
(* of opsInFlight, one processor per model, the wait for the startup. Then *)
(* the agent, whose watcher does nothing the puller was not proved to bear *)
(* and whose tracker follows the configuration; the files: what the        *)
(* success files say and what the model server has loaded; and the promise *)
(* to the watcher, that its commands take effect in their order.           *)
(*                                                                         *)
(* The handlers. The batcher: every caller gets the predictions of its own *)
(* instances or a message, and the limits of size and latency are kept.    *)
(* The logger, with the batcher below it: entries are conserved.           *)
(***************************************************************************)
EXTENDS ModelAgent, AgentServer, FiniteSetTheorems, SequenceTheorems,
        WellFoundedInduction, TLAPS

-----------------------------------------------------------------------------
(* Counting the operations in a channel that belong to a set.              *)

\* There are finitely many, at most as many as the channel holds.
LEMMA PlacesFinite ==
  ASSUME NEW seq \in Seq(ModelOp), NEW S
  PROVE  /\ IsFiniteSet(PlacesOf(seq, S))
         /\ Cardinality(PlacesOf(seq, S)) \in Nat
         /\ Cardinality(PlacesOf(seq, S)) <= Len(seq)
         /\ Cardinality(PlacesOf(seq, S)) = 0 <=> PlacesOf(seq, S) = {}
<1> DEFINE P == PlacesOf(seq, S)
<1>1. DOMAIN seq = 1..Len(seq) /\ Len(seq) \in Nat
  BY LenProperties
<1>2. IsFiniteSet(1..Len(seq)) /\ Cardinality(1..Len(seq)) = Len(seq)
  BY <1>1, FS_Interval
<1>3. P \in SUBSET (1..Len(seq))
  BY <1>1 DEF PlacesOf
<1> HIDE DEF P
<1>4. IsFiniteSet(P) /\ Cardinality(P) <= Cardinality(1..Len(seq))
  BY <1>2, <1>3, FS_Subset
<1>5. Cardinality(P) \in Nat /\ (Cardinality(P) = 0 <=> P = {})
  BY <1>4, FS_CardinalityType, FS_EmptySet
<1> QED
  BY <1>2, <1>4, <1>5 DEF P

\* An operation sent to the channel is at its end, and counts if it belongs.
LEMMA PlacesAppend ==
  ASSUME NEW seq \in Seq(ModelOp), NEW op \in ModelOp, NEW S
  PROVE  /\ PlacesOf(Append(seq, op), S) =
              IF op \in S THEN PlacesOf(seq, S) \cup {Len(seq) + 1} ELSE PlacesOf(seq, S)
         /\ Len(seq) + 1 \notin PlacesOf(seq, S)
         /\ Cardinality(PlacesOf(Append(seq, op), S)) =
              Cardinality(PlacesOf(seq, S)) + OneIf(op \in S)
<1> DEFINE n == Len(seq) + 1
<1>1. /\ DOMAIN seq = 1..Len(seq)
      /\ Len(seq) \in Nat
      /\ DOMAIN Append(seq, op) = 1..n
      /\ \A i \in 1..Len(seq) : Append(seq, op)[i] = seq[i]
      /\ Append(seq, op)[n] = op
  BY LenProperties
<1>2. n \notin PlacesOf(seq, S)
  BY <1>1 DEF PlacesOf
<1>3. IsFiniteSet(PlacesOf(seq, S)) /\ Cardinality(PlacesOf(seq, S)) \in Nat
  BY PlacesFinite
<1>4. CASE op \in S
  <2>1. PlacesOf(Append(seq, op), S) = PlacesOf(seq, S) \cup {n}
    BY <1>1, <1>4 DEF PlacesOf
  <2> QED
    BY <1>2, <1>3, <1>4, <2>1, FS_AddElement DEF OneIf
<1>5. CASE op \notin S
  <2>1. PlacesOf(Append(seq, op), S) = PlacesOf(seq, S)
    BY <1>1, <1>5 DEF PlacesOf
  <2> QED
    BY <1>2, <1>3, <1>5, <2>1 DEF OneIf
<1> QED
  BY <1>4, <1>5

\* An operation received from it moves the others by one place.
LEMMA PlacesTail ==
  ASSUME NEW seq \in Seq(ModelOp), seq # <<>>, NEW S
  PROVE  /\ \A i : i \in PlacesOf(Tail(seq), S) <=> i \in Nat \ {0} /\ i + 1 \in PlacesOf(seq, S)
         /\ PlacesOf(seq, S) \subseteq Nat \ {0}
         /\ 1 \in PlacesOf(seq, S) <=> Head(seq) \in S
         /\ Cardinality(PlacesOf(seq, S)) =
              Cardinality(PlacesOf(Tail(seq), S)) + OneIf(Head(seq) \in S)
<1> DEFINE A == PlacesOf(Tail(seq), S)
           B == PlacesOf(seq, S) \ {1}
           f == [i \in A |-> i + 1]
<1>1. /\ DOMAIN seq = 1..Len(seq)
      /\ Len(seq) \in Nat \ {0}
      /\ Head(seq) = seq[1]
  BY LenProperties, EmptySeq
<1>2. /\ Tail(seq) \in Seq(ModelOp)
      /\ DOMAIN Tail(seq) = 1..(Len(seq) - 1)
      /\ \A i \in 1..(Len(seq) - 1) : Tail(seq)[i] = seq[i + 1]
  BY <1>1, HeadTailProperties, LenProperties
<1>3. A \subseteq 1..(Len(seq) - 1)
  BY <1>2 DEF PlacesOf
<1>4. B \subseteq 2..Len(seq)
  BY <1>1 DEF PlacesOf
<1>5. \A i \in A : i + 1 \in B
  BY <1>1, <1>2, <1>3 DEF PlacesOf
<1>6. \A j \in B : j - 1 \in A
  BY <1>1, <1>2, <1>4 DEF PlacesOf
<1>7. f \in Bijection(A, B)
  <2>1. f \in [A -> B]
    BY <1>5
  <2>2. \A i, j \in A : f[i] = f[j] => i = j
    BY <1>3
  <2>3. \A j \in B : f[j - 1] = j
    BY <1>4, <1>6
  <2> QED
    BY <1>6, <2>1, <2>2, <2>3 DEF Bijection, Injection, Surjection, IsInjective
<1>8. Cardinality(A) = Cardinality(B)
  BY <1>2, <1>7, PlacesFinite, FS_Bijection DEF ExistsBijection
<1>9. 1 \in PlacesOf(seq, S) <=> Head(seq) \in S
  BY <1>1 DEF PlacesOf
<1>10. PlacesOf(seq, S) \subseteq Nat \ {0}
  BY <1>1 DEF PlacesOf
<1>11. \A i : i \in A <=> i \in Nat \ {0} /\ i + 1 \in PlacesOf(seq, S)
  <2>1. \A i \in A : i \in Nat \ {0}
    BY <1>1, <1>3
  <2>2. \A i \in Nat \ {0} : i + 1 \in PlacesOf(seq, S) => i \in A
    BY <1>6
  <2> QED
    BY <1>5, <2>1, <2>2
<1> HIDE DEF A, B
<1>12. Cardinality(B) = IF 1 \in PlacesOf(seq, S) THEN Cardinality(PlacesOf(seq, S)) - 1
                        ELSE Cardinality(PlacesOf(seq, S))
  BY PlacesFinite, FS_RemoveElement DEF B
<1>13. Cardinality(PlacesOf(seq, S)) \in Nat
  BY PlacesFinite
<1> QED
  BY <1>8, <1>9, <1>10, <1>11, <1>12, <1>13 DEF OneIf, A

-----------------------------------------------------------------------------
(* Those of a model.                                                       *)

OpsFor(m) == {op \in ModelOp : op.model = m}

LEMMA OpsOfPlaces ==
  ASSUME NEW seq \in Seq(ModelOp), NEW m
  PROVE  OpsOf(seq, m) = PlacesOf(seq, OpsFor(m))
<1>1. \A i \in DOMAIN seq : seq[i] \in ModelOp
  BY ElementOfSeq, LenProperties
<1> QED
  BY <1>1 DEF OpsOf, PlacesOf, OpsFor

\* A channel holds finitely many operations of a model.
LEMMA OpsOfFinite ==
  ASSUME NEW seq \in Seq(ModelOp), NEW m
  PROVE  /\ IsFiniteSet(OpsOf(seq, m))
         /\ Cardinality(OpsOf(seq, m)) \in Nat
         /\ Cardinality(OpsOf(seq, m)) = 0 <=> OpsOf(seq, m) = {}
BY OpsOfPlaces, PlacesFinite

\* Sending an operation to a channel adds one to the count of its model.
LEMMA OpsOfAppend ==
  ASSUME NEW seq \in Seq(ModelOp), NEW op \in ModelOp, NEW m
  PROVE  Cardinality(OpsOf(Append(seq, op), m)) =
           Cardinality(OpsOf(seq, m)) + OneIf(op.model = m)
<1>1. Append(seq, op) \in Seq(ModelOp)
  OBVIOUS
<1>2. OneIf(op \in OpsFor(m)) = OneIf(op.model = m)
  BY DEF OpsFor, OneIf
<1>3. /\ OpsOf(seq, m) = PlacesOf(seq, OpsFor(m))
      /\ OpsOf(Append(seq, op), m) = PlacesOf(Append(seq, op), OpsFor(m))
  BY <1>1, OpsOfPlaces
<1>4. Cardinality(PlacesOf(Append(seq, op), OpsFor(m))) =
        Cardinality(PlacesOf(seq, OpsFor(m))) + OneIf(op \in OpsFor(m))
  BY PlacesAppend
<1> QED
  BY <1>2, <1>3, <1>4

\* Receiving one takes one from it.
LEMMA OpsOfTail ==
  ASSUME NEW seq \in Seq(ModelOp), seq # <<>>, NEW m
  PROVE  Cardinality(OpsOf(seq, m)) =
           Cardinality(OpsOf(Tail(seq), m)) + OneIf(Head(seq).model = m)
<1>1. Tail(seq) \in Seq(ModelOp) /\ Head(seq) \in ModelOp
  BY HeadTailProperties
<1>2. OneIf(Head(seq) \in OpsFor(m)) = OneIf(Head(seq).model = m)
  BY <1>1 DEF OpsFor, OneIf
<1>3. /\ OpsOf(seq, m) = PlacesOf(seq, OpsFor(m))
      /\ OpsOf(Tail(seq), m) = PlacesOf(Tail(seq), OpsFor(m))
  BY <1>1, OpsOfPlaces
<1>4. Cardinality(PlacesOf(seq, OpsFor(m))) =
        Cardinality(PlacesOf(Tail(seq), OpsFor(m))) + OneIf(Head(seq) \in OpsFor(m))
  BY PlacesTail
<1> QED
  BY <1>2, <1>3, <1>4

-----------------------------------------------------------------------------
(* The inductive invariant.                                                *)

USE DEF EventsTypeOK, StoreTypeOK

\* A puller that has not been started has nothing in flight.
LEMMA InitIInv == Init => IInv
<1> SUFFICES ASSUME Init PROVE IInv
  OBVIOUS
<1>1. TypeOK
  BY EmptySeq DEF Init, StoreInit, PullerInit, TypeOK, Phases, Contents, NoMarkers,
     MarkerStates, Steps
<1>2. NoOrphanedProcessor
  BY DEF Init, PullerInit, NoOrphanedProcessor, Busy
<1>3. InFlightIsOutstanding
  <2>1. \A m : OpsOf(<<>>, m) = {}
    BY EmptySeq DEF OpsOf
  <2> QED
    BY <2>1 DEF Init, PullerInit, InFlightIsOutstanding, CompletedOps
<1>4. OpsAtHome
  BY EmptySeq DEF Init, PullerInit, OpsAtHome
<1> QED
  BY <1>1, <1>2, <1>3, <1>4 DEF IInv

\* A step of processOp leaves channels, counters and buffers alone.
ProcessorMoves(m, w) ==
  /\ \E s \in Steps : step' = [step EXCEPT ![m][w] = s]
  /\ UNCHANGED <<phase, events, chan, inFlight, modelOps, work, completions,
                 sending, waitCount>>

\* Every branch of processOp is such a step.
LEMMA ProcessOpMoves ==
  ASSUME NEW m, NEW w, ProcessOp(m, w)
  PROVE  ProcessorMoves(m, w)
<1> USE DEF ProcessorMoves, Goto, Steps
<1>0. CASE StatFails(m, w) BY <1>0 DEF StatFails
<1>1. CASE CheckSuccessFile(m, w) BY <1>1 DEF CheckSuccessFile
<1>2. CASE DownloadBegins(m, w) BY <1>2 DEF DownloadBegins
<1>3. CASE DownloadEnds(m, w) BY <1>3 DEF DownloadEnds
<1>4. CASE DownloadFails(m, w) BY <1>4 DEF DownloadFails
<1>5. CASE CreateSuccessFile(m, w) BY <1>5 DEF CreateSuccessFile
<1>6. CASE WriteSuccessFile(m, w) BY <1>6 DEF WriteSuccessFile
<1>7. CASE WriteFails(m, w) BY <1>7 DEF WriteFails
<1>8. CASE Load(m, w) BY <1>8 DEF Load
<1>9. CASE Unload(m, w) BY <1>9 DEF Unload
<1>10. CASE RequestFails(m, w) BY <1>10 DEF RequestFails
<1>11. CASE RemoveDirMissing(m, w) BY <1>11 DEF RemoveDirMissing
<1>12. CASE RemoveDirBegins(m, w) BY <1>12 DEF RemoveDirBegins
<1>13. CASE RemoveDirEnds(m, w) BY <1>13 DEF RemoveDirEnds
<1>14. CASE RemoveDirFails(m, w) BY <1>14 DEF RemoveDirFails
<1> QED
  BY <1>0, <1>1, <1>2, <1>3, <1>4, <1>5, <1>6, <1>7, <1>8, <1>9, <1>10, <1>11, <1>12,
     <1>13, <1>14 DEF ProcessOp

\* What a step of processOp writes to the model directory is well formed.
LEMMA ProcessOpStore ==
  ASSUME TypeOK, NEW m \in Models, NEW w \in Workers, ProcessOp(m, w)
  PROVE  StoreTypeOK'
<1> USE DEF TypeOK, Contents, MarkerStates, storeVars
<1>1. At(m, w, "Add", "start") \/ At(m, w, "Add", "downloading")
        \/ At(m, w, "Add", "create") \/ At(m, w, "Add", "write")
        => work[m][w].spec \in Specs
  <2>1. work[m][w] \in ModelOp \cup {NoOp}
    OBVIOUS
  <2>2. \A op \in ModelOp : op.op = "Add" => op.spec \in Specs
    BY DEF ModelOp
  <2> QED
    BY <2>1, <2>2 DEF At
<1>2. CASE UNCHANGED storeVars
  BY <1>2
<1>3. CASE DownloadBegins(m, w)
  BY <1>3 DEF DownloadBegins, WriteData
<1>4. CASE DownloadEnds(m, w)
  BY <1>1, <1>4 DEF DownloadEnds, WriteData
<1>5. CASE CreateSuccessFile(m, w)
  BY <1>1, <1>5 DEF CreateSuccessFile, WriteMarker
<1>6. CASE WriteSuccessFile(m, w)
  BY <1>1, <1>6 DEF WriteSuccessFile, WriteMarker
<1>7. CASE Load(m, w)
  BY <1>7 DEF Load, ServerLoads
<1>8. CASE Unload(m, w)
  BY <1>8 DEF Unload, ServerUnloads
<1>9. CASE RemoveDirBegins(m, w)
  <2>1. CASE WriteData(m, Torn)
    BY <2>1 DEF WriteData
  <2>2. CASE marker' = [marker EXCEPT ![m] = NoMarkers] /\ UNCHANGED <<data, served>>
    <3>1. NoMarkers \in [Specs -> MarkerStates]
      BY DEF NoMarkers
    <3> QED
      BY <2>2, <3>1
  <2> QED
    BY <1>9, <2>1, <2>2 DEF RemoveDirBegins, RemoveSomeEntries
<1>10. CASE RemoveDirEnds(m, w)
  BY <1>10 DEF RemoveDirEnds, RemoveLastEntries, NoMarkers
<1> HIDE DEF TypeOK, StoreTypeOK, Contents, MarkerStates, storeVars
<1> QED
  BY <1>2, <1>3, <1>4, <1>5, <1>6, <1>7, <1>8, <1>9, <1>10 DEF ProcessOp,
     CheckSuccessFile, StatFails, DownloadFails, WriteFails, RequestFails, RemoveDirMissing,
     RemoveDirFails

-----------------------------------------------------------------------------
(* Each action preserves the inductive invariant.                          *)

\* The number of operations of m between enqueueModelOp and modelOpComplete.
Total(m) ==
  OpsWith(m, chan[m]) + Cardinality(CompletedOps(m))
    + OneIf(sending # NoOp /\ sending.model = m)

\* The parts of that sum are naturals, and zero when there is nothing to count.
LEMMA OpsWithType ==
  ASSUME TypeOK, NEW m \in Models, NEW w \in Workers
  PROVE  /\ OpsWith(m, w) \in Nat
         /\ OpsWith(m, w) = 0 <=> ~Busy(m, w)
         /\ Cardinality(CompletedOps(m)) \in Nat
         /\ Cardinality(CompletedOps(m)) = 0 <=> CompletedOps(m) = {}
<1>1. modelOps[m][w] \in Seq(ModelOp) /\ completions \in Seq(ModelOp)
  BY DEF TypeOK
<1>2. Len(modelOps[m][w]) \in Nat /\ (Len(modelOps[m][w]) = 0 <=> modelOps[m][w] = <<>>)
  BY <1>1, EmptySeq, LenProperties
<1>3. CASE work[m][w] = NoOp
  <2>1. OpsWith(m, w) = Len(modelOps[m][w])
    BY <1>2, <1>3 DEF OpsWith, OneIf
  <2> QED
    BY <1>1, <1>2, <1>3, <2>1, OpsOfFinite DEF Busy, CompletedOps
<1>4. CASE work[m][w] # NoOp
  <2>1. OpsWith(m, w) = Len(modelOps[m][w]) + 1
    BY <1>4 DEF OpsWith, OneIf
  <2> QED
    BY <1>1, <1>2, <1>4, <2>1, OpsOfFinite DEF Busy, CompletedOps
<1> QED
  BY <1>3, <1>4

\* The commands of the puller's environment.
LEMMA CommandsAreOps == Commands \subseteq ModelOp
<1>1. ASSUME NEW m \in Models
      PROVE  RemoveOp(m) \in ModelOp
  BY DEF ModelOp, RemoveOp
<1>2. ASSUME NEW m \in Models, NEW s \in Specs
      PROVE  AddOp(m, s, phase = "syncing") \in ModelOp
  <2> DEFINE b == phase = "syncing"
  <2>1. b \in BOOLEAN
    OBVIOUS
  <2> HIDE DEF b
  <2>2. AddOp(m, s, b) \in ModelOp
    BY <2>1 DEF ModelOp, AddOp
  <2> QED
    BY <2>2 DEF b
<1>3. ASSUME NEW c \in Commands
      PROVE  \/ \E m \in Models, s \in Specs : c = AddOp(m, s, phase = "syncing")
             \/ \E m \in Models : c = RemoveOp(m)
  BY DEF Commands
<1> QED
  BY <1>1, <1>2, <1>3

\* Boot, StartPuller and WaitReturns only touch phase and waitCount; Command
\* only the channel of commands.
LEMMA LifeCycleIInv ==
  ASSUME IInv, Boot \/ Command \/ StartPuller \/ WaitReturns
  PROVE  IInv'
<1> USE DEF IInv
<1>1. /\ UNCHANGED <<storeVars, chan, inFlight, modelOps, work, step, completions,
                    sending>>
      /\ phase' \in Phases
      /\ events' \in Seq(ModelOp)
      /\ waitCount' \in Int
  <2>1. CASE Boot
    BY <2>1 DEF Boot, TypeOK, Phases, pullerVars
  <2>2. CASE Command
    BY <2>2, CommandsAreOps DEF Command, SendEvent, TypeOK, pullerVars
  <2>3. CASE StartPuller
    BY <2>3, LenProperties DEF StartPuller, TypeOK, Phases
  <2>4. CASE WaitReturns
    BY <2>4 DEF WaitReturns, TypeOK, Phases, pullerVars
  <2> QED
    BY <2>1, <2>2, <2>3, <2>4
<1>2. TypeOK'
  BY <1>1 DEF TypeOK, storeVars
<1>3. NoOrphanedProcessor'
  BY <1>1 DEF NoOrphanedProcessor, Busy
<1>4. InFlightIsOutstanding'
  BY <1>1 DEF InFlightIsOutstanding, OpsWith, CompletedOps
<1>5. OpsAtHome'
  BY <1>1 DEF OpsAtHome
<1> QED
  BY <1>2, <1>3, <1>4, <1>5

\* A killed agent forgets its operations and their count together.
LEMMA CrashIInv ==
  ASSUME IInv, Crash
  PROVE  IInv'
<1>1. TypeOK'
  <2>1. StoreTypeOK'
    BY DEF IInv, Crash, TypeOK, storeVars
  <2>2. <<>> \in Seq(ModelOp)
    BY EmptySeq
  <2>3. /\ chan' \in [Models -> Workers \cup {NoWorker}]
        /\ inFlight' \in [Models -> Nat]
        /\ modelOps' \in [Models -> [Workers -> Seq(ModelOp)]]
        /\ work' \in [Models -> [Workers -> ModelOp \cup {NoOp}]]
        /\ step' \in [Models -> [Workers -> Steps]]
    BY <2>2 DEF Crash, Steps
  <2>4. /\ EventsTypeOK'
        /\ completions' \in Seq(ModelOp)
        /\ sending' \in ModelOp \cup {NoOp}
        /\ waitCount' \in Int
    BY <2>2 DEF Crash, Phases
  <2> HIDE DEF StoreTypeOK, EventsTypeOK
  <2> QED
    BY <2>1, <2>3, <2>4 DEF TypeOK
<1>2. NoOrphanedProcessor'
  BY DEF Crash, NoOrphanedProcessor, Busy
<1>3. InFlightIsOutstanding'
  <2>1. \A m : OpsOf(<<>>, m) = {}
    BY EmptySeq DEF OpsOf
  <2> QED
    BY <2>1 DEF Crash, InFlightIsOutstanding, CompletedOps
<1>4. OpsAtHome'
  BY EmptySeq DEF Crash, OpsAtHome
<1> QED
  BY <1>1, <1>2, <1>3, <1>4 DEF IInv

\* enqueueModelOp counts the operation it is about to send, in a new channel if
\* the model has none.
LEMMA TakeCommandIInv ==
  ASSUME IInv, TakeCommand
  PROVE  IInv'
<1> DEFINE op == Head(events)
           n == op.model
<1> USE DEF IInv
<1>1. op \in ModelOp /\ Tail(events) \in Seq(ModelOp)
  BY HeadTailProperties DEF TakeCommand, TypeOK
<1>2. n \in Models
  BY <1>1 DEF ModelOp
<1> HIDE DEF op
<1>3. /\ sending = NoOp
      /\ sending' = op
      /\ events' = Tail(events)
      /\ inFlight' = [inFlight EXCEPT ![n] = @ + 1]
      /\ UNCHANGED <<phase, storeVars, modelOps, work, step, completions, waitCount>>
  BY DEF TakeCommand, op
<1>4. \/ chan[n] # NoWorker /\ chan' = chan
      \/ /\ chan[n] = NoWorker
         /\ \E w \in Workers : Free(n, w) /\ chan' = [chan EXCEPT ![n] = w]
  BY DEF TakeCommand, op
<1>5. chan' \in [Models -> Workers \cup {NoWorker}]
  BY <1>4 DEF TypeOK
<1>6. TypeOK'
  <2>1. StoreTypeOK'
    BY <1>3 DEF TypeOK, storeVars
  <2>2. inFlight' \in [Models -> Nat]
    BY <1>2, <1>3 DEF TypeOK
  <2> HIDE DEF StoreTypeOK
  <2> QED
    BY <1>1, <1>3, <1>5, <2>1, <2>2 DEF TypeOK
<1>7. ASSUME NEW m \in Models, m # n PROVE chan'[m] = chan[m]
  BY <1>2, <1>4, <1>7 DEF TypeOK
<1>8. NoOrphanedProcessor'
  <2> SUFFICES ASSUME NEW m \in Models, NEW w \in Workers, Busy(m, w)'
               PROVE  chan'[m] = w
    BY DEF NoOrphanedProcessor
  <2>1. Busy(m, w)
    BY <1>3 DEF Busy
  <2>2. chan[m] = w /\ chan[m] # NoWorker
    BY <2>1, WorkersAssumption DEF NoOrphanedProcessor
  <2> QED
    BY <2>2, <1>4, <1>7
<1>9. InFlightIsOutstanding'
  <2> SUFFICES ASSUME NEW m \in Models
               PROVE  /\ chan'[m] = NoWorker =>
                           /\ inFlight'[m] = 0
                           /\ CompletedOps(m)' = {}
                           /\ sending' # NoOp => sending'.model # m
                      /\ chan'[m] # NoWorker =>
                           /\ inFlight'[m] > 0
                           /\ inFlight'[m] = Total(m)'
    BY DEF InFlightIsOutstanding, Total
  <2>1. CompletedOps(m)' = CompletedOps(m)
    BY <1>3 DEF CompletedOps
  <2>2. CASE m # n
    <3>1. sending'.model # m /\ inFlight'[m] = inFlight[m] /\ chan'[m] = chan[m]
      BY <1>2, <1>3, <1>7, <2>2 DEF TypeOK
    <3>2. OpsWith(m, chan[m])' = OpsWith(m, chan[m])
      BY <1>3, <3>1 DEF OpsWith
    <3> QED
      BY <1>3, <2>1, <3>1, <3>2 DEF InFlightIsOutstanding, Total, OneIf
  <2>3. CASE m = n
    <3>1. inFlight'[m] = inFlight[m] + 1 /\ inFlight[m] \in Nat
      BY <1>2, <1>3, <2>3 DEF TypeOK
    <3>2. OneIf(sending # NoOp /\ sending.model = m)' = 1
      BY <1>1, <1>3, <2>3, NoOpAssumption DEF OneIf
    <3>3. CASE chan[n] # NoWorker
      <4>1. chan' = chan /\ OpsWith(m, chan[m])' = OpsWith(m, chan[m])
        BY <1>3, <1>4, <3>3 DEF OpsWith
      <4>2. inFlight[m] = OpsWith(m, chan[m]) + Cardinality(CompletedOps(m))
        BY <1>3, <2>3, <3>3, OpsWithType DEF InFlightIsOutstanding, OneIf, TypeOK
      <4> QED
        BY <2>1, <2>3, <3>1, <3>2, <3>3, <4>1, <4>2, OpsWithType DEF Total, TypeOK
    <3>4. CASE chan[n] = NoWorker
      <4>1. PICK w \in Workers : Free(n, w) /\ chan' = [chan EXCEPT ![n] = w]
        BY <1>4, <3>4
      <4>2. chan'[m] = w /\ w # NoWorker
        BY <1>2, <2>3, <4>1, WorkersAssumption DEF TypeOK
      <4>3. OpsWith(m, w) = 0 /\ OpsWith(m, w)' = OpsWith(m, w)
        BY <1>3, <2>3, <4>1, OpsWithType DEF Free, Busy, OpsWith
      <4>4. inFlight[m] = 0 /\ Cardinality(CompletedOps(m)) = 0
        BY <2>3, <3>4, <4>1, OpsWithType DEF InFlightIsOutstanding
      <4>5. OpsWith(m, chan[m])' = 0
        BY <4>2, <4>3
      <4> QED
        BY <2>1, <3>1, <3>2, <4>2, <4>4, <4>5 DEF Total
    <3> QED
      BY <3>3, <3>4
  <2> QED
    BY <2>2, <2>3
<1>10. OpsAtHome'
  BY <1>3 DEF OpsAtHome
<1> QED
  BY <1>6, <1>8, <1>9, <1>10

\* A channel send moves an operation from processCommands into the buffer.
LEMMA SendToProcessorIInv ==
  ASSUME IInv, SendToProcessor
  PROVE  IInv'
<1> DEFINE n == sending.model
           v == chan[n]
<1> USE DEF IInv
<1>1. sending \in ModelOp /\ sending # NoOp /\ n \in Models
  BY DEF SendToProcessor, TypeOK, ModelOp
<1>2. v \in Workers /\ v # NoWorker
  BY <1>1, WorkersAssumption DEF InFlightIsOutstanding, TypeOK
<1>3. /\ sending' = NoOp
      /\ modelOps' = [modelOps EXCEPT ![n][v] = Append(@, sending)]
      /\ UNCHANGED <<phase, events, storeVars, chan, inFlight, work, step,
                     completions, waitCount>>
  BY DEF SendToProcessor
<1>4. modelOps[n][v] \in Seq(ModelOp)
  BY <1>1, <1>2 DEF TypeOK
<1>5. TypeOK'
  <2>1. StoreTypeOK'
    BY <1>3 DEF TypeOK, storeVars
  <2>2. modelOps' \in [Models -> [Workers -> Seq(ModelOp)]]
    BY <1>1, <1>2, <1>3, <1>4 DEF TypeOK
  <2> HIDE DEF StoreTypeOK
  <2> QED
    BY <1>3, <2>1, <2>2 DEF TypeOK
<1>6. ASSUME NEW m \in Models, NEW w \in Workers, m # n \/ w # v
      PROVE  modelOps'[m][w] = modelOps[m][w]
  BY <1>1, <1>2, <1>3, <1>6 DEF TypeOK
<1>7. modelOps'[n][v] = Append(modelOps[n][v], sending)
  BY <1>1, <1>2, <1>3 DEF TypeOK
<1>8. NoOrphanedProcessor'
  BY <1>3, <1>6 DEF NoOrphanedProcessor, Busy
<1>9. InFlightIsOutstanding'
  <2>1. \A m : CompletedOps(m)' = CompletedOps(m)
    BY <1>3 DEF CompletedOps
  <2> SUFFICES ASSUME NEW m \in Models
               PROVE  chan[m] # NoWorker => Total(m)' = Total(m)
    BY <1>3, <2>1 DEF InFlightIsOutstanding, Total
  <2> SUFFICES ASSUME chan[m] # NoWorker
               PROVE  Total(m)' = Total(m)
    OBVIOUS
  <2>2. chan[m] \in Workers /\ chan'[m] = chan[m]
    BY <1>3 DEF TypeOK
  <2>3. OneIf(sending # NoOp /\ sending.model = m)' = 0
    BY <1>3 DEF OneIf
  <2>4. CASE m # n
    <3>1. OpsWith(m, chan[m])' = OpsWith(m, chan[m])
      BY <1>3, <1>6, <2>2, <2>4 DEF OpsWith
    <3>2. OneIf(sending # NoOp /\ sending.model = m) = 0
      BY <2>4 DEF OneIf
    <3> QED
      BY <2>1, <2>3, <3>1, <3>2 DEF Total
  <2>5. CASE m = n
    <3>1. Len(modelOps'[n][v]) = Len(modelOps[n][v]) + 1 /\ Len(modelOps[n][v]) \in Nat
      BY <1>1, <1>4, <1>7, LenProperties
    <3>2. OpsWith(m, chan[m])' = OpsWith(m, chan[m]) + 1
      <4>1. OneIf(work[n][v] # NoOp) \in Nat /\ work' = work
        BY <1>3 DEF OneIf
      <4>2. OpsWith(m, chan[m])' = Len(modelOps'[n][v]) + OneIf(work[n][v] # NoOp)
        BY <1>3, <2>5 DEF OpsWith
      <4>3. OpsWith(m, chan[m]) = Len(modelOps[n][v]) + OneIf(work[n][v] # NoOp)
        BY <2>5 DEF OpsWith
      <4> QED
        BY <3>1, <4>1, <4>2, <4>3
    <3>3. OneIf(sending # NoOp /\ sending.model = m) = 1
      BY <1>1, <2>5 DEF OneIf
    <3>4. OpsWith(m, chan[m]) \in Nat /\ Cardinality(CompletedOps(m)) \in Nat
      BY <2>2, OpsWithType
    <3> QED
      BY <2>1, <2>3, <3>2, <3>3, <3>4 DEF Total
  <2> QED
    BY <2>4, <2>5
<1>10. OpsAtHome'
  <2> SUFFICES ASSUME NEW m \in Models, NEW w \in Workers,
                      NEW i \in DOMAIN modelOps'[m][w]
               PROVE  modelOps'[m][w][i].model = m
    BY <1>3 DEF OpsAtHome
  <2>1. CASE m # n \/ w # v
    BY <1>6, <2>1 DEF OpsAtHome
  <2>2. CASE m = n /\ w = v
    <3>1. i \in 1..(Len(modelOps[n][v]) + 1) /\ Len(modelOps[n][v]) \in Nat
      BY <1>1, <1>4, <1>7, <2>2, LenProperties
    <3>2. CASE i = Len(modelOps[n][v]) + 1
      BY <1>1, <1>4, <1>7, <2>2, <3>2
    <3>3. CASE i \in 1..Len(modelOps[n][v])
      <4>1. modelOps'[n][v][i] = modelOps[n][v][i] /\ i \in DOMAIN modelOps[n][v]
        BY <1>1, <1>4, <1>7, <3>3, LenProperties
      <4> QED
        BY <1>1, <1>2, <2>2, <4>1 DEF OpsAtHome
    <3> QED
      BY <3>1, <3>2, <3>3
  <2> QED
    BY <2>1, <2>2
<1> QED
  BY <1>5, <1>8, <1>9, <1>10

\* The last completion of a model finds nothing of it left when it closes the
\* channel.
LEMMA CompleteOpIInv ==
  ASSUME IInv, CompleteOp
  PROVE  IInv'
<1> DEFINE op == Head(completions)
<1> USE DEF IInv
<1>1. /\ completions \in Seq(ModelOp)
      /\ completions # <<>>
      /\ op \in ModelOp
      /\ Tail(completions) \in Seq(ModelOp)
  BY HeadTailProperties DEF CompleteOp, TypeOK
<1>2. PICK n \in Models : n = op.model
  BY <1>1 DEF ModelOp
<1>3. ASSUME NEW m \in Models
      PROVE  /\ Cardinality(CompletedOps(m)) =
                  Cardinality(CompletedOps(m)') + OneIf(op.model = m)
             /\ Cardinality(CompletedOps(m)') \in Nat
  BY <1>1, OpsOfTail, OpsOfFinite DEF CompletedOps, CompleteOp
<1>4. chan[n] # NoWorker /\ chan[n] \in Workers
  <2>1. Cardinality(CompletedOps(n)) # 0
    BY <1>2, <1>3 DEF OneIf
  <2>2. CompletedOps(n) # {}
    BY <2>1, FS_EmptySet
  <2> QED
    BY <1>2, <2>2 DEF InFlightIsOutstanding, TypeOK
<1>5. /\ sending = NoOp
      /\ completions' = Tail(completions)
      /\ waitCount' = IF op.onStartup THEN waitCount - 1 ELSE waitCount
      /\ inFlight' = [inFlight EXCEPT ![n] = @ - 1]
      /\ chan' = IF inFlight[n] = 1 THEN [chan EXCEPT ![n] = NoWorker] ELSE chan
      /\ UNCHANGED <<phase, events, storeVars, modelOps, work, step, sending>>
  BY <1>2, <1>4 DEF CompleteOp
<1> HIDE DEF op
<1>6. /\ inFlight[n] = OpsWith(n, chan[n]) + Cardinality(CompletedOps(n))
      /\ OpsWith(n, chan[n]) \in Nat
      /\ Cardinality(CompletedOps(n)) = Cardinality(CompletedOps(n)') + 1
      /\ Cardinality(CompletedOps(n)') \in Nat
      /\ inFlight[n] \in Nat \ {0}
  <2>1. OneIf(sending # NoOp /\ sending.model = n) = 0
    BY <1>5 DEF OneIf
  <2>2. Cardinality(CompletedOps(n)) = Cardinality(CompletedOps(n)') + 1
        /\ Cardinality(CompletedOps(n)') \in Nat
    BY <1>2, <1>3 DEF OneIf
  <2>3. OpsWith(n, chan[n]) \in Nat
    BY <1>2, <1>4, OpsWithType
  <2>4. inFlight[n] \in Nat \ {0}
    BY <1>2, <1>4 DEF InFlightIsOutstanding, TypeOK
  <2> QED
    BY <1>2, <1>4, <2>1, <2>2, <2>3, <2>4 DEF InFlightIsOutstanding
<1>7. TypeOK'
  <2>1. StoreTypeOK'
    BY <1>5 DEF TypeOK, storeVars
  <2>2. inFlight' \in [Models -> Nat]
    BY <1>2, <1>5, <1>6 DEF TypeOK
  <2>3. chan' \in [Models -> Workers \cup {NoWorker}] /\ waitCount' \in Int
    BY <1>2, <1>5 DEF TypeOK
  <2> HIDE DEF StoreTypeOK
  <2> QED
    BY <1>1, <1>5, <2>1, <2>2, <2>3 DEF TypeOK
<1>8. ASSUME NEW m \in Models, m # n
      PROVE  chan'[m] = chan[m] /\ inFlight'[m] = inFlight[m]
  BY <1>2, <1>5, <1>8 DEF TypeOK
<1>11. OpsAtHome'
  BY <1>5 DEF OpsAtHome
<1>9. CASE inFlight[n] = 1
  <2>1. OpsWith(n, chan[n]) = 0 /\ Cardinality(CompletedOps(n)') = 0
    BY <1>6, <1>9
  <2>2. \A w \in Workers : ~Busy(n, w)
    BY <1>2, <1>4, <2>1, OpsWithType DEF NoOrphanedProcessor
  <2>3. CompletedOps(n)' = {}
    BY <1>1, <1>5, <2>1, OpsOfFinite DEF CompletedOps
  <2>4. chan'[n] = NoWorker /\ inFlight'[n] = 0
    BY <1>2, <1>5, <1>9 DEF TypeOK
  <2>5. NoOrphanedProcessor'
    BY <1>5, <1>8, <2>2 DEF NoOrphanedProcessor, Busy
  <2>6. InFlightIsOutstanding'
    <3> SUFFICES ASSUME NEW m \in Models
                 PROVE  IF chan'[m] = NoWorker
                          THEN inFlight'[m] = 0 /\ CompletedOps(m)' = {}
                          ELSE inFlight'[m] > 0 /\ inFlight'[m] = Total(m)'
      BY <1>5 DEF InFlightIsOutstanding, Total
    <3> SUFFICES ASSUME m # n
                 PROVE  IF chan'[m] = NoWorker
                          THEN inFlight'[m] = 0 /\ CompletedOps(m)' = {}
                          ELSE inFlight'[m] > 0 /\ inFlight'[m] = Total(m)'
      BY <2>3, <2>4
    <3>1. Cardinality(CompletedOps(m)') = Cardinality(CompletedOps(m))
      BY <1>2, <1>3 DEF OneIf
    <3>2. CompletedOps(m) = {} => CompletedOps(m)' = {}
      BY <1>1, <1>5, <3>1, OpsOfFinite, FS_EmptySet DEF CompletedOps
    <3>3. OpsWith(m, chan[m])' = OpsWith(m, chan[m])
      BY <1>5, <1>8 DEF OpsWith
    <3> QED
      BY <1>5, <1>8, <3>1, <3>2, <3>3 DEF InFlightIsOutstanding, Total
  <2> QED
    BY <1>7, <1>11, <2>5, <2>6
<1>10. CASE inFlight[n] # 1
  <2>1. chan' = chan
    BY <1>5, <1>10
  <2>2. NoOrphanedProcessor'
    BY <1>5, <2>1 DEF NoOrphanedProcessor, Busy
  <2>3. InFlightIsOutstanding'
    <3> SUFFICES ASSUME NEW m \in Models
                 PROVE  IF chan'[m] = NoWorker
                          THEN inFlight'[m] = 0 /\ CompletedOps(m)' = {}
                          ELSE inFlight'[m] > 0 /\ inFlight'[m] = Total(m)'
      BY <1>5 DEF InFlightIsOutstanding, Total
    <3>1. OpsWith(m, chan[m])' = OpsWith(m, chan[m])
      BY <1>5, <2>1 DEF OpsWith
    <3>2. CASE m # n
      <4>1. Cardinality(CompletedOps(m)') = Cardinality(CompletedOps(m))
        BY <1>2, <1>3, <3>2 DEF OneIf
      <4>2. CompletedOps(m) = {} => CompletedOps(m)' = {}
        BY <1>1, <1>5, <4>1, OpsOfFinite, FS_EmptySet DEF CompletedOps
      <4> QED
        BY <1>5, <1>8, <3>1, <3>2, <4>1, <4>2 DEF InFlightIsOutstanding, Total
    <3>3. CASE m = n
      <4>1. inFlight'[n] = inFlight[n] - 1
        BY <1>2, <1>5 DEF TypeOK
      <4>2. OneIf(sending # NoOp /\ sending.model = n)' = 0
        BY <1>5 DEF OneIf
      <4>3. Total(m)' = OpsWith(n, chan[n]) + Cardinality(CompletedOps(n)')
        BY <1>6, <3>1, <3>3, <4>2 DEF Total
      <4> QED
        BY <1>4, <1>6, <1>10, <2>1, <3>3, <4>1, <4>3
    <3> QED
      BY <3>2, <3>3
  <2> QED
    BY <1>7, <1>11, <2>2, <2>3
<1> QED
  BY <1>9, <1>10

\* A processor takes an operation from its buffer: the sum stays the same.
LEMMA ReceiveIInv ==
  ASSUME IInv, NEW n \in Models, NEW v \in Workers, Receive(n, v)
  PROVE  IInv'
<1> USE DEF IInv
<1>1. /\ modelOps[n][v] \in Seq(ModelOp)
      /\ modelOps[n][v] # <<>>
      /\ work[n][v] = NoOp
      /\ Head(modelOps[n][v]) \in ModelOp
      /\ Tail(modelOps[n][v]) \in Seq(ModelOp)
      /\ Len(Tail(modelOps[n][v])) = Len(modelOps[n][v]) - 1
      /\ Len(modelOps[n][v]) \in Nat
  BY HeadTailProperties, LenProperties DEF Receive, TypeOK
<1>2. /\ work' = [work EXCEPT ![n][v] = Head(modelOps[n][v])]
      /\ modelOps' = [modelOps EXCEPT ![n][v] = Tail(@)]
      /\ UNCHANGED <<phase, events, storeVars, chan, inFlight, step, completions,
                     sending, waitCount>>
  BY DEF Receive
<1>3. TypeOK'
  <2>1. StoreTypeOK'
    BY <1>2 DEF TypeOK, storeVars
  <2>2. modelOps' \in [Models -> [Workers -> Seq(ModelOp)]]
    BY <1>1, <1>2 DEF TypeOK
  <2>3. work' \in [Models -> [Workers -> ModelOp \cup {NoOp}]]
    BY <1>1, <1>2 DEF TypeOK
  <2> HIDE DEF StoreTypeOK
  <2> QED
    BY <1>2, <2>1, <2>2, <2>3 DEF TypeOK
<1>4. ASSUME NEW m \in Models, NEW w \in Workers, m # n \/ w # v
      PROVE  modelOps'[m][w] = modelOps[m][w] /\ work'[m][w] = work[m][w]
  BY <1>2, <1>4 DEF TypeOK
<1>5. /\ modelOps'[n][v] = Tail(modelOps[n][v])
      /\ work'[n][v] = Head(modelOps[n][v])
      /\ work'[n][v] # NoOp
  BY <1>1, <1>2, NoOpAssumption DEF TypeOK
<1>6. chan[n] = v
  BY <1>1 DEF NoOrphanedProcessor, Busy
<1>7. NoOrphanedProcessor'
  BY <1>2, <1>4, <1>6 DEF NoOrphanedProcessor, Busy
<1>8. ASSUME NEW m \in Models, chan[m] # NoWorker
      PROVE  OpsWith(m, chan[m])' = OpsWith(m, chan[m])
  <2>1. chan[m] \in Workers /\ chan' = chan
    BY <1>2, <1>8 DEF TypeOK
  <2>2. CASE m # n
    BY <1>4, <2>1, <2>2 DEF OpsWith
  <2>3. CASE m = n
    <3>1. OpsWith(m, chan[m])' = Len(modelOps'[n][v]) + OneIf(work'[n][v] # NoOp)
      BY <1>6, <2>1, <2>3 DEF OpsWith, OneIf
    <3>2. OpsWith(m, chan[m]) = Len(modelOps[n][v]) + OneIf(work[n][v] # NoOp)
      BY <1>6, <2>3 DEF OpsWith
    <3>3. OneIf(work'[n][v] # NoOp) = 1 /\ OneIf(work[n][v] # NoOp) = 0
      BY <1>1, <1>5 DEF OneIf
    <3> QED
      BY <1>1, <1>5, <3>1, <3>2, <3>3
  <2> QED
    BY <2>2, <2>3
<1>9. InFlightIsOutstanding'
  BY <1>2, <1>8 DEF InFlightIsOutstanding, CompletedOps
<1>10. OpsAtHome'
  <2>1. modelOps[n][v][1].model = n
    BY <1>1, LenProperties, EmptySeq DEF OpsAtHome
  <2>2. work'[n][v].model = n
    BY <1>1, <1>5, <2>1
  <2>3. \A i \in DOMAIN modelOps'[n][v] : modelOps'[n][v][i].model = n
    <3>1. \A i \in 1..(Len(modelOps[n][v]) - 1) :
            Tail(modelOps[n][v])[i] = modelOps[n][v][i + 1]
      BY <1>1, HeadTailProperties
    <3>2. DOMAIN modelOps'[n][v] = 1..(Len(modelOps[n][v]) - 1)
          /\ DOMAIN modelOps[n][v] = 1..Len(modelOps[n][v])
      BY <1>1, <1>5, LenProperties
    <3> QED
      BY <1>1, <1>5, <3>1, <3>2 DEF OpsAtHome
  <2> QED
    BY <1>4, <2>2, <2>3 DEF OpsAtHome
<1> QED
  BY <1>3, <1>7, <1>9, <1>10

\* The download, load, removal and unload steps do not touch the accounting.
LEMMA ProcessOpIInv ==
  ASSUME IInv, NEW n \in Models, NEW v \in Workers, ProcessOp(n, v)
  PROVE  IInv'
<1> USE DEF IInv
<1>1. ProcessorMoves(n, v)
  BY ProcessOpMoves
<1>2. TypeOK'
  <2>1. StoreTypeOK'
    BY ProcessOpStore
  <2>2. step' \in [Models -> [Workers -> Steps]]
    BY <1>1 DEF ProcessorMoves, TypeOK
  <2> HIDE DEF StoreTypeOK
  <2> QED
    BY <1>1, <2>1, <2>2 DEF ProcessorMoves, TypeOK
<1>3. NoOrphanedProcessor'
  BY <1>1 DEF ProcessorMoves, NoOrphanedProcessor, Busy
<1>4. InFlightIsOutstanding'
  BY <1>1 DEF ProcessorMoves, InFlightIsOutstanding, CompletedOps, OpsWith
<1>5. OpsAtHome'
  BY <1>1 DEF ProcessorMoves, OpsAtHome
<1> QED
  BY <1>2, <1>3, <1>4, <1>5

\* A processor hands its operation to the completions channel.
LEMMA FinishIInv ==
  ASSUME IInv, NEW n \in Models, NEW v \in Workers, Finish(n, v)
  PROVE  IInv'
<1> DEFINE op == work[n][v]
<1> USE DEF IInv
<1>1. /\ op \in ModelOp
      /\ op # NoOp
      /\ completions \in Seq(ModelOp)
      /\ completions' = Append(completions, op)
      /\ work' = [work EXCEPT ![n][v] = NoOp]
      /\ step' = [step EXCEPT ![n][v] = "start"]
      /\ UNCHANGED <<phase, events, storeVars, chan, inFlight, modelOps, sending,
                     waitCount>>
  BY DEF Finish, TypeOK
<1>2. TypeOK'
  <2>1. StoreTypeOK'
    BY <1>1 DEF TypeOK, storeVars
  <2>2. work' \in [Models -> [Workers -> ModelOp \cup {NoOp}]]
    BY <1>1 DEF TypeOK
  <2>3. step' \in [Models -> [Workers -> Steps]]
    BY <1>1 DEF TypeOK, Steps
  <2> HIDE DEF StoreTypeOK
  <2> QED
    BY <1>1, <2>1, <2>2, <2>3 DEF TypeOK
<1>3. ASSUME NEW m \in Models, NEW w \in Workers, m # n \/ w # v
      PROVE  work'[m][w] = work[m][w]
  BY <1>1, <1>3 DEF TypeOK
<1>4. work'[n][v] = NoOp
  BY <1>1 DEF TypeOK
<1>5. chan[n] = v /\ v # NoWorker
  BY <1>1, WorkersAssumption DEF NoOrphanedProcessor, Busy
<1>6. NoOrphanedProcessor'
  BY <1>1, <1>3, <1>4 DEF NoOrphanedProcessor, Busy
<1>7. op.model = n
  BY <1>1 DEF OpsAtHome
<1>8. OpsAtHome'
  BY <1>1, <1>3, <1>4 DEF OpsAtHome
<1>9. ASSUME NEW m \in Models, m # n
      PROVE  /\ OpsWith(m, chan[m])' = OpsWith(m, chan[m])
             /\ Cardinality(CompletedOps(m)') = Cardinality(CompletedOps(m))
             /\ CompletedOps(m) = {} => CompletedOps(m)' = {}
  <2>1. work'[m] = work[m]
    BY <1>1, <1>9 DEF TypeOK
  <2>2. Cardinality(CompletedOps(m)') = Cardinality(CompletedOps(m))
    <3>1. Cardinality(CompletedOps(m)') =
            Cardinality(CompletedOps(m)) + OneIf(op.model = m)
      BY <1>1, OpsOfAppend DEF CompletedOps
    <3>2. Cardinality(CompletedOps(m)) \in Nat
      BY <1>1, OpsOfFinite DEF CompletedOps
    <3> QED
      BY <1>7, <1>9, <3>1, <3>2 DEF OneIf
  <2>3. completions' \in Seq(ModelOp)
    BY <1>2 DEF TypeOK
  <2>4. CompletedOps(m) = {} => CompletedOps(m)' = {}
    BY <1>1, <2>2, <2>3, OpsOfFinite DEF CompletedOps
  <2> QED
    BY <1>1, <2>1, <2>2, <2>4 DEF OpsWith
<1>10. Total(n)' = Total(n)
  <2>1. Cardinality(CompletedOps(n)') = Cardinality(CompletedOps(n)) + 1
        /\ Cardinality(CompletedOps(n)) \in Nat
    BY <1>1, <1>7, OpsOfAppend, OpsOfFinite DEF CompletedOps, OneIf
  <2>2. OpsWith(n, chan[n])' = Len(modelOps[n][v])
    <3>1. OpsWith(n, chan[n])' = Len(modelOps[n][v]) + OneIf(work'[n][v] # NoOp)
      BY <1>1, <1>5 DEF OpsWith
    <3>2. OneIf(work'[n][v] # NoOp) = 0
      BY <1>4 DEF OneIf
    <3>3. Len(modelOps[n][v]) \in Nat
      BY LenProperties DEF TypeOK
    <3> QED
      BY <3>1, <3>2, <3>3
  <2>3. OpsWith(n, chan[n]) = Len(modelOps[n][v]) + 1
    BY <1>1, <1>5 DEF OpsWith, OneIf
  <2>4. Len(modelOps[n][v]) \in Nat
    BY LenProperties DEF TypeOK
  <2>5. sending' = sending
    BY <1>1
  <2> QED
    BY <2>1, <2>2, <2>3, <2>4, <2>5 DEF Total
<1>11. InFlightIsOutstanding'
  <2> SUFFICES ASSUME NEW m \in Models
               PROVE  IF chan[m] = NoWorker
                        THEN /\ inFlight[m] = 0
                             /\ CompletedOps(m)' = {}
                             /\ sending # NoOp => sending.model # m
                        ELSE inFlight[m] > 0 /\ inFlight[m] = Total(m)'
    BY <1>1 DEF InFlightIsOutstanding, Total
  <2>1. CASE m = n
    BY <1>5, <1>10, <2>1 DEF InFlightIsOutstanding, Total
  <2>2. CASE m # n
    BY <1>1, <1>9, <2>2 DEF InFlightIsOutstanding, Total
  <2> QED
    BY <2>1, <2>2
<1> QED
  BY <1>2, <1>6, <1>8, <1>11

-----------------------------------------------------------------------------
(* The wait for the startup.                                               *)

\* The four parts of OutstandingStartup are natural numbers, and none of them
\* can be positive while the sum is zero.
OutstandingParts ==
  /\ IsFiniteSet(HeldPlaces)
  /\ Cardinality(HeldPlaces) \in Nat
  /\ Cardinality(PlacesOf(events, StartupOps)) \in Nat
  /\ Cardinality(PlacesOf(completions, StartupOps)) \in Nat
  /\ OneIf(sending \in StartupOps) \in Nat

LEMMA OutstandingIsSum ==
  /\ TypeOK /\ IsFiniteSet(HeldPlaces) => OutstandingParts
  /\ TypeOK' /\ IsFiniteSet(HeldPlaces') => OutstandingParts'
<1>1. TypeOK /\ IsFiniteSet(HeldPlaces) => OutstandingParts
  BY PlacesFinite, FS_CardinalityType DEF TypeOK, OutstandingParts, OneIf
<1>2. TypeOK' /\ IsFiniteSet(HeldPlaces') => OutstandingParts'
  BY PlacesFinite, FS_CardinalityType DEF TypeOK, OutstandingParts, OneIf
<1> QED
  BY <1>1, <1>2

\* A place is held exactly if the operation there is one of the startup.
LEMMA HeldMembers ==
  /\ \A m \in Models, w \in Workers : \A i :
       <<m, w, i>> \in HeldPlaces <=> i \in HeldBy(m, w)
  /\ \A h \in HeldPlaces :
       \E m \in Models, w \in Workers : \E i \in HeldBy(m, w) : h = <<m, w, i>>
  /\ \A m \in Models, w \in Workers : \A i :
       <<m, w, i>> \in HeldPlaces' <=> i \in HeldBy(m, w)'
  /\ \A h \in HeldPlaces' :
       \E m \in Models, w \in Workers : \E i \in HeldBy(m, w)' : h = <<m, w, i>>
<1>1. /\ \A m \in Models, w \in Workers : \A i :
           <<m, w, i>> \in HeldPlaces <=> i \in HeldBy(m, w)
      /\ \A h \in HeldPlaces :
           \E m \in Models, w \in Workers : \E i \in HeldBy(m, w) : h = <<m, w, i>>
  <2>1. ASSUME NEW h
        PROVE  h \in HeldPlaces <=>
                 \E m \in Models, w \in Workers : \E i \in HeldBy(m, w) : h = <<m, w, i>>
    <3>1. h \in HeldPlaces <=>
            \E P \in {{<<m, w, i>> : i \in HeldBy(m, w)} : m \in Models, w \in Workers} :
              h \in P
      BY DEF HeldPlaces
    <3>2. \A m, w : h \in {<<m, w, i>> : i \in HeldBy(m, w)} <=>
            \E i \in HeldBy(m, w) : h = <<m, w, i>>
      OBVIOUS
    <3>3. ASSUME NEW m \in Models, NEW w \in Workers, NEW i \in HeldBy(m, w), h = <<m, w, i>>
          PROVE  h \in HeldPlaces
      <4> DEFINE P == {<<m, w, j>> : j \in HeldBy(m, w)}
      <4>1. h \in P
        BY <3>3
      <4>2. P \in {{<<v, u, k>> : k \in HeldBy(v, u)} : v \in Models, u \in Workers}
        OBVIOUS
      <4> HIDE DEF P
      <4>3. \E Q \in {{<<v, u, k>> : k \in HeldBy(v, u)} : v \in Models, u \in Workers} :
              h \in Q
        BY <4>1, <4>2
      <4> QED
        BY <3>1, <4>3
    <3>4. ASSUME h \in HeldPlaces
          PROVE  \E m \in Models, w \in Workers : \E i \in HeldBy(m, w) : h = <<m, w, i>>
      <4>1. PICK P \in {{<<m, w, i>> : i \in HeldBy(m, w)} : m \in Models, w \in Workers} :
              h \in P
        BY <3>1, <3>4
      <4>2. PICK m \in Models, w \in Workers : P = {<<m, w, i>> : i \in HeldBy(m, w)}
        OBVIOUS
      <4> QED
        BY <4>1, <4>2
    <3> QED
      BY <3>3, <3>4
  <2> QED
    BY <2>1
<1>2. /\ \A m \in Models, w \in Workers : \A i :
           <<m, w, i>> \in HeldPlaces' <=> i \in HeldBy(m, w)'
      /\ \A h \in HeldPlaces' :
           \E m \in Models, w \in Workers : \E i \in HeldBy(m, w)' : h = <<m, w, i>>
  <2>1. ASSUME NEW h
        PROVE  h \in HeldPlaces' <=>
                 \E m \in Models, w \in Workers : \E i \in HeldBy(m, w)' : h = <<m, w, i>>
    <3>1. h \in HeldPlaces' <=>
            \E P \in {{<<m, w, i>> : i \in HeldBy(m, w)'} : m \in Models, w \in Workers} :
              h \in P
      BY DEF HeldPlaces
    <3>2. \A m, w : h \in {<<m, w, i>> : i \in HeldBy(m, w)'} <=>
            \E i \in HeldBy(m, w)' : h = <<m, w, i>>
      OBVIOUS
    <3>3. ASSUME NEW m \in Models, NEW w \in Workers, NEW i \in HeldBy(m, w)', h = <<m, w, i>>
          PROVE  h \in HeldPlaces'
      <4> DEFINE P == {<<m, w, j>> : j \in HeldBy(m, w)'}
      <4>1. h \in P
        BY <3>3
      <4>2. P \in {{<<v, u, k>> : k \in HeldBy(v, u)'} : v \in Models, u \in Workers}
        OBVIOUS
      <4> HIDE DEF P
      <4>3. \E Q \in {{<<v, u, k>> : k \in HeldBy(v, u)'} : v \in Models, u \in Workers} :
              h \in Q
        BY <4>1, <4>2
      <4> QED
        BY <3>1, <4>3
    <3>4. ASSUME h \in HeldPlaces'
          PROVE  \E m \in Models, w \in Workers : \E i \in HeldBy(m, w)' : h = <<m, w, i>>
      <4>1. PICK P \in {{<<m, w, i>> : i \in HeldBy(m, w)'} : m \in Models, w \in Workers} :
              h \in P
        BY <3>1, <3>4
      <4>2. PICK m \in Models, w \in Workers : P = {<<m, w, i>> : i \in HeldBy(m, w)'}
        OBVIOUS
      <4> QED
        BY <4>1, <4>2
    <3> QED
      BY <3>3, <3>4
  <2> QED
    BY <2>1
<1> QED
  BY <1>1, <1>2

\* What is held depends on nothing but the buffers and the operations at work.
LEMMA HeldRests ==
  ASSUME UNCHANGED <<modelOps, work>>
  PROVE  HeldPlaces' = HeldPlaces
BY DEF HeldPlaces, HeldBy

\* The operation sent to a processor is held at the end of its buffer.
LEMMA HeldAfterSend ==
  ASSUME TypeOK, NEW n \in Models, NEW v \in Workers, sending \in ModelOp,
         modelOps' = [modelOps EXCEPT ![n][v] = Append(@, sending)],
         UNCHANGED work, IsFiniteSet(HeldPlaces)
  PROVE  /\ IsFiniteSet(HeldPlaces')
         /\ Cardinality(HeldPlaces') =
              Cardinality(HeldPlaces) + OneIf(sending \in StartupOps)
<1> DEFINE k == Len(modelOps[n][v]) + 1
           x == <<n, v, k>>
<1>1. modelOps[n][v] \in Seq(ModelOp) /\ Len(modelOps[n][v]) \in Nat
  BY LenProperties DEF TypeOK
<1>2. modelOps'[n][v] = Append(modelOps[n][v], sending)
  BY DEF TypeOK
<1>3. ASSUME NEW m \in Models, NEW w \in Workers, m # n \/ w # v
      PROVE  HeldBy(m, w)' = HeldBy(m, w)
  <2>1. modelOps'[m][w] = modelOps[m][w]
    BY <1>3 DEF TypeOK
  <2> QED
    BY <2>1 DEF HeldBy
<1>4. /\ HeldBy(n, v)' = IF sending \in StartupOps THEN HeldBy(n, v) \cup {k} ELSE HeldBy(n, v)
      /\ k \notin HeldBy(n, v)
  <2>1. /\ PlacesOf(modelOps'[n][v], StartupOps) =
             IF sending \in StartupOps THEN PlacesOf(modelOps[n][v], StartupOps) \cup {k}
             ELSE PlacesOf(modelOps[n][v], StartupOps)
        /\ k \notin PlacesOf(modelOps[n][v], StartupOps)
    <3> DEFINE seq == modelOps[n][v]
    <3>1. /\ PlacesOf(Append(seq, sending), StartupOps) =
               IF sending \in StartupOps THEN PlacesOf(seq, StartupOps) \cup {Len(seq) + 1}
               ELSE PlacesOf(seq, StartupOps)
          /\ Len(seq) + 1 \notin PlacesOf(seq, StartupOps)
      <4> HIDE DEF seq
      <4> QED
        BY <1>1, PlacesAppend DEF seq
    <3> QED
      BY <1>2, <3>1
  <2>2. k # 0
    BY <1>1
  <2> QED
    BY <2>1, <2>2 DEF HeldBy
<1> HIDE DEF k
<1>5. x \notin HeldPlaces
  BY <1>4, HeldMembers
<1>6. HeldPlaces' = IF sending \in StartupOps THEN HeldPlaces \cup {x} ELSE HeldPlaces
  <2>1. ASSUME NEW h \in HeldPlaces'
        PROVE  h \in HeldPlaces \/ (sending \in StartupOps /\ h = x)
    <3>1. PICK m \in Models, w \in Workers : \E i \in HeldBy(m, w)' : h = <<m, w, i>>
      BY HeldMembers
    <3>2. PICK i \in HeldBy(m, w)' : h = <<m, w, i>>
      BY <3>1
    <3>3. i \in HeldBy(m, w) \/ (m = n /\ w = v /\ sending \in StartupOps /\ i = k)
      BY <1>3, <1>4
    <3> QED
      BY <3>2, <3>3, HeldMembers
  <2>2. ASSUME NEW h \in HeldPlaces
        PROVE  h \in HeldPlaces'
    <3>1. PICK m \in Models, w \in Workers : \E i \in HeldBy(m, w) : h = <<m, w, i>>
      BY HeldMembers
    <3>2. PICK i \in HeldBy(m, w) : h = <<m, w, i>>
      BY <3>1
    <3>3. i \in HeldBy(m, w)'
      BY <1>3, <1>4
    <3> QED
      BY <3>2, <3>3, HeldMembers
  <2>3. sending \in StartupOps => x \in HeldPlaces'
    BY <1>4, HeldMembers
  <2> QED
    BY <2>1, <2>2, <2>3
<1> HIDE DEF x
<1>7. Cardinality(HeldPlaces) \in Nat
  BY FS_CardinalityType
<1>8. CASE sending \in StartupOps
  BY <1>5, <1>6, <1>7, <1>8, FS_AddElement DEF OneIf
<1>9. CASE sending \notin StartupOps
  BY <1>6, <1>7, <1>9 DEF OneIf
<1> QED
  BY <1>8, <1>9

\* Receiving moves every operation of a buffer by one place, and the first one to
\* place 0, which was free.
LEMMA HeldAfterReceive ==
  ASSUME TypeOK, NEW n \in Models, NEW v \in Workers, Receive(n, v),
         IsFiniteSet(HeldPlaces)
  PROVE  /\ IsFiniteSet(HeldPlaces')
         /\ Cardinality(HeldPlaces') = Cardinality(HeldPlaces)
<1> DEFINE back(h) == IF h[1] = n /\ h[2] = v THEN <<n, v, h[3] - 1>> ELSE h
           f == [h \in HeldPlaces |-> back(h)]
<1>1. /\ modelOps[n][v] \in Seq(ModelOp)
      /\ modelOps[n][v] # <<>>
      /\ Head(modelOps[n][v]) \in ModelOp
      /\ work[n][v] = NoOp
  BY HeadTailProperties DEF Receive, TypeOK
<1>2. modelOps'[n][v] = Tail(modelOps[n][v]) /\ work'[n][v] = Head(modelOps[n][v])
  BY DEF Receive, TypeOK
<1>3. ASSUME NEW m \in Models, NEW w \in Workers, m # n \/ w # v
      PROVE  HeldBy(m, w)' = HeldBy(m, w)
  <2>1. modelOps'[m][w] = modelOps[m][w] /\ work'[m][w] = work[m][w]
    BY <1>3 DEF Receive, TypeOK
  <2> QED
    BY <2>1 DEF HeldBy
<1>4. /\ HeldBy(n, v) \subseteq Nat \ {0}
      /\ HeldBy(n, v)' \subseteq Nat
      /\ \A i \in Nat : i \in HeldBy(n, v)' <=> i + 1 \in HeldBy(n, v)
  <2> DEFINE P == PlacesOf(modelOps[n][v], StartupOps)
             Q == PlacesOf(Tail(modelOps[n][v]), StartupOps)
  <2>1. /\ \A i : i \in Q <=> i \in Nat \ {0} /\ i + 1 \in P
        /\ P \subseteq Nat \ {0}
        /\ 1 \in P <=> Head(modelOps[n][v]) \in StartupOps
    BY <1>1, PlacesTail
  <2>2. NoOp \notin StartupOps
    BY NoOpAssumption DEF StartupOps
  <2>3. HeldBy(n, v) = P
    BY <1>1, <2>2 DEF HeldBy
  <2>4. HeldBy(n, v)' = {i \in {0} : Head(modelOps[n][v]) \in StartupOps} \cup Q
    BY <1>2 DEF HeldBy
  <2> HIDE DEF P, Q
  <2> QED
    BY <2>1, <2>3, <2>4
<1>5. ASSUME NEW h \in HeldPlaces
      PROVE  back(h) \in HeldPlaces'
  <2>1. PICK m \in Models, w \in Workers : \E i \in HeldBy(m, w) : h = <<m, w, i>>
    BY HeldMembers
  <2>2. PICK i \in HeldBy(m, w) : h = <<m, w, i>>
    BY <2>1
  <2>3. CASE m = n /\ w = v
    <3>1. back(h) = <<n, v, i - 1>>
      BY <2>2, <2>3
    <3>2. i - 1 \in HeldBy(n, v)'
      BY <1>4, <2>3
    <3> QED
      BY <3>1, <3>2, HeldMembers
  <2>4. CASE m # n \/ w # v
    <3>1. back(h) = h
      BY <2>2, <2>4
    <3> QED
      BY <1>3, <2>2, <2>4, <3>1, HeldMembers
  <2> QED
    BY <2>3, <2>4
<1>6. ASSUME NEW g \in HeldPlaces, NEW h \in HeldPlaces, back(g) = back(h)
      PROVE  g = h
  <2>1. PICK m \in Models, w \in Workers : \E i \in HeldBy(m, w) : g = <<m, w, i>>
    BY HeldMembers
  <2>2. PICK i \in HeldBy(m, w) : g = <<m, w, i>>
    BY <2>1
  <2>3. PICK p \in Models, u \in Workers : \E j \in HeldBy(p, u) : h = <<p, u, j>>
    BY HeldMembers
  <2>4. PICK j \in HeldBy(p, u) : h = <<p, u, j>>
    BY <2>3
  <2>5. CASE m = n /\ w = v
    <3>1. back(g) = <<n, v, i - 1>>
      BY <2>2, <2>5
    <3>2. CASE p = n /\ u = v
      <4>1. back(h) = <<n, v, j - 1>> /\ i \in Nat /\ j \in Nat
        BY <1>4, <2>4, <2>5, <3>2
      <4>2. i - 1 = j - 1
        BY <1>6, <3>1, <4>1
      <4> QED
        BY <2>2, <2>4, <2>5, <3>2, <4>1, <4>2
    <3>3. CASE p # n \/ u # v
      BY <1>6, <2>4, <3>1, <3>3
    <3> QED
      BY <3>2, <3>3
  <2>6. CASE m # n \/ w # v
    <3>1. back(g) = g
      BY <2>2, <2>6
    <3>2. CASE p = n /\ u = v
      BY <1>6, <2>2, <2>4, <2>6, <3>1, <3>2
    <3>3. CASE p # n \/ u # v
      BY <1>6, <2>4, <3>1, <3>3
    <3> QED
      BY <3>2, <3>3
  <2> QED
    BY <2>5, <2>6
<1>7. ASSUME NEW h \in HeldPlaces'
      PROVE  \E g \in HeldPlaces : back(g) = h
  <2>1. PICK m \in Models, w \in Workers : \E i \in HeldBy(m, w)' : h = <<m, w, i>>
    BY HeldMembers
  <2>2. PICK i \in HeldBy(m, w)' : h = <<m, w, i>>
    BY <2>1
  <2>3. CASE m = n /\ w = v
    <3>1. i \in Nat /\ i + 1 \in HeldBy(n, v)
      BY <1>4, <2>3
    <3>2. <<n, v, i + 1>> \in HeldPlaces
      BY <3>1, HeldMembers
    <3>3. back(<<n, v, i + 1>>) = h
      BY <2>2, <2>3, <3>1
    <3> QED
      BY <3>2, <3>3
  <2>4. CASE m # n \/ w # v
    <3>1. h \in HeldPlaces
      BY <1>3, <2>2, <2>4, HeldMembers
    <3>2. back(h) = h
      BY <2>2, <2>4
    <3> QED
      BY <3>1, <3>2
  <2> QED
    BY <2>3, <2>4
<1> HIDE DEF back
<1>8. f \in Bijection(HeldPlaces, HeldPlaces')
  BY <1>5, <1>6, <1>7 DEF Bijection, Injection, Surjection, IsInjective
<1> QED
  BY <1>8, FS_Bijection DEF ExistsBijection

\* An operation that is finished leaves place 0.
LEMMA HeldAfterFinish ==
  ASSUME TypeOK, NEW n \in Models, NEW v \in Workers, Finish(n, v),
         IsFiniteSet(HeldPlaces)
  PROVE  /\ IsFiniteSet(HeldPlaces')
         /\ Cardinality(HeldPlaces) =
              Cardinality(HeldPlaces') + OneIf(work[n][v] \in StartupOps)
<1> DEFINE x == <<n, v, 0>>
<1>1. modelOps' = modelOps /\ work'[n][v] = NoOp /\ modelOps[n][v] \in Seq(ModelOp)
  BY DEF Finish, TypeOK
<1>2. ASSUME NEW m \in Models, NEW w \in Workers, m # n \/ w # v
      PROVE  HeldBy(m, w)' = HeldBy(m, w)
  <2>1. work'[m][w] = work[m][w]
    BY <1>2 DEF Finish, TypeOK
  <2> QED
    BY <1>1, <2>1 DEF HeldBy
<1>3. /\ HeldBy(n, v)' = HeldBy(n, v) \ {0}
      /\ 0 \in HeldBy(n, v) <=> work[n][v] \in StartupOps
  <2>1. 0 \notin PlacesOf(modelOps[n][v], StartupOps)
    BY <1>1, LenProperties DEF PlacesOf
  <2>2. NoOp \notin StartupOps
    BY NoOpAssumption DEF StartupOps
  <2> QED
    BY <1>1, <2>1, <2>2 DEF HeldBy
<1>4. HeldPlaces' = HeldPlaces \ {x}
  <2>1. ASSUME NEW h \in HeldPlaces'
        PROVE  h \in HeldPlaces /\ h # x
    <3>1. PICK m \in Models, w \in Workers : \E i \in HeldBy(m, w)' : h = <<m, w, i>>
      BY HeldMembers
    <3>2. PICK i \in HeldBy(m, w)' : h = <<m, w, i>>
      BY <3>1
    <3>3. i \in HeldBy(m, w) /\ (m # n \/ w # v \/ i # 0)
      BY <1>2, <1>3
    <3> QED
      BY <3>2, <3>3, HeldMembers
  <2>2. ASSUME NEW h \in HeldPlaces, h # x
        PROVE  h \in HeldPlaces'
    <3>1. PICK m \in Models, w \in Workers : \E i \in HeldBy(m, w) : h = <<m, w, i>>
      BY HeldMembers
    <3>2. PICK i \in HeldBy(m, w) : h = <<m, w, i>>
      BY <3>1
    <3>3. i \in HeldBy(m, w)'
      BY <1>2, <1>3, <2>2, <3>2
    <3> QED
      BY <3>2, <3>3, HeldMembers
  <2> QED
    BY <2>1, <2>2
<1>5. x \in HeldPlaces <=> work[n][v] \in StartupOps
  BY <1>3, HeldMembers
<1> HIDE DEF x
<1>6. Cardinality(HeldPlaces) \in Nat
  BY FS_CardinalityType
<1>7. /\ IsFiniteSet(HeldPlaces')
      /\ Cardinality(HeldPlaces') =
           IF x \in HeldPlaces THEN Cardinality(HeldPlaces) - 1 ELSE Cardinality(HeldPlaces)
  BY <1>4, FS_RemoveElement
<1>8. Cardinality(HeldPlaces') \in Nat
  BY <1>7, FS_CardinalityType
<1> QED
  BY <1>5, <1>6, <1>7, <1>8 DEF OneIf

\* Before anything is started nothing is counted, and nothing is there.
LEMMA InitWait == Init => WaitIInv
<1> SUFFICES ASSUME Init PROVE WaitIInv
  OBVIOUS
<1> QED
  BY DEF Init, PullerInit, WaitIInv, PullerAtRest, Busy, Running

\* A puller that is started finds its operations in the channel, and counts them
\* all; a command sent while the agent watches is none of them.
LEMMA LifeCycleWait ==
  ASSUME IInv, IInv', WaitIInv, Boot \/ Command \/ StartPuller \/ WaitReturns
  PROVE  WaitIInv'
<1> USE DEF IInv
<1>1. UNCHANGED <<modelOps, work, completions, sending>> /\ HeldPlaces' = HeldPlaces
  BY HeldRests DEF Boot, Command, StartPuller, WaitReturns, pullerVars
<1>2. PullerAtRest'
  BY <1>1 DEF WaitIInv, PullerAtRest, Busy, Boot, Command, StartPuller, WaitReturns
<1>3. CASE Boot
  BY <1>2, <1>3 DEF Boot, WaitIInv, Running
<1>4. CASE Command
  <2>1. phase' = phase /\ waitCount' = waitCount
    BY <1>4 DEF Command, pullerVars
  <2> SUFFICES ASSUME Running PROVE WaitCovers'
    BY <1>2, <2>1 DEF WaitIInv, Running
  <2>2. PICK op \in Commands : events' = Append(events, op)
    BY <1>4 DEF Command, SendEvent
  <2>3. phase = "watching"
    BY <1>4 DEF Command, Running
  <2>4. op \in ModelOp /\ op \notin StartupOps
    <3>1. \/ \E m \in Models, s \in Specs : op = AddOp(m, s, phase = "syncing")
          \/ \E m \in Models : op = RemoveOp(m)
      BY DEF Commands
    <3> DEFINE b == phase = "syncing"
    <3>2. b = FALSE
      BY <2>3
    <3> HIDE DEF b
    <3>3. \A m, s : ~AddOp(m, s, b).onStartup /\ ~RemoveOp(m).onStartup
      BY <3>2 DEF AddOp, RemoveOp
    <3>4. ~op.onStartup
      BY <3>1, <3>3 DEF b
    <3> QED
      BY <3>4, CommandsAreOps DEF StartupOps
  <2>5. events \in Seq(ModelOp)
    BY DEF TypeOK
  <2>6. PlacesOf(events', StartupOps) = PlacesOf(events, StartupOps)
    BY <2>2, <2>4, <2>5, PlacesAppend
  <2> QED
    BY <1>1, <2>1, <2>6 DEF WaitIInv, WaitCovers, OutstandingStartup
<1>5. CASE StartPuller
  <2>1. /\ phase = "syncing" /\ phase' = "starting"
        /\ waitCount' = Len(events) /\ events' = events
    BY <1>5 DEF StartPuller
  <2>2. sending = NoOp /\ completions = <<>> /\ \A m \in Models, w \in Workers : ~Busy(m, w)
    BY <2>1 DEF WaitIInv, PullerAtRest
  <2>3. NoOp \notin StartupOps /\ \A S : PlacesOf(<<>>, S) = {}
    BY NoOpAssumption, EmptySeq DEF StartupOps, PlacesOf
  <2>4. HeldPlaces = {}
    <3>1. \A m \in Models, w \in Workers : HeldBy(m, w) = {}
      BY <2>2, <2>3 DEF HeldBy, Busy
    <3> QED
      BY <3>1, HeldMembers
  <2>5. IsFiniteSet(HeldPlaces') /\ Cardinality(HeldPlaces') = 0
    BY <1>1, <2>4, FS_EmptySet
  <2>6. OneIf(sending' \in StartupOps) = 0
    BY <1>1, <2>2, <2>3 DEF OneIf
  <2>7. Cardinality(PlacesOf(completions', StartupOps)) = 0
    BY <1>1, <2>2, <2>3, FS_EmptySet
  <2>8. /\ Cardinality(PlacesOf(events', StartupOps)) <= waitCount'
        /\ Cardinality(PlacesOf(events', StartupOps)) \in Nat
    BY <2>1, PlacesFinite DEF TypeOK
  <2>9. WaitCovers'
    BY <2>1, <2>5, <2>6, <2>7, <2>8 DEF WaitCovers, OutstandingStartup
  <2> QED
    BY <1>2, <2>9 DEF WaitIInv
<1>6. CASE WaitReturns
  <2>1. /\ phase = "starting" /\ phase' = "watching" /\ waitCount = 0
        /\ events' = events
    BY <1>6 DEF WaitReturns
  <2>2. WaitCovers
    BY <2>1 DEF WaitIInv, Running
  <2>3. WaitCovers'
    BY <1>1, <2>1, <2>2 DEF WaitCovers, OutstandingStartup
  <2> QED
    BY <1>2, <2>3 DEF WaitIInv
<1> QED
  BY <1>3, <1>4, <1>5, <1>6

\* A killed agent is down, with nothing left in memory.
LEMMA CrashWait ==
  ASSUME Crash
  PROVE  WaitIInv'
BY DEF Crash, WaitIInv, PullerAtRest, Busy, Running

\* In a process that has its puller, it is enough to keep the count covered.
LEMMA RunningWait ==
  ASSUME WaitIInv, Running, UNCHANGED phase, WaitCovers => WaitCovers'
  PROVE  WaitIInv'
BY DEF WaitIInv, PullerAtRest, Running

\* The operation that enqueueModelOp takes from the channel is the one it sends.
LEMMA TakeCommandWait ==
  ASSUME IInv, IInv', WaitIInv, TakeCommand
  PROVE  WaitIInv'
<1> DEFINE op == Head(events)
<1>1. /\ Running /\ sending = NoOp /\ sending' = op /\ events' = Tail(events)
      /\ UNCHANGED <<phase, modelOps, work, completions, waitCount>>
  BY DEF TakeCommand
<1>2. events \in Seq(ModelOp) /\ events # <<>>
  BY DEF TakeCommand, IInv, TypeOK
<1>3. Cardinality(PlacesOf(events, StartupOps)) =
        Cardinality(PlacesOf(events', StartupOps)) + OneIf(sending' \in StartupOps)
  BY <1>1, <1>2, PlacesTail
<1>4. OneIf(sending \in StartupOps) = 0
  BY <1>1, NoOpAssumption DEF StartupOps, OneIf
<1>5. HeldPlaces' = HeldPlaces
  BY <1>1, HeldRests
<1>6. ASSUME WaitCovers PROVE WaitCovers'
  <2>1. OutstandingParts /\ OutstandingParts'
    BY <1>5, <1>6, OutstandingIsSum DEF IInv, WaitCovers
  <2>2. OutstandingStartup' = OutstandingStartup
    BY <1>1, <1>3, <1>4, <1>5, <2>1 DEF OutstandingStartup, OutstandingParts
  <2> QED
    BY <1>1, <1>5, <1>6, <2>2 DEF WaitCovers
<1> QED
  BY <1>1, <1>6, RunningWait

\* It reaches the buffer of a processor.
LEMMA SendToProcessorWait ==
  ASSUME IInv, IInv', WaitIInv, SendToProcessor
  PROVE  WaitIInv'
<1> DEFINE n == sending.model
           v == chan[n]
<1>1. sending \in ModelOp /\ sending # NoOp /\ n \in Models
  BY DEF SendToProcessor, IInv, TypeOK, ModelOp
<1>2. v \in Workers
  BY <1>1 DEF IInv, InFlightIsOutstanding, TypeOK
<1>3. /\ sending' = NoOp
      /\ modelOps' = [modelOps EXCEPT ![n][v] = Append(@, sending)]
      /\ UNCHANGED <<phase, events, work, completions, waitCount>>
  BY DEF SendToProcessor
<1>4. Running
  BY <1>1 DEF WaitIInv, PullerAtRest, Running, IInv, TypeOK, Phases
<1>5. OneIf(sending' \in StartupOps) = 0
  BY <1>3, NoOpAssumption DEF StartupOps, OneIf
<1> HIDE DEF n, v
<1>6. ASSUME WaitCovers PROVE WaitCovers'
  <2>1. /\ IsFiniteSet(HeldPlaces')
        /\ Cardinality(HeldPlaces') =
             Cardinality(HeldPlaces) + OneIf(sending \in StartupOps)
    BY <1>1, <1>2, <1>3, <1>6, HeldAfterSend DEF IInv, WaitCovers
  <2>2. OutstandingParts /\ OutstandingParts'
    BY <1>6, <2>1, OutstandingIsSum DEF IInv, WaitCovers
  <2>3. OutstandingStartup' = OutstandingStartup
    BY <1>3, <1>5, <2>1, <2>2 DEF OutstandingStartup, OutstandingParts
  <2> QED
    BY <1>3, <1>6, <2>1, <2>3 DEF WaitCovers
<1> QED
  BY <1>3, <1>4, <1>6, RunningWait

\* modelOpComplete calls Done exactly for the operations of the startup.
LEMMA CompleteOpWait ==
  ASSUME IInv, IInv', WaitIInv, CompleteOp
  PROVE  WaitIInv'
<1> DEFINE op == Head(completions)
<1>1. /\ Running /\ completions' = Tail(completions)
      /\ waitCount' = IF op.onStartup THEN waitCount - 1 ELSE waitCount
      /\ UNCHANGED <<phase, events, modelOps, work, sending>>
  BY DEF CompleteOp
<1>2. completions \in Seq(ModelOp) /\ completions # <<>> /\ op \in ModelOp
  BY HeadTailProperties DEF CompleteOp, IInv, TypeOK
<1>3. Cardinality(PlacesOf(completions, StartupOps)) =
        Cardinality(PlacesOf(completions', StartupOps)) + OneIf(op \in StartupOps)
  BY <1>1, <1>2, PlacesTail
<1>4. waitCount' = waitCount - OneIf(op \in StartupOps) /\ waitCount \in Int
  BY <1>1, <1>2 DEF StartupOps, OneIf, IInv, TypeOK
<1> HIDE DEF op
<1>5. HeldPlaces' = HeldPlaces
  BY <1>1, HeldRests
<1>6. ASSUME WaitCovers PROVE WaitCovers'
  <2>1. OutstandingParts /\ OutstandingParts'
    BY <1>5, <1>6, OutstandingIsSum DEF IInv, WaitCovers
  <2>2. OneIf(op \in StartupOps) \in Nat
    BY DEF OneIf
  <2>3. OutstandingStartup' = OutstandingStartup - OneIf(op \in StartupOps)
        /\ OutstandingStartup \in Nat
    <3>1. /\ PlacesOf(events', StartupOps) = PlacesOf(events, StartupOps)
          /\ OneIf(sending' \in StartupOps) = OneIf(sending \in StartupOps)
      BY <1>1
    <3> HIDE DEF OneIf
    <3> QED
      BY <1>3, <1>5, <2>1, <2>2, <3>1 DEF OutstandingStartup, OutstandingParts
  <2> QED
    BY <1>1, <1>4, <1>5, <1>6, <2>2, <2>3 DEF WaitCovers
<1> QED
  BY <1>1, <1>6, RunningWait

LEMMA ReceiveWait ==
  ASSUME IInv, IInv', WaitIInv, NEW n \in Models, NEW v \in Workers, Receive(n, v)
  PROVE  WaitIInv'
<1>1. UNCHANGED <<phase, events, completions, sending, waitCount>>
  BY DEF Receive
<1>2. Running
  BY DEF Receive, WaitIInv, PullerAtRest, Busy, Running, IInv, TypeOK, Phases
<1>3. ASSUME WaitCovers PROVE WaitCovers'
  <2>1. IsFiniteSet(HeldPlaces') /\ Cardinality(HeldPlaces') = Cardinality(HeldPlaces)
    BY <1>3, HeldAfterReceive DEF IInv, WaitCovers
  <2>2. OutstandingStartup' = OutstandingStartup
    BY <1>1, <2>1 DEF OutstandingStartup
  <2> QED
    BY <1>1, <1>3, <2>1, <2>2 DEF WaitCovers
<1> QED
  BY <1>1, <1>2, <1>3, RunningWait

LEMMA ProcessOpWait ==
  ASSUME WaitIInv, NEW n \in Models, NEW v \in Workers, ProcessOp(n, v)
  PROVE  WaitIInv'
<1>1. UNCHANGED <<phase, events, modelOps, work, completions, sending, waitCount>>
  BY ProcessOpMoves DEF ProcessorMoves
<1>2. HeldPlaces' = HeldPlaces
  BY <1>1, HeldRests
<1> QED
  BY <1>1, <1>2 DEF WaitIInv, PullerAtRest, Busy, Running, WaitCovers, OutstandingStartup

LEMMA FinishWait ==
  ASSUME IInv, IInv', WaitIInv, NEW n \in Models, NEW v \in Workers, Finish(n, v)
  PROVE  WaitIInv'
<1> DEFINE op == work[n][v]
<1>1. /\ op # NoOp /\ completions' = Append(completions, op)
      /\ UNCHANGED <<phase, events, sending, waitCount>>
  BY DEF Finish
<1>2. completions \in Seq(ModelOp) /\ op \in ModelOp
  BY <1>1 DEF IInv, TypeOK
<1>3. Running
  BY <1>1 DEF WaitIInv, PullerAtRest, Busy, Running, IInv, TypeOK, Phases
<1>4. Cardinality(PlacesOf(completions', StartupOps)) =
        Cardinality(PlacesOf(completions, StartupOps)) + OneIf(op \in StartupOps)
  BY <1>1, <1>2, PlacesAppend
<1>5. ASSUME WaitCovers PROVE WaitCovers'
  <2>1. /\ IsFiniteSet(HeldPlaces')
        /\ Cardinality(HeldPlaces) = Cardinality(HeldPlaces') + OneIf(op \in StartupOps)
    BY <1>5, HeldAfterFinish DEF IInv, WaitCovers
  <2>2. OutstandingParts /\ OutstandingParts' /\ OneIf(op \in StartupOps) \in Nat
    BY <1>5, <2>1, OutstandingIsSum DEF IInv, WaitCovers, OneIf
  <2> HIDE DEF op
  <2>3. OutstandingStartup' = OutstandingStartup
    BY <1>1, <1>4, <2>1, <2>2 DEF OutstandingStartup, OutstandingParts
  <2> QED
    BY <1>1, <1>5, <2>1, <2>3 DEF WaitCovers
<1> QED
  BY <1>1, <1>3, <1>5, RunningWait

LEMMA NextWait ==
  ASSUME IInv, IInv', WaitIInv, [Next]_vars
  PROVE  WaitIInv'
<1>1. CASE Boot \/ Command \/ StartPuller \/ WaitReturns
  BY <1>1, LifeCycleWait
<1>2. CASE Crash
  BY <1>2, CrashWait
<1>3. CASE TakeCommand \/ SendToProcessor \/ CompleteOp
  BY <1>3, TakeCommandWait, SendToProcessorWait, CompleteOpWait
<1>4. ASSUME NEW m \in Models, NEW w \in Workers, Processor(m, w) PROVE WaitIInv'
  BY <1>4, ReceiveWait, ProcessOpWait, FinishWait DEF Processor
<1>5. CASE UNCHANGED vars
  <2>1. UNCHANGED <<phase, events, modelOps, work, completions, sending, waitCount>>
    BY <1>5 DEF vars, pullerVars
  <2>2. HeldPlaces' = HeldPlaces
    BY <2>1, HeldRests
  <2> QED
    BY <2>1, <2>2 DEF WaitIInv, PullerAtRest, Busy, Running, WaitCovers, OutstandingStartup
<1> QED
  BY <1>1, <1>2, <1>3, <1>4, <1>5 DEF Next, PullerStep

\* Once the wait is over, a count that is covered is a count of none.
LEMMA WaitOver == IInv /\ WaitIInv => StartupCompletesFirst
<1> SUFFICES ASSUME IInv, WaitIInv, phase = "watching",
                    NEW op \in ModelOp, Outstanding(op), op.onStartup
             PROVE  FALSE
  BY DEF StartupCompletesFirst
<1>1. WaitCovers /\ OutstandingParts /\ op \in StartupOps
  BY OutstandingIsSum DEF WaitIInv, Running, IInv, WaitCovers, StartupOps
<1>2. /\ Cardinality(HeldPlaces) = 0
      /\ Cardinality(PlacesOf(events, StartupOps)) = 0
      /\ Cardinality(PlacesOf(completions, StartupOps)) = 0
      /\ OneIf(sending \in StartupOps) = 0
  BY <1>1 DEF WaitCovers, OutstandingStartup, OutstandingParts
<1>3. /\ HeldPlaces = {}
      /\ PlacesOf(events, StartupOps) = {}
      /\ PlacesOf(completions, StartupOps) = {}
      /\ sending \notin StartupOps
  BY <1>1, <1>2, FS_EmptySet, PlacesFinite DEF OutstandingParts, OneIf, IInv, TypeOK
<1>4. \A m \in Models, w \in Workers : HeldBy(m, w) = {}
  BY <1>3, HeldMembers
<1> QED
  BY <1>1, <1>3, <1>4 DEF Outstanding, PlacesOf, HeldBy

-----------------------------------------------------------------------------
(* The theorems.                                                           *)

\* The accounting of the puller: from any step to the next, opsInFlight is the
\* number of operations of the model on their way through the puller.
THEOREM NextIInv == IInv /\ [Next]_vars => IInv'
<1> SUFFICES ASSUME IInv, [Next]_vars PROVE IInv'
  OBVIOUS
<1>1. CASE Boot \/ Command \/ StartPuller \/ WaitReturns
  BY <1>1, LifeCycleIInv
<1>2. CASE Crash
  BY <1>2, CrashIInv
<1>3. CASE TakeCommand
  BY <1>3, TakeCommandIInv
<1>4. CASE SendToProcessor
  BY <1>4, SendToProcessorIInv
<1>5. CASE CompleteOp
  BY <1>5, CompleteOpIInv
<1>6. ASSUME NEW m \in Models, NEW w \in Workers, Processor(m, w) PROVE IInv'
  BY <1>6, ReceiveIInv, ProcessOpIInv, FinishIInv DEF Processor
<1>7. CASE UNCHANGED vars
  <2>1. UNCHANGED <<phase, events, data, marker, served, chan, inFlight, modelOps,
                    work, step, completions, sending, waitCount>>
    BY <1>7 DEF vars, storeVars, pullerVars
  <2> QED
    BY <2>1 DEF IInv, TypeOK, OpsAtHome, NoOrphanedProcessor, Busy,
       InFlightIsOutstanding, OpsWith, CompletedOps
<1> QED
  BY <1>1, <1>2, <1>3, <1>4, <1>5, <1>6, <1>7 DEF Next, PullerStep

\* The inductive invariant holds in every reachable state.
THEOREM PullerIInv == Spec => []IInv
  BY InitIInv, NextIInv, PTL DEF Spec

\* The puller's variables keep their types, opsInFlight among them: it never
\* drops below zero.
THEOREM PullerTypeOK == Spec => []TypeOK
<1>1. IInv => TypeOK
  BY DEF IInv
<1> QED
  BY <1>1, PullerIInv, PTL

\* opsInFlight is exact for any number of models and any channel capacities.
THEOREM PullerAccounting == Spec => []InFlightIsOutstanding
<1>1. IInv => InFlightIsOutstanding
  BY DEF IInv
<1> QED
  BY <1>1, PullerIInv, PTL

\* No two processors ever have work for the same model.
THEOREM PullerExclusion == Spec => []OneProcessorPerModel
<1>1. IInv => OneProcessorPerModel
  BY DEF IInv, NoOrphanedProcessor, OneProcessorPerModel
<1> QED
  BY <1>1, PullerIInv, PTL
\* "The puller will wait until all models have been loaded before starting the
\* watcher": for any models and channel sizes and whatever fails, no operation of
\* the startup is left when the agent goes on to watch and to serve.
THEOREM StartupIsWaitedFor == Spec => []StartupCompletesFirst
<1>1. IInv /\ IInv' /\ WaitIInv /\ [Next]_vars => WaitIInv'
  BY NextWait
<1> QED
  BY <1>1, PullerIInv, InitWait, WaitOver, PTL DEF Spec

-----------------------------------------------------------------------------
(* The agent: the puller with its watcher.                                 *)

HIDE DEF EventsTypeOK, StoreTypeOK

LEMMA NewCommands ==
  ASSUME NEW m \in Models
  PROVE  /\ RemoveOp(m) \in Commands
         /\ \A s \in Specs : AddOp(m, s, phase = "syncing") \in Commands
BY DEF Commands

-----------------------------------------------------------------------------
LEMMA AgentInitIInv == AgentInit => IInv /\ WatcherIInv /\ crashes \in 0..MaxCrashes
<1> SUFFICES ASSUME AgentInit
             PROVE  IInv /\ WatcherIInv /\ crashes \in 0..MaxCrashes
  OBVIOUS
<1>1. IInv
  BY InitIInv DEF AgentInit
<1>2. WatcherTypeOK
  <2>1. outbox \in Seq(ModelOp)
    BY DEF AgentInit, WatcherInit
  <2>2. /\ snapshot \in Configs /\ tracker \in Configs /\ stale \in [Models -> BOOLEAN]
        /\ changes \in 0..MaxChanges /\ notified \in 0..MaxChanges
    BY ChangesAssumption DEF AgentInit, WatcherInit, Configs, NoConfig
  <2> QED
    BY <2>1, <2>2 DEF AgentInit, WatcherInit, WatcherTypeOK
<1>3. phase = "down" /\ parse = "idle" /\ outbox = <<>> /\ notified <= changes
  BY DEF AgentInit, Init, WatcherInit
<1>4. ParseRight
  BY <1>3, NoSpecAssumption DEF AgentInit, WatcherInit, ParseRight, InConfig, NoConfig
<1> QED
  BY <1>1, <1>2, <1>3, <1>4, CrashesAssumption DEF WatcherIInv, AgentInit

\* A step that leaves the watcher alone, in a process that lives.
LEMMA WatcherRests ==
  ASSUME WatcherIInv, UNCHANGED watcherVars,
         \/ phase' = phase
         \/ parse = "idle" /\ phase # "down"
  PROVE  WatcherIInv'
<1>1. /\ config' = config /\ changes' = changes /\ notified' = notified /\ snapshot' = snapshot
      /\ tracker' = tracker /\ stale' = stale /\ nilTracker' = nilTracker
      /\ parse' = parse /\ unseen' = unseen /\ outbox' = outbox
  BY DEF watcherVars, trackerVars
<1>2. WatcherTypeOK'
  BY <1>1 DEF WatcherIInv, WatcherTypeOK
<1>3. phase' = phase \/ outbox = <<>>
  BY DEF WatcherIInv
<1>4. \A i \in DOMAIN outbox' : outbox'[i] \in Commands'
  BY <1>1, <1>3 DEF WatcherIInv, Commands
<1>5. ParseRight'
  BY <1>1 DEF WatcherIInv, ParseRight, Marked, InConfig
<1> QED
  BY <1>1, <1>2, <1>4, <1>5 DEF WatcherIInv

\* The process dies.
LEMMA DiesKeeps ==
  ASSUME WatcherIInv, Dies
  PROVE  WatcherIInv'
<1>1. /\ phase' = "down" /\ parse' = "idle" /\ outbox' = <<>> /\ notified' = 0
      /\ config' = config /\ changes' = changes
      /\ snapshot' = NoConfig /\ tracker' = NoConfig
      /\ stale' = [m \in Models |-> FALSE] /\ nilTracker' = FALSE /\ unseen' = {}
  BY DEF Dies, Crash, ForgetWatcher
<1>2. WatcherTypeOK'
  <2>1. outbox' \in Seq(ModelOp)
    BY <1>1
  <2>2. /\ snapshot' \in Configs /\ tracker' \in Configs /\ stale' \in [Models -> BOOLEAN]
        /\ notified' \in 0..MaxChanges
    BY <1>1, ChangesAssumption DEF Configs, NoConfig
  <2> QED
    BY <1>1, <2>1, <2>2 DEF WatcherIInv, WatcherTypeOK
<1>3. ParseRight'
  BY <1>1 DEF ParseRight, InConfig, NoConfig
<1>4. notified' <= changes'
  BY <1>1, ChangesAssumption DEF WatcherIInv, WatcherTypeOK
<1> QED
  BY <1>1, <1>2, <1>3, <1>4 DEF WatcherIInv

\* A configuration is read when every model that is tracked is stale.
LEMMA ReadKeeps ==
  ASSUME ReadConfig, config \in Configs, \A m \in InConfig(tracker') : stale'[m]
  PROVE  /\ ParseRight'
         /\ snapshot' \in Configs /\ parse' = "mark" /\ unseen' \in SUBSET Models
BY DEF ReadConfig, ParseRight, Marked, InConfig, Configs

LEMMA NewWatcherKeeps ==
  ASSUME WatcherIInv, NewWatcher
  PROVE  WatcherIInv'
<1>1. /\ phase = "down" /\ phase' = "syncing" /\ parse = "idle" /\ outbox' = <<>>
      /\ config' = config /\ changes' = changes /\ notified' = notified
  BY DEF NewWatcher, Boot, WatcherIInv
<1>2. tracker' \in Configs /\ nilTracker' \in BOOLEAN
  BY DEF NewWatcher, Configs, NoConfig, SyncModelDirFails
<1>3. stale' = [m \in Models |-> tracker'[m] # NoSpec]
  BY DEF NewWatcher
<1>4. \A m \in InConfig(tracker') : stale'[m]
  BY <1>3 DEF InConfig
<1>5. ParseRight' /\ snapshot' \in Configs /\ parse' = "mark" /\ unseen' \in SUBSET Models
  BY <1>4, ReadKeeps DEF NewWatcher, WatcherIInv, WatcherTypeOK
<1>6. stale' \in [Models -> BOOLEAN]
  BY <1>3
<1>7. WatcherTypeOK'
  BY <1>1, <1>2, <1>5, <1>6 DEF WatcherIInv, WatcherTypeOK
<1> QED
  BY <1>1, <1>5, <1>7 DEF WatcherIInv

LEMMA ConfigUpdateKeeps ==
  ASSUME WatcherIInv, ConfigUpdate
  PROVE  WatcherIInv'
<1>1. /\ config' \in Configs /\ changes < MaxChanges /\ changes' = changes + 1
      /\ notified' \in {notified, notified + 1}
      /\ phase' = phase /\ snapshot' = snapshot
      /\ tracker' = tracker /\ stale' = stale /\ nilTracker' = nilTracker
      /\ parse' = parse /\ unseen' = unseen /\ outbox' = outbox
  BY DEF ConfigUpdate, trackerVars
<1>2. WatcherTypeOK' /\ notified' <= changes'
  BY <1>1, ChangesAssumption DEF WatcherIInv, WatcherTypeOK
<1>3. ParseRight'
  BY <1>1 DEF WatcherIInv, ParseRight, Marked, InConfig
<1> QED
  BY <1>1, <1>2, <1>3 DEF WatcherIInv, Commands

LEMMA NotificationKeeps ==
  ASSUME WatcherIInv, ReceiveNotification
  PROVE  WatcherIInv'
<1>1. /\ phase = "watching" /\ phase' = phase /\ parse = "idle" /\ outbox' = <<>>
      /\ config' = config /\ changes' = changes /\ notified > 0 /\ notified' = notified - 1
      /\ tracker' = tracker /\ stale' = stale /\ nilTracker' = nilTracker
  BY DEF ReceiveNotification, WatcherIInv, trackerVars
<1>2. \A m \in InConfig(tracker') : stale'[m]
  BY <1>1 DEF WatcherIInv, ParseRight, InConfig
<1>3. ParseRight' /\ snapshot' \in Configs /\ parse' = "mark" /\ unseen' \in SUBSET Models
  BY <1>2, ReadKeeps DEF ReceiveNotification, WatcherIInv, WatcherTypeOK
<1>4. WatcherTypeOK' /\ notified' <= changes'
  BY <1>1, <1>3, ChangesAssumption DEF WatcherIInv, WatcherTypeOK
<1> QED
  BY <1>1, <1>3, <1>4 DEF WatcherIInv

-----------------------------------------------------------------------------
(* The steps of parseConfig.                                               *)

\* At most two commands are sent for one model.
LEMMA OutboxOf ==
  ASSUME NEW a \in Commands, NEW b \in Commands
  PROVE  /\ <<a>> \in Seq(ModelOp) /\ \A i \in DOMAIN <<a>> : <<a>>[i] \in Commands
         /\ <<a, b>> \in Seq(ModelOp) /\ \A i \in DOMAIN <<a, b>> : <<a, b>>[i] \in Commands
BY CommandsAreOps

LEMMA NoneInOutbox == <<>> \in Seq(ModelOp) /\ \A i \in DOMAIN <<>> : <<>>[i] \in Commands
OBVIOUS

LEMMA MarkKeeps ==
  ASSUME WatcherIInv, NEW m \in Models, MarkModel(m)
  PROVE  WatcherIInv'
<1>1. /\ parse = "mark" /\ parse' = "mark" /\ m \in unseen /\ unseen' = unseen \ {m} /\ outbox = <<>>
      /\ phase' = phase /\ config' = config /\ changes' = changes /\ notified' = notified
      /\ snapshot' = snapshot /\ nilTracker' = nilTracker
      /\ stale' = [stale EXCEPT ![m] = FALSE]
  BY DEF MarkModel
<1>2. snapshot[m] \in Specs
  BY <1>1 DEF WatcherIInv, WatcherTypeOK, ParseRight, InConfig, Configs
<1>3. /\ tracker' \in Configs
      /\ tracker'[m] # NoSpec
      /\ \A k \in Models \ {m} : tracker'[k] = tracker[k]
  <2>1. tracker \in Configs
    BY DEF WatcherIInv, WatcherTypeOK
  <2>2. CASE tracker[m] = NoSpec /\ tracker' = [tracker EXCEPT ![m] = snapshot[m]]
    BY <1>2, <2>1, <2>2, NoSpecAssumption DEF Configs
  <2>3. CASE tracker[m] # NoSpec /\ tracker' = tracker
    BY <2>1, <2>3
  <2> QED
    BY <1>2, <2>2, <2>3, NoSpecAssumption DEF MarkModel
<1>4. outbox' \in Seq(ModelOp) /\ \A i \in DOMAIN outbox' : outbox'[i] \in Commands
  <2> DEFINE add == AddOp(m, snapshot[m], phase = "syncing")
  <2>1. add \in Commands /\ RemoveOp(m) \in Commands
    BY <1>2, NewCommands
  <2>2. outbox' \in {<<>>, <<add>>, <<RemoveOp(m), add>>}
    BY <1>1 DEF MarkModel
  <2> HIDE DEF add
  <2> QED
    BY <2>1, <2>2, OutboxOf, NoneInOutbox
<1>5. stale' \in [Models -> BOOLEAN] /\ unseen' \in SUBSET Models
  BY <1>1 DEF WatcherIInv, WatcherTypeOK
<1>6. WatcherTypeOK'
  BY <1>1, <1>3, <1>4, <1>5 DEF WatcherIInv, WatcherTypeOK
<1>7. ~stale'[m] /\ \A k \in Models \ {m} : stale'[k] = stale[k]
  BY <1>1 DEF WatcherIInv, WatcherTypeOK
<1>8. ParseRight'
  BY <1>1, <1>2, <1>3, <1>7 DEF WatcherIInv, ParseRight, Marked, InConfig
<1> QED
  BY <1>1, <1>4, <1>6, <1>8 DEF WatcherIInv, Commands

LEMMA SweepKeeps ==
  ASSUME WatcherIInv, NEW m \in Models, SweepModel(m)
  PROVE  WatcherIInv'
<1>1. /\ parse = "sweep" /\ parse' = "sweep" /\ m \in unseen /\ unseen' = unseen \ {m} /\ outbox = <<>>
      /\ phase' = phase /\ config' = config /\ changes' = changes /\ notified' = notified
      /\ snapshot' = snapshot /\ nilTracker' = nilTracker
  BY DEF SweepModel
<1>2. /\ tracker \in Configs /\ stale \in [Models -> BOOLEAN]
  BY DEF WatcherIInv, WatcherTypeOK
<1>3. /\ tracker' \in Configs /\ stale' \in [Models -> BOOLEAN]
      /\ \A k \in Models \ {m} : tracker'[k] = tracker[k] /\ stale'[k] = stale[k]
      /\ IF stale[m] THEN tracker'[m] = NoSpec ELSE tracker'[m] = tracker[m] /\ stale'[m]
  <2>1. CASE stale[m]
    BY <1>2, <2>1 DEF SweepModel, Configs
  <2>2. CASE ~stale[m]
    BY <1>2, <2>2 DEF SweepModel
  <2> QED
    BY <2>1, <2>2
<1>4. outbox' \in Seq(ModelOp) /\ \A i \in DOMAIN outbox' : outbox'[i] \in Commands
  <2>1. RemoveOp(m) \in Commands
    BY NewCommands
  <2>2. outbox' \in {<<>>, <<RemoveOp(m)>>}
    BY <1>1 DEF SweepModel
  <2> QED
    BY <2>1, <2>2, OutboxOf, NoneInOutbox
<1>5. WatcherTypeOK'
  BY <1>1, <1>3, <1>4 DEF WatcherIInv, WatcherTypeOK
<1>6. ParseRight'
  BY <1>1, <1>3 DEF WatcherIInv, ParseRight, InConfig
<1> QED
  BY <1>1, <1>4, <1>5, <1>6 DEF WatcherIInv, Commands

\* A command that is sent is one that the puller expects in this phase.
LEMMA SendKeeps ==
  ASSUME WatcherIInv, SendCommand
  PROVE  /\ WatcherIInv'
         /\ phase \in {"syncing", "watching"} /\ \E op \in Commands : SendEvent(op)
<1>1. /\ outbox # <<>> /\ outbox' = Tail(outbox) /\ SendEvent(Head(outbox))
      /\ phase' = phase /\ config' = config /\ changes' = changes /\ notified' = notified
      /\ snapshot' = snapshot /\ tracker' = tracker /\ stale' = stale /\ nilTracker' = nilTracker
      /\ parse' = parse /\ unseen' = unseen
  BY DEF SendCommand, trackerVars
<1>2. outbox \in Seq(ModelOp) /\ \A i \in DOMAIN outbox : outbox[i] \in Commands
  BY DEF WatcherIInv, WatcherTypeOK
<1>3. /\ outbox' \in Seq(ModelOp)
      /\ Head(outbox) \in Commands
      /\ \A i \in DOMAIN outbox' : outbox'[i] \in Commands
  BY <1>1, <1>2, HeadTailProperties, LenProperties, EmptySeq
<1>4. parse # "idle"
  BY <1>1 DEF WatcherIInv
<1>5. WatcherTypeOK'
  BY <1>1, <1>3 DEF WatcherIInv, WatcherTypeOK
<1>6. ParseRight'
  BY <1>1 DEF WatcherIInv, ParseRight, Marked, InConfig
<1> QED
  BY <1>1, <1>3, <1>4, <1>5, <1>6 DEF WatcherIInv, Commands

LEMMA LoopsKeep ==
  ASSUME WatcherIInv, StartSweep \/ EndSync
  PROVE  WatcherIInv'
<1>1. /\ unseen = {} /\ outbox = <<>> /\ outbox' = <<>>
      /\ phase' = phase /\ config' = config /\ changes' = changes /\ notified' = notified
      /\ snapshot' = snapshot /\ tracker' = tracker /\ stale' = stale /\ nilTracker' = nilTracker
  BY DEF StartSweep, EndSync, trackerVars
<1>2. \/ parse = "mark" /\ parse' = "sweep" /\ unseen' = InConfig(tracker)
      \/ parse = "sweep" /\ parse' = "idle" /\ unseen' = unseen
  BY DEF StartSweep, EndSync
<1>3. WatcherTypeOK'
  BY <1>1, <1>2 DEF WatcherIInv, WatcherTypeOK, InConfig
<1>4. ParseRight'
  BY <1>1, <1>2 DEF WatcherIInv, ParseRight, Marked, InConfig
<1> QED
  BY <1>1, <1>2, <1>3, <1>4 DEF WatcherIInv

\* The puller does not change the phase of the process.
LEMMA PullerStepPhase ==
  ASSUME PullerStep
  PROVE  phase' = phase
<1>1. ASSUME NEW m \in Models, NEW w \in Workers, ProcessOp(m, w)
      PROVE  phase' = phase
  BY <1>1, Zenon DEF ProcessOp, CheckSuccessFile, StatFails, DownloadBegins, DownloadEnds, DownloadFails,
       CreateSuccessFile, WriteSuccessFile, WriteFails, Load, Unload, RequestFails,
       RemoveDirMissing, RemoveDirBegins, RemoveDirEnds, RemoveDirFails, Goto
<1> QED
  BY <1>1 DEF PullerStep, TakeCommand, SendToProcessor, CompleteOp, Processor, Receive, Finish

-----------------------------------------------------------------------------
(* Both halves.                                                            *)

AgentIInv == IInv /\ WatcherIInv /\ crashes \in 0..MaxCrashes

\* Every step of the agent is one of the puller and its environment, or none.
LEMMA AgentStep ==
  ASSUME AgentIInv, [AgentNext]_agentVars
  PROVE  [Next]_vars /\ AgentIInv'
<1> USE DEF AgentIInv
<1>1. CASE AgentConfigUpdate
  <2>1. UNCHANGED vars /\ WatcherIInv' /\ crashes' = crashes
    BY <1>1, ConfigUpdateKeeps DEF AgentConfigUpdate, ConfigUpdate, vars
  <2> QED
    BY <2>1, NextIInv
<1>2. CASE NewWatcher
  <2>1. Boot /\ WatcherIInv' /\ crashes' = crashes
    BY <1>2, NewWatcherKeeps DEF NewWatcher
  <2> QED
    BY <2>1, NextIInv DEF Next
<1>3. CASE StartPullerAndProcessModels
  <2>1. StartPuller /\ UNCHANGED watcherVars /\ crashes' = crashes /\ parse = "idle" /\ phase # "down"
    BY <1>3 DEF StartPullerAndProcessModels, StartPuller
  <2> QED
    BY <2>1, NextIInv, WatcherRests DEF Next
<1>4. CASE StartWatching
  <2>1. WaitReturns /\ UNCHANGED watcherVars /\ crashes' = crashes /\ parse = "idle" /\ phase # "down"
    BY <1>4 DEF StartWatching, WaitReturns, WatcherIInv
  <2> QED
    BY <2>1, NextIInv, WatcherRests DEF Next
<1>5. CASE Kill \/ Panic
  <2>1. Dies /\ Crash /\ crashes' \in 0..MaxCrashes
    BY <1>5, CrashesAssumption DEF Kill, Panic, Dies
  <2> QED
    BY <2>1, NextIInv, DiesKeeps DEF Next
<1>6. CASE AgentPull
  <2>1. PullerStep /\ UNCHANGED watcherVars /\ crashes' = crashes /\ phase' = phase
    BY <1>6, PullerStepPhase DEF AgentPull
  <2> QED
    BY <2>1, NextIInv, WatcherRests DEF Next
<1>7. CASE AgentWatch
  <2>0. UNCHANGED <<storeVars, pullerVars>> /\ crashes' = crashes
    BY <1>7 DEF AgentWatch
  <2>1. CASE SendCommand
    <3>1. Command /\ WatcherIInv'
      BY <2>0, <2>1, SendKeeps DEF Command, SendCommand
    <3> QED
      BY <2>0, <3>1, NextIInv DEF Next
  <2>2. ASSUME UNCHANGED <<phase, events>>, WatcherIInv'
        PROVE  [Next]_vars /\ AgentIInv'
    <3>1. UNCHANGED vars
      BY <2>0, <2>2 DEF vars
    <3> QED
      BY <2>0, <2>2, <3>1, NextIInv
  <2>3. CASE ReceiveNotification
    BY <2>2, <2>3, NotificationKeeps DEF ReceiveNotification
  <2>4. CASE StartSweep \/ EndSync
    BY <2>2, <2>4, LoopsKeep DEF StartSweep, EndSync
  <2>5. ASSUME NEW m \in Models, MarkModel(m) \/ SweepModel(m)
        PROVE  [Next]_vars /\ AgentIInv'
    BY <2>2, <2>5, MarkKeeps, SweepKeeps DEF MarkModel, SweepModel
  <2> QED
    BY <1>7, <2>1, <2>3, <2>4, <2>5 DEF AgentWatch, ParseStep
<1>8. CASE UNCHANGED agentVars
  <2>1. UNCHANGED vars /\ UNCHANGED watcherVars /\ crashes' = crashes
    BY <1>8 DEF agentVars
  <2> QED
    BY <2>1, NextIInv, WatcherRests DEF vars
<1> QED
  BY <1>1, <1>2, <1>3, <1>4, <1>5, <1>6, <1>7, <1>8 DEF AgentNext

\* The watcher sends only while the puller takes, and its tracker follows each parse.
THEOREM AgentInvariant == AgentSpec => []AgentIInv
<1>1. AgentInit => AgentIInv
  BY AgentInitIInv DEF AgentIInv
<1>2. AgentIInv /\ [AgentNext]_agentVars => AgentIInv'
  BY AgentStep
<1> QED
  BY <1>1, <1>2, PTL DEF AgentSpec

\* The agent is a puller whose commands come from the watcher: what was proved of
\* the puller under arbitrary commands holds of the agent (startModelPuller).
THEOREM AgentIsPuller == AgentSpec => Spec
<1>1. AgentInit => Init
  BY DEF AgentInit
<1>2. AgentIInv /\ [AgentNext]_agentVars => [Next]_vars
  BY AgentStep
<1> QED
  BY <1>1, <1>2, AgentInvariant, PTL DEF AgentSpec, Spec

\* Every variable keeps its type, and between two calls of parseConfig the tracker
\* has exactly the models of the configuration, all stale, also after a restart
\* over the files of an earlier process (watcher.go, parseConfig).
THEOREM TrackerFollowsConfig == AgentSpec => []AgentInv
<1>1. AgentIInv => AgentInv
  BY DEF AgentIInv, AgentInv, AgentTypeOK, IInv, WatcherIInv, ParseRight, TrackerMatchesConfig
<1> QED
  BY <1>1, AgentInvariant, PTL

-----------------------------------------------------------------------------
(* Commands in a queue.                                                    *)

\* A command at the end changes nothing for those before it.
LEMMA GoneAtAppend ==
  ASSUME NEW seq \in Seq(ModelOp), NEW op \in ModelOp, NEW m, NEW before \in BOOLEAN
  PROVE  /\ \A i \in 1..(Len(seq) + 1) :
              GoneAt(Append(seq, op), m, before, i) <=> GoneAt(seq, m, before, i)
         /\ op.model = m =>
              (LeavesGone(Append(seq, op), m, before) <=> op.op = "Remove")
         /\ op.model # m =>
              (LeavesGone(Append(seq, op), m, before) <=> LeavesGone(seq, m, before))
<1> DEFINE n == Len(seq) + 1
           new == Append(seq, op)
<1>1. /\ DOMAIN seq = 1..Len(seq) /\ Len(seq) \in Nat /\ Len(new) = n
      /\ DOMAIN new = 1..n
      /\ \A i \in 1..Len(seq) : new[i] = seq[i]
      /\ new[n] = op
  BY LenProperties
<1> HIDE DEF new
<1>2. OpsOf(seq, m) \subseteq 1..Len(seq)
  BY <1>1 DEF OpsOf
<1>3. OpsOf(new, m) = IF op.model = m THEN OpsOf(seq, m) \cup {n} ELSE OpsOf(seq, m)
  BY <1>1 DEF OpsOf
<1>4. \A i \in OpsOf(seq, m) : new[i] = seq[i]
  BY <1>1, <1>2
<1>5. ASSUME NEW i \in 1..n
      PROVE  GoneAt(new, m, before, i) <=> GoneAt(seq, m, before, i)
  BY <1>1, <1>2, <1>3, <1>4 DEF GoneAt
<1>6. CASE op.model = m
  <2>1. n \in OpsOf(new, m) /\ \A j \in OpsOf(new, m) : j <= n /\ n < n + 1
    BY <1>1, <1>2, <1>3, <1>6
  <2>2. LeavesGone(new, m, before) <=> op.op = "Remove"
    BY <1>1, <1>2, <1>3, <1>6, <2>1 DEF LeavesGone, GoneAt
  <2> QED
    BY <1>5, <1>6, <2>2 DEF new
<1>7. CASE op.model # m
  <2>1. LeavesGone(new, m, before) <=> LeavesGone(seq, m, before)
    BY <1>1, <1>2, <1>3, <1>4, <1>7 DEF LeavesGone, GoneAt
  <2> QED
    BY <1>5, <1>7, <2>1 DEF new
<1> QED
  BY <1>6, <1>7

\* What is known after a command is begun.
After(op, m, before) == IF op.model = m THEN op.op = "Remove" ELSE before

LEMMA AddsAppend ==
  ASSUME NEW seq \in Seq(ModelOp), NEW op \in ModelOp, NEW m, NEW before \in BOOLEAN,
         AddsFindGone(seq, m, before),
         op.model = m /\ op.op = "Add" => LeavesGone(seq, m, before)
  PROVE  AddsFindGone(Append(seq, op), m, before)
<1> DEFINE n == Len(seq) + 1
<1>1. /\ DOMAIN seq = 1..Len(seq) /\ Len(seq) \in Nat
      /\ DOMAIN Append(seq, op) = 1..n
      /\ \A i \in 1..Len(seq) : Append(seq, op)[i] = seq[i]
      /\ Append(seq, op)[n] = op
  BY LenProperties
<1>2. \A i \in 1..n : GoneAt(Append(seq, op), m, before, i) <=> GoneAt(seq, m, before, i)
  BY GoneAtAppend
<1> SUFFICES ASSUME NEW i \in OpsOf(Append(seq, op), m), Append(seq, op)[i].op = "Add"
             PROVE  GoneAt(seq, m, before, i)
  BY <1>1, <1>2 DEF AddsFindGone, OpsOf
<1>3. CASE i = n
  BY <1>1, <1>3 DEF LeavesGone, OpsOf
<1>4. CASE i \in 1..Len(seq)
  BY <1>1, <1>4 DEF AddsFindGone, OpsOf
<1> QED
  BY <1>1, <1>3, <1>4 DEF OpsOf

\* The head of a queue leaves it: what it leaves behind is what the rest finds.
LEMMA GoneAtTail ==
  ASSUME NEW seq \in Seq(ModelOp), seq # <<>>, NEW m, NEW before \in BOOLEAN
  PROVE  /\ \A i \in 2..(Len(seq) + 1) :
              GoneAt(seq, m, before, i) <=>
                GoneAt(Tail(seq), m, After(Head(seq), m, before), i - 1)
         /\ LeavesGone(seq, m, before) <=>
              LeavesGone(Tail(seq), m, After(Head(seq), m, before))
         /\ AddsFindGone(seq, m, before) =>
              AddsFindGone(Tail(seq), m, After(Head(seq), m, before))
         /\ AddsFindGone(seq, m, before) /\ Head(seq).model = m /\ Head(seq).op = "Add" =>
              before
<1> DEFINE t == Tail(seq)
           h == Head(seq)
           b == After(h, m, before)
           n == Len(seq)
<1>1. /\ DOMAIN seq = 1..n /\ n \in Nat \ {0} /\ h = seq[1]
      /\ t \in Seq(ModelOp) /\ Len(t) = n - 1 /\ DOMAIN t = 1..(n - 1)
      /\ \A i \in 1..(n - 1) : t[i] = seq[i + 1]
  BY HeadTailProperties, LenProperties, EmptySeq
<1> HIDE DEF t, h, n
<1>2. /\ OpsOf(seq, m) \subseteq 1..n /\ OpsOf(t, m) \subseteq 1..(n - 1)
      /\ \A i \in 1..(n - 1) : i \in OpsOf(t, m) <=> i + 1 \in OpsOf(seq, m)
      /\ 1 \in OpsOf(seq, m) <=> h.model = m
  BY <1>1 DEF OpsOf
<1>3. \A i \in OpsOf(seq, m) : i = 1 \/ i - 1 \in OpsOf(t, m)
  BY <1>1, <1>2
<1>4. \A i \in OpsOf(t, m) : i + 1 \in OpsOf(seq, m) /\ t[i] = seq[i + 1]
  BY <1>1, <1>2
<1>5. ASSUME NEW i \in 2..(n + 1)
      PROVE  GoneAt(seq, m, before, i) <=> GoneAt(t, m, b, i - 1)
  <2>1. ASSUME GoneAt(seq, m, before, i)
        PROVE  GoneAt(t, m, b, i - 1)
    <3>1. CASE before /\ \A j \in OpsOf(seq, m) : j >= i
      <4>1. h.model # m /\ \A j \in OpsOf(t, m) : j >= i - 1
        BY <1>1, <1>2, <1>4, <3>1
      <4> QED
        BY <3>1, <4>1 DEF GoneAt, After
    <3>2. ASSUME NEW k \in OpsOf(seq, m), k < i, seq[k].op = "Remove",
                 \A j \in OpsOf(seq, m) : j <= k \/ j >= i
          PROVE  GoneAt(t, m, b, i - 1)
      <4>1. CASE k = 1
        <5>1. b /\ \A j \in OpsOf(t, m) : j >= i - 1
          BY <1>1, <1>2, <1>4, <3>2, <4>1 DEF After
        <5> QED
          BY <5>1 DEF GoneAt
      <4>2. CASE k - 1 \in OpsOf(t, m)
        <5>1. ASSUME NEW j \in OpsOf(t, m)
              PROVE  j <= k - 1 \/ j >= i - 1
          <6>1. j + 1 <= k \/ j + 1 >= i
            BY <1>4, <3>2
          <6>2. j \in Int /\ k \in Int /\ i \in Int
            BY <1>1, <1>2
          <6> QED
            BY <6>1, <6>2
        <5>2. t[k - 1].op = "Remove" /\ k - 1 < i - 1
          BY <1>1, <1>2, <1>4, <3>2, <4>2
        <5> QED
          BY <4>2, <5>1, <5>2 DEF GoneAt
      <4> QED
        BY <1>3, <4>1, <4>2
    <3> QED
      BY <2>1, <3>1, <3>2 DEF GoneAt
  <2>2. ASSUME GoneAt(t, m, b, i - 1)
        PROVE  GoneAt(seq, m, before, i)
    <3>1. CASE b /\ \A j \in OpsOf(t, m) : j >= i - 1
      <4>1. \A j \in OpsOf(seq, m) : j = 1 \/ j >= i
        BY <1>1, <1>2, <1>3, <3>1
      <4>2. CASE h.model = m
        BY <1>1, <1>2, <3>1, <4>1, <4>2 DEF GoneAt, After
      <4>3. CASE h.model # m
        BY <1>1, <1>2, <3>1, <4>1, <4>3 DEF GoneAt, After
      <4> QED
        BY <4>2, <4>3
    <3>2. ASSUME NEW k \in OpsOf(t, m), k < i - 1, t[k].op = "Remove",
                 \A j \in OpsOf(t, m) : j <= k \/ j >= i - 1
          PROVE  GoneAt(seq, m, before, i)
      <4>1. ASSUME NEW j \in OpsOf(seq, m)
            PROVE  j <= k + 1 \/ j >= i
        <5>1. j = 1 \/ j - 1 <= k \/ j - 1 >= i - 1
          BY <1>3, <3>2
        <5>2. j \in Int /\ k \in 1..(n - 1) /\ i \in Int
          BY <1>1, <1>2
        <5> QED
          BY <5>1, <5>2
      <4>2. k + 1 \in OpsOf(seq, m) /\ k + 1 < i /\ seq[k + 1].op = "Remove"
        BY <1>1, <1>2, <1>4, <3>2
      <4> QED
        BY <4>1, <4>2 DEF GoneAt
    <3> QED
      BY <2>2, <3>1, <3>2 DEF GoneAt
  <2> QED
    BY <2>1, <2>2
<1> HIDE DEF b
<1>6. LeavesGone(seq, m, before) <=> LeavesGone(t, m, b)
  BY <1>1, <1>5 DEF LeavesGone, n
<1>7. ASSUME AddsFindGone(seq, m, before)
      PROVE  AddsFindGone(t, m, b)
  <2> SUFFICES ASSUME NEW i \in OpsOf(t, m), t[i].op = "Add"
               PROVE  GoneAt(t, m, b, i)
    BY DEF AddsFindGone
  <2>1. i + 1 \in OpsOf(seq, m) /\ seq[i + 1].op = "Add" /\ i + 1 \in 2..(n + 1)
        /\ (i + 1) - 1 = i
    BY <1>1, <1>2, <1>4
  <2> QED
    BY <1>5, <1>7, <2>1 DEF AddsFindGone
<1>8. ASSUME AddsFindGone(seq, m, before), h.model = m, h.op = "Add"
      PROVE  before
  <2>1. GoneAt(seq, m, before, 1)
    BY <1>1, <1>2, <1>8 DEF AddsFindGone
  <2> QED
    BY <1>1, <1>2, <2>1 DEF GoneAt
<1> QED
  BY <1>5, <1>6, <1>7, <1>8 DEF t, h, b, n

\* It does no harm to know more.
LEMMA GoneMonotone ==
  ASSUME NEW seq, NEW m, NEW a \in BOOLEAN, NEW b \in BOOLEAN, a => b
  PROVE  /\ LeavesGone(seq, m, a) => LeavesGone(seq, m, b)
         /\ AddsFindGone(seq, m, a) => AddsFindGone(seq, m, b)
BY DEF LeavesGone, AddsFindGone, GoneAt

\* Queues of no command and of one.
LEMMA GoneNone ==
  ASSUME NEW m, NEW before \in BOOLEAN
  PROVE  (LeavesGone(<<>>, m, before) <=> before) /\ AddsFindGone(<<>>, m, before)
<1>1. OpsOf(<<>>, m) = {}
  BY EmptySeq DEF OpsOf
<1> QED
  BY <1>1 DEF LeavesGone, AddsFindGone, GoneAt

LEMMA GoneOne ==
  ASSUME NEW op \in ModelOp, NEW m, NEW before \in BOOLEAN
  PROVE  /\ LeavesGone(<<op>>, m, before) <=> After(op, m, before)
         /\ AddsFindGone(<<op>>, m, before) <=>
              (op.model = m /\ op.op = "Add" => before)
<1> DEFINE none == <<>>
<1>1. <<op>> = Append(none, op) /\ none \in Seq(ModelOp)
  OBVIOUS
<1>2. LeavesGone(<<op>>, m, before) <=> After(op, m, before)
  <2>1. LeavesGone(none, m, before) <=> before
    BY GoneNone
  <2> HIDE DEF none
  <2>2. /\ op.model = m => (LeavesGone(Append(none, op), m, before) <=> op.op = "Remove")
        /\ op.model # m =>
             (LeavesGone(Append(none, op), m, before) <=> LeavesGone(none, m, before))
    BY <1>1, GoneAtAppend
  <2> QED
    BY <1>1, <2>1, <2>2 DEF After
<1>3. OpsOf(<<op>>, m) = IF op.model = m THEN {1} ELSE {}
  BY DEF OpsOf
<1>4. AddsFindGone(<<op>>, m, before) <=> (op.model = m /\ op.op = "Add" => before)
  BY <1>3 DEF AddsFindGone, GoneAt
<1> QED
  BY <1>2, <1>4

LEMMA GoneTwo ==
  ASSUME NEW a \in ModelOp, NEW b \in ModelOp, NEW m, NEW before \in BOOLEAN
  PROVE  /\ LeavesGone(<<a, b>>, m, before) <=> After(b, m, After(a, m, before))
         /\ /\ a.model = m /\ a.op = "Add" => before
            /\ b.model = m /\ b.op = "Add" => After(a, m, before)
            => AddsFindGone(<<a, b>>, m, before)
<1> DEFINE one == <<a>>
           c == After(a, m, before)
<1>1. <<a, b>> = Append(one, b) /\ one \in Seq(ModelOp)
  OBVIOUS
<1>2. c \in BOOLEAN
  BY DEF After
<1>3. /\ LeavesGone(one, m, before) <=> c
      /\ AddsFindGone(one, m, before) <=> (a.model = m /\ a.op = "Add" => before)
  BY GoneOne
<1> HIDE DEF one, c
<1>4. /\ b.model = m => (LeavesGone(Append(one, b), m, before) <=> b.op = "Remove")
      /\ b.model # m => (LeavesGone(Append(one, b), m, before) <=> LeavesGone(one, m, before))
  BY <1>1, GoneAtAppend
<1>5. LeavesGone(<<a, b>>, m, before) <=> After(b, m, c)
  BY <1>1, <1>3, <1>4 DEF After
<1>6. ASSUME a.model = m /\ a.op = "Add" => before, b.model = m /\ b.op = "Add" => c
      PROVE  AddsFindGone(<<a, b>>, m, before)
  BY <1>1, <1>3, <1>6, AddsAppend
<1> QED
  BY <1>5, <1>6 DEF c

\* A command is handed from one queue to the next.
LEMMA GoneHandover ==
  ASSUME NEW p \in Seq(ModelOp), NEW q \in Seq(ModelOp), q # <<>>,
         NEW m, NEW before \in BOOLEAN,
         AddsFindGone(p, m, before), AddsFindGone(q, m, LeavesGone(p, m, before))
  PROVE  LET to == Append(p, Head(q)) IN
         /\ AddsFindGone(to, m, before)
         /\ AddsFindGone(Tail(q), m, LeavesGone(to, m, before))
         /\ LeavesGone(q, m, LeavesGone(p, m, before))
              => LeavesGone(Tail(q), m, LeavesGone(to, m, before))
<1> DEFINE op == Head(q)
           b == LeavesGone(p, m, before)
           c == LeavesGone(Append(p, op), m, before)
<1>1. op \in ModelOp
  BY HeadTailProperties
<1>2. b \in BOOLEAN /\ c \in BOOLEAN /\ After(op, m, b) \in BOOLEAN
  BY DEF LeavesGone, GoneAt, After
<1>3. After(op, m, b) = c
  <2>1. /\ op.model = m => (c <=> op.op = "Remove")
        /\ op.model # m => (c <=> b)
    BY <1>1, GoneAtAppend
  <2> HIDE DEF b, c
  <2> QED
    BY <1>2, <2>1 DEF After
<1>4. /\ op.model = m /\ op.op = "Add" => b
      /\ AddsFindGone(Tail(q), m, After(op, m, b))
      /\ LeavesGone(q, m, b) <=> LeavesGone(Tail(q), m, After(op, m, b))
  BY <1>2, GoneAtTail
<1>5. AddsFindGone(Append(p, op), m, before)
  BY <1>1, <1>4, AddsAppend
<1> QED
  BY <1>3, <1>4, <1>5

-----------------------------------------------------------------------------
(* A step leaves the queues in order from some point on.                   *)

\* What the tracker says of a model it does not have.
TrackerKnows(m) == phase # "down" /\ ~nilTracker /\ tracker[m] = NoSpec => GoneAfterOutbox(m)

LEMMA GoneBooleans ==
  ASSUME NEW m
  PROVE  /\ GoneAfterWork(m) \in BOOLEAN /\ GoneAfterGiven(m) \in BOOLEAN
         /\ GoneAfterSent(m) \in BOOLEAN /\ GoneAfterEvents(m) \in BOOLEAN
BY DEF GoneAfterWork, GoneAfterGiven, GoneAfterSent, GoneAfterEvents, LeavesGone, GoneAt

\* The watcher holds on to what it has said.
WatcherHolds(m) ==
  /\ outbox' = outbox
  /\ nilTracker' = nilTracker /\ tracker'[m] = tracker[m]
  /\ phase' # "down" => phase # "down"

LEMMA InOrderFromOutbox ==
  ASSUME NEW m, AddsComeToNoFiles(m), WatcherHolds(m),
         GoneAfterEvents(m) => GoneAfterEvents(m)'
  PROVE  AddsFindGone(outbox', m, GoneAfterEvents(m)') /\ TrackerKnows(m)'
<1>1. GoneAfterEvents(m) \in BOOLEAN /\ GoneAfterEvents(m)' \in BOOLEAN
  BY DEF GoneAfterEvents, LeavesGone, GoneAt
<1>2. AddsFindGone(outbox, m, GoneAfterEvents(m)')
  BY <1>1, GoneMonotone DEF AddsComeToNoFiles
<1>3. LeavesGone(outbox, m, GoneAfterEvents(m)) => LeavesGone(outbox, m, GoneAfterEvents(m)')
  BY <1>1, GoneMonotone
<1> QED
  BY <1>2, <1>3 DEF AddsComeToNoFiles, TrackerKnows, GoneAfterOutbox, WatcherHolds

LEMMA InOrderFromEvents ==
  ASSUME NEW m, AddsComeToNoFiles(m), WatcherHolds(m), events' = events,
         GoneAfterSent(m) => GoneAfterSent(m)',
         AddsFindGone(Given(m)', m, GoneAfterWork(m)'),
         AddsFindGone(Sent', m, GoneAfterGiven(m)')
  PROVE  AddsComeToNoFiles(m)'
<1>1. GoneAfterSent(m) \in BOOLEAN /\ GoneAfterSent(m)' \in BOOLEAN
  BY DEF GoneAfterSent, LeavesGone, GoneAt
<1>2. AddsFindGone(events, m, GoneAfterSent(m)')
  BY <1>1, GoneMonotone DEF AddsComeToNoFiles
<1>3. GoneAfterEvents(m) => GoneAfterEvents(m)'
  BY <1>1, GoneMonotone DEF GoneAfterEvents
<1>4. AddsFindGone(outbox', m, GoneAfterEvents(m)') /\ TrackerKnows(m)'
  BY <1>3, InOrderFromOutbox
<1> QED
  BY <1>2, <1>4 DEF AddsComeToNoFiles, TrackerKnows

LEMMA InOrderFromSent ==
  ASSUME NEW m, AddsComeToNoFiles(m), WatcherHolds(m), events' = events, Sent' = Sent,
         GoneAfterGiven(m) => GoneAfterGiven(m)',
         AddsFindGone(Given(m)', m, GoneAfterWork(m)')
  PROVE  AddsComeToNoFiles(m)'
<1>1. GoneAfterGiven(m) \in BOOLEAN /\ GoneAfterGiven(m)' \in BOOLEAN
  BY DEF GoneAfterGiven, LeavesGone, GoneAt
<1>2. AddsFindGone(Sent', m, GoneAfterGiven(m)')
  BY <1>1, GoneMonotone DEF AddsComeToNoFiles
<1>3. GoneAfterSent(m) => GoneAfterSent(m)'
  BY <1>1, GoneMonotone DEF GoneAfterSent
<1> QED
  BY <1>2, <1>3, InOrderFromEvents

LEMMA InOrderFromGiven ==
  ASSUME NEW m, AddsComeToNoFiles(m), WatcherHolds(m), events' = events, Sent' = Sent,
         Given(m)' = Given(m),
         GoneAfterWork(m) => GoneAfterWork(m)'
  PROVE  AddsComeToNoFiles(m)'
<1>1. GoneAfterWork(m) \in BOOLEAN /\ GoneAfterWork(m)' \in BOOLEAN
  BY DEF GoneAfterWork
<1>2. AddsFindGone(Given(m)', m, GoneAfterWork(m)')
  BY <1>1, GoneMonotone DEF AddsComeToNoFiles
<1>3. GoneAfterGiven(m) => GoneAfterGiven(m)'
  BY <1>1, GoneMonotone DEF GoneAfterGiven
<1> QED
  BY <1>2, <1>3, InOrderFromSent

-----------------------------------------------------------------------------
(* The files of one model.                                                 *)

Truthful(m) ==
  \A s \in Specs : SuccessFileExists(m, s) =>
    /\ data[m] \in {s, Torn}
    /\ \A t \in Specs : SuccessFileExists(m, t) => t = s

FilesOf(m) ==
  Truthful(m) /\ AddsComeToNoFiles(m) /\ \A w \in Workers : FilesAtStep(m, w)

LEMMA FilesByModel ==
  /\ FilesIInv <=> PullerAtRest /\ \A m \in Models : FilesOf(m)
  /\ FilesIInv' <=> PullerAtRest' /\ \A m \in Models : FilesOf(m)'
BY DEF FilesIInv, SuccessFilesAreTruthful, FilesOf, Truthful

\* A step that touches neither the directory of a model nor its processors.
SameWork(m) ==
  /\ data'[m] = data[m] /\ marker'[m] = marker[m] /\ served'[m] = served[m]
  /\ work'[m] = work[m] /\ step'[m] = step[m]

LEMMA SameWorkKeeps ==
  ASSUME NEW m, SameWork(m)
  PROVE  /\ Truthful(m) => Truthful(m)'
         /\ \A w \in Workers : FilesAtStep(m, w) => FilesAtStep(m, w)'
         /\ GoneAfterWork(m) <=> GoneAfterWork(m)'
         /\ Gone(m) <=> Gone(m)'
<1> USE DEF SameWork
<1>1. Gone(m) <=> Gone(m)'
  BY DEF Gone
<1>2. \A k, w : Works(m, w, k) <=> Works(m, w, k)'
  BY DEF Works
<1>3. GoneAfterWork(m) <=> GoneAfterWork(m)'
  BY <1>1, <1>2 DEF GoneAfterWork
<1>4. \A s : SuccessFileExists(m, s) <=> SuccessFileExists(m, s)'
  BY DEF SuccessFileExists
<1>5. Truthful(m) => Truthful(m)'
  BY <1>4 DEF Truthful
<1>6. \A w \in Workers : FilesAtStep(m, w) => FilesAtStep(m, w)'
  BY <1>1, <1>2, <1>4 DEF FilesAtStep
<1> QED
  BY <1>1, <1>3, <1>5, <1>6

\* A step that does not concern the model at all.
LEMMA NotConcerned ==
  ASSUME NEW m, FilesOf(m), SameWork(m), WatcherHolds(m),
         events' = events, Sent' = Sent, Given(m)' = Given(m)
  PROVE  FilesOf(m)'
BY SameWorkKeeps, InOrderFromGiven DEF FilesOf

\* Nobody but the processor in channelMap has an operation of the model.
LEMMA OthersIdle ==
  ASSUME IInv, NEW m \in Models, NEW w \in Workers, work[m][w] # NoOp \/ modelOps[m][w] # <<>>
  PROVE  /\ chan[m] = w /\ w # NoWorker /\ Given(m) = modelOps[m][w]
         /\ \A v \in Workers \ {w} : work[m][v] = NoOp /\ modelOps[m][v] = <<>>
<1>1. chan[m] = w /\ \A v \in Workers \ {w} : ~Busy(m, v)
  BY DEF IInv, NoOrphanedProcessor, Busy
<1>2. w # NoWorker
  BY WorkersAssumption
<1> QED
  BY <1>1, <1>2 DEF Given, Busy

\* The queues hold operations.
LEMMA QueuesTyped ==
  ASSUME IInv, WatcherIInv, NEW m \in Models
  PROVE  /\ Given(m) \in Seq(ModelOp) /\ Sent \in Seq(ModelOp)
         /\ events \in Seq(ModelOp) /\ outbox \in Seq(ModelOp)
<1>1. modelOps \in [Models -> [Workers -> Seq(ModelOp)]]
      /\ chan \in [Models -> Workers \cup {NoWorker}] /\ sending \in ModelOp \cup {NoOp}
  BY DEF IInv, TypeOK
<1>2. Given(m) \in Seq(ModelOp)
  BY <1>1 DEF Given
<1>3. Sent \in Seq(ModelOp)
  BY <1>1 DEF Sent
<1> QED
  BY <1>2, <1>3 DEF IInv, TypeOK, EventsTypeOK, WatcherIInv, WatcherTypeOK

-----------------------------------------------------------------------------
(* The life of the process.                                                *)

\* A process that has nothing to do for a model.
AtRest(m) ==
  /\ Given(m) = <<>> /\ Sent = <<>> /\ events = <<>> /\ outbox = <<>>
  /\ \A w \in Workers : work[m][w] = NoOp /\ step[m][w] = "start"
  /\ phase # "down" /\ ~nilTracker /\ tracker[m] = NoSpec => Gone(m)

\* The queues are in order if the tracker does not forget a model that has
\* success files.
RestIsFine == \A m : AtRest(m) => AddsComeToNoFiles(m) /\ \A w \in Workers : FilesAtStep(m, w)

LEMMA RestInOrder == RestIsFine
<1> SUFFICES ASSUME NEW m, AtRest(m)
             PROVE  AddsComeToNoFiles(m) /\ \A w \in Workers : FilesAtStep(m, w)
  BY DEF RestIsFine
<1> USE DEF AtRest
<1>1. GoneAfterWork(m) <=> Gone(m)
  BY DEF GoneAfterWork, Works
<1>2. GoneAfterWork(m) \in BOOLEAN
  BY DEF GoneAfterWork
<1>3. GoneAfterGiven(m) <=> GoneAfterWork(m)
  BY <1>2, GoneNone DEF GoneAfterGiven
<1>4. GoneAfterSent(m) <=> GoneAfterGiven(m)
  BY GoneNone, GoneBooleans DEF GoneAfterSent
<1>5. GoneAfterEvents(m) <=> GoneAfterSent(m)
  BY GoneNone, GoneBooleans DEF GoneAfterEvents
<1>6. GoneAfterOutbox(m) <=> GoneAfterEvents(m)
  BY GoneNone, GoneBooleans DEF GoneAfterOutbox
<1>7. /\ AddsFindGone(Given(m), m, GoneAfterWork(m)) /\ AddsFindGone(Sent, m, GoneAfterGiven(m))
      /\ AddsFindGone(events, m, GoneAfterSent(m)) /\ AddsFindGone(outbox, m, GoneAfterEvents(m))
  BY GoneNone, GoneBooleans
<1>8. \A w \in Workers : FilesAtStep(m, w)
  BY DEF FilesAtStep, Works
<1> QED
  BY <1>1, <1>3, <1>4, <1>5, <1>6, <1>7, <1>8 DEF AddsComeToNoFiles

\* The same of the state a step leads to.
LEMMA RestInOrderNext == RestIsFine'
BY RestInOrder, PTL

\* What is not written on the disk is not in the tracker, and nothing else.
LEMMA NotRecovered ==
  ASSUME StoreTypeOK, NEW m \in Models, ~SyncModelDirFails, NoSpec \in Recovered(m)
  PROVE  Gone(m)
<1>1. marker[m] \in [Specs -> MarkerStates]
  BY DEF StoreTypeOK
<1>2. \A s \in Specs : marker[m][s] # "empty"
  BY DEF SyncModelDirFails
<1>3. \A s \in Specs : marker[m][s] # "written"
  BY NoSpecAssumption DEF Recovered
<1>4. \A s \in Specs : marker[m][s] = "none"
  BY <1>1, <1>2, <1>3 DEF MarkerStates
<1> QED
  BY <1>1, <1>4 DEF Gone, NoMarkers

LEMMA AgentInitFiles == AgentInit => FilesIInv
<1> SUFFICES ASSUME AgentInit PROVE FilesIInv
  OBVIOUS
<1> USE DEF AgentInit, Init, PullerInit, WatcherInit, StoreInit
<1>1. PullerAtRest
  BY DEF PullerAtRest, Busy
<1>2. ASSUME NEW m \in Models
      PROVE  FilesOf(m)
  <2>1. Given(m) = <<>> /\ Sent = <<>>
    BY <1>2 DEF Given, Sent
  <2>2. AtRest(m)
    BY <1>2, <2>1 DEF AtRest
  <2>3. AddsComeToNoFiles(m) /\ \A w \in Workers : FilesAtStep(m, w)
    BY <2>2, RestInOrder DEF RestIsFine
  <2>4. Truthful(m)
    BY <1>2 DEF Truthful, SuccessFileExists, NoMarkers
  <2> QED
    BY <2>3, <2>4 DEF FilesOf
<1> QED
  BY <1>1, <1>2, FilesByModel

LEMMA NewWatcherFiles ==
  ASSUME AgentIInv, FilesIInv, NewWatcher
  PROVE  FilesIInv'
<1>1. /\ phase = "down" /\ phase' = "syncing" /\ UNCHANGED <<events, storeVars, pullerVars>>
      /\ outbox' = outbox /\ outbox = <<>>
  BY DEF NewWatcher, Boot, AgentIInv, WatcherIInv
<1>2. /\ data' = data /\ marker' = marker /\ served' = served
      /\ chan' = chan /\ inFlight' = inFlight /\ modelOps' = modelOps /\ work' = work
      /\ step' = step /\ completions' = completions /\ sending' = sending
  BY <1>1 DEF storeVars, pullerVars
<1>3. /\ sending = NoOp /\ completions = <<>> /\ events = <<>>
      /\ \A m \in Models, w \in Workers : modelOps[m][w] = <<>> /\ work[m][w] = NoOp
  BY <1>1 DEF FilesIInv, PullerAtRest, Busy
<1>4. PullerAtRest'
  BY <1>1, <1>2, <1>3 DEF PullerAtRest, Busy
<1>5. ASSUME NEW m \in Models
      PROVE  FilesOf(m)'
  <2>1. SameWork(m) /\ FilesOf(m)
    BY <1>2, <1>5, FilesByModel DEF SameWork
  <2>2. ~nilTracker' /\ tracker'[m] = NoSpec => Gone(m)
    <3>1. StoreTypeOK
      BY DEF AgentIInv, IInv, TypeOK
    <3>2. ~nilTracker' => ~SyncModelDirFails /\ tracker'[m] \in Recovered(m)
      BY <1>5 DEF NewWatcher
    <3> QED
      BY <1>5, <3>1, <3>2, NotRecovered
  <2>3. Given(m)' = <<>> /\ Sent' = <<>>
    <3>1. chan[m] \in Workers \cup {NoWorker}
      BY <1>5 DEF AgentIInv, IInv, TypeOK
    <3> QED
      BY <1>2, <1>3, <1>5, <3>1 DEF Given, Sent
  <2>4. Gone(m) <=> Gone(m)'
    BY <2>1, SameWorkKeeps
  <2>5. \A w \in Workers : step[m][w] = "start"
    BY <1>3, <1>5, <2>1 DEF FilesOf, FilesAtStep
  <2>6. AtRest(m)'
    BY <1>1, <1>2, <1>3, <1>5, <2>2, <2>3, <2>4, <2>5 DEF AtRest
  <2>7. AddsComeToNoFiles(m)'
    BY <2>6, RestInOrderNext DEF RestIsFine
  <2> QED
    BY <2>1, <2>7, SameWorkKeeps DEF FilesOf
<1> QED
  BY <1>4, <1>5, FilesByModel

\* The process dies: the files stay as they are.
LEMMA CrashFiles ==
  ASSUME AgentIInv, FilesIInv, Dies
  PROVE  FilesIInv'
<1>1. /\ phase' = "down" /\ events' = <<>> /\ outbox' = <<>> /\ sending' = NoOp
      /\ completions' = <<>> /\ chan' = [m \in Models |-> NoWorker]
      /\ modelOps' = [m \in Models |-> [w \in Workers |-> <<>>]]
      /\ work' = [m \in Models |-> [w \in Workers |-> NoOp]]
      /\ step' = [m \in Models |-> [w \in Workers |-> "start"]]
      /\ data' = data /\ marker' = marker /\ served' = served
  BY DEF Dies, Crash, ForgetWatcher, storeVars
<1>2. PullerAtRest'
  BY <1>1 DEF PullerAtRest, Busy
<1>3. ASSUME NEW m \in Models
      PROVE  FilesOf(m)'
  <2>1. FilesOf(m)
    BY <1>3, FilesByModel
  <2>2. Truthful(m)'
    BY <1>1, <2>1 DEF FilesOf, Truthful, SuccessFileExists
  <2>3. Given(m)' = <<>> /\ Sent' = <<>>
    BY <1>1, <1>3 DEF Given, Sent
  <2>4. AtRest(m)'
    BY <1>1, <1>3, <2>3 DEF AtRest
  <2>5. AddsComeToNoFiles(m)' /\ \A w \in Workers : FilesAtStep(m, w)'
    BY <2>4, RestInOrderNext DEF RestIsFine
  <2> QED
    BY <2>2, <2>5 DEF FilesOf
<1> QED
  BY <1>2, <1>3, FilesByModel

\* Steps that touch no file, no queue and not the tracker.
LEMMA NothingMoves ==
  ASSUME FilesIInv, UNCHANGED <<events, storeVars, tracker, nilTracker, outbox>>,
         UNCHANGED <<chan, inFlight, modelOps, work, step, completions, sending>>,
         phase' = phase \/ (phase \notin {"down"} /\ phase' \notin {"down", "syncing"})
  PROVE  FilesIInv'
<1>1. /\ events' = events /\ tracker' = tracker /\ nilTracker' = nilTracker /\ outbox' = outbox
      /\ data' = data /\ marker' = marker /\ served' = served
      /\ chan' = chan /\ modelOps' = modelOps /\ work' = work
      /\ step' = step /\ completions' = completions /\ sending' = sending
  BY DEF storeVars
<1>2. PullerAtRest'
  BY <1>1 DEF FilesIInv, PullerAtRest, Busy
<1>3. ASSUME NEW m \in Models
      PROVE  FilesOf(m)'
  <2>1. FilesOf(m) /\ SameWork(m) /\ WatcherHolds(m)
    BY <1>1, <1>3, FilesByModel DEF SameWork, WatcherHolds
  <2>2. Given(m)' = Given(m) /\ Sent' = Sent
    BY <1>1 DEF Given, Sent
  <2> QED
    BY <1>1, <2>1, <2>2, NotConcerned
<1> QED
  BY <1>2, <1>3, FilesByModel

-----------------------------------------------------------------------------
(* The watcher.                                                            *)

\* Commands for one model are put into an empty outbox.
LEMMA OutboxFilled ==
  ASSUME AgentIInv, FilesIInv, UNCHANGED <<phase, events, storeVars, pullerVars, nilTracker>>,
         outbox = <<>>, NEW m \in Models, \A k \in Models \ {m} : tracker'[k] = tracker[k],
         \/ outbox' = <<>> /\ tracker' = tracker
         \/ outbox' = <<RemoveOp(m)>>
         \/ \E s \in Specs, b \in BOOLEAN :
              \/ /\ outbox' = <<AddOp(m, s, b)>> /\ tracker'[m] # NoSpec
                 /\ phase # "down" /\ ~nilTracker /\ tracker[m] = NoSpec
              \/ outbox' = <<RemoveOp(m), AddOp(m, s, b)>> /\ tracker'[m] # NoSpec
  PROVE  FilesIInv'
<1>1. /\ phase' = phase /\ events' = events /\ nilTracker' = nilTracker
      /\ data' = data /\ marker' = marker /\ served' = served
      /\ chan' = chan /\ modelOps' = modelOps /\ work' = work
      /\ step' = step /\ completions' = completions /\ sending' = sending
  BY DEF storeVars, pullerVars
<1>2. PullerAtRest'
  BY <1>1 DEF FilesIInv, PullerAtRest, Busy
<1>3. ASSUME NEW k \in Models
      PROVE  FilesOf(k)'
  <2> DEFINE b == GoneAfterEvents(k)
  <2>1. FilesOf(k) /\ SameWork(k)
    BY <1>1, <1>3, FilesByModel DEF SameWork
  <2>2. /\ Truthful(k)' /\ \A w \in Workers : FilesAtStep(k, w)'
        /\ GoneAfterWork(k)' <=> GoneAfterWork(k)
    BY <2>1, SameWorkKeeps DEF FilesOf
  <2>3. Given(k)' = Given(k) /\ Sent' = Sent /\ GoneAfterWork(k)' = GoneAfterWork(k)
    <3>1. GoneAfterWork(k) \in BOOLEAN /\ GoneAfterWork(k)' \in BOOLEAN
      BY DEF GoneAfterWork
    <3> QED
      BY <1>1, <2>2, <3>1 DEF Given, Sent
  <2>4. GoneAfterGiven(k)' = GoneAfterGiven(k) /\ GoneAfterSent(k)' = GoneAfterSent(k) /\ b' = b
    BY <1>1, <2>3 DEF GoneAfterGiven, GoneAfterSent, GoneAfterEvents
  <2>5. /\ AddsFindGone(Given(k)', k, GoneAfterWork(k)')
        /\ AddsFindGone(Sent', k, GoneAfterGiven(k)')
        /\ AddsFindGone(events', k, GoneAfterSent(k)')
    BY <1>1, <2>1, <2>3, <2>4 DEF FilesOf, AddsComeToNoFiles
  <2>6. b \in BOOLEAN
    BY GoneBooleans
  <2>7. phase # "down" /\ ~nilTracker /\ tracker[k] = NoSpec => b
    BY <2>1, <2>6, GoneNone DEF FilesOf, AddsComeToNoFiles, GoneAfterOutbox
  <2> SUFFICES /\ AddsFindGone(outbox', k, b)
               /\ phase # "down" /\ ~nilTracker /\ tracker'[k] = NoSpec => LeavesGone(outbox', k, b)
    BY <1>1, <2>2, <2>4, <2>5 DEF FilesOf, AddsComeToNoFiles, GoneAfterOutbox
  <2> HIDE DEF b
  <2>8. RemoveOp(m) \in ModelOp /\ RemoveOp(m).model = m /\ RemoveOp(m).op = "Remove"
    BY DEF RemoveOp, ModelOp
  <2>9. CASE outbox' = <<>> /\ tracker' = tracker
    BY <2>6, <2>7, <2>9, GoneNone
  <2>10. CASE outbox' = <<RemoveOp(m)>>
    <3>1. AddsFindGone(outbox', k, b)
      BY <2>6, <2>8, <2>10, GoneOne
    <3>2. LeavesGone(outbox', k, b) <=> After(RemoveOp(m), k, b)
      BY <2>6, <2>8, <2>10, GoneOne
    <3> QED
      BY <1>3, <2>7, <2>8, <3>1, <3>2 DEF After
  <2>11. ASSUME NEW s \in Specs, NEW i \in BOOLEAN,
                \/ /\ outbox' = <<AddOp(m, s, i)>> /\ tracker'[m] # NoSpec
                   /\ phase # "down" /\ ~nilTracker /\ tracker[m] = NoSpec
                \/ outbox' = <<RemoveOp(m), AddOp(m, s, i)>> /\ tracker'[m] # NoSpec
         PROVE  /\ AddsFindGone(outbox', k, b)
                /\ phase # "down" /\ ~nilTracker /\ tracker'[k] = NoSpec => LeavesGone(outbox', k, b)
    <3> DEFINE add == AddOp(m, s, i)
    <3>1. add \in ModelOp /\ add.model = m /\ add.op = "Add"
      BY DEF AddOp, ModelOp
    <3> HIDE DEF add
    <3>2. CASE /\ outbox' = <<add>> /\ tracker'[m] # NoSpec
               /\ phase # "down" /\ ~nilTracker /\ tracker[m] = NoSpec
      <4>1. AddsFindGone(outbox', k, b) <=> (add.model = k /\ add.op = "Add" => b)
        BY <2>6, <3>1, <3>2, GoneOne
      <4>2. LeavesGone(outbox', k, b) <=> After(add, k, b)
        BY <2>6, <3>1, <3>2, GoneOne
      <4> QED
        BY <1>3, <2>7, <3>1, <3>2, <4>1, <4>2 DEF After
    <3>3. CASE outbox' = <<RemoveOp(m), add>> /\ tracker'[m] # NoSpec
      <4>1. /\ RemoveOp(m).model = k /\ RemoveOp(m).op = "Add" => b
            /\ add.model = k /\ add.op = "Add" => After(RemoveOp(m), k, b)
        BY <2>8, <3>1 DEF After
      <4>2. AddsFindGone(outbox', k, b)
        BY <2>6, <2>8, <3>1, <3>3, <4>1, GoneTwo
      <4>3. LeavesGone(outbox', k, b) <=> After(add, k, After(RemoveOp(m), k, b))
        BY <2>6, <2>8, <3>1, <3>3, GoneTwo
      <4> QED
        BY <1>3, <2>7, <2>8, <3>1, <3>3, <4>2, <4>3 DEF After
    <3> QED
      BY <2>11, <3>2, <3>3 DEF add
  <2> QED
    BY <2>9, <2>10, <2>11
<1> QED
  BY <1>2, <1>3, FilesByModel

LEMMA MarkFiles ==
  ASSUME AgentIInv, FilesIInv, UNCHANGED <<storeVars, pullerVars>>, NEW m \in Models, MarkModel(m)
  PROVE  FilesIInv'
<1>1. /\ outbox = <<>> /\ phase # "down" /\ ~nilTracker
      /\ UNCHANGED <<phase, events, storeVars, pullerVars, nilTracker>>
  BY DEF MarkModel, AgentIInv, WatcherIInv
<1>2. snapshot[m] \in Specs /\ tracker \in Configs
  BY DEF MarkModel, AgentIInv, WatcherIInv, WatcherTypeOK, ParseRight, InConfig, Configs
<1>3. \A k \in Models \ {m} : tracker'[k] = tracker[k]
  BY <1>2 DEF MarkModel, Configs
<1> DEFINE b == phase = "syncing"
<1>4. b \in BOOLEAN
  OBVIOUS
<1>5. \/ outbox' = <<>> /\ tracker' = tracker
      \/ tracker[m] = NoSpec /\ tracker'[m] # NoSpec /\ outbox' = <<AddOp(m, snapshot[m], b)>>
      \/ tracker'[m] # NoSpec /\ outbox' = <<RemoveOp(m), AddOp(m, snapshot[m], b)>>
  BY <1>1, <1>2, NoSpecAssumption DEF MarkModel, Configs
<1> HIDE DEF b
<1> QED
  BY <1>1, <1>2, <1>3, <1>4, <1>5, OutboxFilled

LEMMA SweepFiles ==
  ASSUME AgentIInv, FilesIInv, UNCHANGED <<storeVars, pullerVars>>, NEW m \in Models, SweepModel(m)
  PROVE  FilesIInv'
<1>1. tracker \in Configs
  BY DEF AgentIInv, WatcherIInv, WatcherTypeOK
<1>2. \A k \in Models \ {m} : tracker'[k] = tracker[k]
  BY <1>1 DEF SweepModel, Configs
<1>3. outbox = <<>> /\ UNCHANGED <<phase, events, storeVars, pullerVars, nilTracker>>
  BY DEF SweepModel
<1>4. outbox' = <<RemoveOp(m)>> \/ (outbox' = <<>> /\ tracker' = tracker)
  BY DEF SweepModel
<1> QED
  BY <1>2, <1>3, <1>4, OutboxFilled

\* A command goes into the channel of the watcher.
LEMMA SendFiles ==
  ASSUME AgentIInv, FilesIInv, UNCHANGED <<storeVars, pullerVars>>, SendCommand
  PROVE  FilesIInv'
<1>1. /\ phase' = phase /\ nilTracker' = nilTracker /\ tracker' = tracker
      /\ data' = data /\ marker' = marker /\ served' = served
      /\ chan' = chan /\ modelOps' = modelOps /\ work' = work
      /\ step' = step /\ completions' = completions /\ sending' = sending
      /\ outbox # <<>> /\ outbox' = Tail(outbox) /\ events' = Append(events, Head(outbox))
  BY DEF SendCommand, SendEvent, storeVars, pullerVars, trackerVars
<1>2. phase # "down"
  BY <1>1 DEF AgentIInv, WatcherIInv
<1>3. PullerAtRest'
  BY <1>1, <1>2 DEF FilesIInv, PullerAtRest, Busy
<1>4. events \in Seq(ModelOp) /\ outbox \in Seq(ModelOp)
  BY DEF AgentIInv, IInv, TypeOK, EventsTypeOK, WatcherIInv, WatcherTypeOK
<1>5. ASSUME NEW m \in Models
      PROVE  FilesOf(m)'
  <2>1. FilesOf(m) /\ SameWork(m)
    BY <1>1, <1>5, FilesByModel DEF SameWork
  <2>2. /\ Truthful(m)' /\ \A w \in Workers : FilesAtStep(m, w)'
        /\ GoneAfterWork(m)' <=> GoneAfterWork(m)
    BY <2>1, SameWorkKeeps DEF FilesOf
  <2>3. Given(m)' = Given(m) /\ Sent' = Sent /\ GoneAfterWork(m)' = GoneAfterWork(m)
    <3>1. GoneAfterWork(m) \in BOOLEAN /\ GoneAfterWork(m)' \in BOOLEAN
      BY DEF GoneAfterWork
    <3> QED
      BY <1>1, <2>2, <3>1 DEF Given, Sent
  <2>4. GoneAfterGiven(m)' = GoneAfterGiven(m) /\ GoneAfterSent(m)' = GoneAfterSent(m)
    BY <2>3 DEF GoneAfterGiven, GoneAfterSent
  <2> DEFINE c == GoneAfterSent(m)
  <2>5. c \in BOOLEAN
    BY GoneBooleans
  <2>6. AddsFindGone(events, m, c) /\ AddsFindGone(outbox, m, LeavesGone(events, m, c))
    BY <2>1 DEF FilesOf, AddsComeToNoFiles, GoneAfterEvents
  <2>7. /\ AddsFindGone(events', m, c)
        /\ AddsFindGone(outbox', m, LeavesGone(events', m, c))
        /\ LeavesGone(outbox, m, LeavesGone(events, m, c))
             => LeavesGone(outbox', m, LeavesGone(events', m, c))
    <3> HIDE DEF c
    <3> QED
      BY <1>1, <1>4, <2>5, <2>6, GoneHandover
  <2>8. AddsComeToNoFiles(m)'
    BY <1>1, <2>1, <2>3, <2>4, <2>7
       DEF FilesOf, AddsComeToNoFiles, GoneAfterEvents, GoneAfterOutbox
  <2> QED
    BY <2>2, <2>8 DEF FilesOf
<1> QED
  BY <1>3, <1>5, FilesByModel

-----------------------------------------------------------------------------
(* The puller.                                                             *)

\* A step of the puller leaves the watcher alone, in a process that runs one.
LEMMA PullerRuns ==
  ASSUME FilesIInv, TakeCommand \/ SendToProcessor \/ CompleteOp
                    \/ \E m \in Models, w \in Workers : Processor(m, w)
  PROVE  phase \notin {"down", "syncing"} /\ phase' = phase
<1>1. phase' = phase
  BY PullerStepPhase DEF PullerStep
<1>2. CASE TakeCommand \/ CompleteOp
  BY <1>1, <1>2 DEF TakeCommand, CompleteOp, Running
<1>3. CASE SendToProcessor
  BY <1>1, <1>3 DEF SendToProcessor, FilesIInv, PullerAtRest
<1>4. ASSUME NEW m \in Models, NEW w \in Workers, Processor(m, w)
      PROVE  Busy(m, w)
  <2>1. ASSUME ProcessOp(m, w)
        PROVE  work[m][w] # NoOp
    BY <2>1, Zenon DEF ProcessOp, CheckSuccessFile, StatFails, DownloadBegins, DownloadEnds, DownloadFails,
         CreateSuccessFile, WriteSuccessFile, WriteFails, Load, Unload, RequestFails,
         RemoveDirMissing, RemoveDirBegins, RemoveDirEnds, RemoveDirFails, At
  <2> QED
    BY <1>4, <2>1 DEF Processor, Receive, Finish, Busy
<1> QED
  BY <1>1, <1>2, <1>3, <1>4 DEF FilesIInv, PullerAtRest

\* The next command is taken from the channel; a new channel is empty.
LEMMA TakeFiles ==
  ASSUME AgentIInv, FilesIInv, UNCHANGED watcherVars, TakeCommand
  PROVE  FilesIInv'
<1>1. /\ outbox' = outbox /\ nilTracker' = nilTracker /\ tracker' = tracker
      /\ data' = data /\ marker' = marker /\ served' = served
      /\ modelOps' = modelOps /\ work' = work /\ step' = step
      /\ events # <<>> /\ events' = Tail(events) /\ sending = NoOp /\ sending' = Head(events)
  BY DEF TakeCommand, watcherVars, trackerVars, storeVars
<1>2. phase \notin {"down", "syncing"} /\ phase' = phase
  BY PullerRuns
<1>3. events \in Seq(ModelOp) /\ Head(events) \in ModelOp /\ Head(events) # NoOp
  BY <1>1, HeadTailProperties, NoOpAssumption DEF AgentIInv, IInv, TypeOK, EventsTypeOK
<1>4. ASSUME NEW m \in Models
      PROVE  FilesOf(m)'
  <2>1. FilesOf(m) /\ SameWork(m)
    BY <1>1, <1>4, FilesByModel DEF SameWork
  <2>2. /\ Truthful(m)' /\ \A w \in Workers : FilesAtStep(m, w)'
        /\ GoneAfterWork(m)' <=> GoneAfterWork(m)
    BY <2>1, SameWorkKeeps DEF FilesOf
  <2>3. GoneAfterWork(m)' = GoneAfterWork(m)
    <3>1. GoneAfterWork(m) \in BOOLEAN /\ GoneAfterWork(m)' \in BOOLEAN
      BY DEF GoneAfterWork
    <3> QED
      BY <2>2, <3>1
  <2>4. Given(m)' = Given(m)
    <3>1. CASE chan'[m] = chan[m]
      BY <1>1, <3>1 DEF Given
    <3>2. CASE chan'[m] # chan[m]
      <4>1. chan[m] = NoWorker /\ \E w \in Workers : Free(m, w) /\ chan'[m] = w
        BY <1>4, <3>2 DEF TakeCommand, AgentIInv, IInv, TypeOK
      <4> QED
        BY <1>1, <4>1, WorkersAssumption DEF Free, Given
    <3> QED
      BY <3>1, <3>2
  <2>5. GoneAfterGiven(m)' = GoneAfterGiven(m)
    BY <2>3, <2>4 DEF GoneAfterGiven
  <2>6. Sent = <<>> /\ Sent' = Append(Sent, Head(events)) /\ Sent \in Seq(ModelOp)
    BY <1>1, <1>3 DEF Sent
  <2> DEFINE c == GoneAfterGiven(m)
  <2>7. c \in BOOLEAN
    BY GoneBooleans
  <2>8. AddsFindGone(Sent, m, c) /\ AddsFindGone(events, m, LeavesGone(Sent, m, c))
    BY <2>1 DEF FilesOf, AddsComeToNoFiles, GoneAfterSent
  <2>9. /\ AddsFindGone(Sent', m, c)
        /\ AddsFindGone(events', m, LeavesGone(Sent', m, c))
        /\ LeavesGone(events, m, LeavesGone(Sent, m, c))
             => LeavesGone(events', m, LeavesGone(Sent', m, c))
    <3> HIDE DEF c
    <3> QED
      BY <1>1, <1>3, <2>6, <2>7, <2>8, GoneHandover
  <2>10. GoneAfterEvents(m) => GoneAfterEvents(m)'
    BY <2>5, <2>9 DEF GoneAfterEvents, GoneAfterSent
  <2>11. AddsFindGone(outbox', m, GoneAfterEvents(m)') /\ TrackerKnows(m)'
    BY <1>1, <1>2, <2>1, <2>10, InOrderFromOutbox DEF FilesOf, WatcherHolds
  <2>12. AddsComeToNoFiles(m)'
    BY <2>1, <2>3, <2>4, <2>5, <2>9, <2>11
       DEF FilesOf, AddsComeToNoFiles, GoneAfterSent, TrackerKnows
  <2> QED
    BY <2>2, <2>12 DEF FilesOf
<1> QED
  BY <1>2, <1>4, FilesByModel DEF PullerAtRest

\* It is sent to the processor of its model.
LEMMA SendToProcessorFiles ==
  ASSUME AgentIInv, FilesIInv, UNCHANGED watcherVars, SendToProcessor
  PROVE  FilesIInv'
<1> DEFINE op == sending
           n == op.model
<1>1. /\ outbox' = outbox /\ nilTracker' = nilTracker /\ tracker' = tracker
      /\ data' = data /\ marker' = marker /\ served' = served
      /\ chan' = chan /\ work' = work /\ step' = step /\ events' = events
      /\ sending # NoOp /\ sending' = NoOp
      /\ modelOps' = [modelOps EXCEPT ![n][chan[n]] = Append(@, op)]
  BY DEF SendToProcessor, watcherVars, trackerVars, storeVars
<1>2. phase \notin {"down", "syncing"} /\ phase' = phase
  BY PullerRuns
<1>3. op \in ModelOp /\ n \in Models
  BY <1>1 DEF AgentIInv, IInv, TypeOK, ModelOp
<1>4. chan[n] \in Workers /\ chan[n] # NoWorker
  BY <1>1, <1>3 DEF AgentIInv, IInv, TypeOK, InFlightIsOutstanding
<1>5. modelOps \in [Models -> [Workers -> Seq(ModelOp)]] /\ chan \in [Models -> Workers \cup {NoWorker}]
  BY DEF AgentIInv, IInv, TypeOK
<1>6. Sent = <<op>> /\ Sent' = <<>>
  BY <1>1 DEF Sent
<1> HIDE DEF op
<1>7. ASSUME NEW m \in Models
      PROVE  FilesOf(m)'
  <2>1. FilesOf(m) /\ SameWork(m) /\ WatcherHolds(m)
    BY <1>1, <1>2, <1>7, FilesByModel DEF SameWork, WatcherHolds
  <2>2. /\ Truthful(m)' /\ \A w \in Workers : FilesAtStep(m, w)'
        /\ GoneAfterWork(m)' <=> GoneAfterWork(m)
    BY <2>1, SameWorkKeeps DEF FilesOf
  <2>3. GoneAfterWork(m)' = GoneAfterWork(m)
    <3>1. GoneAfterWork(m) \in BOOLEAN /\ GoneAfterWork(m)' \in BOOLEAN
      BY DEF GoneAfterWork
    <3> QED
      BY <2>2, <3>1
  <2> DEFINE a == GoneAfterWork(m)
             c == GoneAfterGiven(m)
  <2>4. a \in BOOLEAN /\ c \in BOOLEAN
    BY GoneBooleans
  <2>5. GoneAfterSent(m) <=> After(op, m, c)
    BY <1>3, <1>6, <2>4, GoneOne DEF GoneAfterSent
  <2>6. AddsFindGone(Given(m), m, a) /\ (op.model = m /\ op.op = "Add" => c)
    BY <1>3, <1>6, <2>1, <2>4, GoneOne DEF FilesOf, AddsComeToNoFiles
  <2>7. Given(m)' = IF m = n THEN Append(Given(m), op) ELSE Given(m)
    BY <1>1, <1>3, <1>4, <1>5, <1>7 DEF Given
  <2>8. Given(m) \in Seq(ModelOp)
    BY <1>7, QueuesTyped DEF AgentIInv
  <2>9. AddsFindGone(Given(m)', m, GoneAfterWork(m)')
    <3> HIDE DEF a, c
    <3>1. c <=> LeavesGone(Given(m), m, a)
      BY DEF c, a, GoneAfterGiven
    <3>2. CASE m = n
      BY <1>3, <2>3, <2>4, <2>6, <2>7, <2>8, <3>1, <3>2, AddsAppend DEF a
    <3>3. CASE m # n
      BY <2>3, <2>6, <2>7, <3>3 DEF a
    <3> QED
      BY <3>2, <3>3
  <2>10. GoneAfterGiven(m)' <=> After(op, m, c)
    <3> HIDE DEF a, c
    <3>1. c <=> LeavesGone(Given(m), m, a)
      BY DEF c, a, GoneAfterGiven
    <3>2. GoneAfterGiven(m)' <=> LeavesGone(Given(m)', m, a)
      BY <2>3 DEF GoneAfterGiven, a
    <3>3. CASE m = n
      BY <1>3, <2>4, <2>7, <2>8, <3>2, <3>3, GoneAtAppend DEF After
    <3>4. CASE m # n
      BY <2>7, <3>1, <3>2, <3>4 DEF After
    <3> QED
      BY <3>3, <3>4
  <2>11. /\ AddsFindGone(Sent', m, GoneAfterGiven(m)')
         /\ GoneAfterSent(m)' <=> GoneAfterGiven(m)'
    <3>1. GoneAfterGiven(m)' \in BOOLEAN
      BY DEF GoneAfterGiven, LeavesGone, GoneAt
    <3> QED
      BY <1>6, <3>1, GoneNone DEF GoneAfterSent
  <2>12. AddsComeToNoFiles(m)'
    BY <1>1, <2>1, <2>5, <2>9, <2>10, <2>11, InOrderFromEvents DEF FilesOf
  <2> QED
    BY <2>2, <2>12 DEF FilesOf
<1> QED
  BY <1>2, <1>7, FilesByModel DEF PullerAtRest

\* A channel that is closed is empty.
LEMMA CompleteFiles ==
  ASSUME AgentIInv, IInv', FilesIInv, UNCHANGED watcherVars, CompleteOp
  PROVE  FilesIInv'
<1>1. /\ outbox' = outbox /\ nilTracker' = nilTracker /\ tracker' = tracker
      /\ data' = data /\ marker' = marker /\ served' = served
      /\ modelOps' = modelOps /\ work' = work /\ step' = step /\ events' = events
      /\ sending' = sending
      /\ \A m \in Models : chan'[m] \in {chan[m], NoWorker}
  BY DEF CompleteOp, watcherVars, trackerVars, storeVars, AgentIInv, IInv, TypeOK
<1>2. phase \notin {"down", "syncing"} /\ phase' = phase
  BY PullerRuns
<1>3. ASSUME NEW m \in Models
      PROVE  FilesOf(m)'
  <2>1. FilesOf(m) /\ SameWork(m) /\ WatcherHolds(m)
    BY <1>1, <1>2, <1>3, FilesByModel DEF SameWork, WatcherHolds
  <2>2. Given(m)' = Given(m)
    <3>1. CASE chan'[m] = chan[m]
      BY <1>1, <3>1 DEF Given
    <3>2. CASE chan'[m] = NoWorker /\ chan[m] # NoWorker
      <4>1. chan[m] \in Workers
        BY <1>3, <3>2 DEF AgentIInv, IInv, TypeOK
      <4>2. modelOps[m][chan[m]] = <<>>
        BY <1>1, <1>3, <3>2, <4>1, WorkersAssumption DEF IInv, NoOrphanedProcessor, Busy
      <4> QED
        BY <3>2, <4>2 DEF Given
    <3> QED
      BY <1>1, <1>3, <3>1, <3>2
  <2> QED
    BY <1>1, <2>1, <2>2, NotConcerned DEF Sent
<1> QED
  BY <1>2, <1>3, FilesByModel DEF PullerAtRest

\* A processor takes the next operation of its model.
LEMMA ReceiveFiles ==
  ASSUME AgentIInv, FilesIInv, UNCHANGED watcherVars,
         NEW n \in Models, NEW v \in Workers, Receive(n, v)
  PROVE  FilesIInv'
<1> DEFINE op == Head(modelOps[n][v])
<1>1. /\ outbox' = outbox /\ nilTracker' = nilTracker /\ tracker' = tracker
      /\ data' = data /\ marker' = marker /\ served' = served
      /\ chan' = chan /\ step' = step /\ events' = events /\ sending' = sending
      /\ work[n][v] = NoOp /\ modelOps[n][v] # <<>>
      /\ work' = [work EXCEPT ![n][v] = op]
      /\ modelOps' = [modelOps EXCEPT ![n][v] = Tail(@)]
  BY DEF Receive, watcherVars, trackerVars, storeVars
<1>2. phase \notin {"down", "syncing"} /\ phase' = phase
  BY PullerRuns DEF Processor
<1>3. /\ modelOps \in [Models -> [Workers -> Seq(ModelOp)]]
      /\ work \in [Models -> [Workers -> ModelOp \cup {NoOp}]]
      /\ chan \in [Models -> Workers \cup {NoWorker}]
  BY DEF AgentIInv, IInv, TypeOK
<1>4. /\ op \in ModelOp /\ op # NoOp /\ op.op \in {"Add", "Remove"} /\ op.model = n
  <2>1. modelOps[n][v] \in Seq(ModelOp)
    BY <1>3
  <2>2. op \in ModelOp /\ 1 \in DOMAIN modelOps[n][v] /\ op = modelOps[n][v][1]
    BY <1>1, <2>1, HeadTailProperties, LenProperties, EmptySeq
  <2>3. op.model = n
    BY <2>2 DEF AgentIInv, IInv, OpsAtHome
  <2>4. op # NoOp /\ op.op \in {"Add", "Remove"}
    BY <2>2, NoOpAssumption DEF ModelOp
  <2> QED
    BY <2>2, <2>3, <2>4
<1>5. /\ chan[n] = v /\ v # NoWorker /\ Given(n) = modelOps[n][v]
      /\ \A w \in Workers \ {v} : work[n][w] = NoOp /\ modelOps[n][w] = <<>>
  BY <1>1, OthersIdle DEF AgentIInv
<1> HIDE DEF op
<1>6. PullerAtRest'
  BY <1>2 DEF PullerAtRest
<1>7. ASSUME NEW m \in Models \ {n}
      PROVE  FilesOf(m)'
  <2>1. FilesOf(m) /\ SameWork(m) /\ WatcherHolds(m)
    BY <1>1, <1>2, <1>3, <1>7, FilesByModel DEF SameWork, WatcherHolds
  <2>2. Given(m)' = Given(m)
    BY <1>1, <1>3, <1>7 DEF Given
  <2> QED
    BY <1>1, <2>1, <2>2, NotConcerned DEF Sent
<1>8. FilesOf(n)'
  <2>1. FilesOf(n) /\ WatcherHolds(n)
    BY <1>1, <1>2, FilesByModel DEF WatcherHolds
  <2>2. Truthful(n)'
    BY <1>1, <2>1 DEF FilesOf, Truthful, SuccessFileExists
  <2>3. Given(n)' = Tail(Given(n)) /\ Given(n) \in Seq(ModelOp) /\ Given(n) # <<>> /\ op = Head(Given(n))
    BY <1>1, <1>3, <1>5 DEF Given, op
  <2>4. /\ \A w \in Workers \ {v} : work'[n][w] = NoOp
        /\ work'[n][v] = op /\ step[n][v] = "start"
    BY <1>1, <1>3, <1>5, <2>1 DEF FilesOf, FilesAtStep
  <2> DEFINE a == GoneAfterWork(n)
  <2>5. a \in BOOLEAN
    BY GoneBooleans
  <2>6. a => Gone(n)
    BY <1>1, <1>5 DEF GoneAfterWork, Works
  <2>7. /\ op.op = "Add" => a
        /\ AddsFindGone(Tail(Given(n)), n, After(op, n, a))
        /\ LeavesGone(Given(n), n, a) <=> LeavesGone(Tail(Given(n)), n, After(op, n, a))
    <3>1. AddsFindGone(Given(n), n, a)
      BY <2>1 DEF FilesOf, AddsComeToNoFiles
    <3> HIDE DEF a
    <3> QED
      BY <1>4, <2>3, <2>5, <3>1, GoneAtTail
  <2>8. GoneAfterWork(n)' = After(op, n, a)
    <3>1. op.op = "Remove" => GoneAfterWork(n)'
      BY <1>4, <2>4 DEF GoneAfterWork, Works
    <3>2. op.op = "Add" => ~GoneAfterWork(n)'
      BY <1>1, <1>4, <2>4 DEF GoneAfterWork, Works
    <3>3. GoneAfterWork(n)' \in BOOLEAN
      BY DEF GoneAfterWork
    <3> QED
      BY <1>4, <3>1, <3>2, <3>3 DEF After
  <2>9. /\ AddsFindGone(Given(n)', n, GoneAfterWork(n)')
        /\ GoneAfterGiven(n) => GoneAfterGiven(n)'
    BY <2>3, <2>7, <2>8 DEF GoneAfterGiven
  <2>10. AddsComeToNoFiles(n)'
    BY <1>1, <2>1, <2>9, InOrderFromSent DEF FilesOf, Sent
  <2>11. FilesAtStep(n, v)'
    <3>1. CASE op.op = "Add"
      <4>1. Gone(n)'
        BY <1>1, <2>6, <2>7, <3>1 DEF Gone
      <4> QED
        BY <1>1, <1>4, <2>4, <3>1, <4>1 DEF FilesAtStep, Works
    <3>2. CASE op.op = "Remove"
      BY <1>1, <1>4, <2>4, <3>2 DEF FilesAtStep, Works
    <3> QED
      BY <1>4, <3>1, <3>2
  <2>12. ASSUME NEW w \in Workers \ {v}
         PROVE  FilesAtStep(n, w)'
    BY <1>1, <1>5, <2>1, <2>4 DEF FilesOf, FilesAtStep, Works
  <2> QED
    BY <2>2, <2>10, <2>11, <2>12 DEF FilesOf
<1> QED
  BY <1>6, <1>7, <1>8, FilesByModel

\* It is done with it.
LEMMA FinishFiles ==
  ASSUME AgentIInv, FilesIInv, UNCHANGED watcherVars,
         NEW n \in Models, NEW v \in Workers, Finish(n, v)
  PROVE  FilesIInv'
<1>1. /\ outbox' = outbox /\ nilTracker' = nilTracker /\ tracker' = tracker
      /\ data' = data /\ marker' = marker /\ served' = served
      /\ chan' = chan /\ events' = events /\ sending' = sending /\ modelOps' = modelOps
      /\ work[n][v] # NoOp /\ step[n][v] = "complete"
      /\ work' = [work EXCEPT ![n][v] = NoOp]
      /\ step' = [step EXCEPT ![n][v] = "start"]
  BY DEF Finish, watcherVars, trackerVars, storeVars
<1>2. phase \notin {"down", "syncing"} /\ phase' = phase
  BY PullerRuns DEF Processor
<1>3. /\ work \in [Models -> [Workers -> ModelOp \cup {NoOp}]]
      /\ step \in [Models -> [Workers -> Steps]]
  BY DEF AgentIInv, IInv, TypeOK
<1>4. \A w \in Workers \ {v} : work[n][w] = NoOp
  BY <1>1, OthersIdle DEF AgentIInv
<1>5. PullerAtRest'
  BY <1>2 DEF PullerAtRest
<1>6. \A m : Given(m)' = Given(m)
  BY <1>1 DEF Given
<1>7. ASSUME NEW m \in Models \ {n}
      PROVE  FilesOf(m)'
  <2>1. FilesOf(m) /\ SameWork(m) /\ WatcherHolds(m)
    BY <1>1, <1>2, <1>3, <1>7, FilesByModel DEF SameWork, WatcherHolds
  <2> QED
    BY <1>1, <1>6, <2>1, NotConcerned DEF Sent
<1>8. FilesOf(n)'
  <2>1. FilesOf(n) /\ WatcherHolds(n)
    BY <1>1, <1>2, FilesByModel DEF WatcherHolds
  <2>2. Truthful(n)'
    BY <1>1, <2>1 DEF FilesOf, Truthful, SuccessFileExists
  <2>3. \A w \in Workers : work'[n][w] = NoOp /\ step'[n][w] = "start"
    BY <1>1, <1>3, <1>4, <2>1 DEF FilesOf, FilesAtStep
  <2>4. \A w \in Workers : FilesAtStep(n, w)'
    BY <2>3 DEF FilesAtStep, Works
  <2>5. GoneAfterWork(n) => GoneAfterWork(n)'
    <3>1. Gone(n)' => GoneAfterWork(n)'
      BY <2>3 DEF GoneAfterWork, Works
    <3>2. Works(n, v, "Remove") => Gone(n)
      BY <1>1, <2>1 DEF FilesOf, FilesAtStep
    <3>3. GoneAfterWork(n) => Gone(n)
      BY <1>4, <3>2 DEF GoneAfterWork, Works
    <3> QED
      BY <1>1, <3>1, <3>3 DEF Gone
  <2>6. AddsComeToNoFiles(n)'
    BY <1>1, <1>6, <2>1, <2>5, InOrderFromGiven DEF FilesOf, Sent
  <2> QED
    BY <2>2, <2>4, <2>6 DEF FilesOf
<1> QED
  BY <1>5, <1>7, <1>8, FilesByModel

\* What a step of processOp does to the files of its model and where it leads.
FilesStepRight(m, w) == Truthful(m)' /\ FilesAtStep(m, w)'

LEMMA AddStepFiles ==
  ASSUME StoreTypeOK, step \in [Models -> [Workers -> Steps]],
         NEW n \in Models, NEW v \in Workers,
         Truthful(n), FilesAtStep(n, v), work' = work, Works(n, v, "Add"),
         work[n][v].spec \in Specs, ProcessOp(n, v)
  PROVE  FilesStepRight(n, v)
<1> DEFINE s == work[n][v].spec
<1>1. /\ data \in [Models -> Contents] /\ marker \in [Models -> [Specs -> MarkerStates]]
      /\ served \in [Models -> Contents \cup {NoSpec}]
  BY DEF StoreTypeOK
<1>2. Works(n, v, "Add")' /\ ~Works(n, v, "Remove")' /\ work'[n][v] # NoOp /\ work'[n][v] = work[n][v]
  BY DEF Works
<1>3. ASSUME NEW t \in Steps, Goto(n, v, t)
      PROVE  step'[n][v] = t
  BY <1>3 DEF Goto
<1>4. Gone(n) <=> \A t \in Specs : ~SuccessFileExists(n, t)
  BY <1>1 DEF Gone, NoMarkers, SuccessFileExists
<1>5. ASSUME UNCHANGED storeVars
      PROVE  /\ Truthful(n)' /\ (Gone(n)' <=> Gone(n)) /\ data'[n] = data[n]
             /\ \A t \in Specs : SuccessFileExists(n, t)' <=> SuccessFileExists(n, t)
  BY <1>5 DEF storeVars, Truthful, SuccessFileExists, Gone
<1> SUFFICES Truthful(n)' /\ FilesAtStep(n, v)'
  BY DEF FilesStepRight
<1>6. CASE CheckSuccessFile(n, v)
  <2>1. Gone(n) /\ UNCHANGED storeVars /\ Goto(n, v, "download")
    BY <1>4, <1>6 DEF CheckSuccessFile, At, FilesAtStep
  <2>2. step'[n][v] = "download"
    BY <1>3, <2>1 DEF Steps
  <2> QED
    BY <1>2, <1>5, <2>1, <2>2 DEF FilesAtStep
<1>0. CASE StatFails(n, v)
  <2>1. Gone(n) /\ "stat" \in Faults /\ UNCHANGED storeVars /\ step'[n][v] = "unchecked"
    BY <1>0, <1>3 DEF StatFails, At, FilesAtStep, Steps
  <2> QED
    BY <1>2, <1>5, <2>1 DEF FilesAtStep
<1>7. CASE DownloadBegins(n, v)
  <2>1. Gone(n) /\ step'[n][v] = "downloading" /\ marker' = marker /\ served' = served
    BY <1>3, <1>7 DEF DownloadBegins, At, FilesAtStep, WriteData, Steps
  <2>2. Gone(n)' /\ \A t \in Specs : ~SuccessFileExists(n, t)'
    BY <1>4, <2>1 DEF Gone, SuccessFileExists
  <2> QED
    BY <1>2, <2>1, <2>2 DEF FilesAtStep, Truthful
<1>8. CASE DownloadEnds(n, v)
  <2>1. /\ Gone(n) /\ step'[n][v] = "create" /\ marker' = marker /\ served' = served
        /\ data'[n] = s
    BY <1>1, <1>3, <1>8 DEF DownloadEnds, At, FilesAtStep, WriteData, Steps
  <2>2. Gone(n)' /\ \A t \in Specs : ~SuccessFileExists(n, t)'
    BY <1>4, <2>1 DEF Gone, SuccessFileExists
  <2> QED
    BY <1>2, <2>1, <2>2 DEF FilesAtStep, Truthful
<1>9. CASE DownloadFails(n, v)
  <2>1. UNCHANGED storeVars /\ step'[n][v] = "complete"
    BY <1>3, <1>9 DEF DownloadFails, Steps
  <2> QED
    BY <1>2, <1>5, <2>1 DEF FilesAtStep
<1>10. ASSUME NEW c \in {"empty", "written"}, WriteMarker(n, s, c),
              \A t \in Specs : SuccessFileExists(n, t) => t = s, data[n] = s,
              step'[n][v] \in {"write", "load"}
       PROVE  Truthful(n)' /\ FilesAtStep(n, v)'
  <2>1. /\ data' = data /\ served' = served
        /\ \A t \in Specs \ {s} : marker'[n][t] = marker[n][t]
    BY <1>1, <1>10 DEF WriteMarker
  <2>2. \A t \in Specs : SuccessFileExists(n, t)' => t = s
    BY <1>10, <2>1 DEF SuccessFileExists
  <2> QED
    BY <1>2, <1>10, <2>1, <2>2 DEF FilesAtStep, Truthful
<1>11. CASE CreateSuccessFile(n, v)
  <2>1. /\ WriteMarker(n, s, "empty") /\ data[n] = s /\ step'[n][v] = "write"
        /\ \A t \in Specs : SuccessFileExists(n, t) => t = s
    BY <1>3, <1>4, <1>11 DEF CreateSuccessFile, At, FilesAtStep, Steps
  <2> QED
    BY <1>10, <2>1
<1>12. CASE WriteSuccessFile(n, v)
  <2>1. /\ WriteMarker(n, s, "written") /\ data[n] = s /\ step'[n][v] = "load"
        /\ \A t \in Specs : SuccessFileExists(n, t) => t = s
    BY <1>3, <1>12 DEF WriteSuccessFile, At, FilesAtStep, Steps
  <2> QED
    BY <1>10, <2>1
<1>13. CASE WriteFails(n, v)
  <2>1. UNCHANGED storeVars /\ step'[n][v] = "load" /\ data[n] = s
        /\ \A t \in Specs : SuccessFileExists(n, t) => t = s
    BY <1>3, <1>13 DEF WriteFails, At, FilesAtStep, Steps
  <2> QED
    BY <1>2, <1>5, <2>1 DEF FilesAtStep
<1>14. CASE Load(n, v)
  <2>1. data' = data /\ marker' = marker /\ step'[n][v] = "complete"
    BY <1>3, <1>14 DEF Load, ServerLoads, Steps
  <2> QED
    BY <1>2, <2>1 DEF FilesAtStep, Truthful, SuccessFileExists
<1>15. CASE RequestFails(n, v)
  <2>1. UNCHANGED storeVars /\ step'[n][v] = "complete"
    BY <1>3, <1>15 DEF RequestFails, Steps
  <2> QED
    BY <1>2, <1>5, <2>1 DEF FilesAtStep
<1>16. ~(Unload(n, v) \/ RemoveDirMissing(n, v) \/ RemoveDirBegins(n, v) \/ RemoveDirEnds(n, v)
           \/ RemoveDirFails(n, v))
  BY DEF Works, Unload, RemoveDirMissing, RemoveDirBegins, RemoveDirEnds, RemoveDirFails, At
<1> QED
  BY <1>0, <1>6, <1>7, <1>8, <1>9, <1>11, <1>12, <1>13, <1>14, <1>15, <1>16 DEF ProcessOp

LEMMA RemoveStepFiles ==
  ASSUME StoreTypeOK, step \in [Models -> [Workers -> Steps]], "remove" \notin Faults,
         NEW n \in Models, NEW v \in Workers,
         Truthful(n), FilesAtStep(n, v), work' = work, Works(n, v, "Remove"),
         ProcessOp(n, v)
  PROVE  FilesStepRight(n, v)
<1>1. /\ data \in [Models -> Contents] /\ marker \in [Models -> [Specs -> MarkerStates]]
      /\ served \in [Models -> Contents \cup {NoSpec}]
  BY DEF StoreTypeOK
<1>2. Works(n, v, "Remove")' /\ ~Works(n, v, "Add")' /\ work'[n][v] # NoOp
  BY DEF Works
<1>3. ASSUME NEW t \in Steps, Goto(n, v, t)
      PROVE  step'[n][v] = t
  BY <1>3 DEF Goto
<1>4. /\ Gone(n) <=> \A t \in Specs : ~SuccessFileExists(n, t)
      /\ Gone(n)' => \A t \in Specs : ~SuccessFileExists(n, t)'
  BY <1>1 DEF Gone, NoMarkers, SuccessFileExists
<1>5. ASSUME UNCHANGED storeVars
      PROVE  Truthful(n)' /\ (Gone(n)' <=> Gone(n))
  BY <1>5 DEF storeVars, Truthful, SuccessFileExists, Gone
<1> SUFFICES Truthful(n)' /\ FilesAtStep(n, v)'
  BY DEF FilesStepRight
<1>6. CASE RemoveDirMissing(n, v)
  <2>1. UNCHANGED storeVars /\ step'[n][v] = "complete" /\ data[n] = Absent
    BY <1>3, <1>6 DEF RemoveDirMissing, Steps
  <2>2. Gone(n)
    BY <1>4, <2>1, ContentAssumption DEF Truthful, Absent, Torn
  <2> QED
    BY <1>2, <1>5, <2>1, <2>2 DEF FilesAtStep
<1>7. CASE RemoveDirBegins(n, v)
  <2>1. step'[n][v] = "clear" /\ RemoveSomeEntries(n) /\ served' = served
    BY <1>3, <1>7 DEF RemoveDirBegins, RemoveSomeEntries, WriteData, Steps
  <2>2. CASE marker' = marker /\ data'[n] = Torn
    BY <1>2, <2>1, <2>2 DEF FilesAtStep, Truthful, SuccessFileExists
  <2>3. CASE marker'[n] = NoMarkers
    <3>1. Gone(n)' /\ \A t \in Specs : ~SuccessFileExists(n, t)'
      BY <1>4, <2>3 DEF Gone
    <3> QED
      BY <1>2, <2>1, <3>1 DEF FilesAtStep, Truthful
  <2> QED
    BY <1>1, <2>1, <2>2, <2>3 DEF RemoveSomeEntries, WriteData
<1>8. CASE RemoveDirEnds(n, v)
  <2>1. step'[n][v] = "unload" /\ marker'[n] = NoMarkers /\ served' = served
    BY <1>1, <1>3, <1>8 DEF RemoveDirEnds, RemoveLastEntries, Steps
  <2>2. Gone(n)' /\ \A t \in Specs : ~SuccessFileExists(n, t)'
    BY <1>4, <2>1 DEF Gone
  <2> QED
    BY <1>2, <2>1, <2>2 DEF FilesAtStep, Truthful
<1>9. CASE Unload(n, v)
  <2>1. /\ step'[n][v] = "complete" /\ data' = data /\ marker' = marker /\ served'[n] = NoSpec
        /\ Gone(n)
    BY <1>1, <1>3, <1>9 DEF Unload, ServerUnloads, At, Works, FilesAtStep, Steps
  <2> QED
    BY <1>2, <2>1 DEF FilesAtStep, Truthful, SuccessFileExists, Gone
<1>10. CASE RequestFails(n, v)
  <2>1. UNCHANGED storeVars /\ step'[n][v] = "complete" /\ Gone(n)
    BY <1>3, <1>10 DEF RequestFails, At, Works, FilesAtStep, Steps
  <2> QED
    BY <1>2, <1>5, <2>1 DEF FilesAtStep
<1>11. ~(CheckSuccessFile(n, v) \/ StatFails(n, v) \/ DownloadBegins(n, v) \/ DownloadEnds(n, v)
           \/ DownloadFails(n, v) \/ CreateSuccessFile(n, v) \/ WriteSuccessFile(n, v)
           \/ WriteFails(n, v) \/ Load(n, v))
  BY DEF Works, CheckSuccessFile, StatFails, DownloadBegins, DownloadEnds, DownloadFails, CreateSuccessFile,
     WriteSuccessFile, WriteFails, Load, At
<1>12. ~RemoveDirFails(n, v)
  BY DEF RemoveDirFails
<1> QED
  BY <1>6, <1>7, <1>8, <1>9, <1>10, <1>11, <1>12 DEF ProcessOp

\* It does nothing to the files of another model.
LEMMA StoreElsewhere ==
  ASSUME StoreTypeOK, NEW n \in Models, NEW v \in Workers, ProcessOp(n, v),
         NEW m \in Models \ {n}
  PROVE  data'[m] = data[m] /\ marker'[m] = marker[m] /\ served'[m] = served[m]
<1>1. /\ data \in [Models -> Contents] /\ marker \in [Models -> [Specs -> MarkerStates]]
      /\ served \in [Models -> Contents \cup {NoSpec}]
  BY DEF StoreTypeOK
<1>2. CASE UNCHANGED storeVars
  BY <1>2 DEF storeVars
<1>3. ASSUME NEW c, WriteData(n, c)
      PROVE  data'[m] = data[m] /\ marker'[m] = marker[m] /\ served'[m] = served[m]
  BY <1>1, <1>3 DEF WriteData
<1>4. ASSUME NEW s, NEW c, WriteMarker(n, s, c)
      PROVE  data'[m] = data[m] /\ marker'[m] = marker[m] /\ served'[m] = served[m]
  BY <1>1, <1>4 DEF WriteMarker
<1>5. CASE DownloadBegins(n, v)
  BY <1>3, <1>5 DEF DownloadBegins
<1>6. CASE DownloadEnds(n, v)
  BY <1>3, <1>6 DEF DownloadEnds
<1>7. CASE CreateSuccessFile(n, v)
  BY <1>4, <1>7 DEF CreateSuccessFile
<1>8. CASE WriteSuccessFile(n, v)
  BY <1>4, <1>8 DEF WriteSuccessFile
<1>9. CASE Load(n, v) \/ Unload(n, v)
  BY <1>1, <1>9 DEF Load, Unload, ServerLoads, ServerUnloads
<1>10. CASE RemoveDirBegins(n, v)
  BY <1>1, <1>3, <1>10 DEF RemoveDirBegins, RemoveSomeEntries
<1>11. CASE RemoveDirEnds(n, v)
  BY <1>1, <1>11 DEF RemoveDirEnds, RemoveLastEntries
<1>12. CheckSuccessFile(n, v) \/ StatFails(n, v) \/ DownloadFails(n, v) \/ WriteFails(n, v)
         \/ RequestFails(n, v) \/ RemoveDirMissing(n, v) \/ RemoveDirFails(n, v)
         => UNCHANGED storeVars
  BY DEF CheckSuccessFile, StatFails, DownloadFails, WriteFails, RequestFails, RemoveDirMissing, RemoveDirFails
<1> QED
  BY <1>2, <1>5, <1>6, <1>7, <1>8, <1>9, <1>10, <1>11, <1>12 DEF ProcessOp

LEMMA ProcessOpFiles ==
  ASSUME AgentIInv, FilesIInv, "remove" \notin Faults, UNCHANGED watcherVars,
         NEW n \in Models, NEW v \in Workers, ProcessOp(n, v)
  PROVE  FilesIInv'
<1>1. ProcessorMoves(n, v)
  BY ProcessOpMoves
<1>2. /\ outbox' = outbox /\ nilTracker' = nilTracker /\ tracker' = tracker
      /\ chan' = chan /\ events' = events /\ sending' = sending /\ modelOps' = modelOps
      /\ work' = work /\ \E t \in Steps : step' = [step EXCEPT ![n][v] = t]
  BY <1>1 DEF ProcessorMoves, watcherVars, trackerVars
<1>3. phase \notin {"down", "syncing"} /\ phase' = phase
  BY PullerRuns DEF Processor
<1>4. /\ work \in [Models -> [Workers -> ModelOp \cup {NoOp}]]
      /\ step \in [Models -> [Workers -> Steps]] /\ StoreTypeOK
  BY DEF AgentIInv, IInv, TypeOK
<1>5. work[n][v] # NoOp /\ step[n][v] # "complete"
  BY Zenon DEF ProcessOp, CheckSuccessFile, StatFails, DownloadBegins, DownloadEnds, DownloadFails,
     CreateSuccessFile, WriteSuccessFile, WriteFails, Load, Unload, RequestFails,
     RemoveDirMissing, RemoveDirBegins, RemoveDirEnds, RemoveDirFails, At
<1>6. \A w \in Workers \ {v} : work[n][w] = NoOp
  BY <1>5, OthersIdle DEF AgentIInv
<1>7. PullerAtRest'
  BY <1>3 DEF PullerAtRest
<1>8. \A m : Given(m)' = Given(m)
  BY <1>2 DEF Given
<1>9. ASSUME NEW m \in Models \ {n}
      PROVE  FilesOf(m)'
  <2>1. FilesOf(m) /\ WatcherHolds(m)
    BY <1>2, <1>3, <1>9, FilesByModel DEF WatcherHolds
  <2>2. SameWork(m)
    BY <1>2, <1>4, <1>9, StoreElsewhere DEF SameWork
  <2> QED
    BY <1>2, <1>8, <2>1, <2>2, NotConcerned DEF Sent
<1>10. FilesOf(n)'
  <2>1. FilesOf(n) /\ WatcherHolds(n)
    BY <1>2, <1>3, FilesByModel DEF WatcherHolds
  <2>2. Truthful(n) /\ FilesAtStep(n, v)
    BY <2>1 DEF FilesOf
  <2>3. \/ Works(n, v, "Remove")
        \/ Works(n, v, "Add") /\ work[n][v].spec \in Specs
    <3>1. work[n][v] \in ModelOp
      BY <1>4, <1>5
    <3> QED
      BY <1>5, <3>1 DEF ModelOp, Works
  <2>4. FilesStepRight(n, v)
    BY <1>2, <1>4, <2>2, <2>3, AddStepFiles, RemoveStepFiles
  <2>5. ASSUME NEW w \in Workers \ {v}
        PROVE  FilesAtStep(n, w)'
    <3>1. step[n][w] = "start" /\ step'[n][w] = step[n][w] /\ work'[n][w] = NoOp
      BY <1>2, <1>4, <1>6, <2>1 DEF FilesOf, FilesAtStep
    <3> QED
      BY <3>1 DEF FilesAtStep, Works
  <2>6. GoneAfterWork(n) => GoneAfterWork(n)'
    <3>1. CASE Works(n, v, "Remove")
      BY <1>2, <3>1 DEF GoneAfterWork, Works
    <3>2. CASE Works(n, v, "Add")
      <4>1. ~GoneAfterWork(n)
        BY <1>5, <1>6, <3>2 DEF GoneAfterWork, Works
      <4> QED
        BY <4>1
    <3> QED
      BY <2>3, <3>1, <3>2
  <2>7. AddsComeToNoFiles(n)'
    BY <1>2, <1>8, <2>1, <2>6, InOrderFromGiven DEF FilesOf, Sent
  <2> QED
    BY <2>4, <2>5, <2>7 DEF FilesOf, FilesStepRight
<1> QED
  BY <1>7, <1>9, <1>10, FilesByModel

-----------------------------------------------------------------------------
LEMMA FilesStep ==
  ASSUME "remove" \notin Faults, AgentIInv, FilesIInv, [AgentNext]_agentVars
  PROVE  FilesIInv'
<1>1. CASE AgentConfigUpdate
  <2>1. /\ UNCHANGED <<events, storeVars, tracker, nilTracker, outbox>> /\ phase' = phase
        /\ UNCHANGED <<chan, inFlight, modelOps, work, step, completions, sending>>
    BY <1>1 DEF AgentConfigUpdate, ConfigUpdate, trackerVars, pullerVars
  <2> QED
    BY <2>1, NothingMoves
<1>2. CASE NewWatcher
  BY <1>2, NewWatcherFiles
<1>3. CASE StartPullerAndProcessModels \/ StartWatching
  <2>1. UNCHANGED <<events, storeVars, tracker, nilTracker, outbox>>
    BY <1>3 DEF StartPullerAndProcessModels, StartPuller, StartWatching, WaitReturns, watcherVars,
       trackerVars
  <2>2. UNCHANGED <<chan, inFlight, modelOps, work, step, completions, sending>>
    BY <1>3 DEF StartPullerAndProcessModels, StartPuller, StartWatching, WaitReturns, pullerVars
  <2>3. phase \notin {"down"} /\ phase' \notin {"down", "syncing"}
    BY <1>3 DEF StartPullerAndProcessModels, StartPuller, StartWatching, WaitReturns
  <2> QED
    BY <2>1, <2>2, <2>3, NothingMoves
<1>4. CASE Kill \/ Panic
  BY <1>4, CrashFiles DEF Kill, Panic
<1>5. CASE AgentPull
  <2>1. IInv'
    BY AgentStep DEF AgentIInv
  <2> QED
    BY <1>5, <2>1, TakeFiles, SendToProcessorFiles, CompleteFiles, ReceiveFiles, ProcessOpFiles,
       FinishFiles DEF AgentPull, PullerStep, Processor
<1>6. CASE AgentWatch
  <2>1. UNCHANGED <<storeVars, pullerVars>>
    BY <1>6 DEF AgentWatch
  <2>2. CASE ReceiveNotification \/ StartSweep \/ EndSync
    <3>1. /\ UNCHANGED <<events, storeVars, tracker, nilTracker, outbox>> /\ phase' = phase
          /\ UNCHANGED <<chan, inFlight, modelOps, work, step, completions, sending>>
      BY <2>1, <2>2 DEF ReceiveNotification, StartSweep, EndSync, trackerVars, pullerVars
    <3> QED
      BY <3>1, NothingMoves
  <2>3. CASE SendCommand
    BY <2>1, <2>3, SendFiles
  <2>4. ASSUME NEW m \in Models, MarkModel(m) \/ SweepModel(m)
        PROVE  FilesIInv'
    BY <2>1, <2>4, MarkFiles, SweepFiles
  <2> QED
    BY <1>6, <2>2, <2>3, <2>4 DEF AgentWatch, ParseStep
<1>7. CASE UNCHANGED agentVars
  <2>1. /\ UNCHANGED <<events, storeVars, tracker, nilTracker, outbox>> /\ phase' = phase
        /\ UNCHANGED <<chan, inFlight, modelOps, work, step, completions, sending>>
    BY <1>7 DEF agentVars, vars, watcherVars, trackerVars, pullerVars
  <2> QED
    BY <2>1, NothingMoves
<1> QED
  BY <1>1, <1>2, <1>3, <1>4, <1>5, <1>6, <1>7 DEF AgentNext

\* While RemoveDir does not fail half way (it would leave a success file beside a
\* torn directory), whatever else fails and whenever the agent is killed, a success
\* file stands beside the artifact it was written for, or beside
\* a directory whose removal was interrupted, and there is one at most.
THEOREM FilesInvariant ==
  ASSUME "remove" \notin Faults
  PROVE  AgentSpec => []FilesIInv
<1>1. AgentInit => FilesIInv
  BY AgentInitFiles
<1>2. AgentIInv /\ FilesIInv /\ [AgentNext]_agentVars => FilesIInv'
  BY FilesStep
<1> QED
  BY <1>1, <1>2, AgentInvariant, PTL DEF AgentSpec

\* In particular what a new process recovers from the success files is there
\* (syncer.go, SyncModelDir).
THEOREM SuccessFilesTellTheTruth ==
  ASSUME "remove" \notin Faults
  PROVE  AgentSpec => []SuccessFilesAreTruthful
<1>1. FilesIInv => SuccessFilesAreTruthful
  BY DEF FilesIInv
<1> QED
  BY <1>1, FilesInvariant, PTL

\* And a load that follows a look at the success file, or a download, is only asked for
\* when the directory holds exactly the artifact of the command: whatever else fails,
\* the look at the success file of another operation included, and whenever the agent
\* is killed.
THEOREM OnlyCompleteModelsAreLoaded ==
  ASSUME "remove" \notin Faults
  PROVE  AgentSpec => []LoadedIsComplete
<1>1. FilesIInv => LoadedIsComplete
  BY DEF FilesIInv, FilesAtStep, LoadedIsComplete, At, Works
<1> QED
  BY <1>1, FilesInvariant, PTL

-----------------------------------------------------------------------------
(* The agent keeps its promise to the watcher. First what the operators on  *)
(* queues do, by induction: a set of numbers that has 0 and with every one  *)
(* the next has them all.                                                  *)

\* A set of natural numbers that is not empty has a least one.
LEMMA Least ==
  ASSUME NEW T \in SUBSET Nat, T # {}
  PROVE  \E x \in T : \A y \in T : x <= y
<1>1. \E x \in T : \A y \in T : ~(<<y, x>> \in OpToRel(<, Nat))
  BY NatLessThanWellFounded, WFMin
<1>2. \A x \in Nat, y \in Nat : y < x => <<y, x>> \in OpToRel(<, Nat)
  BY DEF OpToRel
<1>3. PICK x \in T : \A y \in T : ~(<<y, x>> \in OpToRel(<, Nat))
  BY <1>1
<1>4. \A y \in T : ~ (y < x)
  BY <1>2, <1>3
<1> QED
  BY <1>4

\* Induction up to a number, over the set of the numbers for which a statement holds.
LEMMA UpTo ==
  ASSUME NEW n \in Nat, NEW S, 0 \in S, \A i \in 1..n : i - 1 \in S => i \in S
  PROVE  0..n \subseteq S
<1> DEFINE T == {i \in 0..n : i \notin S}
<1> SUFFICES ASSUME T # {} PROVE FALSE
  OBVIOUS
<1>1. T \in SUBSET Nat
  OBVIOUS
<1> HIDE DEF T
<1>2. PICK x \in T : \A y \in T : x <= y
  BY <1>1, Least
<1> USE DEF T
<1>3. x \in 1..n /\ x - 1 \in 0..n /\ ~(x <= x - 1)
  BY <1>2
<1>4. x - 1 \in S
  BY <1>2, <1>3
<1> QED
  BY <1>2, <1>3, <1>4

\* The function f starts with a and goes on by g.
Recurs(f, n, a, g) == f[0] = a /\ \A i \in 1..n : f[i] = g[i][f[i - 1]]

\* A function defined by recursion up to a number exists.
LEMMA Recursion ==
  ASSUME NEW n \in Nat, NEW V, NEW a \in V, NEW g \in [1..n -> [V -> V]]
  PROVE  \E f \in [0..n -> V] : Recurs(f, n, a, g)
<1> DEFINE To(k, f) == Recurs(f, k, a, g)
           S == {k \in 0..n : \E f \in [0..k -> V] : To(k, f)}
<1>1. 0 \in S
  <2>1. [i \in 0..0 |-> a] \in [0..0 -> V] /\ To(0, [i \in 0..0 |-> a]) /\ 0 \in 0..n
    BY DEF Recurs
  <2> QED
    BY <2>1
<1>2. ASSUME NEW k \in 1..n, k - 1 \in S PROVE k \in S
  <2>1. PICK f \in [0..(k - 1) -> V] : To(k - 1, f)
    BY <1>2
  <2> DEFINE h == [i \in 0..k |-> IF i = k THEN g[k][f[k - 1]] ELSE f[i]]
  <2>2. h \in [0..k -> V]
    OBVIOUS
  <2>3. h[0] = a
    BY <2>1 DEF Recurs
  <2>4. ASSUME NEW i \in 1..k PROVE h[i] = g[i][h[i - 1]]
    <3>1. i - 1 \in 0..k /\ i - 1 # k /\ h[i - 1] = f[i - 1]
      OBVIOUS
    <3>2. CASE i = k
      BY <3>1, <3>2
    <3>3. CASE i # k
      <4>1. i \in 1..(k - 1)
        BY <3>3
      <4>2. f[i] = g[i][f[i - 1]]
        BY <2>1, <4>1 DEF Recurs
      <4> QED
        BY <3>1, <3>3, <4>2
    <3> QED
      BY <3>2, <3>3
  <2> HIDE DEF h
  <2>5. To(k, h) /\ k \in 0..n
    BY <2>3, <2>4 DEF Recurs
  <2> QED
    BY <2>2, <2>5
<1> HIDE DEF S
<1>3. 0..n \subseteq S
  BY <1>1, <1>2, UpTo
<1>4. n \in S
  BY <1>3
<1> QED
  BY <1>4 DEF S

\* What one operation adds, and a function that keeps those of the model so far.
Part(x, m) == IF x.model = m THEN <<x>> ELSE <<>>

Keeps(kept, seq, m) ==
  kept = [i \in 0..Len(seq) |-> IF i = 0 THEN <<>> ELSE kept[i - 1] \o Part(seq[i], m)]

IsKept(kept, seq, m, V) ==
  /\ kept \in [0..Len(seq) -> Seq(V)]
  /\ OfModel(seq, m) = kept[Len(seq)]
  /\ kept[0] = <<>>
  /\ \A i \in 1..Len(seq) : kept[i] = kept[i - 1] \o Part(seq[i], m)

\* The function that OfModel is defined by exists.
LEMMA OfModelIsKept ==
  ASSUME NEW V, NEW seq \in Seq(V), NEW m
  PROVE  \E kept : IsKept(kept, seq, m, V)
<1> DEFINE n == Len(seq)
           g == [i \in 1..n |-> [s \in Seq(V) |-> s \o Part(seq[i], m)]]
           k == CHOOSE kept : Keeps(kept, seq, m)
<1>1. n \in Nat /\ <<>> \in Seq(V)
  OBVIOUS
<1>2. g \in [1..n -> [Seq(V) -> Seq(V)]]
  BY DEF Part
<1>3. PICK f \in [0..n -> Seq(V)] : f[0] = <<>> /\ \A i \in 1..n : f[i] = g[i][f[i - 1]]
  <2> DEFINE W == Seq(V)
             a == <<>>
  <2>1. a \in W /\ g \in [1..n -> [W -> W]]
    BY <1>1, <1>2
  <2> HIDE DEF g, n, k, W, a
  <2>2. \E f \in [0..n -> W] : Recurs(f, n, a, g)
    BY <1>1, <2>1, Recursion
  <2> QED
    BY <2>2 DEF W, a, Recurs
<1>4. ASSUME NEW i \in 1..n PROVE f[i] = f[i - 1] \o Part(seq[i], m)
  <2>1. i - 1 \in 0..n
    BY <1>1
  <2>2. f[i] = g[i][f[i - 1]] /\ f[i - 1] \in Seq(V)
    <3> HIDE DEF n, g, k
    <3> QED
      BY <1>3, <2>1
  <2> HIDE DEF k, n
  <2> QED
    BY <2>2
<1>5. Keeps(f, seq, m)
  <2>1. f = [i \in 0..n |-> f[i]]
    BY <1>3
  <2>2. \A i \in 0..n : f[i] = IF i = 0 THEN <<>> ELSE f[i - 1] \o Part(seq[i], m)
    <3> HIDE DEF g, k
    <3>1. \A i \in 0..n : i = 0 \/ i \in 1..n
      BY <1>1
    <3> HIDE DEF n
    <3> QED
      BY <1>3, <1>4, <3>1
  <2> HIDE DEF k, g
  <2> QED
    BY <2>1, <2>2 DEF Keeps
<1>6. Keeps(k, seq, m)
  BY <1>5
<1>7. OfModel(seq, m) = k[n]
  BY DEF OfModel, Keeps, Part
<1> HIDE DEF k
<1>8. k[0] = <<>> /\ \A i \in 1..n : k[i] = k[i - 1] \o Part(seq[i], m)
  <2>1. 0 \in 0..n /\ \A i \in 1..n : i \in 0..n /\ i # 0
    BY <1>1
  <2> HIDE DEF g
  <2>2. \A i \in 0..n : k[i] = IF i = 0 THEN <<>> ELSE k[i - 1] \o Part(seq[i], m)
    BY <1>6 DEF Keeps
  <2> HIDE DEF n
  <2> QED
    BY <2>1, <2>2
<1> DEFINE S == {i \in 0..n : k[i] \in Seq(V)}
<1> HIDE DEF g
<1>9. 0 \in S
  <2>1. 0 \in 0..n /\ k[0] \in Seq(V)
    BY <1>1, <1>8
  <2> QED
    BY <2>1
<1>10. ASSUME NEW i \in 1..n, i - 1 \in S PROVE i \in S
  <2>1. k[i] = k[i - 1] \o Part(seq[i], m) /\ k[i - 1] \in Seq(V)
    BY <1>8, <1>10
  <2>2. Part(seq[i], m) \in Seq(V)
    BY DEF Part
  <2>3. k[i] \in Seq(V)
    BY <2>1, <2>2
  <2>4. i \in 0..n
    BY <1>1
  <2> QED
    BY <2>3, <2>4
<1>11. 0..n \subseteq S
  <2> HIDE DEF S
  <2> QED
    BY <1>1, <1>9, <1>10, UpTo
<1>12. k \in [0..n -> Seq(V)]
  BY <1>6, <1>11 DEF Keeps
<1> QED
  BY <1>7, <1>8, <1>12 DEF IsKept

\* The choice of a model's operations from one queue after the other.
LEMMA OfModelConcat ==
  ASSUME NEW s \in Seq(ModelOp), NEW t \in Seq(ModelOp), NEW m
  PROVE  /\ OfModel(s \o t, m) = OfModel(s, m) \o OfModel(t, m)
         /\ OfModel(s, m) \in Seq(ModelOp)
<1> DEFINE n == Len(s)
           p == Len(t)
           u == s \o t
<1>1. /\ n \in Nat /\ p \in Nat /\ u \in Seq(ModelOp) /\ Len(u) = n + p
      /\ \A i \in 1..n : u[i] = s[i]
      /\ \A i \in 1..p : u[n + i] = t[i]
  OBVIOUS
<1>2. PICK a : IsKept(a, s, m, ModelOp)
  BY OfModelIsKept
<1>3. PICK b : IsKept(b, t, m, ModelOp)
  BY OfModelIsKept
<1>4. PICK c : IsKept(c, u, m, ModelOp)
  BY <1>1, OfModelIsKept
<1>5. /\ a \in [0..n -> Seq(ModelOp)]
      /\ OfModel(s, m) = a[n] /\ a[0] = <<>>
      /\ \A i \in 1..n : a[i] = a[i - 1] \o Part(s[i], m)
  BY <1>2 DEF IsKept
<1>6. /\ b \in [0..p -> Seq(ModelOp)]
      /\ OfModel(t, m) = b[p] /\ b[0] = <<>>
      /\ \A i \in 1..p : b[i] = b[i - 1] \o Part(t[i], m)
  BY <1>3 DEF IsKept
<1>7. /\ c \in [0..(n + p) -> Seq(ModelOp)]
      /\ OfModel(u, m) = c[n + p] /\ c[0] = <<>>
      /\ \A i \in 1..(n + p) : c[i] = c[i - 1] \o Part(u[i], m)
  <2>1. Len(u) = n + p
    BY <1>1
  <2> HIDE DEF u, n, p
  <2> QED
    BY <1>4, <2>1 DEF IsKept
<1> HIDE DEF n, p, u
<1> DEFINE S == {i \in 0..n : c[i] = a[i]}
<1>8. 0 \in S
  BY <1>1, <1>5, <1>7
<1>9. ASSUME NEW i \in 1..n, i - 1 \in S PROVE i \in S
  <2>1. i \in 0..n /\ i \in 1..(n + p) /\ c[i - 1] = a[i - 1] /\ u[i] = s[i]
    BY <1>1, <1>9
  <2> QED
    BY <1>5, <1>7, <2>1
<1>10. 0..n \subseteq S
  <2> HIDE DEF S
  <2> QED
    BY <1>1, <1>8, <1>9, UpTo
<1>11. c[n] = a[n]
  BY <1>1, <1>10
<1> DEFINE T == {i \in 0..p : c[n + i] = a[n] \o b[i]}
<1>12. 0 \in T
  <2>1. a[n] \in Seq(ModelOp) /\ n + 0 = n /\ 0 \in 0..p
    BY <1>1, <1>5
  <2>2. a[n] \o <<>> = a[n]
    BY <2>1, ConcatEmptySeq
  <2> QED
    BY <1>6, <1>11, <2>1, <2>2
<1>13. ASSUME NEW i \in 1..p, i - 1 \in T PROVE i \in T
  <2>1. /\ i \in 0..p /\ i - 1 \in 0..p /\ n + i \in 1..(n + p) /\ (n + i) - 1 = n + (i - 1)
        /\ u[n + i] = t[i]
    <3>1. i \in Nat /\ i >= 1 /\ i <= p
      BY <1>1
    <3>2. n + i \in 1..(n + p) /\ (n + i) - 1 = n + (i - 1)
      BY <1>1, <3>1
    <3> QED
      BY <1>1, <3>1, <3>2
  <2>2. c[n + i] = c[n + (i - 1)] \o Part(t[i], m)
    BY <1>7, <2>1
  <2>3. c[n + (i - 1)] = a[n] \o b[i - 1]
    BY <1>13
  <2>4. a[n] \in Seq(ModelOp) /\ b[i - 1] \in Seq(ModelOp) /\ Part(t[i], m) \in Seq(ModelOp)
    <3>1. n \in 0..n
      BY <1>1
    <3>2. t[i] \in ModelOp
      BY <1>1 DEF p
    <3>3. Part(t[i], m) \in Seq(ModelOp)
      BY <3>2 DEF Part
    <3>4. a[n] \in Seq(ModelOp)
      BY <1>5, <3>1
    <3>5. b[i - 1] \in Seq(ModelOp)
      BY <1>6, <2>1
    <3> QED
      BY <3>3, <3>4, <3>5
  <2>5. (a[n] \o b[i - 1]) \o Part(t[i], m) = a[n] \o (b[i - 1] \o Part(t[i], m))
    <3> DEFINE x == a[n]
               y == b[i - 1]
               z == Part(t[i], m)
    <3>1. x \in Seq(ModelOp) /\ y \in Seq(ModelOp) /\ z \in Seq(ModelOp)
      BY <2>4
    <3> HIDE DEF x, y, z
    <3>2. (x \o y) \o z = x \o (y \o z)
      BY <3>1, ConcatAssociative
    <3> QED
      BY <3>2 DEF x, y, z
  <2> QED
    BY <1>6, <2>1, <2>2, <2>3, <2>5
<1>14. 0..p \subseteq T
  <2> HIDE DEF T
  <2> QED
    BY <1>1, <1>12, <1>13, UpTo
<1>15. c[n + p] = a[n] \o b[p]
  <2>1. p \in 0..p
    BY <1>1
  <2>2. p \in T
    BY <1>14, <2>1
  <2> QED
    BY <2>2
<1> QED
  BY <1>1, <1>5, <1>6, <1>7, <1>15 DEF u

\* The choice from a queue with nothing in it, and with one operation.
LEMMA OfModelOne ==
  /\ \A m : OfModel(<<>>, m) = <<>>
  /\ \A x, m : OfModel(<<x>>, m) = Part(x, m)
<1>1. ASSUME NEW m PROVE OfModel(<<>>, m) = <<>>
  <2>1. PICK kept : IsKept(kept, <<>>, m, {})
    BY OfModelIsKept, EmptySeq
  <2>2. Len(<<>>) = 0
    BY EmptySeq
  <2> QED
    BY <2>1, <2>2 DEF IsKept
<1>2. ASSUME NEW x, NEW m PROVE OfModel(<<x>>, m) = Part(x, m)
  <2> DEFINE q == <<x>>
             V == {x}
  <2>1. q \in Seq(V) /\ Len(q) = 1 /\ q[1] = x
    OBVIOUS
  <2>2. Part(x, m) \in Seq(V)
    <3>1. <<x>> \in Seq(V) /\ <<>> \in Seq(V)
      OBVIOUS
    <3> QED
      BY <3>1 DEF Part
  <2> HIDE DEF q, V
  <2>3. PICK kept : IsKept(kept, q, m, V)
    BY <2>1, OfModelIsKept
  <2>4. OfModel(q, m) = kept[1] /\ kept[0] = <<>> /\ kept[1] = kept[1 - 1] \o Part(q[1], m)
    BY <2>1, <2>3 DEF IsKept
  <2>5. kept[1] = <<>> \o Part(x, m)
    <3>1. 1 - 1 = 0
      OBVIOUS
    <3>2. kept[1 - 1] = <<>>
      BY <2>4, <3>1
    <3> QED
      BY <2>1, <2>4, <3>2
  <2>6. <<>> \o Part(x, m) = Part(x, m)
    BY <2>2, ConcatEmptySeq
  <2> QED
    BY <2>4, <2>5, <2>6 DEF q
<1> QED
  BY <1>1, <1>2

\* The choice from a queue with an operation in front of it.
LEMMA OfModelFront ==
  ASSUME NEW op \in ModelOp, NEW q \in Seq(ModelOp), NEW m
  PROVE  /\ OfModel(<<op>> \o q, m) = Part(op, m) \o OfModel(q, m)
         /\ OfModel(q, m) \in Seq(ModelOp)
<1>1. PICK one : one = <<op>>
  OBVIOUS
<1>2. one \in Seq(ModelOp) /\ OfModel(one, m) = Part(op, m)
  BY <1>1, OfModelOne
<1>3. OfModel(one \o q, m) = OfModel(one, m) \o OfModel(q, m)
  BY <1>2, OfModelConcat
<1>4. OfModel(q, m) \in Seq(ModelOp)
  BY OfModelConcat
<1> QED
  BY <1>1, <1>2, <1>3, <1>4

\* The effects of a sequence of operations.
Effects(ops) == [i \in DOMAIN ops |-> EffectOf(ops[i])]

LEMMA EffectsOf ==
  ASSUME NEW s \in Seq(ModelOp)
  PROVE  /\ Len(Effects(s)) = Len(s) /\ Effects(s) \in Seq(Specs \cup {NoSpec})
         /\ \A i \in 1..Len(s) : Effects(s)[i] = EffectOf(s[i])
<1>1. \A op \in ModelOp : EffectOf(op) \in Specs \cup {NoSpec}
  BY DEF ModelOp, EffectOf
<1>2. Len(s) \in Nat /\ DOMAIN s = 1..Len(s) /\ \A i \in 1..Len(s) : s[i] \in ModelOp
  BY LenProperties, ElementOfSeq
<1>3. Effects(s) = [i \in 1..Len(s) |-> EffectOf(s[i])]
  BY <1>2 DEF Effects
<1> DEFINE n == Len(s)
<1>4. \A i \in 1..n : EffectOf(s[i]) \in Specs \cup {NoSpec}
  BY <1>1, <1>2
<1> HIDE DEF n
<1>5. [i \in 1..n |-> EffectOf(s[i])] \in Seq(Specs \cup {NoSpec})
  BY <1>2, <1>4 DEF n
<1>6. Len([i \in 1..n |-> EffectOf(s[i])]) = n
  BY <1>2 DEF n
<1> QED
  BY <1>3, <1>5, <1>6 DEF n

LEMMA EffectsConcat ==
  ASSUME NEW s \in Seq(ModelOp), NEW t \in Seq(ModelOp)
  PROVE  Effects(s \o t) = Effects(s) \o Effects(t)
<1> DEFINE E == Specs \cup {NoSpec}
           u == s \o t
           a == Effects(s)
           b == Effects(t)
           c == Effects(u)
           n == Len(s)
           p == Len(t)
<1>1. u \in Seq(ModelOp) /\ Len(u) = n + p /\ n \in Nat /\ p \in Nat
      /\ \A i \in 1..(n + p) : u[i] = IF i <= n THEN s[i] ELSE t[i - n]
  BY ConcatProperties, LenProperties
<1>2. /\ Len(a) = n /\ a \in Seq(E) /\ \A i \in 1..n : a[i] = EffectOf(s[i])
      /\ Len(b) = p /\ b \in Seq(E) /\ \A i \in 1..p : b[i] = EffectOf(t[i])
      /\ Len(c) = n + p /\ c \in Seq(E) /\ \A i \in 1..(n + p) : c[i] = EffectOf(u[i])
  BY <1>1, EffectsOf
<1> HIDE DEF E, u, a, b, c, n, p
<1>3. /\ a \o b \in Seq(E) /\ Len(a \o b) = n + p
      /\ \A i \in 1..(n + p) : (a \o b)[i] = IF i <= n THEN a[i] ELSE b[i - n]
  BY <1>2, ConcatProperties
<1>4. ASSUME NEW i \in 1..(n + p) PROVE c[i] = (a \o b)[i]
  <2>1. CASE i <= n
    <3>1. i \in 1..n
      BY <1>1, <2>1
    <3> QED
      BY <1>1, <1>2, <1>3, <2>1, <3>1
  <2>2. CASE ~(i <= n)
    <3>1. i - n \in 1..p
      BY <1>1, <2>2
    <3> QED
      BY <1>1, <1>2, <1>3, <2>2, <3>1
  <2> QED
    BY <2>1, <2>2
<1>5. c = a \o b
  BY <1>2, <1>3, <1>4, SeqEqual
<1> QED
  BY <1>5 DEF a, b, c, u

\* An operation at the front takes effect first.
LEMMA EffectsFront ==
  ASSUME NEW op \in ModelOp, NEW t \in Seq(ModelOp)
  PROVE  LET e == Effects(<<op>> \o t) IN
         e # <<>> /\ Head(e) = EffectOf(op) /\ Tail(e) = Effects(t)
<1> DEFINE E == Specs \cup {NoSpec}
           b == Effects(t)
           x == EffectOf(op)
<1>1. <<op>> \in Seq(ModelOp) /\ Effects(<<op>>) = <<x>> /\ x \in E
  <2>1. x \in E
    BY DEF EffectOf, ModelOp
  <2>2. DOMAIN <<op>> = {1} /\ <<op>>[1] = op
    OBVIOUS
  <2>3. Effects(<<op>>) = [i \in {1} |-> x]
    BY <2>2 DEF Effects
  <2> HIDE DEF x
  <2>4. [i \in {1} |-> x] = <<x>>
    OBVIOUS
  <2> QED
    BY <2>1, <2>3, <2>4
<1>2. Effects(<<op>> \o t) = <<x>> \o b /\ b \in Seq(E)
  BY <1>1, EffectsConcat, EffectsOf
<1> HIDE DEF E, b, x
<1>3. <<x>> \o b # <<>> /\ Head(<<x>> \o b) = x /\ Tail(<<x>> \o b) = b
  BY <1>1, <1>2
<1> QED
  BY <1>2, <1>3 DEF b, x

\* Every queue holds operations, and so does what is pending.
LEMMA PendingTyped ==
  ASSUME IInv, WatcherIInv, NEW m \in Models
  PROVE  /\ Sent \o events \o outbox \in Seq(ModelOp)
         /\ TakenOps(m) \in Seq(ModelOp)
         /\ OfModel(Sent \o events \o outbox, m) \in Seq(ModelOp)
         /\ PendingOps(m) \in Seq(ModelOp)
         /\ Pending(m) = Effects(PendingOps(m))
<1>1. Sent \in Seq(ModelOp) /\ events \in Seq(ModelOp) /\ outbox \in Seq(ModelOp)
  BY QueuesTyped
<1> DEFINE q == Sent \o events \o outbox
<1>2. q \in Seq(ModelOp)
  BY <1>1
<1>3. modelOps \in [Models -> [Workers -> Seq(ModelOp)]]
      /\ work \in [Models -> [Workers -> ModelOp \cup {NoOp}]]
      /\ chan \in [Models -> Workers \cup {NoWorker}]
  BY DEF IInv, TypeOK
<1>4. TakenOps(m) \in Seq(ModelOp)
  <2>1. CASE chan[m] = NoWorker
    BY <2>1 DEF TakenOps
  <2>2. CASE chan[m] # NoWorker
    <3> DEFINE w == chan[m]
               a == InProgress(m, w)
               b == modelOps[m][w]
    <3>1. w \in Workers /\ b \in Seq(ModelOp) /\ work[m][w] \in ModelOp \cup {NoOp}
      BY <1>3, <2>2
    <3>2. a \in Seq(ModelOp)
      BY <3>1 DEF InProgress
    <3>3. TakenOps(m) = a \o b
      BY <2>2 DEF TakenOps
    <3> HIDE DEF a, b
    <3> QED
      BY <3>1, <3>2, <3>3
  <2> QED
    BY <2>1, <2>2
<1> HIDE DEF q
<1>5. OfModel(q, m) \in Seq(ModelOp)
  BY <1>2, OfModelConcat
<1>6. PendingOps(m) = TakenOps(m) \o OfModel(q, m)
  BY DEF PendingOps, q
<1>7. PendingOps(m) \in Seq(ModelOp)
  BY <1>4, <1>5, <1>6
<1> QED
  BY <1>2, <1>4, <1>5, <1>7 DEF q, Pending, Effects

\* The same of the state a step leads to.
PendingIsTyped ==
  \A m \in Models : /\ PendingOps(m) \in Seq(ModelOp)
                    /\ Pending(m) = Effects(PendingOps(m))

LEMMA PendingTypedHere == IInv /\ WatcherIInv => PendingIsTyped
BY PendingTyped DEF PendingIsTyped

LEMMA PendingTypedNext == (IInv /\ WatcherIInv => PendingIsTyped)'
BY PendingTypedHere, PTL
-----------------------------------------------------------------------------
(* What each step does to the commands that are pending.                   *)

\* The commands that no processor has been given yet, of all models.
Queue == Sent \o events \o outbox

\* Nothing is issued and nothing takes effect.
NonePass ==
  /\ UNCHANGED <<served, Unchecked>>
  /\ \A m \in Models : PendingOps(m)' = PendingOps(m)

\* The first command of the model n, which is op, is not pending any more.
Passes(n, op) ==
  /\ op \in ModelOp
  /\ Unchecked' = Unchecked \ {n}
  /\ PendingOps(n) = <<op>> \o PendingOps(n)'
  /\ \A m \in Models \ {n} : PendingOps(m)' = PendingOps(m)

\* What the variables of the queues hold.
LEMMA QueueTypes ==
  ASSUME IInv, WatcherIInv
  PROVE  /\ events \in Seq(ModelOp) /\ outbox \in Seq(ModelOp) /\ Sent \in Seq(ModelOp)
         /\ sending \in ModelOp \cup {NoOp}
         /\ chan \in [Models -> Workers \cup {NoWorker}]
         /\ modelOps \in [Models -> [Workers -> Seq(ModelOp)]]
         /\ work \in [Models -> [Workers -> ModelOp \cup {NoOp}]]
         /\ step \in [Models -> [Workers -> Steps]]
         /\ completions \in Seq(ModelOp)
         /\ snapshot \in Configs
<1>1. events \in Seq(ModelOp) /\ outbox \in Seq(ModelOp) /\ Sent \in Seq(ModelOp)
  <2>1. sending \in ModelOp \cup {NoOp}
    BY DEF IInv, TypeOK
  <2> QED
    BY <2>1 DEF IInv, TypeOK, EventsTypeOK, WatcherIInv, WatcherTypeOK, Sent
<1>2. snapshot \in Configs
  BY DEF WatcherIInv, WatcherTypeOK
<1> QED
  BY <1>1, <1>2 DEF IInv, TypeOK

\* A model whose processor, channel and channel entry stay as they are.
LEMMA TakenSame ==
  ASSUME NEW m, chan'[m] = chan[m], work'[m] = work[m], step'[m] = step[m],
         modelOps'[m] = modelOps[m]
  PROVE  TakenOps(m)' = TakenOps(m)
BY DEF TakenOps, InProgress

\* The loads without a check stay the same when each processor is at one or at none.
LEMMA UncheckedSame ==
  ASSUME \A m \in Models, w \in Workers :
           At(m, w, "Add", "unchecked")' <=> At(m, w, "Add", "unchecked")
  PROVE  UNCHANGED Unchecked
BY DEF Unchecked

LEMMA UncheckedStays ==
  ASSUME UNCHANGED <<work, step>>
  PROVE  UNCHANGED Unchecked
BY UncheckedSame DEF At

\* A sequence is its head and then its tail.
LEMMA HeadThenTail ==
  ASSUME NEW V, NEW s \in Seq(V), s # <<>>
  PROVE  /\ Head(s) \in V /\ Tail(s) \in Seq(V) /\ <<Head(s)>> \in Seq(V)
         /\ s = <<Head(s)>> \o Tail(s)
OBVIOUS

\* processCommands takes the oldest command: it is still first in the queue.
LEMMA TakeNonePass ==
  ASSUME IInv, WatcherIInv, TakeCommand, UNCHANGED watcherVars
  PROVE  NonePass
<1> DEFINE h == Head(events)
           t == Tail(events)
           n == h.model
<1>1. /\ sending = NoOp /\ events # <<>> /\ events' = t /\ sending' = h /\ outbox' = outbox
      /\ UNCHANGED <<served, modelOps, work, step>>
  BY DEF TakeCommand, storeVars, watcherVars
<1>2. events \in Seq(ModelOp) /\ outbox \in Seq(ModelOp)
  BY QueueTypes
<1>3. h \in ModelOp /\ t \in Seq(ModelOp) /\ events = <<h>> \o t
  BY <1>1, <1>2, HeadThenTail
<1>4. n \in Models /\ h # NoOp
  BY <1>3, NoOpAssumption DEF ModelOp
<1>5. Queue' = Queue
  <2>1. Sent = <<>> /\ Sent' = <<h>>
    BY <1>1, <1>4 DEF Sent
  <2>2. <<>> \o events = events
    BY <1>2, ConcatEmptySeq
  <2> HIDE DEF h, t
  <2> QED
    BY <1>1, <1>3, <2>1, <2>2 DEF Queue
<1>6. /\ chan \in [Models -> Workers \cup {NoWorker}]
      /\ modelOps \in [Models -> [Workers -> Seq(ModelOp)]]
  BY DEF IInv, TypeOK
<1>7. chan' = chan \/ \E w \in Workers : Free(n, w) /\ chan[n] = NoWorker /\ chan' = [chan EXCEPT ![n] = w]
  BY DEF TakeCommand
<1> HIDE DEF h, t, n
<1>8. ASSUME NEW m \in Models PROVE TakenOps(m)' = TakenOps(m)
  <2>1. CASE chan'[m] = chan[m]
    BY <1>1, <2>1, TakenSame
  <2>2. CASE chan'[m] # chan[m]
    <3>1. PICK w \in Workers : Free(n, w) /\ chan[n] = NoWorker /\ chan' = [chan EXCEPT ![n] = w]
      BY <1>7, <2>2
    <3>2. m = n /\ chan'[m] = w /\ w # NoWorker
      BY <1>6, <2>2, <3>1, WorkersAssumption
    <3>3. work[m][w] = NoOp /\ modelOps[m][w] = <<>>
      BY <3>1, <3>2 DEF Free
    <3>4. TakenOps(m) = <<>>
      BY <3>1, <3>2 DEF TakenOps
    <3>5. TakenOps(m)' = <<>> \o <<>>
      BY <1>1, <3>2, <3>3 DEF TakenOps, InProgress
    <3> QED
      BY <3>4, <3>5
  <2> QED
    BY <2>1, <2>2
<1> QED
  BY <1>1, <1>5, <1>8, UncheckedStays DEF NonePass, PendingOps, Queue

\* The watcher puts its oldest command at the end of the channel.
LEMMA SendNonePass ==
  ASSUME IInv, WatcherIInv, SendCommand, UNCHANGED <<storeVars, pullerVars>>
  PROVE  NonePass
<1> DEFINE h == Head(outbox)
           t == Tail(outbox)
<1>1. /\ outbox # <<>> /\ outbox' = t /\ events' = Append(events, h)
      /\ UNCHANGED <<served, modelOps, work, step, chan, sending>>
  BY DEF SendCommand, SendEvent, storeVars, pullerVars
<1>2. Sent \in Seq(ModelOp) /\ events \in Seq(ModelOp) /\ outbox \in Seq(ModelOp)
  BY QueueTypes
<1>3. h \in ModelOp /\ t \in Seq(ModelOp) /\ outbox = <<h>> \o t /\ <<h>> \in Seq(ModelOp)
  BY <1>1, <1>2, HeadThenTail
<1>4. Append(events, h) = events \o <<h>>
  BY <1>2, <1>3
<1>5. Sent' = Sent
  BY <1>1 DEF Sent
<1> HIDE DEF h, t
<1>6. (Sent \o (events \o <<h>>)) \o t = (Sent \o events) \o (<<h>> \o t)
  <2>1. Sent \o (events \o <<h>>) = (Sent \o events) \o <<h>>
    BY <1>2, <1>3, ConcatAssociative
  <2>2. Sent \o events \in Seq(ModelOp)
    BY <1>2
  <2>3. ((Sent \o events) \o <<h>>) \o t = (Sent \o events) \o (<<h>> \o t)
    BY <1>3, <2>2, ConcatAssociative
  <2> QED
    BY <2>1, <2>3
<1>7. Queue' = Queue
  BY <1>1, <1>3, <1>4, <1>5, <1>6 DEF Queue
<1>8. ASSUME NEW m \in Models PROVE TakenOps(m)' = TakenOps(m)
  BY <1>1, TakenSame
<1> QED
  BY <1>1, <1>7, <1>8, UncheckedStays DEF NonePass, PendingOps, Queue

\* The operation that is sent goes from the front of the queue to the end of what its
\* processor has.
LEMMA SendToProcessorNonePass ==
  ASSUME IInv, WatcherIInv, SendToProcessor, UNCHANGED watcherVars
  PROVE  NonePass
<1>0. PICK op, n, v : op = sending /\ n = op.model /\ v = chan[n]
  OBVIOUS
<1> DEFINE q == events \o outbox
<1>1. /\ op # NoOp /\ modelOps' = [modelOps EXCEPT ![n][v] = Append(@, op)] /\ sending' = NoOp
      /\ UNCHANGED <<served, events, outbox, chan, work, step>>
  BY <1>0 DEF SendToProcessor, storeVars, watcherVars
<1>2. /\ op \in ModelOp /\ events \in Seq(ModelOp) /\ outbox \in Seq(ModelOp)
      /\ modelOps \in [Models -> [Workers -> Seq(ModelOp)]]
      /\ chan \in [Models -> Workers \cup {NoWorker}]
      /\ work \in [Models -> [Workers -> ModelOp \cup {NoOp}]]
  BY <1>0, <1>1, QueueTypes
<1>3. n \in Models
  BY <1>0, <1>2 DEF ModelOp
<1>4. v # NoWorker /\ v \in Workers
  <2>1. v # NoWorker
    BY <1>0, <1>1, <1>3 DEF IInv, InFlightIsOutstanding
  <2> QED
    BY <1>0, <1>2, <1>3, <2>1
<1>5. q \in Seq(ModelOp) /\ Queue = <<op>> \o q /\ Queue' = q
  <2>1. Sent = <<op>> /\ Sent' = <<>>
    BY <1>0, <1>1 DEF Sent
  <2>2. <<op>> \in Seq(ModelOp) /\ <<>> \o events = events
    BY <1>2
  <2>3. (<<op>> \o events) \o outbox = <<op>> \o (events \o outbox)
    BY <1>2, <2>2, ConcatAssociative
  <2> QED
    BY <1>1, <1>2, <2>1, <2>2, <2>3 DEF Queue
<1>6. \A m : OfModel(Queue, m) = Part(op, m) \o OfModel(q, m) /\ OfModel(q, m) \in Seq(ModelOp)
  <2> HIDE DEF q
  <2> QED
    BY <1>2, <1>5, OfModelFront
<1>7. ASSUME NEW m \in Models
      PROVE  TakenOps(m)' = TakenOps(m) \o Part(op, m) /\ TakenOps(m) \in Seq(ModelOp)
             /\ Part(op, m) \in Seq(ModelOp)
  <2>1. TakenOps(m) \in Seq(ModelOp) /\ Part(op, m) \in Seq(ModelOp)
    <3>1. <<op>> \in Seq(ModelOp) /\ <<>> \in Seq(ModelOp)
      BY <1>2
    <3> QED
      BY <3>1, PendingTyped DEF Part
  <2>2. CASE m # n
    <3>1. Part(op, m) = <<>>
      BY <1>0, <2>2 DEF Part
    <3>2. modelOps'[m] = modelOps[m]
      BY <1>1, <1>2, <2>2
    <3>3. TakenOps(m)' = TakenOps(m)
      BY <1>1, <3>2, TakenSame
    <3> QED
      BY <2>1, <3>1, <3>3, ConcatEmptySeq
  <2>3. CASE m = n
    <3> DEFINE a == InProgress(n, v)
               b == modelOps[n][v]
    <3>1. b \in Seq(ModelOp) /\ work[n][v] \in ModelOp \cup {NoOp}
      BY <1>2, <1>3, <1>4
    <3>2. a \in Seq(ModelOp)
      BY <3>1 DEF InProgress
    <3>3. modelOps'[n][v] = Append(b, op)
      BY <1>1, <1>2, <1>3, <1>4
    <3>4. Append(b, op) = b \o <<op>> /\ <<op>> \in Seq(ModelOp)
      <4> HIDE DEF b
      <4> QED
        BY <1>2, <3>1
    <3>5. InProgress(n, v)' = a
      BY <1>1 DEF InProgress
    <3>6. TakenOps(n) = a \o b
      BY <1>0, <1>4 DEF TakenOps
    <3>7. TakenOps(n)' = a \o (b \o <<op>>)
      <4>1. chan'[n] = v
        BY <1>0, <1>1
      <4>2. InProgress(n, chan[n])' = a
        BY <3>5, <4>1 DEF InProgress
      <4> HIDE DEF a, b
      <4> QED
        BY <1>4, <3>3, <3>4, <4>1, <4>2 DEF TakenOps
    <3>8. Part(op, n) = <<op>>
      BY <1>0 DEF Part
    <3> HIDE DEF a, b
    <3>9. a \o (b \o <<op>>) = (a \o b) \o <<op>>
      BY <3>1, <3>2, <3>4, ConcatAssociative
    <3> QED
      BY <2>1, <2>3, <3>6, <3>7, <3>8, <3>9
  <2> QED
    BY <2>2, <2>3
<1>8. ASSUME NEW m \in Models PROVE PendingOps(m)' = PendingOps(m)
  <2>1. PendingOps(m) = TakenOps(m) \o (Part(op, m) \o OfModel(q, m))
    BY <1>6 DEF PendingOps, Queue
  <2>2. PendingOps(m)' = (TakenOps(m) \o Part(op, m)) \o OfModel(q, m)
    BY <1>5, <1>7 DEF PendingOps, Queue
  <2> HIDE DEF q
  <2>3. PICK a, b, c : a = TakenOps(m) /\ b = Part(op, m) /\ c = OfModel(q, m)
    OBVIOUS
  <2>4. a \in Seq(ModelOp) /\ b \in Seq(ModelOp) /\ c \in Seq(ModelOp)
    BY <1>6, <1>7, <2>3
  <2>5. (a \o b) \o c = a \o (b \o c)
    BY <2>4, ConcatAssociative
  <2> QED
    BY <2>1, <2>2, <2>3, <2>5
<1> QED
  BY <1>1, <1>8, UncheckedStays DEF NonePass
\* What a processor has, while it has anything.
LEMMA TakenByOne ==
  ASSUME IInv, NEW n \in Models, NEW v \in Workers, Busy(n, v)
  PROVE  /\ chan[n] = v /\ v # NoWorker
         /\ TakenOps(n) = InProgress(n, v) \o modelOps[n][v]
<1>1. chan[n] = v /\ v # NoWorker
  BY WorkersAssumption DEF IInv, NoOrphanedProcessor
<1> QED
  BY <1>1 DEF TakenOps

\* The queue stays as it is, and so does what each processor was given.
LEMMA SameNonePass ==
  ASSUME UNCHANGED <<served, sending, events, outbox, Unchecked>>,
         \A m \in Models : TakenOps(m)' = TakenOps(m)
  PROVE  NonePass
BY DEF NonePass, PendingOps, Sent

\* Only in the channel map, if anywhere, and with a processor that has nothing.
LEMMA CompleteNonePass ==
  ASSUME IInv, IInv', WatcherIInv, CompleteOp, UNCHANGED watcherVars
  PROVE  NonePass
<1>1. /\ UNCHANGED <<served, sending, events, outbox, work, step, modelOps>>
      /\ \E n : chan' = chan \/ chan' = [chan EXCEPT ![n] = NoWorker]
  BY DEF CompleteOp, storeVars, watcherVars
<1>2. ASSUME NEW m \in Models PROVE TakenOps(m)' = TakenOps(m)
  <2>1. CASE chan'[m] = chan[m]
    BY <1>1, <2>1, TakenSame
  <2>2. CASE chan'[m] # chan[m]
    <3>1. chan \in [Models -> Workers \cup {NoWorker}] /\ WatcherIInv
      BY QueueTypes
    <3>2. chan'[m] = NoWorker /\ chan[m] \in Workers /\ chan[m] # NoWorker
      BY <1>1, <2>2, <3>1
    <3>3. PICK v \in Workers : v = chan[m]
      BY <3>2
    <3>4. ~(modelOps'[m][v] # <<>> \/ work'[m][v] # NoOp)
      BY <3>2, <3>3, WorkersAssumption DEF IInv, NoOrphanedProcessor, Busy
    <3>5. work[m][v] = NoOp /\ modelOps[m][v] = <<>>
      BY <1>1, <3>4
    <3>6. TakenOps(m) = <<>> \o <<>>
      BY <3>2, <3>3, <3>5 DEF TakenOps, InProgress
    <3>7. TakenOps(m)' = <<>>
      BY <3>2 DEF TakenOps
    <3> QED
      BY <3>6, <3>7
  <2> QED
    BY <2>1, <2>2
<1> QED
  BY <1>1, <1>2, UncheckedStays, SameNonePass

\* A processor receives the oldest operation it has.
LEMMA ReceiveNonePass ==
  ASSUME IInv, WatcherIInv, FilesIInv, NEW n \in Models, NEW v \in Workers, Receive(n, v),
         UNCHANGED watcherVars
  PROVE  NonePass
<1>1. PICK h, t : h = Head(modelOps[n][v]) /\ t = Tail(modelOps[n][v])
  OBVIOUS
<1>2. /\ work[n][v] = NoOp /\ modelOps[n][v] # <<>>
      /\ work' = [work EXCEPT ![n][v] = h]
      /\ modelOps' = [modelOps EXCEPT ![n][v] = Tail(@)]
      /\ UNCHANGED <<served, sending, events, outbox, step, chan>>
  BY <1>1 DEF Receive, storeVars, watcherVars
<1>3. /\ chan \in [Models -> Workers \cup {NoWorker}]
      /\ modelOps \in [Models -> [Workers -> Seq(ModelOp)]]
      /\ work \in [Models -> [Workers -> ModelOp \cup {NoOp}]]
  BY QueueTypes
<1>4. /\ h \in ModelOp /\ t \in Seq(ModelOp) /\ modelOps[n][v] = <<h>> \o t /\ h # NoOp
  <2>1. modelOps[n][v] \in Seq(ModelOp)
    BY <1>3
  <2> QED
    BY <1>1, <1>2, <2>1, HeadThenTail, NoOpAssumption
<1>5. step[n][v] = "start"
  BY <1>2 DEF FilesIInv, FilesAtStep
<1>6. chan[n] = v /\ v # NoWorker /\ TakenOps(n) = InProgress(n, v) \o modelOps[n][v]
  BY <1>2, TakenByOne DEF Busy
<1>7. ASSUME NEW m \in Models PROVE TakenOps(m)' = TakenOps(m)
  <2>1. CASE m # n
    BY <1>2, <1>3, <2>1, TakenSame
  <2>2. CASE m = n
    <3>1. InProgress(n, v) = <<>>
      BY <1>2 DEF InProgress
    <3>2. TakenOps(n) = <<h>> \o t
      <4>1. <<>> \o modelOps[n][v] = modelOps[n][v]
        BY <1>3, ConcatEmptySeq
      <4> QED
        BY <1>4, <1>6, <3>1, <4>1
    <3>3. work'[n][v] = h /\ modelOps'[n][v] = t /\ step'[n][v] = "start" /\ chan'[n] = v
      BY <1>1, <1>2, <1>3, <1>5, <1>6
    <3>4. InProgress(n, v)' = <<h>>
      BY <1>4, <3>3 DEF InProgress
    <3>5. TakenOps(n)' = <<h>> \o t
      BY <1>6, <3>3, <3>4 DEF TakenOps, InProgress
    <3> QED
      BY <2>2, <3>2, <3>5
  <2> QED
    BY <2>1, <2>2
<1>8. UNCHANGED Unchecked
  <2>1. ASSUME NEW m \in Models, NEW w \in Workers
        PROVE  At(m, w, "Add", "unchecked")' <=> At(m, w, "Add", "unchecked")
    BY <1>2, <1>3, <1>5 DEF At
  <2> QED
    BY <2>1, UncheckedSame
<1> QED
  BY <1>2, <1>7, <1>8, SameNonePass

\* An operation that is completed has taken effect, or was given up, before.
LEMMA FinishNonePass ==
  ASSUME IInv, WatcherIInv, NEW n \in Models, NEW v \in Workers, Finish(n, v),
         UNCHANGED watcherVars
  PROVE  NonePass
<1>1. /\ work[n][v] # NoOp /\ step[n][v] = "complete"
      /\ work' = [work EXCEPT ![n][v] = NoOp]
      /\ step' = [step EXCEPT ![n][v] = "start"]
      /\ UNCHANGED <<served, sending, events, outbox, chan, modelOps>>
  BY DEF Finish, storeVars, watcherVars
<1>2. /\ work \in [Models -> [Workers -> ModelOp \cup {NoOp}]]
      /\ step \in [Models -> [Workers -> Steps]]
  BY QueueTypes
<1>3. chan[n] = v /\ v # NoWorker
  BY <1>1, TakenByOne DEF Busy
<1>4. ASSUME NEW m \in Models PROVE TakenOps(m)' = TakenOps(m)
  <2>1. CASE m # n
    BY <1>1, <1>2, <2>1, TakenSame
  <2>2. CASE m = n
    <3>1. InProgress(n, v) = <<>> /\ work'[n][v] = NoOp
      BY <1>1, <1>2 DEF InProgress
    <3>2. InProgress(n, v)' = <<>>
      BY <3>1 DEF InProgress
    <3> QED
      BY <1>1, <1>3, <2>2, <3>1, <3>2 DEF TakenOps, InProgress
  <2> QED
    BY <2>1, <2>2
<1>5. UNCHANGED Unchecked
  <2>1. ASSUME NEW m \in Models, NEW w \in Workers
        PROVE  At(m, w, "Add", "unchecked")' <=> At(m, w, "Add", "unchecked")
    BY <1>1, <1>2 DEF At
  <2> QED
    BY <2>1, UncheckedSame
<1> QED
  BY <1>1, <1>4, <1>5, SameNonePass

\* Every branch of processOp is for an operation that is not over.
LEMMA ProcessOpBusy ==
  ASSUME NEW n, NEW v, ProcessOp(n, v)
  PROVE  work[n][v] # NoOp /\ step[n][v] # "complete"
BY DEF ProcessOp, CheckSuccessFile, StatFails, DownloadBegins, DownloadEnds, DownloadFails,
   CreateSuccessFile, WriteSuccessFile, WriteFails, Load, Unload, RequestFails,
   RemoveDirMissing, RemoveDirBegins, RemoveDirEnds, RemoveDirFails, At

\* What a step of processOp does to the loads without a check.
LEMMA StepUnchecked ==
  ASSUME IInv, NEW n \in Models, NEW v \in Workers, ProcessOp(n, v)
  PROVE  /\ n \in Unchecked <=> At(n, v, "Add", "unchecked")
         /\ Unchecked' = IF At(n, v, "Add", "unchecked")' THEN Unchecked \cup {n}
                                                         ELSE Unchecked \ {n}
<1>1. ProcessorMoves(n, v)
  BY ProcessOpMoves
<1>2. /\ step \in [Models -> [Workers -> Steps]] /\ work' = work
      /\ \E s : step' = [step EXCEPT ![n][v] = s]
  BY <1>1 DEF ProcessorMoves, IInv, TypeOK
<1>3. \A w \in Workers \ {v} : work[n][w] = NoOp
  BY ProcessOpBusy, OthersIdle
<1>4. \A m \in Models \ {n}, w \in Workers :
        At(m, w, "Add", "unchecked")' <=> At(m, w, "Add", "unchecked")
  BY <1>2 DEF At
<1>5. \A w \in Workers \ {v} :
        ~At(n, w, "Add", "unchecked")' /\ ~At(n, w, "Add", "unchecked")
  BY <1>2, <1>3 DEF At
<1>6. n \in Unchecked <=> At(n, v, "Add", "unchecked")
  BY <1>5 DEF Unchecked
<1>7. Unchecked \subseteq Models /\ Unchecked' \subseteq Models
  BY DEF Unchecked
<1>8. \A m \in Models \ {n} : m \in Unchecked' <=> m \in Unchecked
  BY <1>4 DEF Unchecked
<1>9. n \in Unchecked' <=> At(n, v, "Add", "unchecked")'
  BY <1>5 DEF Unchecked
<1> QED
  BY <1>6, <1>7, <1>8, <1>9

\* Only a load without a check goes on from there, and it is over with it.
LEMMA LeavesUnchecked ==
  ASSUME IInv, NEW n \in Models, NEW v \in Workers, ProcessOp(n, v),
         At(n, v, "Add", "unchecked")
  PROVE  step'[n][v] = "complete"
<1>1. step \in [Models -> [Workers -> Steps]]
  BY DEF IInv, TypeOK
<1>2. Load(n, v) \/ RequestFails(n, v)
  BY DEF ProcessOp, CheckSuccessFile, StatFails, DownloadBegins, DownloadEnds, DownloadFails,
     CreateSuccessFile, WriteSuccessFile, WriteFails, Unload, RemoveDirMissing,
     RemoveDirBegins, RemoveDirEnds, RemoveDirFails, At
<1> QED
  BY <1>1, <1>2 DEF Load, RequestFails, Goto

\* And only a look at the success file that fails leads there.
LEMMA ToUnchecked ==
  ASSUME IInv, NEW n \in Models, NEW v \in Workers, ProcessOp(n, v),
         step'[n][v] = "unchecked"
  PROVE  StatFails(n, v)
<1>1. step \in [Models -> [Workers -> Steps]]
  BY DEF IInv, TypeOK
<1>2. ASSUME NEW t \in Steps \ {"unchecked"}
      PROVE  ~Goto(n, v, t)
  BY <1>1, <1>2 DEF Goto
<1>3. "unchecked" \notin Steps \ {"unchecked"}
      /\ {"download", "downloading", "create", "write", "load", "clear", "unload", "complete"}
           \subseteq Steps \ {"unchecked"}
  BY DEF Steps
<1>4. ~CheckSuccessFile(n, v)
  BY <1>2, <1>3 DEF CheckSuccessFile
<1>5. /\ ~DownloadBegins(n, v) /\ ~DownloadEnds(n, v) /\ ~DownloadFails(n, v)
      /\ ~CreateSuccessFile(n, v) /\ ~WriteSuccessFile(n, v) /\ ~WriteFails(n, v)
      /\ ~Load(n, v) /\ ~Unload(n, v) /\ ~RequestFails(n, v)
  BY <1>2, <1>3 DEF DownloadBegins, DownloadEnds, DownloadFails, CreateSuccessFile,
     WriteSuccessFile, WriteFails, Load, Unload, RequestFails
<1>6. /\ ~RemoveDirMissing(n, v) /\ ~RemoveDirBegins(n, v)
      /\ ~RemoveDirEnds(n, v) /\ ~RemoveDirFails(n, v)
  BY <1>2, <1>3 DEF RemoveDirMissing, RemoveDirBegins, RemoveDirEnds, RemoveDirFails
<1> QED
  BY <1>4, <1>5, <1>6 DEF ProcessOp

\* A step of processOp within the operation takes effect on nothing.
LEMMA StepKeepsPending ==
  ASSUME IInv, WatcherIInv, NEW n \in Models, NEW v \in Workers, ProcessOp(n, v),
         step'[n][v] # "complete", UNCHANGED watcherVars
  PROVE  \A m \in Models : PendingOps(m)' = PendingOps(m)
<1>1. ProcessorMoves(n, v)
  BY ProcessOpMoves
<1>2. /\ step \in [Models -> [Workers -> Steps]] /\ work[n][v] # NoOp
      /\ step[n][v] # "complete"
      /\ UNCHANGED <<sending, events, outbox, chan, modelOps, work>>
      /\ \E s : step' = [step EXCEPT ![n][v] = s]
  BY <1>1, QueueTypes, ProcessOpBusy DEF ProcessorMoves, watcherVars
<1>3. ASSUME NEW m \in Models PROVE TakenOps(m)' = TakenOps(m)
  <2>1. CASE m # n
    BY <1>2, <2>1, TakenSame
  <2>2. CASE m = n
    <3>1. chan[n] = v /\ v # NoWorker
      BY <1>2, TakenByOne DEF Busy
    <3>2. InProgress(n, v)' = InProgress(n, v)
      BY <1>2 DEF InProgress
    <3> QED
      BY <1>2, <2>2, <3>1, <3>2 DEF TakenOps, InProgress
  <2> QED
    BY <2>1, <2>2
<1> QED
  BY <1>2, <1>3 DEF PendingOps, Sent

LEMMA StepNonePass ==
  ASSUME IInv, WatcherIInv, NEW n \in Models, NEW v \in Workers, ProcessOp(n, v),
         step'[n][v] \notin {"complete", "unchecked"}, served' = served,
         UNCHANGED watcherVars
  PROVE  NonePass
<1>1. ~At(n, v, "Add", "unchecked")' /\ ~At(n, v, "Add", "unchecked")
  BY LeavesUnchecked DEF At
<1>2. Unchecked' = Unchecked
  BY <1>1, StepUnchecked
<1> QED
  BY <1>2, StepKeepsPending DEF NonePass

\* The oldest command of a model is the one its processor is at.
LEMMA FirstPending ==
  ASSUME IInv, WatcherIInv, NEW n \in Models, NEW v \in Workers,
         work[n][v] # NoOp, step[n][v] # "complete"
  PROVE  /\ work[n][v] \in ModelOp
         /\ \E r \in Seq(ModelOp) : PendingOps(n) = <<work[n][v]>> \o r
<1>1. PICK op \in ModelOp, b \in Seq(ModelOp) : op = work[n][v] /\ b = modelOps[n][v]
  BY QueueTypes
<1>2. chan[n] = v /\ v # NoWorker
  BY TakenByOne DEF Busy
<1>3. InProgress(n, v) = <<op>>
  BY <1>1 DEF InProgress
<1>4. TakenOps(n) = <<op>> \o b
  BY <1>1, <1>2, <1>3 DEF TakenOps
<1>5. PICK q \in Seq(ModelOp) : q = OfModel(Queue, n)
  BY PendingTyped DEF Queue
<1>6. PendingOps(n) = (<<op>> \o b) \o q
  BY <1>4, <1>5 DEF PendingOps, Queue
<1>7. (<<op>> \o b) \o q = <<op>> \o (b \o q) /\ b \o q \in Seq(ModelOp)
  <2>1. PICK a : a = <<op>>
    OBVIOUS
  <2>2. a \in Seq(ModelOp)
    BY <2>1
  <2>3. (a \o b) \o q = a \o (b \o q)
    BY <1>5, <2>2, ConcatAssociative
  <2>4. b \o q \in Seq(ModelOp)
    BY <1>5, ConcatProperties
  <2> QED
    BY <2>1, <2>3, <2>4
<1> QED
  BY <1>1, <1>6, <1>7

\* With the last step of processOp the operation is over.
LEMMA StepPasses ==
  ASSUME IInv, WatcherIInv, NEW n \in Models, NEW v \in Workers, ProcessOp(n, v),
         step'[n][v] = "complete", UNCHANGED watcherVars
  PROVE  Passes(n, work[n][v])
<1>1. ProcessorMoves(n, v)
  BY ProcessOpMoves
<1>2. /\ step \in [Models -> [Workers -> Steps]] /\ work[n][v] # NoOp
      /\ step[n][v] # "complete"
      /\ UNCHANGED <<sending, events, outbox, chan, modelOps, work>>
      /\ \E s : step' = [step EXCEPT ![n][v] = s]
  BY <1>1, QueueTypes, ProcessOpBusy DEF ProcessorMoves, watcherVars
<1>3. PICK op \in ModelOp, b \in Seq(ModelOp) : op = work[n][v] /\ b = modelOps[n][v]
  BY <1>2, QueueTypes
<1>4. chan[n] = v /\ v # NoWorker
  BY <1>2, TakenByOne DEF Busy
<1>5. TakenOps(n) = <<op>> \o b
  <2>1. InProgress(n, v) = <<op>>
    BY <1>2, <1>3 DEF InProgress
  <2> QED
    BY <1>3, <1>4, <2>1 DEF TakenOps
<1>6. TakenOps(n)' = b
  <2>1. InProgress(n, v)' = <<>>
    BY DEF InProgress
  <2>2. TakenOps(n)' = <<>> \o b
    BY <1>2, <1>3, <1>4, <2>1 DEF TakenOps, InProgress
  <2> QED
    BY <2>2, ConcatEmptySeq
<1>7. ASSUME NEW m \in Models PROVE OfModel(Queue, m)' = OfModel(Queue, m)
  BY <1>2 DEF Queue, Sent
<1>8. PendingOps(n) = <<op>> \o PendingOps(n)'
  <2>1. PICK q : q = OfModel(Queue, n)
    OBVIOUS
  <2>2. q \in Seq(ModelOp) /\ <<op>> \in Seq(ModelOp)
    BY <2>1, PendingTyped DEF Queue
  <2>3. PendingOps(n) = (<<op>> \o b) \o q /\ PendingOps(n)' = b \o q
    BY <1>5, <1>6, <1>7, <2>1 DEF PendingOps, Queue
  <2>4. (<<op>> \o b) \o q = <<op>> \o (b \o q)
    BY <2>2, ConcatAssociative
  <2> QED
    BY <2>3, <2>4
<1>9. ASSUME NEW m \in Models \ {n} PROVE PendingOps(m)' = PendingOps(m)
  <2>1. TakenOps(m)' = TakenOps(m)
    BY <1>2, TakenSame
  <2> QED
    BY <1>7, <2>1 DEF PendingOps, Queue
<1>10. Unchecked' = Unchecked \ {n}
  BY StepUnchecked DEF At
<1> QED
  BY <1>3, <1>8, <1>9, <1>10 DEF Passes

\* Of what the model server is asked at the end of an operation, only a load and an
\* unload change what it serves: to the effect of the operation, or, when the look at
\* the success file failed, to what the directory holds.
LEMMA ProcessOpServes ==
  ASSUME IInv, FilesIInv, NEW n \in Models, NEW v \in Workers, ProcessOp(n, v)
  PROVE  \/ served' = served
         \/ /\ step'[n][v] = "complete" /\ n \notin Unchecked
            /\ served' = [served EXCEPT ![n] = EffectOf(work[n][v])]
         \/ /\ step'[n][v] = "complete" /\ n \in Unchecked
            /\ served' = [served EXCEPT ![n] = data[n]]
<1>1. step \in [Models -> [Workers -> Steps]]
  BY DEF IInv, TypeOK
<1>2. CASE Load(n, v)
  <2>1. /\ At(n, v, "Add", "load") \/ At(n, v, "Add", "unchecked")
        /\ served' = [served EXCEPT ![n] = data[n]]
        /\ step' = [step EXCEPT ![n][v] = "complete"]
    BY <1>2 DEF Load, ServerLoads, Goto
  <2>2. FilesAtStep(n, v)
    BY DEF FilesIInv
  <2>3. At(n, v, "Add", "load") => data[n] = EffectOf(work[n][v])
    BY <2>2 DEF FilesAtStep, At, Works, EffectOf
  <2>4. step'[n][v] = "complete"
    BY <1>1, <2>1
  <2>5. n \in Unchecked <=> At(n, v, "Add", "unchecked")
    BY StepUnchecked
  <2> QED
    BY <2>1, <2>3, <2>4, <2>5 DEF At
<1>3. CASE Unload(n, v)
  <2>1. At(n, v, "Remove", "unload") /\ served' = [served EXCEPT ![n] = NoSpec]
        /\ step' = [step EXCEPT ![n][v] = "complete"]
    BY <1>3 DEF Unload, ServerUnloads, Goto
  <2>2. NoSpec = EffectOf(work[n][v])
    BY <2>1 DEF At, EffectOf
  <2>3. step'[n][v] = "complete" /\ n \notin Unchecked
    BY <1>1, <2>1, StepUnchecked DEF At
  <2> QED
    BY <2>1, <2>2, <2>3
<1>4. CASE ~Load(n, v) /\ ~Unload(n, v)
  BY <1>4 DEF ProcessOp, CheckSuccessFile, StatFails, DownloadBegins, DownloadEnds, DownloadFails,
     CreateSuccessFile, WriteSuccessFile, WriteFails, RequestFails, RemoveDirMissing,
     RemoveDirBegins, RemoveDirEnds, RemoveDirFails, WriteData, WriteMarker,
     RemoveSomeEntries, RemoveLastEntries, storeVars
<1> QED
  BY <1>2, <1>3, <1>4

\* The commands ops of the model n are pending now, after those that were.
Issues(n, ops) ==
  /\ UNCHANGED <<served, Unchecked>>
  /\ ops \in Seq(ModelOp)
  /\ PendingOps(n)' = PendingOps(n) \o ops
  /\ \A m \in Models \ {n} : PendingOps(m)' = PendingOps(m)

\* The watcher has commands of a model to send.
LEMMA OutboxIssues ==
  ASSUME IInv, WatcherIInv, outbox = <<>>, NEW n \in Models, NEW ops \in Seq(ModelOp),
         outbox' = ops, OfModel(ops, n) = ops,
         \A m \in Models \ {n} : OfModel(ops, m) = <<>>,
         UNCHANGED <<events, storeVars, pullerVars>>
  PROVE  Issues(n, ops)
<1>1. UNCHANGED <<served, sending, events, chan, work, step, modelOps>>
  BY DEF storeVars, pullerVars
<1>2. PICK q \in Seq(ModelOp) : q = Sent \o events
  <2>1. Sent \in Seq(ModelOp) /\ events \in Seq(ModelOp)
    BY QueueTypes
  <2>2. Sent \o events \in Seq(ModelOp)
    BY <2>1, ConcatProperties
  <2> QED
    BY <2>2
<1>3. Queue = q /\ Queue' = q \o ops
  <2>1. q \o <<>> = q
    BY ConcatEmptySeq
  <2> QED
    BY <1>1, <1>2, <2>1 DEF Queue, Sent
<1>4. ASSUME NEW m \in Models
      PROVE  /\ PendingOps(m)' = PendingOps(m) \o OfModel(ops, m)
             /\ PendingOps(m) \in Seq(ModelOp)
  <2>1. PICK a, b, c : a = TakenOps(m) /\ b = OfModel(q, m) /\ c = OfModel(ops, m)
    OBVIOUS
  <2>2. a \in Seq(ModelOp) /\ b \in Seq(ModelOp) /\ c \in Seq(ModelOp)
    BY <2>1, PendingTyped, OfModelConcat
  <2>3. TakenOps(m)' = a
    BY <1>1, <2>1, TakenSame
  <2>4. OfModel(q \o ops, m) = b \o c
    BY <2>1, OfModelConcat
  <2>5. PendingOps(m) = a \o b /\ PendingOps(m)' = a \o (b \o c)
    BY <1>3, <2>1, <2>3, <2>4 DEF PendingOps, Queue
  <2>6. a \o (b \o c) = (a \o b) \o c
    BY <2>2, ConcatAssociative
  <2> QED
    BY <2>1, <2>2, <2>5, <2>6
<1>5. ASSUME NEW m \in Models \ {n} PROVE PendingOps(m)' = PendingOps(m)
  BY <1>4, ConcatEmptySeq
<1> QED
  BY <1>1, <1>4, <1>5, UncheckedStays DEF Issues

\* A sequence of two is one after the other.
LEMMA TwoInARow ==
  /\ \A a, b : <<a>> \o <<b>> = <<a, b>>
  /\ <<>> \o <<>> = <<>>
<1>1. ASSUME NEW a, NEW b PROVE <<a>> \o <<b>> = <<a, b>>
  <2> DEFINE V == {a, b}
  <2>1. PICK p, q, r : p = <<a>> /\ q = <<b>> /\ r = <<a, b>>
    OBVIOUS
  <2>2. /\ p \in Seq(V) /\ Len(p) = 1 /\ p[1] = a
        /\ q \in Seq(V) /\ Len(q) = 1 /\ q[1] = b
        /\ r \in Seq(V) /\ Len(r) = 2 /\ r[1] = a /\ r[2] = b
    BY <2>1
  <2> HIDE DEF V
  <2>3. /\ p \o q \in Seq(V) /\ Len(p \o q) = 2
        /\ (p \o q)[1] = a /\ (p \o q)[2] = b
    BY <2>2, ConcatProperties
  <2>4. p \o q = r
    BY <2>2, <2>3, SeqEqual
  <2> QED
    BY <2>1, <2>4
<1>2. <<>> \o <<>> = <<>>
  OBVIOUS
<1> QED
  BY <1>1, <1>2

\* The commands the watcher issues at once.
LEMMA IssuedAtOnce ==
  ASSUME NEW n \in Models, NEW s \in Specs, NEW b \in BOOLEAN
  PROVE  \A ops \in {<<AddOp(n, s, b)>>, <<RemoveOp(n)>>, <<RemoveOp(n), AddOp(n, s, b)>>} :
           /\ ops \in Seq(ModelOp) /\ OfModel(ops, n) = ops
           /\ \A m \in Models \ {n} : OfModel(ops, m) = <<>>
           /\ Effects(ops) \in {<<s>>, <<NoSpec>>, <<NoSpec, s>>}
<1>1. PICK x \in ModelOp, y \in ModelOp : x = AddOp(n, s, b) /\ y = RemoveOp(n)
  BY DEF ModelOp, AddOp, RemoveOp
<1>2. x.model = n /\ y.model = n /\ EffectOf(x) = s /\ EffectOf(y) = NoSpec
  BY <1>1 DEF AddOp, RemoveOp, EffectOf
<1>3. \A z \in ModelOp : <<z>> \in Seq(ModelOp) /\ Effects(<<z>>) = <<EffectOf(z)>>
  <2>1. ASSUME NEW z \in ModelOp PROVE Effects(<<z>>) = <<EffectOf(z)>>
    <3>1. DOMAIN <<z>> = {1} /\ <<z>>[1] = z
      OBVIOUS
    <3>2. PICK e : e = EffectOf(z)
      OBVIOUS
    <3>3. Effects(<<z>>) = [i \in {1} |-> e]
      BY <3>1, <3>2 DEF Effects
    <3>4. [i \in {1} |-> e] = <<e>>
      OBVIOUS
    <3> QED
      BY <3>2, <3>3, <3>4
  <2>2. ASSUME NEW z \in ModelOp PROVE <<z>> \in Seq(ModelOp)
    OBVIOUS
  <2> QED
    BY <2>1, <2>2
<1>4. \A z \in ModelOp : z.model = n =>
        OfModel(<<z>>, n) = <<z>> /\ \A m \in Models \ {n} : OfModel(<<z>>, m) = <<>>
  BY OfModelOne DEF Part
<1>5. /\ <<y>> \o <<x>> = <<y, x>> /\ <<NoSpec>> \o <<s>> = <<NoSpec, s>>
      /\ <<>> \o <<>> = <<>>
  BY TwoInARow
<1>6. PICK o : o = <<x>>
  OBVIOUS
<1>7. o \in Seq(ModelOp)
  BY <1>3, <1>6
<1>8. /\ <<y, x>> \in Seq(ModelOp) /\ OfModel(<<y, x>>, n) = <<y, x>>
      /\ \A m \in Models \ {n} : OfModel(<<y, x>>, m) = <<>>
  <2>1. \A m : OfModel(<<y>> \o o, m) = Part(y, m) \o OfModel(o, m)
    BY <1>7, OfModelFront
  <2>2. OfModel(<<y, x>>, n) = <<y>> \o <<x>>
    BY <1>2, <1>4, <1>5, <1>6, <2>1 DEF Part
  <2>3. ASSUME NEW m \in Models \ {n} PROVE OfModel(<<y, x>>, m) = <<>>
    BY <1>2, <1>4, <1>5, <1>6, <2>1 DEF Part
  <2>4. <<y, x>> \in Seq(ModelOp)
    OBVIOUS
  <2> QED
    BY <1>5, <2>2, <2>3, <2>4
<1>9. Effects(<<y, x>>) = <<NoSpec, s>>
  <2>1. PICK p \in Seq(ModelOp) : p = <<y>>
    BY <1>3
  <2>2. Effects(p \o o) = Effects(p) \o Effects(o)
    BY <1>7, EffectsConcat
  <2> QED
    BY <1>2, <1>3, <1>5, <1>6, <2>1, <2>2
<1>10. ASSUME NEW ops \in {<<x>>, <<y>>, <<y, x>>}
       PROVE  /\ ops \in Seq(ModelOp) /\ OfModel(ops, n) = ops
              /\ \A m \in Models \ {n} : OfModel(ops, m) = <<>>
              /\ Effects(ops) \in {<<s>>, <<NoSpec>>, <<NoSpec, s>>}
  <2>1. CASE ops = <<x>> \/ ops = <<y>>
    BY <1>2, <1>3, <1>4, <2>1
  <2>2. CASE ops = <<y, x>>
    BY <1>8, <1>9, <2>2
  <2> QED
    BY <2>1, <2>2
<1> QED
  BY <1>1, <1>10

\* The commands of a model change by what one call of the loops of parseConfig decides.
IssuesSome(n) ==
  \E s \in Specs : \E ops \in Seq(ModelOp) :
    Issues(n, ops) /\ Effects(ops) \in {<<s>>, <<NoSpec>>, <<NoSpec, s>>}

LEMMA MarkIssues ==
  ASSUME IInv, WatcherIInv, NEW n \in Models, MarkModel(n),
         UNCHANGED <<storeVars, pullerVars>>
  PROVE  NonePass \/ IssuesSome(n)
<1>1. snapshot[n] \in Specs
  BY QueueTypes DEF MarkModel, WatcherIInv, ParseRight, InConfig, Configs
<1>2. outbox = <<>> /\ events' = events /\ UNCHANGED <<storeVars, pullerVars>>
  BY DEF MarkModel
<1>3. PICK s \in Specs, b \in BOOLEAN : s = snapshot[n] /\ b = (phase = "syncing")
  BY <1>1
<1>4. CASE outbox' = <<>>
  <2>1. \A m \in Models : TakenOps(m)' = TakenOps(m)
    BY <1>2, TakenSame DEF pullerVars
  <2> QED
    BY <1>2, <1>4, <2>1, UncheckedStays, SameNonePass DEF storeVars, pullerVars
<1>5. CASE outbox' # <<>>
  <2>1. PICK ops \in {<<AddOp(n, s, b)>>, <<RemoveOp(n)>>, <<RemoveOp(n), AddOp(n, s, b)>>} :
          outbox' = ops
    BY <1>2, <1>3, <1>5 DEF MarkModel
  <2>2. /\ ops \in Seq(ModelOp) /\ OfModel(ops, n) = ops
        /\ \A m \in Models \ {n} : OfModel(ops, m) = <<>>
        /\ Effects(ops) \in {<<s>>, <<NoSpec>>, <<NoSpec, s>>}
    BY IssuedAtOnce
  <2>3. Issues(n, ops)
    BY <1>2, <2>1, <2>2, OutboxIssues
  <2> QED
    BY <2>2, <2>3 DEF IssuesSome
<1> QED
  BY <1>4, <1>5

LEMMA SweepIssues ==
  ASSUME IInv, WatcherIInv, NEW n \in Models, SweepModel(n),
         UNCHANGED <<storeVars, pullerVars>>
  PROVE  NonePass \/ IssuesSome(n)
<1>1. tracker[n] \in Specs
  BY DEF SweepModel, WatcherIInv, WatcherTypeOK, ParseRight, InConfig, Configs
<1>2. outbox = <<>> /\ events' = events /\ UNCHANGED <<storeVars, pullerVars>>
  BY DEF SweepModel
<1>3. PICK s \in Specs : s = tracker[n]
  BY <1>1
<1>4. CASE outbox' = <<>>
  <2>1. \A m \in Models : TakenOps(m)' = TakenOps(m)
    BY <1>2, TakenSame DEF pullerVars
  <2> QED
    BY <1>2, <1>4, <2>1, UncheckedStays, SameNonePass DEF storeVars, pullerVars
<1>5. CASE outbox' # <<>>
  <2>1. PICK ops \in {<<AddOp(n, s, TRUE)>>, <<RemoveOp(n)>>, <<RemoveOp(n), AddOp(n, s, TRUE)>>} :
          outbox' = ops
    BY <1>2, <1>5 DEF SweepModel
  <2>2. /\ ops \in Seq(ModelOp) /\ OfModel(ops, n) = ops
        /\ \A m \in Models \ {n} : OfModel(ops, m) = <<>>
        /\ Effects(ops) \in {<<s>>, <<NoSpec>>, <<NoSpec, s>>}
    BY IssuedAtOnce
  <2>3. Issues(n, ops)
    BY <1>2, <2>1, <2>2, OutboxIssues
  <2> QED
    BY <2>2, <2>3 DEF IssuesSome
<1> QED
  BY <1>4, <1>5
-----------------------------------------------------------------------------
(* Each of these is a step of the promise.                                 *)

\* The commands pending for all models, as the promise sees them.
Pend == [m \in Models |-> Pending(m)]

LEMMA NonePassStutters == NonePass => UNCHANGED Promise!commandVars
BY DEF NonePass, Pending, Promise!commandVars

\* An operation that is over was given up, or applied, or loaded what was there.
LEMMA PassesPromised ==
  ASSUME PendingIsTyped, PendingIsTyped', NEW n \in Models, NEW op, Passes(n, op)
  PROVE  /\ served' = served => Promise!GiveUp(n)
         /\ n \notin Unchecked /\ served' = [served EXCEPT ![n] = EffectOf(op)]
              => Promise!Apply(n)
         /\ n \in Unchecked /\ (\E c \in Contents : served' = [served EXCEPT ![n] = c])
              => Promise!ApplyUnchecked(n)
<1>1. PICK p, t : p = PendingOps(n) /\ t = PendingOps(n)'
  OBVIOUS
<1>2. op \in ModelOp /\ t \in Seq(ModelOp) /\ p = <<op>> \o t
  BY <1>1 DEF Passes, PendingIsTyped
<1>3. Pend[n] # <<>> /\ Head(Pend[n]) = EffectOf(op) /\ Tail(Pend[n]) = Pend'[n]
  <2>1. Pend[n] = Effects(<<op>> \o t) /\ Pend'[n] = Effects(t)
    BY <1>1, <1>2 DEF PendingIsTyped, Pend
  <2> QED
    BY <1>2, <2>1, EffectsFront
<1>4. \A m \in Models \ {n} : Pend'[m] = Pend[m]
  BY DEF Passes, Pending, Pend
<1>5. Pend' = [Pend EXCEPT ![n] = Tail(@)]
  BY <1>3, <1>4 DEF Pend
<1>6. Unchecked' = Unchecked \ {n}
  BY DEF Passes
<1>7. served' = served => Promise!GiveUp(n)
  BY <1>3, <1>5, <1>6 DEF Promise!GiveUp, Pend
<1>8. n \notin Unchecked /\ served' = [served EXCEPT ![n] = EffectOf(op)] => Promise!Apply(n)
  BY <1>3, <1>5, <1>6 DEF Promise!Apply, Pend
<1>9. n \in Unchecked /\ (\E c \in Contents : served' = [served EXCEPT ![n] = c])
        => Promise!ApplyUnchecked(n)
  BY <1>3, <1>5, <1>6 DEF Promise!ApplyUnchecked, Pend
<1> QED
  BY <1>7, <1>8, <1>9

\* An operation whose look at the success file fails is the oldest of the model.
LEMMA StatPromised ==
  ASSUME IInv, WatcherIInv, PendingIsTyped, PendingIsTyped', NEW n \in Models,
         NEW v \in Workers, StatFails(n, v), UNCHANGED watcherVars
  PROVE  Promise!CheckFails(n)
<1>1. /\ ProcessOp(n, v) /\ At(n, v, "Add", "start") /\ UNCHANGED <<served, work>>
      /\ step' = [step EXCEPT ![n][v] = "unchecked"]
  BY DEF StatFails, ProcessOp, Goto, storeVars
<1>2. step'[n][v] = "unchecked"
  BY <1>1, QueueTypes
<1>3. n \notin Unchecked /\ Unchecked' = Unchecked \cup {n}
  BY <1>1, <1>2, StepUnchecked DEF At
<1>4. \A m \in Models : PendingOps(m)' = PendingOps(m)
  BY <1>1, <1>2, StepKeepsPending
<1>5. Pend' = Pend
  BY <1>4 DEF Pend, Pending
<1>6. PICK op \in ModelOp, r \in Seq(ModelOp) : op = work[n][v] /\ PendingOps(n) = <<op>> \o r
  BY <1>1, FirstPending DEF At
<1>7. EffectOf(op) \in Specs /\ NoSpec \notin Specs
  BY <1>1, <1>6, NoSpecAssumption DEF At, EffectOf, ModelOp
<1>8. Pend[n] # <<>> /\ Head(Pend[n]) = EffectOf(op)
  <2>1. Pend[n] = Effects(<<op>> \o r)
    BY <1>6 DEF PendingIsTyped, Pend
  <2> QED
    BY <1>6, <2>1, EffectsFront
<1> QED
  BY <1>1, <1>3, <1>5, <1>7, <1>8 DEF Promise!CheckFails, Pend

\* What the watcher decided is issued.
LEMMA IssuesPromised ==
  ASSUME PendingIsTyped, PendingIsTyped', NEW n \in Models, IssuesSome(n)
  PROVE  Promise!Issue(n)
<1>1. PICK s \in Specs, ops \in Seq(ModelOp) :
        Issues(n, ops) /\ Effects(ops) \in {<<s>>, <<NoSpec>>, <<NoSpec, s>>}
  BY DEF IssuesSome
<1>2. PICK p, cmds : p \in Seq(ModelOp) /\ p = PendingOps(n) /\ cmds = Effects(ops)
  BY DEF PendingIsTyped
<1>3. Pend'[n] = Pend[n] \o cmds
  <2>1. Pend[n] = Effects(p) /\ Pend'[n] = Effects(p \o ops)
    BY <1>1, <1>2 DEF Issues, PendingIsTyped, Pend
  <2> QED
    BY <1>2, <2>1, EffectsConcat
<1>4. \A m \in Models \ {n} : Pend'[m] = Pend[m]
  BY <1>1 DEF Issues, Pending, Pend
<1>5. Pend' = [Pend EXCEPT ![n] = @ \o cmds]
  BY <1>3, <1>4 DEF Pend
<1>6. UNCHANGED <<served, Unchecked>>
  BY <1>1 DEF Issues
<1> QED
  BY <1>1, <1>2, <1>5, <1>6 DEF Promise!Issue, Pend

\* Nothing is pending when all memory is lost, nor before the process is started.
NothingPending == Pend = [m \in Models |-> <<>>] /\ Unchecked = {}

\* The variables of a process that is not running, as far as commands are concerned.
NothingHeld ==
  /\ sending = NoOp /\ events = <<>> /\ outbox = <<>>
  /\ chan = [m \in Models |-> NoWorker]
  /\ step = [m \in Models |-> [w \in Workers |-> "start"]]

LEMMA EmptyQueues ==
  ASSUME NothingHeld
  PROVE  NothingPending
<1> USE DEF NothingHeld
<1>1. Sent \o events \o outbox = <<>>
  BY TwoInARow DEF Sent
<1>2. ASSUME NEW m \in Models PROVE Pending(m) = <<>>
  <2>1. PendingOps(m) = <<>> \o <<>>
    BY <1>1, OfModelOne DEF PendingOps, TakenOps
  <2>2. PendingOps(m) = <<>>
    BY <2>1, TwoInARow
  <2> QED
    BY <2>2 DEF Pending
<1>3. Unchecked = {}
  BY DEF Unchecked, At
<1> QED
  BY <1>2, <1>3 DEF NothingPending, Pend

LEMMA EmptyHere == NothingHeld => NothingPending
BY EmptyQueues

LEMMA EmptyNext == (NothingHeld => NothingPending)'
BY EmptyHere, PTL

LEMMA DiesPromised ==
  ASSUME Dies
  PROVE  Promise!Forget
<1>1. NothingHeld' /\ served' = served
  BY DEF Dies, Crash, ForgetWatcher, storeVars, NothingHeld
<1>2. NothingPending'
  BY <1>1, EmptyNext
<1> QED
  BY <1>1, <1>2 DEF Promise!Forget, NothingPending, Pend

LEMMA AgentInitPromised == AgentInit => Promise!Init
<1> SUFFICES ASSUME AgentInit PROVE Promise!Init
  OBVIOUS
<1>1. NothingPending /\ served = [m \in Models |-> NoSpec]
  BY EmptyHere DEF AgentInit, Init, PullerInit, StoreInit, WatcherInit, NothingHeld
<1> QED
  BY <1>1 DEF Promise!Init, NothingPending, Pend

\* A step that moves no command.
LEMMA NothingSent ==
  ASSUME UNCHANGED <<served, sending, events, outbox, chan, work, step, modelOps>>
  PROVE  NonePass
BY TakenSame, UncheckedStays, SameNonePass

\* The steps of the agent, as the promise sees them: most do nothing, and whatever is
\* done is issuing commands, ending one, or forgetting them all.
Over(n, v) == ProcessOp(n, v) /\ step'[n][v] = "complete"

LEMMA StepsOfAgent ==
  ASSUME AgentIInv, AgentIInv', FilesIInv, [AgentNext]_agentVars
  PROVE  \/ UNCHANGED Promise!commandVars
         \/ \E n \in Models : Promise!Issue(n)
         \/ \E n \in Models, v \in Workers :
              /\ Over(n, v) /\ UNCHANGED watcherVars
              /\ Promise!GiveUp(n) \/ Promise!Apply(n) \/ Promise!ApplyUnchecked(n)
              /\ n \notin Unchecked /\ served' = [served EXCEPT ![n] = EffectOf(work[n][v])]
                   => Promise!Apply(n)
         \/ \E n \in Models, v \in Workers : StatFails(n, v) /\ Promise!CheckFails(n)
         \/ (Kill \/ Panic) /\ Promise!Forget
<1> USE NonePassStutters
<1>1. /\ IInv /\ WatcherIInv /\ IInv' /\ WatcherIInv'
      /\ PendingIsTyped /\ PendingIsTyped'
  BY PendingTypedHere, PendingTypedNext DEF AgentIInv
<1>2. CASE AgentConfigUpdate
  BY <1>2, NothingSent DEF AgentConfigUpdate, ConfigUpdate, storeVars, pullerVars
<1>3. CASE NewWatcher
  BY <1>3, NothingSent DEF NewWatcher, Boot, storeVars, pullerVars
<1>4. CASE StartPullerAndProcessModels
  BY <1>4, NothingSent DEF StartPullerAndProcessModels, StartPuller, storeVars, watcherVars
<1>5. CASE StartWatching
  BY <1>5, NothingSent DEF StartWatching, WaitReturns, storeVars, pullerVars, watcherVars
<1>6. CASE Kill \/ Panic
  BY <1>6, DiesPromised DEF Kill, Panic
<1>7. CASE AgentPull
  <2>1. PullerStep /\ UNCHANGED watcherVars
    BY <1>7 DEF AgentPull
  <2>2. CASE TakeCommand
    BY <1>1, <2>1, <2>2, TakeNonePass
  <2>3. CASE SendToProcessor
    BY <1>1, <2>1, <2>3, SendToProcessorNonePass
  <2>4. CASE CompleteOp
    BY <1>1, <2>1, <2>4, CompleteNonePass
  <2>5. CASE \E n \in Models, v \in Workers : Processor(n, v)
    <3>1. PICK n \in Models, v \in Workers : Processor(n, v)
      BY <2>5
    <3>2. CASE Receive(n, v)
      BY <1>1, <2>1, <3>2, ReceiveNonePass
    <3>3. CASE Finish(n, v)
      BY <1>1, <2>1, <3>3, FinishNonePass
    <3>4. CASE ProcessOp(n, v)
      <4>1. \/ served' = served
            \/ /\ step'[n][v] = "complete" /\ n \notin Unchecked
               /\ served' = [served EXCEPT ![n] = EffectOf(work[n][v])]
            \/ /\ step'[n][v] = "complete" /\ n \in Unchecked
               /\ served' = [served EXCEPT ![n] = data[n]]
        BY <1>1, <3>4, ProcessOpServes
      <4>2. CASE step'[n][v] \notin {"complete", "unchecked"}
        BY <1>1, <2>1, <3>4, <4>1, <4>2, StepNonePass
      <4>3. CASE step'[n][v] = "complete"
        <5>1. Passes(n, work[n][v])
          BY <1>1, <2>1, <3>4, <4>3, StepPasses
        <5>2. data[n] \in Contents
          BY <1>1 DEF IInv, TypeOK, StoreTypeOK
        <5>3. /\ served' = served => Promise!GiveUp(n)
              /\ n \notin Unchecked /\ served' = [served EXCEPT ![n] = EffectOf(work[n][v])]
                   => Promise!Apply(n)
              /\ n \in Unchecked /\ served' = [served EXCEPT ![n] = data[n]]
                   => Promise!ApplyUnchecked(n)
          BY <1>1, <5>1, <5>2, PassesPromised
        <5> QED
          BY <2>1, <3>4, <4>1, <4>3, <5>3 DEF Over
      <4>4. CASE step'[n][v] = "unchecked"
        <5>1. StatFails(n, v)
          BY <1>1, <3>4, <4>4, ToUnchecked
        <5> QED
          BY <1>1, <2>1, <5>1, StatPromised
      <4> QED
        BY <4>2, <4>3, <4>4
    <3> QED
      BY <3>1, <3>2, <3>3, <3>4 DEF Processor
  <2> QED
    BY <2>1, <2>2, <2>3, <2>4, <2>5 DEF PullerStep
<1>8. CASE AgentWatch
  <2>1. (ReceiveNotification \/ ParseStep) /\ UNCHANGED <<storeVars, pullerVars>>
    BY <1>8 DEF AgentWatch
  <2>2. CASE ReceiveNotification
    BY <2>1, <2>2, NothingSent DEF ReceiveNotification, storeVars, pullerVars
  <2>3. CASE StartSweep \/ EndSync
    BY <2>1, <2>3, NothingSent DEF StartSweep, EndSync, storeVars, pullerVars
  <2>4. CASE SendCommand
    BY <1>1, <2>1, <2>4, SendNonePass
  <2>5. CASE \E n \in Models : MarkModel(n)
    BY <1>1, <2>1, <2>5, MarkIssues, IssuesPromised
  <2>6. CASE \E n \in Models : SweepModel(n)
    BY <1>1, <2>1, <2>6, SweepIssues, IssuesPromised
  <2> QED
    BY <2>1, <2>2, <2>3, <2>4, <2>5, <2>6 DEF ParseStep
<1>9. CASE UNCHANGED agentVars
  BY <1>9, NothingSent DEF agentVars, vars, storeVars, pullerVars, watcherVars
<1> QED
  BY <1>2, <1>3, <1>4, <1>5, <1>6, <1>7, <1>8, <1>9 DEF AgentNext

\* The agent implements its promise: whatever is slow, fails or is killed, the commands
\* of a model take effect one at a time, in the order in which the watcher decided them,
\* and what the model server has changes in no other way: to the effect of the oldest
\* command, or, for a load whose look at the success file failed, to what is in the
\* directory when the turn of that load comes.
THEOREM CommandsKeepTheirOrder ==
  ASSUME "remove" \notin Faults
  PROVE  AgentSpec => CommandsInOrder
<1>1. AgentInit => Promise!Init
  BY AgentInitPromised
<1>2. AgentIInv /\ AgentIInv' /\ FilesIInv /\ [AgentNext]_agentVars
        => [Promise!Next]_(Promise!commandVars)
  BY StepsOfAgent DEF Promise!Next, Promise!ReliableNext
<1> QED
  BY <1>1, <1>2, AgentInvariant, FilesInvariant, PTL DEF AgentSpec, CommandsInOrder, Promise!Spec

-----------------------------------------------------------------------------
(* When no download, request or removal fails and the agent is not killed. *)

Undisturbed == Faults \subseteq {"write"} /\ MaxCrashes = 0

\* The files of a model at the end of a step of processOp: an operation is only over
\* when it is applied.
LEMMA ProcessOpApplies ==
  ASSUME Undisturbed, AgentIInv, FilesIInv, NothingLost,
         NEW n \in Models, NEW v \in Workers, ProcessOp(n, v)
  PROVE  /\ data'[n] = Absent =>
              \/ served'[n] = NoSpec
              \/ Works(n, v, "Remove")' /\ step'[n][v] = "unload"
         /\ step'[n][v] = "complete" =>
              served' = [served EXCEPT ![n] = EffectOf(work[n][v])]
<1>1. /\ step \in [Models -> [Workers -> Steps]]
      /\ data \in [Models -> Contents]
      /\ served \in [Models -> Contents \cup {NoSpec}]
      /\ work \in [Models -> [Workers -> ModelOp \cup {NoOp}]]
      /\ work' = work
  BY ProcessOpMoves DEF AgentIInv, IInv, TypeOK, StoreTypeOK, ProcessorMoves
<1>2. work[n][v] # NoOp /\ \A w \in Workers \ {v} : work[n][w] = NoOp
  BY ProcessOpBusy, OthersIdle DEF AgentIInv
<1>3. data[n] = Absent =>
        served[n] = NoSpec \/ (Works(n, v, "Remove") /\ step[n][v] = "unload")
  BY <1>2 DEF NothingLost, Works
<1>4. Absent \notin Specs /\ Partial # Absent /\ Torn # Absent
  BY ContentAssumption DEF Absent, Partial, Torn
<1>5. FilesAtStep(n, v)
  BY DEF FilesIInv
<1>6. Works(n, v, "Add") => work[n][v].spec \in Specs
  BY <1>1 DEF Works, ModelOp
<1> DEFINE Good ==
             /\ data'[n] = Absent =>
                  served'[n] = NoSpec \/ (Works(n, v, "Remove")' /\ step'[n][v] = "unload")
             /\ step'[n][v] = "complete" =>
                  served' = [served EXCEPT ![n] = EffectOf(work[n][v])]
<1>7. CASE CheckSuccessFile(n, v)
  BY <1>1, <1>3, <1>7 DEF CheckSuccessFile, At, Goto, Works, storeVars
<1>8. CASE DownloadBegins(n, v)
  BY <1>1, <1>4, <1>8 DEF DownloadBegins, WriteData, Goto
<1>9. CASE DownloadEnds(n, v)
  BY <1>1, <1>4, <1>6, <1>9 DEF DownloadEnds, WriteData, Goto, At, Works
<1>10. CASE CreateSuccessFile(n, v)
  BY <1>1, <1>3, <1>10 DEF CreateSuccessFile, WriteMarker, Goto, At, Works
<1>11. CASE WriteSuccessFile(n, v) \/ WriteFails(n, v)
  BY <1>1, <1>3, <1>11 DEF WriteSuccessFile, WriteFails, WriteMarker, Goto, At, Works, storeVars
<1>12. CASE Load(n, v)
  <2>1. At(n, v, "Add", "load") /\ served' = [served EXCEPT ![n] = data[n]] /\ data' = data
    BY <1>5, <1>12 DEF Load, ServerLoads, Undisturbed, FilesAtStep, At, Works
  <2>2. data[n] = work[n][v].spec /\ EffectOf(work[n][v]) = work[n][v].spec
    BY <1>5, <2>1 DEF FilesAtStep, At, Works, EffectOf
  <2>3. data[n] # Absent
    BY <1>4, <1>6, <2>1, <2>2 DEF At, Works
  <2> QED
    BY <2>1, <2>2, <2>3
<1>13. CASE Unload(n, v)
  BY <1>1, <1>13 DEF Unload, ServerUnloads, At, EffectOf
<1>14. CASE RemoveDirMissing(n, v)
  <2>1. At(n, v, "Remove", "start") /\ data[n] = Absent /\ UNCHANGED storeVars
    BY <1>14 DEF RemoveDirMissing
  <2>2. served[n] = NoSpec /\ EffectOf(work[n][v]) = NoSpec
    BY <1>3, <2>1 DEF At, EffectOf
  <2>3. served = [served EXCEPT ![n] = NoSpec]
    BY <1>1, <2>2
  <2> QED
    BY <2>1, <2>2, <2>3 DEF storeVars
<1>15. CASE RemoveDirBegins(n, v)
  BY <1>1, <1>4, <1>15 DEF RemoveDirBegins, RemoveSomeEntries, WriteData, Goto
<1>16. CASE RemoveDirEnds(n, v)
  BY <1>1, <1>16 DEF RemoveDirEnds, RemoveLastEntries, Goto, At, Works
<1>17. /\ ~StatFails(n, v) /\ ~DownloadFails(n, v) /\ ~RequestFails(n, v)
       /\ ~RemoveDirFails(n, v)
  BY DEF Undisturbed, StatFails, DownloadFails, RequestFails, RemoveDirFails
<1> QED
  BY <1>7, <1>8, <1>9, <1>10, <1>11, <1>12, <1>13, <1>14, <1>15, <1>16, <1>17 DEF ProcessOp

\* The files and what is served stay as they are, and nobody leaves an unload undone.
LEMMA NothingLostElsewhere ==
  ASSUME NothingLost, UNCHANGED <<data, marker, served, nilTracker>>,
         phase' = "down" => phase = "down",
         \A m \in Models, w \in Workers :
           Works(m, w, "Remove") /\ step[m][w] = "unload" =>
             Works(m, w, "Remove")' /\ step'[m][w] = "unload"
  PROVE  NothingLost'
BY DEF NothingLost, Gone

LEMMA NothingLostStep ==
  ASSUME Undisturbed, AgentIInv, AgentIInv', FilesIInv, NothingLost, [AgentNext]_agentVars
  PROVE  NothingLost'
<1> USE DEF Works
<1>1. CASE AgentConfigUpdate
  BY <1>1, NothingLostElsewhere
     DEF AgentConfigUpdate, ConfigUpdate, storeVars, pullerVars, trackerVars
<1>2. CASE NewWatcher
  <2>1. ~SyncModelDirFails
    BY <1>2 DEF NewWatcher, Boot, NothingLost, Gone, SyncModelDirFails, NoMarkers
  <2> QED
    BY <1>2, <2>1 DEF NewWatcher, Boot, NothingLost, Gone, storeVars, pullerVars
<1>3. CASE StartPullerAndProcessModels
  BY <1>3, NothingLostElsewhere
     DEF StartPullerAndProcessModels, StartPuller, storeVars, watcherVars, trackerVars
<1>4. CASE StartWatching
  BY <1>4, NothingLostElsewhere
     DEF StartWatching, WaitReturns, storeVars, pullerVars, watcherVars, trackerVars
<1>5. ~Kill /\ ~Panic
  BY CrashesAssumption DEF Undisturbed, AgentIInv, Kill, Panic, Panics, NothingLost
<1>6. CASE AgentPull
  <2>1. PullerStep /\ UNCHANGED watcherVars /\ nilTracker' = nilTracker /\ phase' = phase
    BY <1>6, PullerStepPhase DEF AgentPull, watcherVars, trackerVars
  <2>2. CASE TakeCommand \/ SendToProcessor \/ CompleteOp
    BY <2>1, <2>2, NothingLostElsewhere DEF TakeCommand, SendToProcessor, CompleteOp, storeVars
  <2>3. CASE \E n \in Models, v \in Workers : Processor(n, v)
    <3>1. PICK n \in Models, v \in Workers : Processor(n, v)
      BY <2>3
    <3>2. /\ step \in [Models -> [Workers -> Steps]] /\ StoreTypeOK
          /\ work \in [Models -> [Workers -> ModelOp \cup {NoOp}]]
      BY DEF AgentIInv, IInv, TypeOK
    <3>3. CASE Receive(n, v)
      BY <2>1, <3>2, <3>3, NothingLostElsewhere DEF Receive, storeVars
    <3>4. CASE Finish(n, v)
      BY <2>1, <3>2, <3>4, NothingLostElsewhere DEF Finish, storeVars
    <3>5. CASE ProcessOp(n, v)
      <4>1. ASSUME NEW m \in Models \ {n}
            PROVE  data'[m] = data[m] /\ marker'[m] = marker[m] /\ served'[m] = served[m]
        BY <3>2, <3>5, StoreElsewhere
      <4>2. work' = work /\ \A m \in Models \ {n} : step'[m] = step[m]
        BY <3>2, <3>5, ProcessOpMoves DEF ProcessorMoves
      <4>3. phase # "down"
        BY <3>1, PullerRuns DEF FilesIInv
      <4>4. data'[n] = Absent =>
              served'[n] = NoSpec \/ (Works(n, v, "Remove")' /\ step'[n][v] = "unload")
        BY <3>5, ProcessOpApplies
      <4> QED
        BY <2>1, <4>1, <4>2, <4>3, <4>4 DEF NothingLost
    <3> QED
      BY <3>1, <3>3, <3>4, <3>5 DEF Processor
  <2> QED
    BY <2>1, <2>2, <2>3 DEF PullerStep
<1>7. CASE AgentWatch
  BY <1>7, NothingLostElsewhere
     DEF AgentWatch, ReceiveNotification, ParseStep, StartSweep, EndSync, SendCommand,
         MarkModel, SweepModel, storeVars, pullerVars, trackerVars
<1>8. CASE UNCHANGED agentVars
  BY <1>8, NothingLostElsewhere
     DEF agentVars, vars, storeVars, pullerVars, watcherVars, trackerVars
<1> QED
  BY <1>1, <1>2, <1>3, <1>4, <1>5, <1>6, <1>7, <1>8 DEF AgentNext

\* No command is lost between the watcher and the model server, through three channels
\* and two goroutines: when no download, request or removal fails and the agent is not
\* killed, each one takes effect, in its turn.
THEOREM NoCommandIsLost ==
  ASSUME Faults \subseteq {"write"}, MaxCrashes = 0
  PROVE  AgentSpec => EveryCommandApplied
<1>1. Undisturbed /\ "remove" \notin Faults
  BY DEF Undisturbed
<1>2. AgentInit => Promise!Init /\ NothingLost
  <2>1. AgentInit => NothingLost
    BY DEF AgentInit, Init, StoreInit, WatcherInit, NothingLost, Gone
  <2> QED
    BY <2>1, AgentInitPromised
<1>3. AgentIInv /\ AgentIInv' /\ FilesIInv /\ NothingLost /\ [AgentNext]_agentVars
        => NothingLost'
  BY <1>1, NothingLostStep
<1>4. AgentIInv /\ AgentIInv' /\ FilesIInv /\ NothingLost /\ [AgentNext]_agentVars
        => [Promise!ReliableNext]_(Promise!commandVars)
  <2> SUFFICES ASSUME AgentIInv, AgentIInv', FilesIInv, NothingLost, [AgentNext]_agentVars
               PROVE  [Promise!ReliableNext]_(Promise!commandVars)
    OBVIOUS
  <2>1. ~Kill /\ ~Panic
    BY <1>1, CrashesAssumption DEF Undisturbed, AgentIInv, Kill, Panic, Panics, NothingLost
  <2>2. ASSUME NEW n \in Models, NEW v \in Workers, Over(n, v)
        PROVE  served' = [served EXCEPT ![n] = EffectOf(work[n][v])]
    BY <1>1, <2>2, ProcessOpApplies DEF Over
  <2>3. Unchecked = {} /\ \A n, v : ~StatFails(n, v)
    <3>1. "stat" \notin Faults
      BY <1>1 DEF Undisturbed
    <3>2. \A m \in Models, w \in Workers : ~At(m, w, "Add", "unchecked")
      BY <3>1 DEF FilesIInv, FilesAtStep, At, Works
    <3> QED
      BY <3>1, <3>2 DEF Unchecked, StatFails
  <2> QED
    BY <2>1, <2>2, <2>3, StepsOfAgent DEF Promise!ReliableNext
<1> QED
  BY <1>1, <1>2, <1>3, <1>4, AgentInvariant, FilesInvariant, PTL
     DEF AgentSpec, EveryCommandApplied, Promise!ReliableSpec

-----------------------------------------------------------------------------
(* The handlers of the agent: the batcher.                                 *)

\* A function on 1..k is a sequence of length k.
LEMMA FunctionIsSeq ==
  ASSUME NEW S, NEW k \in Nat, NEW f \in [1..k -> S]
  PROVE  f \in Seq(S) /\ Len(f) = k
OBVIOUS

\* Appending a sequence keeps what was there and puts the rest behind it.
LEMMA Appended ==
  ASSUME NEW S, NEW s \in Seq(S), NEW t \in Seq(S)
  PROVE  /\ s \o t \in Seq(S)
         /\ Len(s \o t) = Len(s) + Len(t)
         /\ \A i \in 1..Len(s) : (s \o t)[i] = s[i]
         /\ \A i \in 1..Len(t) : (s \o t)[Len(s) + i] = t[i]
BY ConcatProperties

\* The instances of a request and the positions they get.
LEMMA OwnTypes ==
  ASSUME BatcherTypeOK, NEW r \in Requests
  PROVE  /\ asked[r].size \in 1..MaxInstances
         /\ asked[r].size \in Nat
         /\ asked[r].path \in Paths
         /\ OwnInstances(r) \in Seq(Instances)
         /\ Len(OwnInstances(r)) = asked[r].size
         /\ \A n \in 1..asked[r].size : OwnInstances(r)[n] = <<r, n>>
         /\ NextPositions(r) \in Positions
         /\ Len(NextPositions(r)) = asked[r].size
         /\ \A n \in 1..asked[r].size : NextPositions(r)[n] = Len(instances) + n
<1>1. asked[r].size \in 1..MaxInstances /\ asked[r].path \in Paths
  BY DEF BatcherTypeOK
<1>2. asked[r].size \in Nat /\ 1..asked[r].size \subseteq 1..MaxInstances
  BY <1>1, BatcherAssumption
<1>3. OwnInstances(r) \in [1..asked[r].size -> Instances]
  BY <1>2 DEF OwnInstances, Instances
<1>4. Len(instances) \in Nat
  BY LenProperties DEF BatcherTypeOK
<1>5. NextPositions(r) \in [1..asked[r].size -> Nat \ {0}]
  BY <1>2, <1>4 DEF NextPositions
<1>6. OwnInstances(r) \in Seq(Instances) /\ Len(OwnInstances(r)) = asked[r].size
  BY <1>2, <1>3, FunctionIsSeq
<1>7. NextPositions(r) \in Positions /\ Len(NextPositions(r)) = asked[r].size
  BY <1>2, <1>5, FunctionIsSeq DEF Positions
<1>8. \A n \in 1..asked[r].size :
        OwnInstances(r)[n] = <<r, n>> /\ NextPositions(r)[n] = Len(instances) + n
  BY DEF OwnInstances, NextPositions
<1> QED
  BY <1>1, <1>2, <1>6, <1>7, <1>8

-----------------------------------------------------------------------------
\* At the start there is no position and no reply.
LEMMA InitBatchIInv == BatcherInit => BatchIInv
<1> SUFFICES ASSUME BatcherInit PROVE BatchIInv
  OBVIOUS
<1>1. BatcherTypeOK
  BY BatcherAssumption DEF BatcherInit, BatcherTypeOK, Failure, NoIndex
<1>2. PositionsRight
  BY DEF BatcherInit, PositionsRight, NoIndex
<1>3. ReplyMatches
  BY DEF BatcherInit, ReplyMatches
<1>4. OwnPredictions
  BY DEF BatcherInit, OwnPredictions
<1> QED
  BY <1>1, <1>2, <1>3, <1>4 DEF BatchIInv

\* The clock stays within its bound.
LEMMA ElapseType ==
  ASSUME NEW since \in 0..MaxLatency, NEW d \in 0..1, NEW C,
         BatcherTypeOK, Elapse(since, d, C)
  PROVE  age' \in 0..MaxLatency /\ waited' \in [Requests -> Nat]
<1>1. age' \in 0..MaxLatency
  BY BatcherAssumption DEF Elapse
<1>2. waited' \in [Requests -> Nat]
  BY DEF Elapse, BatcherTypeOK
<1> QED
  BY <1>1, <1>2

\* A request joins the batch.
LEMMA ReceiveRequestIInv ==
  ASSUME BatchIInv, NEW r \in Requests, NEW d \in 0..1, ReceiveRequest(r, d)
  PROVE  BatchIInv'
<1> USE DEF BatchIInv
<1> DEFINE k == asked[r].size
           own == OwnInstances(r)
           pos == NextPositions(r)
           n0 == Len(instances)
<1>1. /\ k \in 1..MaxInstances
      /\ k \in Nat
      /\ asked[r].path \in Paths
      /\ own \in Seq(Instances)
      /\ Len(own) = k
      /\ \A n \in 1..k : own[n] = <<r, n>>
      /\ pos \in Positions
      /\ Len(pos) = k
      /\ \A n \in 1..k : pos[n] = n0 + n
  BY OwnTypes
<1>2. n0 \in Nat /\ instances \in Seq(Instances)
  BY LenProperties DEF BatcherTypeOK
<1>3. /\ instances' = instances \o own
      /\ instances' \in Seq(Instances)
      /\ Len(instances') = n0 + k
      /\ \A i \in 1..n0 : instances'[i] = instances[i]
      /\ \A i \in 1..k : instances'[n0 + i] = own[i]
  BY <1>1, <1>2, Appended DEF ReceiveRequest
<1>4. /\ DOMAIN index' = DOMAIN index \cup {r}
      /\ index'[r] = pos
      /\ \A q \in DOMAIN index : q # r => index'[q] = index[q]
  BY DEF ReceiveRequest
<1>5. UNCHANGED <<asked, answer, reply>>
  BY DEF ReceiveRequest
<1>6. loop = "select" /\ reply = <<>>
  BY DEF ReceiveRequest, ReplyMatches
<1>7. BatcherTypeOK'
  <2>1. age' \in 0..MaxLatency /\ waited' \in [Requests -> Nat]
    <3>1. age \in 0..MaxLatency /\ 0 \in 0..MaxLatency
      BY BatcherAssumption DEF BatcherTypeOK
    <3>2. CASE instances = <<>>
      BY <3>1, <3>2, ElapseType DEF ReceiveRequest
    <3>3. CASE instances # <<>>
      BY <3>1, <3>3, ElapseType DEF ReceiveRequest
    <3> QED
      BY <3>2, <3>3
  <2>2. caller' \in [Requests -> {"new", "sending", "waiting", "answered"}]
    BY DEF ReceiveRequest, BatcherTypeOK
  <2>3. path' \in Paths /\ loop' \in {"select", "predict", "reply"}
    BY <1>1 DEF ReceiveRequest
  <2>4. /\ DOMAIN index' \subseteq Requests
        /\ \A q \in DOMAIN index' : index'[q] \in Positions
    BY <1>1, <1>4 DEF BatcherTypeOK
  <2> QED
    BY <1>3, <1>5, <2>1, <2>2, <2>3, <2>4 DEF BatcherTypeOK
<1>8. PositionsRight'
  <2> SUFFICES ASSUME NEW q \in DOMAIN index'
               PROVE  /\ Len(index'[q]) = asked[q].size
                      /\ \A n \in 1..asked[q].size :
                           /\ index'[q][n] \in 1..Len(instances')
                           /\ instances'[index'[q][n]] = <<q, n>>
    BY <1>5 DEF PositionsRight
  <2>1. CASE q = r
    <3>1. Len(index'[q]) = asked[q].size /\ index'[q] = pos
      BY <1>1, <1>4, <2>1
    <3> SUFFICES ASSUME NEW n \in 1..k
                 PROVE  /\ index'[q][n] \in 1..Len(instances')
                        /\ instances'[index'[q][n]] = <<q, n>>
      BY <2>1, <3>1
    <3>2. n \in Nat /\ pos[n] = n0 + n /\ n0 + n \in 1..(n0 + k)
      BY <1>1, <1>2
    <3>3. instances'[n0 + n] = <<r, n>>
      BY <1>1, <1>3
    <3> QED
      BY <1>3, <2>1, <3>1, <3>2, <3>3
  <2>2. CASE q # r
    <3>1. q \in DOMAIN index /\ index'[q] = index[q]
      BY <1>4, <2>2
    <3>2. /\ Len(index[q]) = asked[q].size
          /\ \A n \in 1..asked[q].size :
               /\ index[q][n] \in 1..n0
               /\ instances[index[q][n]] = <<q, n>>
      BY <3>1 DEF PositionsRight
    <3> QED
      BY <1>1, <1>2, <1>3, <3>1, <3>2
  <2> QED
    BY <2>1, <2>2
<1>9. ReplyMatches'
  <2>1. Len(instances') # Len(reply')
    BY <1>1, <1>2, <1>3, <1>5, <1>6
  <2> QED
    BY <1>5, <1>6, <2>1 DEF ReplyMatches
<1>10. OwnPredictions'
  BY <1>5 DEF OwnPredictions, OwnInstances
<1> QED
  BY <1>7, <1>8, <1>9, <1>10

\* The clock moves.
LEMMA WakeUpIInv == BatchIInv /\ WakeUp => BatchIInv'
<1> SUFFICES ASSUME BatchIInv, WakeUp PROVE BatchIInv'
  OBVIOUS
<1> USE DEF BatchIInv
<1>1. UNCHANGED <<asked, caller, answer, path, instances, index, reply>>
  BY DEF WakeUp
<1>2. loop = "select" /\ loop' \in {"select", "predict"}
  BY DEF WakeUp
<1>3. age' \in 0..MaxLatency /\ waited' \in [Requests -> Nat]
  <2>1. Elapse(age, 1, DOMAIN index) /\ age \in 0..MaxLatency /\ 1 \in 0..1
    BY DEF WakeUp, BatcherTypeOK
  <2> QED
    BY <2>1, ElapseType
<1>4. BatcherTypeOK'
  BY <1>1, <1>2, <1>3 DEF BatcherTypeOK
<1>5. PositionsRight' /\ ReplyMatches' /\ OwnPredictions'
  BY <1>1, <1>2 DEF PositionsRight, ReplyMatches, OwnPredictions, OwnInstances
<1> QED
  BY <1>4, <1>5

\* The predictor answers the batch.
LEMMA PredictorRepliesIInv == BatchIInv /\ PredictorReplies => BatchIInv'
<1> SUFFICES ASSUME BatchIInv, PredictorReplies PROVE BatchIInv'
  OBVIOUS
<1> USE DEF BatchIInv
<1> DEFINE all == [i \in DOMAIN instances |-> [path |-> path, of |-> instances[i]]]
<1>1. UNCHANGED <<asked, caller, answer, path, instances, index, age, waited>>
  BY DEF PredictorReplies
<1>2. loop' = "reply" /\ (reply' = all \/ reply' = <<>>)
  BY DEF PredictorReplies
<1>3. /\ Len(instances) \in Nat
      /\ DOMAIN instances = 1..Len(instances)
      /\ \A i \in 1..Len(instances) : instances[i] \in Instances
  BY LenProperties, ElementOfSeq DEF BatcherTypeOK
<1>4. all \in [1..Len(instances) -> Predictions]
  BY <1>3 DEF BatcherTypeOK, Predictions
<1>5. all \in Seq(Predictions) /\ Len(all) = Len(instances)
  BY <1>3, <1>4, FunctionIsSeq
<1>6. BatcherTypeOK'
  BY <1>1, <1>2, <1>5, EmptySeq DEF BatcherTypeOK
<1>7. ReplyMatches'
  BY <1>1, <1>2, <1>3, <1>5 DEF ReplyMatches
<1>8. PositionsRight' /\ OwnPredictions'
  BY <1>1 DEF PositionsRight, OwnPredictions, OwnInstances
<1> QED
  BY <1>6, <1>7, <1>8

\* What a caller is given: its own predictions, or a message.
LEMMA ShareIsOwn ==
  ASSUME BatchIInv, NEW r \in DOMAIN index
  PROVE  /\ Share(r) \in Seq(Predictions)
         /\ Share(r) # Failure =>
              [n \in DOMAIN Share(r) |-> Share(r)[n].of] = OwnInstances(r)
<1> USE DEF BatchIInv
<1>1. CASE Len(reply) # Len(instances)
  BY <1>1, EmptySeq DEF Share, Failure
<1>2. CASE Len(reply) = Len(instances)
  <2> DEFINE k == asked[r].size
  <2>1. k \in Nat /\ r \in Requests /\ index[r] \in Positions
    BY OwnTypes DEF BatcherTypeOK
  <2>2. DOMAIN index[r] = 1..k
    BY <2>1, LenProperties DEF PositionsRight, Positions
  <2>3. Share(r) = [n \in 1..k |-> reply[index[r][n]]]
    BY <1>2, <2>2 DEF Share
  <2>4. \A n \in 1..k : /\ index[r][n] \in 1..Len(reply)
                        /\ reply[index[r][n]].of = <<r, n>>
    BY <1>2 DEF PositionsRight, ReplyMatches
  <2>5. \A n \in 1..k : reply[index[r][n]] \in Predictions
    BY <2>4, ElementOfSeq DEF BatcherTypeOK
  <2>6. Share(r) \in [1..k -> Predictions]
    BY <2>3, <2>5
  <2>7. [n \in DOMAIN Share(r) |-> Share(r)[n].of] = OwnInstances(r)
    BY <2>3, <2>4 DEF OwnInstances
  <2> QED
    BY <2>1, <2>6, <2>7, FunctionIsSeq
<1> QED
  BY <1>1, <1>2

\* A caller is answered, the last one of the batch included.
LEMMA ReplyIInv ==
  ASSUME BatchIInv, NEW r \in Requests, Reply(r)
  PROVE  BatchIInv'
<1> USE DEF BatchIInv
<1>1. r \in DOMAIN index /\ loop = "reply"
  BY DEF Reply, Unanswered
<1>2. UNCHANGED <<asked, path, waited>>
  BY DEF Reply
<1>3. /\ caller' = [caller EXCEPT ![r] = "answered"]
      /\ answer' = [answer EXCEPT ![r] = Share(r)]
  BY DEF Reply
<1>4. /\ Share(r) \in Seq(Predictions)
      /\ Share(r) # Failure =>
           [n \in DOMAIN Share(r) |-> Share(r)[n].of] = OwnInstances(r)
  BY <1>1, ShareIsOwn
<1>5. /\ caller' \in [Requests -> {"new", "sending", "waiting", "answered"}]
      /\ answer' \in [Requests -> Seq(Predictions)]
  BY <1>3, <1>4 DEF BatcherTypeOK
<1>6. OwnPredictions'
  <2> SUFFICES ASSUME NEW q \in Requests, answer'[q] # Failure
               PROVE  [n \in DOMAIN answer'[q] |-> answer'[q][n].of] = OwnInstances(q)
    BY <1>2 DEF OwnPredictions, OwnInstances
  <2>1. CASE q = r
    BY <1>3, <1>4, <2>1 DEF BatcherTypeOK
  <2>2. CASE q # r
    BY <1>3, <2>2 DEF BatcherTypeOK, OwnPredictions
  <2> QED
    BY <2>1, <2>2
<1>7. CASE UNCHANGED <<loop, instances, index, reply, age>>
  <2>1. BatcherTypeOK'
    BY <1>2, <1>5, <1>7 DEF BatcherTypeOK
  <2>2. PositionsRight' /\ ReplyMatches'
    BY <1>2, <1>7 DEF PositionsRight, ReplyMatches
  <2> QED
    BY <1>6, <2>1, <2>2
<1>8. CASE InitializeInfo
  <2>1. BatcherTypeOK'
    BY <1>2, <1>5, <1>8, BatcherAssumption, EmptySeq
       DEF InitializeInfo, BatcherTypeOK, NoIndex
  <2>2. PositionsRight' /\ ReplyMatches'
    BY <1>8 DEF InitializeInfo, PositionsRight, ReplyMatches, NoIndex
  <2> QED
    BY <1>6, <2>1, <2>2
<1> QED
  BY <1>7, <1>8 DEF Reply

-----------------------------------------------------------------------------
\* Every step of the batcher keeps the positions and the shares right.
THEOREM BatcherNextIInv == BatchIInv /\ [BatcherNext]_batchVars => BatchIInv'
<1> SUFFICES ASSUME BatchIInv, [BatcherNext]_batchVars PROVE BatchIInv'
  OBVIOUS
<1>1. ASSUME NEW r \in Requests, Arrive(r) PROVE BatchIInv'
  <2>1. caller' \in [Requests -> {"new", "sending", "waiting", "answered"}]
    BY <1>1 DEF Arrive, BatchIInv, BatcherTypeOK
  <2>2. UNCHANGED <<asked, answer, loop, path, instances, index, age, reply, waited>>
    BY <1>1 DEF Arrive
  <2> QED
    BY <2>1, <2>2 DEF BatchIInv, BatcherTypeOK, PositionsRight, ReplyMatches,
       OwnPredictions, OwnInstances
<1>2. CASE Loop
  BY <1>2, WakeUpIInv, ReplyIInv, ReceiveRequestIInv DEF Loop
<1>3. CASE PredictorReplies
  BY <1>3, PredictorRepliesIInv
<1>4. CASE UNCHANGED batchVars
  BY <1>4 DEF batchVars, BatchIInv, BatcherTypeOK, PositionsRight, ReplyMatches,
     OwnPredictions, OwnInstances
<1> QED
  BY <1>1, <1>2, <1>3, <1>4 DEF BatcherNext

\* The batcher never gives a caller predictions of instances that are not its
\* own, nor too few, nor in another order, whatever the sizes and limits are.
THEOREM CallersGetTheirOwn == BatcherSpec => []OwnPredictions
<1>1. BatcherInit => BatchIInv
  BY InitBatchIInv
<1>2. BatchIInv /\ [BatcherNext]_batchVars => BatchIInv'
  BY BatcherNextIInv
<1>3. BatchIInv => OwnPredictions
  BY DEF BatchIInv
<1> QED
  BY <1>1, <1>2, <1>3, PTL DEF BatcherSpec

-----------------------------------------------------------------------------
(* The limits of a batch.                                                  *)

\* At the start nobody waits.
LEMMA InitLimitsIInv == BatcherInit => LimitsIInv
BY BatcherAssumption DEF BatcherInit, LimitsIInv, ClockRight, LimitsKept, BatchIsBounded,
   LatencyOfOldest, WaitingAreBatched, NoIndex

\* What the end of an iteration leaves, when the age of a batch that is not
\* empty is the wait of its oldest request.
LEMMA IterationEnds ==
  ASSUME BatcherTypeOK', loop' = IF Due THEN "predict" ELSE "select",
         Len(instances') < MaxBatchSize + MaxInstances,
         Len(instances') = 0 => DOMAIN index' = {},
         \A q \in Requests : caller'[q] \in {"new", "sending"} => waited'[q] = 0,
         Len(instances') > 0 =>
           /\ \E q \in DOMAIN index' : waited'[q] = age'
           /\ \A q \in DOMAIN index' : waited'[q] <= age'
  PROVE  ClockRight' /\ BatchIsBounded' /\ LatencyOfOldest'
<1>1. Len(instances') \in Nat /\ (instances' # <<>> => Len(instances') > 0)
  BY LenProperties, EmptySeq DEF BatcherTypeOK
<1>2. age' \in 0..MaxLatency /\ DOMAIN index' \subseteq Requests /\ waited' \in [Requests -> Nat]
  BY DEF BatcherTypeOK
<1>3. BatchIsBounded'
  BY <1>1, BatcherAssumption DEF BatchIsBounded, Due
<1>4. ClockRight'
  BY <1>1, <1>2, BatcherAssumption DEF ClockRight, Due
<1>5. LatencyOfOldest'
  BY <1>1, <1>2, BatcherAssumption DEF LatencyOfOldest, Due
<1> QED
  BY <1>3, <1>4, <1>5

\* A request joins the batch: its wait begins, and the batch was not due.
LEMMA ReceiveLimits ==
  ASSUME BatchIInv, BatchIInv', LimitsIInv,
         NEW r \in Requests, NEW d \in 0..1, ReceiveRequest(r, d)
  PROVE  LimitsIInv'
<1> USE DEF BatchIInv, LimitsIInv, LimitsKept
<1> DEFINE since == IF instances = <<>> THEN 0 ELSE age
<1>1. /\ asked[r].size \in 1..MaxInstances
      /\ Len(instances) \in Nat
      /\ Len(instances') = Len(instances) + asked[r].size
      /\ DOMAIN index' = DOMAIN index \cup {r}
  <2>1. OwnInstances(r) \in Seq(Instances) /\ Len(OwnInstances(r)) = asked[r].size
        /\ asked[r].size \in 1..MaxInstances
    BY OwnTypes
  <2>2. instances \in Seq(Instances) /\ instances' = instances \o OwnInstances(r)
    BY DEF ReceiveRequest, BatcherTypeOK
  <2>3. Len(instances) \in Nat
    BY <2>2, LenProperties
  <2>4. Len(instances') = Len(instances) + Len(OwnInstances(r))
    BY <2>1, <2>2, Appended
  <2>5. DOMAIN index' = DOMAIN index \cup {r}
    BY DEF ReceiveRequest
  <2> QED
    BY <2>1, <2>3, <2>4, <2>5
<1>2. loop = "select" /\ Len(instances) < MaxBatchSize
  BY DEF ReceiveRequest, BatchIsBounded
<1>3. r \notin DOMAIN index /\ waited[r] = 0 /\ caller' = [caller EXCEPT ![r] = "waiting"]
  BY <1>2 DEF ReceiveRequest, WaitingAreBatched, ClockRight
<1>4. /\ since \in 0..(MaxLatency - 1)
      /\ \A q \in DOMAIN index : waited[q] <= since
      /\ \E q \in DOMAIN index \cup {r} : waited[q] = since
  <2>1. CASE instances = <<>>
    <3>1. DOMAIN index = {}
      BY <2>1, <1>1 DEF WaitingAreBatched, BatcherTypeOK
    <3> QED
      BY <2>1, <3>1, <1>3, BatcherAssumption
  <2>2. CASE instances # <<>>
    <3>1. /\ age < MaxLatency
          /\ \E q \in DOMAIN index : waited[q] = age
          /\ \A q \in DOMAIN index : waited[q] <= age
      BY <2>2, <1>2 DEF ClockRight
    <3>2. age \in 0..MaxLatency /\ since = age
      BY <2>2 DEF BatcherTypeOK
    <3>3. age \in 0..(MaxLatency - 1)
      BY <3>1, <3>2, BatcherAssumption
    <3> HIDE DEF since
    <3> QED
      BY <3>1, <3>2, <3>3
  <2> QED
    BY <2>1, <2>2
<1>5. Elapse(since, d, DOMAIN index \cup {r})
  BY DEF ReceiveRequest
<1>6. /\ age' = since + d
      /\ \A q \in DOMAIN index' : waited'[q] = waited[q] + d
      /\ \A q \in Requests \ DOMAIN index' : waited'[q] = waited[q]
  <2>1. age' = since + d
    <3>1. age' = IF since + d > MaxLatency THEN MaxLatency ELSE since + d
      BY <1>5 DEF Elapse
    <3>2. since \in Nat /\ since + 1 <= MaxLatency /\ MaxLatency \in Nat
      <4> HIDE DEF since
      <4> QED
        BY <1>4, BatcherAssumption
    <3>3. d \in {0, 1}
      OBVIOUS
    <3> HIDE DEF since
    <3> QED
      BY <3>1, <3>2, <3>3
  <2>2. waited' = [q \in Requests |->
                     IF q \in DOMAIN index \cup {r} THEN waited[q] + d ELSE waited[q]]
    BY <1>5 DEF Elapse
  <2>3. DOMAIN index' = DOMAIN index \cup {r} /\ DOMAIN index' \subseteq Requests
    BY <1>1 DEF BatcherTypeOK
  <2> HIDE DEF since
  <2> QED
    BY <2>1, <2>2, <2>3
<1>7. waited \in [Requests -> Nat] /\ DOMAIN index' \subseteq Requests
      /\ caller \in [Requests -> {"new", "sending", "waiting", "answered"}]
  BY DEF BatcherTypeOK
<1>8. \E q \in DOMAIN index' : waited'[q] = age'
  BY <1>1, <1>4, <1>6
<1>9. \A q \in DOMAIN index' : waited'[q] <= age'
  BY <1>1, <1>3, <1>4, <1>6, <1>7
<1>10. WaitingAreBatched'
  <2>1. \A q \in DOMAIN index : caller[q] = "waiting"
    BY <1>2 DEF WaitingAreBatched
  <2>2. Len(instances') > 0
    BY <1>1
  <2> QED
    BY <1>1, <1>3, <1>7, <2>1, <2>2 DEF WaitingAreBatched
<1>11. \A q \in Requests : caller'[q] \in {"new", "sending"} => waited'[q] = 0
  <2>1. \A q \in Requests : caller'[q] \in {"new", "sending"} => q \notin DOMAIN index'
    BY <1>10, <1>1, <1>2, <1>3, <1>7 DEF WaitingAreBatched
  <2> QED
    BY <1>3, <1>6, <1>7, <2>1 DEF ClockRight
<1>12. Len(instances') < MaxBatchSize + MaxInstances /\ Len(instances') > 0
  BY <1>1, <1>2, BatcherAssumption
<1> QED
  BY <1>8, <1>9, <1>10, <1>11, <1>12, IterationEnds DEF ReceiveRequest

\* Nothing was received: the batch grows older by a tick.
LEMMA WakeUpLimits ==
  ASSUME BatchIInv, BatchIInv', LimitsIInv, WakeUp
  PROVE  LimitsIInv'
<1> USE DEF BatchIInv, LimitsIInv, LimitsKept
<1>1. loop = "select" /\ UNCHANGED <<caller, index, instances>> /\ Elapse(age, 1, DOMAIN index)
  BY DEF WakeUp
<1>2. Len(instances) \in Nat /\ Len(instances) < MaxBatchSize
      /\ (Len(instances) = 0 => DOMAIN index = {})
  BY <1>1, LenProperties DEF BatcherTypeOK, BatchIsBounded, WaitingAreBatched
<1>3. WaitingAreBatched'
  BY <1>1 DEF WaitingAreBatched
<1>4. \A q \in Requests : caller'[q] \in {"new", "sending"} => waited'[q] = 0
  BY <1>1 DEF WaitingAreBatched, ClockRight, Elapse, BatcherTypeOK
<1>5. ASSUME Len(instances') > 0
      PROVE  /\ \E q \in DOMAIN index' : waited'[q] = age'
             /\ \A q \in DOMAIN index' : waited'[q] <= age'
  <2>1. instances # <<>>
    BY <1>1, <1>5
  <2>2. age < MaxLatency /\ age \in Nat /\ waited \in [Requests -> Nat]
        /\ DOMAIN index \subseteq Requests
    BY <2>1, <1>1 DEF ClockRight, BatcherTypeOK
  <2>3. age' = age + 1 /\ \A q \in DOMAIN index : waited'[q] = waited[q] + 1
    BY <1>1, <2>2, BatcherAssumption DEF Elapse
  <2> QED
    BY <1>1, <2>1, <2>2, <2>3 DEF ClockRight
<1>6. Len(instances') < MaxBatchSize + MaxInstances
  BY <1>1, <1>2, BatcherAssumption
<1> QED
  BY <1>1, <1>2, <1>3, <1>4, <1>5, <1>6, IterationEnds DEF WakeUp

\* A caller is answered; with the last one the next batch starts from nothing.
LEMMA ReplyLimits ==
  ASSUME BatchIInv, BatchIInv', LimitsIInv, NEW r \in Requests, Reply(r)
  PROVE  LimitsIInv'
<1> USE DEF BatchIInv, LimitsIInv, LimitsKept
<1>1. /\ loop = "reply" /\ waited' = waited
      /\ caller \in [Requests -> {"new", "sending", "waiting", "answered"}]
      /\ caller' = [caller EXCEPT ![r] = "answered"]
  BY DEF Reply, BatcherTypeOK
<1>2. \A q \in Requests : caller'[q] \in {"new", "sending"} => waited'[q] = 0
  BY <1>1 DEF ClockRight
<1>3. {q \in Requests : caller[q] = "waiting"} \subseteq DOMAIN index
  BY DEF WaitingAreBatched
<1>4. CASE Unanswered = {r} /\ InitializeInfo
  <2>1. {q \in Requests : caller'[q] = "waiting"} = {}
    BY <1>1, <1>3, <1>4 DEF Unanswered
  <2>2. instances' = <<>> /\ index' = NoIndex /\ loop' = "select"
    BY <1>4 DEF InitializeInfo
  <2>3. Len(instances') = 0 /\ DOMAIN index' = {}
    BY <2>2, EmptySeq DEF NoIndex
  <2> QED
    BY <1>2, <2>1, <2>2, <2>3, BatcherAssumption
       DEF ClockRight, BatchIsBounded, LatencyOfOldest, WaitingAreBatched
<1>5. CASE Unanswered # {r}
  <2>1. UNCHANGED <<loop, instances, index, age>>
    BY <1>5 DEF Reply
  <2>2. {q \in Requests : caller'[q] = "waiting"} \subseteq DOMAIN index'
    BY <1>1, <1>3, <2>1
  <2> QED
    BY <1>1, <1>2, <2>1, <2>2
       DEF ClockRight, BatchIsBounded, LatencyOfOldest, WaitingAreBatched
<1> QED
  BY <1>4, <1>5 DEF Reply

\* Every step of the batcher keeps the limits.
THEOREM BatcherNextLimits ==
  BatchIInv /\ BatchIInv' /\ LimitsIInv /\ [BatcherNext]_batchVars => LimitsIInv'
<1> SUFFICES ASSUME BatchIInv, BatchIInv', LimitsIInv, [BatcherNext]_batchVars PROVE LimitsIInv'
  OBVIOUS
<1> USE DEF LimitsIInv, ClockRight, LimitsKept, BatchIsBounded, LatencyOfOldest, WaitingAreBatched
<1>1. ASSUME NEW r \in Requests, Arrive(r) PROVE LimitsIInv'
  <2>1. \A q \in Requests : /\ caller'[q] = "waiting" <=> caller[q] = "waiting"
                            /\ caller'[q] \in {"new", "sending"} <=> caller[q] \in {"new", "sending"}
    BY <1>1 DEF Arrive, BatchIInv, BatcherTypeOK
  <2>2. DOMAIN index \subseteq Requests
    BY DEF BatchIInv, BatcherTypeOK
  <2> QED
    BY <1>1, <2>1, <2>2 DEF Arrive
<1>2. CASE Loop
  BY <1>2, WakeUpLimits, ReplyLimits, ReceiveLimits DEF Loop
<1>3. CASE PredictorReplies
  BY <1>3 DEF PredictorReplies
<1>4. CASE UNCHANGED batchVars
  BY <1>4 DEF batchVars
<1> QED
  BY <1>1, <1>2, <1>3, <1>4 DEF BatcherNext

\* Whatever the limits are, they hold: no batch gets larger than its size and one
\* request, nobody waits longer for its start than the latency, no smaller batch
\* is sent earlier, and nobody who waits is outside of the batch.
THEOREM BatchesKeepTheLimits == BatcherSpec => []LimitsKept
<1>1. BatcherInit => BatchIInv /\ LimitsIInv
  BY InitBatchIInv, InitLimitsIInv
<1>2. (BatchIInv /\ LimitsIInv) /\ [BatcherNext]_batchVars => (BatchIInv /\ LimitsIInv)'
  BY BatcherNextIInv, BatcherNextLimits
<1>3. BatchIInv /\ LimitsIInv => LimitsKept
  BY DEF LimitsIInv
<1> QED
  BY <1>1, <1>2, <1>3, PTL DEF BatcherSpec

-----------------------------------------------------------------------------
(* The logger.                                                             *)

\* The entries the handlers have queued, and EntriesConserved with the five places
\* written out.
ToLog == {e \in Entries : Queued(e.id, e.type)}

Conserved ==
  /\ QueuedEntries \cup carriers \cup WorkedOn \cup SentEntries \cup failed = ToLog
  /\ QueuedEntries \cap carriers = {} /\ QueuedEntries \cap WorkedOn = {}
  /\ QueuedEntries \cap SentEntries = {} /\ QueuedEntries \cap failed = {}
  /\ carriers \cap WorkedOn = {} /\ carriers \cap SentEntries = {} /\ carriers \cap failed = {}
  /\ WorkedOn \cap SentEntries = {} /\ WorkedOn \cap failed = {}
  /\ SentEntries \cap failed = {}

\* EntriesConserved says this of the five places.
LEMMA ConservedForm == EntriesConserved <=> Conserved /\ NoDoubles(sent)
<1>1. /\ DOMAIN Places = {1, 2, 3, 4, 5}
      /\ Places[1] = QueuedEntries /\ Places[2] = carriers /\ Places[3] = WorkedOn
      /\ Places[4] = SentEntries /\ Places[5] = failed
  BY DEF Places
<1>2. UNION {Places[i] : i \in DOMAIN Places}
        = QueuedEntries \cup carriers \cup WorkedOn \cup SentEntries \cup failed
  BY <1>1
<1>3. (\A i, j \in DOMAIN Places : i # j => Places[i] \cap Places[j] = {})
      <=> (/\ QueuedEntries \cap carriers = {} /\ QueuedEntries \cap WorkedOn = {}
           /\ QueuedEntries \cap SentEntries = {} /\ QueuedEntries \cap failed = {}
           /\ carriers \cap WorkedOn = {} /\ carriers \cap SentEntries = {} /\ carriers \cap failed = {}
           /\ WorkedOn \cap SentEntries = {} /\ WorkedOn \cap failed = {}
           /\ SentEntries \cap failed = {})
  BY <1>1
<1> QED
  BY <1>2, <1>3, Zenon DEF EntriesConserved, Conserved, ToLog

\* The same of the next state.
LEMMA ConservedFormNext == EntriesConserved' <=> Conserved' /\ NoDoubles(sent)'
BY ConservedForm, PTL

\* One entry more at the end of a channel.
LEMMA AppendEntry ==
  ASSUME NEW S, NEW seq \in Seq(S), NEW e \in S
  PROVE  /\ {Append(seq, e)[i] : i \in DOMAIN Append(seq, e)} = {seq[i] : i \in DOMAIN seq} \cup {e}
         /\ NoDoubles(seq) /\ e \notin {seq[i] : i \in DOMAIN seq} => NoDoubles(Append(seq, e))
<1> DEFINE app == Append(seq, e)
           n == Len(seq)
<1>1. /\ DOMAIN seq = 1..n /\ n \in Nat
      /\ DOMAIN app = 1..(n + 1)
      /\ \A i \in 1..n : app[i] = seq[i]
      /\ app[n + 1] = e
  BY AppendProperties, LenProperties
<1> HIDE DEF app, n
<1>2. DOMAIN app = (DOMAIN seq) \cup {n + 1} /\ n + 1 \notin DOMAIN seq
  BY <1>1
<1>3. {app[i] : i \in DOMAIN app} = {seq[i] : i \in DOMAIN seq} \cup {e}
  <2>1. \A x : (\E i \in DOMAIN app : app[i] = x) <=> (\E i \in DOMAIN seq : seq[i] = x) \/ x = e
    BY <1>1, <1>2
  <2> QED
    BY <2>1
<1>4. ASSUME NoDoubles(seq), e \notin {seq[i] : i \in DOMAIN seq} PROVE NoDoubles(app)
  BY <1>1, <1>2, <1>4 DEF NoDoubles
<1> QED
  BY <1>3, <1>4 DEF app

\* The first entry of a channel is taken.
LEMMA TakeEntry ==
  ASSUME NEW S, NEW seq \in Seq(S), seq # <<>>, NoDoubles(seq)
  PROVE  /\ Head(seq) \in {seq[i] : i \in DOMAIN seq}
         /\ {Tail(seq)[i] : i \in DOMAIN Tail(seq)} = {seq[i] : i \in DOMAIN seq} \ {Head(seq)}
         /\ NoDoubles(Tail(seq))
<1>1. /\ DOMAIN seq = 1..Len(seq) /\ Len(seq) \in Nat \ {0}
      /\ Head(seq) = seq[1]
      /\ Tail(seq) \in Seq(S)
      /\ DOMAIN Tail(seq) = 1..(Len(seq) - 1)
      /\ \A i \in 1..(Len(seq) - 1) : Tail(seq)[i] = seq[i + 1]
  BY HeadTailProperties, LenProperties, EmptySeq
<1>2. 1 \in DOMAIN seq
  BY <1>1
<1>3. \A i \in 1..(Len(seq) - 1) : i + 1 \in DOMAIN seq /\ i + 1 # 1
  BY <1>1
<1>4. \A i \in DOMAIN seq : i # 1 => i - 1 \in 1..(Len(seq) - 1) /\ seq[i] = Tail(seq)[i - 1]
  BY <1>1
<1>5. {Tail(seq)[i] : i \in DOMAIN Tail(seq)} \subseteq {seq[i] : i \in DOMAIN seq} \ {Head(seq)}
  BY <1>1, <1>2, <1>3 DEF NoDoubles
<1>6. {seq[i] : i \in DOMAIN seq} \ {Head(seq)} \subseteq {Tail(seq)[i] : i \in DOMAIN Tail(seq)}
  <2> SUFFICES ASSUME NEW i \in DOMAIN seq, seq[i] # Head(seq)
               PROVE  seq[i] \in {Tail(seq)[k] : k \in DOMAIN Tail(seq)}
    OBVIOUS
  <2>1. i # 1
    BY <1>1
  <2>2. i - 1 \in DOMAIN Tail(seq) /\ seq[i] = Tail(seq)[i - 1]
    BY <1>1, <1>4, <2>1
  <2> QED
    BY <2>2
<1>7. NoDoubles(Tail(seq))
  BY <1>1, <1>3 DEF NoDoubles
<1> QED
  BY <1>1, <1>2, <1>5, <1>6, <1>7

-----------------------------------------------------------------------------
\* At the start nothing is queued and nothing is anywhere.
LEMMA InitLoggerIInv == LoggerInit => LoggerIInv
<1> SUFFICES ASSUME LoggerInit PROVE LoggerIInv
  OBVIOUS
<1>1. LoggerTypeOK
  BY LoggerAssumption DEF LoggerInit, LoggerTypeOK, Statuses
<1>2. QueuedEntries = {} /\ WorkedOn = {} /\ SentEntries = {} /\ ToLog = {}
  BY DEF LoggerInit, QueuedEntries, WorkedOn, SentEntries, ToLog, Queued, Entries
<1>3. EntriesConserved
  BY <1>2, ConservedForm DEF LoggerInit, Conserved, NoDoubles
<1> QED
  BY <1>1, <1>3 DEF LoggerInit, LoggerIInv, LoggerInv, StagesRight, NoDoubles

\* A handler goes on without an entry: the same entries are to be logged.
LEMMA HandlerGoesOn ==
  ASSUME LoggerIInv, NEW r \in Requests,
         ReadRequest(r) \/ \E code \in Statuses : NextReturns(r, code)
  PROVE  LoggerIInv'
<1> USE DEF LoggerIInv, LoggerInv
<1>1. UNCHANGED <<workQueue, carriers, atWorker, sent, failed>>
  BY DEF ReadRequest, NextReturns
<1>2. LoggerTypeOK'
  BY <1>1 DEF LoggerTypeOK, ReadRequest, NextReturns
<1>3. StagesRight'
  BY DEF LoggerTypeOK, StagesRight, ReadRequest, NextReturns, Logs
<1>4. \A e \in Entries : Queued(e.id, e.type)' <=> Queued(e.id, e.type)
  <2> SUFFICES ASSUME NEW e \in Entries PROVE Queued(e.id, e.type)' <=> Queued(e.id, e.type)
    OBVIOUS
  <2>1. e.id \in Requests /\ e.type \in {"request", "response"}
    BY DEF Entries, EntryTypes
  <2> QED
    BY <2>1 DEF LoggerTypeOK, Queued, ReadRequest, NextReturns, Logs
<1>5. ToLog' = ToLog
  BY <1>4 DEF ToLog
<1>6. Places' = Places
  BY <1>1 DEF Places, QueuedEntries, WorkedOn, SentEntries
<1>7. EntriesConserved'
  BY <1>1, <1>5, <1>6 DEF EntriesConserved, ToLog, NoDoubles
<1> QED
  BY <1>1, <1>2, <1>3, <1>7 DEF NoDoubles

\* The handler queues an entry of its own, which was nowhere before.
LEMMA EntryIsQueued ==
  ASSUME LoggerIInv, NEW r \in Requests, QueueRequest(r) \/ QueueResponse(r)
  PROVE  LoggerIInv'
<1> USE DEF LoggerIInv, LoggerInv
<1> PICK type \in EntryTypes :
      /\ Enqueue(r, type)
      /\ IF type = "request" THEN QueueRequest(r) ELSE QueueResponse(r)
  BY DEF QueueRequest, QueueResponse, EntryTypes
<1> DEFINE e == [id |-> r, type |-> type]
<1>1. e \in Entries /\ workQueue \in Seq(Entries) /\ Len(workQueue) \in Nat
  BY LenProperties DEF Entries, LoggerTypeOK
<1>2. /\ Len(workQueue) < QueueCap /\ workQueue' = Append(workQueue, e)
      /\ UNCHANGED <<status, carriers, atWorker, sent, failed>>
  BY DEF Enqueue
<1>3. LoggerTypeOK'
  <2>1. workQueue' \in Seq(Entries) /\ Len(workQueue') = Len(workQueue) + 1
    BY <1>1, <1>2, AppendProperties
  <2>2. stage' \in [Requests -> {"new", "logRequest", "next", "logResponse", "done"}]
    BY DEF LoggerTypeOK, QueueRequest, QueueResponse
  <2> QED
    BY <1>1, <1>2, <2>1, <2>2, LoggerAssumption DEF LoggerTypeOK
<1>4. StagesRight'
  BY <1>2 DEF LoggerTypeOK, StagesRight, QueueRequest, QueueResponse
<1>5. \A f \in Entries : Queued(f.id, f.type)' <=> Queued(f.id, f.type) \/ f = e
  <2> SUFFICES ASSUME NEW f \in Entries
               PROVE  Queued(f.id, f.type)' <=> Queued(f.id, f.type) \/ f = e
    OBVIOUS
  <2>1. /\ f.id \in Requests /\ f.type \in {"request", "response"}
        /\ f = e <=> f.id = r /\ f.type = type
    BY <1>1 DEF Entries, EntryTypes
  <2>2. CASE type = "request"
    BY <1>2, <2>1, <2>2 DEF LoggerTypeOK, StagesRight, Queued, QueueRequest, Logs
  <2>3. CASE type = "response"
    BY <1>2, <2>1, <2>3 DEF LoggerTypeOK, StagesRight, Queued, QueueResponse, Logs
  <2> QED
    BY <2>2, <2>3 DEF EntryTypes
<1>6. ~Queued(r, type)
  BY DEF Queued, QueueRequest, QueueResponse, EntryTypes
<1>7. ToLog' = ToLog \cup {e} /\ e \notin ToLog
  BY <1>1, <1>5, <1>6 DEF ToLog
<1>8. /\ QueuedEntries' = QueuedEntries \cup {e}
      /\ NoDoubles(workQueue) /\ e \notin QueuedEntries => NoDoubles(workQueue)'
  BY <1>1, <1>2, AppendEntry DEF QueuedEntries, NoDoubles
<1>9. WorkedOn' = WorkedOn /\ SentEntries' = SentEntries
  BY <1>2 DEF WorkedOn, SentEntries
<1> HIDE DEF e
<1>10. Conserved
  BY ConservedForm
<1>11. Conserved'
  BY <1>2, <1>7, <1>8, <1>9, <1>10 DEF Conserved
<1>12. EntriesConserved'
  BY <1>2, <1>11, ConservedForm, ConservedFormNext DEF NoDoubles
<1>13. NoDoubles(workQueue)'
  BY <1>7, <1>8, <1>10 DEF Conserved
<1> QED
  BY <1>2, <1>3, <1>4, <1>12, <1>13

\* The dispatcher gives the first entry of the channel to a goroutine.
LEMMA EntryIsDispatched ==
  ASSUME LoggerIInv, Dispatch
  PROVE  LoggerIInv'
<1> USE DEF LoggerIInv, LoggerInv
<1> DEFINE e == Head(workQueue)
<1>1. /\ workQueue \in Seq(Entries) /\ workQueue # <<>> /\ workQueue' = Tail(workQueue)
      /\ carriers' = carriers \cup {e}
      /\ UNCHANGED <<stage, status, atWorker, sent, failed>>
  BY DEF Dispatch, LoggerTypeOK
<1>2. /\ e \in QueuedEntries
      /\ QueuedEntries' = QueuedEntries \ {e}
      /\ NoDoubles(workQueue)'
  BY <1>1, TakeEntry DEF QueuedEntries, NoDoubles
<1>3. LoggerTypeOK'
  <2>1. e \in Entries /\ workQueue' \in Seq(Entries) /\ Len(workQueue') = Len(workQueue) - 1
    BY <1>1, HeadTailProperties, EmptySeq
  <2> QED
    BY <1>1, <2>1, LenProperties, LoggerAssumption DEF LoggerTypeOK
<1>4. WorkedOn' = WorkedOn /\ SentEntries' = SentEntries /\ ToLog' = ToLog
  BY <1>1 DEF WorkedOn, SentEntries, ToLog, Queued
<1> HIDE DEF e
<1>5. Conserved
  BY ConservedForm
<1>6. Conserved'
  BY <1>1, <1>2, <1>4, <1>5 DEF Conserved
<1>7. EntriesConserved'
  BY <1>1, <1>6, ConservedForm, ConservedFormNext DEF NoDoubles
<1> QED
  BY <1>1, <1>2, <1>3, <1>7 DEF StagesRight

\* A goroutine gives its entry to an idle worker.
LEMMA EntryIsHandedOver ==
  ASSUME LoggerIInv, NEW w \in LogWorkers, NEW e \in carriers, HandOver(e, w)
  PROVE  LoggerIInv'
<1> USE DEF LoggerIInv, LoggerInv
<1>1. /\ e \in Entries /\ e # NoEntry /\ atWorker[w] = NoEntry
      /\ atWorker \in [LogWorkers -> Entries \cup {NoEntry}]
      /\ atWorker' = [atWorker EXCEPT ![w] = e] /\ carriers' = carriers \ {e}
      /\ UNCHANGED <<stage, status, workQueue, sent, failed>>
  BY LoggerAssumption DEF HandOver, LoggerTypeOK
<1>2. LoggerTypeOK'
  BY <1>1 DEF LoggerTypeOK
<1>3. WorkedOn' = WorkedOn \cup {e}
  BY <1>1 DEF WorkedOn
<1>4. QueuedEntries' = QueuedEntries /\ SentEntries' = SentEntries /\ ToLog' = ToLog
  BY <1>1 DEF QueuedEntries, SentEntries, ToLog, Queued
<1>5. Conserved
  BY ConservedForm
<1>6. Conserved'
  BY <1>1, <1>3, <1>4, <1>5 DEF Conserved
<1>7. EntriesConserved'
  BY <1>1, <1>6, ConservedForm, ConservedFormNext DEF NoDoubles
<1>8. e \notin WorkedOn
  BY <1>5 DEF Conserved
<1>9. (\A u, v \in LogWorkers : atWorker[u] = atWorker[v] /\ atWorker[u] # NoEntry => u = v)'
  BY <1>1, <1>8 DEF WorkedOn
<1> QED
  BY <1>1, <1>2, <1>7, <1>9 DEF StagesRight, NoDoubles

\* A worker sends its entry, or fails to.
LEMMA EntryIsSent ==
  ASSUME LoggerIInv, NEW w \in LogWorkers, SendCloudEvent(w)
  PROVE  LoggerIInv'
<1> USE DEF LoggerIInv, LoggerInv
<1> DEFINE e == atWorker[w]
<1>1. /\ e \in Entries /\ e # NoEntry
      /\ atWorker \in [LogWorkers -> Entries \cup {NoEntry}]
      /\ atWorker' = [atWorker EXCEPT ![w] = NoEntry]
      /\ UNCHANGED <<stage, status, workQueue, carriers>>
      /\ sent \in Seq(Entries)
  BY LoggerAssumption DEF SendCloudEvent, LoggerTypeOK
<1>2. \/ sent' = Append(sent, e) /\ failed' = failed
      \/ failed' = failed \cup {e} /\ sent' = sent
  BY DEF SendCloudEvent
<1>3. LoggerTypeOK'
  <2>1. Append(sent, e) \in Seq(Entries)
    BY <1>1, AppendProperties
  <2>2. failed \in SUBSET Entries /\ failed \cup {e} \in SUBSET Entries
    BY <1>1 DEF LoggerTypeOK
  <2>3. sent' \in Seq(Entries) /\ failed' \in SUBSET Entries
    BY <1>1, <1>2, <2>1, <2>2
  <2> QED
    BY <1>1, <2>3 DEF LoggerTypeOK
<1>4. e \in WorkedOn /\ WorkedOn' = WorkedOn \ {e}
  BY <1>1 DEF WorkedOn
<1>5. QueuedEntries' = QueuedEntries /\ ToLog' = ToLog
  BY <1>1 DEF QueuedEntries, ToLog, Queued
<1>6. Conserved
  BY ConservedForm
<1>7. e \notin SentEntries
  BY <1>4, <1>6 DEF Conserved
<1>8. CASE sent' = Append(sent, e) /\ failed' = failed
  <2>1. SentEntries' = SentEntries \cup {e} /\ NoDoubles(sent)'
    BY <1>1, <1>7, <1>8, AppendEntry, ConservedForm DEF SentEntries, NoDoubles
  <2> HIDE DEF e
  <2>2. Conserved'
    BY <1>1, <1>4, <1>5, <1>6, <1>8, <2>1 DEF Conserved
  <2> QED
    BY <2>1, <2>2, ConservedFormNext, <1>1, <1>3 DEF StagesRight, NoDoubles
<1>9. CASE failed' = failed \cup {e} /\ sent' = sent
  <2>1. SentEntries' = SentEntries /\ NoDoubles(sent)'
    BY <1>9, ConservedForm DEF SentEntries, NoDoubles
  <2> HIDE DEF e
  <2>2. Conserved'
    BY <1>1, <1>4, <1>5, <1>6, <1>9, <2>1 DEF Conserved
  <2> QED
    BY <2>1, <2>2, ConservedFormNext, <1>1, <1>3 DEF StagesRight, NoDoubles
<1> QED
  BY <1>2, <1>8, <1>9

-----------------------------------------------------------------------------
\* Every step of the two handlers keeps the entries where they belong.
THEOREM ServerNextLoggerIInv == LoggerIInv /\ [ServerNext]_serverVars => LoggerIInv'
<1> SUFFICES ASSUME LoggerIInv, [ServerNext]_serverVars PROVE LoggerIInv'
  OBVIOUS
<1>1. ASSUME UNCHANGED logVars PROVE LoggerIInv'
  <2>1. LoggerTypeOK' /\ StagesRight'
    BY <1>1 DEF logVars, LoggerIInv, LoggerInv, LoggerTypeOK, StagesRight
  <2>2. /\ QueuedEntries' = QueuedEntries /\ WorkedOn' = WorkedOn /\ SentEntries' = SentEntries
        /\ ToLog' = ToLog
    BY <1>1 DEF logVars, QueuedEntries, WorkedOn, SentEntries, ToLog, Queued
  <2>3. EntriesConserved'
    BY <1>1, <2>2, ConservedForm, ConservedFormNext
       DEF logVars, LoggerIInv, LoggerInv, Conserved, NoDoubles
  <2> QED
    BY <1>1, <2>1, <2>3 DEF logVars, LoggerIInv, LoggerInv, NoDoubles
<1>2. CASE LogHandlerStep
  BY <1>2, HandlerGoesOn, EntryIsQueued DEF LogHandlerStep, LogHandler
<1>3. CASE LoggingStep
  BY <1>3, EntryIsDispatched, EntryIsHandedOver, EntryIsSent DEF LoggingStep, Logging
<1>4. ASSUME NEW r \in Requests, BatcherReturns(r) \/ \E code \in {200, 500} : BypassBatcher(r, code)
      PROVE  LoggerIInv'
  <2>1. \E code \in Statuses : NextReturns(r, code)
    BY <1>4 DEF BatcherReturns, BypassBatcher, Statuses
  <2> QED
    BY <2>1, HandlerGoesOn
<1>5. ASSUME NEW r \in Requests, CallBatcher(r) PROVE LoggerIInv'
  BY <1>1, <1>5 DEF CallBatcher
<1>6. CASE BatchStep
  BY <1>1, <1>6 DEF BatchStep
<1>7. CASE UNCHANGED serverVars
  BY <1>1, <1>7 DEF serverVars
<1> QED
  BY <1>2, <1>3, <1>4, <1>5, <1>6, <1>7 DEF ServerNext

\* Whatever the batcher, the sink and the scheduler do: an entry that was queued
\* is in exactly one place, and what was not queued is nowhere.
THEOREM EntriesAreConserved == ServerSpec => []LoggerInv
<1>1. ServerInit => LoggerIInv
  BY InitLoggerIInv DEF ServerInit
<1>2. LoggerIInv /\ [ServerNext]_serverVars => LoggerIInv'
  BY ServerNextLoggerIInv
<1>3. LoggerIInv => LoggerInv
  BY DEF LoggerIInv
<1> QED
  BY <1>1, <1>2, <1>3, PTL DEF ServerSpec
=============================================================================
