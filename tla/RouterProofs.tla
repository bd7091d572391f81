----------------------------- MODULE RouterProofs -----------------------------
(***************************************************************************)
(* What the router does with a request, for all graphs and whatever their  *)
(* services answer. Whatever call acts, it changes itself and, at most,    *)
(* begins or receives some of its steps: CallKeeps is the argument for all *)
(* the other calls, the one above it included, and leaves to the actions   *)
(* what they make of the call itself.                                      *)
(***************************************************************************)
EXTENDS Router, SequenceTheorems, FiniteSetTheorems, TLAPS

(* The tree of the calls.                                                  *)

Index == Nat \ {0}

\* A path with a step added determines both, and is another path.
LEMMA ChildPath ==
  ASSUME NEW p \in Paths, NEW i \in Index
  PROVE  /\ Child(p, i) # p /\ Child(p, i) # <<>>
         /\ Len(Child(p, i)) = Len(p) + 1 /\ Len(p) \in Nat
         /\ Front(Child(p, i)) = p /\ Last(Child(p, i)) = i
<1>1. p \in Seq(Index)
  BY RouterAssumption DEF Index
<1>2. /\ Append(p, i) \in Seq(Index) /\ Append(p, i) # <<>>
      /\ Len(Append(p, i)) = Len(p) + 1 /\ Len(p) \in Nat
      /\ Append(p, i)[Len(p) + 1] = i
  BY <1>1, AppendProperties, LenProperties
<1>3. Last(Append(p, i)) = i
  BY <1>2 DEF Last
<1>4. Front(Append(p, i)) = p
  <2>1. Len(Append(p, i)) - 1 = Len(p)
    BY <1>2
  <2>2. SubSeq(Append(p, i), 1, Len(p)) = p
    BY <1>1
  <2> QED
    BY <2>1, <2>2 DEF Front
<1>5. Append(p, i) # p
  <2> SUFFICES ASSUME Append(p, i) = p PROVE FALSE
    OBVIOUS
  <2>1. Len(p) = Len(p) + 1
    BY <1>2
  <2> QED
    BY <1>2, <2>1
<1> QED
  BY <1>2, <1>3, <1>4, <1>5 DEF Child

LEMMA ChildrenDiffer ==
  ASSUME NEW p \in Paths, NEW q \in Paths, NEW i \in Index, NEW j \in Index,
         Child(p, i) = Child(q, j)
  PROVE  p = q /\ i = j
<1>1. Front(Child(p, i)) = p /\ Last(Child(p, i)) = i
  BY ChildPath
<1>2. Front(Child(q, j)) = q /\ Last(Child(q, j)) = j
  BY ChildPath
<1> QED
  BY <1>1, <1>2

\* No call is a step of its steps.
LEMMA NoLoop ==
  ASSUME NEW p \in Paths, NEW i \in Index, Child(p, i) \in Paths, NEW j \in Index
  PROVE  Child(Child(p, i), j) # p
<1>1. Len(Child(p, i)) = Len(p) + 1 /\ Len(p) \in Nat
  BY ChildPath
<1>2. Len(Child(Child(p, i), j)) = Len(Child(p, i)) + 1
  BY ChildPath
<1> QED
  BY <1>1, <1>2

\* The steps of a call are numbered, and calls of their own.
LEMMA StepsAreCalls ==
  ASSUME graph \in Graphs, NEW p \in Paths, IsNode(p)
  PROVE  /\ Steps(p) \in Seq(Step)
         /\ Len(Steps(p)) \in Nat /\ DOMAIN Steps(p) = 1..Len(Steps(p))
         /\ \A i \in DOMAIN Steps(p) : /\ Steps(p)[i] \in Step
                                       /\ i \in Index /\ Child(p, i) \in Paths
<1>1. Steps(p) \in Seq(Step)
  BY RouterAssumption DEF IsNode, Steps
<1>2. Len(Steps(p)) \in Nat /\ DOMAIN Steps(p) = 1..Len(Steps(p))
  BY <1>1, LenProperties
<1>3. ASSUME NEW i \in DOMAIN Steps(p) PROVE Steps(p)[i] \in Step /\ i \in Index
  BY <1>1, <1>2, ElementOfSeq DEF Index
<1>4. \A i \in DOMAIN Steps(p) : Append(p, i) \in Paths
  BY RouterAssumption DEF IsNode, Steps, NodeAt
<1> QED
  BY <1>1, <1>2, <1>3, <1>4 DEF Child

\* The graph stays, and with it the tree.
LEMMA TreeStays ==
  ASSUME graph' = graph, NEW p
  PROVE  /\ NodeAt' = NodeAt /\ IsNode(p)' = IsNode(p) /\ Steps(p)' = Steps(p)
         /\ \A type : IsA(p, type)' = IsA(p, type)
         /\ \A i : Hard(p, i)' = Hard(p, i)
         /\ IsCall(p)' = IsCall(p)
BY DEF NodeAt, IsNode, Steps, IsA, Hard, IsCall

-----------------------------------------------------------------------------
(* What a step of the call p leaves of the other calls.                     *)

\* A call that acts goes on or returns, and keeps what it was given.
Moves(q) ==
  \/ frame'[q] = frame[q]
  \/ /\ frame[q].pc \in {"running", "waiting"}
     /\ frame'[q].pc \in {"running", "waiting", "done"}
     /\ frame'[q].input = frame[q].input

Begins(q) == frame[q].pc = "idle" /\ \E input \in Bodies : frame'[q] = Started(input)

IsTaken(q) == frame[q].pc = "done" /\ frame'[q] = [frame[q] EXCEPT !.pc = "taken"]

IsStepOf(q, p) == IsNode(p) /\ \E i \in DOMAIN Steps(p) : q = Child(p, i)

CallStep(p) ==
  /\ graph' = graph
  /\ frame' \in [Paths -> Frames]
  /\ parts' \in [Paths -> SUBSET Nat]
  /\ frame[p].pc \in {"running", "waiting"} /\ Moves(p)
  /\ \A q \in Paths : q # p =>
       /\ parts'[q] = parts[q]
       /\ \/ frame'[q] = frame[q]
          \/ IsStepOf(q, p) /\ Begins(q)
          \/ IsStepOf(q, p) /\ IsA(p, "Ensemble") /\ IsTaken(q)

\* What is known of the steps of a call outlives their moves.
LEMMA StepsKeep ==
  ASSUME graph \in Graphs, graph' = graph, FramesTyped, NEW q \in Paths, IsNode(q),
         \A i \in DOMAIN Steps(q) : Moves(Child(q, i))
  PROVE  /\ \A k \in Nat : IdleFrom(q, k) => IdleFrom(q, k)'
         /\ \A i \in DOMAIN Steps(q) :
              /\ frame[Child(q, i)].pc \in {"idle", "done", "taken"} =>
                   frame'[Child(q, i)] = frame[Child(q, i)]
              /\ EndedWell(q, i) => EndedWell(q, i)'
              /\ Received(q, i) => Received(q, i)'
<1>1. Steps(q)' = Steps(q) /\ \A i : Hard(q, i)' = Hard(q, i)
  BY TreeStays
<1>2. ASSUME NEW i \in DOMAIN Steps(q), frame[Child(q, i)].pc \in {"idle", "done", "taken"}
      PROVE  frame'[Child(q, i)] = frame[Child(q, i)]
  BY <1>2 DEF Moves
<1>3. ASSUME NEW k \in Nat, IdleFrom(q, k) PROVE IdleFrom(q, k)'
  BY <1>1, <1>2, <1>3 DEF IdleFrom, Child
<1>4. ASSUME NEW i \in DOMAIN Steps(q), EndedWell(q, i) PROVE EndedWell(q, i)'
  <2>1. frame'[Child(q, i)] = frame[Child(q, i)]
    BY <1>2, <1>4 DEF EndedWell
  <2> QED
    BY <1>1, <1>4, <2>1 DEF EndedWell, Child, isSuccessful
<1>5. ASSUME NEW i \in DOMAIN Steps(q), Received(q, i) PROVE Received(q, i)'
  <2>1. frame'[Child(q, i)] = frame[Child(q, i)]
    BY <1>2, <1>5 DEF Received
  <2> QED
    BY <1>1, <1>5, <2>1 DEF Received, Child, isSuccessful
<1> QED
  BY <1>2, <1>3, <1>4, <1>5
InOrder(p) ==
  IsA(p, "Sequence") =>
    \A i \in DOMAIN Steps(p) : frame[Child(p, i)].pc # "idle" => BegunInOrder(p, i)

\* What is known of one call.
OfCall(p) ==
  /\ frame[p].pc # "idle" => IsCall(p)
  /\ parts[p] = 1..Cardinality(parts[p])
  /\ MadeBelow(p) /\ CallRight(p) /\ InOrder(p)

LEMMA CallsAreCalls == CallsIInv <=> graph \in Graphs /\ FramesTyped /\ \A p \in Paths : OfCall(p)
BY DEF CallsIInv, OfCall, SequenceInOrder, InOrder

\* Steps that have begun in order stay so while they move.
LEMMA OrderKeeps ==
  ASSUME graph \in Graphs, graph' = graph, FramesTyped, NEW q \in Paths, InOrder(q),
         IsNode(q) => \A i \in DOMAIN Steps(q) : Moves(Child(q, i)),
         frame'[q].input = frame[q].input
  PROVE  InOrder(q)'
<1>1. Steps(q)' = Steps(q) /\ IsNode(q)' = IsNode(q)
      /\ \A type : IsA(q, type)' = IsA(q, type)
  BY TreeStays
<1> SUFFICES ASSUME IsA(q, "Sequence"), NEW i \in DOMAIN Steps(q),
                    frame'[Child(q, i)].pc # "idle"
             PROVE  BegunInOrder(q, i)'
  BY <1>1 DEF InOrder, Child
<1>2. IsNode(q)
  BY DEF IsA
<1>3. frame[Child(q, i)].pc # "idle"
  BY <1>2, StepsKeep
<1>4. BegunInOrder(q, i)
  BY <1>3 DEF InOrder
<1>5. i \in 1..Len(Steps(q)) /\ DOMAIN Steps(q) = 1..Len(Steps(q)) /\ Len(Steps(q)) \in Nat
  BY <1>2, StepsAreCalls
<1>6. frame'[Child(q, i)].input = frame[Child(q, i)].input
  BY <1>2 DEF Moves
<1>7. CASE i > 1
  <2>1. i - 1 \in DOMAIN Steps(q)
    BY <1>5, <1>7
  <2>2. EndedWell(q, i - 1)
    BY <1>4, <1>7 DEF BegunInOrder
  <2>3. EndedWell(q, i - 1)' /\ frame'[Child(q, i - 1)] = frame[Child(q, i - 1)]
    BY <2>1, <2>2, <1>2, StepsKeep DEF EndedWell
  <2> QED
    BY <1>1, <1>4, <1>6, <2>3 DEF BegunInOrder, Child
<1>8. CASE ~(i > 1)
  BY <1>1, <1>4, <1>6, <1>8 DEF BegunInOrder, Child
<1> QED
  BY <1>7, <1>8

\* Another call than the one that acts, when it is neither begun nor received.
LEMMA UnmovedKeeps ==
  ASSUME graph \in Graphs, graph' = graph, FramesTyped, NEW q \in Paths, OfCall(q),
         IsNode(q) => \A i \in DOMAIN Steps(q) : Moves(Child(q, i)),
         frame'[q] = frame[q], parts'[q] = parts[q]
  PROVE  OfCall(q)'
<1>1. /\ Steps(q)' = Steps(q) /\ IsNode(q)' = IsNode(q) /\ IsCall(q)' = IsCall(q)
      /\ \A type : IsA(q, type)' = IsA(q, type)
      /\ \A i : Hard(q, i)' = Hard(q, i)
  BY TreeStays
<1>2. InOrder(q)'
  BY OrderKeeps DEF OfCall
<1>3. MadeBelow(q)'
  BY DEF OfCall, MadeBelow
<1>4. ASSUME IsNode(q) PROVE UnbegunRight(q)'
  <2>1. IdleFrom(q, 1) => IdleFrom(q, 1)'
    BY <1>4, StepsKeep
  <2> QED
    BY <1>1, <1>4, <2>1 DEF OfCall, CallRight, UnbegunRight
<1>5. ASSUME IsNode(q), IsA(q, "Sequence") PROVE SequenceRight(q)'
  <2> SUFFICES ASSUME frame'[q].pc \in {"running", "waiting"} PROVE SequenceRight(q)'
    BY DEF SequenceRight
  <2>1. SequenceRight(q) /\ frame[q].pc \in {"running", "waiting"}
    BY <1>5 DEF OfCall, CallRight
  <2>2. frame[q].i \in Nat
    BY DEF FramesTyped, Frames
  <2>3. \A k \in Nat : IdleFrom(q, k) => IdleFrom(q, k)'
    BY <1>5, StepsKeep
  <2>4. PICK k \in Nat : k = IF frame[q].pc = "running" THEN frame[q].i ELSE frame[q].i + 1
    BY <2>2
  <2>5. IdleFrom(q, k)'
    BY <2>1, <2>3, <2>4 DEF SequenceRight
  <2>6. \A i \in DOMAIN Steps(q) : i >= k => frame'[Child(q, i)].pc = "idle"
    BY <1>1, <2>5 DEF IdleFrom, Child
  <2>7. \A i \in DOMAIN Steps(q) : EndedWell(q, i) => EndedWell(q, i)'
    BY <1>5, StepsKeep
  <2> QED
    BY <1>1, <2>1, <2>4, <2>6, <2>7 DEF SequenceRight, IdleFrom, Child
<1>6. ASSUME IsNode(q), IsA(q, "Ensemble") PROVE EnsembleRight(q)'
  <2>1. EnsembleRight(q)
    BY <1>6 DEF OfCall, CallRight
  <2>2. \A i \in DOMAIN Steps(q) : Received(q, i) => Received(q, i)'
    BY <1>6, StepsKeep
  <2> QED
    BY <1>1, <2>1, <2>2 DEF EnsembleRight
<1>7. ASSUME IsNode(q), IsA(q, "Ensemble") PROVE AnswerRight(q)'
  <2> SUFFICES ASSUME frame'[q].pc \in {"done", "taken"} PROVE AnswerRight(q)'
    BY DEF AnswerRight
  <2>1. AnswerRight(q) /\ frame[q].pc \in {"done", "taken"}
    BY <1>7 DEF OfCall, CallRight
  <2>2. \A i \in DOMAIN Steps(q) : Received(q, i) => Received(q, i)'
    BY <1>7, StepsKeep
  <2>3. \A i \in DOMAIN Steps(q) : frame[Child(q, i)].pc = "taken" =>
          frame'[Child(q, i)] = frame[Child(q, i)]
    BY <1>7, StepsKeep
  <2>4. DOMAIN Steps(q) = 1..Len(Steps(q)) /\ Len(Steps(q)) \in Nat
    BY <1>7, StepsAreCalls
  <2>5. \A i \in DOMAIN Steps(q) : 1..(i - 1) \subseteq DOMAIN Steps(q)
    BY <2>4
  <2> QED
    BY <1>1, <2>1, <2>2, <2>3, <2>5 DEF AnswerRight, Child
<1>8. CallRight(q)'
  <2>1. IsNode(q) => WaitsForStep(q)'
    BY <1>1 DEF WaitsForStep, OfCall, CallRight
  <2> QED
    BY <1>1, <1>4, <1>5, <1>6, <1>7, <2>1 DEF CallRight
<1> QED
  BY <1>1, <1>2, <1>3, <1>8 DEF OfCall
\* A step that is begun.
LEMMA BegunKeeps ==
  ASSUME graph \in Graphs, graph' = graph, FramesTyped, NEW q \in Paths, OfCall(q),
         IsCall(q), Begins(q), parts'[q] = parts[q],
         IsNode(q) => \A i \in DOMAIN Steps(q) : Moves(Child(q, i))
  PROVE  OfCall(q)'
<1>1. /\ Steps(q)' = Steps(q) /\ IsNode(q)' = IsNode(q) /\ IsCall(q)' = IsCall(q)
      /\ \A type : IsA(q, type)' = IsA(q, type)
  BY TreeStays
<1>2. frame[q].pc = "idle" /\ frame'[q].pc = "running" /\ frame'[q].i = 1
      /\ frame'[q].out = NoResult
  BY DEF Begins, Started
<1>3. MadeBelow(q)'
  BY <1>2 DEF MadeBelow, NoResult, Result, Nil, Body
<1>4. ASSUME IsNode(q) PROVE IdleFrom(q, 1) /\ IdleFrom(q, 1)'
  <2>1. IdleFrom(q, 1)
    BY <1>2, <1>4 DEF OfCall, CallRight, UnbegunRight
  <2> QED
    BY <2>1, <1>4, StepsKeep
<1>5. ASSUME IsNode(q)
      PROVE  \A i \in DOMAIN Steps(q) : ~(i < 1) /\ frame'[Child(q, i)].pc = "idle"
  BY <1>1, <1>4, <1>5, StepsAreCalls DEF IdleFrom, Child, Index
<1>6. IsNode(q) => UnbegunRight(q)'
  BY <1>1, <1>2, <1>4 DEF UnbegunRight, OfCall, CallRight
<1>7. IsA(q, "Sequence") => SequenceRight(q)'
  <2> SUFFICES ASSUME IsA(q, "Sequence") PROVE SequenceRight(q)'
    OBVIOUS
  <2>1. IsNode(q)
    BY DEF IsA
  <2>2. 1 \in 1..(Len(Steps(q)) + 1)
    BY <2>1, StepsAreCalls
  <2> QED
    BY <1>1, <1>2, <1>5, <2>1, <2>2 DEF SequenceRight, IdleFrom, Child
<1>8. EnsembleRight(q)' /\ AnswerRight(q)' /\ WaitsForStep(q)'
  BY <1>2 DEF EnsembleRight, AnswerRight, WaitsForStep
<1>9. InOrder(q)'
  BY <1>1, <1>5 DEF InOrder, Child, IsA
<1> QED
  BY <1>1, <1>2, <1>3, <1>6, <1>7, <1>8, <1>9 DEF OfCall, CallRight

\* A step whose answer is received.
LEMMA TakenKeeps ==
  ASSUME graph \in Graphs, graph' = graph, FramesTyped, NEW q \in Paths, OfCall(q),
         IsTaken(q), parts'[q] = parts[q],
         IsNode(q) => \A i \in DOMAIN Steps(q) : Moves(Child(q, i))
  PROVE  OfCall(q)'
<1>1. /\ Steps(q)' = Steps(q) /\ IsNode(q)' = IsNode(q) /\ IsCall(q)' = IsCall(q)
      /\ \A type : IsA(q, type)' = IsA(q, type)
      /\ \A i : Hard(q, i)' = Hard(q, i)
  BY TreeStays
<1>2. /\ frame[q].pc = "done" /\ frame'[q].pc = "taken"
      /\ frame'[q].input = frame[q].input /\ frame'[q].out = frame[q].out
  BY DEF IsTaken, FramesTyped
<1>3. MadeBelow(q)'
  BY <1>2 DEF MadeBelow, OfCall
<1>4. /\ IsNode(q) => UnbegunRight(q)'
      /\ WaitsForStep(q)' /\ SequenceRight(q)' /\ EnsembleRight(q)'
  <2>1. IsNode(q) => UnbegunRight(q)'
    BY <1>1, <1>2 DEF OfCall, CallRight, UnbegunRight
  <2> QED
    BY <1>2, <2>1 DEF WaitsForStep, SequenceRight, EnsembleRight
<1>5. ASSUME IsNode(q), IsA(q, "Ensemble") PROVE AnswerRight(q)'
  <2>1. AnswerRight(q)
    BY <1>5 DEF OfCall, CallRight
  <2>2. \A i \in DOMAIN Steps(q) : Received(q, i) => Received(q, i)'
    BY <1>5, StepsKeep
  <2>3. \A i \in DOMAIN Steps(q) : frame[Child(q, i)].pc = "taken" =>
          frame'[Child(q, i)] = frame[Child(q, i)]
    BY <1>5, StepsKeep
  <2>4. DOMAIN Steps(q) = 1..Len(Steps(q)) /\ Len(Steps(q)) \in Nat
    BY <1>5, StepsAreCalls
  <2>5. \A i \in DOMAIN Steps(q) : 1..(i - 1) \subseteq DOMAIN Steps(q)
    BY <2>4
  <2> QED
    BY <1>1, <1>2, <2>1, <2>2, <2>3, <2>5 DEF AnswerRight, Child
<1>6. InOrder(q)'
  BY <1>2, OrderKeeps DEF OfCall
<1> QED
  BY <1>1, <1>2, <1>3, <1>4, <1>5, <1>6 DEF OfCall, CallRight

\* Whatever a call does, the others are right if they were.
LEMMA OthersKeep ==
  ASSUME CallsIInv, NEW p \in Paths, CallStep(p), NEW q \in Paths, q # p
  PROVE  OfCall(q)'
<1>1. graph \in Graphs /\ graph' = graph /\ FramesTyped /\ OfCall(q)
  BY CallsAreCalls DEF CallStep
<1>2. ASSUME IsNode(q), NEW i \in DOMAIN Steps(q) PROVE Moves(Child(q, i))
  <2>1. Child(q, i) \in Paths /\ i \in Index
    BY <1>1, <1>2, StepsAreCalls
  <2>2. CASE Child(q, i) = p
    BY <2>2 DEF CallStep
  <2>3. CASE Child(q, i) # p
    <3>1. ~IsStepOf(Child(q, i), p)
      <4> SUFFICES ASSUME IsNode(p), NEW j \in DOMAIN Steps(p), Child(q, i) = Child(p, j)
                   PROVE  FALSE
        BY DEF IsStepOf
      <4>1. j \in Index
        BY <1>1, StepsAreCalls
      <4> QED
        BY <2>1, <4>1, ChildrenDiffer
    <3> QED
      BY <2>1, <2>3, <3>1 DEF CallStep, Moves
  <2> QED
    BY <2>2, <2>3
<1>3. parts'[q] = parts[q]
  BY DEF CallStep
<1>4. CASE frame'[q] = frame[q]
  BY <1>1, <1>2, <1>3, <1>4, UnmovedKeeps
<1>5. CASE IsStepOf(q, p) /\ Begins(q)
  <2>1. IsCall(q)
    <3>1. PICK i \in DOMAIN Steps(p) : IsNode(p) /\ q = Child(p, i)
      BY <1>5 DEF IsStepOf
    <3>2. i \in Index
      BY <1>1, <3>1, StepsAreCalls
    <3>3. Front(q) = p /\ Last(q) = i
      BY <3>1, <3>2, ChildPath
    <3> QED
      BY <3>1, <3>3 DEF IsCall
  <2> QED
    BY <1>1, <1>2, <1>3, <1>5, <2>1, BegunKeeps
<1>6. CASE IsTaken(q)
  BY <1>1, <1>2, <1>3, <1>6, TakenKeeps
<1> QED
  BY <1>4, <1>5, <1>6 DEF CallStep

\* So an action has to make its own call right.
LEMMA CallKeeps ==
  ASSUME CallsIInv, NEW p \in Paths, CallStep(p), OfCall(p)'
  PROVE  CallsIInv'
<1>1. graph' \in Graphs /\ FramesTyped'
  BY DEF CallsIInv, CallStep, FramesTyped
<1>2. \A q \in Paths : OfCall(q)'
  BY OthersKeep
<1> QED
  BY <1>1, <1>2 DEF CallsIInv, OfCall, SequenceInOrder, InOrder
-----------------------------------------------------------------------------
(* What the actions do to their call.                                       *)

LEMMA CallsUnchanged ==
  ASSUME CallsIInv, UNCHANGED <<graph, frame, parts>>
  PROVE  CallsIInv'
<1>1. \A p : /\ Steps(p)' = Steps(p) /\ IsNode(p)' = IsNode(p) /\ IsCall(p)' = IsCall(p)
             /\ \A type : IsA(p, type)' = IsA(p, type)
             /\ \A i : Hard(p, i)' = Hard(p, i)
  BY TreeStays
<1>2. graph \in Graphs /\ FramesTyped /\ \A p \in Paths : OfCall(p)
  BY CallsAreCalls
<1>3. ASSUME NEW p \in Paths PROVE OfCall(p)'
  <2>1. IsNode(p) => \A i \in DOMAIN Steps(p) : Moves(Child(p, i))
    BY DEF Moves
  <2> QED
    BY <1>2, <2>1, UnmovedKeeps
<1>4. graph' \in Graphs /\ FramesTyped'
  BY <1>2 DEF FramesTyped
<1> QED
  BY <1>3, <1>4 DEF CallsIInv, OfCall, SequenceInOrder, InOrder

\* The steps of a call are other calls, and stay if no other frame changes.
LEMMA StepsMoveNot ==
  ASSUME graph \in Graphs, NEW p \in Paths, IsNode(p),
         \A q \in Paths : q # p => frame'[q] = frame[q]
  PROVE  \A i \in DOMAIN Steps(p) :
           Child(p, i) \in Paths /\ frame'[Child(p, i)] = frame[Child(p, i)]
BY StepsAreCalls, ChildPath

\* What a call may answer.
MayReturn(p, r) == r \in Results /\ (r.body.from = <<0>> \/ Len(r.body.from) >= Len(p))

LEMMA Answers ==
  ASSUME NEW p \in Paths
  PROVE  /\ MayReturn(p, Failed) /\ MayReturn(p, NoResult) /\ MayReturn(p, Result(Nil, 404, TRUE))
         /\ \A form \in Forms, status \in {0, 404, 500} \cup Statuses, err \in BOOLEAN :
              MayReturn(p, Result(Body(form, p), status, err))
<1>1. Len(p) \in Nat
  BY ChildPath DEF Index
<1> QED
  BY <1>1 DEF MayReturn, Failed, NoResult, Result, Nil, Body, Results, Bodies, Forms, Statuses

\* A call that has no answer but that of a step passes on what that may answer.
LEMMA AnswerOfStep ==
  ASSUME CallsIInv, NEW p \in Paths, IsNode(p), NEW i \in DOMAIN Steps(p)
  PROVE  /\ MayReturn(p, frame[Child(p, i)].out)
         /\ MayReturn(p, Result(frame[Child(p, i)].out.body, 500, FALSE))
         /\ frame[Child(p, i)].out.body.from # p
<1>1. graph \in Graphs /\ FramesTyped
  BY DEF CallsIInv
<1>2. Child(p, i) \in Paths /\ i \in Index
  BY <1>1, StepsAreCalls
<1>3. PICK out \in Results : out = frame[Child(p, i)].out
  BY <1>1, <1>2 DEF FramesTyped, Frames
<1>4. out.body \in Bodies /\ out.body.from \in Paths \cup {<<0>>}
  BY <1>3 DEF Results, Bodies
<1>5. out.body.from = <<0>> \/ Len(out.body.from) >= Len(Child(p, i))
  BY <1>2, <1>3 DEF CallsIInv, MadeBelow
<1>6. Len(Child(p, i)) = Len(p) + 1 /\ Len(p) \in Nat
  BY <1>2, ChildPath
<1>7. out.body.from \in Paths => Len(out.body.from) \in Nat
  BY ChildPath DEF Index
<1>8. p # <<0>>
  <2>1. p \in Seq(Index) /\ \A k \in 1..Len(p) : p[k] # 0
    BY RouterAssumption, ElementOfSeq DEF Index
  <2>2. CASE Len(p) = 1
    BY <2>1, <2>2
  <2>3. CASE Len(p) # 1
    BY <2>3
  <2> QED
    BY <2>2, <2>3
<1>9. MayReturn(p, out)
  BY <1>3, <1>4, <1>5, <1>6, <1>7 DEF MayReturn
<1>10. MayReturn(p, Result(out.body, 500, FALSE))
  BY <1>9, <1>4 DEF MayReturn, Result, Results
<1>11. out.body.from # p
  <2> SUFFICES ASSUME out.body.from = p PROVE FALSE
    OBVIOUS
  <2>1. Len(p) >= Len(p) + 1
    BY <1>5, <1>6, <1>8
  <2> QED
    BY <1>6, <2>1
<1> QED
  BY <1>3, <1>9, <1>10, <1>11

LEMMA ReturnChanges ==
  ASSUME FramesTyped, NEW p \in Paths, NEW r \in Results, Return(p, r)
  PROVE  /\ frame' \in [Paths -> Frames]
         /\ frame'[p].pc = "done" /\ frame'[p].out = r /\ frame'[p].input = frame[p].input
         /\ \A q \in Paths : q # p => frame'[q] = frame[q]
BY DEF FramesTyped, Frames, Return

\* A call that returns, an ensemble with an answer that is right.
LEMMA ReturnKeeps ==
  ASSUME CallsIInv, NEW p \in Paths, frame[p].pc \in {"running", "waiting"},
         NEW r, MayReturn(p, r), Return(p, r), graph' = graph, parts' = parts,
         IsA(p, "Ensemble") => AnswerRight(p)'
  PROVE  CallsIInv'
<1>1. graph \in Graphs /\ FramesTyped /\ OfCall(p)
  BY CallsAreCalls
<1>2. /\ Steps(p)' = Steps(p) /\ IsNode(p)' = IsNode(p) /\ IsCall(p)' = IsCall(p)
      /\ \A type : IsA(p, type)' = IsA(p, type)
  BY TreeStays
<1>3. /\ frame' \in [Paths -> Frames]
      /\ frame'[p].pc = "done" /\ frame'[p].out = r /\ frame'[p].input = frame[p].input
      /\ \A q \in Paths : q # p => frame'[q] = frame[q]
  BY <1>1, ReturnChanges DEF MayReturn
<1>4. CallStep(p)
  BY <1>1, <1>3 DEF CallStep, Moves, FramesTyped
<1>5. MadeBelow(p)'
  BY <1>3 DEF MadeBelow, MayReturn
<1>6. CallRight(p)'
  <2>1. IsNode(p) => UnbegunRight(p)'
    BY <1>1, <1>2, <1>3 DEF OfCall, CallRight, UnbegunRight
  <2> QED
    BY <1>2, <1>3, <2>1 DEF CallRight, WaitsForStep, SequenceRight, EnsembleRight
<1>7. InOrder(p)'
  <2>1. IsNode(p) => \A i \in DOMAIN Steps(p) : Moves(Child(p, i))
    BY <1>1, <1>3, StepsMoveNot DEF Moves
  <2> QED
    BY <1>1, <1>3, <2>1, OrderKeeps DEF OfCall
<1>8. OfCall(p)'
  BY <1>1, <1>2, <1>3, <1>5, <1>6, <1>7 DEF OfCall
<1> QED
  BY <1>4, <1>8, CallKeeps
\* A call that goes on to a step it has not begun.
LEMMA EnterKeeps ==
  ASSUME CallsIInv, NEW p \in Paths, frame[p].pc = "running", IsNode(p), ~IsA(p, "Ensemble"),
         NEW i \in DOMAIN Steps(p), frame[Child(p, i)].pc = "idle",
         NEW input \in Bodies, Enter(p, i, input), graph' = graph, parts' = parts,
         IsA(p, "Sequence") =>
           /\ i = frame[p].i
           /\ i > 1 => EndedWell(p, i - 1)
           /\ Steps(p)[i].condition => i > 1 /\ frame[Child(p, i - 1)].out.body.form = "x"
           /\ input = IF Steps(p)[i].useResponse /\ i > 1
                      THEN frame[Child(p, i - 1)].out.body ELSE frame[p].input
  PROVE  CallsIInv'
<1>1. graph \in Graphs /\ FramesTyped /\ OfCall(p)
  BY CallsAreCalls
<1>2. /\ Steps(p)' = Steps(p) /\ IsNode(p)' = IsNode(p) /\ IsCall(p)' = IsCall(p)
      /\ \A type : IsA(p, type)' = IsA(p, type)
      /\ \A j : Hard(p, j)' = Hard(p, j)
  BY TreeStays
<1>3. /\ DOMAIN Steps(p) = 1..Len(Steps(p)) /\ Len(Steps(p)) \in Nat
      /\ \A j \in DOMAIN Steps(p) : j \in Index /\ Child(p, j) \in Paths
  BY <1>1, StepsAreCalls
<1>4. PICK q \in Paths : q = Child(p, i)
  BY <1>3
<1>5. q # p
  BY <1>3, <1>4, ChildPath
<1>6. frame' = [frame EXCEPT ![p].pc = "waiting", ![p].i = i, ![q] = Started(input)]
  BY <1>4 DEF Enter
<1>7. Started(input) \in Frames
  BY <1>4, Answers DEF Started, MayReturn, Frames
<1>8. /\ frame' \in [Paths -> Frames]
      /\ frame'[p].pc = "waiting" /\ frame'[p].i = i
      /\ frame'[p].out = frame[p].out /\ frame'[p].input = frame[p].input
      /\ frame'[q] = Started(input)
      /\ \A r \in Paths : r # p /\ r # q => frame'[r] = frame[r]
  BY <1>1, <1>3, <1>5, <1>6, <1>7 DEF FramesTyped, Frames, Index
<1>9. CallStep(p)
  <2>1. IsStepOf(q, p) /\ Begins(q)
    BY <1>4, <1>8 DEF IsStepOf, Begins
  <2> QED
    BY <1>1, <1>8, <2>1 DEF CallStep, Moves, FramesTyped
<1>10. MadeBelow(p)'
  BY <1>1, <1>8 DEF MadeBelow, OfCall
<1>11. \A j \in DOMAIN Steps(p) : j # i => frame'[Child(p, j)] = frame[Child(p, j)]
  <2> SUFFICES ASSUME NEW j \in DOMAIN Steps(p), j # i
               PROVE  frame'[Child(p, j)] = frame[Child(p, j)]
    OBVIOUS
  <2>1. Child(p, j) # q
    BY <1>3, <1>4, ChildrenDiffer
  <2>2. Child(p, j) # p
    BY <1>3, ChildPath
  <2> QED
    BY <1>3, <1>8, <2>1, <2>2
<1>12. ASSUME NEW j \in DOMAIN Steps(p), j # i, EndedWell(p, j) PROVE EndedWell(p, j)'
  BY <1>2, <1>11, <1>12 DEF EndedWell, Child, isSuccessful
<1>13. ASSUME IsA(p, "Sequence") PROVE SequenceRight(p)'
  <2>1. SequenceRight(p) /\ i = frame[p].i
    BY <1>1, <1>13 DEF OfCall, CallRight
  <2>2. \A j \in DOMAIN Steps(p) : j < i => EndedWell(p, j)
    BY <2>1 DEF SequenceRight
  <2>3. \A j \in DOMAIN Steps(p) : j >= i => frame[Child(p, j)].pc = "idle"
    BY <2>1 DEF SequenceRight, IdleFrom
  <2>4. \A j \in DOMAIN Steps(p) : (j >= i + 1 => j # i /\ j >= i) /\ (j < i => j # i)
    BY <1>3
  <2>5. i \in 1..(Len(Steps(p)) + 1)
    BY <1>3
  <2> QED
    BY <1>2, <1>8, <1>11, <1>12, <2>2, <2>3, <2>4, <2>5 DEF SequenceRight, IdleFrom, Child
<1>14. CallRight(p)'
  <2>1. UnbegunRight(p)'
    BY <1>1, <1>2, <1>8 DEF OfCall, CallRight, UnbegunRight
  <2> QED
    BY <1>2, <1>8, <1>13, <2>1 DEF CallRight, WaitsForStep
<1>15. InOrder(p)'
  <2> SUFFICES ASSUME IsA(p, "Sequence"), NEW j \in DOMAIN Steps(p), frame'[Child(p, j)].pc # "idle"
               PROVE  BegunInOrder(p, j)'
    BY <1>2 DEF InOrder, Child
  <2>1. SequenceRight(p) /\ i = frame[p].i
    BY <1>1 DEF OfCall, CallRight
  <2>2. j <= i
    <3>1. \A k \in DOMAIN Steps(p) : k >= i => frame[Child(p, k)].pc = "idle"
      BY <2>1 DEF SequenceRight, IdleFrom
    <3> QED
      BY <1>3, <1>11, <3>1
  <2>3. j > 1 => j - 1 \in DOMAIN Steps(p) /\ j - 1 # i
    BY <1>3, <2>2
  <2>4. j > 1 => frame'[Child(p, j - 1)] = frame[Child(p, j - 1)]
    BY <1>11, <2>3
  <2>5. j > 1 /\ EndedWell(p, j - 1) => EndedWell(p, j - 1)'
    BY <1>12, <2>3
  <2>6. CASE j = i
    BY <1>2, <1>4, <1>8, <2>4, <2>5, <2>6 DEF BegunInOrder, Child, Started
  <2>7. CASE j # i
    <3>1. frame'[Child(p, j)] = frame[Child(p, j)]
      BY <1>11, <2>7
    <3>2. BegunInOrder(p, j)
      BY <1>1, <3>1 DEF OfCall, InOrder
    <3> QED
      BY <1>2, <1>8, <2>4, <2>5, <3>1, <3>2 DEF BegunInOrder, Child
  <2> QED
    BY <2>6, <2>7
<1>16. OfCall(p)'
  BY <1>1, <1>2, <1>8, <1>10, <1>14, <1>15 DEF OfCall
<1> QED
  BY <1>9, <1>16, CallKeeps
\* The ensemble p receives from its step j.
Takes(p, j) ==
  /\ graph' = graph
  /\ \A q \in Paths : q # p => parts'[q] = parts[q]
  /\ frame' \in [Paths -> Frames]
  /\ parts' \in [Paths -> SUBSET Nat]
  /\ IsTaken(Child(p, j))
  /\ frame'[p].pc \in {"waiting", "done"} /\ frame'[p].input = frame[p].input
  /\ \A q \in Paths : q # p /\ q # Child(p, j) => frame'[q] = frame[q]

LEMMA TakesIsStep ==
  ASSUME CallsIInv, NEW p \in Paths, Routes(p, "waiting", "Ensemble"),
         NEW j \in DOMAIN Steps(p), Takes(p, j)
  PROVE  /\ CallStep(p)
         /\ \A k \in DOMAIN Steps(p) : Received(p, k) => Received(p, k)'
         /\ frame'[Child(p, j)].pc = "taken" /\ frame'[Child(p, j)].out = frame[Child(p, j)].out
<1>1. graph \in Graphs /\ FramesTyped
  BY DEF CallsIInv
<1>2. /\ Steps(p)' = Steps(p) /\ \A k : Hard(p, k)' = Hard(p, k)
  BY TreeStays DEF Takes
<1>3. IsNode(p) /\ IsA(p, "Ensemble") /\ frame[p].pc = "waiting"
  BY DEF Routes, IsA
<1>4. \A k \in DOMAIN Steps(p) : k \in Index /\ Child(p, k) \in Paths /\ Child(p, k) # p
  BY <1>1, <1>3, StepsAreCalls, ChildPath
<1>5. IsStepOf(Child(p, j), p)
  BY <1>3 DEF IsStepOf
<1>6. CallStep(p)
  BY <1>1, <1>3, <1>5 DEF CallStep, Takes, Moves, FramesTyped
<1>7. ASSUME NEW k \in DOMAIN Steps(p), Received(p, k) PROVE Received(p, k)'
  <2>1. Child(p, k) # Child(p, j)
    BY <1>7 DEF Received, Takes, IsTaken
  <2>2. frame'[Child(p, k)] = frame[Child(p, k)]
    BY <1>4, <2>1 DEF Takes
  <2> QED
    BY <1>2, <1>7, <2>2 DEF Received, Child, isSuccessful
<1>8. frame'[Child(p, j)].pc = "taken" /\ frame'[Child(p, j)].out = frame[Child(p, j)].out
  BY <1>1, <1>4 DEF Takes, IsTaken, FramesTyped
<1> QED
  BY <1>6, <1>7, <1>8

\* It returns with an answer that is right.
LEMMA TakeAndReturnKeeps ==
  ASSUME CallsIInv, NEW p \in Paths, Routes(p, "waiting", "Ensemble"),
         NEW j \in DOMAIN Steps(p), frame[Child(p, j)].pc = "done",
         NEW r, MayReturn(p, r), TakeAndReturn(p, Child(p, j), r),
         graph' = graph, parts' = parts,
         \/ /\ r = Failed
            /\ frame[Child(p, j)].out.err \/ frame[Child(p, j)].out.body.form \in {"bad", "list"}
         \/ /\ r = frame[Child(p, j)].out /\ ~r.err /\ r.status # 200 /\ Hard(p, j)
            /\ \A k \in 1..(j - 1) : Received(p, k)
  PROVE  CallsIInv'
<1>1. graph \in Graphs /\ FramesTyped /\ OfCall(p)
  BY CallsAreCalls
<1>2. /\ Steps(p)' = Steps(p) /\ IsNode(p)' = IsNode(p) /\ IsCall(p)' = IsCall(p)
      /\ \A type : IsA(p, type)' = IsA(p, type)
      /\ \A k : Hard(p, k)' = Hard(p, k)
  BY TreeStays
<1>3. IsNode(p) /\ IsA(p, "Ensemble") /\ ~IsA(p, "Sequence") /\ frame[p].pc = "waiting"
  BY DEF Routes, IsA
<1>4. DOMAIN Steps(p) = 1..Len(Steps(p)) /\ Len(Steps(p)) \in Nat /\ j \in Index
  BY <1>1, <1>3, StepsAreCalls
<1>5. PICK q \in Paths : q = Child(p, j) /\ q # p
  BY <1>1, <1>3, StepsAreCalls, ChildPath
<1>6. frame' = [frame EXCEPT ![q].pc = "taken", ![p].pc = "done", ![p].out = r]
  BY <1>5 DEF TakeAndReturn
<1>7. /\ frame' \in [Paths -> Frames]
      /\ frame'[p].pc = "done" /\ frame'[p].out = r /\ frame'[p].input = frame[p].input
      /\ frame'[q] = [frame[q] EXCEPT !.pc = "taken"]
      /\ \A o \in Paths : o # p /\ o # q => frame'[o] = frame[o]
  <2>1. frame[p] \in Frames /\ frame[q] \in Frames /\ r \in Results
    BY <1>1, <1>5 DEF FramesTyped, MayReturn
  <2>2. PICK a \in Frames : a = [frame[p] EXCEPT !.pc = "done", !.out = r]
    BY <2>1 DEF Frames
  <2>3. PICK b \in Frames : b = [frame[q] EXCEPT !.pc = "taken"]
    BY <2>1 DEF Frames
  <2>4. frame' = [o \in Paths |-> IF o = p THEN a ELSE IF o = q THEN b ELSE frame[o]]
    BY <1>1, <1>5, <1>6, <2>2, <2>3 DEF FramesTyped
  <2>5. a.pc = "done" /\ a.out = r /\ a.input = frame[p].input
    BY <2>1, <2>2 DEF Frames
  <2> QED
    BY <1>1, <1>5, <2>3, <2>4, <2>5 DEF FramesTyped
<1>8. Takes(p, j)
  BY <1>1, <1>5, <1>7 DEF Takes, IsTaken, FramesTyped
<1>9. /\ CallStep(p)
      /\ \A k \in DOMAIN Steps(p) : Received(p, k) => Received(p, k)'
      /\ frame'[Child(p, j)].pc = "taken" /\ frame'[Child(p, j)].out = frame[Child(p, j)].out
  BY <1>8, TakesIsStep
<1>10. AnswerRight(p)'
  <2>1. CASE /\ r = Failed
             /\ frame[Child(p, j)].out.err \/ frame[Child(p, j)].out.body.form \in {"bad", "list"}
    <3>1. r.err
      BY <2>1 DEF Failed, Result
    <3> QED
      BY <1>2, <1>7, <1>9, <2>1, <3>1 DEF AnswerRight, Child
  <2>2. CASE /\ r = frame[Child(p, j)].out /\ ~r.err /\ r.status # 200 /\ Hard(p, j)
             /\ \A k \in 1..(j - 1) : Received(p, k)
    <3>1. r.body.from # p
      BY <1>3, <2>2, AnswerOfStep
    <3>2. \A k \in 1..(j - 1) : k \in DOMAIN Steps(p) /\ Received(p, k)'
      BY <1>4, <1>9, <2>2 DEF Index
    <3> QED
      BY <1>2, <1>7, <1>9, <2>2, <3>1, <3>2 DEF AnswerRight, Child
  <2> QED
    BY <2>1, <2>2
<1>11. MadeBelow(p)'
  BY <1>7 DEF MadeBelow, MayReturn
<1>12. CallRight(p)' /\ InOrder(p)'
  BY <1>2, <1>3, <1>7, <1>10
  DEF CallRight, UnbegunRight, WaitsForStep, SequenceRight, EnsembleRight, InOrder
<1>13. OfCall(p)'
  BY <1>1, <1>2, <1>3, <1>11, <1>12 DEF OfCall
<1> QED
  BY <1>9, <1>13, CallKeeps

\* The first numbers with the next one.
LEMMA Count ==
  ASSUME NEW n \in Nat
  PROVE  1..n = 1..Cardinality(1..n)
<1>1. Cardinality(1..n) = n
  BY FS_Interval
<1> QED
  BY <1>1

LEMMA ReceiveResultKeeps ==
  ASSUME CallsIInv, NEW p \in Paths, ReceiveResult(p)
  PROVE  CallsIInv'
<1> DEFINE i == frame[p].i
           q == Child(p, i)
<1>1. graph \in Graphs /\ FramesTyped /\ OfCall(p)
  BY CallsAreCalls
<1>2. /\ Routes(p, "waiting", "Ensemble") /\ i \in DOMAIN Steps(p)
      /\ frame[q].pc = "done" /\ ~frame[q].out.err /\ frame[q].out.body.form \in {"o", "x"}
      /\ graph' = graph
  BY DEF ReceiveResult, SendsResult
<1>3. IsNode(p) /\ IsA(p, "Ensemble") /\ ~IsA(p, "Sequence") /\ frame[p].pc = "waiting"
  BY <1>2 DEF Routes, IsA
<1>4. EnsembleRight(p)
  BY <1>1, <1>3 DEF OfCall, CallRight
<1>5. /\ DOMAIN Steps(p) = 1..Len(Steps(p)) /\ Len(Steps(p)) \in Nat
      /\ i \in Index /\ q \in Paths /\ q # p
  BY <1>1, <1>2, <1>3, StepsAreCalls, ChildPath
<1>6. CASE ~isSuccessful(frame[q].out.status) /\ Hard(p, i)
  <2>1. TakeAndReturn(p, q, frame[q].out) /\ parts' = parts
    BY <1>6 DEF ReceiveResult
  <2>2. \A k \in 1..(i - 1) : Received(p, k)
    BY <1>3, <1>4, <1>5 DEF EnsembleRight, Index
  <2>3. MayReturn(p, frame[q].out)
    BY <1>2, <1>3, AnswerOfStep
  <2> QED
    BY <1>2, <1>6, <2>1, <2>2, <2>3, TakeAndReturnKeeps DEF isSuccessful
<1>7. CASE ~(~isSuccessful(frame[q].out.status) /\ Hard(p, i))
  <2>1. PICK j \in DOMAIN Steps(p), o \in Paths : j = i /\ o = q /\ o # p /\ o = Child(p, j)
    BY <1>2, <1>5
  <2>2. /\ frame' = [frame EXCEPT ![o].pc = "taken", ![p].i = j + 1]
        /\ parts' = [parts EXCEPT ![p] = parts[p] \cup {j}]
    BY <1>1, <1>7, <2>1 DEF ReceiveResult, FramesTyped
  <2> HIDE DEF i, q
  <2>3. /\ frame' \in [Paths -> Frames]
        /\ frame'[p].pc = "waiting" /\ frame'[p].i = j + 1
        /\ frame'[p].out = frame[p].out /\ frame'[p].input = frame[p].input
        /\ frame'[o] = [frame[o] EXCEPT !.pc = "taken"]
        /\ \A r \in Paths : r # p /\ r # o => frame'[r] = frame[r]
    <3>1. frame[p] \in Frames /\ frame[o] \in Frames /\ j + 1 \in Nat
      BY <1>1, <1>5, <2>1 DEF FramesTyped, Index
    <3>2. PICK a \in Frames : a = [frame[p] EXCEPT !.i = j + 1]
      BY <3>1 DEF Frames
    <3>3. PICK b \in Frames : b = [frame[o] EXCEPT !.pc = "taken"]
      BY <3>1 DEF Frames
    <3>4. frame' = [r \in Paths |-> IF r = p THEN a ELSE IF r = o THEN b ELSE frame[r]]
      BY <1>1, <2>1, <2>2, <3>2, <3>3 DEF FramesTyped
    <3>5. a.pc = "waiting" /\ a.i = j + 1 /\ a.out = frame[p].out /\ a.input = frame[p].input
      BY <1>3, <3>1, <3>2 DEF Frames
    <3> QED
      BY <1>1, <2>1, <3>3, <3>4, <3>5 DEF FramesTyped
  <2>4. /\ parts' \in [Paths -> SUBSET Nat] /\ parts'[p] = parts[p] \cup {j}
        /\ \A r \in Paths : r # p => parts'[r] = parts[r]
    BY <1>1, <1>5, <2>1, <2>2 DEF FramesTyped, Index
  <2>5. Takes(p, j)
    BY <1>2, <2>1, <2>3, <2>4 DEF Takes, IsTaken
  <2>6. /\ CallStep(p)
        /\ \A k \in DOMAIN Steps(p) : Received(p, k) => Received(p, k)'
        /\ frame'[Child(p, j)].pc = "taken" /\ frame'[Child(p, j)].out = frame[Child(p, j)].out
    BY <1>2, <2>5, TakesIsStep
  <2>7. /\ Steps(p)' = Steps(p) /\ IsNode(p)' = IsNode(p) /\ IsCall(p)' = IsCall(p)
        /\ \A type : IsA(p, type)' = IsA(p, type)
        /\ \A k : Hard(p, k)' = Hard(p, k)
    BY <1>2, TreeStays
  <2>8. Received(p, j)'
    BY <1>2, <1>7, <2>1, <2>6, <2>7 DEF Received, Child, isSuccessful, i, q
  <2>9. parts'[p] = 1..j /\ j \in Nat /\ j \in 1..Len(Steps(p))
    <3>1. parts[p] = 1..(j - 1)
      BY <1>3, <1>4, <2>1 DEF EnsembleRight, i
    <3>2. j \in Nat \ {0} /\ j \in 1..Len(Steps(p))
      BY <1>5, <2>1 DEF Index
    <3> QED
      BY <2>4, <3>1, <3>2
  <2>10. EnsembleRight(p)'
    <3>1. j + 1 \in 1..(Len(Steps(p)) + 1) /\ 1..j = 1..(j + 1 - 1)
      BY <1>5, <2>9
    <3>2. \A k \in DOMAIN Steps(p) : k < j + 1 => k < j \/ k = j
      BY <1>5, <2>9
    <3>3. \A k \in DOMAIN Steps(p) : k < j => Received(p, k)
      BY <1>3, <1>4, <2>1 DEF EnsembleRight, i
    <3>4. \A k \in DOMAIN Steps(p) : k < j + 1 => Received(p, k)'
      BY <2>6, <2>8, <3>2, <3>3
    <3> QED
      BY <2>3, <2>7, <2>9, <3>1, <3>4 DEF EnsembleRight
  <2>11. MadeBelow(p)' /\ parts'[p] = 1..Cardinality(parts'[p])
    BY <1>1, <2>3, <2>9, Count DEF MadeBelow, OfCall
  <2>12. CallRight(p)' /\ InOrder(p)'
    BY <1>3, <2>3, <2>7, <2>10
    DEF CallRight, UnbegunRight, WaitsForStep, AnswerRight, InOrder
  <2>13. OfCall(p)'
    BY <1>1, <1>3, <2>7, <2>11, <2>12 DEF OfCall
  <2> QED
    BY <2>6, <2>13, CallKeeps
<1> QED
  BY <1>6, <1>7
LEMMA ReceiveErrorKeeps ==
  ASSUME CallsIInv, NEW p \in Paths, ReceiveError(p)
  PROVE  CallsIInv'
<1>1. PICK j \in DOMAIN Steps(p) : SendsError(Child(p, j)) /\ TakeAndReturn(p, Child(p, j), Failed)
  BY DEF ReceiveError
<1>2. Routes(p, "waiting", "Ensemble") /\ graph' = graph /\ parts' = parts
  BY DEF ReceiveError
<1>3. frame[Child(p, j)].pc = "done"
      /\ (frame[Child(p, j)].out.err \/ frame[Child(p, j)].out.body.form \in {"bad", "list"})
  BY <1>1 DEF SendsError
<1>4. MayReturn(p, Failed)
  BY Answers
<1> QED
  BY <1>1, <1>2, <1>3, <1>4, TakeAndReturnKeeps

LEMMA CombineKeeps ==
  ASSUME CallsIInv, NEW p \in Paths, Combine(p)
  PROVE  CallsIInv'
<1>1. graph \in Graphs /\ FramesTyped /\ OfCall(p)
  BY CallsAreCalls
<1>2. PICK r : r = Result(Body("o", p), 200, FALSE)
  OBVIOUS
<1>3. /\ Routes(p, "waiting", "Ensemble") /\ frame[p].i \notin DOMAIN Steps(p)
      /\ Return(p, r) /\ graph' = graph /\ parts' = parts
  BY <1>2 DEF Combine
<1>4. IsNode(p) /\ IsA(p, "Ensemble") /\ frame[p].pc = "waiting"
  BY <1>3 DEF Routes, IsA
<1>5. MayReturn(p, r) /\ ~r.err /\ r.status = 200
  <2>1. "o" \in Forms /\ 200 \in {0, 404, 500} \cup Statuses /\ FALSE \in BOOLEAN
    BY DEF Forms, Statuses
  <2>2. MayReturn(p, r)
    BY <1>2, <2>1, Answers
  <2> QED
    BY <1>2, <2>2 DEF Result
<1>6. DOMAIN Steps(p) = 1..Len(Steps(p)) /\ Len(Steps(p)) \in Nat
      /\ \A k \in DOMAIN Steps(p) : Child(p, k) \in Paths /\ Child(p, k) # p
  BY <1>1, <1>4, StepsAreCalls, ChildPath
<1>7. EnsembleRight(p)
  BY <1>1, <1>4 DEF OfCall, CallRight
<1>8. frame[p].i = Len(Steps(p)) + 1
  BY <1>3, <1>4, <1>6, <1>7 DEF EnsembleRight
<1>9. parts[p] = DOMAIN Steps(p) /\ \A k \in DOMAIN Steps(p) : Received(p, k)
  <2>1. parts[p] = 1..(frame[p].i - 1)
    BY <1>4, <1>7 DEF EnsembleRight
  <2>2. frame[p].i - 1 = Len(Steps(p))
    BY <1>6, <1>8
  <2>3. \A k \in DOMAIN Steps(p) : k < frame[p].i
    BY <1>6, <1>8
  <2> QED
    BY <1>4, <1>6, <1>7, <2>1, <2>2, <2>3 DEF EnsembleRight
<1>10. /\ frame'[p].pc = "done" /\ frame'[p].out = r
       /\ \A q \in Paths : q # p => frame'[q] = frame[q]
  <2>1. r \in Results /\ Return(p, r)
    BY <1>3, <1>5 DEF MayReturn
  <2> QED
    BY <1>1, <2>1, ReturnChanges
<1>11. \A k \in DOMAIN Steps(p) : Received(p, k)'
  <2>1. \A k \in DOMAIN Steps(p) : Moves(Child(p, k))
    BY <1>6, <1>10 DEF Moves
  <2> QED
    BY <1>1, <1>3, <1>4, <1>9, <2>1, StepsKeep
<1>12. AnswerRight(p)'
  <2>1. Steps(p)' = Steps(p)
    BY <1>3, TreeStays
  <2> QED
    BY <1>3, <1>5, <1>9, <1>10, <1>11, <2>1 DEF AnswerRight
<1> QED
  BY <1>3, <1>4, <1>5, <1>12, ReturnKeeps

LEMMA StartStepsKeeps ==
  ASSUME CallsIInv, NEW p \in Paths, StartSteps(p)
  PROVE  CallsIInv'
<1>1. graph \in Graphs /\ FramesTyped /\ OfCall(p)
  BY CallsAreCalls
<1>2. Routes(p, "running", "Ensemble") /\ graph' = graph /\ parts' = parts
  BY DEF StartSteps
<1>3. IsNode(p) /\ IsA(p, "Ensemble") /\ ~IsA(p, "Sequence") /\ frame[p].pc = "running"
  BY <1>2 DEF Routes, IsA
<1>4. UnbegunRight(p)
  BY <1>1, <1>3 DEF OfCall, CallRight
<1>5. /\ DOMAIN Steps(p) = 1..Len(Steps(p)) /\ Len(Steps(p)) \in Nat
      /\ \A k \in DOMAIN Steps(p) : k \in Index /\ Child(p, k) \in Paths /\ Child(p, k) # p
  BY <1>1, <1>3, StepsAreCalls, ChildPath
<1>6. /\ /\ Steps(p)' = Steps(p) /\ IsNode(p)' = IsNode(p) /\ IsCall(p)' = IsCall(p)
      /\ \A type : IsA(p, type)' = IsA(p, type)
  BY <1>2, TreeStays
<1>7. \A k \in DOMAIN Steps(p) : frame[Child(p, k)].pc = "idle"
  <2>1. IdleFrom(p, 1) /\ \A k \in DOMAIN Steps(p) : k >= 1
    BY <1>3, <1>4, <1>5 DEF UnbegunRight, Index
  <2> QED
    BY <2>1 DEF IdleFrom
<1>8. frame[p].i \in Nat /\ frame[p].input \in Bodies /\ frame[p] \in Frames
  BY <1>1 DEF FramesTyped, Frames
<1>9. PICK s \in Frames : s = Started(frame[p].input)
  BY <1>8, Answers DEF Started, MayReturn, Frames
<1>10. PICK a \in Frames : a = [frame[p] EXCEPT !.pc = "waiting"]
  BY <1>8 DEF Frames
<1>11. a.pc = "waiting" /\ a.i = frame[p].i /\ a.out = frame[p].out /\ a.input = frame[p].input
  BY <1>8, <1>10 DEF Frames
<1>12. /\ frame' \in [Paths -> Frames]
       /\ frame'[p] = a
       /\ \A q \in Paths : q # p => \/ frame'[q] = frame[q]
                                   \/ /\ q # <<>> /\ Front(q) = p /\ Last(q) \in DOMAIN Steps(p)
                                      /\ frame'[q] = s
  BY <1>1, <1>9, <1>10 DEF StartSteps, FramesTyped
<1>13. ASSUME NEW q \in Paths, q # <<>>, Front(q) = p, Last(q) \in DOMAIN Steps(p)
       PROVE  q = Child(p, Last(q))
  <2>1. q \in Seq(Index)
    BY RouterAssumption DEF Index
  <2>2. PICK t \in Seq(Index), e \in Index : q = Append(t, e)
    BY <1>13, <2>1, SequenceEmptyOrAppend
  <2>3. Len(q) = Len(t) + 1 /\ Len(t) \in Nat /\ q[Len(t) + 1] = e
    BY <2>2, AppendProperties, LenProperties
  <2>4. Last(q) = e
    BY <2>3 DEF Last
  <2>5. Front(q) = t
    <3>1. Len(q) - 1 = Len(t)
      BY <2>3
    <3>2. SubSeq(Append(t, e), 1, Len(t)) = t
      BY <2>2
    <3> QED
      BY <2>2, <3>1, <3>2 DEF Front
  <2> QED
    BY <1>13, <2>2, <2>4, <2>5 DEF Child
<1>14. CallStep(p)
  <2>1. ASSUME NEW q \in Paths, q # p, frame'[q] # frame[q] PROVE IsStepOf(q, p) /\ Begins(q)
    <3>1. q = Child(p, Last(q)) /\ Last(q) \in DOMAIN Steps(p) /\ frame'[q] = s
      BY <1>12, <1>13, <2>1
    <3> QED
      BY <1>3, <1>7, <1>8, <1>9, <3>1 DEF IsStepOf, Begins
  <2> QED
    BY <1>1, <1>2, <1>3, <1>11, <1>12, <2>1 DEF CallStep, Moves, FramesTyped
<1>15. EnsembleRight(p)' /\ UnbegunRight(p)' /\ MadeBelow(p)'
  <2>1. frame[p].i = 1 /\ parts[p] = {}
    BY <1>1, <1>3, <1>4 DEF OfCall, CallRight, EnsembleRight, UnbegunRight
  <2>2. 1 \in 1..(Len(Steps(p)) + 1) /\ {} = 1..(1 - 1)
        /\ \A k \in DOMAIN Steps(p) : ~(k < 1)
    BY <1>5
  <2>3. EnsembleRight(p)'
    BY <1>2, <1>6, <1>11, <1>12, <2>1, <2>2 DEF EnsembleRight
  <2>4. UnbegunRight(p)'
    BY <1>3, <1>6, <1>11, <1>12 DEF UnbegunRight
  <2>5. MadeBelow(p)'
    BY <1>1, <1>11, <1>12 DEF MadeBelow, OfCall
  <2> QED
    BY <2>3, <2>4, <2>5
<1>16. CallRight(p)' /\ InOrder(p)'
  BY <1>3, <1>6, <1>11, <1>12, <1>15 DEF CallRight, WaitsForStep, AnswerRight, InOrder
<1>17. OfCall(p)'
  BY <1>1, <1>2, <1>3, <1>6, <1>15, <1>16 DEF OfCall
<1> QED
  BY <1>14, <1>17, CallKeeps
LEMMA CallServiceKeeps ==
  ASSUME CallsIInv, NEW p \in Paths, CallService(p) \/ InvalidRouteType(p)
  PROVE  CallsIInv'
<1>1. /\ frame[p].pc \in {"running", "waiting"} /\ graph' = graph /\ parts' = parts
      /\ \E r : MayReturn(p, r) /\ Return(p, r)
  BY Answers DEF CallService, InvalidRouteType
<1>2. ~IsA(p, "Ensemble")
  BY RouterAssumption DEF CallService, InvalidRouteType, IsA, IsNode, CallsIInv
<1> QED
  BY <1>1, <1>2, ReturnKeeps

\* A route among the steps: none of them has been begun.
LEMMA RouteKeeps ==
  ASSUME CallsIInv, NEW p \in Paths,
         Routes(p, "running", "Splitter") \/ Routes(p, "running", "Switch"),
         NEW i \in DOMAIN Steps(p), Enter(p, i, frame[p].input), graph' = graph, parts' = parts
  PROVE  CallsIInv'
<1>1. graph \in Graphs /\ FramesTyped /\ OfCall(p)
  BY CallsAreCalls
<1>2. IsNode(p) /\ ~IsA(p, "Ensemble") /\ ~IsA(p, "Sequence") /\ frame[p].pc = "running"
  BY DEF Routes, IsA
<1>3. IdleFrom(p, 1)
  BY <1>1, <1>2 DEF OfCall, CallRight, UnbegunRight
<1>4. i >= 1
  BY <1>1, <1>2, StepsAreCalls DEF Index
<1>5. frame[Child(p, i)].pc = "idle"
  BY <1>3, <1>4 DEF IdleFrom
<1>6. frame[p].input \in Bodies
  BY <1>1 DEF FramesTyped, Frames
<1> QED
  BY <1>2, <1>5, <1>6, EnterKeeps

LEMMA PickupRouteKeeps ==
  ASSUME CallsIInv, NEW p \in Paths, PickupRoute(p)
  PROVE  CallsIInv'
<1>1. Routes(p, "running", "Splitter") /\ graph' = graph /\ parts' = parts
  BY DEF PickupRoute
<1>2. CASE \E i \in UNION {RoutesAt(p, point) : point \in 0..100} : Enter(p, i, frame[p].input)
  <2>1. PICK point \in 0..100 : \E i \in RoutesAt(p, point) : Enter(p, i, frame[p].input)
    BY <1>2
  <2>2. PICK i \in DOMAIN Steps(p) : Enter(p, i, frame[p].input)
    BY <2>1 DEF RoutesAt
  <2> QED
    BY <1>1, <2>2, RouteKeeps
<1>3. CASE frame' = frame
  BY <1>1, <1>3, CallsUnchanged
<1> QED
  BY <1>2, <1>3 DEF PickupRoute

LEMMA PickupRouteByConditionKeeps ==
  ASSUME CallsIInv, NEW p \in Paths, PickupRouteByCondition(p)
  PROVE  CallsIInv'
<1> DEFINE matching == {i \in DOMAIN Steps(p) : Exists(frame[p].input, Steps(p)[i])}
<1>1. Routes(p, "running", "Switch") /\ graph' = graph /\ parts' = parts
  BY DEF PickupRouteByCondition
<1>2. CASE matching = {}
  <2>1. Return(p, Result(Nil, 404, TRUE))
    BY <1>2 DEF PickupRouteByCondition
  <2>2. MayReturn(p, Result(Nil, 404, TRUE))
    BY Answers
  <2>3. ~IsA(p, "Ensemble") /\ frame[p].pc = "running"
    BY <1>1 DEF Routes, IsA
  <2> QED
    BY <1>1, <2>1, <2>2, <2>3, ReturnKeeps
<1>3. CASE matching # {}
  <2>1. PICK i \in matching : Enter(p, i, frame[p].input)
    BY <1>3 DEF PickupRouteByCondition
  <2>2. i \in DOMAIN Steps(p)
    OBVIOUS
  <2> QED
    BY <1>1, <2>1, <2>2, RouteKeeps
<1> QED
  BY <1>2, <1>3

LEMMA RouteReturnsKeeps ==
  ASSUME CallsIInv, NEW p \in Paths, RouteReturns(p)
  PROVE  CallsIInv'
<1>1. graph \in Graphs /\ FramesTyped /\ OfCall(p)
  BY CallsAreCalls
<1>2. /\ IsNode(p) /\ ~IsA(p, "Ensemble") /\ frame[p].pc = "waiting"
      /\ graph' = graph /\ parts' = parts
  BY DEF RouteReturns, Routes, IsA
<1>3. frame[p].i \in DOMAIN Steps(p)
  BY <1>1, <1>2 DEF OfCall, CallRight, WaitsForStep
<1>4. \E r : MayReturn(p, r) /\ Return(p, r)
  <2>1. MayReturn(p, Failed) /\ MayReturn(p, frame[Child(p, frame[p].i)].out)
    BY <1>2, <1>3, Answers, AnswerOfStep
  <2> QED
    BY <2>1 DEF RouteReturns
<1> QED
  BY <1>2, <1>4, ReturnKeeps

\* What a sequence would answer so far.
LEMMA ResponseRight ==
  ASSUME CallsIInv, NEW p \in Paths, Routes(p, "running", "Sequence")
  PROVE  /\ MayReturn(p, Response(p)) /\ MayReturn(p, Result(Response(p).body, 500, FALSE))
         /\ Response(p).body \in Bodies
         /\ frame[p].i = 1 => Response(p).body.form = "bad"
         /\ frame[p].i # 1 => /\ Response(p) = frame[Child(p, frame[p].i - 1)].out
                             /\ EndedWell(p, frame[p].i - 1)
<1>1. graph \in Graphs /\ FramesTyped /\ OfCall(p)
  BY CallsAreCalls
<1>2. IsNode(p) /\ IsA(p, "Sequence") /\ frame[p].pc = "running"
  BY DEF Routes, IsA
<1>3. SequenceRight(p)
  BY <1>1, <1>2 DEF OfCall, CallRight
<1>4. DOMAIN Steps(p) = 1..Len(Steps(p)) /\ Len(Steps(p)) \in Nat
  BY <1>1, <1>2, StepsAreCalls
<1>5. frame[p].i \in 1..(Len(Steps(p)) + 1)
  BY <1>2, <1>3 DEF SequenceRight
<1>6. CASE frame[p].i = 1
  <2>1. Response(p) = NoResult
    BY <1>6 DEF Response
  <2>2. MayReturn(p, NoResult) /\ MayReturn(p, Result(NoResult.body, 500, FALSE))
    BY Answers DEF MayReturn, NoResult, Result, Results, Nil, Body, Bodies, Forms
  <2>3. NoResult.body \in Bodies /\ NoResult.body.form = "bad"
    BY DEF NoResult, Result, Nil, Body, Bodies, Forms
  <2> QED
    BY <1>6, <2>1, <2>2, <2>3
<1>7. CASE frame[p].i # 1
  <2>1. PICK j \in DOMAIN Steps(p) : j = frame[p].i - 1 /\ j < frame[p].i
    <3>1. PICK n \in 1..(Len(Steps(p)) + 1) : n = frame[p].i
      BY <1>5
    <3>2. n - 1 \in 1..Len(Steps(p)) /\ n - 1 < n
      BY <1>4, <1>7, <3>1
    <3> QED
      BY <1>4, <3>1, <3>2
  <2>2. Response(p) = frame[Child(p, j)].out
    BY <1>7, <2>1 DEF Response
  <2>3. MayReturn(p, frame[Child(p, j)].out) /\ MayReturn(p, Result(frame[Child(p, j)].out.body, 500, FALSE))
    BY <1>2, AnswerOfStep
  <2>4. frame[Child(p, j)].out.body \in Bodies
    BY <2>3 DEF MayReturn, Results
  <2>5. EndedWell(p, j)
    BY <1>2, <1>3, <2>1 DEF SequenceRight
  <2> QED
    BY <1>7, <2>1, <2>2, <2>3, <2>4, <2>5
<1> QED
  BY <1>6, <1>7
LEMMA NextStepKeeps ==
  ASSUME CallsIInv, NEW p \in Paths, NextStep(p)
  PROVE  CallsIInv'
<1>1. graph \in Graphs /\ FramesTyped /\ OfCall(p)
  BY CallsAreCalls
<1>2. Routes(p, "running", "Sequence") /\ graph' = graph /\ parts' = parts
  BY DEF NextStep
<1>3. IsNode(p) /\ IsA(p, "Sequence") /\ ~IsA(p, "Ensemble") /\ frame[p].pc = "running"
  BY <1>2 DEF Routes, IsA
<1>4. SequenceRight(p)
  BY <1>1, <1>3 DEF OfCall, CallRight
<1>5. \/ \E r : MayReturn(p, r) /\ Return(p, r)
      \/ \E i \in DOMAIN Steps(p) : \E response :
           /\ i = frame[p].i /\ response = Response(p)
           /\ Steps(p)[i].condition => response.body.form \notin {"bad", "list", "o"}
           /\ Enter(p, i, IF Steps(p)[i].useResponse /\ i > 1 THEN response.body ELSE frame[p].input)
  <2> DEFINE i == frame[p].i
             response == Response(p)
             step == Steps(p)[i]
  <2>1. CASE i \notin DOMAIN Steps(p)
    BY <1>2, <2>1, ResponseRight DEF NextStep
  <2>2. CASE i \in DOMAIN Steps(p) /\ step.condition /\ response.body.form = "bad"
    BY <2>2, Answers DEF NextStep
  <2>3. CASE i \in DOMAIN Steps(p) /\ step.condition /\ response.body.form \in {"list", "o"}
    <3>1. Return(p, Result(response.body, 500, FALSE))
      BY <2>3 DEF NextStep
    <3>2. MayReturn(p, Result(response.body, 500, FALSE))
      BY <1>2, ResponseRight
    <3> QED
      BY <3>1, <3>2
  <2>4. CASE /\ i \in DOMAIN Steps(p)
             /\ ~(step.condition /\ response.body.form = "bad")
             /\ ~(step.condition /\ response.body.form \in {"list", "o"})
    <3>1. Enter(p, i, IF step.useResponse /\ i > 1 THEN response.body ELSE frame[p].input)
      BY <2>4 DEF NextStep
    <3> QED
      BY <2>4, <3>1
  <2> QED
    BY <2>1, <2>2, <2>3, <2>4
<1>6. CASE \E r : MayReturn(p, r) /\ Return(p, r)
  BY <1>2, <1>3, <1>6, ReturnKeeps
<1>7. ASSUME NEW i \in DOMAIN Steps(p), NEW response, i = frame[p].i, response = Response(p),
             Steps(p)[i].condition => response.body.form \notin {"bad", "list", "o"},
             Enter(p, i, IF Steps(p)[i].useResponse /\ i > 1 THEN response.body ELSE frame[p].input)
      PROVE  CallsIInv'
  <2>1. /\ response.body \in Bodies /\ (i = 1 => response.body.form = "bad")
        /\ i # 1 => response = frame[Child(p, i - 1)].out /\ EndedWell(p, i - 1)
    BY <1>2, <1>7, ResponseRight
  <2>2. frame[p].input \in Bodies
    BY <1>1 DEF FramesTyped, Frames
  <2>3. PICK input \in Bodies :
          input = IF Steps(p)[i].useResponse /\ i > 1 THEN response.body ELSE frame[p].input
    BY <2>1, <2>2
  <2>4. i \in Nat \ {0} /\ i >= i
    BY <1>1, <1>3, StepsAreCalls DEF Index
  <2>5. frame[Child(p, i)].pc = "idle"
    BY <1>3, <1>4, <1>7, <2>4 DEF SequenceRight, IdleFrom
  <2>6. Steps(p)[i].condition => i > 1 /\ frame[Child(p, i - 1)].out.body.form = "x"
    <3>1. response.body.form \in {"bad", "list", "o", "x"}
      BY <2>1 DEF Bodies, Forms
    <3> QED
      BY <1>7, <2>1, <2>4, <3>1
  <2>7. i > 1 => i # 1
    BY <2>4
  <2>8. input = IF Steps(p)[i].useResponse /\ i > 1
                THEN frame[Child(p, i - 1)].out.body ELSE frame[p].input
    BY <2>1, <2>3, <2>7
  <2>9. i > 1 => EndedWell(p, i - 1)
    BY <2>1, <2>7
  <2>10. Enter(p, i, input)
    BY <1>7, <2>3
  <2> QED
    BY <1>2, <1>3, <1>7, <2>5, <2>6, <2>8, <2>9, <2>10, EnterKeeps
<1> QED
  BY <1>5, <1>6, <1>7

LEMMA StepReturnsKeeps ==
  ASSUME CallsIInv, NEW p \in Paths, StepReturns(p)
  PROVE  CallsIInv'
<1> DEFINE i == frame[p].i
           out == frame[Child(p, i)].out
<1>1. graph \in Graphs /\ FramesTyped /\ OfCall(p)
  BY CallsAreCalls
<1>2. /\ IsNode(p) /\ IsA(p, "Sequence") /\ ~IsA(p, "Ensemble") /\ frame[p].pc = "waiting"
      /\ frame[Child(p, i)].pc = "done" /\ graph' = graph /\ parts' = parts
  BY DEF StepReturns, Routes, IsA
<1>3. i \in DOMAIN Steps(p) /\ SequenceRight(p)
  BY <1>1, <1>2 DEF OfCall, CallRight, WaitsForStep
<1>4. /\ DOMAIN Steps(p) = 1..Len(Steps(p)) /\ Len(Steps(p)) \in Nat
      /\ \A k \in DOMAIN Steps(p) : k \in Index /\ Child(p, k) \in Paths /\ Child(p, k) # p
  BY <1>1, <1>2, StepsAreCalls, ChildPath
<1>5. CASE out.err
  <2>1. Return(p, Failed) /\ MayReturn(p, Failed)
    BY <1>5, Answers DEF StepReturns
  <2> QED
    BY <1>2, <2>1, ReturnKeeps
<1>6. CASE ~out.err /\ Hard(p, i) /\ ~isSuccessful(out.status)
  <2>1. Return(p, out)
    BY <1>6 DEF StepReturns
  <2>2. MayReturn(p, out)
    BY <1>2, <1>3, AnswerOfStep
  <2> QED
    BY <1>2, <2>1, <2>2, ReturnKeeps
<1>7. CASE ~out.err /\ ~(Hard(p, i) /\ ~isSuccessful(out.status))
  <2>1. PICK j \in DOMAIN Steps(p) : j = i
    BY <1>3
  <2>2. frame' = [frame EXCEPT ![p].pc = "running", ![p].i = j + 1]
    BY <1>7, <2>1 DEF StepReturns
  <2>3. EndedWell(p, j)
    BY <1>2, <1>7, <2>1 DEF EndedWell
  <2>4. SequenceRight(p) /\ frame[p].i = j /\ j \in Nat
    BY <1>3, <1>4, <2>1 DEF Index
  <2> HIDE DEF i, out
  <2>5. /\ frame' \in [Paths -> Frames]
        /\ frame'[p].pc = "running" /\ frame'[p].i = j + 1
        /\ frame'[p].out = frame[p].out /\ frame'[p].input = frame[p].input
        /\ \A q \in Paths : q # p => frame'[q] = frame[q]
    <3>1. frame[p] \in Frames /\ j + 1 \in Nat
      BY <1>1, <2>4 DEF FramesTyped
    <3>2. PICK a \in Frames : a = [frame[p] EXCEPT !.pc = "running", !.i = j + 1]
      BY <3>1 DEF Frames
    <3>3. frame' = [q \in Paths |-> IF q = p THEN a ELSE frame[q]]
      BY <1>1, <2>2, <3>2 DEF FramesTyped
    <3>4. a.pc = "running" /\ a.i = j + 1 /\ a.out = frame[p].out /\ a.input = frame[p].input
      BY <3>1, <3>2 DEF Frames
    <3> QED
      BY <1>1, <3>3, <3>4 DEF FramesTyped
  <2>6. CallStep(p)
    BY <1>1, <1>2, <2>5 DEF CallStep, Moves, FramesTyped
  <2>7. /\ Steps(p)' = Steps(p) /\ IsNode(p)' = IsNode(p) /\ IsCall(p)' = IsCall(p)
        /\ \A type : IsA(p, type)' = IsA(p, type)
    BY <1>2, TreeStays
  <2>8. \A k \in DOMAIN Steps(p) : frame'[Child(p, k)] = frame[Child(p, k)] /\ Moves(Child(p, k))
    BY <1>4, <2>5 DEF Moves
  <2>9. \A k \in DOMAIN Steps(p) : EndedWell(p, k) => EndedWell(p, k)'
    BY <1>1, <1>2, <2>8, StepsKeep
  <2>10. SequenceRight(p)'
    <3>1. j + 1 \in 1..(Len(Steps(p)) + 1) /\ j \in 1..Len(Steps(p))
      BY <1>4
    <3>2. \A k \in DOMAIN Steps(p) : (k < j + 1 => k < j \/ k = j) /\ (k >= j + 1 => k >= j + 1)
      BY <1>4, <3>1
    <3>3. \A k \in DOMAIN Steps(p) : k < j => EndedWell(p, k)
      BY <1>2, <2>4 DEF SequenceRight
    <3>4. \A k \in DOMAIN Steps(p) : k < j + 1 => EndedWell(p, k)'
      BY <2>3, <2>9, <3>2, <3>3
    <3>5. \A k \in DOMAIN Steps(p) : k >= j + 1 => frame[Child(p, k)].pc = "idle"
      BY <1>2, <2>4 DEF SequenceRight, IdleFrom
    <3> QED
      BY <2>5, <2>7, <2>8, <3>1, <3>4, <3>5 DEF SequenceRight, IdleFrom, Child
  <2>11. UnbegunRight(p)'
    <3>1. parts'[p] = {}
      BY <1>1, <1>2 DEF OfCall, CallRight, UnbegunRight
    <3> QED
      BY <1>2, <2>5, <2>7, <3>1 DEF UnbegunRight
  <2>12. CallRight(p)'
    BY <1>2, <2>5, <2>7, <2>10, <2>11 DEF CallRight, WaitsForStep
  <2>13. InOrder(p)'
    BY <1>1, <1>2, <2>5, <2>8, OrderKeeps DEF OfCall
  <2>14. MadeBelow(p)'
    BY <1>1, <2>5 DEF MadeBelow, OfCall
  <2>15. OfCall(p)'
    BY <1>1, <1>2, <2>7, <2>12, <2>13, <2>14 DEF OfCall
  <2> QED
    BY <2>6, <2>15, CallKeeps
<1> QED
  BY <1>5, <1>6, <1>7
-----------------------------------------------------------------------------
(* The request as a whole.                                                  *)

LEMMA CallKeepsCalls ==
  ASSUME CallsIInv, NEW p \in Paths, Call(p)
  PROVE  CallsIInv'
BY CallServiceKeeps, PickupRouteKeeps, PickupRouteByConditionKeeps, RouteReturnsKeeps,
   StartStepsKeeps, ReceiveResultKeeps, ReceiveErrorKeeps, CombineKeeps, NextStepKeeps,
   StepReturnsKeeps
DEF Call

\* The request comes in: the root is begun.
LEMMA ReceiveKeepsCalls ==
  ASSUME CallsIInv, Receive
  PROVE  CallsIInv'
<1>1. graph \in Graphs /\ FramesTyped /\ \A q \in Paths : OfCall(q)
  BY CallsAreCalls
<1>2. PICK form \in Forms : frame' = [frame EXCEPT ![<<>>] = Started(Body(form, <<0>>))]
  BY DEF Receive
<1>3. graph' = graph /\ parts' = parts /\ frame[<<>>].pc = "idle"
  BY DEF Receive
<1>4. PICK root \in Paths : root = <<>>
  BY RouterAssumption
<1>5. PICK input \in Bodies : input = Body(form, <<0>>)
  BY DEF Bodies, Body
<1>6. Started(input) \in Frames
  BY <1>4, Answers DEF Started, MayReturn, Frames
<1>7. /\ frame' \in [Paths -> Frames] /\ frame'[root] = Started(input)
      /\ \A q \in Paths : q # root => frame'[q] = frame[q]
  BY <1>1, <1>2, <1>4, <1>5, <1>6 DEF FramesTyped
<1>8. ASSUME NEW q \in Paths, IsNode(q), NEW i \in DOMAIN Steps(q) PROVE Moves(Child(q, i))
  <2>1. Child(q, i) \in Paths /\ Child(q, i) # root
    BY <1>1, <1>4, <1>8, StepsAreCalls, ChildPath
  <2> QED
    BY <1>7, <2>1 DEF Moves
<1>9. ASSUME NEW q \in Paths PROVE OfCall(q)'
  <2>1. CASE q = root
    <3>1. IsCall(q) /\ Begins(q)
      BY <1>3, <1>4, <1>7, <2>1 DEF IsCall, Begins
    <3> QED
      BY <1>1, <1>3, <1>8, <3>1, BegunKeeps
  <2>2. CASE q # root
    BY <1>1, <1>3, <1>7, <1>8, <2>2, UnmovedKeeps
  <2> QED
    BY <2>1, <2>2
<1>10. graph' \in Graphs /\ FramesTyped'
  BY <1>1, <1>3, <1>7 DEF FramesTyped
<1> QED
  BY <1>9, <1>10 DEF CallsIInv, OfCall, SequenceInOrder, InOrder

LEMMA InitCalls ==
  ASSUME Init
  PROVE  CallsIInv
<1>1. graph \in Graphs
  BY DEF Init
<1>2. PICK f : f = [pc |-> "idle", i |-> 0, input |-> Nil, out |-> NoResult]
  OBVIOUS
<1>3. f \in Frames /\ f.pc = "idle" /\ f.i = 0 /\ f.out.body.from = <<0>>
  BY <1>2 DEF Frames, NoResult, Result, Results, Nil, Body, Bodies, Forms
<1>4. frame = [p \in Paths |-> f] /\ parts = [p \in Paths |-> {}]
  BY <1>2 DEF Init
<1>5. FramesTyped
  BY <1>3, <1>4 DEF FramesTyped
<1>6. ASSUME NEW p \in Paths PROVE OfCall(p)
  <2>1. frame[p].pc = "idle" /\ frame[p].out.body.from = <<0>> /\ parts[p] = {}
    BY <1>3, <1>4
  <2>2. parts[p] = 1..Cardinality(parts[p])
    <3>1. Cardinality({}) = 0
      BY FS_EmptySet
    <3> QED
      BY <2>1, <3>1
  <2>3. ASSUME IsNode(p), NEW i \in DOMAIN Steps(p) PROVE frame[Child(p, i)].pc = "idle"
    BY <1>1, <1>3, <1>4, <2>3, StepsAreCalls
  <2>4. CallRight(p)
    BY <2>1, <2>3
    DEF CallRight, UnbegunRight, IdleFrom, WaitsForStep, SequenceRight, EnsembleRight, AnswerRight
  <2>5. InOrder(p)
    BY <2>3 DEF InOrder, IsA
  <2> QED
    BY <2>1, <2>2, <2>4, <2>5 DEF OfCall, MadeBelow
<1> QED
  BY <1>1, <1>5, <1>6, CallsAreCalls

Servers == {"up", "draining", "closing", "exited", "crashed"}

\* What is known of the calls has the type of their state with it.
LEMMA TypeOfCalls ==
  CallsIInv /\ server \in Servers /\ aborted \in BOOLEAN => RouterTypeOK
<1> SUFFICES ASSUME CallsIInv, server \in Servers, aborted \in BOOLEAN PROVE RouterTypeOK
  OBVIOUS
<1>1. ASSUME NEW p \in Paths
      PROVE  /\ frame[p].pc \in {"idle", "running", "waiting", "done", "taken"}
             /\ frame[p].out.status \in {0, 404, 500} \cup Statuses
  BY DEF CallsIInv, FramesTyped, Frames, Results
<1> QED
  BY <1>1 DEF RouterTypeOK, CallsIInv, Servers

LEMMA InitRouter == Init => RouterIInv
<1> SUFFICES ASSUME Init PROVE RouterIInv
  OBVIOUS
<1>1. CallsIInv
  BY InitCalls
<1>2. server = "up" /\ aborted = FALSE
  BY DEF Init
<1> QED
  BY <1>1, <1>2, TypeOfCalls DEF RouterIInv, ExitsAfterAnswer, Servers

LEMMA NextRouter == RouterIInv /\ [Next]_vars => RouterIInv'
<1> SUFFICES ASSUME RouterIInv, [Next]_vars PROVE RouterIInv'
  OBVIOUS
<1>1. CallsIInv /\ server \in Servers /\ aborted \in BOOLEAN /\ ExitsAfterAnswer
  BY DEF RouterIInv, RouterTypeOK, Servers
<1>2. CallsIInv'
  <2>1. CASE Receive
    BY <1>1, <2>1, ReceiveKeepsCalls
  <2>2. CASE \E p \in Paths : Call(p)
    BY <1>1, <2>2, CallKeepsCalls
  <2>3. CASE HandleSignal \/ Shutdown \/ Poll \/ Exit \/ Ended \/ UNCHANGED vars
    BY <1>1, <2>3, CallsUnchanged DEF HandleSignal, Shutdown, Poll, Exit, Ended, vars
  <2> QED
    BY <2>1, <2>2, <2>3 DEF Next
<1>3. server' \in Servers /\ aborted' \in BOOLEAN /\ ExitsAfterAnswer'
  <2>1. CASE Receive
    BY <1>1, <2>1 DEF Receive, ExitsAfterAnswer
  <2>2. ASSUME NEW p \in Paths, Call(p)
        PROVE  server' \in Servers /\ aborted' \in BOOLEAN /\ ExitsAfterAnswer'
    <3>1. server # "exited"
      BY <2>2 DEF Call, Alive
    <3>2. server' \in {server, "crashed"} /\ aborted' \in {aborted, TRUE}
      BY <2>2
      DEF Call, CallService, InvalidRouteType, PickupRoute, PickupRouteByCondition, RouteReturns,
          StartSteps, ReceiveResult, ReceiveError, Combine, NextStep, StepReturns
    <3> QED
      BY <1>1, <3>1, <3>2 DEF ExitsAfterAnswer, Servers
  <2>3. CASE HandleSignal \/ Shutdown
    BY <1>1, <2>3 DEF HandleSignal, Shutdown, ExitsAfterAnswer, Servers
  <2>4. CASE Exit
    BY <1>1, <2>4 DEF Exit, ExitsAfterAnswer, Active, Servers
  <2>5. CASE Poll \/ Ended \/ UNCHANGED vars
    BY <1>1, <2>5 DEF Poll, Ended, vars, ExitsAfterAnswer, Active
  <2> QED
    BY <2>1, <2>2, <2>3, <2>4, <2>5 DEF Next
<1>4. RouterTypeOK'
  <2>1. (CallsIInv /\ server \in Servers /\ aborted \in BOOLEAN)'
    BY <1>2, <1>3 DEF Servers
  <2> QED
    BY <2>1, TypeOfCalls, PTL
<1> QED
  BY <1>2, <1>3, <1>4 DEF RouterIInv

\* For any graphs, those with unknown nodes included, and whatever the services
\* answer: only calls of the graph are made, the steps of a sequence begin in order,
\* each behind an answer that allows it, and the router does not exit while it works
\* on the request.
THEOREM RequestsGoByTheGraph == Spec => []RouterInv
<1>1. RouterIInv => RouterInv
  BY DEF RouterIInv, RouterInv, CallsIInv
<1> QED
  BY <1>1, InitRouter, NextRouter, PTL DEF Spec

LEMMA AnswersAreRight == CallsIInv => EnsembleIsJustified
<1> SUFFICES ASSUME CallsIInv, NEW p \in Paths, Done(p, "Ensemble")
             PROVE  /\ LET out == frame[p].out
                           of(i) == frame[Child(p, i)].out
                           failing(i) == Hard(p, i) /\ ~isSuccessful(of(i).status)
                       IN
                       CASE out.err -> \E i \in DOMAIN Steps(p) :
                                         of(i).err \/ of(i).body.form \in {"bad", "list"}
                         [] ~out.err /\ out.status # 200 ->
                              \E i \in DOMAIN Steps(p) :
                                /\ failing(i) /\ out = of(i)
                                /\ \A j \in 1..(i - 1) : frame[Child(p, j)].pc = "taken" /\ ~failing(j)
                         [] OTHER -> \A i \in DOMAIN Steps(p) : ~of(i).err /\ ~failing(i)
                    /\ ~frame[p].out.err /\ frame[p].out.body.from = p =>
                         /\ parts[p] = DOMAIN Steps(p)
                         /\ \A i \in DOMAIN Steps(p) : frame[Child(p, i)].pc = "taken"
  BY DEF EnsembleIsJustified, ResultHasCause, CombinedIsComplete
<1>1. AnswerRight(p) /\ frame[p].pc \in {"done", "taken"}
  BY DEF CallsIInv, CallRight, Done, IsA
<1>2. frame[p].out.err \in BOOLEAN
  BY DEF CallsIInv, FramesTyped, Frames, Results
<1>3. CASE frame[p].out.err
  BY <1>1, <1>3 DEF AnswerRight
<1>4. CASE ~frame[p].out.err /\ frame[p].out.status # 200
  BY <1>1, <1>4 DEF AnswerRight, Received, isSuccessful
<1>5. CASE ~frame[p].out.err /\ frame[p].out.status = 200
  BY <1>1, <1>5 DEF AnswerRight, Received
<1> QED
  BY <1>2, <1>3, <1>4, <1>5

\* In the same circumstances, and in whatever order the answers and errors of the
\* steps arrive: what an ensemble answers has its cause in what its steps answered,
\* and one that is put together has the answers of all and leaves no goroutine.
THEOREM EnsemblesAreJustified == Spec => []EnsembleIsJustified
<1>1. RouterIInv => EnsembleIsJustified
  BY AnswersAreRight DEF RouterIInv
<1> QED
  BY <1>1, InitRouter, NextRouter, PTL DEF Spec
=============================================================================
