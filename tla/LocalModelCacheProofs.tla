------------------------ MODULE LocalModelCacheProofs ------------------------
(***************************************************************************)
(* Theorems about the LocalModelCache controller, for any models and nodes *)
(* and any number of events and failures: a deleted cache leaves nothing   *)
(* behind on a node that was in the cluster all the time.                  *)
(***************************************************************************)
EXTENDS LocalModelCache, TLAPS

LEMMA InitLocalModelIInv == Init => LocalModelIInv
<1> SUFFICES ASSUME Init PROVE LocalModelIInv
  OBVIOUS
<1>1. LocalModelTypeOK
  BY LocalModelAssumption DEF Init, LocalModelTypeOK
<1>2. ListedIsHeld /\ VisitedAreClean
  BY DEF Init, ListedIsHeld, VisitedAreClean
<1> QED
  BY <1>1, <1>2 DEF LocalModelIInv

\* The users, the nodes, their agents and the events: none of them touches a
\* list of models or a finalizer.
LEMMA EnvironmentIInv ==
  ASSUME LocalModelIInv, Environment
  PROVE  LocalModelIInv'
<1> USE LocalModelAssumption DEF LocalModelIInv
<1> DEFINE Keeps ==
  /\ UNCHANGED <<finalizer, listed>>
  /\ absent \subseteq absent'
  /\ \/ UNCHANGED <<current, deleting, todo>>
     \/ Idle
<1>1. ASSUME NEW m \in Models, UserCreates(m) \/ UserDeletes(m)
      PROVE  Keeps /\ LocalModelTypeOK'
  BY <1>1 DEF UserCreates, UserDeletes, LocalModelTypeOK, nodeVars, lmnVars, loopVars
<1>2. ASSUME NEW n \in Nodes, NodeJoins(n) \/ NodeChanges(n) \/ NodeLeaves(n)
      PROVE  Keeps /\ LocalModelTypeOK'
  BY <1>2 DEF NodeJoins, NodeChanges, NodeLeaves, NodeEvent, Existing,
              LocalModelTypeOK, crVars, lmnVars, loopVars
<1>3. ASSUME NEW n \in Nodes, NEW m \in Models, AgentLoses(n, m)
      PROVE  Keeps /\ LocalModelTypeOK'
  BY <1>3 DEF AgentLoses, NodeEvent, LocalModelTypeOK, crVars, nodeVars, loopVars
<1>4. ASSUME NEW n \in Nodes, AgentReports(n)
      PROVE  Keeps /\ LocalModelTypeOK'
  BY <1>4 DEF AgentReports, LocalModelTypeOK, crVars, nodeVars, loopVars, opVars
<1>5. ASSUME NEW n \in Nodes, StatusEvent(n)
      PROVE  Keeps /\ LocalModelTypeOK'
  BY <1>5 DEF StatusEvent, ModelsOf, LocalModelTypeOK, crVars, nodeVars, lmnVars,
              loopVars, opVars
<1>6. ASSUME NEW m \in Models, OtherEvent(m)
      PROVE  Keeps /\ LocalModelTypeOK'
  BY <1>6 DEF OtherEvent, LocalModelTypeOK, crVars, nodeVars, lmnVars, loopVars, opVars
<1>7. ASSUME Restart \/ UpdateFails \/ DeleteFails
      PROVE  Keeps /\ LocalModelTypeOK'
  <2>1. CASE Restart
    BY <2>1 DEF Restart, Idle, Existing, LocalModelTypeOK, crVars, nodeVars, lmnVars
  <2>2. CASE UpdateFails
    BY <2>2 DEF UpdateFails, Idle, LocalModelTypeOK, crVars, nodeVars, lmnVars
  <2>3. CASE DeleteFails
    <3>1. current \in Models
      BY <2>3 DEF DeleteFails, LocalModelTypeOK
    <3>2. Keeps
      BY <2>3 DEF DeleteFails, Idle, crVars, nodeVars, lmnVars
    <3>3. queue' \subseteq Models /\ faults' \in 0..MaxFaults
      BY <2>3, <3>1 DEF DeleteFails, LocalModelTypeOK
    <3>4. LocalModelTypeOK'
      BY <2>3, <3>3 DEF DeleteFails, Idle, LocalModelTypeOK, crVars, nodeVars, lmnVars
    <3> QED
      BY <3>2, <3>4
  <2> QED
    BY <1>7, <2>1, <2>2, <2>3
<1>8. Keeps /\ LocalModelTypeOK'
  BY <1>1, <1>2, <1>3, <1>4, <1>5, <1>6, <1>7 DEF Environment
<1>9. ListedIsHeld'
  BY <1>8 DEF ListedIsHeld
<1>10. VisitedAreClean'
  BY <1>8 DEF VisitedAreClean, Idle
<1> QED
  BY <1>8, <1>9, <1>10

\* The steps of the reconciler.
LEMMA ReconcileIInv ==
  ASSUME LocalModelIInv, Reconcile
  PROVE  LocalModelIInv'
<1> USE LocalModelAssumption DEF LocalModelIInv
<1>1. ASSUME NEW m \in Models, SkipReconcile(m)
      PROVE  LocalModelIInv'
  <2>1. LocalModelTypeOK'
    BY <1>1 DEF SkipReconcile, LocalModelTypeOK, crVars, nodeVars, lmnVars, loopVars, opVars
  <2>2. ListedIsHeld' /\ VisitedAreClean'
    BY <1>1 DEF SkipReconcile, ListedIsHeld, VisitedAreClean, crVars, nodeVars, lmnVars,
                loopVars
  <2> QED
    BY <2>1, <2>2
<1>2. ASSUME NEW m \in Models, BeginReconcile(m)
      PROVE  LocalModelIInv'
  <2>1. LocalModelTypeOK'
    BY <1>2 DEF BeginReconcile, NodesToVisit, LocalModelTypeOK, nodeVars, lmnVars, opVars
  <2>2. ListedIsHeld'
    BY <1>2 DEF BeginReconcile, ListedIsHeld, nodeVars, lmnVars
  <2>3. VisitedAreClean'
    \* a deletion starts with every node that was never absent still to visit
    <3>1. deleting' => todo' = joined
      BY <1>2 DEF BeginReconcile, NodesToVisit
    <3>2. joined \cup absent = Nodes /\ UNCHANGED absent
      BY <1>2 DEF BeginReconcile, LocalModelTypeOK, nodeVars
    <3> QED
      BY <3>1, <3>2 DEF VisitedAreClean
  <2> QED
    BY <2>1, <2>2, <2>3
<1>3. ASSUME NEW n \in Nodes, AddToNode(n)
      PROVE  LocalModelIInv'
  <2>1. LocalModelTypeOK'
    BY <1>3 DEF AddToNode, LocalModelTypeOK, crVars, nodeVars, opVars
  <2>2. current \in finalizer
    BY <1>3 DEF AddToNode, LocalModelTypeOK
  <2>3. ListedIsHeld'
    BY <1>3, <2>2 DEF AddToNode, ListedIsHeld, LocalModelTypeOK, crVars, nodeVars
  <2>4. VisitedAreClean'
    BY <1>3 DEF AddToNode, VisitedAreClean
  <2> QED
    BY <2>1, <2>3, <2>4
<1>4. ASSUME NEW n \in Nodes, DeleteFromNode(n)
      PROVE  LocalModelIInv'
  <2>1. LocalModelTypeOK'
    BY <1>4 DEF DeleteFromNode, LocalModelTypeOK, crVars, nodeVars, opVars
  <2>2. ListedIsHeld'
    BY <1>4 DEF DeleteFromNode, ListedIsHeld, LocalModelTypeOK, crVars, nodeVars
  <2>3. VisitedAreClean'
    BY <1>4 DEF DeleteFromNode, VisitedAreClean, LocalModelTypeOK, nodeVars
  <2> QED
    BY <2>1, <2>2, <2>3
<1>5. ASSUME FinishUpdate
      PROVE  LocalModelIInv'
  <2>1. LocalModelTypeOK'
    BY <1>5 DEF FinishUpdate, Idle, LocalModelTypeOK, nodeVars, lmnVars, opVars
  <2>2. ListedIsHeld' /\ VisitedAreClean'
    BY <1>5 DEF FinishUpdate, Idle, ListedIsHeld, VisitedAreClean, nodeVars, lmnVars
  <2> QED
    BY <2>1, <2>2
<1>6. ASSUME FinishDelete
      PROVE  LocalModelIInv'
  <2>1. current \in Models
    BY <1>6 DEF FinishDelete, LocalModelTypeOK
  <2>2. LocalModelTypeOK'
    BY <1>6, <2>1 DEF FinishDelete, Idle, LocalModelTypeOK, nodeVars, lmnVars, opVars
  <2>3. \A n \in Nodes \ absent : current \notin listed[n]
    BY <1>6 DEF FinishDelete, VisitedAreClean
  <2>4. ListedIsHeld'
    BY <1>6, <2>3 DEF FinishDelete, ListedIsHeld, nodeVars, lmnVars
  <2>5. VisitedAreClean'
    BY <1>6 DEF FinishDelete, Idle, VisitedAreClean
  <2> QED
    BY <2>2, <2>4, <2>5
<1> QED
  BY <1>1, <1>2, <1>3, <1>4, <1>5, <1>6 DEF Reconcile

LEMMA NextLocalModelIInv == LocalModelIInv /\ [Next]_vars => LocalModelIInv'
<1> SUFFICES ASSUME LocalModelIInv, [Next]_vars PROVE LocalModelIInv'
  OBVIOUS
<1>1. CASE Next
  BY <1>1, EnvironmentIInv, ReconcileIInv DEF Next
<1>2. CASE UNCHANGED vars
  BY <1>2 DEF vars, crVars, nodeVars, lmnVars, loopVars, opVars, LocalModelIInv,
              LocalModelTypeOK, ListedIsHeld, VisitedAreClean
<1> QED
  BY <1>1, <1>2

\* The inductive invariant of the controller.
THEOREM LocalModelInvariant == Spec => []LocalModelIInv
BY InitLocalModelIInv, NextLocalModelIInv, PTL DEF Spec

\* deleteModelFromNodes: once a cache is gone, no node that was in the cluster
\* all the time lists its model, whatever failed, changed or was restarted in
\* between.
THEOREM DeletedLeavesNothing == Spec => []NothingLeftBehind
<1>1. LocalModelIInv => NothingLeftBehind
  BY DEF LocalModelIInv, LocalModelTypeOK, ListedIsHeld, NothingLeftBehind
<1> QED
  BY <1>1, LocalModelInvariant, PTL
=============================================================================
