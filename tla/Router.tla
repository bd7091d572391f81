-------------------------------- MODULE Router --------------------------------
(***************************************************************************)
(* src/cmd/router/main.go: one request through an inference graph, and the *)
(* shutdown of the router. The calls of routeStep and executeStep are a    *)
(* tree: a call is named by its path, the numbers of the steps that lead   *)
(* to it from the root. The steps of an ensemble are goroutines, which     *)
(* hand their result over on unbuffered channels: such a call is "done"    *)
(* when its goroutine is ready to send and "taken" when it was received.   *)
(*                                                                         *)
(* A body is "bad" when it is no JSON, "list" when it is no object, "x"    *)
(* when the conditions of the graph find something in it, and "o" when     *)
(* they find nothing.                                                      *)
(***************************************************************************)
EXTENDS Naturals, Sequences, FiniteSets, SequencesExt

CONSTANTS
  Nodes,     \* the names of nodes
  Graphs,    \* the graphs, from some of the names to [type, steps]
  Root,      \* GraphRootNodeName
  NoNode,    \* the step calls a service
  Paths      \* the paths of the calls in the graphs

Types == {"Splitter", "Switch", "Ensemble", "Sequence"}
Step == [node : Nodes \cup {NoNode}, hard : BOOLEAN, condition : BOOLEAN, useResponse : BOOLEAN,
         weight : Nat]

\* What the call at each path of the graph routes, NoNode if it calls a service.
NodesOf(g) ==
  LET node[p \in Paths] ==
        IF p = <<>> THEN Root
        ELSE LET n == node[Front(p)] IN
             IF n \in DOMAIN g /\ Last(p) \in DOMAIN g[n].steps THEN g[n].steps[Last(p)].node
             ELSE NoNode
  IN  node

\* Nobody checks that a node a step names is in the graph.
ASSUME RouterAssumption ==
  /\ NoNode \notin Nodes
  /\ <<>> \in Paths /\ Paths \subseteq Seq(Nat \ {0})
  /\ \A g \in Graphs :
       /\ Root \in DOMAIN g /\ DOMAIN g \subseteq Nodes
       /\ \A n \in DOMAIN g : g[n].type \in Types /\ g[n].steps \in Seq(Step)
       /\ \A p \in Paths : NodesOf(g)[p] \in DOMAIN g =>
            \A i \in DOMAIN g[NodesOf(g)[p]].steps : Append(p, i) \in Paths

Forms == {"bad", "list", "o", "x"}
Statuses == {200, 400}

VARIABLES
  graph,
  frame,     \* [Paths -> the call]
  parts,     \* [Paths -> the steps whose answers an ensemble has received]
  server,    \* the process
  aborted    \* the handler of the request has panicked

vars == <<graph, frame, parts, server, aborted>>

\* from: the call that has made the body, <<0>> being the client
Body(form, from) == [form |-> form, from |-> from]
Nil == Body("bad", <<0>>)
Result(body, status, err) == [body |-> body, status |-> status, err |-> err]
NoResult == Result(Nil, 0, FALSE)
Failed == Result(Nil, 500, TRUE)

Init ==
  /\ graph \in Graphs
  /\ frame = [p \in Paths |-> [pc |-> "idle", i |-> 0, input |-> Nil, out |-> NoResult]]
  /\ parts = [p \in Paths |-> {}]
  /\ server = "up"
  /\ aborted = FALSE

-----------------------------------------------------------------------------
(* The tree of the calls.                                                  *)

NodeAt == NodesOf(graph)

\* The call is one of routeStep that finds its node.
IsNode(p) == NodeAt[p] \in DOMAIN graph
IsA(p, type) == IsNode(p) /\ graph[NodeAt[p]].type = type
Steps(p) == graph[NodeAt[p]].steps
Child(p, i) == Append(p, i)
Routes(p, pc, type) == frame[p].pc = pc /\ IsA(p, type)

\* The calls that run in a goroutine of an ensemble.
InGoroutine(p) == \E k \in 0..(Len(p) - 1) : IsA(SubSeq(p, 1, k), "Ensemble")

Started(input) == [pc |-> "running", i |-> 1, input |-> input, out |-> NoResult]

Alive == server \notin {"exited", "crashed"}

Return(p, r) == frame' = [frame EXCEPT ![p].pc = "done", ![p].out = r]

\* The call at p goes on to its step i.
Enter(p, i, input) ==
  frame' = [frame EXCEPT ![p].pc = "waiting", ![p].i = i, ![Child(p, i)] = Started(input)]

isSuccessful(status) == status = 200

-----------------------------------------------------------------------------
(* callService: an error, or whatever the service answers.                 *)

CallService(p) ==
  /\ frame[p].pc = "running"
  /\ NodeAt[p] = NoNode
  /\ \/ Return(p, Failed)
     \/ \E form \in Forms, status \in Statuses : Return(p, Result(Body(form, p), status, FALSE))
  /\ UNCHANGED <<graph, parts, server, aborted>>

\* routeStep of a node that is not in the graph: its type is empty.
InvalidRouteType(p) ==
  /\ frame[p].pc = "running"
  /\ NodeAt[p] # NoNode /\ ~IsNode(p)
  /\ Return(p, Failed)
  /\ UNCHANGED <<graph, parts, server, aborted>>

(* Splitter and Switch.                                                    *)

WeightTo(p, i) == FoldLeft(LAMBDA sum, s : sum + s.weight, 0, SubSeq(Steps(p), 1, i))

\* The routes for a point; the random number is one of 0..100.
RoutesAt(p, point) ==
  {i \in DOMAIN Steps(p) : point < WeightTo(p, i) /\ \A j \in 1..(i - 1) : point >= WeightTo(p, j)}

\* Without a route there is a nil dereference. net/http recovers a handler that
\* panics, in a goroutine of an ensemble it ends the process.
PickupRoute(p) ==
  /\ Routes(p, "running", "Splitter")
  /\ \/ /\ \E i \in UNION {RoutesAt(p, point) : point \in 0..100} : Enter(p, i, frame[p].input)
        /\ UNCHANGED <<server, aborted>>
     \/ /\ \E point \in 0..100 : RoutesAt(p, point) = {}
        /\ UNCHANGED frame
        /\ IF InGoroutine(p) THEN server' = "crashed" /\ UNCHANGED aborted
           ELSE ~aborted /\ aborted' = TRUE /\ UNCHANGED server
  /\ UNCHANGED <<graph, parts>>

Exists(body, step) == step.condition /\ body.form = "x"

PickupRouteByCondition(p) ==
  LET matching == {i \in DOMAIN Steps(p) : Exists(frame[p].input, Steps(p)[i])} IN
  /\ Routes(p, "running", "Switch")
  /\ IF matching = {}
     THEN Return(p, Result(Nil, 404, TRUE))
     ELSE \E i \in matching : (\A j \in matching : i <= j) /\ Enter(p, i, frame[p].input)
  /\ UNCHANGED <<graph, parts, server, aborted>>

RouteReturns(p) ==
  LET step == frame[Child(p, frame[p].i)] IN
  /\ Routes(p, "waiting", "Splitter") \/ Routes(p, "waiting", "Switch")
  /\ step.pc = "done"
  /\ Return(p, IF step.out.err THEN Failed ELSE step.out)
  /\ UNCHANGED <<graph, parts, server, aborted>>

-----------------------------------------------------------------------------
(* Ensemble.                                                               *)

StartSteps(p) ==
  /\ Routes(p, "running", "Ensemble")
  /\ frame' = [q \in Paths |->
       IF q = p THEN [frame[p] EXCEPT !.pc = "waiting"]
       ELSE IF q # <<>> /\ Front(q) = p /\ Last(q) \in DOMAIN Steps(p)
       THEN Started(frame[p].input) ELSE frame[q]]
  /\ UNCHANGED <<graph, parts, server, aborted>>

\* Variant: nothing is sent when the answer is no object.
SendsErrorOfCall(q) == frame[q].pc = "done" /\ frame[q].out.err

\* A goroutine sends its result when it could be read as an object, and an error
\* else.
SendsResult(q) == frame[q].pc = "done" /\ ~frame[q].out.err /\ frame[q].out.body.form \in {"o", "x"}
SendsError(q) == frame[q].pc = "done" /\ (frame[q].out.err \/ frame[q].out.body.form \in {"bad", "list"})

Hard(p, i) == Steps(p)[i].hard

\* Take the result of q, and return r from p.
TakeAndReturn(p, q, r) ==
  frame' = [frame EXCEPT ![q].pc = "taken", ![p].pc = "done", ![p].out = r]

\* Variant: the dependency is not looked at.
ReceiveResultSoft(p) ==
  LET i == frame[p].i  q == Child(p, i) IN
  /\ Routes(p, "waiting", "Ensemble")
  /\ i \in DOMAIN Steps(p)
  /\ SendsResult(q)
  /\ frame' = [frame EXCEPT ![q].pc = "taken", ![p].i = @ + 1]
  /\ parts' = [parts EXCEPT ![p] = @ \cup {i}]
  /\ UNCHANGED <<graph, server, aborted>>

\* The select of step i, which is not left before its result or an error is there.
ReceiveResult(p) ==
  LET i == frame[p].i  q == Child(p, i)  out == frame[q].out IN
  /\ Routes(p, "waiting", "Ensemble")
  /\ i \in DOMAIN Steps(p)
  /\ SendsResult(q)
  /\ IF ~isSuccessful(out.status) /\ Hard(p, i)
     THEN TakeAndReturn(p, q, out) /\ UNCHANGED parts
     ELSE /\ frame' = [frame EXCEPT ![q].pc = "taken", ![p].i = @ + 1]
          /\ parts' = [parts EXCEPT ![p] = @ \cup {i}]
  /\ UNCHANGED <<graph, server, aborted>>

\* The error of any step ends the ensemble.
ReceiveError(p) ==
  /\ Routes(p, "waiting", "Ensemble")
  /\ frame[p].i \in DOMAIN Steps(p)
  /\ \E j \in DOMAIN Steps(p) : SendsError(Child(p, j)) /\ TakeAndReturn(p, Child(p, j), Failed)
  /\ UNCHANGED <<graph, parts, server, aborted>>

Combine(p) ==
  /\ Routes(p, "waiting", "Ensemble")
  /\ frame[p].i \notin DOMAIN Steps(p)
  /\ Return(p, Result(Body("o", p), 200, FALSE))
  /\ UNCHANGED <<graph, parts, server, aborted>>

-----------------------------------------------------------------------------
(* Sequence. The response is nil before the first step has answered.       *)

Response(p) == IF frame[p].i = 1 THEN NoResult ELSE frame[Child(p, frame[p].i - 1)].out

NextStep(p) ==
  LET i == frame[p].i  response == Response(p) IN
  /\ Routes(p, "running", "Sequence")
  /\ IF i \notin DOMAIN Steps(p) THEN Return(p, response)
     ELSE LET step == Steps(p)[i] IN
          CASE step.condition /\ response.body.form = "bad" -> Return(p, Failed)
            [] step.condition /\ response.body.form \in {"list", "o"} ->
                 Return(p, Result(response.body, 500, FALSE))
            [] OTHER -> Enter(p, i, IF step.useResponse /\ i > 1 THEN response.body ELSE frame[p].input)
  /\ UNCHANGED <<graph, parts, server, aborted>>

\* Variant: the dependency is not looked at.
StepReturnsSoft(p) ==
  LET i == frame[p].i  out == frame[Child(p, i)].out IN
  /\ Routes(p, "waiting", "Sequence")
  /\ frame[Child(p, i)].pc = "done"
  /\ IF out.err THEN Return(p, Failed)
     ELSE frame' = [frame EXCEPT ![p].pc = "running", ![p].i = i + 1]
  /\ UNCHANGED <<graph, parts, server, aborted>>

StepReturns(p) ==
  LET i == frame[p].i  out == frame[Child(p, i)].out IN
  /\ Routes(p, "waiting", "Sequence")
  /\ frame[Child(p, i)].pc = "done"
  /\ CASE out.err -> Return(p, Failed)
       [] ~out.err /\ Hard(p, i) /\ ~isSuccessful(out.status) -> Return(p, out)
       [] OTHER -> frame' = [frame EXCEPT ![p].pc = "running", ![p].i = i + 1]
  /\ UNCHANGED <<graph, parts, server, aborted>>

-----------------------------------------------------------------------------
(* The server.                                                             *)

Active == frame[<<>>].pc \in {"running", "waiting"} /\ ~aborted

Receive ==
  /\ server \in {"up", "draining"}
  /\ frame[<<>>].pc = "idle"
  /\ \E form \in Forms : frame' = [frame EXCEPT ![<<>>] = Started(Body(form, <<0>>))]
  /\ UNCHANGED <<graph, parts, server, aborted>>

\* The readiness probe fails from the signal on, and requests are still taken
\* while the router sleeps.
HandleSignal == server = "up" /\ server' = "draining" /\ UNCHANGED <<graph, frame, parts, aborted>>

Shutdown == server = "draining" /\ server' = "closing" /\ UNCHANGED <<graph, frame, parts, aborted>>

\* Shutdown returns when no request is active.
Exit ==
  /\ server = "closing"
  /\ ~Active
  /\ server' = "exited"
  /\ UNCHANGED <<graph, frame, parts, aborted>>

\* Shutdown looks again after a while.
Poll == server = "closing" /\ Active /\ UNCHANGED vars

Ended == ~Alive /\ UNCHANGED vars

-----------------------------------------------------------------------------
\* An action of a call; nothing of a handler that has panicked goes on.
Call(p) ==
  /\ Alive
  /\ frame[p].pc # "idle"
  /\ aborted => InGoroutine(p)
  /\ \/ CallService(p) \/ InvalidRouteType(p)
     \/ PickupRoute(p) \/ PickupRouteByCondition(p) \/ RouteReturns(p)
     \/ StartSteps(p) \/ ReceiveResult(p) \/ ReceiveError(p) \/ Combine(p)
     \/ NextStep(p) \/ StepReturns(p)

Next ==
  \/ Receive
  \/ \E p \in Paths : Call(p)
  \/ HandleSignal \/ Shutdown \/ Poll \/ Exit
  \/ Ended

Spec == Init /\ [][Next]_vars

\* The goroutines are scheduled, the services answer and the sleep ends.
FairSpec ==
  /\ Spec
  /\ \A p \in Paths : WF_vars(Call(p))
  /\ WF_vars(Shutdown) /\ WF_vars(Exit)

-----------------------------------------------------------------------------
IsCall(p) == p = <<>> \/ (IsNode(Front(p)) /\ Last(p) \in DOMAIN Steps(Front(p)))
Done(p, type) == frame[p].pc \in {"done", "taken"} /\ IsA(p, type)

\* The state is well-formed: only calls of the graph are ever made, and the
\* answers an ensemble has received are those of its first steps.
RouterTypeOK ==
  /\ graph \in Graphs
  /\ server \in {"up", "draining", "closing", "exited", "crashed"}
  /\ aborted \in BOOLEAN
  /\ \A p \in Paths :
       /\ frame[p].pc \in {"idle", "running", "waiting", "done", "taken"}
       /\ frame[p].out.status \in {0, 404, 500} \cup Statuses
       /\ frame[p].pc # "idle" => IsCall(p)
       /\ parts[p] = 1..Cardinality(parts[p])

\* What an ensemble returns has its cause: an error, the error of a step; the
\* status of a step, that this is the first of the hard dependencies to fail; and
\* 200, that no step has failed with an error and no hard dependency at all.
ResultHasCause ==
  \A p \in Paths : Done(p, "Ensemble") =>
    LET out == frame[p].out
        of(i) == frame[Child(p, i)].out
        failing(i) == Hard(p, i) /\ ~isSuccessful(of(i).status)
    IN
    CASE out.err -> \E i \in DOMAIN Steps(p) : of(i).err \/ of(i).body.form \in {"bad", "list"}
      [] ~out.err /\ out.status # 200 ->
           \E i \in DOMAIN Steps(p) :
             /\ failing(i) /\ out = of(i)
             /\ \A j \in 1..(i - 1) : frame[Child(p, j)].pc = "taken" /\ ~failing(j)
      [] OTHER -> \A i \in DOMAIN Steps(p) : ~of(i).err /\ ~failing(i)

\* An ensemble that is combined has the answers of all its steps, and none of
\* their goroutines is left behind.
CombinedIsComplete ==
  \A p \in Paths : Done(p, "Ensemble") /\ ~frame[p].out.err /\ frame[p].out.body.from = p =>
    /\ parts[p] = DOMAIN Steps(p)
    /\ \A i \in DOMAIN Steps(p) : frame[Child(p, i)].pc = "taken"

\* What an ensemble returns follows from what its steps have returned.
EnsembleIsJustified == ResultHasCause /\ CombinedIsComplete

\* The step of a sequence has ended without an error or a failed hard dependency.
EndedWell(p, j) ==
  LET step == frame[Child(p, j)] IN
  /\ step.pc = "done" /\ ~step.out.err
  /\ Hard(p, j) => isSuccessful(step.out.status)

BegunInOrder(p, i) ==
  LET step == Steps(p)[i]
      response == frame[Child(p, i - 1)].out.body
  IN
  /\ i > 1 => EndedWell(p, i - 1)
  /\ step.condition => i > 1 /\ response.form = "x"
  /\ frame[Child(p, i)].input = IF step.useResponse /\ i > 1 THEN response ELSE frame[p].input

\* A step of a sequence begins after the one before it has ended well and, if it has
\* a condition, with an answer that meets it; it is given that answer if it asks for
\* it, else what came in.
SequenceInOrder ==
  \A p \in Paths : IsA(p, "Sequence") =>
    \A i \in DOMAIN Steps(p) : frame[Child(p, i)].pc # "idle" => BegunInOrder(p, i)

\* The router does not exit while it works on a request, unless it crashes.
ExitsAfterAnswer == server = "exited" => ~Active

\* What happens on the way to an answer happens in the order of the graph.
RouterInv == RouterTypeOK /\ SequenceInOrder /\ ExitsAfterAnswer

\* Unless the router crashes, a request is answered or its handler has panicked.
RequestAnswered == frame[<<>>].pc = "running" ~> (~Active \/ server = "crashed")

\* After the signal the process ends, with goroutines of an ensemble that nobody
\* receives from or without.
ShutdownEnds == server = "draining" ~> ~Alive

\* Requests end, and so does the process.
EveryRequestEnds == RequestAnswered /\ ShutdownEnds
-----------------------------------------------------------------------------
(* The inductive invariant: what is known of a call while it is under way. *)

Bodies == [form : Forms, from : Paths \cup {<<0>>}]
Results == [body : Bodies, status : {0, 404, 500} \cup Statuses, err : BOOLEAN]

Frames == [pc : {"idle", "running", "waiting", "done", "taken"}, i : Nat, input : Bodies,
           out : Results]

FramesTyped ==
  /\ frame \in [Paths -> Frames]
  /\ parts \in [Paths -> SUBSET Nat]

\* A body was made by the call that returns it or below it, but for the client's.
MadeBelow(p) == LET from == frame[p].out.body.from IN from = <<0>> \/ Len(from) >= Len(p)

IdleFrom(p, k) == \A i \in DOMAIN Steps(p) : i >= k => frame[Child(p, i)].pc = "idle"

\* A call that has not begun has begun none of its steps; only a sequence stops
\* between them.
UnbegunRight(p) ==
  /\ frame[p].pc = "idle" \/ (frame[p].pc = "running" /\ ~IsA(p, "Sequence")) => IdleFrom(p, 1)
  /\ frame[p].pc \in {"idle", "running"} \/ ~IsA(p, "Ensemble") => parts[p] = {}

\* All but an ensemble wait for one step.
WaitsForStep(p) ==
  frame[p].pc = "waiting" /\ ~IsA(p, "Ensemble") => frame[p].i \in DOMAIN Steps(p)

\* A sequence goes on behind a step that has ended well, one step at a time.
SequenceRight(p) ==
  frame[p].pc \in {"running", "waiting"} =>
    /\ frame[p].i \in 1..(Len(Steps(p)) + 1)
    /\ \A j \in DOMAIN Steps(p) : j < frame[p].i => EndedWell(p, j)
    /\ IdleFrom(p, IF frame[p].pc = "running" THEN frame[p].i ELSE frame[p].i + 1)

\* The ensemble has received the answer of the step, and went on.
Received(p, j) ==
  LET step == frame[Child(p, j)] IN
  /\ step.pc = "taken" /\ ~step.out.err /\ step.out.body.form \in {"o", "x"}
  /\ Hard(p, j) => isSuccessful(step.out.status)

EnsembleRight(p) ==
  /\ frame[p].pc = "running" => frame[p].i = 1
  /\ frame[p].pc = "waiting" =>
       /\ frame[p].i \in 1..(Len(Steps(p)) + 1)
       /\ parts[p] = 1..(frame[p].i - 1)
       /\ \A j \in DOMAIN Steps(p) : j < frame[p].i => Received(p, j)

\* What an ensemble has returned is the error of a step it has received, the answer
\* of a hard dependency that failed, or put together from the answers of all.
AnswerRight(p) ==
  frame[p].pc \in {"done", "taken"} =>
    LET out == frame[p].out
        step(i) == frame[Child(p, i)]
    IN
    \/ /\ out.err
       /\ \E i \in DOMAIN Steps(p) :
            /\ step(i).pc = "taken"
            /\ step(i).out.err \/ step(i).out.body.form \in {"bad", "list"}
    \/ /\ ~out.err /\ out.status # 200 /\ out.body.from # p
       /\ \E i \in DOMAIN Steps(p) :
            /\ step(i).pc = "taken" /\ Hard(p, i) /\ out = step(i).out
            /\ \A j \in 1..(i - 1) : Received(p, j)
    \/ /\ ~out.err /\ out.status = 200 /\ parts[p] = DOMAIN Steps(p)
       /\ \A i \in DOMAIN Steps(p) : Received(p, i)

\* What a call knows of its steps.
CallRight(p) ==
  IsNode(p) =>
    /\ UnbegunRight(p) /\ WaitsForStep(p)
    /\ IsA(p, "Sequence") => SequenceRight(p)
    /\ IsA(p, "Ensemble") => EnsembleRight(p) /\ AnswerRight(p)

\* The calls of the request, whatever the server does.
CallsIInv ==
  /\ graph \in Graphs /\ FramesTyped
  /\ \A p \in Paths :
       /\ frame[p].pc # "idle" => IsCall(p)
       /\ parts[p] = 1..Cardinality(parts[p])
       /\ MadeBelow(p) /\ CallRight(p)
  /\ SequenceInOrder

RouterIInv == RouterTypeOK /\ CallsIInv /\ ExitsAfterAnswer
=============================================================================
