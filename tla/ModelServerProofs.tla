-------------------------- MODULE ModelServerProofs --------------------------
(***************************************************************************)
(* Theorems about the Python model server and about the messages it reads  *)
(* and writes.  The server, for any models, callers and number of loads:   *)
(* the end is orderly, what is answered was in place during the call, and  *)
(* what is listed is what is registered.  The open inference protocol, for *)
(* any requests, answers, paths and number of attempts: the values arrive, *)
(* the messages have their form, and plain requests are served.            *)
(***************************************************************************)
EXTENDS ModelServer, OpenInference, FiniteSetTheorems, SequenceTheorems, NaturalsInduction, WellFoundedInduction, TLAPS

\* An answer is told from a call by its fields.
IsAnswer(r) == DOMAIN r = {"answer", "listed"}

\* The server of a protocol still has its loop, or waits for its calls.
Up(via) == loop = "running" /\ IF via = "rest" THEN rest \notin {"off", "done"} ELSE grpc \notin {"off", "done"}

\* What Turn and Follows need of the call they are given, before its history is
\* brought up to date.
CallFits(r) ==
  /\ CallOK(r)
  /\ r.pc # "idle"
  /\ r.kind = "infer" => /\ r.name \in Names
                         /\ r.version \in r.seen \cup {models'[r.name]}
                         /\ r.version # 0

-----------------------------------------------------------------------------
LEMMA AnswerForm ==
  ASSUME NEW r, NEW a
  PROVE  IsAnswer(Answered(r, a)) /\ Answered(r, a).answer = a
BY DEF IsAnswer, Answered

\* A call keeps what it is while the registry changes, and an inference sees the
\* change.
LEMMA FollowsKeeps ==
  ASSUME NEW r, NEW l, CallOK(r)
  PROVE  LET f == Follows(r, l) IN
         /\ CallOK(f)
         /\ f.pc = r.pc /\ f.kind = r.kind /\ f.via = r.via /\ f.name = r.name /\ f.version = r.version
         /\ r.pc # "idle" /\ r.kind = "infer" => f.seen = r.seen \cup {l[r.name]}
<1> DEFINE f == Follows(r, l)
<1>1. CASE r.pc = "idle"
  <2>1. f = r
    BY <1>1 DEF Follows
  <2> QED
    BY <1>1, <2>1
<1>2. CASE r.pc # "idle" /\ r.kind = "index"
  <2>1. f = [r EXCEPT !.pos = Cardinality({i \in 1..@ : models'[keys[i]] # 0})]
    BY <1>2 DEF Follows
  <2>2. PICK x : f = [r EXCEPT !.pos = x]
    BY <2>1
  <2> QED
    BY <1>2, <2>2 DEF CallOK, Fields
<1>3. CASE r.pc # "idle" /\ r.kind = "load"
  <2>1. f = r
    BY <1>3 DEF Follows
  <2> QED
    BY <1>3, <2>1
<1>4. CASE r.pc # "idle" /\ r.kind \notin {"index", "load"}
  <2>1. f = [r EXCEPT !.seen = @ \cup {l[r.name]}]
    BY <1>4 DEF Follows
  <2> QED
    BY <1>4, <2>1 DEF CallOK, Fields
<1> QED
  BY <1>1, <1>2, <1>3, <1>4

\* The idle call.
LEMMA IdleFits == CallOK(Idle) /\ Idle.pc = "idle"
BY DEF CallOK, Fields, Idle, Call, Vias

\* The calls of a server that may still answer are not the ones EndsRight excludes.
LEMMA InFlightIsUp ==
  ASSUME ServerIInv, NEW c \in Callers, InFlight(c)
  PROVE  Up(req[c].via)
<1>1. req[c].via \in Vias /\ c \in InFlightVia(req[c].via)
  BY DEF ServerIInv, CallsOK, CallOK, InFlightVia
<1>2. /\ req[c].via = "rest" => rest \notin {"off", "done"}
      /\ req[c].via = "grpc" => grpc \notin {"off", "done"}
  BY <1>1 DEF ServerIInv, EndsRight
<1> QED
  BY <1>1, <1>2 DEF ServerIInv, StagesRight, Up, Vias

LEMMA ArrivesIsUp ==
  ASSUME NEW c \in Callers, NEW via \in Vias, Arrives(c, via)
  PROVE  Up(via)
BY DEF Arrives, Up, Vias

-----------------------------------------------------------------------------
\* A turn of the event loop that answers its call or gives it a fitting one keeps
\* the invariant, and does to the other calls no more than to go on.
LEMMA TurnKeeps ==
  ASSUME ServerIInv, NEW c \in Callers, NEW r, Turn(c, r, models'),
         models' \in [Names -> Versions], made' \in Versions,
         \/ IsAnswer(r) /\ \E via \in Vias : Up(via)
         \/ CallFits(r) /\ Up(r.via)
  PROVE  ServerIInv'
<1>1. "answer" \in DOMAIN r <=> IsAnswer(r)
  BY DEF IsAnswer, CallFits, CallOK, Fields
<1>2. /\ live' = models'
      /\ req' = [d \in Callers |-> IF d = c /\ IsAnswer(r) THEN Idle
                                   ELSE Follows(IF d = c THEN r ELSE req[d], models')]
      /\ UNCHANGED serverVars
  BY <1>1 DEF Turn
<1>3. ASSUME NEW d \in Callers, req'[d].pc # "idle"
      PROVE  /\ CallOK(req'[d])
             /\ Up(req'[d].via)
             /\ req'[d].kind = "infer" =>
                  /\ req'[d].name \in Names
                  /\ models'[req'[d].name] \in req'[d].seen
                  /\ req'[d].version \in req'[d].seen \ {0}
  <2>1. CASE d = c
    <3>1. CallFits(r) /\ Up(r.via) /\ req'[d] = Follows(r, models')
      BY <1>2, <1>3, <2>1, IdleFits
    <3>2. CallOK(r)
      BY <3>1 DEF CallFits
    <3> QED
      BY <3>1, <3>2, FollowsKeeps DEF CallFits
  <2>2. CASE d # c
    <3>1. req'[d] = Follows(req[d], models') /\ CallOK(req[d])
      BY <1>2, <2>2 DEF ServerIInv, CallsOK
    <3>2. InFlight(d)
      BY <1>3, <3>1, FollowsKeeps DEF InFlight
    <3>3. Up(req[d].via)
      BY <3>2, InFlightIsUp
    <3>4. req[d].kind = "infer" => /\ req[d].name \in Names
                                   /\ req[d].version \in req[d].seen \ {0}
      BY <3>2 DEF ServerIInv, SeenRight
    <3> QED
      BY <3>1, <3>2, <3>3, <3>4, FollowsKeeps DEF InFlight
  <2> QED
    BY <2>1, <2>2
<1>4. CallsOK'
  <2>1. ASSUME NEW d \in Callers
        PROVE  CallOK(req'[d])
    <3>1. req'[d] = IF d = c /\ IsAnswer(r) THEN Idle ELSE Follows(IF d = c THEN r ELSE req[d], models')
      BY <1>2
    <3>2. CallOK(req[d])
      BY DEF ServerIInv, CallsOK
    <3>3. ~IsAnswer(r) => CallOK(r)
      BY DEF CallFits
    <3> QED
      BY <3>1, <3>2, <3>3, FollowsKeeps, IdleFits
  <2> QED
    BY <1>2, <2>1 DEF CallsOK, CallOK
<1>5. \E via \in Vias : Up(via)
  BY DEF CallFits, CallOK
<1>6. StagesRight' /\ ExitUnloadsModels'
  BY <1>2, <1>5 DEF ServerIInv, StagesRight, ExitUnloadsModels, serverVars, Up
<1>7. EndsRight'
  <2>1. \A d \in Callers : req'[d].pc # "idle" => Up(req'[d].via)
    BY <1>3
  <2>2. rest' \in {"off", "done"} => InFlightVia("rest")' = {}
    BY <1>2, <2>1 DEF InFlightVia, InFlight, Up, serverVars
  <2>3. grpc' \in {"off", "done"} => InFlightVia("grpc")' = {}
    BY <1>2, <2>1 DEF InFlightVia, InFlight, Up, serverVars
  <2>4. ~(signal' = "TERM" /\ stopper' = "done")
    BY <1>2, <1>5 DEF ServerIInv, StagesRight, serverVars, Up
  <2> QED
    BY <2>2, <2>3, <2>4 DEF EndsRight
<1>8. SeenRight'
  BY <1>2, <1>3 DEF SeenRight, InFlight
<1> QED
  BY <1>4, <1>6, <1>7, <1>8 DEF ServerIInv

\* Only the call whose turn it is can end, and it ends with the answer.
LEMMA TurnEnds ==
  ASSUME ServerIInv, NEW c \in Callers, NEW r, NEW l, Turn(c, r, l),
         IsAnswer(r) \/ CallFits(r),
         NEW d \in Callers, InFlight(d), ~InFlight(d)'
  PROVE  d = c /\ IsAnswer(r) /\ reply' = r
<1>1. "answer" \in DOMAIN r <=> IsAnswer(r)
  BY DEF IsAnswer, CallFits, CallOK, Fields
<1>2. /\ req'[d] = IF d = c /\ IsAnswer(r) THEN Idle ELSE Follows(IF d = c THEN r ELSE req[d], l)
      /\ reply' = IF IsAnswer(r) THEN r ELSE NoReply
  BY <1>1 DEF Turn
<1>3. CallOK(req[d]) /\ req[d].pc # "idle" /\ req'[d].pc = "idle"
  BY DEF ServerIInv, CallsOK, InFlight
<1>4. ~IsAnswer(r) => CallOK(r) /\ r.pc # "idle"
  BY DEF CallFits
<1> QED
  BY <1>2, <1>3, <1>4, FollowsKeeps

-----------------------------------------------------------------------------
\* What the parts of a handler make of the call.

LEMMA LookedUpFits ==
  ASSUME models \in [Names -> Versions], models' = models,
         NEW r, CallOK(r), r.name \in Names,
         NEW at, \/ at = "checking" /\ r.kind \in {"infer", "ready"}
                 \/ at = "fetching"
  PROVE  \/ IsAnswer(LookedUp(r, at)) /\ LookedUp(r, at).answer = "NotFound" /\ models[r.name] = 0
         \/ CallFits(LookedUp(r, at)) /\ LookedUp(r, at).via = r.via
<1>1. CASE models[r.name] = 0
  BY <1>1, AnswerForm DEF LookedUp
<1>2. CASE models[r.name] # 0
  <2>1. LookedUp(r, at) = [r EXCEPT !.pc = at, !.version = models[r.name]]
    BY <1>2 DEF LookedUp
  <2> QED
    BY <1>2, <2>1 DEF CallFits, CallOK, Fields
<1> QED
  BY <1>1, <1>2

LEMMA IteratedFits ==
  ASSUME NEW r, CallOK(r), r.kind = "index"
  PROVE  \/ IsAnswer(Iterated(r)) /\ Iterated(r).answer # "NotFound"
         \/ CallFits(Iterated(r)) /\ Iterated(r).via = r.via
<1> DEFINE n == keys[r.pos + 1]
           more == [r EXCEPT !.pc = "indexing", !.pos = @ + 1, !.left = @ - 1,
                             !.name = n, !.version = models[n]]
<1>1. \/ Iterated(r) = Answered(r, "Error")
      \/ Iterated(r) = Answered(r, "ok")
      \/ Iterated(r) = more
  BY DEF Iterated
<1>2. CallFits(more) /\ more.via = r.via
  BY DEF CallFits, CallOK, Fields
<1> HIDE DEF more
<1> QED
  BY <1>1, <1>2, AnswerForm

\* What unload() leaves of the registry.
LEMMA UnloadedModels ==
  ASSUME NEW S, Unload(S)
  PROVE  models' = [n \in Names |-> IF n \in S THEN 0 ELSE models[n]]
BY Zenon DEF Unload

\* A call that was just made.
LEMMA CallMade ==
  ASSUME NEW k \in Kinds, NEW via \in Vias, NEW n
  PROVE  /\ CallOK(Call(k, via, n))
         /\ Call(k, via, n).kind = k /\ Call(k, via, n).via = via /\ Call(k, via, n).name = n
BY DEF CallOK, Call, Fields

-----------------------------------------------------------------------------
\* A process that starts has no calls and no models.
THEOREM InitInv == Init => ServerIInv
<1> SUFFICES ASSUME Init
             PROVE  ServerIInv
  OBVIOUS
<1>1. models \in [Names -> Versions] /\ made \in Versions
  BY ModelServerAssumption DEF Init, Versions
<1>2. CallsOK /\ \A c \in Callers : ~InFlight(c)
  BY IdleFits DEF Init, CallsOK, InFlight
<1>3. StagesRight /\ ExitUnloadsModels
  BY DEF Init, StagesRight, ExitUnloadsModels
<1>4. EndsRight /\ SeenRight
  BY <1>2 DEF Init, EndsRight, SeenRight, InFlightVia
<1> QED
  BY <1>1, <1>2, <1>3, <1>4 DEF ServerIInv

LEMMA StartKeeps ==
  ASSUME ServerIInv, NEW R, NEW given, Start(R, given)
  PROVE  ServerIInv'
<1>1. loop = "starting" /\ req' = req /\ signal' = "none" /\ stopper' = "none"
  BY DEF Start, ServerIInv, StagesRight
<1>2. CallsOK'
  BY <1>1 DEF ServerIInv, CallsOK
<1>3. \A c \in Callers : ~InFlight(c) /\ ~InFlight(c)'
  BY <1>1, InFlightIsUp DEF Up, InFlight
<1>4. models' \in [Names -> Versions] /\ made' \in Versions /\ live' = models'
  BY ModelServerAssumption DEF Start, ServerIInv, SeenRight, repoVars, Versions
<1>5. StagesRight'
  BY <1>1 DEF Start, ServerIInv, StagesRight
<1>6. loop' # "closed"
  BY DEF Start
<1> QED
  BY <1>1, <1>2, <1>3, <1>4, <1>5, <1>6 DEF ServerIInv, EndsRight, SeenRight, InFlightVia, ExitUnloadsModels

\* A call that has arrived is answered, or handled by a coroutine that fits.
Begins(c, r, via) ==
  /\ ~InFlight(c) /\ via \in Vias /\ Up(via)
  /\ models' \in [Names -> Versions] /\ made' \in Versions
  /\ Turn(c, r, models')
  /\ \/ IsAnswer(r)
     \/ CallFits(r) /\ r.via = via

LEMMA ReceiveBegins ==
  ASSUME ServerIInv, NEW c \in Callers, Receive(c)
  PROVE  \E r, u : Begins(c, r, u)
<1> USE DEF Kinds
<1>m. models \in [Names -> Versions] /\ made \in Versions
  BY DEF ServerIInv
<1>1. CASE HandleIndex(c)
  <2> DEFINE r == [Call("index", "rest", NoName) EXCEPT !.size = Len(keys), !.left = Len(keys)]
  <2>1. CallOK(r) /\ r.kind = "index" /\ r.via = "rest"
    BY DEF CallOK, Call, Fields, Vias
  <2>2. ~InFlight(c) /\ Up("rest")
    BY <1>1, ArrivesIsUp DEF HandleIndex, Arrives, Vias
  <2>3. models' = models /\ made' = made /\ Turn(c, Iterated(r), models')
    BY <1>1 DEF HandleIndex, repoVars, ServerIInv, SeenRight
  <2> HIDE DEF r
  <2>4. Begins(c, Iterated(r), "rest")
    BY <1>m, <2>1, <2>2, <2>3, IteratedFits DEF Begins, Vias
  <2> QED
    BY <2>4
<1>2. ASSUME NEW via \in Vias, NEW n \in Names, HandleInfer(c, via, n)
      PROVE  \E r, u : Begins(c, r, u)
  <2> DEFINE at == IF via = "rest" THEN "checking" ELSE "fetching"
             r == LookedUp(Call("infer", via, n), at)
  <2>1. ~InFlight(c) /\ Up(via)
    BY <1>2, ArrivesIsUp DEF HandleInfer, Arrives
  <2>2. models' = models /\ made' = made /\ Turn(c, r, models')
    BY <1>2 DEF HandleInfer, repoVars, ServerIInv, SeenRight
  <2>3. \/ IsAnswer(r)
        \/ CallFits(r) /\ r.via = via
    BY <1>m, <2>2, CallMade, LookedUpFits
  <2>4. Begins(c, r, via)
    BY <1>m, <2>1, <2>2, <2>3 DEF Begins
  <2> QED
    BY <2>4
<1>3. ASSUME NEW via \in Vias, NEW n \in Names, HandleReady(c, via, n)
      PROVE  \E r, u : Begins(c, r, u)
  <2> DEFINE r == LookedUp(Call("ready", via, n), "checking")
  <2>1. ~InFlight(c) /\ Up(via)
    BY <1>3, ArrivesIsUp DEF HandleReady, Arrives
  <2>2. models' = models /\ made' = made /\ Turn(c, r, models')
    BY <1>3 DEF HandleReady, repoVars, ServerIInv, SeenRight
  <2>3. \/ IsAnswer(r)
        \/ CallFits(r) /\ r.via = via
    BY <1>m, <2>2, CallMade, LookedUpFits
  <2>4. Begins(c, r, via)
    BY <1>m, <2>1, <2>2, <2>3 DEF Begins
  <2> QED
    BY <2>4
<1>4. ASSUME NEW via \in Vias, NEW n \in Names, HandleLoad(c, via, n)
      PROVE  \E r, u : Begins(c, r, u)
  <2> DEFINE v == made + 1
             r == [Call("load", via, n) EXCEPT !.pc = "loading", !.version = v]
             a == Answered(Call("load", via, n), "NotReady")
  <2>1. ~InFlight(c) /\ Up(via)
    BY <1>4, ArrivesIsUp DEF HandleLoad, Arrives
  <2>2. CallFits(r) /\ r.via = via /\ IsAnswer(a)
    BY AnswerForm DEF CallFits, CallOK, Call, Fields
  <2>3. CASE Turn(c, r, [live EXCEPT ![n] = v]) /\ Update(n, v)
    <3>1. models' = [live EXCEPT ![n] = v]
      BY <2>3 DEF Update, ServerIInv, SeenRight
    <3>2. made' = v /\ v \in Versions
      BY <1>4, <1>m, ModelServerAssumption DEF HandleLoad, Versions
    <3>3. models' \in [Names -> Versions]
      BY <1>m, <3>1, <3>2 DEF ServerIInv, SeenRight
    <3>4. Begins(c, r, via)
      BY <2>1, <2>2, <2>3, <3>1, <3>2, <3>3 DEF Begins
    <3> QED
      BY <3>4
  <2>4. CASE Turn(c, a, live) /\ models' = models
    <3>1. made' \in Versions
      BY <1>4, <1>m, ModelServerAssumption DEF HandleLoad, Versions
    <3>2. Begins(c, a, via)
      BY <1>m, <2>1, <2>2, <2>4, <3>1 DEF Begins, ServerIInv, SeenRight
    <3> QED
      BY <3>2
  <2> QED
    BY <1>4, <2>3, <2>4 DEF HandleLoad
<1>5. ASSUME NEW via \in Vias, NEW n \in Names, HandleUnload(c, via, n)
      PROVE  \E r, u : Begins(c, r, u)
  <2> DEFINE r == Call("unload", via, n)
  <2>1. ~InFlight(c) /\ Up(via) /\ made' = made
    BY <1>5, ArrivesIsUp DEF HandleUnload, Arrives
  <2>2. CASE Turn(c, Answered(r, "NotFound"), live) /\ models' = models
    <3>1. Begins(c, Answered(r, "NotFound"), via)
      BY <1>m, <2>1, <2>2, AnswerForm DEF Begins, ServerIInv, SeenRight
    <3> QED
      BY <3>1
  <2>3. CASE Turn(c, Answered(r, Outcome(r)), [live EXCEPT ![n] = 0]) /\ Unload({n})
    <3>1. models' = [m \in Names |-> IF m \in {n} THEN 0 ELSE models[m]]
      BY <2>3, UnloadedModels
    <3>2. live = models
      BY DEF ServerIInv, SeenRight
    <3>3. models' = [live EXCEPT ![n] = 0]
      BY <1>m, <3>1, <3>2
    <3>4. models' \in [Names -> Versions]
      BY <1>m, <3>1, ModelServerAssumption DEF Versions
    <3>5. Begins(c, Answered(r, Outcome(r)), via)
      BY <1>m, <2>1, <2>3, <3>3, <3>4, AnswerForm DEF Begins
    <3> QED
      BY <3>5
  <2> QED
    BY <1>5, <2>2, <2>3 DEF HandleUnload
<1> QED
  BY <1>1, <1>2, <1>3, <1>4, <1>5 DEF Receive


\* No call ends when another arrives.
LEMMA ReceiveKeeps ==
  ASSUME ServerIInv, NEW c \in Callers, Receive(c)
  PROVE  /\ ServerIInv'
         /\ \A d \in Callers : AnswerIsCurrent(d)
<1>1. PICK r, via : Begins(c, r, via)
  BY ReceiveBegins
<1>2. ~InFlight(c) /\ Turn(c, r, models') /\ (IsAnswer(r) \/ CallFits(r))
  BY <1>1 DEF Begins
<1>3. ServerIInv'
  BY <1>1, TurnKeeps DEF Begins
<1>4. ASSUME NEW d \in Callers, InFlight(d), ~InFlight(d)'
      PROVE  d = c
  BY <1>2, <1>4, TurnEnds
<1> QED
  BY <1>2, <1>3, <1>4 DEF AnswerIsCurrent

-----------------------------------------------------------------------------
\* A handler goes on: the invariant is kept, and "not found" is said only of a
\* name that is not registered.
LEMMA ContinueKeeps ==
  ASSUME ServerIInv, NEW c \in Callers, Continue(c)
  PROVE  /\ ServerIInv'
         /\ \A d \in Callers : AnswerIsCurrent(d)
<1> DEFINE q == req[c]
<1>q. /\ models \in [Names -> Versions] /\ made \in Versions
      /\ live = models /\ CallOK(q)
      /\ q.kind = "infer" /\ q.pc # "idle" =>
           q.name \in Names /\ models[q.name] \in q.seen /\ q.version \in q.seen \ {0}
  BY DEF ServerIInv, SeenRight, CallsOK, InFlight
<1>u. q.pc # "idle" => InFlight(c) /\ Up(q.via)
  BY InFlightIsUp DEF InFlight
<1> SUFFICES \E r : /\ q.pc # "idle" /\ models' = models /\ made' = made /\ Turn(c, r, models)
                    /\ \/ CallFits(r) /\ r.via = q.via
                       \/ /\ IsAnswer(r)
                          /\ r.answer = "NotFound" => q.kind = "infer" /\ models[q.name] = 0
  <2>1. PICK r : /\ q.pc # "idle" /\ models' = models /\ made' = made /\ Turn(c, r, models)
                 /\ \/ CallFits(r) /\ r.via = q.via
                    \/ /\ IsAnswer(r)
                       /\ r.answer = "NotFound" => q.kind = "infer" /\ models[q.name] = 0
    OBVIOUS
  <2>2. ServerIInv'
    <3>1. Turn(c, r, models') /\ models' \in [Names -> Versions] /\ made' \in Versions
      BY <1>q, <2>1
    <3>2. Up(q.via) /\ q.via \in Vias
      BY <1>q, <1>u, <2>1 DEF CallOK
    <3> HIDE DEF q
    <3> QED
      BY <2>1, <3>1, <3>2, TurnKeeps
  <2>3. ASSUME NEW d \in Callers, InFlight(d), ~InFlight(d)'
        PROVE  d = c /\ IsAnswer(r) /\ reply' = r
    BY <2>1, <2>3, TurnEnds
  <2>4. ASSUME NEW d \in Callers, InFlight(d), ~InFlight(d)'
        PROVE  /\ req[d].kind = "infer" /\ reply'.answer = "ok" => req[d].version \in req[d].seen \ {0}
               /\ reply'.answer = "NotFound" => 0 \in req[d].seen
    BY <1>q, <2>1, <2>3, <2>4 DEF CallFits, CallOK, Fields, IsAnswer
  <2> QED
    BY <2>2, <2>4 DEF AnswerIsCurrent
<1> HIDE DEF q
<1>1. CASE Checked(c)
  <2> DEFINE r == [q EXCEPT !.pc = "body"]
  <2>1. q.pc = "checking" /\ models' = models /\ made' = made
    BY <1>1 DEF Checked, repoVars, q
  <2>2. \/ Turn(c, Answered(q, "NotReady"), live)
        \/ Turn(c, Answered(q, "ok"), live)
        \/ q.kind # "ready" /\ Turn(c, r, live)
    BY <1>1 DEF Checked, q
  <2>3. q.kind # "ready" => CallFits(r) /\ r.via = q.via
    BY <1>q, <2>1 DEF CallFits, CallOK, Fields
  <2> HIDE DEF r
  <2> QED
    BY <1>q, <2>1, <2>2, <2>3, AnswerForm
<1>2. CASE HasBody(c)
  <2>1. q.pc = "body" /\ models' = models /\ made' = made /\ Turn(c, LookedUp(q, "fetching"), live)
    BY <1>2 DEF HasBody, repoVars, q
  <2>2. q.kind = "infer" /\ q.name \in Names
    BY <1>q, <2>1 DEF CallOK
  <2> QED
    BY <1>q, <2>1, <2>2, LookedUpFits
<1>3. CASE Fetched(c)
  <2> DEFINE r == [q EXCEPT !.pc = "running"]
  <2>1. q.pc = "fetching" /\ models' = models /\ made' = made
    BY <1>3 DEF Fetched, q
  <2>2. Turn(c, r, live) \/ Turn(c, Answered(q, "Error"), live)
    BY <1>3 DEF Fetched, q
  <2>3. CallFits(r) /\ r.via = q.via
    BY <1>q, <2>1 DEF CallFits, CallOK, Fields
  <2> HIDE DEF r
  <2> QED
    BY <1>q, <2>1, <2>2, <2>3, AnswerForm
<1>4. CASE Loaded(c)
  <2>1. q.pc = "loading" /\ models' = models /\ made' = made
    BY <1>4 DEF Loaded, repoVars, q
  <2>2. \E a \in {"ok", "Error", "NotReady"} : Turn(c, Answered(q, a), live)
    BY <1>4 DEF Loaded, Outcome, q
  <2> QED
    BY <1>q, <2>1, <2>2, AnswerForm
<1>5. CASE Indexed(c)
  <2> DEFINE r == [q EXCEPT !.listed = Append(@, q.name)]
  <2>1. q.pc = "indexing" /\ models' = models /\ made' = made /\ Turn(c, Iterated(r), live)
    BY <1>5 DEF Indexed, repoVars, q
  <2>2. CallOK(r) /\ r.kind = "index" /\ r.via = q.via
    BY <1>q, <2>1 DEF CallOK, Fields
  <2> HIDE DEF r
  <2> QED
    BY <1>q, <2>1, <2>2, IteratedFits
<1>6. ASSUME NEW a \in {"ok", "Error"}, Ran(c, a)
      PROVE  \E r : /\ q.pc # "idle" /\ models' = models /\ made' = made /\ Turn(c, r, models)
                    /\ IsAnswer(r) /\ r.answer # "NotFound"
  BY <1>q, <1>6, AnswerForm DEF Ran, repoVars, q
<1> QED
  BY <1>1, <1>2, <1>3, <1>4, <1>5, <1>6 DEF Continue

-----------------------------------------------------------------------------
\* The end of the server.

\* unload() of every model leaves none.
LEMMA UnloadAllKeeps ==
  ASSUME ServerIInv, NEW q, DOMAIN q = Callers, \A c \in Callers : CallOK(q[c]),
         \A c \in Callers : q[c].pc # "idle" => q[c] = req[c],
         UnloadAll(q)
  PROVE  /\ models' \in [Names -> Versions] /\ made' \in Versions
         /\ Registered' = {}
         /\ stopper' = "done"
         /\ CallsOK' /\ SeenRight'
         /\ \A c \in Callers : InFlight(c)' => q[c].pc # "idle" /\ InFlight(c) /\ req'[c].via = req[c].via
         /\ reply'.answer = "none"
<1>1. models' = [n \in Names |-> IF n \in Registered THEN 0 ELSE models[n]]
  BY UnloadedModels DEF UnloadAll
<1>2. models' = [n \in Names |-> 0]
  BY <1>1 DEF Registered
<1>3. /\ live' = models' /\ stopper' = "done" /\ made' = made /\ reply' = NoReply
      /\ req' = [c \in Callers |-> Follows(q[c], models')]
  BY <1>2 DEF UnloadAll
<1>4. Registered' = {} /\ models' \in [Names -> Versions]
  BY <1>2, ModelServerAssumption DEF Registered, Versions
<1>5. CallsOK'
  BY <1>3, FollowsKeeps DEF CallsOK
<1>6. ASSUME NEW c \in Callers, InFlight(c)'
      PROVE  q[c].pc # "idle" /\ InFlight(c) /\ req'[c].via = req[c].via
  BY <1>3, <1>6, FollowsKeeps DEF InFlight
<1>7. ASSUME NEW c \in Callers, InFlight(c)', req'[c].kind = "infer"
      PROVE  /\ req'[c].name \in Names
             /\ models'[req'[c].name] \in req'[c].seen
             /\ req'[c].version \in req'[c].seen \ {0}
  <2>1. q[c] = req[c] /\ InFlight(c) /\ req'[c] = Follows(req[c], models')
    BY <1>3, <1>6, <1>7
  <2>2. CallOK(req[c])
    BY DEF ServerIInv, CallsOK
  <2>3. req[c].kind = "infer" /\ req[c].pc # "idle"
    BY <1>7, <2>1, <2>2, FollowsKeeps DEF InFlight
  <2>4. req[c].name \in Names /\ req[c].version \in req[c].seen \ {0}
    BY <2>1, <2>3 DEF ServerIInv, SeenRight
  <2> QED
    BY <2>1, <2>2, <2>3, <2>4, FollowsKeeps
<1>8. SeenRight'
  BY <1>3, <1>7 DEF SeenRight
<1>9. made' \in Versions /\ reply'.answer = "none"
  BY <1>3 DEF ServerIInv, NoReply
<1> QED
  BY <1>3, <1>4, <1>5, <1>6, <1>8, <1>9

\* The steps that leave the calls and the registry alone.
LEMMA StagesKeep ==
  ASSUME ServerIInv, UNCHANGED <<repoVars, req, live>>, StagesRight',
         rest' \in {"off", "done"} => rest \in {"off", "done"} \/ InFlightVia("rest") = {},
         grpc' \in {"off", "done"} => grpc \in {"off", "done"},
         signal' = "TERM" /\ stopper' = "done" => signal = "TERM" /\ stopper = "done",
         ExitUnloadsModels'
  PROVE  ServerIInv'
<1>1. models' = models /\ made' = made /\ req' = req /\ live' = live
  BY DEF repoVars
<1>2. CallsOK' /\ SeenRight' /\ models' \in [Names -> Versions] /\ made' \in Versions
  BY <1>1 DEF ServerIInv, CallsOK, SeenRight, InFlight
<1>3. Registered' = Registered /\ \A via : InFlightVia(via)' = InFlightVia(via)
  BY <1>1 DEF Registered, InFlightVia, InFlight
<1>4. EndsRight'
  BY <1>3 DEF ServerIInv, EndsRight
<1> QED
  BY <1>2, <1>4 DEF ServerIInv

LEMMA StopKeeps ==
  ASSUME ServerIInv, Stop
  PROVE  /\ ServerIInv'
         /\ \A c \in Callers : AnswerIsCurrent(c)
<1>1. CASE RestEnds
  <2>1. UNCHANGED <<repoVars, req, live, loop, grpc, signal, enable_grpc>> /\ rest' = "done"
        /\ stopper' = "closing" /\ rest = "draining" /\ InFlightVia("rest") = {}
    BY <1>1 DEF RestEnds
  <2>2. StagesRight' /\ ExitUnloadsModels'
    BY <2>1 DEF ServerIInv, StagesRight, ExitUnloadsModels
  <2>3. ServerIInv'
    BY <2>1, <2>2, StagesKeep
  <2> QED
    BY <2>1, <2>3 DEF AnswerIsCurrent, InFlight
<1>2. CASE ClientsClosed /\ enable_grpc
  <2>1. UNCHANGED <<repoVars, req, live, loop, rest, signal, enable_grpc>> /\ grpc' = "draining"
        /\ stopper' = "draining" /\ stopper = "closing"
    BY <1>2 DEF ClientsClosed
  <2>2. StagesRight' /\ ExitUnloadsModels'
    BY <1>2, <2>1 DEF ServerIInv, StagesRight, ExitUnloadsModels
  <2>3. ServerIInv'
    BY <2>1, <2>2, StagesKeep
  <2> QED
    BY <2>1, <2>3 DEF AnswerIsCurrent, InFlight
<1>3. CASE ClientsClosed /\ ~enable_grpc
  <2>1. UnloadAll(req) /\ UNCHANGED <<grpc, enable_grpc, loop, rest, signal>> /\ stopper = "closing"
    BY <1>3 DEF ClientsClosed
  <2>2. DOMAIN req = Callers /\ \A c \in Callers : CallOK(req[c])
    BY DEF ServerIInv, CallsOK
  <2>3. /\ models' \in [Names -> Versions] /\ made' \in Versions
        /\ Registered' = {} /\ stopper' = "done" /\ CallsOK' /\ SeenRight'
        /\ \A c \in Callers : InFlight(c)' => InFlight(c) /\ req'[c].via = req[c].via
        /\ reply'.answer = "none"
    BY <2>1, <2>2, UnloadAllKeeps
  <2>4. StagesRight' /\ ExitUnloadsModels'
    BY <1>3, <2>1, <2>3 DEF ServerIInv, StagesRight, ExitUnloadsModels
  <2>5. \A via : InFlightVia(via)' \subseteq InFlightVia(via)
    BY <2>3 DEF InFlightVia
  <2>6. EndsRight'
    BY <2>1, <2>3, <2>5 DEF EndsRight, ServerIInv
  <2> QED
    BY <2>3, <2>4, <2>6 DEF ServerIInv, AnswerIsCurrent
<1>4. CASE GrpcStopped
  <2> DEFINE q == [c \in Callers |-> IF c \in InFlightVia("grpc") THEN Idle ELSE req[c]]
  <2>1. /\ UnloadAll(q) /\ UNCHANGED <<enable_grpc, loop, rest, signal>>
        /\ stopper = "draining" /\ grpc' = "done"
    BY <1>4 DEF GrpcStopped
  <2>2. /\ DOMAIN q = Callers
        /\ \A c \in Callers : CallOK(q[c])
        /\ \A c \in Callers : q[c].pc # "idle" => q[c] = req[c] /\ c \notin InFlightVia("grpc")
    BY IdleFits DEF ServerIInv, CallsOK
  <2> HIDE DEF q
  <2>3. /\ models' \in [Names -> Versions] /\ made' \in Versions
        /\ Registered' = {} /\ stopper' = "done" /\ CallsOK' /\ SeenRight'
        /\ \A c \in Callers : InFlight(c)' => q[c].pc # "idle" /\ InFlight(c) /\ req'[c].via = req[c].via
        /\ reply'.answer = "none"
    BY <2>1, <2>2, UnloadAllKeeps
  <2>4. StagesRight' /\ ExitUnloadsModels'
    BY <2>1, <2>3 DEF ServerIInv, StagesRight, ExitUnloadsModels
  <2>5. \A via : InFlightVia(via)' \subseteq InFlightVia(via) \ InFlightVia("grpc")
    BY <2>2, <2>3 DEF InFlightVia
  <2>6. EndsRight'
    BY <2>1, <2>3, <2>5 DEF EndsRight, ServerIInv
  <2> QED
    BY <2>3, <2>4, <2>6 DEF ServerIInv, AnswerIsCurrent
<1>5. CASE LoopEnds
  <2>1. UNCHANGED <<repoVars, req, live, enable_grpc, rest, grpc, signal>>
        /\ loop = "running" /\ loop' = "closed" /\ rest = "done" /\ grpc \in {"off", "done"}
        /\ stopper' = IF stopper = "done" THEN "done" ELSE "cancelled"
    BY <1>5 DEF LoopEnds
  <2>2. Registered' = Registered
    BY <2>1 DEF Registered, repoVars
  <2>3. StagesRight' /\ ExitUnloadsModels'
    BY <2>1, <2>2 DEF ServerIInv, StagesRight, ExitUnloadsModels, EndsRight
  <2>4. ServerIInv'
    BY <2>1, <2>3, StagesKeep
  <2> QED
    BY <2>1, <2>4 DEF AnswerIsCurrent, InFlight
<1> QED
  BY <1>1, <1>2, <1>3, <1>4, <1>5 DEF Stop

-----------------------------------------------------------------------------
\* One step keeps the invariant, and answers nothing that is not current.
LEMMA StepKeeps ==
  ASSUME ServerIInv, [Next]_vars
  PROVE  /\ ServerIInv'
         /\ \A c \in Callers : AnswerIsCurrent(c)
<1>1. ASSUME NEW R, NEW given, Start(R, given)
      PROVE  ServerIInv' /\ \A c \in Callers : AnswerIsCurrent(c)
  BY <1>1, StartKeeps DEF Start, AnswerIsCurrent, InFlight
<1>2. ASSUME NEW c \in Callers, Receive(c)
      PROVE  ServerIInv' /\ \A d \in Callers : AnswerIsCurrent(d)
  BY <1>2, ReceiveKeeps
<1>3. ASSUME NEW s, Signal(s), s \in {"TERM", "QUIT"}
      PROVE  ServerIInv' /\ \A c \in Callers : AnswerIsCurrent(c)
  <2>1. UNCHANGED <<repoVars, req, live, loop, grpc, enable_grpc>> /\ loop = "running" /\ signal = "none"
        /\ signal' = s
        /\ \/ s = "TERM" /\ rest' = "draining" /\ stopper' = stopper
           \/ s = "QUIT" /\ stopper' = "closing" /\ rest' = rest
    BY <1>3 DEF Signal
  <2>2. StagesRight' /\ ExitUnloadsModels' /\ stopper' # "done"
    BY <2>1 DEF ServerIInv, StagesRight, ExitUnloadsModels
  <2>3. ServerIInv'
    BY <2>1, <2>2, StagesKeep
  <2> QED
    BY <2>1, <2>3 DEF AnswerIsCurrent, InFlight
<1>4. CASE UNCHANGED vars
  <2>1. UNCHANGED <<repoVars, req, live, enable_grpc, loop, rest, grpc, signal, stopper>>
    BY <1>4 DEF vars, serverVars
  <2>2. Registered' = Registered
    BY <2>1 DEF Registered, repoVars
  <2>3. StagesRight' /\ ExitUnloadsModels'
    BY <2>1, <2>2 DEF ServerIInv, StagesRight, ExitUnloadsModels
  <2>4. ServerIInv'
    BY <2>1, <2>3, StagesKeep
  <2> QED
    BY <2>1, <2>4 DEF AnswerIsCurrent, InFlight
<1> QED
  BY <1>1, <1>2, <1>3, <1>4, ContinueKeeps, StopKeeps DEF Next, Exited

\* The invariant behind the two results.
THEOREM ServerInvariant == Spec => []ServerIInv
<1>1. ServerIInv /\ [Next]_vars => ServerIInv'
  BY StepKeeps
<1> QED
  BY <1>1, InitInv, PTL DEF Spec

\* After SIGTERM the clients are closed when the REST calls have ended and the
\* models are unloaded when all have, and the loop closes when the models are
\* unloaded (ModelServer.stop, _servers_task).
THEOREM ShutdownInOrder == Spec => []ShutdownIsOrderly
<1>1. ServerIInv => ShutdownIsOrderly
  <2> SUFFICES ASSUME ServerIInv, signal = "TERM"
               PROVE  StopsAfterCalls
    BY DEF ShutdownIsOrderly, ServerIInv, StopsAfterCalls
  <2>1. ASSUME stopper # "none"
        PROVE  InFlightVia("rest") = {}
    BY <2>1 DEF ServerIInv, StagesRight, EndsRight
  <2>2. ASSUME stopper \in {"done", "cancelled"}, NEW c \in Callers
        PROVE  ~InFlight(c)
    BY <2>2, InFlightIsUp DEF ServerIInv, StagesRight, Up
  <2> QED
    BY <2>1, <2>2 DEF StopsAfterCalls
<1> QED
  BY <1>1, ServerInvariant, PTL

\* An inference is answered by an object that was in place during the call, and
\* "not found" is said of a name that was free at some moment of it (DataPlane.infer,
\* get_model).
THEOREM CurrentAnswers == Spec => AnswersAreCurrent
<1>1. ServerIInv /\ [Next]_vars => [\A c \in Callers : AnswerIsCurrent(c)]_vars
  BY StepKeeps
<1> QED
  BY <1>1, ServerInvariant, PTL DEF Spec, AnswersAreCurrent

-----------------------------------------------------------------------------
(* The index.                                                              *)

\* An order of a set is a sequence that has every element once.
LEMMA OrdersAre ==
  ASSUME NEW R \in SUBSET Names, NEW s \in Orders(R)
  PROVE  /\ s \in Seq(R) /\ s \in Seq(Names) /\ Len(s) \in Nat /\ Len(s) = Cardinality(R)
         /\ DOMAIN s = 1..Len(s)
         /\ \A n \in R : \E i \in 1..Len(s) : s[i] = n
         /\ \A i, j \in 1..Len(s) : s[i] = s[j] => i = j
<1>1. IsFiniteSet(R) /\ Cardinality(R) \in Nat
  BY ModelServerAssumption, FS_Subset, FS_CardinalityType
<1>2. s \in [1..Cardinality(R) -> R] /\ \A n \in R : \E i \in DOMAIN s : s[i] = n
  BY DEF Orders
<1>3. s \in Seq(R) /\ Len(s) = Cardinality(R)
  BY <1>1, <1>2
<1>4. s \in Surjection(1..Cardinality(R), R)
  BY <1>2 DEF Surjection
<1>5. IsFiniteSet(1..Cardinality(R)) /\ Cardinality(1..Cardinality(R)) = Cardinality(R)
  BY <1>1, FS_Interval
<1>6. s \in Injection(1..Cardinality(R), R)
  BY <1>1, <1>4, <1>5, FS_SurjSameCardinalityImpliesInj
<1>7. \A i, j \in 1..Cardinality(R) : s[i] = s[j] => i = j
  BY <1>6 DEF Injection, IsInjective
<1>8. s \in Seq(Names)
  BY <1>1, <1>2
<1> QED
  BY <1>1, <1>2, <1>3, <1>7, <1>8

\* What a change of the registry does to the keys: those that stay at the begin
\* keep their places.
KeysStep ==
  /\ models' \in [Names -> Versions]
  /\ keys' \in Orders(Registered')
  /\ \A p \in 0..Len(keys) :
       (\A i \in 1..p : models'[keys[i]] # 0) =>
         p <= Len(keys') /\ \A i \in 1..p : keys'[i] = keys[i]

\* Nothing changes; update() keeps the place of a name or puts it at the end; and
\* unload() deletes (UnloadKeys).
LEMMA SameKeys ==
  ASSUME models \in [Names -> Versions], keys \in Orders(Registered),
         models' = models, keys' = keys
  PROVE  KeysStep
<1>1. Registered' = Registered
  BY DEF Registered
<1>2. Len(keys) \in Nat
  BY OrdersAre DEF Registered
<1> QED
  BY <1>1, <1>2 DEF KeysStep

LEMMA UpdateKeys ==
  ASSUME models \in [Names -> Versions], keys \in Orders(Registered),
         NEW n \in Names, NEW v \in Versions \ {0}, Update(n, v)
  PROVE  KeysStep
<1>1. /\ keys \in Seq(Registered) /\ Len(keys) \in Nat /\ Len(keys) = Cardinality(Registered)
      /\ \A m \in Registered : \E i \in 1..Len(keys) : keys[i] = m
  <2>1. Registered \in SUBSET Names
    BY DEF Registered
  <2> QED
    BY <2>1, OrdersAre
<1>2. models' = [models EXCEPT ![n] = v] /\ models' \in [Names -> Versions]
  BY DEF Update
<1>3. Registered' = Registered \cup {n}
  BY <1>2 DEF Registered
<1>4. CASE models[n] # 0
  <2>1. Registered' = Registered /\ keys' = keys
    BY <1>3, <1>4 DEF Update, Registered
  <2> QED
    BY <1>1, <1>2, <2>1 DEF KeysStep
<1>5. CASE models[n] = 0
  <2>1. keys' = Append(keys, n) /\ n \notin Registered
    BY <1>5 DEF Update, Registered
  <2>2. IsFiniteSet(Registered)
    BY ModelServerAssumption, FS_Subset DEF Registered
  <2>3. Cardinality(Registered') = Len(keys) + 1
    BY <1>1, <1>3, <2>1, <2>2, FS_AddElement
  <2>4. /\ keys \in Seq(Registered') /\ n \in Registered'
        /\ Len(keys') = Len(keys) + 1 /\ keys'[Len(keys) + 1] = n
        /\ \A i \in 1..Len(keys) : keys'[i] = keys[i]
    BY <1>1, <1>3, <2>1
  <2>5. keys' \in [1..Cardinality(Registered') -> Registered']
    <3>1. keys' \in Seq(Registered')
      BY <2>1, <2>4
    <3> QED
      BY <2>3, <2>4, <3>1
  <2>6. ASSUME NEW m \in Registered' PROVE \E i \in DOMAIN keys' : keys'[i] = m
    <3>1. CASE m = n
      BY <1>1, <2>3, <2>4, <2>5, <3>1
    <3>2. CASE m \in Registered
      <4>1. PICK i \in 1..Len(keys) : keys[i] = m
        BY <1>1, <3>2
      <4>2. i \in 1..(Len(keys) + 1) /\ keys'[i] = m
        BY <1>1, <2>4, <4>1
      <4> QED
        BY <2>3, <2>5, <4>2
    <3> QED
      BY <1>3, <3>1, <3>2
  <2> QED
    BY <1>1, <1>2, <2>4, <2>5, <2>6 DEF KeysStep, Orders
<1> QED
  BY <1>4, <1>5

\* The keys that are left begin with the first ones if none of these was removed.
LEMMA FirstKeysStay ==
  ASSUME NEW R \in SUBSET Names, NEW s \in Orders(R), NEW Q \in SUBSET R, NEW t \in KeysLeft(s, Q),
         NEW p \in 0..Len(s), \A i \in 1..p : s[i] \in Q
  PROVE  p <= Len(t) /\ \A i \in 1..p : t[i] = s[i]
<1>1. /\ Len(s) \in Nat /\ \A i, j \in 1..Len(s) : s[i] = s[j] => i = j
      /\ DOMAIN s = 1..Len(s)
  BY OrdersAre
<1>2. /\ Len(t) \in Nat /\ \A i, j \in 1..Len(t) : t[i] = t[j] => i = j
      /\ \A n \in Q : \E i \in 1..Len(t) : t[i] = n
      /\ DOMAIN t = 1..Len(t)
  <2>1. t \in Orders(Q) /\ Q \in SUBSET Names
    BY DEF KeysLeft
  <2> QED
    BY <2>1, OrdersAre
<1>3. \A i, j \in 1..Len(t) :
        i < j => \E k, l \in 1..Len(s) : k < l /\ s[k] = t[i] /\ s[l] = t[j]
  BY <1>1, <1>2 DEF KeysLeft
<1> DEFINE Bad == {i \in 1..p : ~(i <= Len(t) /\ t[i] = s[i])}
<1>4. SUFFICES ASSUME Bad # {} PROVE FALSE
  <2>1. \A i \in 1..p : i <= Len(t) /\ t[i] = s[i]
    BY <1>4
  <2>2. p = 0 \/ p \in 1..p
    BY <1>1
  <2> QED
    BY <1>2, <2>1, <2>2
<1>5. PICK i \in Bad : \A j \in Bad : i <= j
  <2>1. Bad \in SUBSET Nat
    BY <1>1
  <2> HIDE DEF Bad
  <2>2. \E i \in Bad : \A j \in Bad : ~(<<j, i>> \in OpToRel(<, Nat))
    BY <1>4, <2>1, NatLessThanWellFounded, WFMin
  <2>3. \A i, j \in Nat : j < i => <<j, i>> \in OpToRel(<, Nat)
    BY DEF OpToRel
  <2>4. PICK i \in Bad : \A j \in Bad : ~(<<j, i>> \in OpToRel(<, Nat))
    BY <2>2
  <2>5. ASSUME NEW j \in Bad PROVE i <= j
    <3>1. i \in Nat /\ j \in Nat /\ ~(j < i)
      BY <2>1, <2>3, <2>4
    <3> QED
      BY <3>1
  <2> QED
    BY <2>5
<1>6. i \in 1..p /\ i \in 1..Len(s) /\ ~(i <= Len(t) /\ t[i] = s[i])
  BY <1>1
<1>7. \A j \in 1..p : j < i => j \in 1..Len(t) /\ t[j] = s[j]
  BY <1>1, <1>5, <1>6
<1> HIDE DEF Bad
<1>8. PICK j \in 1..Len(t) : t[j] = s[i]
  BY <1>2, <1>6
<1>9. CASE j < i
  <2>1. j \in 1..p /\ j \in 1..Len(s) /\ s[j] = s[i]
    BY <1>1, <1>2, <1>6, <1>7, <1>8, <1>9
  <2> QED
    BY <1>1, <1>6, <1>9, <2>1
<1>10. CASE j = i
  BY <1>2, <1>6, <1>8, <1>10
<1>11. CASE j > i
  <2>1. i \in 1..Len(t)
    BY <1>1, <1>2, <1>6, <1>8, <1>11
  <2>2. PICK k, l \in 1..Len(s) : k < l /\ s[k] = t[i] /\ s[l] = t[j]
    BY <1>3, <1>8, <1>11, <2>1
  <2>3. l = i
    BY <1>1, <1>6, <1>8, <2>2
  <2>4. k \in 1..p /\ k < i
    BY <1>1, <1>6, <2>2, <2>3
  <2>5. k \in 1..Len(t) /\ t[k] = t[i]
    BY <1>7, <2>2, <2>4
  <2> QED
    BY <1>2, <2>1, <2>4, <2>5
<1> QED
  BY <1>1, <1>2, <1>6, <1>8, <1>9, <1>10, <1>11

LEMMA UnloadKeys ==
  ASSUME models \in [Names -> Versions], keys \in Orders(Registered), NEW S, Unload(S)
  PROVE  KeysStep
<1>1. models' = [n \in Names |-> IF n \in S THEN 0 ELSE models[n]]
  BY UnloadedModels
<1>2. models' \in [Names -> Versions]
  BY <1>1, ModelServerAssumption DEF Versions
<1>3. Registered' = Registered \ S
  BY <1>1 DEF Registered
<1>4. keys' \in KeysLeft(keys, Registered \ S)
  BY DEF Unload
<1>5. keys' \in Orders(Registered')
  BY <1>3, <1>4 DEF KeysLeft
<1>6. Registered \in SUBSET Names /\ Registered \ S \in SUBSET Registered
  BY DEF Registered
<1>7. ASSUME NEW p \in 0..Len(keys), \A i \in 1..p : models'[keys[i]] # 0
      PROVE  p <= Len(keys') /\ \A i \in 1..p : keys'[i] = keys[i]
  <2>1. Len(keys) \in Nat /\ keys \in Seq(Registered)
    BY <1>6, OrdersAre
  <2>2. \A i \in 1..p : keys[i] \in Registered'
    BY <1>7, <2>1 DEF Registered
  <2> QED
    BY <1>3, <1>4, <1>6, <2>2, FirstKeysStay
<1> QED
  BY <1>2, <1>5, <1>7 DEF KeysStep

LEMMA UnloadReady ==
  ASSUME ready \in [Names -> SUBSET (1..MaxVersions)], NEW S, Unload(S)
  PROVE  ready' \in [Names -> SUBSET (1..MaxVersions)]
<1>1. ready' = [n \in Names |-> IF n \in S THEN ready[n] \ {models[n]} ELSE ready[n]]
  BY Zenon DEF Unload
<1> QED
  BY <1>1

-----------------------------------------------------------------------------
LEMMA CallsAre ==
  ASSUME NEW r \in Calls
  PROVE  /\ r.pc \in Waits \cup {"idle"} /\ r.kind \in Kinds /\ r.via \in Vias
         /\ r.name \in Names \cup {NoName} /\ r.version \in Versions
         /\ r.pos \in Nat /\ r.left \in Nat /\ r.size \in Nat
         /\ r.listed \in Seq(Names) /\ Len(r.listed) \in Nat /\ r.seen \in SUBSET Versions
         /\ "answer" \notin DOMAIN r
<1>1. r.listed \in Seq(Names)
  BY DEF Calls
<1>2. Len(r.listed) \in Nat
  BY <1>1
<1> QED
  BY <1>1, <1>2 DEF Calls

LEMMA NewCalls ==
  ASSUME NEW k \in Kinds, NEW via \in Vias, NEW n \in Names \cup {NoName}
  PROVE  /\ Call(k, via, n) \in Calls
         /\ Call(k, via, n).listed = <<>>
BY ModelServerAssumption DEF Calls, Call, Versions

LEMMA AnswersAre ==
  ASSUME NEW r \in Calls, NEW a \in Answers
  PROVE  /\ Answered(r, a) \in Replies /\ IsAnswer(Answered(r, a))
         /\ Answered(r, a).answer = a
         /\ a = "ok" => Answered(r, a).listed = r.listed
<1>1. r.listed \in Seq(Names)
  BY CallsAre
<1>2. Answered(r, a) = [answer |-> a, listed |-> IF a = "ok" THEN r.listed ELSE <<>>]
  BY DEF Answered
<1>3. (IF a = "ok" THEN r.listed ELSE <<>>) \in Seq(Names)
  BY <1>1
<1> QED
  BY <1>2, <1>3 DEF Replies, IsAnswer

\* A call goes on rightly while the registry changes.
LEMMA FollowsRight ==
  ASSUME KeysStep, keys \in Orders(Registered), NEW r \in Calls, WaitsRight(r), IndexRight(r, keys)
  PROVE  LET f == Follows(r, models') IN
         /\ f \in Calls /\ f.pc = r.pc /\ f.kind = r.kind
         /\ WaitsRight(f) /\ IndexRight(f, keys')
<1> DEFINE f == Follows(r, models')
<1>1. /\ r.pos \in Nat /\ r.left \in Nat /\ r.size \in Nat /\ r.pc \in Waits \cup {"idle"}
      /\ r.kind \in Kinds /\ r.seen \in SUBSET Versions
  BY CallsAre
<1>2. CASE r.pc = "idle" \/ r.kind = "load"
  <2>1. f = r
    BY <1>2 DEF Follows
  <2>2. r.pc # "indexing"
    BY <1>2 DEF WaitsRight
  <2> QED
    BY <2>1, <2>2 DEF IndexRight
<1>3. CASE r.pc # "idle" /\ r.kind \notin {"index", "load"}
  <2>1. f = [r EXCEPT !.seen = @ \cup {models'[r.name]}]
    BY <1>3 DEF Follows
  <2>2. r.name \in Names /\ models'[r.name] \in Versions /\ r.pc # "indexing"
    BY <1>3 DEF WaitsRight, KeysStep
  <2>3. PICK seen \in SUBSET Versions : f = [r EXCEPT !.seen = seen]
    BY <1>1, <2>1, <2>2
  <2> QED
    BY <1>3, <2>2, <2>3 DEF Calls, WaitsRight, IndexRight
<1>4. CASE r.pc # "idle" /\ r.kind = "index"
  <2> DEFINE left == {i \in 1..r.pos : models'[keys[i]] # 0}
  <2>1. f = [r EXCEPT !.pos = Cardinality(left)]
    BY <1>4 DEF Follows
  <2>2. IsFiniteSet(1..r.pos) /\ Cardinality(1..r.pos) = r.pos /\ left \subseteq 1..r.pos
    <3>1. \A p \in Nat : IsFiniteSet(1..p) /\ Cardinality(1..p) = p
      BY FS_Interval
    <3> QED
      BY <1>1, <3>1
  <2>3. /\ Cardinality(left) \in Nat /\ Cardinality(left) <= r.pos
        /\ Cardinality(left) = r.pos => left = 1..r.pos
    BY <2>2, FS_Subset, FS_CardinalityType
  <2>4. r.pc = "indexing"
    BY <1>4 DEF WaitsRight
  <2>5. left = 1..r.pos => \A i \in 1..r.pos : models'[keys[i]] # 0
    OBVIOUS
  <2> HIDE DEF left
  <2>6. PICK pos \in Nat : /\ f = [r EXCEPT !.pos = pos] /\ pos <= r.pos
                           /\ pos = r.pos => \A i \in 1..r.pos : models'[keys[i]] # 0
    BY <2>1, <2>3, <2>5
  <2>7. /\ f \in Calls /\ f.pos = pos /\ f.listed = r.listed /\ f.name = r.name /\ f.left = r.left
        /\ f.size = r.size /\ f.pc = r.pc /\ f.kind = r.kind /\ f.version = r.version
    BY <2>6 DEF Calls
  <2>8. /\ Len(r.listed) + 1 + r.left = r.size
        /\ r.pos + r.left <= r.size
        /\ r.pos + r.left = r.size =>
             r.pos <= Len(keys) /\ \A i \in 1..r.pos : Append(r.listed, r.name)[i] = keys[i]
    BY <2>4 DEF IndexRight
  <2>9. ASSUME pos + r.left = r.size
        PROVE  pos <= Len(keys') /\ \A i \in 1..pos : Append(r.listed, r.name)[i] = keys'[i]
    <3>1. pos = r.pos /\ r.pos + r.left = r.size
      BY <1>1, <2>6, <2>8, <2>9
    <3>2. r.pos \in 0..Len(keys) /\ \A i \in 1..r.pos : models'[keys[i]] # 0
      <4>1. Len(keys) \in Nat
        BY OrdersAre DEF Registered
      <4> QED
        BY <1>1, <2>6, <2>8, <3>1, <4>1
    <3>3. r.pos <= Len(keys') /\ \A i \in 1..r.pos : keys'[i] = keys[i]
      BY <3>2 DEF KeysStep
    <3> QED
      BY <2>8, <3>1, <3>3
  <2>10. pos + r.left <= r.size
    BY <1>1, <2>6, <2>8
  <2> HIDE DEF f
  <2>11. IndexRight(f, keys')
    BY <2>7, <2>8, <2>9, <2>10 DEF IndexRight
  <2> QED
    BY <2>7, <2>11 DEF WaitsRight, f
<1> QED
  BY <1>2, <1>3, <1>4 DEF Kinds

\* The registered names, each once.
IsExact(l) ==
  /\ {l[i] : i \in DOMAIN l} = Registered'
  /\ Len(l) = Cardinality(Registered')

\* A call that waits rightly.
CallRight(r) == r \in Calls /\ r.pc # "idle" /\ WaitsRight(r) /\ IndexRight(r, keys)

\* What a turn needs for the index: an answer or a call that is right.
TurnFits(c, r) ==
  /\ Turn(c, r, models') /\ KeysStep
  /\ ready' \in [Names -> SUBSET (1..MaxVersions)]
  /\ \/ /\ IsAnswer(r) /\ r \in Replies
        /\ InFlight(c) /\ req[c].kind = "index" /\ r.answer = "ok" => IsExact(r.listed)
     \/ CallRight(r)

\* The part of IndexIsExact that is about one caller.
IndexExactOf(c) ==
  req[c].kind = "index" /\ InFlight(c) /\ ~InFlight(c)' /\ reply'.answer = "ok" =>
    IsExact(reply'.listed)

LEMMA IdleRight == Idle \in Calls /\ Idle.pc = "idle"
BY NewCalls DEF Idle, Kinds, Vias, Call

LEMMA NoReplyFits == NoReply \in Replies /\ NoReply.answer = "none"
<1>1. <<>> \in Seq(Names)
  OBVIOUS
<1> QED
  BY <1>1 DEF NoReply, Replies, Answers

\* A turn of the event loop keeps the index right, whichever handler it belongs to.
LEMMA TurnKeepsIndex ==
  ASSUME IndexIInv, ServerIInv', NEW c \in Callers, NEW r, TurnFits(c, r)
  PROVE  IndexIInv' /\ \A d \in Callers : IndexExactOf(d)
<1>1. "answer" \in DOMAIN r <=> IsAnswer(r)
  BY CallsAre DEF IsAnswer, TurnFits, CallRight
<1>2. /\ req' = [d \in Callers |-> IF d = c /\ IsAnswer(r) THEN Idle
                                   ELSE Follows(IF d = c THEN r ELSE req[d], models')]
      /\ reply' = IF IsAnswer(r) THEN r ELSE NoReply
      /\ UNCHANGED serverVars
  BY <1>1 DEF Turn, TurnFits
<1>3. KeysStep /\ keys \in Orders(Registered)
  BY DEF TurnFits, IndexIInv, ServerTypeOK
<1>4. ASSUME NEW d \in Callers
      PROVE  /\ req'[d] \in Calls /\ WaitsRight(req'[d]) /\ IndexRight(req'[d], keys')
             /\ InFlight(d) /\ ~InFlight(d)' => d = c /\ IsAnswer(r)
  <2>1. CASE d = c /\ IsAnswer(r)
    <3>1. req'[d] = Idle
      BY <1>2, <2>1
    <3> QED
      BY <2>1, <3>1, IdleRight DEF WaitsRight, IndexRight
  <2>2. CASE d = c /\ ~IsAnswer(r)
    <3>1. req'[d] = Follows(r, models') /\ r \in Calls /\ r.pc # "idle" /\ WaitsRight(r)
          /\ IndexRight(r, keys)
      BY <1>2, <2>2 DEF TurnFits, CallRight
    <3> QED
      BY <1>3, <3>1, FollowsRight DEF InFlight
  <2>3. CASE d # c
    <3>1. req'[d] = Follows(req[d], models')
      BY <1>2, <2>3
    <3>2. req[d] \in Calls /\ WaitsRight(req[d]) /\ IndexRight(req[d], keys)
      BY DEF IndexIInv, ServerTypeOK
    <3> QED
      BY <1>3, <3>1, <3>2, FollowsRight DEF InFlight
  <2> QED
    BY <2>1, <2>2, <2>3
<1>5. reply' \in Replies
  <2>1. IsAnswer(r) => r \in Replies
    BY <1>1, CallsAre DEF TurnFits, CallRight
  <2> QED
    BY <1>2, <2>1, NoReplyFits
<1>6. ServerTypeOK'
  <2>1. req' \in [Callers -> Calls]
    BY <1>2, <1>4
  <2>2. enable_grpc' \in BOOLEAN
    BY <1>2 DEF serverVars, IndexIInv, ServerTypeOK
  <2> QED
    BY <1>3, <1>5, <2>1, <2>2
       DEF ServerTypeOK, KeysStep, TurnFits, ServerIInv, StagesRight, SeenRight
<1>7. IndexIInv'
  BY <1>4, <1>6 DEF IndexIInv
<1>8. ASSUME NEW d \in Callers PROVE IndexExactOf(d)
  <2> SUFFICES ASSUME req[d].kind = "index", InFlight(d), ~InFlight(d)', reply'.answer = "ok"
               PROVE  IsExact(reply'.listed)
    BY DEF IndexExactOf
  <2>1. d = c /\ IsAnswer(r)
    BY <1>4
  <2>2. reply' = r
    BY <1>2, <2>1
  <2>3. r \notin Calls
    BY <1>1, <2>1, CallsAre
  <2> QED
    BY <2>1, <2>2, <2>3 DEF TurnFits, CallRight
<1> QED
  BY <1>7, <1>8

-----------------------------------------------------------------------------
\* What the parts of a handler make of the call, for the index.

\* A call whose name is looked up is answered, or waits with the object found.
LEMMA LookedUpRight ==
  ASSUME models \in [Names -> Versions], NEW r \in Calls, r.name \in Names, r.kind # "index",
         NEW at \in Waits \ {"indexing"}
  PROVE  LET s == LookedUp(r, at) IN
         \/ IsAnswer(s) /\ s \in Replies
         \/ CallRight(s)
<1>1. CASE models[r.name] = 0
  BY <1>1, AnswersAre DEF LookedUp, Answers
<1>2. CASE models[r.name] # 0
  <2>1. LookedUp(r, at) = [r EXCEPT !.pc = at, !.version = models[r.name]]
    BY <1>2 DEF LookedUp
  <2>2. PICK v \in Versions \ {0} : LookedUp(r, at) = [r EXCEPT !.pc = at, !.version = v]
    BY <1>2, <2>1
  <2>3. at # "idle"
    BY DEF Waits
  <2> QED
    BY <2>2, <2>3 DEF CallRight, Calls, WaitsRight, IndexRight
<1> QED
  BY <1>1, <1>2

\* The loop over the keys lists them all or fails, or it waits for the next one.
LEMMA IteratedRight ==
  ASSUME models \in [Names -> Versions], keys \in Orders(Registered),
         NEW r \in Calls, r.kind = "index",
         Len(r.listed) + r.left = r.size, r.pos + r.left <= r.size,
         r.pos + r.left = r.size =>
           r.pos <= Len(keys) /\ \A i \in 1..r.pos : r.listed[i] = keys[i]
  PROVE  LET s == Iterated(r) IN
         \/ IsAnswer(s) /\ s \in Replies /\ (s.answer = "ok" => s.listed = keys)
         \/ CallRight(s)
<1>1. /\ keys \in Seq(Names) /\ keys \in Seq(Registered) /\ Len(keys) \in Nat
  <2>1. Registered \in SUBSET Names
    BY DEF Registered
  <2> QED
    BY <2>1, OrdersAre
<1>2. /\ r.pos \in Nat /\ r.left \in Nat /\ r.size \in Nat
      /\ r.listed \in Seq(Names) /\ Len(r.listed) \in Nat
  BY CallsAre
<1>3. CASE Len(keys) # r.size \/ (r.pos < Len(keys) /\ r.left = 0)
  <2>1. Iterated(r) = Answered(r, "Error")
    BY <1>1, <1>2, <1>3 DEF Iterated
  <2> QED
    BY <2>1, AnswersAre DEF Answers
<1>4. CASE Len(keys) = r.size /\ r.pos = Len(keys)
  <2>1. Iterated(r) = Answered(r, "ok")
    BY <1>1, <1>2, <1>4 DEF Iterated
  <2>2. r.left = 0 /\ Len(r.listed) = Len(keys) /\ \A i \in 1..Len(keys) : r.listed[i] = keys[i]
    BY <1>1, <1>2, <1>4
  <2>3. r.listed = keys
    BY <1>1, <1>2, <2>2
  <2> QED
    BY <2>1, <2>3, AnswersAre DEF Answers
<1>5. CASE Len(keys) = r.size /\ r.pos < Len(keys) /\ r.left # 0
  <2>1. PICK n : n = keys[r.pos + 1]
    OBVIOUS
  <2>2. n \in Registered /\ n \in Names /\ models[n] \in Versions \ {0}
    <3>1. n \in Registered
      BY <1>1, <1>2, <1>5, <2>1
    <3> QED
      BY <3>1 DEF Registered
  <2>3. PICK v \in Versions \ {0} : v = models[n]
    BY <2>2
  <2>4. PICK pos \in Nat, left \in Nat : pos = r.pos + 1 /\ left = r.left - 1
    BY <1>2, <1>5
  <2>5. Iterated(r) = [r EXCEPT !.pc = "indexing", !.pos = pos, !.left = left, !.name = n, !.version = v]
    BY <1>1, <1>2, <1>5, <2>1, <2>3, <2>4 DEF Iterated
  <2>6. /\ Iterated(r) \in Calls /\ Iterated(r).pc = "indexing" /\ Iterated(r).kind = "index"
        /\ Iterated(r).name = n /\ Iterated(r).version = v /\ Iterated(r).pos = pos
        /\ Iterated(r).left = left /\ Iterated(r).size = r.size /\ Iterated(r).listed = r.listed
    BY <2>2, <2>5 DEF Calls, Waits
  <2>7. Len(r.listed) + 1 + left = r.size /\ pos + left <= r.size
    <3>1. PICK len \in Nat : len = Len(r.listed)
      BY <1>2
    <3>2. len + r.left = r.size /\ r.pos + r.left <= r.size
      BY <3>1
    <3>3. len + 1 + left = r.size /\ pos + left <= r.size
      BY <1>2, <2>4, <3>2
    <3> QED
      BY <3>1, <3>3
  <2>8. ASSUME pos + left = r.size
        PROVE  pos <= Len(keys) /\ \A i \in 1..pos : Append(r.listed, n)[i] = keys[i]
    <3>1. r.pos + r.left = r.size /\ Len(r.listed) = r.pos /\ pos <= Len(keys)
      <4>1. PICK len \in Nat, size \in Nat, p \in Nat, m \in Nat, k \in Nat :
              len = Len(r.listed) /\ size = r.size /\ p = r.pos /\ m = r.left /\ k = Len(keys)
        BY <1>1, <1>2
      <4>2. len + m = size /\ p < k /\ pos = p + 1 /\ left = m - 1 /\ pos + left = size
        BY <1>5, <2>4, <2>8, <4>1
      <4>3. p + m = size /\ len = p /\ pos <= k
        BY <4>2
      <4> QED
        BY <4>1, <4>3
    <3>2. ASSUME NEW i \in 1..pos PROVE Append(r.listed, n)[i] = keys[i]
      <4>1. CASE i = pos
        BY <1>2, <2>1, <2>4, <3>1, <4>1
      <4>2. CASE i # pos
        <5>1. i \in 1..r.pos
          BY <1>2, <2>4, <4>2
        <5>2. r.listed[i] = keys[i]
          BY <3>1, <5>1
        <5>3. Append(r.listed, n)[i] = r.listed[i]
          BY <1>2, <3>1, <5>1
        <5> QED
          BY <5>2, <5>3
      <4> QED
        BY <4>1, <4>2
    <3> QED
      BY <3>1, <3>2
  <2>9. IndexRight(Iterated(r), keys)
    BY <2>6, <2>7, <2>8 DEF IndexRight
  <2> QED
    BY <2>2, <2>6, <2>9 DEF CallRight, WaitsRight
<1> QED
  BY <1>1, <1>2, <1>3, <1>4, <1>5

\* The keys are what is registered.
LEMMA KeysExact ==
  ASSUME keys \in Orders(Registered), models' = models
  PROVE  IsExact(keys)
<1>1. Registered' = Registered /\ Registered \in SUBSET Names
  BY DEF Registered
<1>2. /\ keys \in Seq(Registered) /\ Len(keys) = Cardinality(Registered)
      /\ \A n \in Registered : \E i \in 1..Len(keys) : keys[i] = n
      /\ DOMAIN keys = 1..Len(keys) /\ Len(keys) \in Nat
  BY <1>1, OrdersAre
<1>3. \A i \in DOMAIN keys : keys[i] \in Registered
  BY <1>2
<1> QED
  BY <1>1, <1>2, <1>3 DEF IsExact


-----------------------------------------------------------------------------
\* A turn that leaves the registry alone.
LEMMA SameTurn ==
  ASSUME IndexIInv, ServerIInv, models' = models, keys' = keys,
         ready' \in [Names -> SUBSET (1..MaxVersions)],
         NEW c \in Callers, NEW r, Turn(c, r, live),
         \/ /\ IsAnswer(r) /\ r \in Replies
            /\ InFlight(c) /\ req[c].kind = "index" /\ r.answer = "ok" => r.listed = keys
         \/ CallRight(r)
  PROVE  TurnFits(c, r)
<1>1. models \in [Names -> Versions] /\ keys \in Orders(Registered)
  BY DEF IndexIInv, ServerTypeOK
<1>2. KeysStep /\ IsExact(keys)
  BY <1>1, SameKeys, KeysExact
<1>3. Turn(c, r, models')
  BY DEF ServerIInv, SeenRight
<1> QED
  BY <1>2, <1>3 DEF TurnFits

\* A call that arrives.
LEMMA ReceiveFits ==
  ASSUME IndexIInv, ServerIInv, NEW c \in Callers, Receive(c)
  PROVE  \E r : TurnFits(c, r)
<1>t. /\ models \in [Names -> Versions] /\ keys \in Orders(Registered) /\ live = models
      /\ ready \in [Names -> SUBSET (1..MaxVersions)] /\ made \in Versions
  BY DEF IndexIInv, ServerTypeOK, ServerIInv, SeenRight
<1>i. ~InFlight(c)
  BY DEF Receive, HandleIndex, HandleInfer, HandleReady, HandleLoad, HandleUnload, Arrives
<1>1. CASE HandleIndex(c)
  <2>1. /\ models' = models /\ keys' = keys /\ ready' = ready
        /\ Turn(c, Iterated([Call("index", "rest", NoName) EXCEPT !.size = Len(keys), !.left = Len(keys)]), live)
    BY <1>1 DEF HandleIndex, repoVars
  <2>2. Len(keys) \in Nat
    <3>1. Registered \in SUBSET Names
      BY DEF Registered
    <3> QED
      BY <1>t, <3>1, OrdersAre
  <2>3. PICK len \in Nat : len = Len(keys)
    BY <2>2
  <2>4. PICK r : r = [Call("index", "rest", NoName) EXCEPT !.size = len, !.left = len]
    OBVIOUS
  <2>5. Call("index", "rest", NoName) \in Calls
    BY NewCalls DEF Kinds, Vias
  <2>6. /\ r \in Calls /\ r.kind = "index" /\ r.pos = 0 /\ r.left = len /\ r.size = len
        /\ r.listed = <<>>
    BY <2>4, <2>5 DEF Calls, Call
  <2>7. Len(r.listed) + r.left = r.size /\ r.pos + r.left <= r.size
        /\ r.pos <= Len(keys) /\ \A i \in 1..r.pos : r.listed[i] = keys[i]
    BY <2>3, <2>6
  <2>8. \/ IsAnswer(Iterated(r)) /\ Iterated(r) \in Replies
        \/ CallRight(Iterated(r))
    BY <1>t, <2>6, <2>7, IteratedRight
  <2>9. Turn(c, Iterated(r), live)
    BY <2>1, <2>3, <2>4
  <2> QED
    BY <1>i, <1>t, <2>1, <2>8, <2>9, SameTurn
<1>2. ASSUME NEW via \in Vias, NEW n \in Names, HandleInfer(c, via, n)
      PROVE  \E r : TurnFits(c, r)
  <2> DEFINE at == IF via = "rest" THEN "checking" ELSE "fetching"
             r == Call("infer", via, n)
  <2>1. models' = models /\ keys' = keys /\ ready' = ready /\ Turn(c, LookedUp(r, at), live)
    BY <1>2 DEF HandleInfer, repoVars
  <2>2. r \in Calls /\ r.kind # "index" /\ r.name \in Names
    BY NewCalls DEF Kinds, Call
  <2>3. at \in Waits \ {"indexing"}
    BY DEF Waits
  <2> HIDE DEF r, at
  <2>4. \/ IsAnswer(LookedUp(r, at)) /\ LookedUp(r, at) \in Replies
        \/ CallRight(LookedUp(r, at))
    BY <1>t, <2>2, <2>3, LookedUpRight
  <2> QED
    BY <1>i, <1>t, <2>1, <2>4, SameTurn
<1>3. ASSUME NEW via \in Vias, NEW n \in Names, HandleReady(c, via, n)
      PROVE  \E r : TurnFits(c, r)
  <2> DEFINE r == Call("ready", via, n)
  <2>1. models' = models /\ keys' = keys /\ ready' = ready /\ Turn(c, LookedUp(r, "checking"), live)
    BY <1>3 DEF HandleReady, repoVars
  <2>2. r \in Calls /\ r.kind # "index" /\ r.name \in Names /\ "checking" \in Waits \ {"indexing"}
    BY NewCalls DEF Kinds, Call, Waits
  <2> HIDE DEF r
  <2>3. \/ IsAnswer(LookedUp(r, "checking")) /\ LookedUp(r, "checking") \in Replies
        \/ CallRight(LookedUp(r, "checking"))
    BY <1>t, <2>2, LookedUpRight
  <2> QED
    BY <1>i, <1>t, <2>1, <2>3, SameTurn
<1>4. ASSUME NEW via \in Vias, NEW n \in Names, HandleLoad(c, via, n)
      PROVE  \E r : TurnFits(c, r)
  <2>1. PICK v \in Versions \ {0} : v = made + 1 /\ v \in 1..MaxVersions
    BY <1>4, <1>t, ModelServerAssumption DEF HandleLoad, Versions
  <2>2. Call("load", via, n) \in Calls
    BY NewCalls DEF Kinds
  <2>3. PICK r : r = [Call("load", via, n) EXCEPT !.pc = "loading", !.version = v]
    OBVIOUS
  <2>4. CallRight(r)
    BY <2>2, <2>3 DEF CallRight, Calls, Call, Waits, WaitsRight, IndexRight
  <2>5. CASE /\ ready' = [ready EXCEPT ![n] = @ \cup {v}]
             /\ Update(n, v) /\ Turn(c, r, [live EXCEPT ![n] = v])
    <3>1. models' = [live EXCEPT ![n] = v]
      BY <1>t, <2>5 DEF Update
    <3>2. KeysStep
      BY <1>t, <2>5, UpdateKeys
    <3>3. ready' \in [Names -> SUBSET (1..MaxVersions)]
      BY <1>t, <2>1, <2>5
    <3>4. TurnFits(c, r)
      BY <2>4, <2>5, <3>1, <3>2, <3>3 DEF TurnFits
    <3> QED
      BY <3>4
  <2>6. CASE /\ models' = models /\ keys' = keys /\ ready' = ready
             /\ Turn(c, Answered(Call("load", via, n), "NotReady"), live)
    <3>1. /\ IsAnswer(Answered(Call("load", via, n), "NotReady"))
          /\ Answered(Call("load", via, n), "NotReady") \in Replies
      BY <2>2, AnswersAre DEF Answers
    <3> QED
      BY <1>i, <1>t, <2>6, <3>1, SameTurn
  <2> QED
    BY <1>4, <2>1, <2>3, <2>5, <2>6 DEF HandleLoad
<1>5. ASSUME NEW via \in Vias, NEW n \in Names, HandleUnload(c, via, n)
      PROVE  \E r : TurnFits(c, r)
  <2> DEFINE q == Call("unload", via, n)
  <2>1. q \in Calls
    BY NewCalls DEF Kinds
  <2>2. Outcome(q) \in Answers
    BY DEF Outcome, Answers
  <2>3. /\ IsAnswer(Answered(q, Outcome(q))) /\ Answered(q, Outcome(q)) \in Replies
        /\ IsAnswer(Answered(q, "NotFound")) /\ Answered(q, "NotFound") \in Replies
    BY <2>1, <2>2, AnswersAre DEF Answers
  <2>4. CASE /\ models' = models /\ keys' = keys /\ ready' = ready
             /\ Turn(c, Answered(q, "NotFound"), live)
    <3> HIDE DEF q
    <3> QED
      BY <1>i, <1>t, <2>3, <2>4, SameTurn
  <2>5. CASE Unload({n}) /\ Turn(c, Answered(q, Outcome(q)), [live EXCEPT ![n] = 0])
    <3>1. models' = [m \in Names |-> IF m \in {n} THEN 0 ELSE models[m]]
      BY <2>5, UnloadedModels
    <3>2. models' = [live EXCEPT ![n] = 0]
      BY <1>t, <3>1
    <3>3. KeysStep
      BY <1>t, <2>5, UnloadKeys
    <3>4. ready' \in [Names -> SUBSET (1..MaxVersions)]
      BY <1>t, <2>5, UnloadReady
    <3> HIDE DEF q
    <3>5. TurnFits(c, Answered(q, Outcome(q)))
      BY <1>i, <2>3, <2>5, <3>2, <3>3, <3>4 DEF TurnFits
    <3> QED
      BY <3>5
  <2> QED
    BY <1>5, <2>4, <2>5 DEF HandleUnload
<1> QED
  BY <1>1, <1>2, <1>3, <1>4, <1>5 DEF Receive


\* A handler that goes on.
LEMMA ContinueFits ==
  ASSUME IndexIInv, ServerIInv, NEW c \in Callers, Continue(c)
  PROVE  \E r : TurnFits(c, r)
<1> DEFINE q == req[c]
<1>t. /\ models \in [Names -> Versions] /\ keys \in Orders(Registered)
      /\ ready \in [Names -> SUBSET (1..MaxVersions)]
      /\ q \in Calls /\ WaitsRight(q) /\ IndexRight(q, keys)
  BY DEF IndexIInv, ServerTypeOK
<1>f. CallOK(q)
  BY DEF ServerIInv, CallsOK
<1>w. /\ q.pc # "idle" => q.name \in Names /\ q.version # 0
      /\ q.pc \notin {"idle", "indexing"} => q.kind # "index"
      /\ q.pc = "indexing" => q.kind = "index"
  BY <1>t DEF WaitsRight
<1>a. \A a \in Answers : IsAnswer(Answered(q, a)) /\ Answered(q, a) \in Replies
  BY <1>t, AnswersAre
<1>g. ASSUME NEW at \in Waits \ {"indexing"}, q.pc \notin {"idle", "indexing"}
      PROVE  CallRight([q EXCEPT !.pc = at])
  BY <1>t, <1>w, <1>g DEF CallRight, Calls, Waits, WaitsRight, IndexRight
<1> SUFFICES \E r : /\ models' = models /\ keys' = keys
                    /\ ready' \in [Names -> SUBSET (1..MaxVersions)]
                    /\ Turn(c, r, live)
                    /\ \/ /\ IsAnswer(r) /\ r \in Replies
                          /\ q.kind = "index" /\ r.answer = "ok" => r.listed = keys
                       \/ CallRight(r)
  BY SameTurn
<1> HIDE DEF q
<1>1. CASE Checked(c)
  <2> DEFINE r == [q EXCEPT !.pc = "body"]
  <2>1. q.pc = "checking" /\ models' = models /\ keys' = keys /\ ready' = ready
    BY <1>1 DEF Checked, repoVars, q
  <2>2. \/ Turn(c, Answered(q, "NotReady"), live)
        \/ Turn(c, Answered(q, "ok"), live)
        \/ Turn(c, r, live)
    BY <1>1 DEF Checked, q
  <2>3. CallRight(r)
    BY <1>g, <2>1 DEF Waits
  <2> HIDE DEF r
  <2> QED
    BY <1>t, <1>a, <1>w, <2>1, <2>2, <2>3 DEF Answers
<1>2. CASE HasBody(c)
  <2>1. /\ q.pc = "body" /\ models' = models /\ keys' = keys /\ ready' = ready
        /\ Turn(c, LookedUp(q, "fetching"), live)
    BY <1>2 DEF HasBody, repoVars, q
  <2>2. q.kind # "index" /\ q.name \in Names /\ "fetching" \in Waits \ {"indexing"}
    BY <1>w, <2>1 DEF Waits
  <2>3. \/ IsAnswer(LookedUp(q, "fetching")) /\ LookedUp(q, "fetching") \in Replies
        \/ CallRight(LookedUp(q, "fetching"))
    BY <1>t, <2>2, LookedUpRight
  <2> QED
    BY <1>t, <2>1, <2>2, <2>3
<1>3. CASE Fetched(c)
  <2> DEFINE r == [q EXCEPT !.pc = "running"]
  <2>1. q.pc = "fetching" /\ models' = models /\ keys' = keys
    BY <1>3 DEF Fetched, q
  <2>2. \/ ready' = [ready EXCEPT ![q.name] = @ \cup {q.version}] /\ Turn(c, r, live)
        \/ ready' = ready /\ Turn(c, Answered(q, "Error"), live)
    BY <1>3 DEF Fetched, q
  <2>3. CallRight(r)
    BY <1>g, <2>1 DEF Waits
  <2>4. q.version \in 1..MaxVersions
    BY <1>t, <1>w, <2>1, CallsAre, ModelServerAssumption DEF Versions
  <2>5. ready' \in [Names -> SUBSET (1..MaxVersions)]
    BY <1>t, <2>2, <2>4
  <2> HIDE DEF r
  <2> QED
    BY <1>a, <1>w, <2>1, <2>2, <2>3, <2>5 DEF Answers
<1>4. CASE Loaded(c)
  <2>1. q.pc = "loading" /\ models' = models /\ keys' = keys /\ ready' = ready
    BY <1>4 DEF Loaded, repoVars, q
  <2>2. \E a \in {"ok", "Error", "NotReady"} : Turn(c, Answered(q, a), live)
    BY <1>4 DEF Loaded, Outcome, q
  <2> QED
    BY <1>t, <1>a, <1>w, <2>1, <2>2 DEF Answers
<1>5. CASE Indexed(c)
  <2>1. q.pc = "indexing" /\ models' = models /\ keys' = keys /\ ready' = ready
        /\ Turn(c, Iterated([q EXCEPT !.listed = Append(@, q.name)]), live)
    BY <1>5 DEF Indexed, repoVars, q
  <2>2. q.listed \in Seq(Names) /\ Len(q.listed) \in Nat /\ q.name \in Names
    BY <1>t, <1>w, <2>1, CallsAre
  <2>3. PICK l \in Seq(Names) : l = Append(q.listed, q.name) /\ Len(l) = Len(q.listed) + 1
    <3>1. \A s \in Seq(Names), n \in Names : Append(s, n) \in Seq(Names) /\ Len(Append(s, n)) = Len(s) + 1
      OBVIOUS
    <3>2. Append(q.listed, q.name) \in Seq(Names) /\ Len(Append(q.listed, q.name)) = Len(q.listed) + 1
      BY <2>2, <3>1
    <3> QED
      BY <3>2
  <2>4. PICK r : r = [q EXCEPT !.listed = l]
    OBVIOUS
  <2>5. /\ r \in Calls /\ r.kind = "index" /\ r.listed = l /\ r.pos = q.pos /\ r.left = q.left
        /\ r.size = q.size
    BY <1>t, <1>w, <2>1, <2>4 DEF Calls
  <2>6. /\ Len(r.listed) + r.left = r.size /\ r.pos + r.left <= r.size
        /\ r.pos + r.left = r.size =>
             r.pos <= Len(keys) /\ \A i \in 1..r.pos : r.listed[i] = keys[i]
    BY <1>t, <2>1, <2>3, <2>5 DEF IndexRight
  <2>7. \/ /\ IsAnswer(Iterated(r)) /\ Iterated(r) \in Replies
           /\ Iterated(r).answer = "ok" => Iterated(r).listed = keys
        \/ CallRight(Iterated(r))
    BY <1>t, <2>5, <2>6, IteratedRight
  <2>8. Turn(c, Iterated(r), live)
    BY <2>1, <2>3, <2>4
  <2> QED
    BY <1>t, <2>1, <2>7, <2>8
<1>6. ASSUME NEW a \in {"ok", "Error"}, Ran(c, a)
      PROVE  \E r : /\ models' = models /\ keys' = keys
                    /\ ready' \in [Names -> SUBSET (1..MaxVersions)]
                    /\ Turn(c, r, live)
                    /\ IsAnswer(r) /\ r \in Replies /\ q.kind # "index"
  <2>1. q.pc = "running" /\ models' = models /\ keys' = keys /\ ready' = ready
        /\ Turn(c, Answered(q, a), live)
    BY <1>6 DEF Ran, repoVars, q
  <2> QED
    BY <1>t, <1>a, <1>w, <2>1 DEF Answers
<1> QED
  BY <1>1, <1>2, <1>3, <1>4, <1>5, <1>6 DEF Continue

-----------------------------------------------------------------------------
\* The steps that leave the calls and the registry alone.
LEMMA IndexUnchanged ==
  ASSUME IndexIInv, ServerIInv', UNCHANGED <<repoVars, req, reply, live, enable_grpc>>
  PROVE  IndexIInv' /\ \A c \in Callers : IndexExactOf(c)
<1>1. models' = models /\ keys' = keys /\ ready' = ready /\ req' = req /\ reply' = reply
      /\ made' = made /\ live' = live /\ enable_grpc' = enable_grpc
  BY DEF repoVars
<1>2. Registered' = Registered
  BY <1>1 DEF Registered
<1>3. ServerTypeOK'
  BY <1>1, <1>2 DEF IndexIInv, ServerTypeOK, ServerIInv, StagesRight
<1>4. IndexIInv'
  BY <1>1, <1>3 DEF IndexIInv
<1> QED
  BY <1>1, <1>4 DEF IndexExactOf, InFlight

\* There are no calls before the start.
LEMMA StartKeepsIndex ==
  ASSUME IndexIInv, ServerIInv, ServerIInv', NEW R \in SUBSET Names, NEW given \in SUBSET Names,
         Start(R, given)
  PROVE  IndexIInv' /\ \A c \in Callers : IndexExactOf(c)
<1>1. loop = "starting" /\ req' = req /\ reply' = reply /\ enable_grpc' = enable_grpc
  BY DEF Start
<1>2. \A c \in Callers : ~InFlight(c)
  BY <1>1, InFlightIsUp DEF Up
<1>3. CASE UNCHANGED <<repoVars, live>>
  BY <1>1, <1>3, IndexUnchanged
<1>4. CASE ~UNCHANGED <<repoVars, live>>
  <2>1. /\ models' = [n \in Names |-> IF n \in R THEN 1 ELSE 0]
        /\ keys' \in Orders(R)
        /\ ready' = [n \in Names |-> IF n \in given THEN {1} ELSE {}]
    BY <1>4 DEF Start
  <2>2. Registered' = R
    BY <2>1 DEF Registered
  <2>3. ready' \in [Names -> SUBSET (1..MaxVersions)]
    <3>1. 1 \in 1..MaxVersions
      BY ModelServerAssumption
    <3> QED
      BY <2>1, <3>1
  <2>4. ServerTypeOK'
    BY <1>1, <2>1, <2>2, <2>3 DEF IndexIInv, ServerTypeOK, ServerIInv, StagesRight, SeenRight
  <2>5. IndexIInv'
    BY <1>1, <1>2, <2>4 DEF IndexIInv, InFlight, WaitsRight, IndexRight
  <2> QED
    BY <1>2, <2>5 DEF IndexExactOf
<1> QED
  BY <1>3, <1>4

\* stop() unloads every model: the calls that are left go on.
LEMMA UnloadAllKeepsIndex ==
  ASSUME IndexIInv, ServerIInv', enable_grpc' = enable_grpc, NEW q,
         \A c \in Callers : q[c] = req[c] \/ q[c] = Idle,
         UnloadAll(q)
  PROVE  IndexIInv' /\ \A c \in Callers : IndexExactOf(c)
<1>t. /\ models \in [Names -> Versions] /\ keys \in Orders(Registered)
      /\ ready \in [Names -> SUBSET (1..MaxVersions)]
      /\ \A c \in Callers : req[c] \in Calls /\ WaitsRight(req[c]) /\ IndexRight(req[c], keys)
  BY DEF IndexIInv, ServerTypeOK
<1>1. models' = [n \in Names |-> IF n \in Registered THEN 0 ELSE models[n]]
  BY UnloadedModels DEF UnloadAll
<1>2. models' = [n \in Names |-> 0]
  BY <1>1 DEF Registered
<1>3. /\ Unload(Registered) /\ reply' = NoReply
      /\ req' = [c \in Callers |-> Follows(q[c], models')]
  BY <1>2 DEF UnloadAll
<1>4. KeysStep /\ ready' \in [Names -> SUBSET (1..MaxVersions)]
  BY <1>t, <1>3, UnloadKeys, UnloadReady
<1>5. ASSUME NEW c \in Callers
      PROVE  req'[c] \in Calls /\ WaitsRight(req'[c]) /\ IndexRight(req'[c], keys')
  <2>1. q[c] \in Calls /\ WaitsRight(q[c]) /\ IndexRight(q[c], keys)
    BY <1>t, IdleRight DEF WaitsRight, IndexRight
  <2> QED
    BY <1>t, <1>3, <1>4, <2>1, FollowsRight
<1>6. ServerTypeOK'
  <2>1. req' \in [Callers -> Calls]
    BY <1>3, <1>5
  <2>2. reply' \in Replies
    BY <1>3, NoReplyFits
  <2> QED
    BY <1>4, <2>1, <2>2
       DEF ServerTypeOK, KeysStep, ServerIInv, StagesRight, SeenRight, IndexIInv
<1>7. IndexIInv'
  BY <1>5, <1>6 DEF IndexIInv
<1>8. reply'.answer # "ok"
  BY <1>3, NoReplyFits
<1> QED
  BY <1>7, <1>8 DEF IndexExactOf

LEMMA StopKeepsIndex ==
  ASSUME IndexIInv, ServerIInv', Stop
  PROVE  IndexIInv' /\ \A c \in Callers : IndexExactOf(c)
<1>1. CASE RestEnds \/ LoopEnds
  BY <1>1, IndexUnchanged DEF RestEnds, LoopEnds
<1>2. CASE ClientsClosed /\ enable_grpc
  BY <1>2, IndexUnchanged DEF ClientsClosed
<1>3. CASE ClientsClosed /\ ~enable_grpc
  BY <1>3, UnloadAllKeepsIndex DEF ClientsClosed
<1>4. CASE GrpcStopped
  <2> DEFINE q == [c \in Callers |-> IF c \in InFlightVia("grpc") THEN Idle ELSE req[c]]
  <2>1. UnloadAll(q) /\ enable_grpc' = enable_grpc
    BY <1>4 DEF GrpcStopped
  <2>2. \A c \in Callers : q[c] = req[c] \/ q[c] = Idle
    OBVIOUS
  <2> HIDE DEF q
  <2> QED
    BY <2>1, <2>2, UnloadAllKeepsIndex
<1> QED
  BY <1>1, <1>2, <1>3, <1>4 DEF Stop

\* One step keeps the index right, and an index that is answered is exact.
LEMMA StepKeepsIndex ==
  ASSUME IndexIInv, ServerIInv, [Next]_vars
  PROVE  IndexIInv' /\ \A c \in Callers : IndexExactOf(c)
<1>i. ServerIInv'
  BY StepKeeps
<1>1. ASSUME NEW R \in SUBSET Names, NEW given \in SUBSET Names, Start(R, given)
      PROVE  IndexIInv' /\ \A c \in Callers : IndexExactOf(c)
  BY <1>1, <1>i, StartKeepsIndex
<1>2. ASSUME NEW c \in Callers, Receive(c) \/ Continue(c)
      PROVE  IndexIInv' /\ \A d \in Callers : IndexExactOf(d)
  <2>1. PICK r : TurnFits(c, r)
    BY <1>2, ReceiveFits, ContinueFits
  <2> QED
    BY <1>i, <2>1, TurnKeepsIndex
<1>3. ASSUME NEW s \in {"TERM", "QUIT"}, Signal(s)
      PROVE  IndexIInv' /\ \A c \in Callers : IndexExactOf(c)
  BY <1>3, <1>i, IndexUnchanged DEF Signal
<1>4. CASE Stop
  BY <1>4, <1>i, StopKeepsIndex
<1>5. CASE UNCHANGED vars
  <2>1. UNCHANGED <<repoVars, req, reply, live, enable_grpc>>
    BY <1>5 DEF vars, serverVars
  <2> QED
    BY <1>i, <2>1, IndexUnchanged
<1> QED
  BY <1>1, <1>2, <1>3, <1>4, <1>5 DEF Next, Exited

LEMMA InitIndex == Init => IndexIInv
<1> SUFFICES ASSUME Init
             PROVE  IndexIInv
  OBVIOUS
<1>1. Registered = {}
  BY DEF Init, Registered
<1>2. <<>> \in Orders({})
  <2>1. Cardinality({}) = 0
    BY FS_EmptySet
  <2>2. 1..0 = {}
    OBVIOUS
  <2>3. <<>> \in [1..0 -> {}]
    BY <2>2
  <2> QED
    BY <2>1, <2>3 DEF Orders
<1>3. /\ models \in [Names -> Versions] /\ live \in [Names -> Versions]
      /\ made \in Versions /\ ready \in [Names -> SUBSET (1..MaxVersions)]
  BY ModelServerAssumption DEF Init, Versions
<1>4. req \in [Callers -> Calls] /\ \A c \in Callers : req[c].pc = "idle"
  BY IdleRight DEF Init
<1>5. reply \in Replies
  BY NoReplyFits DEF Init
<1>6. ServerTypeOK
  BY <1>1, <1>2, <1>3, <1>4, <1>5 DEF Init, ServerTypeOK
<1> QED
  BY <1>4, <1>6 DEF IndexIInv, WaitsRight, IndexRight

\* The registry iterates over every name it holds once, and an index that does not
\* fail lists exactly the models that are registered when it is answered, whatever
\* was loaded and unloaded while it waited (ModelRepositoryExtension.index,
\* ModelRepository.get_models).
THEOREM IndexIsAlwaysRight == Spec => IndexIsRight
<1>1. IndexIInv /\ ServerIInv /\ [Next]_vars => IndexIInv'
  BY StepKeepsIndex
<1>2. IndexIInv /\ ServerIInv /\ [Next]_vars =>
        [\A c \in Callers :
           req[c].kind = "index" /\ InFlight(c) /\ ~InFlight(c)' /\ reply'.answer = "ok" =>
             LET l == reply'.listed IN
             /\ {l[i] : i \in DOMAIN l} = Registered'
             /\ Len(l) = Cardinality(Registered')]_vars
  BY StepKeepsIndex DEF IndexExactOf, IsExact
<1>3. IndexIInv => ServerTypeOK
  BY DEF IndexIInv
<1> QED
  BY <1>1, <1>2, <1>3, InitIndex, ServerInvariant, PTL DEF Spec, IndexIsRight, IndexIsExact

-----------------------------------------------------------------------------
(* The open inference protocol: joining sequences.                         *)

\* Induction, over a set.
LEMMA InductionOnNat ==
  ASSUME NEW S, 0 \in S, \A n \in Nat : n \in S => n + 1 \in S
  PROVE  \A n \in Nat : n \in S
<1> DEFINE Bad == {n \in Nat : n \notin S}
<1>1. SUFFICES ASSUME Bad # {} PROVE FALSE
  OBVIOUS
<1>2. Bad \subseteq Nat
  OBVIOUS
<1>3. PICK i \in Bad : \A j \in Bad : ~(<<j, i>> \in OpToRel(<, Nat))
  <2> HIDE DEF Bad
  <2> QED
    BY <1>1, <1>2, NatLessThanWellFounded, WFMin
<1>4. \A k, j \in Nat : j < k => <<j, k>> \in OpToRel(<, Nat)
  BY DEF OpToRel
<1>5. i \in Nat /\ i # 0
  OBVIOUS
<1>6. i - 1 \in Nat /\ i - 1 < i /\ (i - 1) + 1 = i
  BY <1>5
<1>7. i - 1 \notin Bad
  BY <1>3, <1>4, <1>5, <1>6
<1> QED
  BY <1>5, <1>6, <1>7

\* g has the prefixes of ss, joined.
Joins(ss, g) ==
  /\ DOMAIN g = 0..Len(ss) /\ g[0] = <<>>
  /\ \A i \in 1..Len(ss) : g[i] = g[i - 1] \o ss[i]

\* FlattenSeq joins from the left: each sequence of sequences has the list of its
\* joins.
LEMMA JoinsExist ==
  ASSUME NEW S, NEW ss \in Seq(Seq(S))
  PROVE  \E g \in [0..Len(ss) -> Seq(S)] : Joins(ss, g)
<1> DEFINE Upto(g, n) == g[0] = <<>> /\ \A i \in 1..n : g[i] = g[i - 1] \o ss[i]
           P(n) == n <= Len(ss) => \E g \in [0..n -> Seq(S)] : Upto(g, n)
           T == {n \in Nat : P(n)}
<1>1. Len(ss) \in Nat /\ \A i \in 1..Len(ss) : ss[i] \in Seq(S)
  BY LenProperties, ElementOfSeq
<1>2. P(0)
  <2> DEFINE g == [i \in 0..0 |-> <<>>]
  <2>1. g \in [0..0 -> Seq(S)]
    BY EmptySeq
  <2>2. Upto(g, 0)
    OBVIOUS
  <2> HIDE DEF g
  <2> QED
    BY <2>1, <2>2
<1>3. ASSUME NEW n \in Nat, P(n)  PROVE P(n + 1)
  <2> SUFFICES ASSUME n + 1 <= Len(ss) PROVE \E h \in [0..(n + 1) -> Seq(S)] : Upto(h, n + 1)
    OBVIOUS
  <2>0. n <= Len(ss)
    BY <1>1
  <2>1. PICK g \in [0..n -> Seq(S)] : Upto(g, n)
    <3> HIDE DEF Upto
    <3> QED
      BY <1>3, <2>0
  <2>2. ss[n + 1] \in Seq(S) /\ g[n] \in Seq(S)
    BY <1>1, <2>1
  <2> DEFINE x == g[n] \o ss[n + 1]
  <2>3. x \in Seq(S)
    BY <2>2, ConcatProperties
  <2> DEFINE h == [i \in 0..(n + 1) |-> IF i = n + 1 THEN x ELSE g[i]]
  <2>4. h \in [0..(n + 1) -> Seq(S)]
    <3> HIDE DEF x
    <3> QED
      BY <2>1, <2>3
  <2>5. h[0] = <<>>
    BY <2>1
  <2>6. \A i \in 1..(n + 1) : h[i] = h[i - 1] \o ss[i]
    <3> TAKE i \in 1..(n + 1)
    <3>1. CASE i = n + 1
      <4>1. h[i] = x /\ h[i - 1] = g[n] /\ ss[i] = ss[n + 1]
        BY <3>1
      <4> QED
        BY <4>1
    <3>2. CASE i # n + 1
      <4>1. h[i] = g[i] /\ h[i - 1] = g[i - 1] /\ i \in 1..n
        BY <3>2
      <4> QED
        BY <2>1, <4>1
    <3> QED
      BY <3>1, <3>2
  <2> HIDE DEF h
  <2> QED
    BY <2>4, <2>5, <2>6
<1>4. \A n \in Nat : P(n)
  <2> HIDE DEF P
  <2>1. 0 \in T /\ \A n \in Nat : n \in T => n + 1 \in T
    BY <1>2, <1>3
  <2>2. \A n \in Nat : n \in T
    <3> HIDE DEF T
    <3> QED
      BY <2>1, InductionOnNat
  <2> QED
    BY <2>2
<1>5. PICK g \in [0..Len(ss) -> Seq(S)] : Upto(g, Len(ss))
  <2>1. Len(ss) <= Len(ss) /\ P(Len(ss))
    <3> HIDE DEF P
    <3> QED
      BY <1>1, <1>4
  <2> HIDE DEF Upto
  <2> QED
    BY <2>1
<1>6. Joins(ss, g)
  BY <1>5 DEF Joins
<1> QED
  BY <1>6

\* The joins of a sequence of sequences are one list.
LEMMA JoinsUnique ==
  ASSUME NEW S, NEW ss \in Seq(Seq(S)), NEW g, NEW h, Joins(ss, g), Joins(ss, h)
  PROVE  \A i \in 0..Len(ss) : g[i] = h[i]
<1> DEFINE P(n) == n <= Len(ss) => g[n] = h[n]
           T == {n \in Nat : P(n)}
<1>1. Len(ss) \in Nat
  BY LenProperties
<1>2. P(0)
  BY DEF Joins
<1>3. ASSUME NEW n \in Nat, P(n)  PROVE P(n + 1)
  <2> SUFFICES ASSUME n + 1 <= Len(ss) PROVE g[n + 1] = h[n + 1]
    OBVIOUS
  <2>1. n + 1 \in 1..Len(ss) /\ (n + 1) - 1 = n /\ g[n] = h[n]
    BY <1>1, <1>3
  <2>2. g[n + 1] = g[(n + 1) - 1] \o ss[n + 1] /\ h[n + 1] = h[(n + 1) - 1] \o ss[n + 1]
    BY <2>1 DEF Joins
  <2> QED
    BY <2>1, <2>2
<1>4. \A n \in Nat : P(n)
  <2> HIDE DEF P
  <2>1. 0 \in T /\ \A n \in Nat : n \in T => n + 1 \in T
    BY <1>2, <1>3
  <2>2. \A n \in Nat : n \in T
    <3> HIDE DEF T
    <3> QED
      BY <2>1, InductionOnNat
  <2> QED
    BY <2>2
<1> QED
  BY <1>4

\* The joins have the elements of what is joined.
LEMMA JoinsTyped ==
  ASSUME NEW S, NEW ss \in Seq(Seq(S)), NEW g, Joins(ss, g)
  PROVE  \A i \in 0..Len(ss) : g[i] \in Seq(S)
<1>1. PICK h \in [0..Len(ss) -> Seq(S)] : Joins(ss, h)
  BY JoinsExist
<1> QED
  BY <1>1, JoinsUnique

\* FlattenSeq ends with the last prefix.
LEMMA FlattenIsJoin ==
  ASSUME NEW S, NEW ss \in Seq(Seq(S)), NEW g, Joins(ss, g)
  PROVE  FlattenSeq(ss) = g[Len(ss)]
<1>1. Len(ss) \in Nat /\ \A i \in 1..Len(ss) : ss[i] \in Seq(S)
  BY LenProperties, ElementOfSeq
<1>2. CASE Len(ss) = 0
  <2>1. ss = <<>>
    BY <1>2, EmptySeq
  <2> QED
    BY <1>2, <2>1 DEF FlattenSeq, Joins
<1>3. CASE Len(ss) # 0
  <2> DEFINE E(f) == [i \in 1..Len(ss) |-> IF i = 1 THEN ss[i] ELSE f[i - 1] \o ss[i]]
             f0 == CHOOSE f : f = [i \in 1..Len(ss) |-> IF i = 1 THEN ss[i] ELSE f[i - 1] \o ss[i]]
             h == [i \in 1..Len(ss) |-> g[i]]
  <2>1. FlattenSeq(ss) = f0[Len(ss)]
    BY <1>3 DEF FlattenSeq
  <2>2. h = [i \in 1..Len(ss) |-> IF i = 1 THEN ss[i] ELSE h[i - 1] \o ss[i]]
    <3>1. \A i \in 1..Len(ss) : g[i] = IF i = 1 THEN ss[i] ELSE h[i - 1] \o ss[i]
      <4> TAKE i \in 1..Len(ss)
      <4>0. g[i] = g[i - 1] \o ss[i] /\ g[0] = <<>> /\ ss[i] \in Seq(S)
        BY <1>1 DEF Joins
      <4>1. CASE i = 1
        <5>1. i - 1 = 0
          BY <4>1
        <5>2. g[i] = <<>> \o ss[i]
          BY <4>0, <5>1
        <5>3. <<>> \o ss[i] = ss[i]
          BY <4>0, ConcatEmptySeq
        <5> QED
          BY <4>1, <5>2, <5>3
      <4>2. CASE i # 1
        <5>1. i - 1 \in 1..Len(ss)
          BY <1>1, <4>2
        <5>2. h[i - 1] = g[i - 1]
          BY <5>1
        <5> QED
          BY <4>0, <4>2, <5>2
      <4> QED
        BY <4>1, <4>2
    <3> QED
      BY <3>1
  <2>3. f0 = [i \in 1..Len(ss) |-> IF i = 1 THEN ss[i] ELSE f0[i - 1] \o ss[i]]
    <3>1. \E f : f = [i \in 1..Len(ss) |-> IF i = 1 THEN ss[i] ELSE f[i - 1] \o ss[i]]
      <4> HIDE DEF h
      <4> QED
        BY <2>2
    <3> QED
      BY <3>1
  <2> HIDE DEF f0, h
  <2> DEFINE k == [i \in 0..Len(ss) |-> IF i = 0 THEN <<>> ELSE f0[i]]
  <2>4. Joins(ss, k)
    <3>1. \A i \in 1..Len(ss) : k[i] = k[i - 1] \o ss[i]
      <4> TAKE i \in 1..Len(ss)
      <4>0. f0[i] = IF i = 1 THEN ss[i] ELSE f0[i - 1] \o ss[i]
        BY <2>3
      <4>1. CASE i = 1
        <5>1. k[i - 1] = <<>> /\ k[i] = f0[i]
          BY <1>1, <4>1
        <5>2. <<>> \o ss[i] = ss[i]
          BY <1>1, ConcatEmptySeq
        <5> QED
          BY <4>0, <4>1, <5>1, <5>2
      <4>2. CASE i # 1
        <5>1. k[i - 1] = f0[i - 1] /\ k[i] = f0[i]
          BY <1>1, <4>2
        <5> QED
          BY <4>0, <4>2, <5>1
      <4> QED
        BY <4>1, <4>2
    <3>2. DOMAIN k = 0..Len(ss) /\ k[0] = <<>>
      BY <1>1
    <3> HIDE DEF k
    <3> QED
      BY <3>1, <3>2 DEF Joins
  <2>5. k[Len(ss)] = f0[Len(ss)]
    BY <1>1, <1>3
  <2> HIDE DEF k
  <2>6. k[Len(ss)] = g[Len(ss)]
    BY <1>1, <2>4, JoinsUnique
  <2> QED
    BY <2>1, <2>5, <2>6
<1> QED
  BY <1>2, <1>3

\* What FlattenSeq joins has the elements of the parts.
LEMMA FlattenTyped ==
  ASSUME NEW S, NEW ss \in Seq(Seq(S))
  PROVE  FlattenSeq(ss) \in Seq(S)
<1>1. PICK g \in [0..Len(ss) -> Seq(S)] : Joins(ss, g)
  BY JoinsExist
<1>2. Len(ss) \in 0..Len(ss)
  BY LenProperties
<1> QED
  BY <1>1, <1>2, FlattenIsJoin

\* Nothing joined is nothing.
LEMMA FlattenEmpty == FlattenSeq(<<>>) = <<>>
BY DEF FlattenSeq

\* A position in the left part of a concatenation.
LEMMA Within ==
  ASSUME NEW a \in Nat, NEW b \in Nat, NEW c \in Nat, NEW d \in Nat, a <= b, c = b + d
  PROVE  a <= c /\ \A k \in 1..a : k \in 1..c /\ k <= b
OBVIOUS

\* A position in the right part of it.
LEMMA Beyond ==
  ASSUME NEW a \in Nat, NEW b \in Nat, NEW d \in Nat, b = a + d
  PROVE  \A k \in 1..d : a + k \in 1..b /\ ~(a + k <= a) /\ (a + k) - a = k
OBVIOUS

\* A part of a sequence, by its elements.
LEMMA PieceIs ==
  ASSUME NEW S, NEW x \in Seq(S), NEW y \in Seq(S), NEW a \in Nat, NEW b \in Nat,
         b = a + Len(y), b <= Len(x), \A k \in 1..Len(y) : x[a + k] = y[k]
  PROVE  SubSeq(x, a + 1, b) = y
<1>0. Len(x) \in Nat /\ Len(y) \in Nat
  BY LenProperties
<1> DEFINE z == SubSeq(x, a + 1, b)
<1>1. z = [k \in 1..((b - (a + 1)) + 1) |-> x[(a + 1) + k - 1]]
  OBVIOUS
<1>2. (b - (a + 1)) + 1 = Len(y) /\ \A k \in 1..Len(y) : (a + 1) + k - 1 = a + k
  BY <1>0
<1> HIDE DEF z
<1>3. z = [k \in 1..Len(y) |-> x[a + k]]
  BY <1>1, <1>2
<1>4. y = [k \in 1..Len(y) |-> y[k]]
  BY LenProperties
<1> QED
  BY <1>3, <1>4 DEF z

\* Where the pieces ss of all are, if g joins them.
Lie(ss, g, all, S) ==
  /\ all \in Seq(S)
  /\ \A i \in 0..Len(ss) : g[i] \in Seq(S) /\ Len(g[i]) \in Nat /\ Len(g[i]) <= Len(all)
  /\ Len(g[0]) = 0 /\ Len(g[Len(ss)]) = Len(all)
  /\ \A i \in 1..Len(ss) :
       /\ ss[i] \in Seq(S)
       /\ Len(g[i]) = Len(g[i - 1]) + Len(ss[i])
       /\ \A k \in 1..Len(ss[i]) : all[Len(g[i - 1]) + k] = ss[i][k]
       /\ SubSeq(all, Len(g[i - 1]) + 1, Len(g[i])) = ss[i]

\* Where each part lies in the join.
LEMMA FlattenPieces ==
  ASSUME NEW S, NEW ss \in Seq(Seq(S)), NEW g, Joins(ss, g)
  PROVE  Lie(ss, g, FlattenSeq(ss), S)
<1>1. Len(ss) \in Nat /\ \A i \in 1..Len(ss) : ss[i] \in Seq(S) /\ Len(ss[i]) \in Nat
  BY LenProperties, ElementOfSeq
<1>2. \A i \in 0..Len(ss) : g[i] \in Seq(S) /\ Len(g[i]) \in Nat
  BY JoinsTyped, LenProperties
<1>3. \A i \in 1..Len(ss) :
        /\ i - 1 \in 0..Len(ss) /\ i \in 0..Len(ss)
        /\ Len(g[i]) = Len(g[i - 1]) + Len(ss[i])
        /\ \A k \in 1..Len(g[i]) :
             g[i][k] = IF k <= Len(g[i - 1]) THEN g[i - 1][k] ELSE ss[i][k - Len(g[i - 1])]
  <2> TAKE i \in 1..Len(ss)
  <2>1. g[i] = g[i - 1] \o ss[i]
    BY DEF Joins
  <2>2. i - 1 \in 0..Len(ss) /\ i \in 0..Len(ss)
    BY <1>1
  <2>3. g[i - 1] \in Seq(S) /\ ss[i] \in Seq(S)
    BY <1>1, <1>2, <2>2
  <2> DEFINE x == g[i - 1]
             y == ss[i]
  <2>4. Len(x \o y) = Len(x) + Len(y) /\
        \A k \in 1..(Len(x) + Len(y)) : (x \o y)[k] = IF k <= Len(x) THEN x[k] ELSE y[k - Len(x)]
    <3>1. x \in Seq(S) /\ y \in Seq(S)
      BY <2>3
    <3> HIDE DEF x, y
    <3> QED
      BY <3>1, ConcatProperties
  <2> QED
    BY <2>1, <2>2, <2>4
<1> DEFINE Heads(i, n) == Len(g[i]) <= Len(g[n]) /\ \A k \in 1..Len(g[i]) : g[n][k] = g[i][k]
           P(n) == n <= Len(ss) => \A i \in 0..n : Heads(i, n)
           T == {n \in Nat : P(n)}
<1>4. P(0)
  BY <1>1, <1>2
<1>5. ASSUME NEW n \in Nat, P(n) PROVE P(n + 1)
  <2> SUFFICES ASSUME n + 1 <= Len(ss), NEW i \in 0..(n + 1)
               PROVE  Heads(i, n + 1)
    OBVIOUS
  <2>1. n + 1 \in 1..Len(ss) /\ (n + 1) - 1 = n /\ n \in 0..Len(ss) /\ n + 1 \in 0..Len(ss) /\ i \in 0..Len(ss)
    BY <1>1
  <2>2. CASE i = n + 1
    BY <1>2, <2>1, <2>2
  <2>3. CASE i # n + 1
    <3>1. i \in 0..n /\ Len(g[i]) <= Len(g[n]) /\ \A k \in 1..Len(g[i]) : g[n][k] = g[i][k]
      BY <1>1, <1>5, <2>1, <2>3
    <3>2. Len(g[n + 1]) = Len(g[n]) + Len(ss[n + 1]) /\ Len(ss[n + 1]) \in Nat
      BY <1>1, <1>3, <2>1
    <3>3. Len(g[i]) \in Nat /\ Len(g[n]) \in Nat /\ Len(g[n + 1]) \in Nat
      BY <1>2, <2>1
    <3> DEFINE a == Len(g[i])
               b == Len(g[n])
               c == Len(g[n + 1])
               d == Len(ss[n + 1])
    <3>5. a <= c /\ \A k \in 1..a : k \in 1..c /\ k <= b
      <4>1. a \in Nat /\ b \in Nat /\ c \in Nat /\ d \in Nat /\ a <= b /\ c = b + d
        BY <3>1, <3>2, <3>3
      <4> HIDE DEF a, b, c, d
      <4> QED
        BY <4>1, Within
    <3>4. ASSUME NEW k \in 1..Len(g[i])
          PROVE  g[n + 1][k] = g[i][k]
      <4>1. k \in 1..Len(g[n + 1]) /\ k <= Len(g[n])
        BY <3>5
      <4>2. g[n + 1][k] = IF k <= Len(g[(n + 1) - 1]) THEN g[(n + 1) - 1][k]
                          ELSE ss[n + 1][k - Len(g[(n + 1) - 1])]
        BY <1>3, <2>1, <4>1
      <4> QED
        BY <2>1, <3>1, <4>1, <4>2
    <3> QED
      BY <3>4, <3>5
  <2> QED
    BY <2>2, <2>3
<1>6. \A n \in Nat : P(n)
  <2> HIDE DEF P
  <2>1. 0 \in T /\ \A n \in Nat : n \in T => n + 1 \in T
    BY <1>4, <1>5
  <2>2. \A n \in Nat : n \in T
    <3> HIDE DEF T
    <3> QED
      BY <2>1, InductionOnNat
  <2> QED
    BY <2>2
<1>7. FlattenSeq(ss) = g[Len(ss)]
  BY FlattenIsJoin
<1>8. \A i \in 0..Len(ss) : Len(g[i]) <= Len(g[Len(ss)]) /\ \A k \in 1..Len(g[i]) : g[Len(ss)][k] = g[i][k]
  BY <1>1, <1>6
<1> HIDE DEF T, P, Heads
<1>9. Len(g[0]) = 0
  BY DEF Joins
<1>10. ASSUME NEW i \in 1..Len(ss)
       PROVE  /\ \A k \in 1..Len(ss[i]) : g[Len(ss)][Len(g[i - 1]) + k] = ss[i][k]
              /\ SubSeq(g[Len(ss)], Len(g[i - 1]) + 1, Len(g[i])) = ss[i]
  <2>1. /\ i - 1 \in 0..Len(ss) /\ i \in 0..Len(ss) /\ Len(g[i]) = Len(g[i - 1]) + Len(ss[i])
        /\ Len(g[i - 1]) \in Nat /\ Len(ss[i]) \in Nat /\ Len(g[i]) <= Len(g[Len(ss)])
        /\ g[Len(ss)] \in Seq(S) /\ ss[i] \in Seq(S)
    <3>1. i - 1 \in 0..Len(ss) /\ i \in 0..Len(ss) /\ Len(ss) \in 0..Len(ss)
      BY <1>1
    <3> QED
      BY <1>1, <1>2, <1>3, <1>8, <3>1
  <2>2. ASSUME NEW k \in 1..Len(ss[i])
        PROVE  g[Len(ss)][Len(g[i - 1]) + k] = ss[i][k]
    <3> DEFINE m == Len(g[i - 1]) + k
    <3>1. m \in 1..Len(g[i]) /\ ~(m <= Len(g[i - 1])) /\ m - Len(g[i - 1]) = k
      <4> DEFINE a == Len(g[i - 1])
                 b == Len(g[i])
                 d == Len(ss[i])
      <4>1. a \in Nat /\ b \in Nat /\ d \in Nat /\ b = a + d /\ k \in 1..d
        BY <1>2, <2>1
      <4>2. a + k \in 1..b /\ ~(a + k <= a) /\ (a + k) - a = k
        <5> HIDE DEF a, b, d
        <5> QED
          BY <4>1, Beyond
      <4> QED
        BY <4>2
    <3> HIDE DEF m
    <3>2. g[i][m] = ss[i][k]
      BY <1>3, <3>1
    <3>3. g[Len(ss)][m] = g[i][m]
      BY <1>8, <2>1, <3>1
    <3> QED
      BY <3>2, <3>3 DEF m
  <2>3. SubSeq(g[Len(ss)], Len(g[i - 1]) + 1, Len(g[i])) = ss[i]
    <3>1. Len(g[i]) \in Nat
      BY <1>2, <2>1
    <3> QED
      BY <2>1, <2>2, <3>1, PieceIs
  <2> QED
    BY <2>2, <2>3
<1>11. Len(ss) \in 0..Len(ss)
  BY <1>1
<1>12. \A i \in 0..Len(ss) : g[i] \in Seq(S) /\ Len(g[i]) \in Nat /\ Len(g[i]) <= Len(g[Len(ss)])
  BY <1>2, <1>8
<1>13. \A i \in 1..Len(ss) : ss[i] \in Seq(S) /\ Len(g[i]) = Len(g[i - 1]) + Len(ss[i])
  BY <1>1, <1>3
<1> QED
  BY <1>7, <1>9, <1>10, <1>11, <1>12, <1>13 DEF Lie

\* An element of a part, in the join.
LEMMA FlattenElement ==
  ASSUME NEW S, NEW ss \in Seq(Seq(S)), NEW g, Joins(ss, g),
         NEW i \in 1..Len(ss), NEW k \in 1..Len(ss[i])
  PROVE  FlattenSeq(ss)[Len(g[i - 1]) + k] = ss[i][k]
<1>1. Lie(ss, g, FlattenSeq(ss), S)
  BY FlattenPieces
<1> QED
  BY <1>1 DEF Lie

\* A part cut out of the join, between the lengths of the joins before it and with
\* it, is that part.
LEMMA FlattenPart ==
  ASSUME NEW S, NEW ss \in Seq(Seq(S)), NEW g, Joins(ss, g), NEW i \in 1..Len(ss)
  PROVE  /\ ss[i] \in Seq(S)
         /\ Len(g[i - 1]) \in Nat /\ Len(g[i]) \in Nat
         /\ Len(g[i]) = Len(g[i - 1]) + Len(ss[i])
         /\ Len(g[i]) <= Len(FlattenSeq(ss))
         /\ SubSeq(FlattenSeq(ss), Len(g[i - 1]) + 1, Len(g[i])) = ss[i]
<1>1. i \in 0..Len(ss) /\ i - 1 \in 0..Len(ss)
  BY LenProperties
<1>2. Lie(ss, g, FlattenSeq(ss), S)
  BY FlattenPieces
<1> QED
  BY <1>1, <1>2 DEF Lie

\* One more part is joined at the end.
LEMMA FlattenAppend ==
  ASSUME NEW S, NEW ss \in Seq(Seq(S)), NEW s \in Seq(S)
  PROVE  FlattenSeq(ss \o <<s>>) = FlattenSeq(ss) \o s
<1> DEFINE tt == ss \o <<s>>
           n == Len(ss)
<1>0. n \in Nat /\ DOMAIN ss = 1..n
  BY LenProperties
<1>1. tt \in Seq(Seq(S)) /\ Len(tt) = n + 1 /\ tt[n + 1] = s /\ \A i \in 1..n : tt[i] = ss[i]
  <2>1. <<s>> \in Seq(Seq(S)) /\ Len(<<s>>) = 1 /\ <<s>>[1] = s
    OBVIOUS
  <2>2. tt \in Seq(Seq(S)) /\ Len(tt) = Len(ss) + Len(<<s>>) /\
        \A i \in 1 .. Len(ss) + Len(<<s>>) : tt[i] = IF i <= Len(ss) THEN ss[i] ELSE <<s>>[i - Len(ss)]
    BY <2>1, ConcatProperties
  <2> HIDE DEF tt
  <2>3. Len(tt) = n + 1 /\ \A i \in 1..(n + 1) : tt[i] = IF i <= n THEN ss[i] ELSE <<s>>[i - n]
    BY <2>1, <2>2
  <2> HIDE DEF n
  <2>4. tt[n + 1] = <<s>>[(n + 1) - n] /\ (n + 1) - n = 1
    BY <1>0, <2>3
  <2> QED
    BY <1>0, <2>1, <2>2, <2>3, <2>4
<1>2. PICK g \in [0..n -> Seq(S)] : Joins(ss, g)
  BY JoinsExist
<1> HIDE DEF tt
<1> DEFINE h == [i \in 0..(n + 1) |-> IF i = n + 1 THEN g[n] \o s ELSE g[i]]
<1>3. Joins(tt, h)
  <2>1. DOMAIN h = 0..Len(tt)
    BY <1>1
  <2>2. h[0] = <<>>
    BY <1>0, <1>2 DEF Joins
  <2>3. \A i \in 1..Len(tt) : h[i] = h[i - 1] \o tt[i]
    <3> TAKE i \in 1..Len(tt)
    <3> HIDE DEF n
    <3>1. CASE i = n + 1
      <4>1. i - 1 = n /\ n # n + 1 /\ n \in 0..(n + 1) /\ i \in 0..(n + 1)
        BY <1>0, <3>1
      <4>2. h[i] = g[n] \o s /\ h[i - 1] = g[n] /\ tt[i] = s
        BY <1>1, <3>1, <4>1
      <4> QED
        BY <4>2
    <3>2. CASE i # n + 1
      <4>1. i \in 1..n /\ i - 1 \in 0..(n + 1) /\ i - 1 # n + 1 /\ i \in 0..(n + 1)
        BY <1>0, <1>1, <3>2
      <4>2. g[i] = g[i - 1] \o ss[i]
        BY <1>2, <4>1 DEF Joins, n
      <4>3. h[i] = g[i] /\ h[i - 1] = g[i - 1] /\ tt[i] = ss[i]
        BY <1>1, <3>2, <4>1
      <4> QED
        BY <4>2, <4>3
    <3> QED
      BY <3>1, <3>2
  <2> HIDE DEF h
  <2> QED
    BY <2>1, <2>2, <2>3 DEF Joins
<1>4. h[n + 1] = g[n] \o s
  BY <1>0
<1> HIDE DEF h
<1>5. FlattenSeq(tt) = h[n + 1] /\ FlattenSeq(ss) = g[n]
  BY <1>1, <1>2, <1>3, FlattenIsJoin
<1> QED
  BY <1>4, <1>5 DEF tt

\* The binary data there is, from None or bytes for each.
Pieces(raw, N) == [i \in 1..N |-> IF raw[i] = None THEN <<>> ELSE <<raw[i]>>]
Joined(raw, N) == [i \in 1..N |-> IF raw[i] = None THEN <<>> ELSE raw[i]]

\* The raw data there is, joined, is all of it joined with nothing for the rest.
LEMMA RawsTogether ==
  ASSUME NEW N \in Nat, NEW raw \in [1..N -> Seq(Nat) \cup {None}]
  PROVE  /\ FlattenSeq(Pieces(raw, N)) \in Arrays
         /\ FlattenSeq(FlattenSeq(Pieces(raw, N))) = FlattenSeq(Joined(raw, N))
         /\ IsFiniteSet({i \in 1..N : raw[i] # None})
         /\ Len(FlattenSeq(Pieces(raw, N))) = Cardinality({i \in 1..N : raw[i] # None})
         /\ Len(FlattenSeq(Pieces(raw, N))) <= N
         /\ (\A i \in 1..N : raw[i] # None) => FlattenSeq(Pieces(raw, N)) = raw
<1> DEFINE ss == Pieces(raw, N)
           bs == Joined(raw, N)
           C(n) == {i \in 1..n : raw[i] # None}
<1>1. ss \in Seq(Seq(Seq(Nat))) /\ Len(ss) = N /\ \A i \in 1..N : ss[i] = IF raw[i] = None THEN <<>> ELSE <<raw[i]>>
  <2>1. \A i \in 1..N : (IF raw[i] = None THEN <<>> ELSE <<raw[i]>>) \in Seq(Seq(Nat))
    OBVIOUS
  <2> QED
    BY <2>1 DEF Pieces
<1>2. bs \in Seq(Seq(Nat)) /\ Len(bs) = N /\ \A i \in 1..N : bs[i] = IF raw[i] = None THEN <<>> ELSE raw[i]
  <2>1. \A i \in 1..N : (IF raw[i] = None THEN <<>> ELSE raw[i]) \in Seq(Nat)
    OBVIOUS
  <2> QED
    BY <2>1 DEF Joined
<1> HIDE DEF ss, bs
<1>3. PICK g : g \in [0..Len(ss) -> Seq(Seq(Nat))] /\ Joins(ss, g)
  BY <1>1, JoinsExist
<1>4. PICK h : h \in [0..Len(bs) -> Seq(Nat)] /\ Joins(bs, h)
  BY <1>2, JoinsExist
<1>5. g \in [0..N -> Seq(Seq(Nat))] /\ h \in [0..N -> Seq(Nat)]
  BY <1>1, <1>2, <1>3, <1>4
<1> DEFINE P(n) == n <= N => /\ FlattenSeq(g[n]) = h[n]
                             /\ IsFiniteSet(C(n)) /\ Len(g[n]) = Cardinality(C(n))
                             /\ Len(g[n]) <= n
                             /\ (\A i \in 1..n : raw[i] # None) => Len(g[n]) = n
           T == {n \in Nat : P(n)}
<1>6. P(0)
  <2>1. g[0] = <<>> /\ h[0] = <<>>
    BY <1>3, <1>4 DEF Joins
  <2>2. C(0) = {}
    OBVIOUS
  <2>3. Len(g[0]) = 0 /\ FlattenSeq(g[0]) = h[0]
    BY <2>1, FlattenEmpty
  <2>4. IsFiniteSet(C(0)) /\ Cardinality(C(0)) = 0
    <3> HIDE DEF C
    <3> QED
      BY <2>2, FS_EmptySet
  <2> HIDE DEF C
  <2> QED
    BY <2>3, <2>4
<1>7. ASSUME NEW n \in Nat, P(n)  PROVE P(n + 1)
  <2> SUFFICES ASSUME n + 1 <= N PROVE P(n + 1)
    OBVIOUS
  <2>0. n \in 0..N /\ n + 1 \in 1..N /\ (n + 1) - 1 = n /\ n <= N
    OBVIOUS
  <2>1. /\ FlattenSeq(g[n]) = h[n] /\ IsFiniteSet(C(n)) /\ Len(g[n]) = Cardinality(C(n)) /\ Len(g[n]) <= n
        /\ (\A i \in 1..n : raw[i] # None) => Len(g[n]) = n
    BY <1>7, <2>0
  <2>2. g[n + 1] = g[n] \o ss[n + 1] /\ h[n + 1] = h[n] \o bs[n + 1]
    BY <1>1, <1>2, <1>3, <1>4, <2>0 DEF Joins
  <2>3. g[n] \in Seq(Seq(Nat)) /\ h[n] \in Seq(Nat) /\ Len(g[n]) \in Nat
    BY <1>5, <2>0, LenProperties
  <2>4. CASE raw[n + 1] = None
    <3>1. ss[n + 1] = <<>> /\ bs[n + 1] = <<>>
      BY <1>1, <1>2, <2>0, <2>4
    <3>2. g[n + 1] = g[n] /\ h[n + 1] = h[n]
      BY <2>2, <2>3, <3>1, ConcatEmptySeq
    <3>3. C(n + 1) = C(n)
      BY <2>4
    <3>4. ~ \A i \in 1..(n + 1) : raw[i] # None
      BY <2>0, <2>4
    <3> HIDE DEF C
    <3>5. Len(g[n + 1]) <= n + 1
      BY <2>1, <2>3, <3>2
    <3> QED
      BY <2>1, <3>2, <3>3, <3>4, <3>5
  <2>5. CASE raw[n + 1] # None
    <3>1. ss[n + 1] = <<raw[n + 1]>> /\ bs[n + 1] = raw[n + 1] /\ raw[n + 1] \in Seq(Nat)
      BY <1>1, <1>2, <2>0, <2>5
    <3>2. FlattenSeq(g[n + 1]) = h[n + 1]
      <4>1. g[n + 1] = g[n] \o <<raw[n + 1]>> /\ h[n + 1] = h[n] \o raw[n + 1]
        BY <2>2, <3>1
      <4>2. FlattenSeq(g[n] \o <<raw[n + 1]>>) = FlattenSeq(g[n]) \o raw[n + 1]
        BY <2>3, <3>1, FlattenAppend
      <4> QED
        BY <2>1, <4>1, <4>2
    <3>3. Len(g[n + 1]) = Len(g[n]) + 1
      <4>1. <<raw[n + 1]>> \in Seq(Seq(Nat)) /\ Len(<<raw[n + 1]>>) = 1
        BY <3>1
      <4>2. Len(g[n] \o <<raw[n + 1]>>) = Len(g[n]) + Len(<<raw[n + 1]>>)
        BY <2>3, <4>1, ConcatProperties
      <4> QED
        BY <2>2, <3>1, <4>1, <4>2
    <3>4. C(n + 1) = C(n) \cup {n + 1} /\ n + 1 \notin C(n)
      BY <2>0, <2>5
    <3>5. IsFiniteSet(C(n + 1)) /\ Cardinality(C(n + 1)) = Cardinality(C(n)) + 1
      <4> HIDE DEF C
      <4> QED
        BY <2>1, <3>4, FS_AddElement
    <3>6. ASSUME \A i \in 1..(n + 1) : raw[i] # None
          PROVE  Len(g[n + 1]) = n + 1
      <4>1. \A i \in 1..n : raw[i] # None
        BY <3>6
      <4> QED
        BY <2>1, <3>3, <4>1
    <3> HIDE DEF C
    <3>7. Len(g[n + 1]) <= n + 1
      BY <2>1, <2>3, <3>3
    <3> QED
      BY <2>1, <3>2, <3>3, <3>5, <3>6, <3>7
  <2> QED
    BY <2>4, <2>5
<1>8. \A n \in Nat : P(n)
  <2> HIDE DEF P
  <2>1. 0 \in T /\ \A n \in Nat : n \in T => n + 1 \in T
    BY <1>6, <1>7
  <2>2. \A n \in Nat : n \in T
    <3> HIDE DEF T
    <3> QED
      BY <2>1, InductionOnNat
  <2> QED
    BY <2>2
<1>9. FlattenSeq(ss) = g[N] /\ FlattenSeq(bs) = h[N] /\ g[N] \in Seq(Seq(Nat))
  BY <1>1, <1>2, <1>3, <1>4, <1>5, FlattenIsJoin
<1>10. ASSUME \A i \in 1..N : raw[i] # None
       PROVE  g[N] = raw
  <2>1. \A i \in 1..N : g[N][Len(g[i - 1]) + 1] = ss[i][1]
    <3> TAKE i \in 1..N
    <3>1. ss[i] = <<raw[i]>>
      BY <1>1, <1>10
    <3>2. 1 \in 1..Len(ss[i])
      BY <3>1
    <3>3. FlattenSeq(ss)[Len(g[i - 1]) + 1] = ss[i][1]
      <4>1. \A j \in 1..Len(ss) : \A k \in 1..Len(ss[j]) : FlattenSeq(ss)[Len(g[j - 1]) + k] = ss[j][k]
        <5>1. ss \in Seq(Seq(Seq(Nat))) /\ Joins(ss, g)
          BY <1>1, <1>3
        <5> QED
          BY <5>1, FlattenElement, ZenonT(60)
      <4> QED
        BY <1>1, <3>2, <4>1
    <3> QED
      BY <1>9, <3>3
  <2>2. \A i \in 1..N : Len(g[i - 1]) = i - 1
    <3> TAKE i \in 1..N
    <3>1. i - 1 \in Nat /\ i - 1 <= N /\ \A j \in 1..(i - 1) : raw[j] # None
      BY <1>10
    <3> QED
      BY <1>8, <3>1
  <2>3. \A i \in 1..N : g[N][i] = raw[i]
    <3> TAKE i \in 1..N
    <3>1. Len(g[i - 1]) + 1 = i
      BY <2>2
    <3>2. ss[i][1] = raw[i]
      BY <1>1, <1>10
    <3> QED
      BY <2>1, <3>1, <3>2
  <2>4. Len(g[N]) = N
    <3>1. N \in Nat /\ N <= N
      OBVIOUS
    <3> QED
      BY <1>8, <1>10, <3>1
  <2>5. DOMAIN g[N] = 1..N
    BY <1>9, <2>4, LenProperties
  <2>6. g[N] = [i \in 1..N |-> g[N][i]]
    BY <1>9, <2>4, LenProperties
  <2>7. raw = [i \in 1..N |-> raw[i]]
    OBVIOUS
  <2> QED
    BY <2>3, <2>6, <2>7
<1>11. /\ FlattenSeq(g[N]) = h[N] /\ IsFiniteSet(C(N)) /\ Len(g[N]) = Cardinality(C(N)) /\ Len(g[N]) <= N
  BY <1>8
<1> HIDE DEF C, P, T
<1> QED
  BY <1>9, <1>10, <1>11 DEF ss, bs, C, Arrays

-----------------------------------------------------------------------------
(* Reading numbers and strings from bytes.                                 *)

\* A set of numbers that is not empty has a least one.
LEMMA LeastExists ==
  ASSUME NEW S \in SUBSET Nat, S # {}
  PROVE  \E x \in S : \A y \in S : x <= y
<1>1. PICK x \in S : \A y \in S : ~(<<y, x>> \in OpToRel(<, Nat))
  BY NatLessThanWellFounded, WFMin
<1>2. \A k, j \in Nat : j < k => <<j, k>> \in OpToRel(<, Nat)
  BY DEF OpToRel
<1>3. ASSUME NEW y \in S  PROVE x <= y
  <2>1. x \in Nat /\ y \in Nat
    OBVIOUS
  <2>2. ~(y < x)
    BY <1>1, <1>2, <2>1
  <2> QED
    BY <2>1, <2>2
<1> QED
  BY <1>3

\* Min is that number.
LEMMA MinIsLeast ==
  ASSUME NEW S \in SUBSET Nat, S # {}
  PROVE  Min(S) \in S /\ \A y \in S : Min(S) <= y
BY LeastExists DEF Min

\* Numbers of one or two bytes are read as they were written.
LEMMA NumbersBack ==
  ASSUME NEW es \in Seq(Seq(Nat)), NEW w \in {1, 2}, \A i \in DOMAIN es : Len(es[i]) = w
  PROVE  Numbers(w, FlattenSeq(es)) = es
<1>0. Len(es) \in Nat /\ DOMAIN es = 1..Len(es) /\ es = [i \in 1..Len(es) |-> es[i]]
  BY LenProperties
<1>1. PICK g : g \in [0..Len(es) -> Seq(Nat)] /\ Joins(es, g)
  BY JoinsExist
<1> DEFINE raw == FlattenSeq(es)
           P(n) == n <= Len(es) => Len(g[n]) = n * w
           T == {n \in Nat : P(n)}
<1>joined. Lie(es, g, raw, Nat)
  BY <1>1, FlattenPieces
<1>2. Len(g[0]) = 0 /\ Len(g[Len(es)]) = Len(raw)
  BY <1>joined DEF Lie
<1>3. P(0)
  BY <1>2
<1>4. ASSUME NEW n \in Nat, P(n)  PROVE P(n + 1)
  <2> SUFFICES ASSUME n + 1 <= Len(es) PROVE Len(g[n + 1]) = (n + 1) * w
    OBVIOUS
  <2>1. n + 1 \in 1..Len(es) /\ (n + 1) - 1 = n /\ Len(g[n]) = n * w
    BY <1>0, <1>4
  <2>2. Len(g[n + 1]) = Len(g[n]) + Len(es[n + 1])
    <3>1. Len(g[n + 1]) = Len(g[(n + 1) - 1]) + Len(es[n + 1])
      BY <1>joined, <2>1 DEF Lie
    <3> QED
      BY <2>1, <3>1
  <2>3. Len(es[n + 1]) = w
    BY <1>0, <2>1
  <2> QED
    BY <2>1, <2>2, <2>3
<1>5. \A n \in Nat : P(n)
  <2> HIDE DEF P
  <2>1. 0 \in T /\ \A n \in Nat : n \in T => n + 1 \in T
    BY <1>3, <1>4
  <2>2. \A n \in Nat : n \in T
    <3> HIDE DEF T
    <3> QED
      BY <2>1, InductionOnNat
  <2> QED
    BY <2>2
<1>6. Len(raw) = Len(es) * w
  BY <1>0, <1>2, <1>5
<1>7. \A i \in 1..Len(es) : SubSeq(raw, (i - 1) * w + 1, i * w) = es[i]
  <2> TAKE i \in 1..Len(es)
  <2>1. Len(g[i - 1]) = (i - 1) * w /\ Len(g[i]) = i * w
    <3>1. i - 1 \in Nat /\ i \in Nat /\ i - 1 <= Len(es) /\ i <= Len(es)
      BY <1>0
    <3> QED
      BY <1>5, <3>1
  <2>2. SubSeq(FlattenSeq(es), Len(g[i - 1]) + 1, Len(g[i])) = es[i]
    BY <1>joined DEF Lie
  <2> QED
    BY <2>1, <2>2
<1>8. Len(raw) % w = 0 /\ Len(raw) \div w = Len(es)
  BY <1>0, <1>6
<1> HIDE DEF raw, P, T
<1>9. Numbers(w, raw) = [i \in 1..Len(es) |-> SubSeq(raw, (i - 1) * w + 1, i * w)]
  BY <1>8 DEF Numbers
<1>10. [i \in 1..Len(es) |-> SubSeq(raw, (i - 1) * w + 1, i * w)] = [i \in 1..Len(es) |-> es[i]]
  BY <1>7
<1> QED
  BY <1>0, <1>9, <1>10 DEF raw

\* Numbers has lists of bytes, or is Error.
LEMMA NumbersTyped ==
  ASSUME NEW raw \in Seq(Nat), NEW w \in {1, 2}
  PROVE  Numbers(w, raw) \in Arrays \cup {Error}
<1>0. Len(raw) \in Nat /\ \A i \in 1..Len(raw) : raw[i] \in Nat
  BY LenProperties, ElementOfSeq
<1>1. CASE Len(raw) % w # 0
  BY <1>1 DEF Numbers
<1>2. CASE Len(raw) % w = 0
  <2> DEFINE N == Len(raw) \div w
  <2>1. N \in Nat /\ N * w = Len(raw)
    BY <1>0, <1>2
  <2>2. \A i \in 1..N : SubSeq(raw, (i - 1) * w + 1, i * w) \in Seq(Nat)
    <3> TAKE i \in 1..N
    <3>1. (i - 1) * w + 1 \in Int /\ i * w \in Int /\ (i - 1) * w + 1 >= 1 /\ i * w <= Len(raw)
      BY <1>0, <2>1
    <3> DEFINE a == (i - 1) * w + 1
               b == i * w
    <3>2. a \in Int /\ b \in Int /\ a >= 1 /\ b <= Len(raw)
      BY <3>1
    <3> HIDE DEF a, b
    <3>3. \A k \in a..b : raw[k] \in Nat
      BY <1>0, <3>2
    <3>4. SubSeq(raw, a, b) \in Seq(Nat)
      BY <3>2, <3>3, SubSeqProperties
    <3> QED
      BY <3>4 DEF a, b
  <2>3. [i \in 1..N |-> SubSeq(raw, (i - 1) * w + 1, i * w)] \in Seq(Seq(Nat))
    <3> HIDE DEF N
    <3> QED
      BY <2>1, <2>2
  <2> QED
    BY <1>2, <2>3 DEF Numbers, Arrays
<1> QED
  BY <1>1, <1>2

\* f has what is read of raw from every byte on.
Reads(raw, f, lo) ==
  \A n \in lo..Len(raw) :
    f[n] = IF n = Len(raw) THEN <<>>
           ELSE LET end == n + 1 + raw[n + 1]
                IN IF end > Len(raw) \/ f[end] = Error THEN Error
                   ELSE <<SubSeq(raw, n + 2, end)>> \o f[end]

\* What Strings reads ends behind where it begins.
LEMMA OneString ==
  ASSUME NEW raw \in Seq(Nat), NEW n \in 0..Len(raw), n # Len(raw)
  PROVE  LET end == n + 1 + raw[n + 1]
         IN end \in Nat /\ end > n /\ (end <= Len(raw) => SubSeq(raw, n + 2, end) \in Seq(Nat))
<1>0. Len(raw) \in Nat /\ \A i \in 1..Len(raw) : raw[i] \in Nat
  BY LenProperties, ElementOfSeq
<1>1. n + 1 \in 1..Len(raw)
  BY <1>0
<1> DEFINE end == n + 1 + raw[n + 1]
<1>2. end \in Nat /\ end > n
  BY <1>0, <1>1
<1>3. ASSUME end <= Len(raw)  PROVE SubSeq(raw, n + 2, end) \in Seq(Nat)
  <2> HIDE DEF end
  <2>1. n + 2 \in Int /\ end \in Int /\ \A i \in (n + 2)..end : raw[i] \in Nat
    BY <1>0, <1>2, <1>3
  <2> QED
    BY <2>1, SubSeqProperties
<1> QED
  BY <1>2, <1>3

\* The recursion of Strings has a solution.
LEMMA ReadsExist ==
  ASSUME NEW raw \in Seq(Nat)
  PROVE  \E f \in [0..Len(raw) -> Arrays \cup {Error}] : Reads(raw, f, 0)
<1> DEFINE L == Len(raw)
           Part1(f, lo) == f \in [lo..L -> Arrays \cup {Error}] /\ Reads(raw, f, lo)
           P(m) == m <= L => \E f : Part1(f, L - m)
           T == {m \in Nat : P(m)}
<1>0. L \in Nat
  BY LenProperties
<1>1. P(0)
  <2> DEFINE f == [n \in L..L |-> <<>>]
  <2>1. <<>> \in Arrays
    BY DEF Arrays
  <2>2. Part1(f, L)
    BY <1>0, <2>1 DEF Reads
  <2>3. L - 0 = L
    BY <1>0
  <2> HIDE DEF Part1, L, f
  <2> QED
    BY <2>2, <2>3
<1>2. ASSUME NEW m \in Nat, P(m)  PROVE P(m + 1)
  <2> SUFFICES ASSUME m + 1 <= L PROVE \E f : Part1(f, L - (m + 1))
    OBVIOUS
  <2> DEFINE lo == L - (m + 1)
  <2>1. lo \in 0..L /\ lo # L /\ L - m = lo + 1 /\ m <= L
    BY <1>0
  <2>2. PICK f : Part1(f, lo + 1)
    <3> HIDE DEF Part1
    <3> QED
      BY <1>2, <2>1
  <2> DEFINE end == lo + 1 + raw[lo + 1]
             x == IF end > L \/ f[end] = Error THEN Error ELSE <<SubSeq(raw, lo + 2, end)>> \o f[end]
  <2>3. end \in Nat /\ end > lo /\ (end <= L => SubSeq(raw, lo + 2, end) \in Seq(Nat))
    <3> HIDE DEF lo
    <3> QED
      BY <2>1, OneString
  <2>4. x \in Arrays \cup {Error}
    <3>1. CASE end > L \/ f[end] = Error
      BY <3>1
    <3>2. CASE ~(end > L \/ f[end] = Error)
      <4> HIDE DEF lo, end
      <4>1. end \in (lo + 1)..L
        BY <1>0, <2>1, <2>3, <3>2
      <4>2. f[end] \in Seq(Seq(Nat))
        BY <2>2, <3>2, <4>1 DEF Arrays
      <4>3. <<SubSeq(raw, lo + 2, end)>> \in Seq(Seq(Nat))
        BY <2>3, <4>1
      <4>4. <<SubSeq(raw, lo + 2, end)>> \o f[end] \in Seq(Seq(Nat))
        BY <4>2, <4>3, ConcatProperties
      <4> QED
        BY <3>2, <4>4 DEF Arrays
    <3> QED
      BY <3>1, <3>2
  <2> DEFINE h == [n \in lo..L |-> IF n = lo THEN x ELSE f[n]]
  <2>5. h \in [lo..L -> Arrays \cup {Error}]
    <3> HIDE DEF x, lo
    <3>1. \A n \in lo..L : n # lo => n \in (lo + 1)..L
      BY <1>0, <2>1
    <3> QED
      BY <2>2, <2>4, <3>1
  <2>6. Reads(raw, h, lo)
    <3> SUFFICES ASSUME NEW n \in lo..L
                 PROVE  h[n] = IF n = L THEN <<>>
                               ELSE LET e == n + 1 + raw[n + 1]
                                    IN IF e > L \/ h[e] = Error THEN Error
                                       ELSE <<SubSeq(raw, n + 2, e)>> \o h[e]
      BY DEF Reads
    <3>1. \A e \in Nat : e > lo /\ e <= L => h[e] = f[e]
      <4> HIDE DEF x, lo
      <4> QED
        BY <1>0, <2>1
    <3>2. CASE n = lo
      <4>1. h[n] = x
        BY <3>2
      <4>2. end <= L => h[end] = f[end]
        BY <2>3, <3>1
      <4>3. end > L \/ end <= L
        BY <1>0, <2>3
      <4> HIDE DEF h
      <4> QED
        BY <2>1, <3>2, <4>1, <4>2, <4>3
    <3>3. CASE n # lo
      <4>0. n \in (lo + 1)..L /\ n \in 0..L
        <5> HIDE DEF lo
        <5> QED
          BY <1>0, <2>1, <3>3
      <4>1. h[n] = f[n]
        BY <3>3
      <4>2. f[n] = IF n = L THEN <<>>
                   ELSE LET e == n + 1 + raw[n + 1]
                        IN IF e > L \/ f[e] = Error THEN Error
                           ELSE <<SubSeq(raw, n + 2, e)>> \o f[e]
        BY <2>2, <4>0 DEF Reads
      <4>3. CASE n = L
        BY <4>1, <4>2, <4>3
      <4>4. CASE n # L
        <5> DEFINE e == n + 1 + raw[n + 1]
        <5>1. e \in Nat /\ e > n
          BY <4>0, <4>4, OneString
        <5>2. e > lo
          <6> HIDE DEF lo, e
          <6> QED
            BY <2>1, <4>0, <5>1
        <5>3. e <= L => h[e] = f[e]
          BY <3>1, <5>1, <5>2
        <5>4. e > L \/ e <= L
          BY <1>0, <5>1
        <5> HIDE DEF h
        <5> QED
          BY <4>1, <4>2, <4>4, <5>3, <5>4
      <4> QED
        BY <4>3, <4>4
    <3> QED
      BY <3>2, <3>3
  <2> HIDE DEF h, x, end
  <2> QED
    BY <2>5, <2>6
<1>3. \A m \in Nat : P(m)
  <2> HIDE DEF P
  <2>1. 0 \in T /\ \A m \in Nat : m \in T => m + 1 \in T
    BY <1>1, <1>2
  <2>2. \A m \in Nat : m \in T
    <3> HIDE DEF T
    <3> QED
      BY <2>1, InductionOnNat
  <2> QED
    BY <2>2
<1>4. L <= L /\ L - L = 0
  BY <1>0
<1>5. PICK f : Part1(f, 0)
  <2> HIDE DEF Part1
  <2> QED
    BY <1>0, <1>3, <1>4
<1> QED
  BY <1>5

\* The solution has lists of bytes, or Error.
LEMMA ReadsTyped ==
  ASSUME NEW raw \in Seq(Nat), NEW f, Reads(raw, f, 0)
  PROVE  \A n \in 0..Len(raw) : f[n] \in Arrays \cup {Error}
<1> DEFINE L == Len(raw)
           P(m) == m <= L => \A n \in (L - m)..L : f[n] \in Arrays \cup {Error}
           T == {m \in Nat : P(m)}
<1>0. L \in Nat
  BY LenProperties
<1>1. P(0)
  <2>1. <<>> \in Arrays
    BY DEF Arrays
  <2>2. f[L] = <<>>
    <3>1. L \in 0..Len(raw)
      BY <1>0
    <3> QED
      BY <3>1 DEF Reads
  <2>3. \A n \in (L - 0)..L : n = L
    BY <1>0
  <2> HIDE DEF L
  <2> QED
    BY <2>1, <2>2, <2>3
<1>2. ASSUME NEW m \in Nat, P(m)  PROVE P(m + 1)
  <2> SUFFICES ASSUME m + 1 <= L, NEW n \in (L - (m + 1))..L PROVE f[n] \in Arrays \cup {Error}
    OBVIOUS
  <2>1. CASE n \in (L - m)..L
    BY <1>0, <1>2, <2>1
  <2>2. CASE n \notin (L - m)..L
    <3>1. n \in 0..L /\ n # L /\ L - m = n + 1
      BY <1>0, <2>2
    <3> DEFINE end == n + 1 + raw[n + 1]
    <3>2. end \in Nat /\ end > n /\ (end <= L => SubSeq(raw, n + 2, end) \in Seq(Nat))
      BY <3>1, OneString
    <3>3. f[n] = IF end > L \/ f[end] = Error THEN Error ELSE <<SubSeq(raw, n + 2, end)>> \o f[end]
      BY <3>1 DEF Reads
    <3> HIDE DEF end
    <3>4. CASE end > L \/ f[end] = Error
      BY <3>3, <3>4
    <3>5. CASE ~(end > L \/ f[end] = Error)
      <4>1. end <= L /\ end \in (L - m)..L
        BY <1>0, <3>1, <3>2, <3>5
      <4>2. f[end] \in Seq(Seq(Nat))
        BY <1>0, <1>2, <3>5, <4>1 DEF Arrays
      <4>3. <<SubSeq(raw, n + 2, end)>> \in Seq(Seq(Nat))
        BY <3>2, <4>1
      <4>4. <<SubSeq(raw, n + 2, end)>> \o f[end] \in Seq(Seq(Nat))
        BY <4>2, <4>3, ConcatProperties
      <4> QED
        BY <3>3, <3>5, <4>4 DEF Arrays
    <3> QED
      BY <3>4, <3>5
  <2> QED
    BY <2>1, <2>2
<1>3. \A m \in Nat : P(m)
  <2> HIDE DEF P
  <2>1. 0 \in T /\ \A m \in Nat : m \in T => m + 1 \in T
    BY <1>1, <1>2
  <2>2. \A m \in Nat : m \in T
    <3> HIDE DEF T
    <3> QED
      BY <2>1, InductionOnNat
  <2> QED
    BY <2>2
<1>4. L <= L /\ L - L = 0
  BY <1>0
<1> QED
  BY <1>0, <1>3, <1>4

\* Strings reads from the first byte on.
LEMMA StringsReads ==
  ASSUME NEW raw \in Seq(Nat)
  PROVE  \E f : Reads(raw, f, 0) /\ Strings(raw) = f[0]
<1> DEFINE body(f, n) == IF n = Len(raw) THEN <<>>
                         ELSE LET end == n + 1 + raw[n + 1]
                              IN IF end > Len(raw) \/ f[end] = Error THEN Error
                                 ELSE <<SubSeq(raw, n + 2, end)>> \o f[end]
           f0 == CHOOSE f : f = [n \in 0..Len(raw) |->
                   IF n = Len(raw) THEN <<>>
                   ELSE LET end == n + 1 + raw[n + 1]
                        IN IF end > Len(raw) \/ f[end] = Error THEN Error
                           ELSE <<SubSeq(raw, n + 2, end)>> \o f[end]]
<1>0. Len(raw) \in Nat
  BY LenProperties
<1>1. Strings(raw) = f0[0]
  BY DEF Strings
<1>2. PICK f \in [0..Len(raw) -> Arrays \cup {Error}] : Reads(raw, f, 0)
  BY ReadsExist
<1>3. \A n \in 0..Len(raw) : f[n] = body(f, n)
  BY <1>2 DEF Reads
<1>4. f = [n \in 0..Len(raw) |-> body(f, n)]
  <2> HIDE DEF body
  <2> QED
    BY <1>2, <1>3
<1>5. \E h : h = [n \in 0..Len(raw) |-> body(h, n)]
  <2> HIDE DEF body
  <2> QED
    BY <1>4
<1>6. f0 = [n \in 0..Len(raw) |-> body(f0, n)]
  BY <1>5
<1> HIDE DEF f0
<1>7. \A n \in 0..Len(raw) : f0[n] = body(f0, n)
  <2> HIDE DEF body
  <2> QED
    BY <1>6
<1>8. Reads(raw, f0, 0)
  BY <1>7 DEF Reads
<1> QED
  BY <1>1, <1>8

\* Strings has lists of bytes, or is Error.
LEMMA StringsTyped ==
  ASSUME NEW raw \in Seq(Nat)
  PROVE  Strings(raw) \in Arrays \cup {Error}
<1>1. Len(raw) \in Nat
  BY LenProperties
<1> QED
  BY <1>1, StringsReads, ReadsTyped

\* Strings are read as they were written.
Prefixed(es) == [i \in DOMAIN es |-> <<Len(es[i])>> \o es[i]]

\* Strings with their lengths are lists of numbers.
LEMMA PrefixedTyped ==
  ASSUME NEW es \in Seq(Seq(Nat))
  PROVE  /\ Prefixed(es) \in Seq(Seq(Nat)) /\ Len(Prefixed(es)) = Len(es)
         /\ \A i \in 1..Len(es) :
              /\ es[i] \in Seq(Nat) /\ Len(es[i]) \in Nat
              /\ Prefixed(es)[i] = <<Len(es[i])>> \o es[i]
              /\ Len(Prefixed(es)[i]) = 1 + Len(es[i])
              /\ Prefixed(es)[i][1] = Len(es[i])
              /\ \A k \in 1..Len(es[i]) : Prefixed(es)[i][1 + k] = es[i][k]
<1>0. Len(es) \in Nat /\ DOMAIN es = 1..Len(es)
  BY LenProperties
<1>1. ASSUME NEW i \in 1..Len(es)
      PROVE  LET p == <<Len(es[i])>> \o es[i]
             IN /\ es[i] \in Seq(Nat) /\ Len(es[i]) \in Nat
                /\ p \in Seq(Nat) /\ Len(p) = 1 + Len(es[i]) /\ p[1] = Len(es[i])
                /\ \A k \in 1..Len(es[i]) : p[1 + k] = es[i][k]
  <2> DEFINE e == es[i]
             p == <<Len(e)>> \o e
  <2>1. e \in Seq(Nat)
    BY ElementOfSeq
  <2> HIDE DEF e
  <2>2. Len(e) \in Nat
    BY <2>1, LenProperties
  <2>3. <<Len(e)>> \in Seq(Nat) /\ Len(<<Len(e)>>) = 1 /\ <<Len(e)>>[1] = Len(e)
    BY <2>2
  <2> DEFINE h == <<Len(e)>>
  <2> HIDE DEF h
  <2>4. h \in Seq(Nat) /\ Len(h) = 1 /\ h[1] = Len(e)
    BY <2>3 DEF h
  <2>5. h \o e \in Seq(Nat) /\ Len(h \o e) = Len(h) + Len(e) /\
        \A k \in 1..Len(h) + Len(e) : (h \o e)[k] = IF k <= Len(h) THEN h[k] ELSE e[k - Len(h)]
    BY <2>1, <2>4, ConcatProperties
  <2>6. (h \o e)[1] = h[1]
    BY <2>2, <2>4, <2>5
  <2>7. \A k \in 1..Len(e) : (h \o e)[1 + k] = e[k]
    <3> TAKE k \in 1..Len(e)
    <3>1. 1 + k \in 1..(Len(h) + Len(e)) /\ ~(1 + k <= Len(h)) /\ (1 + k) - Len(h) = k
      BY <2>2, <2>4
    <3> QED
      BY <2>5, <3>1
  <2> QED
    BY <2>1, <2>2, <2>4, <2>5, <2>6, <2>7 DEF e, h
<1>2. Prefixed(es) = [i \in 1..Len(es) |-> <<Len(es[i])>> \o es[i]]
  BY <1>0 DEF Prefixed
<1>3. Prefixed(es) \in Seq(Seq(Nat)) /\ Len(Prefixed(es)) = Len(es)
  BY <1>0, <1>1, <1>2
<1> QED
  BY <1>1, <1>2, <1>3

\* A string lies behind its length, and within the bytes.
LEMMA Ahead ==
  ASSUME NEW L \in Nat, NEW n \in Nat, NEW e \in Nat, NEW x, x = n + (1 + e), x <= L
  PROVE  x = n + 1 + e /\ n \in 0..L /\ n # L /\ (n + 1) + e <= L
OBVIOUS

\* Strings reads the strings that were written, with their lengths, one behind the
\* other.
LEMMA StringsBack ==
  ASSUME NEW es \in Seq(Seq(Nat)), Error \notin Arrays
  PROVE  Strings(FlattenSeq(Prefixed(es))) = es
<1> DEFINE N == Len(es)
           ss == Prefixed(es)
           raw == FlattenSeq(ss)
           L == Len(raw)
<1>0. N \in Nat /\ DOMAIN es = 1..N
  BY LenProperties
<1>1. ss \in Seq(Seq(Nat)) /\ Len(ss) = N
  BY PrefixedTyped
<1>2. PICK g : g \in [0..Len(ss) -> Seq(Nat)] /\ Joins(ss, g)
  BY <1>1, JoinsExist
<1>3. Lie(ss, g, raw, Nat)
  BY <1>1, <1>2, FlattenPieces
<1>4. raw \in Seq(Nat) /\ L \in Nat
  BY <1>1, FlattenTyped, LenProperties
<1>5. PICK f : Reads(raw, f, 0) /\ Strings(raw) = f[0]
  BY <1>4, StringsReads
<1> DEFINE P(m) == m <= N => f[Len(g[N - m])] = SubSeq(es, (N - m) + 1, N)
           T == {m \in Nat : P(m)}
<1>6. P(0)
  <2>1. Len(g[N]) = L
    BY <1>1, <1>3 DEF Lie
  <2>2. f[L] = <<>>
    <3>1. L \in 0..Len(raw)
      BY <1>4
    <3> HIDE DEF raw
    <3> QED
      BY <1>5, <3>1 DEF Reads
  <2>3. SubSeq(es, N + 1, N) = <<>>
    BY <1>0, SubSeqEmpty
  <2>4. N - 0 = N
    BY <1>0
  <2> HIDE DEF L, N, raw, ss
  <2> QED
    BY <2>1, <2>2, <2>3, <2>4
<1>7. ASSUME NEW m \in Nat, P(m)  PROVE P(m + 1)
  <2> SUFFICES ASSUME m + 1 <= N PROVE f[Len(g[N - (m + 1)])] = SubSeq(es, (N - (m + 1)) + 1, N)
    OBVIOUS
  <2> DEFINE i == N - m
             n == Len(g[i - 1])
             e == Len(es[i])
  <2>1. i \in 1..N /\ N - (m + 1) = i - 1 /\ (i - 1) + 1 = i
    BY <1>0
  <2>2. f[Len(g[i])] = SubSeq(es, i + 1, N)
    BY <1>0, <1>7
  <2> HIDE DEF i
  <2>3. /\ es[i] \in Seq(Nat) /\ e \in Nat /\ Len(ss[i]) = 1 + e /\ ss[i][1] = e
        /\ \A k \in 1..e : ss[i][1 + k] = es[i][k]
    BY <2>1, PrefixedTyped
  <2>4. n \in Nat /\ Len(g[i]) = n + Len(ss[i]) /\ Len(g[i]) <= L
        /\ \A k \in 1..Len(ss[i]) : raw[n + k] = ss[i][k]
    <3>1. i \in 1..Len(ss) /\ i - 1 \in 0..Len(ss) /\ i \in 0..Len(ss)
      BY <1>0, <1>1, <2>1
    <3> HIDE DEF ss, raw
    <3> QED
      BY <1>3, <3>1 DEF Lie
  <2> HIDE DEF n, e, raw, ss
  <2>5. Len(g[i]) = n + 1 + e /\ n \in 0..L /\ n # L /\ (n + 1) + e <= L
    <3>1. L \in Nat /\ n \in Nat /\ e \in Nat
      BY <1>4, <2>3, <2>4
    <3>2. Len(g[i]) = n + (1 + e) /\ Len(g[i]) <= L
      BY <2>3, <2>4
    <3> HIDE DEF L
    <3> QED
      BY <3>1, <3>2, Ahead
  <2>6. raw[n + 1] = e
    <3>1. Len(ss[i]) \in Nat /\ 1 \in 1..Len(ss[i])
      BY <2>3
    <3>2. raw[n + 1] = ss[i][1]
      BY <2>4, <3>1
    <3> QED
      BY <2>3, <3>2
  <2>7. \A k \in 1..e : raw[(n + 1) + k] = es[i][k]
    <3> TAKE k \in 1..e
    <3>1. 1 + k \in 1..Len(ss[i]) /\ n + (1 + k) = (n + 1) + k
      BY <2>3, <2>4
    <3> QED
      BY <2>3, <2>4, <3>1
  <2>8. SubSeq(raw, n + 2, n + 1 + e) = es[i]
    <3>1. n + 1 \in Nat /\ n + 1 + e \in Nat /\ (n + 1) + 1 = n + 2 /\ n + 1 + e <= Len(raw)
      BY <2>3, <2>4, <2>5 DEF L
    <3>2. SubSeq(raw, (n + 1) + 1, n + 1 + e) = es[i]
      <4> DEFINE a == n + 1
                 b == n + 1 + e
      <4>1. a \in Nat /\ b \in Nat /\ b = a + Len(es[i]) /\ b <= Len(raw) /\ \A k \in 1..Len(es[i]) : raw[a + k] = es[i][k]
        BY <2>7, <3>1 DEF e
      <4> HIDE DEF a, b
      <4>2. SubSeq(raw, a + 1, b) = es[i]
        BY <1>4, <2>3, <4>1, PieceIs
      <4> QED
        BY <4>2 DEF a, b
    <3> QED
      BY <3>1, <3>2
  <2>9. SubSeq(es, i + 1, N) \in Seq(Seq(Nat))
    <3>1. \A k \in (i + 1)..N : es[k] \in Seq(Nat)
      BY <1>0, <2>1, ElementOfSeq
    <3> QED
      BY <1>0, <2>1, <3>1, SubSeqProperties
  <2>10. f[n] = IF n + 1 + e > L \/ f[n + 1 + e] = Error THEN Error ELSE <<SubSeq(raw, n + 2, n + 1 + e)>> \o f[n + 1 + e]
    BY <1>5, <2>5, <2>6 DEF Reads
  <2>11. f[n + 1 + e] # Error /\ ~(n + 1 + e > L)
    <3>1. f[n + 1 + e] = SubSeq(es, i + 1, N)
      BY <2>2, <2>5
    <3>2. ~(n + 1 + e > L)
      BY <1>4, <2>3, <2>4, <2>5
    <3> QED
      BY <2>9, <3>1, <3>2 DEF Arrays
  <2>12. f[n] = <<es[i]>> \o SubSeq(es, i + 1, N)
    BY <2>2, <2>5, <2>8, <2>10, <2>11
  <2>13. SubSeq(es, i, N) = <<es[i]>> \o SubSeq(es, i + 1, N)
    BY <1>0, <2>1, SubSeqRecursiveFirst
  <2> QED
    BY <2>1, <2>12, <2>13 DEF n
<1>8. \A m \in Nat : P(m)
  <2> HIDE DEF P
  <2>1. 0 \in T /\ \A m \in Nat : m \in T => m + 1 \in T
    BY <1>6, <1>7
  <2>2. \A m \in Nat : m \in T
    <3> HIDE DEF T
    <3> QED
      BY <2>1, InductionOnNat
  <2> QED
    BY <2>2
<1>9. f[Len(g[0])] = SubSeq(es, 1, N)
  <2>1. N <= N /\ N - N = 0 /\ 0 + 1 = 1
    BY <1>0
  <2> HIDE DEF raw, ss
  <2> QED
    BY <1>0, <1>8, <2>1
<1>10. Len(g[0]) = 0
  BY <1>3 DEF Lie
<1>11. SubSeq(es, 1, N) = es
  BY SubSeqFull
<1> QED
  BY <1>5, <1>9, <1>10, <1>11

-----------------------------------------------------------------------------
(* What a tensor, a message and a state carry.                             *)

\* The binary data of a tensor.
Raw(r) == Bytes(r.datatype, r.elements)

SameHead(t, r) == t.name = r.name /\ t.datatype = r.datatype /\ t.shape = Len(r.elements)

\* The tensor t has the elements of r, as data or as raw data.
Carries(t, r) ==
  /\ SameHead(t, r)
  /\ t.size # None => t.size = Len(Raw(r))
  /\ \/ /\ t.raw = None /\ t.data # None /\ t.data.elements = r.elements
        /\ t.size # None => r.elements = <<>>
     \/ /\ t.raw = Raw(r)
        /\ t.data = None \/ (t.data.elements = <<>> /\ t.data.kind # "array")

\* It has lost some, and its shape tells.
Torn(t, r) ==
  /\ SameHead(t, r) /\ t.datatype = "BYTES" /\ t.size = None
  /\ t.raw = None /\ t.data # None /\ t.data.kind # "array"
  /\ Len(t.data.elements) < Len(r.elements)

HasText(r) == \A j \in DOMAIN r.elements : IsText(r.elements[j])
Conveys(t, r) == Carries(t, r) \/ (~HasText(r) /\ Torn(t, r))

Intact(ts, rs) == DOMAIN ts = DOMAIN rs /\ \A i \in DOMAIN rs : Carries(ts[i], rs[i])
Faithful(ts, rs) == DOMAIN ts = DOMAIN rs /\ \A i \in DOMAIN rs : Conveys(ts[i], rs[i])

\* The same of what is written for a tensor.
WireCarries(w, r) ==
  /\ SameHead(w, r)
  /\ w.size # None => w.size = Len(Raw(r))
  /\ w.data # None => w.data = r.elements /\ (w.size # None => r.elements = <<>>)
WireTorn(w, r) ==
  /\ SameHead(w, r) /\ w.datatype = "BYTES" /\ w.size = None
  /\ w.data # None /\ Len(w.data) < Len(r.elements)
WireConveys(w, r) == WireCarries(w, r) \/ (~HasText(r) /\ WireTorn(w, r))
Part(w, r) == IF w.data = None THEN Raw(r) ELSE <<>>

\* The binary data of a message are those of the tensors written without data.
RawsRight(m, rs, protocol) ==
  IF protocol = "rest" THEN FlattenSeq(m.raws) = FlattenSeq([i \in DOMAIN rs |-> Part(m.tensors[i], rs[i])])
  ELSE (\A i \in DOMAIN rs : m.tensors[i].data = None) => m.raws = [i \in DOMAIN rs |-> Raw(rs[i])]
MessageIntact(m, rs, protocol) ==
  /\ DOMAIN m.tensors = DOMAIN rs
  /\ \A i \in DOMAIN rs : WireCarries(m.tensors[i], rs[i])
  /\ RawsRight(m, rs, protocol)
MessageFaithful(m, rs, protocol) ==
  /\ DOMAIN m.tensors = DOMAIN rs
  /\ \A i \in DOMAIN rs : WireConveys(m.tensors[i], rs[i])
  /\ RawsRight(m, rs, protocol)

\* The form of a message, whatever it carries.
MessageForm(m, protocol) ==
  /\ protocol = "grpc" => Len(m.raws) = Cardinality({i \in DOMAIN m.tensors : m.tensors[i].data = None})
  /\ Len(m.raws) <= Len(m.tensors)
  /\ \A i \in DOMAIN m.tensors : m.tensors[i].datatype = "FP16" => m.tensors[i].data \in {None, <<>>}

\* Some of the outputs of the model, as they were asked for.
Chosen(qs, rs) == qs \in Seq(Given) /\ \A i \in DOMAIN qs : \E j \in DOMAIN rs : qs[i] = rs[j]

PathRight ==
  /\ pc \in {"idle", "sent", "held", "predicted", "replied", "received", "refused"}
  /\ path \in Paths \cup {<<>>} /\ node \in 0..Len(path) /\ sends \in 0..MaxSends
  /\ pc = "idle" => path = <<>>
  /\ pc \in {"sent", "replied"} => node < Len(path)
  /\ pc \in {"held", "predicted"} => node > 0
  /\ mixed \in BOOLEAN /\ (pc \in {"idle", "sent", "held"} => ~mixed)
  /\ result \in Results \cup {None}
  /\ pc \in {"idle", "sent", "held"} => result = None
  /\ pc \in {"predicted", "replied", "received"} => result \in Results

ClientRight ==
  /\ truth \in Seq(Given)
  /\ client \in RequestSet
  /\ Faithful(client.inputs, truth)
  /\ \A i \in DOMAIN truth : client.inputs[i].data = None \/ client.inputs[i].raw = None

SomeRaw == \E i \in DOMAIN client.inputs : client.inputs[i].raw # None

\* A request on its way carries what the client put in it.
RequestsRight ==
  /\ pc = "sent" =>
       /\ msg \in RequestMessages /\ msg.binary = client.binary /\ msg.outputs = client.outputs
       /\ MessageFaithful(msg, truth, Protocol) /\ MessageForm(msg, Protocol)
       /\ path = <<"grpc">> /\ SomeRaw => msg.raws # <<>>
  /\ pc = "held" =>
       /\ msg \in RequestSet /\ msg.binary = client.binary /\ msg.outputs = client.outputs
       /\ msg.grpc <=> path[node] = "grpc"
       /\ Faithful(msg.inputs, truth)
       /\ path = <<"grpc">> /\ SomeRaw => msg.raw

\* What get_predict_response makes.
HelpersOwn ==
  /\ msg.outputs = client.outputs
  /\ path[node] = "rest" => msg.binary = client.binary
  /\ path = <<"grpc">> /\ SomeRaw => msg.binary
  /\ \A i \in DOMAIN msg.tensors :
       LET t == msg.tensors[i]
       IN IF msg.binary THEN t.data = None /\ t.raw # None ELSE Is(t.data, "list") /\ t.raw = None

\* A response on its way carries what the model returned, unless it was mixed.
ResponsesRight ==
  /\ pc = "predicted" =>
       /\ msg \in ResponseSet
       /\ ~mixed => \E qs : Chosen(qs, result.outputs) /\ Intact(msg.tensors, qs)
       /\ node = Len(path) => Intact(msg.tensors, result.outputs) /\ (result.helper => HelpersOwn) /\ ~mixed
       /\ node < Len(path) => msg.outputs = None /\ ~msg.binary
  /\ pc = "replied" =>
       /\ msg \in ResponseMessages /\ MessageForm(msg, Protocol)
       /\ ~mixed => \E qs : Chosen(qs, result.outputs) /\ MessageIntact(msg, qs, Protocol)
       /\ ~mixed /\ Protocol = "grpc" => msg.raws = <<>> \/ Len(msg.raws) = Len(msg.tensors)
  /\ pc = "received" =>
       /\ msg \in ResponseSet
       /\ ~mixed => \E qs : Chosen(qs, result.outputs) /\ Intact(msg.tensors, qs)

CarryingIInv == PathRight /\ ClientRight /\ RequestsRight /\ ResponsesRight
OpenIInv == CarryingIInv /\ EncodedAsAsked

-----------------------------------------------------------------------------
(* Plain tensors have data, or raw data, all alike.                        *)

OneData(t) == t.data # None /\ t.data.kind \in {"list", "bytes"} /\ t.raw = None /\ t.size = None
OneRaw(t) == t.raw # None /\ t.size # None /\ (t.data = None \/ t.data.elements = <<>>)
OneKind(t, kind) == Is(t.data, kind) /\ t.raw = None /\ t.size = None
DataWire(w) == w.data # None /\ w.size = None
RawWire(w) == w.data = None /\ w.size # None

AllData(ts) == \A i \in DOMAIN ts : OneData(ts[i])
AllRaw(ts) == \A i \in DOMAIN ts : OneRaw(ts[i])
DataOfKind(ts, kind) == \A i \in DOMAIN ts : OneKind(ts[i], kind)
AllDataSent(m) == m.raws = <<>> /\ \A i \in DOMAIN m.tensors : DataWire(m.tensors[i])
AllRawSent(m) == Len(m.raws) = Len(m.tensors) /\ \A i \in DOMAIN m.tensors : RawWire(m.tensors[i])

NoStrings(rs) == \A i \in DOMAIN rs : rs[i].datatype # "BYTES"
NoBytes(ts) == \A i \in DOMAIN ts : ~Is(ts[i].data, "bytes")

\* What has been in JSON on the way to node n, and was in gRPC contents after it.
WasJson(n) == \E i \in 1..n : path[i] = "rest"
WasContents(n) == \E i, j \in 1..n : i < j /\ path[i] = "rest" /\ path[j] = "grpc"

PlainTruth == Ordinary(truth) /\ OneForm(truth)
PlainPath == ThereAndBack => NoStrings(truth)
PlainResult ==
  /\ result.helper /\ Ordinary(result.outputs)
  /\ client.outputs # None =>
       \A i \in DOMAIN client.outputs :
         \E j \in DOMAIN result.outputs : result.outputs[j].name = client.outputs[i].name

PlainRequests ==
  PlainTruth =>
    /\ \/ AllRaw(client.inputs)
       \/ NoStrings(truth) /\ (DataOfKind(client.inputs, "list") \/ DataOfKind(client.inputs, "array"))
    /\ pc = "sent" =>
         \/ AllRawSent(msg)
         \/ AllDataSent(msg) /\ (NoStrings(truth) \/ WasJson(node))
    /\ pc = "held" =>
         \/ AllRaw(msg.inputs)
         \/ /\ AllData(msg.inputs) /\ (NoStrings(truth) \/ WasJson(node))
            /\ NoBytes(msg.inputs) \/ (~NoStrings(truth) /\ WasContents(node))

PlainResponses ==
  result # None /\ PlainResult =>
    /\ pc = "predicted" => ~mixed /\ (AllRaw(msg.tensors) \/ AllData(msg.tensors))
    /\ pc = "replied" =>
         /\ ~mixed
         /\ \A i \in DOMAIN msg.tensors : RawWire(msg.tensors[i]) \/ DataWire(msg.tensors[i])
         /\ Protocol = "grpc" => AllRawSent(msg) \/ AllDataSent(msg)

PlainIInv == CarryingIInv /\ PlainRequests /\ PlainResponses /\ PlainIsServed

-----------------------------------------------------------------------------

\* None and Error are neither data nor messages.
LEMMA Nothing ==
  /\ None \notin Nat /\ None \notin Seq(Nat) /\ None \notin Arrays /\ None \notin DataSet
  /\ None # TRUE /\ None # FALSE /\ None # Error /\ Error \notin Arrays
  /\ None \notin Seq([name : STRING, binary : {TRUE, FALSE, None}])
  /\ Error \notin Seq(TensorSet) /\ Error \notin RequestSet /\ Error \notin ResponseSet
  /\ Error \notin RequestMessages /\ Error \notin ResponseMessages
BY OpenAssumption

\* The fields of what a client or a model gives.
LEMMA GivenHas ==
  ASSUME NEW r \in Given
  PROVE  /\ r.name \in STRING /\ r.datatype \in DataTypes /\ r.elements \in Arrays
         /\ r.elements \in Seq(Seq(Nat))
         /\ r.form \in {"list", "array", "binary", "raw"}
         /\ r.datatype # "BYTES" => /\ Width[r.datatype] \in {1, 2}
                                    /\ \A i \in DOMAIN r.elements : Len(r.elements[i]) = Width[r.datatype]
         /\ Len(r.elements) \in Nat
<1>1. r.name \in STRING /\ r.datatype \in DataTypes /\ r.elements \in Arrays /\ r.form \in {"list", "array", "binary", "raw"}
  BY DEF Given
<1>2. r.datatype # "BYTES" => \A i \in DOMAIN r.elements : Len(r.elements[i]) = Width[r.datatype]
  BY DEF Given
<1>3. r.datatype # "BYTES" => Width[r.datatype] \in {1, 2}
  BY <1>1 DEF DataTypes, Width
<1> QED
  BY <1>1, <1>2, <1>3, LenProperties DEF Arrays

\* The fields of a tensor.
LEMMA TensorHas ==
  ASSUME NEW t \in TensorSet
  PROVE  /\ t.name \in STRING /\ t.datatype \in DataTypes /\ t.shape \in Nat
         /\ t.data \in DataSet \cup {None} /\ t.raw \in Seq(Nat) \cup {None} /\ t.size \in Nat \cup {None}
         /\ t.data # None => t.data.elements \in Arrays /\ t.data.kind \in {"list", "bytes", "array"}
         /\ t.datatype # "BYTES" => Width[t.datatype] \in {1, 2}
<1>1. /\ t.name \in STRING /\ t.datatype \in DataTypes /\ t.shape \in Nat
      /\ t.data \in DataSet \cup {None} /\ t.raw \in Seq(Nat) \cup {None} /\ t.size \in Nat \cup {None}
  BY DEF TensorSet
<1>2. t.datatype # "BYTES" => Width[t.datatype] \in {1, 2}
  BY <1>1 DEF DataTypes, Width
<1>3. t.data # None => t.data.elements \in Arrays /\ t.data.kind \in {"list", "bytes", "array"}
  BY <1>1 DEF DataSet
<1> QED
  BY <1>1, <1>2, <1>3

\* Bytes joins the elements, strings with their lengths.
LEMMA BytesAre ==
  ASSUME NEW d \in DataTypes, NEW es \in Arrays
  PROVE  /\ Bytes(d, es) = IF d = "BYTES" THEN FlattenSeq(Prefixed(es)) ELSE FlattenSeq(es)
         /\ Bytes(d, es) \in Seq(Nat) /\ Len(Bytes(d, es)) \in Nat
<1>0. es \in Seq(Seq(Nat)) /\ es = [i \in DOMAIN es |-> es[i]]
  BY LenProperties DEF Arrays
<1>1. CASE d = "BYTES"
  <2>1. Bytes(d, es) = FlattenSeq(Prefixed(es))
    BY <1>1 DEF Bytes, Prefixed
  <2> QED
    BY <1>0, <1>1, <2>1, PrefixedTyped, FlattenTyped, LenProperties
<1>2. CASE d # "BYTES"
  <2>1. Bytes(d, es) = FlattenSeq([i \in DOMAIN es |-> es[i]])
    BY <1>2 DEF Bytes
  <2>2. Bytes(d, es) = FlattenSeq(es)
    BY <1>0, <2>1, Zenon
  <2> QED
    BY <1>0, <1>2, <2>2, FlattenTyped, LenProperties
<1> QED
  BY <1>1, <1>2

\* The binary data of a tensor is read as it was written.
LEMMA RawBack ==
  ASSUME NEW r \in Given
  PROVE  /\ Raw(r) \in Seq(Nat) /\ Len(Raw(r)) \in Nat
         /\ (IF r.datatype = "BYTES" THEN Strings(Raw(r)) ELSE Numbers(Width[r.datatype], Raw(r))) = r.elements
<1>1. CASE r.datatype = "BYTES"
  <2>1. Raw(r) = FlattenSeq(Prefixed(r.elements))
    BY <1>1, GivenHas, BytesAre DEF Raw
  <2>2. Strings(Raw(r)) = r.elements
    BY <2>1, GivenHas, Nothing, StringsBack
  <2> QED
    BY <1>1, <2>2, GivenHas, BytesAre DEF Raw
<1>2. CASE r.datatype # "BYTES"
  <2>1. Raw(r) = FlattenSeq(r.elements)
    BY <1>2, GivenHas, BytesAre DEF Raw
  <2>2. Numbers(Width[r.datatype], Raw(r)) = r.elements
    BY <1>2, <2>1, GivenHas, NumbersBack
  <2> QED
    BY <1>2, <2>2, GivenHas, BytesAre DEF Raw
<1> QED
  BY <1>1, <1>2

\* Only a tensor without elements has no bytes.
LEMMA RawEmpty ==
  ASSUME NEW r \in Given
  PROVE  Raw(r) = <<>> <=> r.elements = <<>>
<1>1. ASSUME Raw(r) = <<>>  PROVE r.elements = <<>>
  <2>1. CASE r.datatype = "BYTES"
    <3>1. Strings(<<>>) = r.elements
      BY <1>1, <2>1, RawBack
    <3>2. <<>> \in Seq(Nat) /\ Len(<<>>) = 0
      OBVIOUS
    <3>3. PICK f : Reads(<<>>, f, 0) /\ Strings(<<>>) = f[0]
      BY <3>2, StringsReads
    <3>4. f[0] = <<>>
      BY <3>2, <3>3 DEF Reads
    <3> QED
      BY <3>1, <3>3, <3>4
  <2>2. CASE r.datatype # "BYTES"
    <3>1. Numbers(Width[r.datatype], <<>>) = r.elements /\ Width[r.datatype] \in {1, 2}
      BY <1>1, <2>2, RawBack, GivenHas
    <3> DEFINE w == Width[r.datatype]
    <3>2. w \in {1, 2} /\ Len(<<>>) = 0
      BY <3>1
    <3> HIDE DEF w
    <3>3. 0 % w = 0 /\ 0 \div w = 0
      BY <3>2
    <3>4. Numbers(w, <<>>) = [i \in 1..0 |-> SubSeq(<<>>, (i - 1) * w + 1, i * w)]
      BY <3>2, <3>3 DEF Numbers
    <3>5. DOMAIN Numbers(w, <<>>) = {}
      BY <3>4
    <3>6. DOMAIN r.elements = {} /\ r.elements \in Seq(Seq(Nat))
      BY <3>1, <3>5, GivenHas DEF w
    <3>7. Len(r.elements) = 0
      <4>1. DOMAIN r.elements = 1..Len(r.elements) /\ Len(r.elements) \in Nat
        BY <3>6, LenProperties
      <4>2. 1 \notin 1..Len(r.elements)
        BY <3>6, <4>1
      <4> QED
        BY <4>1, <4>2
    <3> QED
      BY <3>6, <3>7, EmptySeq
  <2> QED
    BY <2>1, <2>2
<1>2. ASSUME r.elements = <<>>  PROVE Raw(r) = <<>>
  <2>1. Raw(r) = FlattenSeq(<<>>)
    BY <1>2 DEF Raw, Bytes
  <2> QED
    BY <2>1, FlattenEmpty
<1> QED
  BY <1>1, <1>2

\* as_numpy has lists of bytes, or fails.
LEMMA AsNumpyTyped ==
  ASSUME NEW t \in TensorSet
  PROVE  AsNumpy(t) \in Arrays \cup {Error}
<1> DEFINE elements ==
             IF t.raw = None THEN IF t.data = None THEN Error ELSE t.data.elements
             ELSE IF t.datatype = "BYTES" THEN Strings(t.raw)
             ELSE Numbers(Width[t.datatype], t.raw)
<1>1. t.raw # None => /\ Strings(t.raw) \in Arrays \cup {Error}
                      /\ t.datatype # "BYTES" => Numbers(Width[t.datatype], t.raw) \in Arrays \cup {Error}
  BY TensorHas, StringsTyped, NumbersTyped
<1>2. elements \in Arrays \cup {Error}
  BY <1>1, TensorHas
<1>3. AsNumpy(t) = IF elements = Error THEN Error ELSE IF Len(elements) = t.shape THEN elements ELSE Error
  BY DEF AsNumpy
<1> HIDE DEF elements
<1> QED
  BY <1>2, <1>3

\* A tensor that carries the elements of r has them for its reader.
LEMMA CarriesIsRead ==
  ASSUME NEW t, NEW r \in Given, Carries(t, r)
  PROVE  AsNumpy(t) = r.elements
<1>1. r.elements # Error /\ Len(r.elements) = t.shape /\ t.datatype = r.datatype
  BY GivenHas, Nothing DEF Carries, SameHead
<1>2. CASE t.raw = None /\ t.data # None /\ t.data.elements = r.elements
  BY <1>1, <1>2 DEF AsNumpy
<1>3. CASE t.raw = Raw(r)
  <2>1. t.raw # None
    BY <1>3, RawBack, Nothing
  <2>2. (IF t.datatype = "BYTES" THEN Strings(t.raw) ELSE Numbers(Width[t.datatype], t.raw)) = r.elements
    BY <1>1, <1>3, RawBack
  <2> QED
    BY <1>1, <2>1, <2>2 DEF AsNumpy
<1> QED
  BY <1>2, <1>3 DEF Carries

\* as_numpy fails on a tensor that has lost some of its elements.
LEMMA TornIsNot ==
  ASSUME NEW t \in TensorSet, NEW r \in Given, Torn(t, r)
  PROVE  AsNumpy(t) = Error
<1>1. t.raw = None /\ t.data # None /\ t.data.elements \in Seq(Seq(Nat)) /\ Len(t.data.elements) \in Nat
  BY TensorHas, LenProperties DEF Torn, Arrays
<1>2. Len(t.data.elements) # t.shape
  BY <1>1, GivenHas DEF Torn, SameHead
<1> QED
  BY <1>1, <1>2 DEF AsNumpy

-----------------------------------------------------------------------------
(* Converting one tensor.                                                  *)

Same(u, t) == u.name = t.name /\ u.datatype = t.datatype /\ u.shape = t.shape

\* What SetText makes of t.
Texted(s, t, es) ==
  /\ s.tensor \in TensorSet /\ s.ok \in BOOLEAN /\ Same(s.tensor, t)
  /\ s.tensor.raw = None /\ s.tensor.size = None
  /\ s.tensor.data # None /\ s.tensor.data.kind = "list"
  /\ s.ok => s.tensor.data.elements = es
  /\ ~s.ok => /\ t.datatype = "BYTES" /\ \E j \in DOMAIN es : ~IsText(es[j])
              /\ Len(s.tensor.data.elements) < Len(es)

\* set_data_from_numpy makes data and nothing else, or leaves fewer elements.
LEMMA SetTextDoes ==
  ASSUME NEW t \in TensorSet, NEW es \in Arrays
  PROVE  Texted(SetText(t, es), t, es)
<1> DEFINE bad == IF t.datatype = "BYTES" THEN {i \in DOMAIN es : ~IsText(es[i])} ELSE {}
           kept == {i \in DOMAIN es : \A j \in bad : i < j}
           some == [i \in kept |-> es[i]]
           text == [t EXCEPT !.data = List(some), !.raw = None, !.size = None]
<1>0. Len(es) \in Nat /\ DOMAIN es = 1..Len(es) /\ es = [i \in DOMAIN es |-> es[i]]
      /\ \A i \in 1..Len(es) : es[i] \in Seq(Nat)
  BY LenProperties, ElementOfSeq DEF Arrays
<1>1. SetText(t, es) = IF bad = {} THEN Done(text) ELSE Failed(text)
  BY DEF SetText
<1>2. bad \subseteq 1..Len(es) /\ (bad # {} => t.datatype = "BYTES" /\ \E j \in DOMAIN es : ~IsText(es[j]))
  BY <1>0
<1>3. bad = {} => some = es
  <2> HIDE DEF bad
  <2>1. ASSUME bad = {}  PROVE some = es
    <3>1. kept = DOMAIN es
      BY <2>1
    <3> HIDE DEF kept
    <3> QED
      BY <1>0, <3>1
  <2> QED
    BY <2>1
<1>4. ASSUME bad # {}  PROVE some \in Seq(Seq(Nat)) /\ Len(some) < Len(es)
  <2> HIDE DEF bad
  <2>1. PICK m \in bad : \A j \in bad : m <= j
    <3>1. bad \in SUBSET Nat
      BY <1>0, <1>2
    <3> QED
      BY <1>4, <3>1, LeastExists
  <2>2. m \in 1..Len(es) /\ m - 1 \in Nat /\ \A j \in bad : j \in Nat
    BY <1>0, <1>2, <2>1
  <2>3. kept = 1..(m - 1)
    <3>1. \A i \in 1..Len(es) : (\A j \in bad : i < j) <=> i < m
      BY <2>1, <2>2
    <3>2. kept = {i \in 1..Len(es) : i < m}
      BY <1>0, <3>1
    <3> QED
      BY <1>0, <2>2, <3>2
  <2> HIDE DEF kept
  <2>4. some = [i \in 1..(m - 1) |-> es[i]] /\ \A i \in 1..(m - 1) : es[i] \in Seq(Nat)
    BY <1>0, <2>2, <2>3
  <2>5. some \in Seq(Seq(Nat)) /\ Len(some) = m - 1
    BY <2>2, <2>4
  <2> QED
    BY <1>0, <2>2, <2>5
<1>5. some \in Arrays
  BY <1>3, <1>4 DEF Arrays
<1> HIDE DEF some
<1>6. List(some) \in DataSet /\ List(some) # None /\ List(some).kind = "list" /\ List(some).elements = some
  BY <1>5, Nothing DEF List, Data, DataSet
<1>7. text \in TensorSet /\ Same(text, t) /\ text.raw = None /\ text.size = None /\ text.data = List(some)
  BY <1>6 DEF TensorSet, Same
<1> HIDE DEF bad, text
<1> QED
  BY <1>1, <1>2, <1>3, <1>4, <1>6, <1>7 DEF Texted, Done, Failed

\* What SetBinary makes of t.
Binaried(s, t, es) ==
  /\ s.tensor \in TensorSet /\ s.ok = TRUE /\ Same(s.tensor, t)
  /\ s.tensor.data = None /\ s.tensor.raw = Bytes(t.datatype, es) /\ s.tensor.size = Len(Bytes(t.datatype, es))

\* set_data_from_numpy makes raw data and its size.
LEMMA SetBinaryDoes ==
  ASSUME NEW t \in TensorSet, NEW es \in Arrays
  PROVE  Binaried(SetBinary(t, es), t, es)
<1> DEFINE raw == Bytes(t.datatype, es)
<1>1. raw \in Seq(Nat) /\ Len(raw) \in Nat
  BY TensorHas, BytesAre
<1> HIDE DEF raw
<1> DEFINE u == [t EXCEPT !.data = None, !.raw = raw, !.size = Len(raw)]
<1>2. SetBinary(t, es) = Done(u)
  BY DEF SetBinary, raw
<1>3. u \in TensorSet /\ Same(u, t) /\ u.data = None /\ u.raw = raw /\ u.size = Len(raw)
  BY <1>1 DEF TensorSet, Same
<1> HIDE DEF u
<1> QED
  BY <1>2, <1>3 DEF Binaried, Done, raw

\* Data made of the elements carries them, and fails only at what is not text.
LEMMA TextedCarries ==
  ASSUME NEW s, NEW t, NEW r \in Given, SameHead(t, r), Texted(s, t, r.elements)
  PROVE  IF s.ok THEN Carries(s.tensor, r) ELSE ~HasText(r) /\ Torn(s.tensor, r)
<1>1. CASE s.ok
  BY <1>1 DEF Texted, Same, SameHead, Carries
<1>2. CASE ~s.ok
  BY <1>2 DEF Texted, Same, SameHead, Torn, HasText
<1> QED
  BY <1>1, <1>2

\* Raw data made of the elements carries them.
LEMMA BinariedCarries ==
  ASSUME NEW s, NEW t, NEW r \in Given, SameHead(t, r), Binaried(s, t, r.elements)
  PROVE  Carries(s.tensor, r)
<1>1. s.tensor.raw = Raw(r) /\ s.tensor.size = Len(Raw(r)) /\ s.tensor.data = None /\ SameHead(s.tensor, r)
  BY DEF Binaried, Same, SameHead, Raw
<1> QED
  BY <1>1 DEF Carries

Bits(raw) == IF raw = None THEN <<>> ELSE raw
Single(t) == t.data = None \/ t.raw = None

StepTyped(x, t) ==
  /\ x.tensor \in TensorSet /\ x.ok \in BOOLEAN /\ Same(x.tensor, t)
  /\ x.ok => /\ x.wire \in WireSet /\ x.raw \in Seq(Nat) \cup {None}
             /\ x.wire.name = t.name
             /\ x.wire.datatype = "FP16" => x.wire.data \in {None, <<>>}

\* A step that keeps the elements of r, and sends them.
StepCarries(x, r) ==
  /\ Carries(x.tensor, r)
  /\ x.ok => WireCarries(x.wire, r) /\ Bits(x.raw) = Part(x.wire, r)

\* A step that keeps what there is of r, and sends it.
StepConveys(x, r) ==
  /\ Conveys(x.tensor, r)
  /\ x.ok => WireConveys(x.wire, r) /\ Bits(x.raw) = Part(x.wire, r)

\* A step that raised leaves a tensor.
LEMMA FailedTyped ==
  ASSUME NEW u \in TensorSet, NEW t, Same(u, t)
  PROVE  StepTyped(Failed(u), t)
BY DEF StepTyped, Failed

\* A step that wrote leaves a tensor and what was written.
LEMMA WroteTyped ==
  ASSUME NEW u \in TensorSet, NEW t, Same(u, t), NEW data \in Arrays \cup {None}, NEW raw \in Seq(Nat) \cup {None},
         u.datatype = "FP16" => data \in {None, <<>>}
  PROVE  /\ StepTyped(Wrote(u, data, raw), t)
         /\ Wrote(u, data, raw).tensor = u /\ Wrote(u, data, raw).ok /\ Wrote(u, data, raw).raw = raw
         /\ Wrote(u, data, raw).wire = OnWire(u, data)
<1>1. OnWire(u, data) \in WireSet /\ OnWire(u, data).name = u.name /\ OnWire(u, data).datatype = u.datatype
      /\ OnWire(u, data).data = data
  BY TensorHas DEF OnWire, WireSet
<1> QED
  BY <1>1 DEF StepTyped, Wrote, Same

\* What is written has the name, the datatype, the shape and the size.
LEMMA OnWireHas ==
  ASSUME NEW u, NEW data
  PROVE  LET w == OnWire(u, data)
         IN w.name = u.name /\ w.datatype = u.datatype /\ w.shape = u.shape /\ w.data = data /\ w.size = u.size
BY DEF OnWire

\* What is sent of a tensor with raw data that go as binary data.
LEMMA RawIsSent ==
  ASSUME NEW u, NEW r \in Given, Carries(u, r), u.raw # None
  PROVE  WireCarries(OnWire(u, None), r) /\ Bits(u.raw) = Part(OnWire(u, None), r)
<1>1. u.raw = Raw(r) /\ SameHead(u, r) /\ (u.size # None => u.size = Len(Raw(r)))
  BY DEF Carries
<1>2. WireCarries(OnWire(u, None), r)
  BY <1>1, OnWireHas DEF WireCarries, SameHead
<1> QED
  BY <1>1, <1>2, OnWireHas DEF Bits, Part

\* A tensor that carries its elements is written so.
LEMMA DataIsSent ==
  ASSUME NEW u \in TensorSet, NEW r \in Given, Carries(u, r), u.raw \in {None, <<>>}
  PROVE  WireCarries(OnWire(u, Values(u.data)), r) /\ Bits(None) = Part(OnWire(u, Values(u.data)), r)
<1> DEFINE w == OnWire(u, Values(u.data))
<1>0. w.name = u.name /\ w.datatype = u.datatype /\ w.shape = u.shape /\ w.data = Values(u.data) /\ w.size = u.size
  BY OnWireHas
<1> HIDE DEF w
<1>1. SameHead(w, r) /\ (w.size # None => w.size = Len(Raw(r)))
  BY <1>0 DEF Carries, SameHead
<1>2. CASE u.raw = None /\ u.data # None
  <2>1. u.data.elements = r.elements /\ (u.size # None => r.elements = <<>>) /\ r.elements # None
    BY <1>2, GivenHas, RawBack, Nothing DEF Carries
  <2>2. w.data = r.elements /\ w.data # None
    BY <1>0, <1>2, <2>1 DEF Values
  <2> QED
    BY <1>0, <1>1, <2>1, <2>2 DEF WireCarries, Bits, Part, w
<1>3. CASE ~(u.raw = None /\ u.data # None)
  <2>1. u.raw = Raw(r) /\ (u.data = None \/ u.data.elements = <<>>)
    BY <1>3 DEF Carries
  <2>2. Raw(r) = <<>> /\ r.elements = <<>>
    BY <2>1, RawBack, RawEmpty, Nothing
  <2>3. w.data = None \/ w.data = r.elements
    BY <1>0, <2>1, <2>2 DEF Values
  <2>4. <<>> # None
    BY Nothing, EmptySeq
  <2>5. Bits(None) = <<>> /\ Part(w, r) = <<>>
    BY <2>2 DEF Bits, Part
  <2> QED
    BY <1>0, <1>1, <2>2, <2>3, <2>5 DEF WireCarries, w
<1> QED
  BY <1>2, <1>3

\* A tensor that has lost some is written so.
LEMMA TornIsSent ==
  ASSUME NEW u \in TensorSet, NEW r \in Given, ~HasText(r), Torn(u, r)
  PROVE  WireConveys(OnWire(u, Values(u.data)), r) /\ Bits(None) = Part(OnWire(u, Values(u.data)), r)
<1> DEFINE w == OnWire(u, Values(u.data))
<1>0. w.name = u.name /\ w.datatype = u.datatype /\ w.shape = u.shape /\ w.data = Values(u.data) /\ w.size = u.size
  BY OnWireHas
<1> HIDE DEF w
<1>1. w.data = u.data.elements /\ w.data # None
  BY <1>0, TensorHas, Nothing DEF Torn, Values
<1>2. WireTorn(w, r)
  BY <1>0, <1>1 DEF Torn, WireTorn, SameHead
<1> QED
  BY <1>1, <1>2 DEF WireConveys, Bits, Part, w

\* to_rest for one input: the types, and what stays.
LEMMA InputToRestTyped ==
  ASSUME NEW t \in TensorSet
  PROVE  StepTyped(InputToRest(t), t) /\ (Single(t) => Single(InputToRest(t).tensor))
<1> DEFINE set == IF Is(t.data, "array") THEN SetText(t, t.data.elements) ELSE Done(t)
           u == set.tensor
           x == InputToRest(t)
<1>1. CASE t.data = None /\ t.raw = None
  <2>1. x = Failed(t)
    BY <1>1 DEF InputToRest
  <2> QED
    BY <2>1, FailedTyped DEF Same, Failed
<1>2. CASE ~(t.data = None /\ t.raw = None)
  <2>1. x = IF \/ ~set.ok
               \/ ~Empty(u.data) /\ u.raw \notin {None, <<>>}
               \/ u.datatype = "FP16" /\ ~Empty(u.data)
            THEN Failed(u)
            ELSE IF u.raw \notin {None, <<>>} THEN Wrote(u, None, u.raw)
            ELSE Wrote(u, Values(u.data), None)
    BY <1>2 DEF InputToRest
  <2>2. u \in TensorSet /\ Same(u, t) /\ (Single(t) => Single(u))
    <3>1. CASE Is(t.data, "array")
      <4>1. Texted(set, t, t.data.elements)
        BY <3>1, TensorHas, SetTextDoes DEF Is
      <4> QED
        BY <4>1 DEF Texted, Single
    <3>2. CASE ~Is(t.data, "array")
      BY <3>2 DEF Done, Same
    <3> QED
      BY <3>1, <3>2
  <2> HIDE DEF set, u, x
  <2>3. CASE x = Failed(u)
    BY <2>2, <2>3, FailedTyped DEF Failed, x
  <2>4. CASE x = Wrote(u, None, u.raw)
    <3>1. StepTyped(x, t) /\ x.tensor = u
      BY <2>2, <2>4, TensorHas, WroteTyped
    <3> QED
      BY <2>2, <3>1 DEF x
  <2>5. CASE x = Wrote(u, Values(u.data), None) /\ ~(u.datatype = "FP16" /\ ~Empty(u.data))
    <3>1. Values(u.data) \in Arrays \cup {None} /\ (u.datatype = "FP16" => Values(u.data) \in {None, <<>>})
      BY <2>2, <2>5, TensorHas DEF Values, Empty
    <3>2. StepTyped(x, t) /\ x.tensor = u
      BY <2>2, <2>5, <3>1, WroteTyped
    <3> QED
      BY <2>2, <3>2 DEF x
  <2> QED
    BY <2>1, <2>3, <2>4, <2>5
<1> QED
  BY <1>1, <1>2

\* to_rest for one input: the elements stay, and are written.
LEMMA InputToRestConveys ==
  ASSUME NEW t \in TensorSet, NEW r \in Given, Conveys(t, r)
  PROVE  StepConveys(InputToRest(t), r)
<1> DEFINE set == IF Is(t.data, "array") THEN SetText(t, t.data.elements) ELSE Done(t)
           u == set.tensor
           x == InputToRest(t)
<1>1. ~(t.data = None /\ t.raw = None)
  BY RawBack, Nothing DEF Conveys, Carries, Torn
<1>2. x = IF \/ ~set.ok
             \/ ~Empty(u.data) /\ u.raw \notin {None, <<>>}
             \/ u.datatype = "FP16" /\ ~Empty(u.data)
          THEN Failed(u)
          ELSE IF u.raw \notin {None, <<>>} THEN Wrote(u, None, u.raw)
          ELSE Wrote(u, Values(u.data), None)
  BY <1>1 DEF InputToRest
<1>3. u \in TensorSet /\ Conveys(u, r)
  <2>1. CASE Is(t.data, "array")
    <3>1. Texted(set, t, t.data.elements)
      BY <2>1, TensorHas, SetTextDoes DEF Is
    <3>2. SameHead(t, r) /\ t.data.elements = r.elements
      BY <2>1 DEF Is, Conveys, Carries, Torn
    <3>3. Texted(set, t, r.elements)
      BY <3>1, <3>2
    <3> HIDE DEF set
    <3>4. IF set.ok THEN Carries(u, r) ELSE ~HasText(r) /\ Torn(u, r)
      BY <3>2, <3>3, TextedCarries
    <3> QED
      BY <3>1, <3>4 DEF Texted, Conveys
  <2>2. CASE ~Is(t.data, "array")
    BY <2>2 DEF Done
  <2> QED
    BY <2>1, <2>2
<1> HIDE DEF set, u, x
<1>4. CASE x = Failed(u)
  <2>1. x.tensor = u /\ ~x.ok
    BY <1>4 DEF Failed
  <2> QED
    BY <1>3, <2>1 DEF StepConveys, x
<1>5. CASE x = Wrote(u, None, u.raw) /\ u.raw \notin {None, <<>>}
  <2>1. x.tensor = u /\ x.ok /\ x.raw = u.raw /\ x.wire = OnWire(u, None)
    BY <1>5 DEF Wrote
  <2>2. Carries(u, r)
    BY <1>3, <1>5 DEF Conveys, Torn
  <2> QED
    BY <1>3, <1>5, <2>1, <2>2, RawIsSent DEF StepConveys, WireConveys, x
<1>6. CASE x = Wrote(u, Values(u.data), None) /\ u.raw \in {None, <<>>}
  <2>1. x.tensor = u /\ x.ok /\ x.raw = None /\ x.wire = OnWire(u, Values(u.data))
    BY <1>6 DEF Wrote
  <2> QED
    BY <1>3, <1>6, <2>1, DataIsSent, TornIsSent DEF StepConveys, WireConveys, Conveys, x
<1> QED
  BY <1>2, <1>4, <1>5, <1>6

\* to_grpc for one tensor: the types, and what stays.
LEMMA TensorToGrpcTyped ==
  ASSUME NEW t \in TensorSet
  PROVE  LET x == TensorToGrpc(t)
         IN /\ StepTyped(x, t) /\ (Single(t) => Single(x.tensor))
            /\ x.ok => (x.raw = None <=> x.wire.data # None) /\ x.raw = x.tensor.raw
<1> DEFINE x == TensorToGrpc(t)
           u == IF t.datatype = "BYTES" THEN [t EXCEPT !.data.kind = "bytes"] ELSE t
<1>0. Same(t, t)
  BY DEF Same
<1>1. CASE t.raw # None
  <2>1. x = Wrote(t, None, t.raw)
    BY <1>1 DEF TensorToGrpc
  <2>2. StepTyped(x, t) /\ x.tensor = t /\ x.raw = t.raw /\ x.wire = OnWire(t, None)
    BY <1>0, <2>1, TensorHas, WroteTyped
  <2> HIDE DEF x
  <2> QED
    BY <1>1, <2>2, OnWireHas DEF x
<1>2. CASE t.raw = None /\ (t.data = None \/ t.datatype = "FP16")
  <2>1. x = Failed(t)
    BY <1>2 DEF TensorToGrpc
  <2> QED
    BY <1>0, <2>1, FailedTyped DEF Failed
<1>3. CASE t.raw = None /\ ~(t.data = None \/ t.datatype = "FP16")
  <2>1. x = Wrote(u, u.data.elements, None)
    BY <1>3 DEF TensorToGrpc
  <2>2. t.data \in DataSet /\ t.data.elements \in Arrays
    BY <1>3, TensorHas
  <2>3. u \in TensorSet /\ Same(u, t) /\ u.raw = None /\ u.data.elements = t.data.elements
    <3>1. CASE t.datatype = "BYTES"
      <4> DEFINE d == [t.data EXCEPT !.kind = "bytes"]
      <4>1. d \in DataSet /\ d.elements = t.data.elements
        BY <2>2 DEF DataSet
      <4>2. u = [t EXCEPT !.data = d]
        BY <3>1 DEF TensorSet
      <4> HIDE DEF d
      <4> QED
        BY <1>3, <4>1, <4>2 DEF TensorSet, Same
    <3>2. CASE t.datatype # "BYTES"
      BY <1>3, <3>2 DEF Same
    <3> QED
      BY <3>1, <3>2
  <2> HIDE DEF x, u
  <2>4. u.data.elements \in Arrays /\ u.datatype # "FP16" /\ u.data.elements # None
    BY <1>3, <2>2, <2>3, Nothing DEF Same
  <2>5. StepTyped(x, t) /\ x.tensor = u /\ x.raw = None /\ x.wire = OnWire(u, u.data.elements)
    BY <2>1, <2>3, <2>4, WroteTyped
  <2> QED
    BY <2>3, <2>4, <2>5, OnWireHas DEF x, Single
<1> QED
  BY <1>1, <1>2, <1>3

\* to_grpc for one tensor: the elements stay, and are written.
LEMMA TensorToGrpcConveys ==
  ASSUME NEW t \in TensorSet, NEW r \in Given, Conveys(t, r)
  PROVE  /\ StepConveys(TensorToGrpc(t), r)
         /\ Carries(t, r) => StepCarries(TensorToGrpc(t), r)
<1> DEFINE x == TensorToGrpc(t)
           u == IF t.datatype = "BYTES" THEN [t EXCEPT !.data.kind = "bytes"] ELSE t
<1>1. CASE t.raw # None
  <2>1. x = Wrote(t, None, t.raw)
    BY <1>1 DEF TensorToGrpc
  <2>2. x.tensor = t /\ x.ok /\ x.raw = t.raw /\ x.wire = OnWire(t, None)
    BY <2>1 DEF Wrote
  <2>3. Carries(t, r)
    BY <1>1 DEF Conveys, Torn
  <2> HIDE DEF x
  <2> QED
    BY <1>1, <2>2, <2>3, RawIsSent DEF StepConveys, StepCarries, WireConveys, Conveys, x
<1>2. CASE t.raw = None /\ (t.data = None \/ t.datatype = "FP16")
  <2>1. x = Failed(t)
    BY <1>2 DEF TensorToGrpc
  <2> QED
    BY <2>1 DEF Failed, StepConveys, StepCarries
<1>3. CASE t.raw = None /\ ~(t.data = None \/ t.datatype = "FP16")
  <2>1. x = Wrote(u, u.data.elements, None)
    BY <1>3 DEF TensorToGrpc
  <2>2. t.data \in DataSet
    BY <1>3, TensorHas
  <2>3. /\ u \in TensorSet /\ u.raw = None /\ u.data # None /\ u.data.elements = t.data.elements
        /\ u.name = t.name /\ u.datatype = t.datatype /\ u.shape = t.shape /\ u.size = t.size
        /\ u.data.kind # "array" \/ u = t
    <3>1. CASE t.datatype = "BYTES"
      <4> DEFINE d == [t.data EXCEPT !.kind = "bytes"]
      <4>1. d \in DataSet /\ d.elements = t.data.elements /\ d.kind = "bytes"
        BY <2>2 DEF DataSet
      <4>2. d # None
        BY <4>1, Nothing
      <4>3. u = [t EXCEPT !.data = d]
        BY <3>1 DEF TensorSet
      <4> HIDE DEF d
      <4> QED
        BY <1>3, <4>1, <4>2, <4>3 DEF TensorSet
    <3>2. CASE t.datatype # "BYTES"
      BY <1>3, <3>2
    <3> QED
      BY <3>1, <3>2
  <2> HIDE DEF u, x
  <2>4. x.tensor = u /\ x.ok /\ x.raw = None /\ x.wire = OnWire(u, Values(u.data))
    BY <2>1, <2>3 DEF Wrote, Values
  <2>5. Conveys(u, r) /\ (Carries(t, r) => Carries(u, r))
    <3>1. ASSUME Carries(t, r)  PROVE Carries(u, r)
      <4>1. t.data.elements = r.elements /\ (t.size # None => r.elements = <<>>)
        BY <1>3, <3>1, RawBack, Nothing DEF Carries
      <4> QED
        BY <2>3, <3>1, <4>1 DEF Carries, SameHead
    <3>2. ASSUME ~HasText(r), Torn(t, r)  PROVE Torn(u, r)
      BY <2>3, <3>2 DEF Torn, SameHead
    <3> QED
      BY <3>1, <3>2 DEF Conveys
  <2> QED
    BY <2>3, <2>4, <2>5, DataIsSent, TornIsSent DEF StepConveys, StepCarries, WireConveys, Conveys, x
<1> QED
  BY <1>1, <1>2, <1>3

\* to_grpc for one input: the types, and what stays.
LEMMA InputToGrpcTyped ==
  ASSUME NEW t \in TensorSet
  PROVE  LET x == InputToGrpc(t)
         IN /\ StepTyped(x, t) /\ (Single(t) => Single(x.tensor))
            /\ x.ok => (x.raw = None <=> x.wire.data # None) /\ x.raw = x.tensor.raw
<1>1. CASE Is(t.data, "array")
  <2> DEFINE s == SetBinary(t, t.data.elements)
             u == s.tensor
  <2>1. Binaried(s, t, t.data.elements)
    BY <1>1, TensorHas, SetBinaryDoes DEF Is
  <2>2. InputToGrpc(t) = TensorToGrpc(u)
    BY <1>1 DEF InputToGrpc
  <2> HIDE DEF s
  <2>3. u \in TensorSet /\ Same(u, t) /\ Single(u)
    BY <2>1 DEF Binaried, Single
  <2> HIDE DEF u
  <2>4. StepTyped(TensorToGrpc(u), u) => StepTyped(TensorToGrpc(u), t)
    BY <2>3 DEF StepTyped, Same
  <2> QED
    BY <2>2, <2>3, <2>4, TensorToGrpcTyped
<1>2. CASE ~Is(t.data, "array")
  <2>1. InputToGrpc(t) = TensorToGrpc(t)
    BY <1>2 DEF InputToGrpc
  <2> QED
    BY <2>1, TensorToGrpcTyped
<1> QED
  BY <1>1, <1>2

\* to_grpc for one input: the elements stay, and are written.
LEMMA InputToGrpcConveys ==
  ASSUME NEW t \in TensorSet, NEW r \in Given, Conveys(t, r)
  PROVE  /\ StepConveys(InputToGrpc(t), r)
         /\ Carries(t, r) => StepCarries(InputToGrpc(t), r)
<1>1. CASE Is(t.data, "array")
  <2> DEFINE s == SetBinary(t, t.data.elements)
             u == s.tensor
  <2>1. Binaried(s, t, t.data.elements)
    BY <1>1, TensorHas, SetBinaryDoes DEF Is
  <2>2. InputToGrpc(t) = TensorToGrpc(u)
    BY <1>1 DEF InputToGrpc
  <2>3. SameHead(t, r) /\ t.data.elements = r.elements
    BY <1>1 DEF Is, Conveys, Carries, Torn
  <2>4. Binaried(s, t, r.elements)
    BY <2>1, <2>3
  <2> HIDE DEF s
  <2>5. u \in TensorSet /\ Carries(u, r)
    BY <2>3, <2>4, BinariedCarries DEF Binaried
  <2> HIDE DEF u
  <2> QED
    BY <2>2, <2>5, TensorToGrpcConveys DEF Conveys
<1>2. CASE ~Is(t.data, "array")
  <2>1. InputToGrpc(t) = TensorToGrpc(t)
    BY <1>2 DEF InputToGrpc
  <2> QED
    BY <2>1, TensorToGrpcConveys
<1> QED
  BY <1>1, <1>2

-----------------------------------------------------------------------------
(* Converting a message.                                                   *)

\* What Written makes of N steps.
Together(m, steps, N) ==
  /\ m.tensors \in Seq(WireSet) /\ Len(m.tensors) = N /\ DOMAIN m.tensors = 1..N
  /\ \A i \in 1..N : m.tensors[i] = steps[i].wire
  /\ m.raws \in Arrays /\ Len(m.raws) \in Nat
  /\ FlattenSeq(m.raws) = FlattenSeq([i \in 1..N |-> Bits(steps[i].raw)])
  /\ IsFiniteSet({i \in 1..N : steps[i].raw # None})
  /\ Len(m.raws) = Cardinality({i \in 1..N : steps[i].raw # None})
  /\ Len(m.raws) <= N
  /\ (\A i \in 1..N : steps[i].raw # None) => m.raws = [i \in 1..N |-> steps[i].raw]

\* The steps that wrote, together.
LEMMA WrittenDoes ==
  ASSUME NEW N \in Nat, NEW steps, DOMAIN steps = 1..N,
         \A i \in 1..N : steps[i].wire \in WireSet /\ steps[i].raw \in Seq(Nat) \cup {None}
  PROVE  Together(Written(steps), steps, N)
<1> DEFINE m == Written(steps)
           raw == [i \in 1..N |-> steps[i].raw]
<1>1. m.tensors = [i \in 1..N |-> steps[i].wire]
  BY DEF Written
<1>2. m.tensors \in Seq(WireSet) /\ Len(m.tensors) = N /\ DOMAIN m.tensors = 1..N
      /\ \A i \in 1..N : m.tensors[i] = steps[i].wire
  <2> HIDE DEF m
  <2> QED
    BY <1>1
<1>3. raw \in [1..N -> Seq(Nat) \cup {None}] /\ \A i \in 1..N : raw[i] = steps[i].raw
  OBVIOUS
<1> HIDE DEF raw
<1>4. m.raws = FlattenSeq(Pieces(raw, N))
  <2>1. Pieces(raw, N) = [i \in DOMAIN steps |-> IF steps[i].raw = None THEN <<>> ELSE <<steps[i].raw>>]
    BY <1>3 DEF Pieces
  <2>2. m.raws = FlattenSeq([i \in DOMAIN steps |-> IF steps[i].raw = None THEN <<>> ELSE <<steps[i].raw>>])
    BY DEF Written
  <2> QED
    BY <2>1, <2>2, Zenon
<1>5. Joined(raw, N) = [i \in 1..N |-> Bits(steps[i].raw)]
  BY <1>3 DEF Joined, Bits
<1>6. {i \in 1..N : raw[i] # None} = {i \in 1..N : steps[i].raw # None}
  BY <1>3
<1>7. /\ FlattenSeq(Pieces(raw, N)) \in Arrays
      /\ FlattenSeq(FlattenSeq(Pieces(raw, N))) = FlattenSeq(Joined(raw, N))
      /\ IsFiniteSet({i \in 1..N : raw[i] # None})
      /\ Len(FlattenSeq(Pieces(raw, N))) = Cardinality({i \in 1..N : raw[i] # None})
      /\ Len(FlattenSeq(Pieces(raw, N))) <= N
      /\ (\A i \in 1..N : raw[i] # None) => FlattenSeq(Pieces(raw, N)) = raw
  BY <1>3, RawsTogether
<1>8. Len(m.raws) \in Nat
  BY <1>4, <1>7, LenProperties DEF Arrays
<1>9. (\A i \in 1..N : steps[i].raw # None) => m.raws = [i \in 1..N |-> steps[i].raw]
  BY <1>3, <1>4, <1>7 DEF raw
<1> HIDE DEF m
<1>10. /\ m.raws \in Arrays
       /\ FlattenSeq(m.raws) = FlattenSeq([i \in 1..N |-> Bits(steps[i].raw)])
       /\ IsFiniteSet({i \in 1..N : steps[i].raw # None})
       /\ Len(m.raws) = Cardinality({i \in 1..N : steps[i].raw # None})
       /\ Len(m.raws) <= N
  BY <1>4, <1>5, <1>6, <1>7
<1> QED
  BY <1>2, <1>8, <1>9, <1>10 DEF Together, m

\* The message of steps that all went well.
LEMMA FormOfWritten ==
  ASSUME NEW N \in Nat, NEW steps, NEW m, NEW protocol, Together(m, steps, N),
         \A i \in 1..N : steps[i].wire.datatype = "FP16" => steps[i].wire.data \in {None, <<>>},
         protocol = "grpc" => \A i \in 1..N : (steps[i].raw = None <=> steps[i].wire.data # None)
  PROVE  MessageForm(m, protocol)
<1>1. /\ DOMAIN m.tensors = 1..N /\ Len(m.tensors) = N /\ Len(m.raws) <= N
      /\ \A i \in 1..N : m.tensors[i] = steps[i].wire
      /\ Len(m.raws) = Cardinality({i \in 1..N : steps[i].raw # None})
  BY DEF Together
<1>2. ASSUME protocol = "grpc"
      PROVE  {i \in DOMAIN m.tensors : m.tensors[i].data = None} = {i \in 1..N : steps[i].raw # None}
  <2>1. \A i \in 1..N : m.tensors[i].data = None <=> steps[i].raw # None
    BY <1>1, <1>2
  <2>2. \A i : i \in {j \in DOMAIN m.tensors : m.tensors[j].data = None} <=> i \in {j \in 1..N : steps[j].raw # None}
    BY <1>1, <2>1
  <2> QED
    BY <2>2
<1>3. protocol = "grpc" => Len(m.raws) = Cardinality({i \in DOMAIN m.tensors : m.tensors[i].data = None})
  <2> DEFINE A == {i \in DOMAIN m.tensors : m.tensors[i].data = None}
             B == {i \in 1..N : steps[i].raw # None}
  <2>1. protocol = "grpc" => A = B
    BY <1>2
  <2>2. Len(m.raws) = Cardinality(B)
    BY DEF Together
  <2> HIDE DEF A, B
  <2> QED
    BY <2>1, <2>2 DEF A
<1> QED
  BY <1>1, <1>3 DEF MessageForm

\* The raw contents over gRPC, if no tensor has contents, are those of the tensors
\* by position.
LEMMA RawsOfWritten ==
  ASSUME NEW N \in Nat, NEW steps, NEW m, NEW protocol, Together(m, steps, N),
         NEW rs \in Seq(Given), DOMAIN rs = 1..N,
         \A i \in 1..N : Bits(steps[i].raw) = Part(steps[i].wire, rs[i]),
         protocol # "rest" => \A i \in 1..N : (steps[i].raw = None <=> steps[i].wire.data # None)
  PROVE  RawsRight(m, rs, protocol)
<1>1. /\ \A i \in 1..N : m.tensors[i] = steps[i].wire
      /\ FlattenSeq(m.raws) = FlattenSeq([i \in 1..N |-> Bits(steps[i].raw)])
      /\ (\A i \in 1..N : steps[i].raw # None) => m.raws = [i \in 1..N |-> steps[i].raw]
  BY DEF Together
<1>2. [i \in 1..N |-> Bits(steps[i].raw)] = [i \in DOMAIN rs |-> Part(m.tensors[i], rs[i])]
  BY <1>1
<1>3. FlattenSeq(m.raws) = FlattenSeq([i \in DOMAIN rs |-> Part(m.tensors[i], rs[i])])
  BY <1>1, <1>2, Zenon
<1>4. ASSUME protocol # "rest", \A i \in DOMAIN rs : m.tensors[i].data = None
      PROVE  m.raws = [i \in DOMAIN rs |-> Raw(rs[i])]
  <2>1. \A i \in 1..N : steps[i].raw # None /\ steps[i].wire.data = None
    BY <1>1, <1>4
  <2>2. \A i \in 1..N : steps[i].raw = Raw(rs[i])
    BY <2>1 DEF Bits, Part
  <2>3. m.raws = [i \in 1..N |-> steps[i].raw]
    BY <1>1, <2>1
  <2> QED
    BY <2>2, <2>3
<1> QED
  BY <1>3, <1>4 DEF RawsRight

-----------------------------------------------------------------------------
(* The request.                                                            *)

Steps(request, protocol) ==
  [i \in DOMAIN request.inputs |->
     IF protocol = "rest" THEN InputToRest(request.inputs[i]) ELSE InputToGrpc(request.inputs[i])]

\* The fields of a request.
LEMMA RequestHas ==
  ASSUME NEW q \in RequestSet
  PROVE  /\ q.inputs \in Seq(TensorSet) /\ q.binary \in BOOLEAN /\ q.outputs \in AskedSet
         /\ q.grpc \in BOOLEAN /\ q.raw \in BOOLEAN
         /\ Len(q.inputs) \in Nat /\ DOMAIN q.inputs = 1..Len(q.inputs)
         /\ \A i \in 1..Len(q.inputs) : q.inputs[i] \in TensorSet
<1>1. /\ q.inputs \in Seq(TensorSet) /\ q.binary \in BOOLEAN /\ q.outputs \in AskedSet
      /\ q.grpc \in BOOLEAN /\ q.raw \in BOOLEAN
  BY DEF RequestSet
<1> QED
  BY <1>1, LenProperties, ElementOfSeq

\* The steps of a request: the types.
LEMMA StepsTyped ==
  ASSUME NEW q \in RequestSet, NEW protocol, NEW i \in DOMAIN q.inputs
  PROVE  LET x == Steps(q, protocol)[i]
         IN /\ StepTyped(x, q.inputs[i])
            /\ Single(q.inputs[i]) => Single(x.tensor)
            /\ protocol # "rest" /\ x.ok => (x.raw = None <=> x.wire.data # None) /\ x.raw = x.tensor.raw
<1>1. q.inputs[i] \in TensorSet
  BY RequestHas
<1>2. Steps(q, protocol)[i] = IF protocol = "rest" THEN InputToRest(q.inputs[i]) ELSE InputToGrpc(q.inputs[i])
  BY DEF Steps
<1> QED
  BY <1>1, <1>2, InputToRestTyped, InputToGrpcTyped

\* The steps of a request: the elements stay, and are written.
LEMMA StepsConvey ==
  ASSUME NEW q \in RequestSet, NEW protocol, NEW i \in DOMAIN q.inputs, NEW r \in Given, Conveys(q.inputs[i], r)
  PROVE  StepConveys(Steps(q, protocol)[i], r)
<1>1. q.inputs[i] \in TensorSet
  BY RequestHas
<1>2. Steps(q, protocol)[i] = IF protocol = "rest" THEN InputToRest(q.inputs[i]) ELSE InputToGrpc(q.inputs[i])
  BY DEF Steps
<1> QED
  BY <1>1, <1>2, InputToRestConveys, InputToGrpcConveys

\* What is sent for a request, if all steps go well.
Whole(q, steps) ==
  [tensors |-> Written(steps).tensors, raws |-> Written(steps).raws, binary |-> q.binary, outputs |-> q.outputs]

\* What EncodeRequest makes of its steps.
LEMMA EncodeRequestIs ==
  ASSUME NEW q, NEW protocol, NEW steps, steps = Steps(q, protocol)
  PROVE  /\ EncodeRequest(q, protocol).request = [q EXCEPT !.inputs = Converted(q.inputs, steps)]
         /\ EncodeRequest(q, protocol).message # Error =>
              AllOk(steps) /\ EncodeRequest(q, protocol).message = Whole(q, steps)
         /\ EncodeRequest(q, protocol).message = Error =>
              \/ ~AllOk(steps)
              \/ protocol = "rest" /\ \E i \in DOMAIN steps :
                                        Is(steps[i].tensor.data, "bytes") /\ ~Empty(steps[i].tensor.data)
              \/ Error = Whole(q, steps)
BY DEF EncodeRequest, Steps, Whole

\* Each tensor is converted, or as it was.
LEMMA ConvertedIs ==
  ASSUME NEW q \in RequestSet, NEW protocol
  PROVE  LET c == Converted(q.inputs, Steps(q, protocol))
         IN /\ c \in Seq(TensorSet) /\ DOMAIN c = DOMAIN q.inputs
            /\ \A i \in DOMAIN c : c[i] = Steps(q, protocol)[i].tensor \/ c[i] = q.inputs[i]
            /\ AllOk(Steps(q, protocol)) => \A i \in DOMAIN c : c[i] = Steps(q, protocol)[i].tensor
<1> DEFINE steps == Steps(q, protocol)
           c == Converted(q.inputs, steps)
           N == Len(q.inputs)
<1>0. N \in Nat /\ DOMAIN q.inputs = 1..N /\ DOMAIN steps = 1..N
  BY RequestHas DEF Steps
<1>1. \A i \in 1..N : steps[i].tensor \in TensorSet /\ q.inputs[i] \in TensorSet
  BY <1>0, StepsTyped, RequestHas DEF StepTyped
<1> HIDE DEF steps
<1>2. c = [i \in 1..N |-> IF \A j \in 1..(i - 1) : steps[j].ok THEN steps[i].tensor ELSE q.inputs[i]]
  BY <1>0 DEF Converted
<1>3. c \in Seq(TensorSet)
  BY <1>0, <1>1, <1>2
<1>4. ASSUME AllOk(steps), NEW i \in 1..N  PROVE c[i] = steps[i].tensor
  <2>1. \A j \in 1..(i - 1) : j \in 1..N
    BY <1>0
  <2> QED
    BY <1>0, <1>2, <1>4, <2>1 DEF AllOk
<1> HIDE DEF c
<1> QED
  BY <1>0, <1>2, <1>3, <1>4 DEF c, steps

\* Encoding keeps what a request conveys, in the object and in the message.
RequestEncoded(e, q, protocol) ==
  /\ e.request \in RequestSet /\ e.request.binary = q.binary /\ e.request.outputs = q.outputs
  /\ DOMAIN e.request.inputs = DOMAIN q.inputs
  /\ (\A i \in DOMAIN q.inputs : Single(q.inputs[i])) => \A i \in DOMAIN q.inputs : Single(e.request.inputs[i])
  /\ e.message # Error =>
       /\ e.message \in RequestMessages /\ e.message.binary = q.binary /\ e.message.outputs = q.outputs
       /\ MessageForm(e.message, protocol)
       /\ protocol # "rest" /\ (\E i \in DOMAIN q.inputs : e.request.inputs[i].raw # None) => e.message.raws # <<>>

\* to_rest and to_grpc of a request: the types, and the form of the message.
LEMMA EncodeRequestTyped ==
  ASSUME NEW q \in RequestSet, NEW protocol \in {"rest", "grpc"}
  PROVE  RequestEncoded(EncodeRequest(q, protocol), q, protocol)
<1> DEFINE steps == Steps(q, protocol)
           e == EncodeRequest(q, protocol)
           c == Converted(q.inputs, steps)
           N == Len(q.inputs)
           m == e.message
<1>0. N \in Nat /\ DOMAIN q.inputs = 1..N /\ DOMAIN steps = 1..N
  BY RequestHas DEF Steps
<1>1. e.request = [q EXCEPT !.inputs = c] /\ (m # Error => AllOk(steps) /\ m = Whole(q, steps))
  <2>1. steps = Steps(q, protocol)
    OBVIOUS
  <2> HIDE DEF steps
  <2> QED
    BY <2>1, EncodeRequestIs
<1>2. c \in Seq(TensorSet) /\ DOMAIN c = 1..N /\ (\A i \in 1..N : c[i] = steps[i].tensor \/ c[i] = q.inputs[i])
      /\ (AllOk(steps) => \A i \in 1..N : c[i] = steps[i].tensor)
  BY <1>0, ConvertedIs
<1>3. \A i \in 1..N : /\ StepTyped(steps[i], q.inputs[i])
                      /\ Single(q.inputs[i]) => Single(steps[i].tensor)
                      /\ protocol # "rest" /\ steps[i].ok => /\ steps[i].raw = None <=> steps[i].wire.data # None
                                                             /\ steps[i].raw = steps[i].tensor.raw
  BY <1>0, StepsTyped
<1>4. m # Error => AllOk(steps) /\ m = [tensors |-> Written(steps).tensors, raws |-> Written(steps).raws,
                                        binary |-> q.binary, outputs |-> q.outputs]
  BY <1>1 DEF Whole
<1> HIDE DEF steps, c, e
<1>5. e.request \in RequestSet /\ e.request.binary = q.binary /\ e.request.outputs = q.outputs /\ e.request.inputs = c
  BY <1>1, <1>2 DEF RequestSet
<1>6. (\A i \in DOMAIN q.inputs : Single(q.inputs[i])) => \A i \in DOMAIN q.inputs : Single(e.request.inputs[i])
  BY <1>0, <1>2, <1>3, <1>5
<1>7. ASSUME m # Error
      PROVE  /\ m \in RequestMessages /\ m.binary = q.binary /\ m.outputs = q.outputs
             /\ MessageForm(m, protocol)
             /\ protocol # "rest" /\ (\E i \in DOMAIN q.inputs : e.request.inputs[i].raw # None) => m.raws # <<>>
  <2>1. \A i \in 1..N : steps[i].ok
    BY <1>0, <1>4, <1>7 DEF AllOk
  <2>2. \A i \in 1..N : /\ steps[i].wire \in WireSet /\ steps[i].raw \in Seq(Nat) \cup {None}
                        /\ steps[i].wire.datatype = "FP16" => steps[i].wire.data \in {None, <<>>}
    BY <1>3, <2>1 DEF StepTyped
  <2>3. Together(Written(steps), steps, N)
    BY <1>0, <2>2, WrittenDoes
  <2>4. m.tensors = Written(steps).tensors /\ m.raws = Written(steps).raws /\ m.binary = q.binary /\ m.outputs = q.outputs
    BY <1>4, <1>7
  <2>5. Together(m, steps, N)
    BY <2>3, <2>4 DEF Together
  <2>6. m \in RequestMessages
    <3>1. Written(steps).tensors \in Seq(WireSet) /\ Written(steps).raws \in Arrays
      BY <2>3 DEF Together
    <3> QED
      BY <1>4, <1>7, <3>1, RequestHas DEF RequestMessages
  <2>7. MessageForm(m, protocol)
    BY <1>0, <1>3, <2>1, <2>2, <2>5, FormOfWritten
  <2>8. ASSUME protocol # "rest", NEW i \in DOMAIN q.inputs, e.request.inputs[i].raw # None
        PROVE  m.raws # <<>>
    <3>1. i \in 1..N /\ steps[i].raw # None
      BY <1>0, <1>2, <1>3, <1>4, <1>5, <1>7, <2>1, <2>8
    <3> DEFINE some == {j \in 1..N : steps[j].raw # None}
    <3>2. IsFiniteSet(some) /\ Len(m.raws) = Cardinality(some)
      BY <2>5 DEF Together
    <3>3. some # {}
      BY <3>1
    <3> HIDE DEF some
    <3>4. Cardinality(some) # 0
      BY <3>2, <3>3, FS_EmptySet
    <3> QED
      BY <3>2, <3>4
  <2> QED
    BY <2>4, <2>6, <2>7, <2>8
<1> QED
  BY <1>0, <1>2, <1>5, <1>6, <1>7 DEF RequestEncoded, e

\* They leave the request what it carries, and the message carries it too.
LEMMA EncodeRequestConveys ==
  ASSUME NEW q \in RequestSet, NEW protocol \in {"rest", "grpc"}, NEW rs \in Seq(Given), Faithful(q.inputs, rs)
  PROVE  LET e == EncodeRequest(q, protocol)
         IN /\ Faithful(e.request.inputs, rs)
            /\ e.message # Error => MessageFaithful(e.message, rs, protocol)
<1> DEFINE steps == Steps(q, protocol)
           e == EncodeRequest(q, protocol)
           c == Converted(q.inputs, steps)
           N == Len(q.inputs)
           m == e.message
<1>0. N \in Nat /\ DOMAIN q.inputs = 1..N /\ DOMAIN steps = 1..N /\ DOMAIN rs = 1..N
      /\ \A i \in 1..N : rs[i] \in Given
  <2>1. N \in Nat /\ DOMAIN q.inputs = 1..N /\ DOMAIN steps = 1..N
    BY RequestHas DEF Steps
  <2>2. DOMAIN rs = 1..N
    BY <2>1 DEF Faithful
  <2> HIDE DEF N
  <2> QED
    BY <2>1, <2>2, LenProperties
<1>1. e.request = [q EXCEPT !.inputs = c] /\ (m # Error => AllOk(steps) /\ m = Whole(q, steps))
  <2>1. steps = Steps(q, protocol)
    OBVIOUS
  <2> HIDE DEF steps
  <2> QED
    BY <2>1, EncodeRequestIs
<1>2. c \in Seq(TensorSet) /\ DOMAIN c = 1..N /\ (\A i \in 1..N : c[i] = steps[i].tensor \/ c[i] = q.inputs[i])
  BY <1>0, ConvertedIs
<1>3. \A i \in 1..N : StepConveys(steps[i], rs[i]) /\ Conveys(q.inputs[i], rs[i])
  <2>1. \A i \in 1..N : Conveys(q.inputs[i], rs[i])
    BY <1>0 DEF Faithful
  <2> QED
    BY <1>0, <2>1, StepsConvey
<1>4. m # Error => AllOk(steps) /\ m = [tensors |-> Written(steps).tensors, raws |-> Written(steps).raws,
                                        binary |-> q.binary, outputs |-> q.outputs]
  BY <1>1 DEF Whole
<1>5. \A i \in 1..N : /\ StepTyped(steps[i], q.inputs[i])
                      /\ protocol # "rest" /\ steps[i].ok => (steps[i].raw = None <=> steps[i].wire.data # None)
  BY <1>0, StepsTyped
<1> HIDE DEF steps, c, e
<1>6. e.request.inputs = c
  BY <1>1 DEF RequestSet
<1>7. Faithful(e.request.inputs, rs)
  BY <1>0, <1>2, <1>3, <1>6 DEF Faithful, StepConveys
<1>8. ASSUME m # Error  PROVE MessageFaithful(m, rs, protocol)
  <2>1. \A i \in 1..N : steps[i].ok
    BY <1>0, <1>4, <1>8 DEF AllOk
  <2>2. \A i \in 1..N : steps[i].wire \in WireSet /\ steps[i].raw \in Seq(Nat) \cup {None}
    BY <1>5, <2>1 DEF StepTyped
  <2>3. Together(Written(steps), steps, N)
    BY <1>0, <2>2, WrittenDoes
  <2>4. m.tensors = Written(steps).tensors /\ m.raws = Written(steps).raws
    BY <1>4, <1>8
  <2>5. Together(m, steps, N)
    BY <2>3, <2>4 DEF Together
  <2>6. \A i \in 1..N : WireConveys(steps[i].wire, rs[i]) /\ Bits(steps[i].raw) = Part(steps[i].wire, rs[i])
    BY <1>3, <2>1 DEF StepConveys
  <2>7. RawsRight(m, rs, protocol)
    BY <1>0, <1>5, <2>1, <2>5, <2>6, RawsOfWritten
  <2> QED
    BY <1>0, <2>5, <2>6, <2>7 DEF MessageFaithful, Together
<1> QED
  BY <1>7, <1>8 DEF e

-----------------------------------------------------------------------------
(* The slices of the binary data.                                          *)

SlicesAt(m, taking, g) ==
  [i \in DOMAIN m.tensors |->
     IF i \in taking
     THEN SubSeq(FlattenSeq(m.raws), Len(g[i - 1]) + 1, Min({Len(g[i]), Len(FlattenSeq(m.raws))}))
     ELSE None]

\* Where the slices are, if zs has their lengths.
LEMMA SlicesAre ==
  ASSUME NEW m, m.tensors \in Seq(WireSet), NEW taking,
         NEW zs \in Seq(Seq(Nat)), Len(zs) = Len(m.tensors), NEW g, Joins(zs, g),
         \A i \in 1..Len(zs) : Len(zs[i]) = IF i \in taking THEN m.tensors[i].size ELSE 0
  PROVE  Slices(m, taking) = SlicesAt(m, taking, g)
<1> DEFINE N == Len(m.tensors)
           tail == FlattenSeq(m.raws)
           size(i) == IF i \in taking THEN m.tensors[i].size ELSE 0
           body(f, i) == IF i = 0 THEN 0 ELSE f[i - 1] + size(i)
           end0 == CHOOSE f : f = [i \in 0..Len(m.tensors) |->
                     IF i = 0 THEN 0 ELSE f[i - 1] + (IF i \in taking THEN m.tensors[i].size ELSE 0)]
           e == [i \in 0..N |-> Len(g[i])]
<1>0. N \in Nat /\ DOMAIN m.tensors = 1..N
  BY LenProperties
<1>1. Slices(m, taking) = [i \in DOMAIN m.tensors |->
        IF i \in taking THEN SubSeq(tail, end0[i - 1] + 1, Min({end0[i], Len(tail)})) ELSE None]
  BY DEF Slices
<1>2. Lie(zs, g, FlattenSeq(zs), Nat)
  BY FlattenPieces
<1>3. /\ Len(g[0]) = 0
      /\ \A i \in 1..N : Len(g[i]) = Len(g[i - 1]) + size(i)
  BY <1>2 DEF Lie
<1>4. e = [i \in 0..N |-> body(e, i)]
  <2>1. \A i \in 0..N : Len(g[i]) = body(e, i)
    <3> TAKE i \in 0..N
    <3>1. CASE i = 0
      BY <1>3, <3>1
    <3>2. CASE i # 0
      <4>1. i \in 1..N /\ i - 1 \in 0..N
        BY <1>0, <3>2
      <4>2. e[i - 1] = Len(g[i - 1])
        BY <4>1
      <4> HIDE DEF e, size
      <4> QED
        BY <1>3, <3>2, <4>1, <4>2
    <3> QED
      BY <3>1, <3>2
  <2> HIDE DEF body
  <2> QED
    BY <2>1
<1>5. end0 = [i \in 0..N |-> body(end0, i)]
  <2>1. \E f : f = [i \in 0..N |-> body(f, i)]
    <3> HIDE DEF body, e
    <3> QED
      BY <1>4
  <2> QED
    BY <2>1
<1> HIDE DEF end0, e
<1> DEFINE P(n) == n <= N => end0[n] = Len(g[n])
           T == {n \in Nat : P(n)}
<1>6. \A i \in 0..N : end0[i] = body(end0, i)
  <2> HIDE DEF body
  <2> QED
    BY <1>5
<1>7. P(0)
  BY <1>0, <1>3, <1>6
<1>8. ASSUME NEW n \in Nat, P(n)  PROVE P(n + 1)
  <2> SUFFICES ASSUME n + 1 <= N PROVE end0[n + 1] = Len(g[n + 1])
    OBVIOUS
  <2>1. n + 1 \in 1..N /\ n + 1 \in 0..N /\ (n + 1) - 1 = n /\ n + 1 # 0 /\ end0[n] = Len(g[n])
    BY <1>0, <1>8
  <2>2. end0[n + 1] = end0[(n + 1) - 1] + size(n + 1)
    <3> HIDE DEF size
    <3> QED
      BY <1>6, <2>1
  <2>3. Len(g[n + 1]) = Len(g[(n + 1) - 1]) + size(n + 1)
    <3> HIDE DEF size
    <3> QED
      BY <1>3, <2>1
  <2> HIDE DEF size
  <2> QED
    BY <2>1, <2>2, <2>3
<1>9. \A n \in Nat : P(n)
  <2> HIDE DEF P
  <2>1. 0 \in T /\ \A n \in Nat : n \in T => n + 1 \in T
    BY <1>7, <1>8
  <2>2. \A n \in Nat : n \in T
    <3> HIDE DEF T
    <3> QED
      BY <2>1, InductionOnNat
  <2> QED
    BY <2>2
<1>10. \A i \in 1..N : end0[i - 1] = Len(g[i - 1]) /\ end0[i] = Len(g[i])
  <2> TAKE i \in 1..N
  <2>1. i \in Nat /\ i - 1 \in Nat /\ i <= N /\ i - 1 <= N
    BY <1>0
  <2> QED
    BY <1>9, <2>1
<1> HIDE DEF tail
<1> QED
  BY <1>0, <1>1, <1>10 DEF tail, SlicesAt

\* A slice is a sequence of bytes, wherever it is.
LEMMA SlicesTyped ==
  ASSUME NEW m, m.tensors \in Seq(WireSet), m.raws \in Arrays, NEW taking \in SUBSET (DOMAIN m.tensors),
         \A i \in taking : m.tensors[i].size # None
  PROVE  /\ DOMAIN Slices(m, taking) = DOMAIN m.tensors
         /\ \A i \in taking : Slices(m, taking)[i] \in Seq(Nat)
<1> DEFINE N == Len(m.tensors)
           tail == FlattenSeq(m.raws)
           size(i) == IF i \in taking THEN m.tensors[i].size ELSE 0
           zs == [i \in 1..N |-> [j \in 1..size(i) |-> 0]]
<1>0. N \in Nat /\ DOMAIN m.tensors = 1..N
  BY LenProperties
<1>1. \A i \in 1..N : size(i) \in Nat
  <2> TAKE i \in 1..N
  <2>1. m.tensors[i] \in WireSet
    BY ElementOfSeq
  <2>2. m.tensors[i].size \in Nat \cup {None}
    BY <2>1 DEF WireSet
  <2> QED
    BY <2>2
<1>2. zs \in Seq(Seq(Nat)) /\ Len(zs) = N /\ \A i \in 1..N : Len(zs[i]) = size(i)
  <2> HIDE DEF size
  <2>1. \A i \in 1..N : [j \in 1..size(i) |-> 0] \in Seq(Nat) /\ Len([j \in 1..size(i) |-> 0]) = size(i)
    BY <1>1
  <2> DEFINE zero(i) == [j \in 1..size(i) |-> 0]
  <2>2. \A i \in 1..N : zero(i) \in Seq(Nat) /\ Len(zero(i)) = size(i)
    BY <2>1
  <2>3. zs = [i \in 1..N |-> zero(i)]
    OBVIOUS
  <2> HIDE DEF zero, zs
  <2> QED
    BY <1>0, <2>2, <2>3
<1>3. PICK g : g \in [0..Len(zs) -> Seq(Nat)] /\ Joins(zs, g)
  BY <1>2, JoinsExist
<1>4. Lie(zs, g, FlattenSeq(zs), Nat)
  BY <1>2, <1>3, FlattenPieces
<1>5. tail \in Seq(Nat) /\ Len(tail) \in Nat /\ \A i \in 1..Len(tail) : tail[i] \in Nat
  <2>1. tail \in Seq(Nat)
    BY FlattenTyped DEF Arrays
  <2> HIDE DEF tail
  <2> QED
    BY <2>1, LenProperties, ElementOfSeq
<1> HIDE DEF zs
<1>6. Slices(m, taking) = SlicesAt(m, taking, g)
  BY <1>2, <1>3, SlicesAre
<1> HIDE DEF tail
<1>7. ASSUME NEW i \in taking  PROVE Slices(m, taking)[i] \in Seq(Nat)
  <2> DEFINE a == Len(g[i - 1]) + 1
             b == Min({Len(g[i]), Len(tail)})
  <2>1. i \in 1..N
    BY <1>0
  <2>2. Len(g[i - 1]) \in Nat /\ Len(g[i]) \in Nat
    <3>1. i - 1 \in 0..Len(zs) /\ i \in 0..Len(zs)
      BY <1>0, <1>2, <2>1
    <3> QED
      BY <1>4, <3>1 DEF Lie
  <2>3. b \in Nat /\ b <= Len(tail)
    <3> DEFINE S == {Len(g[i]), Len(tail)}
    <3>1. S \in SUBSET Nat /\ S # {} /\ Len(tail) \in S
      BY <1>5, <2>2
    <3>2. Min(S) \in S /\ \A y \in S : Min(S) <= y
      <4> HIDE DEF S
      <4> QED
        BY <3>1, MinIsLeast
    <3> QED
      BY <3>1, <3>2
  <2>4. a \in Nat /\ a >= 1
    BY <2>2
  <2> HIDE DEF a, b
  <2>5. \A k \in a..b : tail[k] \in Nat
    BY <1>5, <2>3, <2>4
  <2>6. SubSeq(tail, a, b) \in Seq(Nat)
    BY <2>3, <2>4, <2>5, SubSeqProperties
  <2>7. Slices(m, taking)[i] = SubSeq(tail, a, b)
    BY <1>0, <1>6, <2>1 DEF a, b, tail, SlicesAt
  <2> QED
    BY <2>6, <2>7
<1> QED
  BY <1>6, <1>7 DEF SlicesAt

\* The pieces zs of the binary data have the sizes the message says.
Fit(zs, m, taking) ==
  /\ zs \in Seq(Seq(Nat)) /\ Len(zs) = Len(m.tensors) /\ FlattenSeq(m.raws) = FlattenSeq(zs)
  /\ \A i \in 1..Len(zs) : Len(zs[i]) = IF i \in taking THEN m.tensors[i].size ELSE 0

\* A slice has the binary data of its tensor, if all sizes are right.
LEMMA SlicesRight ==
  ASSUME NEW m, m.tensors \in Seq(WireSet), NEW taking \in SUBSET (DOMAIN m.tensors),
         NEW zs, Fit(zs, m, taking)
  PROVE  \A i \in taking : Slices(m, taking)[i] = zs[i]
<1>0. /\ zs \in Seq(Seq(Nat)) /\ Len(zs) = Len(m.tensors) /\ FlattenSeq(m.raws) = FlattenSeq(zs)
      /\ \A i \in 1..Len(zs) : Len(zs[i]) = IF i \in taking THEN m.tensors[i].size ELSE 0
  BY DEF Fit
<1>1. PICK g : g \in [0..Len(zs) -> Seq(Nat)] /\ Joins(zs, g)
  BY <1>0, JoinsExist
<1> DEFINE tail == FlattenSeq(zs)
<1>2. Lie(zs, g, tail, Nat)
  BY <1>0, <1>1, FlattenPieces
<1>3. Slices(m, taking) = SlicesAt(m, taking, g)
  BY <1>0, <1>1, SlicesAre
<1> HIDE DEF tail
<1>4. ASSUME NEW i \in taking  PROVE Slices(m, taking)[i] = zs[i]
  <2>1. i \in 1..Len(zs) /\ i \in 0..Len(zs)
    BY <1>0, LenProperties
  <2>2. Len(g[i]) \in Nat /\ Len(g[i]) <= Len(tail) /\ SubSeq(tail, Len(g[i - 1]) + 1, Len(g[i])) = zs[i]
    BY <1>2, <2>1 DEF Lie
  <2>3. Len(tail) \in Nat
    BY <1>2, LenProperties DEF Lie
  <2> DEFINE a == Len(g[i])
             b == Len(tail)
  <2>4. Min({a, b}) = a
    <3>1. a \in Nat /\ b \in Nat /\ a <= b
      BY <2>2, <2>3
    <3> HIDE DEF a, b
    <3> DEFINE S == {a, b}
    <3>2. S \in SUBSET Nat /\ S # {} /\ a \in S
      BY <3>1
    <3>3. Min(S) \in S /\ \A y \in S : Min(S) <= y
      <4> HIDE DEF S
      <4> QED
        BY <3>2, MinIsLeast
    <3> QED
      BY <3>1, <3>2, <3>3
  <2>5. Slices(m, taking)[i] = SubSeq(tail, Len(g[i - 1]) + 1, Min({a, b}))
    BY <1>0, <1>3 DEF tail, SlicesAt
  <2> QED
    BY <2>2, <2>4, <2>5
<1> QED
  BY <1>4

\* The fields of what is written for a tensor.
LEMMA WireHas ==
  ASSUME NEW w \in WireSet
  PROVE  /\ w.name \in STRING /\ w.datatype \in DataTypes /\ w.shape \in Nat
         /\ w.data \in Arrays \cup {None} /\ w.size \in Nat \cup {None}
BY DEF WireSet

\* A list is data.
LEMMA DataTyped ==
  ASSUME NEW kind \in {"list", "bytes", "array"}, NEW es \in Arrays
  PROVE  /\ Data(kind, es) \in DataSet /\ Data(kind, es) # None
         /\ Data(kind, es).kind = kind /\ Data(kind, es).elements = es
BY Nothing DEF Data, DataSet

\* A tensor made of what was received.
Of(t, w, data, raw) ==
  /\ t \in TensorSet /\ Same(t, w) /\ t.data = data /\ t.raw = raw /\ t.size = w.size

\* A tensor made of what was written.
LEMMA TensorTyped ==
  ASSUME NEW w \in WireSet, NEW data \in DataSet \cup {None}, NEW raw \in Seq(Nat) \cup {None}
  PROVE  Of(Tensor(w, data, raw), w, data, raw)
BY WireHas DEF Tensor, TensorSet, Of, Same

\* What FromSlice makes.
Sliced(x, w) ==
  /\ x.ok \in BOOLEAN
  /\ x.ok => /\ x.tensor \in TensorSet /\ Same(x.tensor, w)
             /\ x.tensor.data # None /\ x.tensor.data.kind = "list"
             /\ x.tensor.raw = None /\ x.tensor.size = None

\* A tensor made of its slice: the types.
LEMMA FromSliceTyped ==
  ASSUME NEW w \in WireSet, NEW raw \in Seq(Nat)
  PROVE  Sliced(FromSlice(w, raw), w)
<1> DEFINE t == Tensor(w, None, raw)
           es == AsNumpy(t)
           x == FromSlice(w, raw)
<1>1. t \in TensorSet /\ Same(t, w)
  BY TensorTyped DEF Of
<1>2. x = IF es = Error THEN Failed(t) ELSE SetText(t, es)
  BY DEF FromSlice
<1> HIDE DEF t, x
<1>3. es \in Arrays \cup {Error}
  BY <1>1, AsNumpyTyped
<1> HIDE DEF es
<1>4. CASE es = Error
  BY <1>2, <1>4 DEF Failed, Sliced, x
<1>5. CASE es # Error
  <2>1. Texted(x, t, es)
    BY <1>1, <1>2, <1>3, <1>5, SetTextDoes
  <2> QED
    BY <1>1, <2>1 DEF Texted, Same, Sliced, x
<1> QED
  BY <1>4, <1>5

\* A tensor made of its own bytes has its elements.
LEMMA FromSliceCarries ==
  ASSUME NEW w \in WireSet, NEW r \in Given, WireCarries(w, r)
  PROVE  /\ FromSlice(w, Raw(r)).ok => Carries(FromSlice(w, Raw(r)).tensor, r)
         /\ HasText(r) => FromSlice(w, Raw(r)).ok
<1> DEFINE t == Tensor(w, None, Raw(r))
           x == FromSlice(w, Raw(r))
<1>0. Raw(r) \in Seq(Nat)
  BY RawBack
<1>1. t \in TensorSet /\ Same(t, w) /\ t.data = None /\ t.raw = Raw(r) /\ t.size = w.size
  <2>1. Of(Tensor(w, None, Raw(r)), w, None, Raw(r))
    BY <1>0, TensorTyped
  <2> QED
    BY <2>1 DEF Of
<1>2. x = IF AsNumpy(t) = Error THEN Failed(t) ELSE SetText(t, AsNumpy(t))
  BY DEF FromSlice
<1> HIDE DEF t, x
<1>3. Carries(t, r)
  BY <1>1 DEF WireCarries, Carries, SameHead, Same
<1>4. AsNumpy(t) = r.elements /\ r.elements \in Arrays /\ r.elements # Error
  BY <1>3, CarriesIsRead, GivenHas, Nothing
<1>5. x = SetText(t, r.elements)
  BY <1>2, <1>4
<1>6. Texted(x, t, r.elements)
  BY <1>1, <1>4, <1>5, SetTextDoes
<1>7. IF x.ok THEN Carries(x.tensor, r) ELSE ~HasText(r) /\ Torn(x.tensor, r)
  BY <1>3, <1>6, TextedCarries DEF Carries
<1> QED
  BY <1>7 DEF x

\* AllDone has the tensors of the steps, or is Error.
LEMMA AllDoneIs ==
  ASSUME NEW steps
  PROVE  IF AllOk(steps) THEN AllDone(steps) = [i \in DOMAIN steps |-> steps[i].tensor] ELSE AllDone(steps) = Error
BY DEF AllDone, AllOk

-----------------------------------------------------------------------------
(* One tensor of a message with binary data.                               *)

TakingInputs(m) == {i \in DOMAIN m.tensors : m.tensors[i].data = None /\ m.tensors[i].size # None}
TakingOutputs(m) == {i \in DOMAIN m.tensors : m.tensors[i].size # None}

InputStep(w, raw) ==
  IF w.data # None
  THEN IF w.datatype = "FP16" THEN Failed(w) ELSE Done(Tensor(w, List(w.data), None))
  ELSE IF w.size # None THEN FromSlice(w, raw) ELSE Failed(w)
JsonStep(w) ==
  IF w.data = None \/ (w.datatype = "FP16" /\ w.data # <<>>) THEN Failed(w)
  ELSE Done(Tensor(w, List(w.data), None))
OutputStep(w, raw) ==
  IF w.size # None THEN FromSlice(w, raw)
  ELSE IF w.data = None THEN Failed(w) ELSE Done(Tensor(w, List(w.data), None))

InputSteps(m) == [i \in DOMAIN m.tensors |-> InputStep(m.tensors[i], Slices(m, TakingInputs(m))[i])]
JsonSteps(m) == [i \in DOMAIN m.tensors |-> JsonStep(m.tensors[i])]
OutputSteps(m) == [i \in DOMAIN m.tensors |-> OutputStep(m.tensors[i], Slices(m, TakingOutputs(m))[i])]

\* There is a slice for each tensor.
LEMMA SlicesDomain ==
  ASSUME NEW m, NEW taking
  PROVE  DOMAIN Slices(m, taking) = DOMAIN m.tensors
BY DEF Slices

\* InputsFromBytes takes one step for each tensor.
LEMMA FromBytesAre ==
  ASSUME NEW m
  PROVE  /\ InputsFromBytes(m) = AllDone(InputSteps(m))
         /\ InputsFromJson(m) = AllDone(JsonSteps(m))
         /\ OutputsFromBytes(m) = AllDone(OutputSteps(m))
<1>1. InputsFromBytes(m) = AllDone(InputSteps(m))
  BY SlicesDomain DEF InputsFromBytes, InputSteps, InputStep, TakingInputs
<1>2. InputsFromJson(m) = AllDone(JsonSteps(m))
  BY DEF InputsFromJson, JsonSteps, JsonStep
<1>3. OutputsFromBytes(m) = AllDone(OutputSteps(m))
  BY SlicesDomain DEF OutputsFromBytes, OutputSteps, OutputStep, TakingOutputs
<1> QED
  BY <1>1, <1>2, <1>3

\* What a tensor of the receiver is, typed and with what it carries.
StepReceived(x, w) ==
  /\ x.ok \in BOOLEAN
  /\ x.ok => /\ x.tensor \in TensorSet /\ x.tensor.name = w.name
             /\ x.tensor.data # None /\ x.tensor.data.kind = "list" /\ x.tensor.raw = None

\* A tensor made of a list: the types.
LEMMA ListTyped ==
  ASSUME NEW w \in WireSet, w.data # None
  PROVE  LET t == Tensor(w, List(w.data), None)
         IN /\ t \in TensorSet /\ Same(t, w) /\ t.raw = None /\ t.size = w.size
            /\ t.data # None /\ t.data.kind = "list" /\ t.data.elements = w.data
<1>1. w.data \in Arrays
  BY WireHas
<1>2. List(w.data) \in DataSet /\ List(w.data) # None /\ List(w.data).kind = "list" /\ List(w.data).elements = w.data
  BY <1>1, DataTyped DEF List
<1> QED
  BY <1>2, TensorTyped DEF Of

\* A tensor made of its list has its elements.
LEMMA ListConveys ==
  ASSUME NEW w \in WireSet, w.data # None, NEW r \in Given
  PROVE  LET t == Tensor(w, List(w.data), None)
         IN /\ WireCarries(w, r) => Carries(t, r)
            /\ WireConveys(w, r) => Conveys(t, r)
<1> DEFINE t == Tensor(w, List(w.data), None)
<1>1. /\ t \in TensorSet /\ Same(t, w) /\ t.raw = None /\ t.size = w.size
      /\ t.data # None /\ t.data.kind = "list" /\ t.data.elements = w.data
  BY ListTyped
<1> HIDE DEF t
<1>2. WireCarries(w, r) => Carries(t, r)
  BY <1>1 DEF WireCarries, Carries, SameHead, Same
<1>3. WireTorn(w, r) => Torn(t, r)
  BY <1>1 DEF WireTorn, Torn, SameHead, Same
<1> QED
  BY <1>2, <1>3 DEF WireConveys, Conveys, t

\* What was received has the heads of what was written.
LEMMA StepsReceived ==
  ASSUME NEW w \in WireSet, NEW raw
  PROVE  /\ (w.data = None /\ w.size # None => raw \in Seq(Nat)) => StepReceived(InputStep(w, raw), w)
         /\ StepReceived(JsonStep(w), w)
         /\ (w.size # None => raw \in Seq(Nat)) => StepReceived(OutputStep(w, raw), w)
<1>1. StepReceived(Failed(w), w)
  BY DEF StepReceived, Failed
<1>2. w.data # None => StepReceived(Done(Tensor(w, List(w.data), None)), w)
  <2> DEFINE t == Tensor(w, List(w.data), None)
  <2>1. ASSUME w.data # None
        PROVE  t \in TensorSet /\ t.name = w.name /\ t.raw = None /\ t.data # None /\ t.data.kind = "list"
    BY <2>1, ListTyped DEF Same
  <2> HIDE DEF t
  <2>2. ASSUME w.data # None  PROVE StepReceived(Done(t), w)
    BY <2>1, <2>2 DEF StepReceived, Done
  <2> QED
    BY <2>2 DEF t
<1>3. raw \in Seq(Nat) => StepReceived(FromSlice(w, raw), w)
  <2>1. raw \in Seq(Nat) => Sliced(FromSlice(w, raw), w)
    BY FromSliceTyped
  <2> QED
    BY <2>1 DEF Sliced, StepReceived, Same
<1> QED
  BY <1>1, <1>2, <1>3 DEF InputStep, JsonStep, OutputStep

\* A function on the first numbers is a sequence.
LEMMA SequenceOf ==
  ASSUME NEW m, m.tensors \in Seq(WireSet), m.raws \in Arrays
  PROVE  /\ Len(m.tensors) \in Nat /\ DOMAIN m.tensors = 1..Len(m.tensors)
         /\ \A i \in DOMAIN m.tensors : m.tensors[i] \in WireSet
         /\ \A i \in DOMAIN m.tensors :
              /\ StepReceived(InputSteps(m)[i], m.tensors[i])
              /\ StepReceived(JsonSteps(m)[i], m.tensors[i])
              /\ StepReceived(OutputSteps(m)[i], m.tensors[i])
<1>1. Len(m.tensors) \in Nat /\ DOMAIN m.tensors = 1..Len(m.tensors) /\ \A i \in DOMAIN m.tensors : m.tensors[i] \in WireSet
  BY LenProperties, ElementOfSeq
<1>2. \A i \in TakingInputs(m) : Slices(m, TakingInputs(m))[i] \in Seq(Nat)
  <2>1. TakingInputs(m) \in SUBSET (DOMAIN m.tensors) /\ \A i \in TakingInputs(m) : m.tensors[i].size # None
    BY DEF TakingInputs
  <2> QED
    BY <2>1, SlicesTyped
<1>3. \A i \in TakingOutputs(m) : Slices(m, TakingOutputs(m))[i] \in Seq(Nat)
  <2>1. TakingOutputs(m) \in SUBSET (DOMAIN m.tensors) /\ \A i \in TakingOutputs(m) : m.tensors[i].size # None
    BY DEF TakingOutputs
  <2> QED
    BY <2>1, SlicesTyped
<1>4. ASSUME NEW i \in DOMAIN m.tensors
      PROVE  /\ StepReceived(InputSteps(m)[i], m.tensors[i])
             /\ StepReceived(JsonSteps(m)[i], m.tensors[i])
             /\ StepReceived(OutputSteps(m)[i], m.tensors[i])
  <2> DEFINE w == m.tensors[i]
  <2>1. w \in WireSet
    BY <1>1
  <2>2. w.data = None /\ w.size # None => Slices(m, TakingInputs(m))[i] \in Seq(Nat)
    BY <1>2 DEF TakingInputs
  <2>3. w.size # None => Slices(m, TakingOutputs(m))[i] \in Seq(Nat)
    BY <1>3 DEF TakingOutputs
  <2>4. /\ InputSteps(m)[i] = InputStep(w, Slices(m, TakingInputs(m))[i])
        /\ JsonSteps(m)[i] = JsonStep(w)
        /\ OutputSteps(m)[i] = OutputStep(w, Slices(m, TakingOutputs(m))[i])
    BY DEF InputSteps, JsonSteps, OutputSteps
  <2> HIDE DEF w
  <2>5. /\ StepReceived(InputStep(w, Slices(m, TakingInputs(m))[i]), w)
        /\ StepReceived(JsonStep(w), w)
        /\ StepReceived(OutputStep(w, Slices(m, TakingOutputs(m))[i]), w)
    BY <2>1, <2>2, <2>3, StepsReceived
  <2> QED
    BY <2>4, <2>5 DEF w
<1> QED
  BY <1>1, <1>4

\* What the receiver has, if nothing was wrong with the message.
Received(ts, m) ==
  /\ ts \in Seq(TensorSet) /\ DOMAIN ts = DOMAIN m.tensors
  /\ \A i \in DOMAIN m.tensors : /\ ts[i].name = m.tensors[i].name
                                 /\ ts[i].data # None /\ ts[i].data.kind \in {"list", "bytes"}

\* Steps that received, together.
LEMMA AllReceived ==
  ASSUME NEW m, m.tensors \in Seq(WireSet), NEW steps, DOMAIN steps = DOMAIN m.tensors,
         \A i \in DOMAIN m.tensors : StepReceived(steps[i], m.tensors[i])
  PROVE  AllDone(steps) # Error =>
           /\ Received(AllDone(steps), m)
           /\ \A i \in DOMAIN m.tensors : steps[i].ok /\ AllDone(steps)[i] = steps[i].tensor
                                           /\ AllDone(steps)[i].data.kind = "list" /\ AllDone(steps)[i].raw = None
<1> SUFFICES ASSUME AllDone(steps) # Error
             PROVE  /\ Received(AllDone(steps), m)
                    /\ \A i \in DOMAIN m.tensors : steps[i].ok /\ AllDone(steps)[i] = steps[i].tensor
                                           /\ AllDone(steps)[i].data.kind = "list" /\ AllDone(steps)[i].raw = None
  OBVIOUS
<1> DEFINE ts == AllDone(steps)
<1>1. AllOk(steps) /\ ts = [i \in DOMAIN steps |-> steps[i].tensor]
  BY AllDoneIs
<1> HIDE DEF ts
<1>2. \A i \in DOMAIN m.tensors : steps[i].ok
  BY <1>1 DEF AllOk
<1>3. \A i \in DOMAIN m.tensors : /\ steps[i].tensor \in TensorSet /\ steps[i].tensor.name = m.tensors[i].name
                                  /\ steps[i].tensor.data # None /\ steps[i].tensor.data.kind = "list"
                                  /\ steps[i].tensor.raw = None
  BY <1>2 DEF StepReceived
<1>4. Len(m.tensors) \in Nat /\ DOMAIN m.tensors = 1..Len(m.tensors)
  BY LenProperties
<1>5. ts \in Seq(TensorSet)
  BY <1>1, <1>3, <1>4
<1> QED
  BY <1>1, <1>2, <1>3, <1>5 DEF Received, ts

-----------------------------------------------------------------------------
(* Decoding a request.                                                     *)

\* How many raw contents a gRPC message has says which tensors are without contents.
LEMMA GrpcForm ==
  ASSUME NEW m, m.tensors \in Seq(WireSet), m.raws \in Arrays, MessageForm(m, "grpc")
  PROVE  /\ m.raws = <<>> => \A i \in DOMAIN m.tensors : m.tensors[i].data # None
         /\ Len(m.raws) = Len(m.tensors) => \A i \in DOMAIN m.tensors : m.tensors[i].data = None
         /\ Len(m.raws) = 0 <=> m.raws = <<>>
         /\ DOMAIN m.raws = 1..Len(m.raws)
<1> DEFINE N == Len(m.tensors)
           none == {i \in DOMAIN m.tensors : m.tensors[i].data = None}
<1>0. N \in Nat /\ DOMAIN m.tensors = 1..N /\ Len(m.raws) \in Nat /\ DOMAIN m.raws = 1..Len(m.raws)
      /\ (Len(m.raws) = 0 <=> m.raws = <<>>)
  BY LenProperties, EmptySeq DEF Arrays
<1>1. Len(m.raws) = Cardinality(none)
  BY DEF MessageForm
<1>2. none \in SUBSET (1..N)
  BY <1>0
<1>3. IsFiniteSet(1..N) /\ Cardinality(1..N) = N
  <2> HIDE DEF N
  <2>1. 1 \in Int /\ N \in Int
    BY <1>0
  <2>2. IsFiniteSet(1..N) /\ Cardinality(1..N) = IF 1 > N THEN 0 ELSE N - 1 + 1
    BY <2>1, FS_Interval
  <2> QED
    BY <1>0, <2>2
<1>4. none = {} => \A i \in DOMAIN m.tensors : m.tensors[i].data # None
  OBVIOUS
<1>5. none = 1..N => \A i \in DOMAIN m.tensors : m.tensors[i].data = None
  BY <1>0
<1> HIDE DEF none, N
<1>6. IsFiniteSet(none) /\ (Cardinality(1..N) = Cardinality(none) => 1..N = none)
  BY <1>2, <1>3, FS_Subset
<1>7. Cardinality(none) = 0 => none = {}
  BY <1>6, FS_EmptySet
<1> QED
  BY <1>0, <1>1, <1>3, <1>4, <1>5, <1>6, <1>7 DEF N

\* from_grpc: the types.
LEMMA FromGrpcTyped ==
  ASSUME NEW m, m.tensors \in Seq(WireSet), m.raws \in Arrays
  PROVE  /\ Received(FromGrpc(m), m) /\ FromGrpc(m) # Error
         /\ \A i \in DOMAIN m.tensors :
              LET w == m.tensors[i]
              IN Of(FromGrpc(m)[i], w,
                    Data(IF w.datatype = "BYTES" THEN "bytes" ELSE "list", IF w.data = None THEN <<>> ELSE w.data),
                    IF i \in DOMAIN m.raws THEN m.raws[i] ELSE None)
<1> DEFINE kind(i) == IF m.tensors[i].datatype = "BYTES" THEN "bytes" ELSE "list"
           es(i) == IF m.tensors[i].data = None THEN <<>> ELSE m.tensors[i].data
           raw(i) == IF i \in DOMAIN m.raws THEN m.raws[i] ELSE None
           t(i) == Tensor(m.tensors[i], Data(kind(i), es(i)), raw(i))
           ts == FromGrpc(m)
<1>0. Len(m.tensors) \in Nat /\ DOMAIN m.tensors = 1..Len(m.tensors) /\ \A i \in DOMAIN m.tensors : m.tensors[i] \in WireSet
  BY LenProperties, ElementOfSeq
<1>1. \A i \in DOMAIN m.raws : m.raws[i] \in Seq(Nat)
  BY LenProperties, ElementOfSeq DEF Arrays
<1>2. <<>> \in Arrays
  BY DEF Arrays
<1>3. ASSUME NEW i \in DOMAIN m.tensors
      PROVE  /\ Of(t(i), m.tensors[i], Data(kind(i), es(i)), raw(i))
             /\ Data(kind(i), es(i)) # None /\ Data(kind(i), es(i)).kind \in {"list", "bytes"}
  <2> DEFINE w == m.tensors[i]
  <2>1. w \in WireSet /\ kind(i) \in {"list", "bytes"} /\ es(i) \in Arrays /\ raw(i) \in Seq(Nat) \cup {None}
    BY <1>0, <1>1, <1>2, WireHas
  <2> HIDE DEF w, kind, es, raw
  <2> DEFINE d == Data(kind(i), es(i))
  <2>2. d \in DataSet /\ d # None /\ d.kind \in {"list", "bytes"}
    BY <2>1, DataTyped
  <2> HIDE DEF d
  <2>3. Of(Tensor(w, d, raw(i)), w, d, raw(i))
    BY <2>1, <2>2, TensorTyped
  <2> QED
    BY <2>2, <2>3 DEF w, d
<1>4. ts = [i \in DOMAIN m.tensors |-> t(i)]
  BY DEF FromGrpc
<1> HIDE DEF t, ts
<1>5. ts \in Seq(TensorSet) /\ DOMAIN ts = DOMAIN m.tensors /\ \A i \in DOMAIN m.tensors : ts[i] = t(i)
  <2>1. \A i \in DOMAIN m.tensors : t(i) \in TensorSet
    BY <1>3 DEF Of
  <2> QED
    BY <1>0, <1>4, <2>1
<1>6. Received(ts, m)
  <2>1. \A i \in DOMAIN m.tensors : /\ ts[i].name = m.tensors[i].name
                                    /\ ts[i].data # None /\ ts[i].data.kind \in {"list", "bytes"}
    <3> TAKE i \in DOMAIN m.tensors
    <3> HIDE DEF kind, es, raw
    <3> QED
      BY <1>3, <1>5 DEF Of, Same
  <2> QED
    BY <1>5, <2>1 DEF Received
<1>7. ts # Error
  BY <1>5, Nothing
<1> QED
  BY <1>3, <1>5, <1>6, <1>7 DEF ts

\* from_grpc finds what the message carries, unless it has contents for some
\* tensors and raw contents for others.
LEMMA FromGrpcConveys ==
  ASSUME NEW m, m.tensors \in Seq(WireSet), m.raws \in Arrays,
         NEW rs \in Seq(Given), DOMAIN m.tensors = DOMAIN rs,
         \/ m.raws = <<>> /\ \A i \in DOMAIN rs : m.tensors[i].data # None
         \/ m.raws = [i \in DOMAIN rs |-> Raw(rs[i])] /\ \A i \in DOMAIN rs : m.tensors[i].data = None,
         NEW i \in DOMAIN rs
  PROVE  /\ WireCarries(m.tensors[i], rs[i]) => Carries(FromGrpc(m)[i], rs[i])
         /\ WireConveys(m.tensors[i], rs[i]) => Conveys(FromGrpc(m)[i], rs[i])
<1> DEFINE w == m.tensors[i]
           t == FromGrpc(m)[i]
           r == rs[i]
           kind == IF w.datatype = "BYTES" THEN "bytes" ELSE "list"
           es == IF w.data = None THEN <<>> ELSE w.data
           raw == IF i \in DOMAIN m.raws THEN m.raws[i] ELSE None
<1>0. r \in Given /\ w \in WireSet
  <2>1. DOMAIN rs = 1..Len(rs) /\ DOMAIN m.tensors = 1..Len(m.tensors)
    BY LenProperties
  <2> QED
    BY <2>1, ElementOfSeq
<1>1. Of(t, w, Data(kind, es), raw)
  BY FromGrpcTyped
<1>2. \/ w.data # None /\ raw = None /\ es = w.data
      \/ w.data = None /\ raw = Raw(r) /\ es = <<>>
  OBVIOUS
<1>3. kind \in {"list", "bytes"} /\ es \in Arrays
  <2>1. <<>> \in Arrays
    BY DEF Arrays
  <2> QED
    BY <1>0, <2>1, WireHas
<1> HIDE DEF w, t, r, kind, es, raw
<1>4. t.data # None /\ t.data.kind = kind /\ t.data.elements = es /\ t.raw = raw /\ t.size = w.size /\ Same(t, w)
  BY <1>1, <1>3, DataTyped DEF Of
<1>5. WireCarries(w, r) => Carries(t, r)
  BY <1>2, <1>3, <1>4 DEF WireCarries, Carries, Same, SameHead
<1>6. WireTorn(w, r) => Torn(t, r)
  BY <1>2, <1>3, <1>4 DEF WireTorn, Torn, Same, SameHead
<1> QED
  BY <1>5, <1>6 DEF WireConveys, Conveys, w, t, r

\* The binary data of the tensors in taking are where their sizes say.
LEMMA PartsAreSlices ==
  ASSUME NEW m, m.tensors \in Seq(WireSet), m.raws \in Arrays,
         NEW rs \in Seq(Given), DOMAIN m.tensors = DOMAIN rs,
         \A i \in DOMAIN rs : WireConveys(m.tensors[i], rs[i]), RawsRight(m, rs, "rest"),
         NEW taking \in SUBSET (DOMAIN rs),
         \A i \in taking : m.tensors[i].size # None,
         \A i \in DOMAIN rs : i \notin taking => m.tensors[i].data # None
  PROVE  \A i \in taking : Slices(m, taking)[i] = Raw(rs[i])
<1> DEFINE N == Len(m.tensors)
           zs == [i \in DOMAIN rs |-> Part(m.tensors[i], rs[i])]
<1>0. N \in Nat /\ DOMAIN m.tensors = 1..N /\ DOMAIN rs = 1..N /\ \A i \in 1..N : rs[i] \in Given
  <2>1. N \in Nat /\ DOMAIN m.tensors = 1..N /\ DOMAIN rs = 1..Len(rs)
    BY LenProperties
  <2> QED
    BY <2>1, ElementOfSeq
<1>1. \A i \in 1..N : Part(m.tensors[i], rs[i]) \in Seq(Nat) /\ zs[i] = Part(m.tensors[i], rs[i])
  BY <1>0, RawBack DEF Part
<1>2. zs \in Seq(Seq(Nat)) /\ Len(zs) = N
  <2> DEFINE part(i) == Part(m.tensors[i], rs[i])
  <2>1. zs = [i \in 1..N |-> part(i)] /\ \A i \in 1..N : part(i) \in Seq(Nat)
    BY <1>0, <1>1
  <2> HIDE DEF zs, part, N
  <2> QED
    BY <1>0, <2>1
<1>3. FlattenSeq(m.raws) = FlattenSeq(zs)
  BY DEF RawsRight
<1> HIDE DEF zs
<1>4. ASSUME NEW i \in taking
      PROVE  m.tensors[i].size = Len(Raw(rs[i])) /\ Part(m.tensors[i], rs[i]) = Raw(rs[i])
  <2>1. rs[i] \in Given /\ m.tensors[i].size # None /\ WireCarries(m.tensors[i], rs[i])
    BY <1>0 DEF WireConveys, WireTorn
  <2>2. m.tensors[i].size = Len(Raw(rs[i]))
    BY <2>1 DEF WireCarries
  <2>3. CASE m.tensors[i].data = None
    BY <2>2, <2>3 DEF Part
  <2>4. CASE m.tensors[i].data # None
    <3>1. rs[i].elements = <<>>
      BY <2>1, <2>4 DEF WireCarries
    <3> QED
      BY <2>1, <2>2, <2>4, <3>1, RawEmpty DEF Part
  <2> QED
    BY <2>3, <2>4
<1>5. \A i \in 1..N : Len(Part(m.tensors[i], rs[i])) = IF i \in taking THEN m.tensors[i].size ELSE 0
  <2> TAKE i \in 1..N
  <2>1. CASE i \in taking
    BY <1>4, <2>1
  <2>2. CASE i \notin taking
    <3>1. Part(m.tensors[i], rs[i]) = <<>>
      BY <1>0, <2>2 DEF Part
    <3> QED
      BY <2>2, <3>1
  <2> QED
    BY <2>1, <2>2
<1>6. \A i \in 1..Len(zs) : Len(zs[i]) = IF i \in taking THEN m.tensors[i].size ELSE 0
  BY <1>1, <1>2, <1>5
<1>7. taking \in SUBSET (DOMAIN m.tensors)
  BY <1>0
<1>8. \A i \in taking : Slices(m, taking)[i] = zs[i]
  <2>1. Fit(zs, m, taking)
    BY <1>2, <1>3, <1>6 DEF Fit
  <2> QED
    BY <1>7, <2>1, SlicesRight
<1> QED
  BY <1>0, <1>1, <1>4, <1>8

\* The inputs a server decodes: the types.
LEMMA DecodeInputsTyped ==
  ASSUME NEW m, m.tensors \in Seq(WireSet), m.raws \in Arrays, NEW protocol, DecodeInputs(m, protocol) # Error
  PROVE  Received(DecodeInputs(m, protocol), m)
<1>1. CASE protocol = "grpc"
  <2>1. DecodeInputs(m, protocol) = FromGrpc(m)
    BY <1>1 DEF DecodeInputs
  <2> QED
    BY <2>1, FromGrpcTyped
<1>2. CASE protocol # "grpc" /\ m.raws # <<>>
  <2>1. DecodeInputs(m, protocol) = AllDone(InputSteps(m))
    BY <1>2, FromBytesAre DEF DecodeInputs
  <2>2. DOMAIN InputSteps(m) = DOMAIN m.tensors
    BY DEF InputSteps
  <2>3. \A i \in DOMAIN m.tensors : StepReceived(InputSteps(m)[i], m.tensors[i])
    BY SequenceOf
  <2> QED
    BY <2>1, <2>2, <2>3, AllReceived
<1>3. CASE protocol # "grpc" /\ m.raws = <<>>
  <2>1. DecodeInputs(m, protocol) = AllDone(JsonSteps(m))
    BY <1>3, FromBytesAre DEF DecodeInputs
  <2>2. DOMAIN JsonSteps(m) = DOMAIN m.tensors
    BY DEF JsonSteps
  <2>3. \A i \in DOMAIN m.tensors : StepReceived(JsonSteps(m)[i], m.tensors[i])
    BY SequenceOf
  <2> QED
    BY <2>1, <2>2, <2>3, AllReceived
<1> QED
  BY <1>1, <1>2, <1>3

\* They carry what the message does.
LEMMA DecodeInputsConveys ==
  ASSUME NEW m, m.tensors \in Seq(WireSet), m.raws \in Arrays, NEW protocol \in {"rest", "grpc"},
         DecodeInputs(m, protocol) # Error,
         NEW rs \in Seq(Given), MessageFaithful(m, rs, protocol), MessageForm(m, protocol)
  PROVE  Faithful(DecodeInputs(m, protocol), rs)
<1>0. DOMAIN m.tensors = DOMAIN rs /\ (\A i \in DOMAIN rs : WireConveys(m.tensors[i], rs[i])) /\ RawsRight(m, rs, protocol)
  BY DEF MessageFaithful
<1>1. \A i \in DOMAIN rs : m.tensors[i] \in WireSet /\ rs[i] \in Given
  <2>1. DOMAIN rs = 1..Len(rs) /\ DOMAIN m.tensors = 1..Len(m.tensors)
    BY LenProperties
  <2> QED
    BY <1>0, <2>1, ElementOfSeq
<1>2. CASE protocol = "grpc"
  <2>1. DecodeInputs(m, protocol) = FromGrpc(m) /\ ValidGrpc(m)
    BY <1>2 DEF DecodeInputs
  <2>2. \/ m.raws = <<>> /\ \A i \in DOMAIN rs : m.tensors[i].data # None
        \/ m.raws = [i \in DOMAIN rs |-> Raw(rs[i])] /\ \A i \in DOMAIN rs : m.tensors[i].data = None
    <3>1. CASE m.raws = <<>>
      BY <1>0, <1>2, <3>1, GrpcForm
    <3>2. CASE m.raws # <<>>
      <4>1. \A i \in DOMAIN rs : m.tensors[i].data = None
        BY <1>0, <2>1, <3>2 DEF ValidGrpc
      <4> QED
        BY <1>0, <1>2, <4>1 DEF RawsRight
    <3> QED
      BY <3>1, <3>2
  <2>3. \A i \in DOMAIN rs : Conveys(FromGrpc(m)[i], rs[i])
    BY <1>0, <2>2, FromGrpcConveys
  <2>4. DOMAIN FromGrpc(m) = DOMAIN rs
    BY <1>0 DEF FromGrpc
  <2> QED
    BY <2>1, <2>3, <2>4 DEF Faithful
<1>3. CASE protocol # "grpc" /\ m.raws # <<>>
  <2> DEFINE steps == InputSteps(m)
             taking == TakingInputs(m)
  <2>1. DecodeInputs(m, protocol) = AllDone(steps)
    BY <1>3, FromBytesAre DEF DecodeInputs
  <2>2. DOMAIN steps = DOMAIN m.tensors /\ \A i \in DOMAIN m.tensors : steps[i] = InputStep(m.tensors[i], Slices(m, taking)[i])
    BY DEF InputSteps
  <2>3. \A i \in DOMAIN m.tensors : StepReceived(steps[i], m.tensors[i])
    BY SequenceOf
  <2> HIDE DEF steps
  <2>4. \A i \in DOMAIN m.tensors : steps[i].ok /\ AllDone(steps)[i] = steps[i].tensor
    BY <2>1, <2>2, <2>3, AllReceived
  <2>5. DOMAIN AllDone(steps) = DOMAIN rs
    BY <1>0, <2>1, <2>2, <2>3, AllReceived DEF Received
  <2>6. \A i \in DOMAIN m.tensors : m.tensors[i].data = None => m.tensors[i].size # None
    <3> TAKE i \in DOMAIN m.tensors
    <3> DEFINE w == m.tensors[i]
    <3>1. steps[i].ok /\ steps[i] = InputStep(w, Slices(m, taking)[i])
      BY <2>2, <2>4
    <3>2. ~Failed(w).ok
      BY DEF Failed
    <3> HIDE DEF w
    <3>3. w.data = None => w.size # None
      BY <3>1, <3>2 DEF InputStep
    <3> QED
      BY <3>3 DEF w
  <2>7. \A i \in taking : Slices(m, taking)[i] = Raw(rs[i])
    <3>1. taking \in SUBSET (DOMAIN rs) /\ (\A i \in taking : m.tensors[i].size # None)
          /\ \A i \in DOMAIN rs : i \notin taking => m.tensors[i].data # None
      BY <1>0, <2>6 DEF TakingInputs
    <3>2. RawsRight(m, rs, "rest")
      BY <1>0, <1>3
    <3> QED
      BY <1>0, <3>1, <3>2, PartsAreSlices
  <2>8. ASSUME NEW i \in DOMAIN rs  PROVE Conveys(AllDone(steps)[i], rs[i])
    <3> DEFINE w == m.tensors[i]
    <3>1. w \in WireSet /\ rs[i] \in Given /\ WireConveys(w, rs[i])
      BY <1>0, <1>1
    <3>2. steps[i].ok /\ AllDone(steps)[i] = steps[i].tensor /\ steps[i] = InputStep(w, Slices(m, taking)[i])
      BY <1>0, <2>2, <2>4
    <3>3. CASE w.data # None
      <4>1. steps[i].tensor = Tensor(w, List(w.data), None)
        BY <3>2, <3>3 DEF InputStep, Failed, Done
      <4> HIDE DEF w
      <4> QED
        BY <3>1, <3>2, <3>3, <4>1, ListConveys
    <3>4. CASE w.data = None
      <4>1. i \in taking /\ w.size # None
        BY <1>0, <2>6, <3>4 DEF TakingInputs
      <4>2. steps[i] = FromSlice(w, Raw(rs[i]))
        BY <2>7, <3>2, <3>4, <4>1 DEF InputStep
      <4>3. WireCarries(w, rs[i])
        BY <3>1, <3>4 DEF WireConveys, WireTorn
      <4> HIDE DEF w
      <4> QED
        BY <3>1, <3>2, <4>2, <4>3, FromSliceCarries DEF Conveys
    <3> QED
      BY <3>3, <3>4
  <2> QED
    BY <2>1, <2>5, <2>8 DEF Faithful
<1>4. CASE protocol # "grpc" /\ m.raws = <<>>
  <2> DEFINE steps == JsonSteps(m)
  <2>1. DecodeInputs(m, protocol) = AllDone(steps)
    BY <1>4, FromBytesAre DEF DecodeInputs
  <2>2. DOMAIN steps = DOMAIN m.tensors /\ \A i \in DOMAIN m.tensors : steps[i] = JsonStep(m.tensors[i])
    BY DEF JsonSteps
  <2>3. \A i \in DOMAIN m.tensors : StepReceived(steps[i], m.tensors[i])
    BY SequenceOf
  <2> HIDE DEF steps
  <2>4. \A i \in DOMAIN m.tensors : steps[i].ok /\ AllDone(steps)[i] = steps[i].tensor
    BY <2>1, <2>2, <2>3, AllReceived
  <2>5. DOMAIN AllDone(steps) = DOMAIN rs
    BY <1>0, <2>1, <2>2, <2>3, AllReceived DEF Received
  <2>6. ASSUME NEW i \in DOMAIN rs  PROVE Conveys(AllDone(steps)[i], rs[i])
    <3> DEFINE w == m.tensors[i]
    <3>1. w \in WireSet /\ rs[i] \in Given /\ WireConveys(w, rs[i])
      BY <1>0, <1>1
    <3>2. steps[i].ok /\ AllDone(steps)[i] = steps[i].tensor /\ steps[i] = JsonStep(w)
      BY <1>0, <2>2, <2>4
    <3>3. w.data # None /\ steps[i].tensor = Tensor(w, List(w.data), None)
      BY <3>2 DEF JsonStep, Failed, Done
    <3> HIDE DEF w
    <3> QED
      BY <3>1, <3>2, <3>3, ListConveys
  <2> QED
    BY <2>1, <2>5, <2>6 DEF Faithful
<1> QED
  BY <1>2, <1>3, <1>4

\* The fields of a request on the wire.
LEMMA MessageHas ==
  ASSUME NEW m \in RequestMessages
  PROVE  m.tensors \in Seq(WireSet) /\ m.raws \in Arrays /\ m.binary \in BOOLEAN /\ m.outputs \in AskedSet
BY DEF RequestMessages

\* The request a server decodes: the types, and what it takes over.
LEMMA DecodeRequestTyped ==
  ASSUME NEW m \in RequestMessages, NEW protocol, DecodeRequest(m, protocol) # Error
  PROVE  LET q == DecodeRequest(m, protocol)
         IN /\ q \in RequestSet /\ q.binary = m.binary /\ q.outputs = m.outputs
            /\ q.inputs = DecodeInputs(m, protocol) /\ DecodeInputs(m, protocol) # Error
            /\ Received(q.inputs, m)
            /\ q.grpc <=> protocol = "grpc"
            /\ q.raw <=> (protocol = "grpc" /\ m.raws # <<>>)
<1> DEFINE q == DecodeRequest(m, protocol)
           inputs == DecodeInputs(m, protocol)
<1>1. inputs # Error /\ q = [inputs |-> inputs, binary |-> m.binary, outputs |-> m.outputs,
                             grpc |-> protocol = "grpc", raw |-> protocol = "grpc" /\ m.raws # <<>>]
  BY DEF DecodeRequest
<1>2. Received(inputs, m)
  BY <1>1, MessageHas, DecodeInputsTyped
<1> HIDE DEF inputs, q
<1>3. inputs \in Seq(TensorSet)
  BY <1>2 DEF Received
<1>4. q \in RequestSet
  BY <1>1, <1>3, MessageHas DEF RequestSet
<1>5. q.binary = m.binary /\ q.outputs = m.outputs /\ q.inputs = inputs
      /\ (q.grpc <=> protocol = "grpc") /\ (q.raw <=> (protocol = "grpc" /\ m.raws # <<>>))
  BY <1>1
<1> QED
  BY <1>1, <1>2, <1>4, <1>5 DEF q, inputs

-----------------------------------------------------------------------------
(* Encoding a response.                                                    *)

\* A tensor of a response before it is written.
Shown(t, binary) ==
  IF Is(t.data, "array") THEN SetData(t, t.data.elements, binary)
  ELSE IF Empty(t.data) /\ t.raw \in {None, <<>>} THEN Done(t)
  ELSE IF AsNumpy(t) = Error THEN Failed(t)
  ELSE SetData(t, AsNumpy(t), binary)

ShownAs(s, t, binary) ==
  /\ s.tensor \in TensorSet /\ Same(s.tensor, t) /\ s.ok \in BOOLEAN
  /\ s.ok =>
       \/ s.tensor = t /\ Empty(t.data) /\ t.raw \in {None, <<>>}
       \/ binary /\ s.tensor.data = None /\ s.tensor.raw # None /\ s.tensor.size # None
       \/ ~binary /\ s.tensor.data # None /\ s.tensor.raw = None /\ s.tensor.size = None

\* set_data_from_numpy, either way.
LEMMA SetDataDoes ==
  ASSUME NEW t \in TensorSet, NEW es \in Arrays, NEW binary \in BOOLEAN
  PROVE  LET s == SetData(t, es, binary)
         IN /\ ShownAs(s, t, binary)
            /\ IF binary THEN Binaried(s, t, es) ELSE Texted(s, t, es)
<1> DEFINE s == SetData(t, es, binary)
<1>1. CASE binary
  <2>1. Binaried(s, t, es)
    BY <1>1, SetBinaryDoes DEF SetData
  <2>2. Bytes(t.datatype, es) # None /\ Len(Bytes(t.datatype, es)) # None
    BY TensorHas, BytesAre, Nothing
  <2> HIDE DEF s
  <2> QED
    BY <1>1, <2>1, <2>2 DEF Binaried, ShownAs, s
<1>2. CASE ~binary
  <2>1. Texted(s, t, es)
    BY <1>2, SetTextDoes DEF SetData
  <2> HIDE DEF s
  <2> QED
    BY <1>2, <2>1 DEF Texted, ShownAs, s
<1> QED
  BY <1>1, <1>2

\* A tensor before it is written: the types.
LEMMA ShownTyped ==
  ASSUME NEW t \in TensorSet, NEW binary \in BOOLEAN
  PROVE  ShownAs(Shown(t, binary), t, binary)
<1> DEFINE s == Shown(t, binary)
<1>1. CASE Is(t.data, "array")
  <2>1. s = SetData(t, t.data.elements, binary) /\ t.data.elements \in Arrays
    BY <1>1, TensorHas DEF Shown, Is
  <2> QED
    BY <2>1, SetDataDoes
<1>2. CASE ~Is(t.data, "array") /\ Empty(t.data) /\ t.raw \in {None, <<>>}
  <2>1. s = Done(t)
    BY <1>2 DEF Shown
  <2> HIDE DEF s
  <2> QED
    BY <1>2, <2>1 DEF Done, ShownAs, Same, s
<1>3. CASE ~Is(t.data, "array") /\ ~(Empty(t.data) /\ t.raw \in {None, <<>>}) /\ AsNumpy(t) = Error
  <2>1. s = Failed(t)
    BY <1>3 DEF Shown
  <2> HIDE DEF s
  <2> QED
    BY <1>3, <2>1 DEF Failed, ShownAs, Same, s
<1>4. CASE ~Is(t.data, "array") /\ ~(Empty(t.data) /\ t.raw \in {None, <<>>}) /\ AsNumpy(t) # Error
  <2>1. s = SetData(t, AsNumpy(t), binary) /\ AsNumpy(t) \in Arrays
    BY <1>4, AsNumpyTyped DEF Shown
  <2> QED
    BY <2>1, SetDataDoes
<1> QED
  BY <1>1, <1>2, <1>3, <1>4

\* It has the elements it had.
LEMMA ShownCarries ==
  ASSUME NEW t \in TensorSet, NEW binary \in BOOLEAN, NEW r \in Given, Carries(t, r)
  PROVE  LET s == Shown(t, binary)
         IN /\ s.ok => Carries(s.tensor, r)
            /\ binary \/ HasText(r) => s.ok
            /\ r.elements # <<>> /\ s.ok /\ binary => s.tensor.data = None /\ s.tensor.raw # None /\ s.tensor.size # None
            /\ r.elements # <<>> /\ s.ok /\ ~binary => s.tensor.data # None /\ s.tensor.raw = None /\ s.tensor.size = None
<1> DEFINE s == Shown(t, binary)
<1>0. r.elements \in Arrays /\ r.elements # Error /\ AsNumpy(t) = r.elements /\ SameHead(t, r)
  BY GivenHas, Nothing, CarriesIsRead DEF Carries
<1>1. ShownAs(s, t, binary)
  BY ShownTyped
<1>2. CASE ~Is(t.data, "array") /\ Empty(t.data) /\ t.raw \in {None, <<>>}
  <2>1. s = Done(t)
    BY <1>2 DEF Shown
  <2>2. s.ok /\ s.tensor = t
    BY <2>1 DEF Done
  <2> HIDE DEF s
  <2>3. r.elements = <<>>
    <3>1. CASE t.raw = None
      BY <1>2, <3>1, RawBack, Nothing DEF Carries, Empty
    <3>2. CASE t.raw = <<>>
      <4>1. <<>> # None
        BY Nothing, EmptySeq
      <4> QED
        BY <3>2, <4>1, RawEmpty DEF Carries
    <3> QED
      BY <1>2, <3>1, <3>2
  <2> QED
    BY <2>2, <2>3 DEF s
<1>3. CASE ~(~Is(t.data, "array") /\ Empty(t.data) /\ t.raw \in {None, <<>>})
  <2>1. s = SetData(t, r.elements, binary)
    <3>1. Is(t.data, "array") => t.data.elements = r.elements
      BY DEF Is, Carries
    <3> QED
      BY <1>0, <1>3, <3>1 DEF Shown
  <2> HIDE DEF s
  <2>2. IF binary THEN Binaried(s, t, r.elements) ELSE Texted(s, t, r.elements)
    BY <1>0, <2>1, SetDataDoes
  <2>3. CASE binary
    <3>1. Binaried(s, t, r.elements)
      BY <2>2, <2>3
    <3>2. Carries(s.tensor, r)
      BY <1>0, <3>1, BinariedCarries
    <3>3. s.ok /\ s.tensor.data = None /\ s.tensor.raw # None /\ s.tensor.size # None
      <4>1. Bytes(t.datatype, r.elements) # None /\ Len(Bytes(t.datatype, r.elements)) # None
        BY <1>0, TensorHas, BytesAre, Nothing
      <4> QED
        BY <3>1, <4>1 DEF Binaried
    <3> QED
      BY <2>3, <3>2, <3>3 DEF s
  <2>4. CASE ~binary
    <3>1. Texted(s, t, r.elements)
      BY <2>2, <2>4
    <3>2. IF s.ok THEN Carries(s.tensor, r) ELSE ~HasText(r) /\ Torn(s.tensor, r)
      BY <1>0, <3>1, TextedCarries
    <3>3. s.tensor.data # None /\ s.tensor.raw = None /\ s.tensor.size = None
      BY <3>1 DEF Texted
    <3> QED
      BY <2>4, <3>2, <3>3 DEF s
  <2> QED
    BY <2>3, <2>4
<1> QED
  BY <1>2, <1>3

-----------------------------------------------------------------------------
(* One output.                                                             *)

\* OutputToRest, by the tensor before it is written.
LEMMA OutputToRestIs ==
  ASSUME NEW t, NEW binary, NEW s, s = Shown(t, binary)
  PROVE  OutputToRest(t, binary) =
           IF t.data = None /\ t.raw = None THEN Failed(t)
           ELSE IF \/ ~s.ok
                   \/ s.tensor.datatype = "FP16" /\ ~Empty(s.tensor.data)
                   \/ binary /\ s.tensor.raw = None
           THEN Failed(s.tensor)
           ELSE IF binary THEN Wrote(s.tensor, None, s.tensor.raw) ELSE Wrote(s.tensor, Values(s.tensor.data), None)
BY DEF OutputToRest, Shown

\* What OutputToRest makes of t.
RestOutput(x, t, binary) ==
  /\ StepTyped(x, t)
  /\ x.ok => /\ x.raw # None <=> binary
             /\ binary => x.wire.data = None

\* to_rest for one output: the types, and binary data exactly if asked for.
LEMMA OutputToRestTyped ==
  ASSUME NEW t \in TensorSet, NEW binary \in BOOLEAN
  PROVE  RestOutput(OutputToRest(t, binary), t, binary)
<1> DEFINE s == Shown(t, binary)
           u == s.tensor
           x == OutputToRest(t, binary)
<1>1. ShownAs(s, t, binary)
  BY ShownTyped
<1>2. \/ x = Failed(t)
      \/ x = Failed(u)
      \/ s.ok /\ binary /\ u.raw # None /\ x = Wrote(u, None, u.raw)
      \/ s.ok /\ ~binary /\ (u.datatype = "FP16" => Empty(u.data)) /\ x = Wrote(u, Values(u.data), None)
  <2>1. s = Shown(t, binary)
    OBVIOUS
  <2> HIDE DEF s
  <2> QED
    BY <2>1, OutputToRestIs
<1> HIDE DEF s, x
<1>3. u \in TensorSet /\ Same(u, t) /\ Same(t, t)
  BY <1>1 DEF ShownAs, Same
<1> HIDE DEF u
<1>4. CASE x = Failed(t) \/ x = Failed(u)
  <2>1. StepTyped(x, t) /\ ~x.ok
    BY <1>3, <1>4, FailedTyped DEF Failed
  <2> QED
    BY <2>1 DEF RestOutput, x
<1>5. CASE s.ok /\ binary /\ u.raw # None /\ x = Wrote(u, None, u.raw)
  <2>1. StepTyped(x, t) /\ x.ok /\ x.raw = u.raw /\ x.wire = OnWire(u, None)
    <3>1. u.raw \in Seq(Nat) \cup {None} /\ None \in Arrays \cup {None}
      BY <1>3, TensorHas
    <3>2. /\ StepTyped(Wrote(u, None, u.raw), t)
          /\ Wrote(u, None, u.raw).ok /\ Wrote(u, None, u.raw).raw = u.raw
          /\ Wrote(u, None, u.raw).wire = OnWire(u, None)
      BY <1>3, <3>1, WroteTyped
    <3> QED
      BY <1>5, <3>2
  <2>2. OnWire(u, None).data = None
    BY OnWireHas
  <2> QED
    BY <1>5, <2>1, <2>2 DEF RestOutput, x
<1>6. CASE s.ok /\ ~binary /\ (u.datatype = "FP16" => Empty(u.data)) /\ x = Wrote(u, Values(u.data), None)
  <2>1. Values(u.data) \in Arrays \cup {None} /\ (u.datatype = "FP16" => Values(u.data) \in {None, <<>>})
    BY <1>3, <1>6, TensorHas DEF Values, Empty
  <2>2. StepTyped(x, t) /\ x.ok /\ x.raw = None
    BY <1>3, <1>6, <2>1, WroteTyped
  <2> QED
    BY <1>6, <2>2 DEF RestOutput, x
<1> QED
  BY <1>2, <1>4, <1>5, <1>6

\* What a message says of a tensor that carries r.
Sends(x, r) == WireCarries(x.wire, r) /\ Bits(x.raw) = Part(x.wire, r)

\* to_rest for one output writes its elements.
LEMMA OutputToRestSends ==
  ASSUME NEW t \in TensorSet, NEW binary \in BOOLEAN, NEW r \in Given, Carries(t, r), OutputToRest(t, binary).ok
  PROVE  Sends(OutputToRest(t, binary), r)
<1> DEFINE s == Shown(t, binary)
           u == s.tensor
           x == OutputToRest(t, binary)
<1>1. ShownAs(s, t, binary) /\ (s.ok => Carries(u, r))
  BY ShownTyped, ShownCarries
<1>2. \/ x = Failed(t)
      \/ x = Failed(u)
      \/ s.ok /\ binary /\ u.raw # None /\ x = Wrote(u, None, u.raw)
      \/ s.ok /\ ~binary /\ (u.datatype = "FP16" => Empty(u.data)) /\ x = Wrote(u, Values(u.data), None)
  <2>1. s = Shown(t, binary)
    OBVIOUS
  <2> HIDE DEF s
  <2> QED
    BY <2>1, OutputToRestIs
<1>3. x.ok
  OBVIOUS
<1> HIDE DEF s, x
<1>4. u \in TensorSet
  BY <1>1 DEF ShownAs
<1>5. s.ok /\ ~binary => u.raw \in {None, <<>>}
  BY <1>1 DEF ShownAs
<1> HIDE DEF u
<1>6. CASE x = Failed(t) \/ x = Failed(u)
  BY <1>3, <1>6 DEF Failed
<1>7. CASE s.ok /\ binary /\ u.raw # None /\ x = Wrote(u, None, u.raw)
  <2>1. x.raw = u.raw /\ x.wire = OnWire(u, None)
    BY <1>7 DEF Wrote
  <2> QED
    BY <1>1, <1>7, <2>1, RawIsSent DEF Sends, x
<1>8. CASE s.ok /\ ~binary /\ x = Wrote(u, Values(u.data), None)
  <2>1. x.raw = None /\ x.wire = OnWire(u, Values(u.data))
    BY <1>8 DEF Wrote
  <2> QED
    BY <1>1, <1>4, <1>5, <1>8, <2>1, DataIsSent DEF Sends, x
<1> QED
  BY <1>2, <1>6, <1>7, <1>8

\* What OutputToGrpc makes of t.
GrpcOutput(x, t) ==
  /\ StepTyped(x, t)
  /\ x.ok => (x.raw = None <=> x.wire.data # None)

\* to_grpc for one output: the types, and raw contents if it is to have some.
LEMMA OutputToGrpcTyped ==
  ASSUME NEW t \in TensorSet, NEW raw \in BOOLEAN
  PROVE  /\ GrpcOutput(OutputToGrpc(t, raw), t)
         /\ t.data = None /\ t.raw # None => OutputToGrpc(t, raw).ok /\ OutputToGrpc(t, raw).raw # None
<1> DEFINE x == OutputToGrpc(t, raw)
           s == SetBinary(t, AsNumpy(t))
           u == s.tensor
<1>0. Same(t, t)
  BY DEF Same
<1>1. CASE x = Failed(t)
  <2>1. StepTyped(x, t) /\ ~x.ok
    BY <1>0, <1>1, FailedTyped DEF Failed
  <2>2. ~(t.data = None /\ t.raw # None)
    <3>1. ASSUME t.data = None, t.raw # None  PROVE x.ok
      <4>1. x = TensorToGrpc(t)
        BY <3>1 DEF OutputToGrpc, InputToGrpc, Is, Empty
      <4>2. x = Wrote(t, None, t.raw)
        BY <3>1, <4>1 DEF TensorToGrpc
      <4> QED
        BY <4>2 DEF Wrote
    <3> QED
      BY <2>1, <3>1
  <2> QED
    BY <2>1, <2>2 DEF GrpcOutput
<1>2. CASE AsNumpy(t) # Error /\ ~Empty(t.data) /\ x = TensorToGrpc(u)
  <2>0. t.data # None
    BY <1>2 DEF Empty
  <2>1. Binaried(s, t, AsNumpy(t))
    BY <1>2, AsNumpyTyped, SetBinaryDoes
  <2> HIDE DEF s, x
  <2>2. u \in TensorSet /\ Same(u, t)
    BY <2>1 DEF Binaried
  <2> HIDE DEF u
  <2>3. StepTyped(TensorToGrpc(u), u) => StepTyped(TensorToGrpc(u), t)
    BY <2>2 DEF StepTyped, Same
  <2> QED
    BY <1>2, <2>0, <2>2, <2>3, TensorToGrpcTyped DEF GrpcOutput, x
<1>3. CASE x = InputToGrpc(t)
  <2>1. GrpcOutput(x, t)
    BY <1>3, InputToGrpcTyped DEF GrpcOutput
  <2>2. ASSUME t.data = None, t.raw # None  PROVE x.ok /\ x.raw # None
    <3>1. x = TensorToGrpc(t)
      BY <1>3, <2>2 DEF InputToGrpc, Is
    <3>2. x = Wrote(t, None, t.raw)
      BY <2>2, <3>1 DEF TensorToGrpc
    <3> QED
      BY <2>2, <3>2 DEF Wrote
  <2> QED
    BY <2>1, <2>2
<1>4. \/ x = Failed(t)
      \/ AsNumpy(t) # Error /\ ~Empty(t.data) /\ x = TensorToGrpc(u)
      \/ x = InputToGrpc(t)
  BY DEF OutputToGrpc
<1> QED
  BY <1>1, <1>2, <1>3, <1>4

\* to_grpc for one output writes its elements.
LEMMA OutputToGrpcSends ==
  ASSUME NEW t \in TensorSet, NEW raw \in BOOLEAN, NEW r \in Given, Carries(t, r), OutputToGrpc(t, raw).ok
  PROVE  Sends(OutputToGrpc(t, raw), r)
<1> DEFINE x == OutputToGrpc(t, raw)
           s == SetBinary(t, AsNumpy(t))
           u == s.tensor
<1>1. CASE x = Failed(t)
  BY <1>1 DEF Failed
<1>2. CASE x = TensorToGrpc(u)
  <2>1. AsNumpy(t) = r.elements /\ r.elements \in Arrays /\ SameHead(t, r)
    BY GivenHas, CarriesIsRead DEF Carries
  <2>2. Binaried(s, t, r.elements)
    BY <2>1, SetBinaryDoes
  <2> HIDE DEF s
  <2>3. u \in TensorSet /\ Carries(u, r)
    BY <2>1, <2>2, BinariedCarries DEF Binaried
  <2> HIDE DEF u
  <2>4. StepCarries(TensorToGrpc(u), r)
    BY <2>3, TensorToGrpcConveys DEF Conveys
  <2> QED
    BY <1>2, <2>4 DEF StepCarries, Sends
<1>3. CASE x = InputToGrpc(t)
  <2>1. StepCarries(InputToGrpc(t), r)
    BY InputToGrpcConveys DEF Conveys
  <2> QED
    BY <1>3, <2>1 DEF StepCarries, Sends
<1>4. x = Failed(t) \/ x = TensorToGrpc(u) \/ x = InputToGrpc(t)
  BY DEF OutputToGrpc
<1> QED
  BY <1>1, <1>2, <1>3, <1>4

\* The fields of a response.
LEMMA ResponseHas ==
  ASSUME NEW q \in ResponseSet
  PROVE  /\ q.tensors \in Seq(TensorSet) /\ q.binary \in BOOLEAN /\ q.outputs \in AskedSet
         /\ Len(q.tensors) \in Nat /\ DOMAIN q.tensors = 1..Len(q.tensors)
         /\ \A i \in DOMAIN q.tensors : q.tensors[i] \in TensorSet
<1>1. q.tensors \in Seq(TensorSet) /\ q.binary \in BOOLEAN /\ q.outputs \in AskedSet
  BY DEF ResponseSet
<1> QED
  BY <1>1, LenProperties, ElementOfSeq

\* The fields of the outputs asked for.
LEMMA AskedHas ==
  ASSUME NEW asked \in AskedSet, asked # None
  PROVE  /\ Len(asked) \in Nat /\ DOMAIN asked = 1..Len(asked)
         /\ \A i \in DOMAIN asked : asked[i].binary \in {TRUE, FALSE, None}
<1> DEFINE A == [name : STRING, binary : {TRUE, FALSE, None}]
<1>1. asked \in Seq(A)
  BY DEF AskedSet
<1>2. \A a \in A : a.binary \in {TRUE, FALSE, None}
  OBVIOUS
<1> HIDE DEF A
<1> QED
  BY <1>1, <1>2, LenProperties, ElementOfSeq

\* get_output_by_name finds an output of that name, or none has it.
LEMMA ByNameIs ==
  ASSUME NEW ts \in Seq(TensorSet), NEW name
  PROVE  /\ ByName(ts, name) # None =>
              \E j \in DOMAIN ts : ByName(ts, name) = ts[j] /\ ts[j].name = name
         /\ (\E j \in DOMAIN ts : ts[j].name = name) => ByName(ts, name) # None
<1> DEFINE named == {i \in DOMAIN ts : ts[i].name = name}
<1>0. DOMAIN ts = 1..Len(ts) /\ Len(ts) \in Nat /\ \A j \in DOMAIN ts : ts[j] \in TensorSet /\ ts[j] # None
  BY LenProperties, ElementOfSeq, OpenAssumption
<1>1. ByName(ts, name) = IF named = {} THEN None ELSE ts[Min(named)]
  BY DEF ByName
<1>2. named \in SUBSET Nat
  BY <1>0
<1>3. named # {} => Min(named) \in named
  <2> HIDE DEF named
  <2> QED
    BY <1>2, MinIsLeast
<1>4. named # {} => Min(named) \in DOMAIN ts /\ ts[Min(named)].name = name
  BY <1>3
<1>5. (\E j \in DOMAIN ts : ts[j].name = name) => named # {}
  OBVIOUS
<1> HIDE DEF named
<1> QED
  BY <1>0, <1>1, <1>4, <1>5

\* The outputs S to send of the response q.
Picks(S, q, N) ==
  /\ N \in Nat /\ DOMAIN S = 1..N
  /\ q.outputs = None => N = Len(q.tensors)
  /\ q.outputs # None => N = Len(q.outputs)
  /\ \A i \in 1..N :
       /\ S[i].binary \in BOOLEAN
       /\ S[i].binary <=> (IF q.outputs = None THEN q.binary ELSE q.outputs[i].binary = TRUE)
       /\ S[i].tensor # None =>
            \E j \in DOMAIN q.tensors :
              S[i].tensor = q.tensors[j] /\ (q.outputs # None => q.tensors[j].name = q.outputs[i].name)

\* The outputs to send are outputs of the response.
LEMMA SelectedIs ==
  ASSUME NEW q \in ResponseSet
  PROVE  \E N \in Nat : Picks(Selected(q), q, N)
<1> DEFINE S == Selected(q)
<1>1. CASE q.outputs = None
  <2>1. S = [i \in DOMAIN q.tensors |-> [tensor |-> q.tensors[i], binary |-> q.binary]]
    BY <1>1 DEF Selected
  <2>2. q.binary \in BOOLEAN /\ Len(q.tensors) \in Nat /\ DOMAIN q.tensors = 1..Len(q.tensors)
    BY ResponseHas
  <2>3. DOMAIN S = 1..Len(q.tensors) /\ \A i \in 1..Len(q.tensors) : S[i].tensor = q.tensors[i] /\ S[i].binary = q.binary
    BY <2>1, <2>2
  <2> HIDE DEF S
  <2>4. Picks(S, q, Len(q.tensors))
    BY <1>1, <2>2, <2>3 DEF Picks
  <2> QED
    BY <2>2, <2>4 DEF S
<1>2. CASE q.outputs # None
  <2>1. S = [i \in DOMAIN q.outputs |-> [tensor |-> ByName(q.tensors, q.outputs[i].name),
                                         binary |-> q.outputs[i].binary = TRUE]]
    BY <1>2 DEF Selected
  <2>2. Len(q.outputs) \in Nat /\ DOMAIN q.outputs = 1..Len(q.outputs)
    BY <1>2, ResponseHas, AskedHas
  <2>3. DOMAIN S = 1..Len(q.outputs)
        /\ \A i \in 1..Len(q.outputs) : /\ S[i].tensor = ByName(q.tensors, q.outputs[i].name)
                                        /\ S[i].binary = (q.outputs[i].binary = TRUE)
    BY <2>1, <2>2
  <2> HIDE DEF S
  <2>4. \A i \in 1..Len(q.outputs) : S[i].tensor # None =>
            \E j \in DOMAIN q.tensors : S[i].tensor = q.tensors[j] /\ q.tensors[j].name = q.outputs[i].name
    BY <2>3, ResponseHas, ByNameIs
  <2>5. Picks(S, q, Len(q.outputs))
    BY <1>2, <2>2, <2>3, <2>4 DEF Picks
  <2> QED
    BY <2>2, <2>5 DEF S
<1> QED
  BY <1>1, <1>2

-----------------------------------------------------------------------------
(* The steps of a reply.                                                   *)

RestStep(s) == IF s.tensor = None THEN Failed(None) ELSE OutputToRest(s.tensor, s.binary)
RestSteps(q) == [i \in DOMAIN Selected(q) |-> RestStep(Selected(q)[i])]
RawWanted(q) == q.binary \/ \E i \in DOMAIN q.tensors : q.tensors[i].datatype = "FP16"
GrpcSteps(q) == [i \in DOMAIN q.tensors |-> OutputToGrpc(q.tensors[i], RawWanted(q))]

\* What is written of N steps, of which none failed.
WrittenRight(m, steps, N) ==
  /\ m \in ResponseMessages /\ Together(m, steps, N)
  /\ \A i \in 1..N : steps[i].ok /\ steps[i].wire.datatype = "FP16" => steps[i].wire.data \in {None, <<>>}

\* ResponseToRest and ResponseToGrpc, by their steps.
LEMMA RepliesAre ==
  ASSUME NEW q
  PROVE  /\ ResponseToRest(q) # Error => AllOk(RestSteps(q)) /\ ResponseToRest(q) = Written(RestSteps(q))
         /\ ResponseToRest(q) = Error =>
              \/ ~AllOk(RestSteps(q))
              \/ /\ Written(RestSteps(q)).raws = <<>>
                 /\ \E i \in DOMAIN Written(RestSteps(q)).tensors : Written(RestSteps(q)).tensors[i].data = None
              \/ Error = Written(RestSteps(q))
         /\ ResponseToGrpc(q) # Error => AllOk(GrpcSteps(q)) /\ ResponseToGrpc(q) = Written(GrpcSteps(q))
         /\ ResponseToGrpc(q) = Error => ~AllOk(GrpcSteps(q)) \/ Error = Written(GrpcSteps(q))
<1>1. ResponseToRest(q) =
        IF ~AllOk(RestSteps(q)) \/ (Written(RestSteps(q)).raws = <<>> /\
              \E i \in DOMAIN Written(RestSteps(q)).tensors : Written(RestSteps(q)).tensors[i].data = None)
        THEN Error ELSE Written(RestSteps(q))
  BY DEF ResponseToRest, RestSteps, RestStep
<1>2. ResponseToGrpc(q) = IF AllOk(GrpcSteps(q)) THEN Written(GrpcSteps(q)) ELSE Error
  BY DEF ResponseToGrpc, GrpcSteps, RawWanted
<1> QED
  BY <1>1, <1>2

\* A reply of steps that wrote is a message.
LEMMA WrittenIsRight ==
  ASSUME NEW N \in Nat, NEW steps, DOMAIN steps = 1..N, steps = [i \in DOMAIN steps |-> steps[i]], AllOk(steps),
         \A i \in 1..N : steps[i].ok => /\ steps[i].wire \in WireSet /\ steps[i].raw \in Seq(Nat) \cup {None}
                                        /\ steps[i].wire.datatype = "FP16" => steps[i].wire.data \in {None, <<>>}
  PROVE  WrittenRight(Written(steps), steps, N)
<1>1. \A i \in 1..N : steps[i].ok
  BY DEF AllOk
<1>2. Together(Written(steps), steps, N)
  BY <1>1, WrittenDoes
<1>3. Written(steps).tensors \in Seq(WireSet) /\ Written(steps).raws \in Arrays
  BY <1>2 DEF Together
<1>4. Written(steps) = [tensors |-> Written(steps).tensors, raws |-> Written(steps).raws]
  BY DEF Written
<1>5. Written(steps) \in ResponseMessages
  BY <1>3, <1>4 DEF ResponseMessages
<1> QED
  BY <1>1, <1>2, <1>5 DEF WrittenRight

\* One step of a reply over REST, for the output that S picks.
LEMMA RestStepDoes ==
  ASSUME NEW q \in ResponseSet, NEW N \in Nat, NEW S, Picks(S, q, N), NEW i \in 1..N
  PROVE  LET x == RestStep(S[i])
         IN x.ok => /\ S[i].tensor # None /\ RestOutput(x, S[i].tensor, S[i].binary)
                    /\ x.wire.name = S[i].tensor.name
<1> DEFINE x == RestStep(S[i])
<1>1. CASE S[i].tensor = None
  <2>1. x = Failed(None)
    BY <1>1 DEF RestStep
  <2> QED
    BY <2>1 DEF Failed
<1>2. CASE S[i].tensor # None
  <2>1. PICK j \in DOMAIN q.tensors : S[i].tensor = q.tensors[j]
    BY <1>2 DEF Picks
  <2>2. S[i].tensor \in TensorSet /\ S[i].binary \in BOOLEAN
    BY <2>1, ResponseHas DEF Picks
  <2>3. x = OutputToRest(S[i].tensor, S[i].binary)
    BY <1>2 DEF RestStep
  <2>4. RestOutput(x, S[i].tensor, S[i].binary)
    BY <2>2, <2>3, OutputToRestTyped
  <2> HIDE DEF x
  <2> QED
    BY <1>2, <2>4 DEF RestOutput, StepTyped, x
<1> QED
  BY <1>1, <1>2

\* A reply over REST has the outputs asked for.
AsAsked(m, q) ==
  /\ q.outputs # None =>
       [i \in DOMAIN m.tensors |-> m.tensors[i].name] = [i \in DOMAIN q.outputs |-> q.outputs[i].name]
  /\ Len(m.raws) = Cardinality({i \in DOMAIN m.tensors :
                      IF q.outputs = None THEN q.binary ELSE q.outputs[i].binary = TRUE})

\* to_rest of a response: its form, and what was asked for.
LEMMA RestReply ==
  ASSUME NEW q \in ResponseSet, ResponseToRest(q) # Error
  PROVE  LET m == ResponseToRest(q)
         IN m \in ResponseMessages /\ MessageForm(m, "rest") /\ AsAsked(m, q)
<1> DEFINE S == Selected(q)
           steps == RestSteps(q)
           m == ResponseToRest(q)
<1>1. PICK N \in Nat : Picks(S, q, N)
  BY SelectedIs
<1>2. AllOk(steps) /\ m = Written(steps)
  BY RepliesAre
<1>3. DOMAIN steps = 1..N /\ steps = [i \in DOMAIN steps |-> steps[i]] /\ \A i \in 1..N : steps[i] = RestStep(S[i])
  BY <1>1 DEF Picks, RestSteps
<1> HIDE DEF S, steps, m
<1>4. \A i \in 1..N : steps[i].ok => /\ S[i].tensor # None /\ RestOutput(steps[i], S[i].tensor, S[i].binary)
                                     /\ steps[i].wire.name = S[i].tensor.name
  BY <1>1, <1>3, RestStepDoes
<1>5. WrittenRight(m, steps, N)
  BY <1>2, <1>3, <1>4, WrittenIsRight DEF RestOutput, StepTyped
<1>6. \A i \in 1..N : steps[i].ok
  BY <1>2, <1>3 DEF AllOk
<1>7. Together(m, steps, N) /\ m \in ResponseMessages
      /\ \A i \in 1..N : steps[i].wire.datatype = "FP16" => steps[i].wire.data \in {None, <<>>}
  BY <1>5, <1>6 DEF WrittenRight
<1>8. MessageForm(m, "rest")
  BY <1>7, FormOfWritten
<1>9. DOMAIN m.tensors = 1..N /\ (\A i \in 1..N : m.tensors[i] = steps[i].wire)
      /\ Len(m.raws) = Cardinality({i \in 1..N : steps[i].raw # None})
  BY <1>7 DEF Together
<1>10. \A i \in 1..N : steps[i].raw # None <=> (IF q.outputs = None THEN q.binary ELSE q.outputs[i].binary = TRUE)
  <2>1. \A i \in 1..N : steps[i].raw # None <=> S[i].binary
    BY <1>4, <1>6 DEF RestOutput
  <2>2. \A i \in 1..N : S[i].binary <=> (IF q.outputs = None THEN q.binary ELSE q.outputs[i].binary = TRUE)
    BY <1>1 DEF Picks
  <2> QED
    BY <2>1, <2>2
<1>11. Len(m.raws) = Cardinality({i \in DOMAIN m.tensors :
                        IF q.outputs = None THEN q.binary ELSE q.outputs[i].binary = TRUE})
  <2> DEFINE A == {i \in 1..N : steps[i].raw # None}
             B == {i \in DOMAIN m.tensors : IF q.outputs = None THEN q.binary ELSE q.outputs[i].binary = TRUE}
  <2>1. \A i : i \in A <=> i \in B
    BY <1>9, <1>10
  <2> HIDE DEF A, B
  <2>2. A = B
    BY <2>1
  <2> QED
    BY <1>9, <2>2 DEF A, B
<1>12. ASSUME q.outputs # None
       PROVE  [i \in DOMAIN m.tensors |-> m.tensors[i].name] = [i \in DOMAIN q.outputs |-> q.outputs[i].name]
  <2>1. DOMAIN q.outputs = 1..N
    BY <1>1, <1>12, ResponseHas, AskedHas DEF Picks
  <2>2. \A i \in 1..N : S[i].tensor # None => S[i].tensor.name = q.outputs[i].name
    BY <1>1, <1>12 DEF Picks
  <2>3. \A i \in 1..N : m.tensors[i].name = q.outputs[i].name
    BY <1>4, <1>6, <1>9, <2>2
  <2> QED
    BY <1>9, <2>1, <2>3
<1> QED
  BY <1>7, <1>8, <1>11, <1>12 DEF AsAsked, m

\* Some of the outputs rs, as Chosen says.
SomeOf(qs, rs) == qs \in Seq(Given) /\ \A i \in DOMAIN qs : \E j \in DOMAIN rs : qs[i] = rs[j]

\* Steps that wrote the elements make a message that carries them.
LEMMA MessageOfSteps ==
  ASSUME NEW N \in Nat, NEW steps, NEW m, NEW protocol, Together(m, steps, N),
         NEW rs \in Seq(Given), DOMAIN rs = 1..N,
         \A i \in 1..N : Sends(steps[i], rs[i]),
         protocol # "rest" => \A i \in 1..N : (steps[i].raw = None <=> steps[i].wire.data # None)
  PROVE  MessageIntact(m, rs, protocol)
<1>1. RawsRight(m, rs, protocol)
  BY RawsOfWritten DEF Sends
<1>2. DOMAIN m.tensors = DOMAIN rs /\ \A i \in DOMAIN rs : WireCarries(m.tensors[i], rs[i])
  BY DEF Together, Sends
<1> QED
  BY <1>1, <1>2 DEF MessageIntact

\* to_rest of a response carries the outputs it selects.
LEMMA RestReplyIntact ==
  ASSUME NEW q \in ResponseSet, ResponseToRest(q) # Error, NEW qs \in Seq(Given), Intact(q.tensors, qs)
  PROVE  \E rs : SomeOf(rs, qs) /\ MessageIntact(ResponseToRest(q), rs, "rest")
<1> DEFINE S == Selected(q)
           steps == RestSteps(q)
           m == ResponseToRest(q)
<1>1. PICK N \in Nat : Picks(S, q, N)
  BY SelectedIs
<1>2. AllOk(steps) /\ m = Written(steps)
  BY RepliesAre
<1>3. DOMAIN steps = 1..N /\ steps = [i \in DOMAIN steps |-> steps[i]] /\ \A i \in 1..N : steps[i] = RestStep(S[i])
  BY <1>1 DEF Picks, RestSteps
<1> HIDE DEF S, steps, m
<1>4. \A i \in 1..N : steps[i].ok => S[i].tensor # None /\ RestOutput(steps[i], S[i].tensor, S[i].binary)
  BY <1>1, <1>3, RestStepDoes
<1>5. WrittenRight(m, steps, N)
  BY <1>2, <1>3, <1>4, WrittenIsRight DEF RestOutput, StepTyped
<1>6. \A i \in 1..N : steps[i].ok
  BY <1>2, <1>3 DEF AllOk
<1>7. Together(m, steps, N)
  BY <1>5 DEF WrittenRight
<1>8. DOMAIN q.tensors = DOMAIN qs /\ \A j \in DOMAIN qs : qs[j] \in Given /\ Carries(q.tensors[j], qs[j])
  <2>1. DOMAIN qs = 1..Len(qs)
    BY LenProperties
  <2> QED
    BY <2>1, ElementOfSeq DEF Intact
<1> DEFINE from(i) == CHOOSE j \in DOMAIN q.tensors : S[i].tensor = q.tensors[j]
           rs == [i \in 1..N |-> qs[from(i)]]
<1>9. \A i \in 1..N : from(i) \in DOMAIN q.tensors /\ S[i].tensor = q.tensors[from(i)] /\ S[i].binary \in BOOLEAN
  <2> TAKE i \in 1..N
  <2>1. \E j \in DOMAIN q.tensors : S[i].tensor = q.tensors[j]
    BY <1>1, <1>4, <1>6 DEF Picks
  <2>2. S[i].binary \in BOOLEAN
    BY <1>1 DEF Picks
  <2> QED
    BY <2>1, <2>2
<1> HIDE DEF from
<1>10. rs \in Seq(Given) /\ DOMAIN rs = 1..N /\ \A i \in 1..N : rs[i] = qs[from(i)]
  BY <1>8, <1>9
<1> HIDE DEF rs
<1>11. \A i \in 1..N : Sends(steps[i], rs[i])
  <2> TAKE i \in 1..N
  <2> DEFINE t == S[i].tensor
  <2>1. t \in TensorSet /\ t # None /\ Carries(t, rs[i]) /\ rs[i] \in Given /\ S[i].binary \in BOOLEAN
    BY <1>4, <1>6, <1>8, <1>9, <1>10, ResponseHas
  <2>2. steps[i] = OutputToRest(t, S[i].binary)
    BY <1>3, <2>1 DEF RestStep
  <2> HIDE DEF t
  <2> QED
    BY <1>6, <2>1, <2>2, OutputToRestSends
<1>12. MessageIntact(m, rs, "rest")
  BY <1>7, <1>10, <1>11, MessageOfSteps
<1>13. SomeOf(rs, qs)
  BY <1>8, <1>9, <1>10 DEF SomeOf
<1> QED
  BY <1>12, <1>13 DEF m

\* to_grpc of a response: its form, and it carries the outputs.
LEMMA GrpcReply ==
  ASSUME NEW q \in ResponseSet, ResponseToGrpc(q) # Error
  PROVE  LET m == ResponseToGrpc(q)
         IN /\ m \in ResponseMessages /\ MessageForm(m, "grpc") /\ Len(m.tensors) = Len(q.tensors)
            /\ (\A i \in DOMAIN q.tensors : q.tensors[i].data = None /\ q.tensors[i].raw # None)
                 => Len(m.raws) = Len(m.tensors)
            /\ \A rs \in Seq(Given) : Intact(q.tensors, rs) => MessageIntact(m, rs, "grpc")
<1> DEFINE N == Len(q.tensors)
           steps == GrpcSteps(q)
           m == ResponseToGrpc(q)
           raw == RawWanted(q)
<1>0. N \in Nat /\ DOMAIN q.tensors = 1..N /\ (\A i \in 1..N : q.tensors[i] \in TensorSet) /\ raw \in BOOLEAN
  BY ResponseHas DEF RawWanted
<1>2. AllOk(steps) /\ m = Written(steps)
  BY RepliesAre
<1>3. DOMAIN steps = 1..N /\ steps = [i \in DOMAIN steps |-> steps[i]] /\ \A i \in 1..N : steps[i] = OutputToGrpc(q.tensors[i], raw)
  BY <1>0 DEF GrpcSteps
<1> HIDE DEF steps, m, N, raw
<1>4. \A i \in 1..N : /\ GrpcOutput(steps[i], q.tensors[i])
                      /\ q.tensors[i].data = None /\ q.tensors[i].raw # None => steps[i].raw # None
  BY <1>0, <1>3, OutputToGrpcTyped
<1>5. WrittenRight(m, steps, N)
  BY <1>0, <1>2, <1>3, <1>4, WrittenIsRight DEF GrpcOutput, StepTyped
<1>6. \A i \in 1..N : steps[i].ok /\ (steps[i].raw = None <=> steps[i].wire.data # None)
  BY <1>2, <1>3, <1>4 DEF AllOk, GrpcOutput
<1>7. Together(m, steps, N) /\ m \in ResponseMessages
      /\ \A i \in 1..N : steps[i].wire.datatype = "FP16" => steps[i].wire.data \in {None, <<>>}
  BY <1>5, <1>6 DEF WrittenRight
<1>8. MessageForm(m, "grpc")
  BY <1>0, <1>6, <1>7, FormOfWritten
<1>9. Len(m.tensors) = N
  BY <1>7 DEF Together
<1>10. ASSUME \A i \in DOMAIN q.tensors : q.tensors[i].data = None /\ q.tensors[i].raw # None
       PROVE  Len(m.raws) = N
  <2>1. \A i \in 1..N : steps[i].raw # None
    BY <1>0, <1>4, <1>10
  <2>2. m.raws = [i \in 1..N |-> steps[i].raw]
    BY <1>7, <2>1 DEF Together
  <2> QED
    BY <1>0, <2>2
<1>11. ASSUME NEW rs \in Seq(Given), Intact(q.tensors, rs)  PROVE MessageIntact(m, rs, "grpc")
  <2>1. DOMAIN rs = 1..N /\ \A i \in 1..N : rs[i] \in Given /\ Carries(q.tensors[i], rs[i])
    <3>1. DOMAIN rs = 1..Len(rs)
      BY LenProperties
    <3> QED
      BY <1>0, <1>11, <3>1, ElementOfSeq DEF Intact
  <2>2. \A i \in 1..N : Sends(steps[i], rs[i])
    BY <1>0, <1>3, <1>6, <2>1, OutputToGrpcSends
  <2> QED
    BY <1>0, <1>6, <1>7, <2>1, <2>2, MessageOfSteps
<1> QED
  BY <1>7, <1>8, <1>9, <1>10, <1>11 DEF m, N

-----------------------------------------------------------------------------
(* Decoding a response.                                                    *)

\* The fields of a response on the wire.
LEMMA ReplyHas ==
  ASSUME NEW m \in ResponseMessages
  PROVE  m.tensors \in Seq(WireSet) /\ m.raws \in Arrays
BY DEF ResponseMessages

\* What DecodeResponse finds in the tensors.
DecodedTensors(m, protocol) == IF protocol = "grpc" THEN FromGrpc(m) ELSE OutputsFromBytes(m)

\* DecodeResponse, by its tensors.
LEMMA DecodeResponseIs ==
  ASSUME NEW m, NEW protocol, DecodeResponse(m, protocol) # Error
  PROVE  LET q == DecodeResponse(m, protocol)
         IN /\ DecodedTensors(m, protocol) # Error
            /\ q = [tensors |-> DecodedTensors(m, protocol), binary |-> FALSE, outputs |-> None]
BY DEF DecodeResponse, DecodedTensors

\* The outputs a receiver decodes: the types.
LEMMA OutputsTyped ==
  ASSUME NEW m \in ResponseMessages, NEW protocol, DecodedTensors(m, protocol) # Error
  PROVE  Received(DecodedTensors(m, protocol), m)
<1>0. m.tensors \in Seq(WireSet) /\ m.raws \in Arrays
  BY ReplyHas
<1>1. CASE protocol = "grpc"
  <2>1. DecodedTensors(m, protocol) = FromGrpc(m)
    BY <1>1 DEF DecodedTensors
  <2> QED
    BY <1>0, <2>1, FromGrpcTyped
<1>2. CASE protocol # "grpc"
  <2>1. DecodedTensors(m, protocol) = AllDone(OutputSteps(m))
    BY <1>2, FromBytesAre DEF DecodedTensors
  <2>2. DOMAIN OutputSteps(m) = DOMAIN m.tensors
    BY DEF OutputSteps
  <2>3. \A i \in DOMAIN m.tensors : StepReceived(OutputSteps(m)[i], m.tensors[i])
    BY <1>0, SequenceOf
  <2> QED
    BY <1>0, <2>1, <2>2, <2>3, AllReceived
<1> QED
  BY <1>1, <1>2

\* They carry what the message does, unless it was mixed.
LEMMA OutputsIntact ==
  ASSUME NEW m \in ResponseMessages, NEW protocol \in {"rest", "grpc"}, DecodedTensors(m, protocol) # Error,
         NEW rs \in Seq(Given), MessageIntact(m, rs, protocol), MessageForm(m, protocol),
         protocol = "grpc" => m.raws = <<>> \/ Len(m.raws) = Len(m.tensors)
  PROVE  Intact(DecodedTensors(m, protocol), rs)
<1>0. m.tensors \in Seq(WireSet) /\ m.raws \in Arrays
  BY ReplyHas
<1>1. DOMAIN m.tensors = DOMAIN rs /\ (\A i \in DOMAIN rs : WireCarries(m.tensors[i], rs[i])) /\ RawsRight(m, rs, protocol)
  BY DEF MessageIntact
<1>2. \A i \in DOMAIN rs : m.tensors[i] \in WireSet /\ rs[i] \in Given
  <2>1. DOMAIN rs = 1..Len(rs) /\ DOMAIN m.tensors = 1..Len(m.tensors)
    BY <1>0, LenProperties
  <2> QED
    BY <1>0, <1>1, <2>1, ElementOfSeq
<1>3. CASE protocol = "grpc"
  <2>1. DecodedTensors(m, protocol) = FromGrpc(m)
    BY <1>3 DEF DecodedTensors
  <2>2. \/ m.raws = <<>> /\ \A i \in DOMAIN rs : m.tensors[i].data # None
        \/ m.raws = [i \in DOMAIN rs |-> Raw(rs[i])] /\ \A i \in DOMAIN rs : m.tensors[i].data = None
    <3>1. CASE m.raws = <<>>
      BY <1>0, <1>1, <1>3, <3>1, GrpcForm
    <3>2. CASE Len(m.raws) = Len(m.tensors)
      <4>1. \A i \in DOMAIN rs : m.tensors[i].data = None
        BY <1>0, <1>1, <1>3, <3>2, GrpcForm
      <4> QED
        BY <1>1, <1>3, <4>1 DEF RawsRight
    <3> QED
      BY <1>3, <3>1, <3>2
  <2>3. \A i \in DOMAIN rs : Carries(FromGrpc(m)[i], rs[i])
    BY <1>0, <1>1, <2>2, FromGrpcConveys
  <2>4. DOMAIN FromGrpc(m) = DOMAIN rs
    BY <1>1 DEF FromGrpc
  <2> QED
    BY <2>1, <2>3, <2>4 DEF Intact
<1>4. CASE protocol # "grpc"
  <2> DEFINE steps == OutputSteps(m)
             taking == TakingOutputs(m)
  <2>1. DecodedTensors(m, protocol) = AllDone(steps)
    BY <1>4, FromBytesAre DEF DecodedTensors
  <2>2. DOMAIN steps = DOMAIN m.tensors /\ \A i \in DOMAIN m.tensors : steps[i] = OutputStep(m.tensors[i], Slices(m, taking)[i])
    BY DEF OutputSteps
  <2>3. \A i \in DOMAIN m.tensors : StepReceived(steps[i], m.tensors[i])
    BY <1>0, SequenceOf
  <2> HIDE DEF steps
  <2>4. \A i \in DOMAIN m.tensors : steps[i].ok /\ AllDone(steps)[i] = steps[i].tensor
    BY <1>0, <2>1, <2>2, <2>3, AllReceived
  <2>5. DOMAIN AllDone(steps) = DOMAIN rs
    BY <1>0, <1>1, <2>1, <2>2, <2>3, AllReceived DEF Received
  <2>6. \A i \in DOMAIN m.tensors : m.tensors[i].size = None => m.tensors[i].data # None
    <3> TAKE i \in DOMAIN m.tensors
    <3> DEFINE w == m.tensors[i]
    <3>1. steps[i].ok /\ steps[i] = OutputStep(w, Slices(m, taking)[i])
      BY <2>2, <2>4
    <3>2. ~Failed(w).ok
      BY DEF Failed
    <3> HIDE DEF w
    <3>3. w.size = None => w.data # None
      BY <3>1, <3>2 DEF OutputStep
    <3> QED
      BY <3>3 DEF w
  <2>7. \A i \in taking : Slices(m, taking)[i] = Raw(rs[i])
    <3>1. taking \in SUBSET (DOMAIN rs) /\ (\A i \in taking : m.tensors[i].size # None)
          /\ \A i \in DOMAIN rs : i \notin taking => m.tensors[i].data # None
      BY <1>1, <2>6 DEF TakingOutputs
    <3>2. RawsRight(m, rs, "rest") /\ \A i \in DOMAIN rs : WireConveys(m.tensors[i], rs[i])
      BY <1>1, <1>4 DEF WireConveys
    <3> QED
      BY <1>0, <1>1, <3>1, <3>2, PartsAreSlices
  <2>8. ASSUME NEW i \in DOMAIN rs  PROVE Carries(AllDone(steps)[i], rs[i])
    <3> DEFINE w == m.tensors[i]
    <3>1. w \in WireSet /\ rs[i] \in Given /\ WireCarries(w, rs[i])
      BY <1>1, <1>2
    <3>2. steps[i].ok /\ AllDone(steps)[i] = steps[i].tensor /\ steps[i] = OutputStep(w, Slices(m, taking)[i])
      BY <1>1, <2>2, <2>4
    <3>3. CASE w.size = None
      <4>1. w.data # None /\ steps[i].tensor = Tensor(w, List(w.data), None)
        BY <3>2, <3>3 DEF OutputStep, Failed, Done
      <4> HIDE DEF w
      <4> QED
        BY <3>1, <3>2, <3>3, <4>1, ListConveys
    <3>4. CASE w.size # None
      <4>1. i \in taking
        BY <1>1, <3>4 DEF TakingOutputs
      <4>2. steps[i] = FromSlice(w, Raw(rs[i]))
        BY <2>7, <3>2, <3>4, <4>1 DEF OutputStep
      <4> HIDE DEF w
      <4> QED
        BY <3>1, <3>2, <4>2, FromSliceCarries
    <3> QED
      BY <3>3, <3>4
  <2> QED
    BY <2>1, <2>5, <2>8 DEF Intact
<1> QED
  BY <1>3, <1>4

\* The response a receiver decodes: a response without outputs asked for.
LEMMA DecodeResponseTyped ==
  ASSUME NEW m \in ResponseMessages, NEW protocol, DecodeResponse(m, protocol) # Error
  PROVE  LET q == DecodeResponse(m, protocol)
         IN /\ q \in ResponseSet /\ q.outputs = None /\ ~q.binary
            /\ q.tensors = DecodedTensors(m, protocol) /\ DecodedTensors(m, protocol) # Error
<1> DEFINE q == DecodeResponse(m, protocol)
           ts == DecodedTensors(m, protocol)
<1>1. ts # Error /\ q = [tensors |-> ts, binary |-> FALSE, outputs |-> None]
  BY DecodeResponseIs
<1>2. ts \in Seq(TensorSet)
  BY <1>1, OutputsTyped DEF Received
<1>3. None \in AskedSet
  BY DEF AskedSet
<1> HIDE DEF ts, q
<1> QED
  BY <1>1, <1>2, <1>3 DEF ResponseSet, q, ts

-----------------------------------------------------------------------------
(* Tensors as a client or a model makes them.                              *)

\* A tensor without data.
LEMMA NewTensorIs ==
  ASSUME NEW r \in Given
  PROVE  /\ NewTensor(r) \in TensorSet /\ SameHead(NewTensor(r), r)
         /\ NewTensor(r).data = None /\ NewTensor(r).raw = None /\ NewTensor(r).size = None
BY GivenHas DEF NewTensor, TensorSet, SameHead

\* A tensor as it is made carries what was given, in the form that was chosen.
LEMMA MadeIs ==
  ASSUME NEW r \in Given
  PROVE  /\ Made(r) \in TensorSet /\ Carries(Made(r), r) /\ Single(Made(r))
         /\ r.form = "binary" => Made(r).data = None /\ Made(r).raw # None /\ Made(r).size # None
         /\ r.form \in {"list", "array"} => Is(Made(r).data, r.form) /\ Made(r).raw = None /\ Made(r).size = None
<1> DEFINE t == NewTensor(r)
<1>0. t \in TensorSet /\ SameHead(t, r) /\ t.data = None /\ t.raw = None /\ t.size = None
  BY NewTensorIs
<1>1. r.elements \in Arrays /\ Raw(r) \in Seq(Nat) /\ Raw(r) # None /\ Len(Raw(r)) # None
  BY GivenHas, RawBack, Nothing
<1> HIDE DEF t
<1>2. CASE r.form = "binary"
  <2> DEFINE s == SetBinary(t, r.elements)
  <2>1. Binaried(s, t, r.elements)
    BY <1>0, <1>1, SetBinaryDoes
  <2>2. Made(r) = s.tensor
    BY <1>2 DEF Made, t
  <2> HIDE DEF s
  <2>3. Carries(s.tensor, r)
    BY <1>0, <2>1, BinariedCarries
  <2>4. Bytes(t.datatype, r.elements) = Raw(r)
    BY <1>0 DEF SameHead, Raw
  <2> QED
    BY <1>1, <1>2, <2>1, <2>2, <2>3, <2>4 DEF Binaried, Single
<1>3. CASE r.form = "raw"
  <2>1. Made(r) = [t EXCEPT !.raw = Raw(r)]
    BY <1>3 DEF Made, t, Raw
  <2>2. /\ Made(r) \in TensorSet /\ Made(r).raw = Raw(r) /\ Made(r).data = None /\ Made(r).size = None
        /\ SameHead(Made(r), r)
    BY <1>0, <1>1, <2>1 DEF TensorSet, SameHead
  <2> QED
    BY <1>3, <2>2 DEF Carries, Single
<1>4. CASE r.form \in {"list", "array"}
  <2> DEFINE d == Data(r.form, r.elements)
  <2>1. d \in DataSet /\ d # None /\ d.kind = r.form /\ d.elements = r.elements
    BY <1>1, <1>4, DataTyped
  <2>2. Made(r) = [t EXCEPT !.data = d]
    BY <1>4 DEF Made, t
  <2> HIDE DEF d
  <2>3. /\ Made(r) \in TensorSet /\ Made(r).raw = None /\ Made(r).data = d /\ Made(r).size = None
        /\ SameHead(Made(r), r)
    BY <1>0, <2>1, <2>2 DEF TensorSet, SameHead
  <2> QED
    BY <1>4, <2>1, <2>3 DEF Carries, Single, Is
<1> QED
  BY <1>2, <1>3, <1>4, GivenHas

-----------------------------------------------------------------------------
(* What the model's answer becomes.                                        *)

HelpedSteps(rs, binary) == [i \in DOMAIN rs |-> SetData(NewTensor(rs[i]), rs[i].elements, binary)]

\* A tensor of get_predict_response.
OwnTensor(t, binary) ==
  IF binary THEN t.data = None /\ t.raw # None /\ t.size # None
  ELSE Is(t.data, "list") /\ t.raw = None /\ t.size = None

\* get_predict_response, for one output.
LEMMA HelpedStep ==
  ASSUME NEW r \in Given, NEW binary \in BOOLEAN
  PROVE  LET x == SetData(NewTensor(r), r.elements, binary)
         IN /\ x.ok => x.tensor \in TensorSet /\ Carries(x.tensor, r) /\ OwnTensor(x.tensor, binary)
            /\ binary \/ HasText(r) => x.ok
<1> DEFINE t == NewTensor(r)
           x == SetData(t, r.elements, binary)
<1>0. t \in TensorSet /\ SameHead(t, r) /\ r.elements \in Arrays
  BY NewTensorIs, GivenHas
<1> HIDE DEF t
<1>1. ShownAs(x, t, binary) /\ IF binary THEN Binaried(x, t, r.elements) ELSE Texted(x, t, r.elements)
  BY <1>0, SetDataDoes
<1>2. Bytes(t.datatype, r.elements) # None /\ Len(Bytes(t.datatype, r.elements)) # None
  BY <1>0, TensorHas, BytesAre, Nothing
<1> HIDE DEF x
<1>3. CASE binary
  <2>1. Binaried(x, t, r.elements)
    BY <1>1, <1>3
  <2>2. Carries(x.tensor, r)
    BY <1>0, <2>1, BinariedCarries
  <2> QED
    BY <1>2, <1>3, <2>1, <2>2 DEF Binaried, OwnTensor, x, t
<1>4. CASE ~binary
  <2>1. Texted(x, t, r.elements)
    BY <1>1, <1>4
  <2>2. IF x.ok THEN Carries(x.tensor, r) ELSE ~HasText(r) /\ Torn(x.tensor, r)
    BY <1>0, <2>1, TextedCarries
  <2> QED
    BY <1>4, <2>1, <2>2 DEF Texted, OwnTensor, Is, x, t
<1> QED
  BY <1>3, <1>4

\* get_predict_response carries what the model returned, as the request says.
LEMMA PredictResponseIs ==
  ASSUME NEW q \in RequestSet, NEW rs \in Seq(Given)
  PROVE  LET p == PredictResponse(q, rs)
         IN /\ p # Error =>
                 /\ p \in ResponseSet /\ p.binary = UseBinaryOutputs(q) /\ p.outputs = q.outputs
                 /\ Intact(p.tensors, rs)
                 /\ \A i \in DOMAIN p.tensors : OwnTensor(p.tensors[i], p.binary)
            /\ (\A i \in DOMAIN rs : UseBinaryOutputs(q) \/ HasText(rs[i])) => p # Error
<1> DEFINE binary == UseBinaryOutputs(q)
           steps == HelpedSteps(rs, binary)
           p == PredictResponse(q, rs)
<1>0. binary \in BOOLEAN /\ DOMAIN rs = 1..Len(rs) /\ Len(rs) \in Nat /\ \A i \in DOMAIN rs : rs[i] \in Given
  <2>1. DOMAIN rs = 1..Len(rs) /\ Len(rs) \in Nat
    BY LenProperties
  <2> QED
    BY <2>1, RequestHas, ElementOfSeq DEF UseBinaryOutputs
<1>1. p = IF AllDone(steps) = Error THEN Error ELSE [tensors |-> AllDone(steps), binary |-> binary, outputs |-> q.outputs]
  BY DEF PredictResponse, HelpedSteps
<1>2. DOMAIN steps = DOMAIN rs /\ \A i \in DOMAIN rs : steps[i] = SetData(NewTensor(rs[i]), rs[i].elements, binary)
  BY DEF HelpedSteps
<1> HIDE DEF steps, p, binary
<1>3. \A i \in DOMAIN rs :
        /\ steps[i].ok => steps[i].tensor \in TensorSet /\ Carries(steps[i].tensor, rs[i]) /\ OwnTensor(steps[i].tensor, binary)
        /\ binary \/ HasText(rs[i]) => steps[i].ok
  BY <1>0, <1>2, HelpedStep
<1> DEFINE ts == [i \in DOMAIN steps |-> steps[i].tensor]
<1>4. IF AllOk(steps) THEN AllDone(steps) = ts ELSE AllDone(steps) = Error
  BY AllDoneIs
<1>5. ASSUME AllOk(steps)
      PROVE  /\ ts \in Seq(TensorSet) /\ ts # Error /\ Intact(ts, rs) /\ DOMAIN ts = DOMAIN rs
             /\ \A i \in DOMAIN rs : OwnTensor(ts[i], binary)
  <2>1. \A i \in DOMAIN rs : steps[i].ok
    BY <1>2, <1>5 DEF AllOk
  <2>2. DOMAIN ts = DOMAIN rs /\ \A i \in DOMAIN rs : ts[i] = steps[i].tensor
    BY <1>2
  <2>3. ts = [i \in 1..Len(rs) |-> steps[i].tensor]
    BY <1>0, <1>2
  <2>4. ts \in Seq(TensorSet)
    BY <1>0, <1>3, <2>1, <2>3
  <2> HIDE DEF ts
  <2> QED
    BY <1>3, <2>1, <2>2, <2>4, Nothing DEF Intact
<1> HIDE DEF ts
<1>6. ASSUME p # Error
      PROVE  /\ p \in ResponseSet /\ p.binary = binary /\ p.outputs = q.outputs
             /\ Intact(p.tensors, rs)
             /\ \A i \in DOMAIN p.tensors : OwnTensor(p.tensors[i], p.binary)
  <2>1. AllOk(steps) /\ p = [tensors |-> ts, binary |-> binary, outputs |-> q.outputs]
    BY <1>1, <1>4, <1>6
  <2>2. p.tensors = ts /\ p.binary = binary /\ p.outputs = q.outputs
    BY <2>1
  <2>3. p \in ResponseSet
    BY <1>0, <1>5, <2>1, RequestHas DEF ResponseSet
  <2> QED
    BY <1>5, <2>1, <2>2, <2>3
<1>7. ASSUME \A i \in DOMAIN rs : binary \/ HasText(rs[i])  PROVE p # Error
  <2>1. AllOk(steps)
    BY <1>2, <1>3, <1>7 DEF AllOk
  <2>2. p = [tensors |-> ts, binary |-> binary, outputs |-> q.outputs]
    BY <1>1, <1>4, <1>5, <2>1
  <2>3. p \in ResponseSet
    BY <1>0, <1>5, <2>1, <2>2, RequestHas DEF ResponseSet
  <2> QED
    BY <2>3, Nothing
<1> QED
  BY <1>6, <1>7 DEF p, binary

\* A model's own response carries what the model returned.
LEMMA OwnResponseIs ==
  ASSUME NEW rs \in Seq(Given)
  PROVE  OwnResponse(rs) \in ResponseSet /\ Intact(OwnResponse(rs).tensors, rs)
<1> DEFINE ts == [i \in DOMAIN rs |-> Made(rs[i])]
<1>0. DOMAIN rs = 1..Len(rs) /\ Len(rs) \in Nat
  BY LenProperties
<1>1. \A i \in DOMAIN rs : Made(rs[i]) \in TensorSet /\ Carries(Made(rs[i]), rs[i])
  BY <1>0, ElementOfSeq, MadeIs
<1>2. ts \in Seq(TensorSet) /\ DOMAIN ts = DOMAIN rs /\ \A i \in DOMAIN rs : ts[i] = Made(rs[i])
  BY <1>0, <1>1
<1>3. OwnResponse(rs) = [tensors |-> ts, binary |-> FALSE, outputs |-> None]
  BY DEF OwnResponse
<1>4. None \in AskedSet
  BY DEF AskedSet
<1> HIDE DEF ts
<1>5. OwnResponse(rs) \in ResponseSet /\ OwnResponse(rs).tensors = ts
  BY <1>2, <1>3, <1>4 DEF ResponseSet
<1> QED
  BY <1>1, <1>2, <1>5 DEF Intact

-----------------------------------------------------------------------------
(* The steps of the specification.                                         *)

\* A path has hops, and each a protocol.
LEMMA PathHas ==
  ASSUME NEW p \in Paths
  PROVE  Len(p) \in Nat /\ Len(p) > 0 /\ DOMAIN p = 1..Len(p) /\ \A i \in 1..Len(p) : p[i] \in {"rest", "grpc"}
<1> DEFINE S == {"rest", "grpc"}
<1>1. p \in Seq(S) /\ p # <<>>
  BY OpenAssumption
<1> HIDE DEF S
<1>2. Len(p) \in Nat /\ DOMAIN p = 1..Len(p) /\ \A i \in 1..Len(p) : p[i] \in S
  BY <1>1, LenProperties, ElementOfSeq
<1>3. Len(p) # 0
  BY <1>1, EmptySeq
<1> QED
  BY <1>2, <1>3 DEF S

\* The elements of a sequence of what is given.
LEMMA GivenSeq ==
  ASSUME NEW rs \in Seq(Given)
  PROVE  DOMAIN rs = 1..Len(rs) /\ Len(rs) \in Nat /\ \A i \in DOMAIN rs : rs[i] \in Given
BY LenProperties, ElementOfSeq

\* The fields of what a model returns.
LEMMA ResultHas ==
  ASSUME NEW r \in Results
  PROVE  r.helper \in BOOLEAN /\ r.outputs \in Seq(Given)
BY OpenAssumption

\* The outcome of a conversion is held, or the call is refused.
LEMMA BecomeIs ==
  ASSUME NEW where, NEW outcome, Become(where, outcome)
  PROVE  IF outcome = Error THEN pc' = "refused" /\ msg' = None ELSE pc' = where /\ msg' = outcome
BY DEF Become

\* The client starts with what it put in its tensors.
LEMMA InitCarries == OpenInit => CarryingIInv
<1> SUFFICES ASSUME OpenInit  PROVE CarryingIInv
  OBVIOUS
<1>1. PICK r \in Requests :
        /\ truth = r.inputs
        /\ client = [inputs |-> [i \in DOMAIN r.inputs |-> Made(r.inputs[i])],
                     binary |-> r.binary, outputs |-> r.outputs, grpc |-> FALSE, raw |-> FALSE]
  BY DEF OpenInit
<1>2. path = <<>> /\ node = 0 /\ pc = "idle" /\ msg = None /\ result = None /\ mixed = FALSE /\ sends = 0
  BY DEF OpenInit
<1>3. r.inputs \in Seq(Given) /\ r.binary \in BOOLEAN /\ r.outputs \in AskedSet
  BY OpenAssumption
<1> DEFINE ts == [i \in DOMAIN truth |-> Made(truth[i])]
<1>4. client = [inputs |-> ts, binary |-> r.binary, outputs |-> r.outputs, grpc |-> FALSE, raw |-> FALSE]
  BY <1>1
<1>5. truth \in Seq(Given)
  BY <1>1, <1>3
<1>6. DOMAIN truth = 1..Len(truth) /\ Len(truth) \in Nat
      /\ \A i \in DOMAIN truth : Made(truth[i]) \in TensorSet /\ Carries(Made(truth[i]), truth[i]) /\ Single(Made(truth[i]))
  BY <1>5, GivenSeq, MadeIs
<1>7. ts \in Seq(TensorSet) /\ DOMAIN ts = DOMAIN truth /\ \A i \in DOMAIN truth : ts[i] = Made(truth[i])
  BY <1>6
<1> HIDE DEF ts
<1>8. client \in RequestSet /\ client.inputs = ts
  BY <1>3, <1>4, <1>7 DEF RequestSet
<1>9. ClientRight
  BY <1>5, <1>6, <1>7, <1>8 DEF ClientRight, Faithful, Conveys, Single
<1>10. PathRight
  <2>1. node \in 0..Len(path) /\ path \in Paths \cup {<<>>}
    BY <1>2
  <2>2. sends \in 0..MaxSends
    BY <1>2, OpenAssumption
  <2>3. mixed \in BOOLEAN /\ ~mixed
    BY <1>2
  <2> QED
    BY <1>2, <2>1, <2>2, <2>3 DEF PathRight
<1> QED
  BY <1>2, <1>9, <1>10 DEF CarryingIInv, RequestsRight, ResponsesRight

\* Sending, in any attempt, keeps what the tensors carry.
LEMMA SendCarries ==
  ASSUME CarryingIInv, Send
  PROVE  CarryingIInv'
<1> USE DEF CarryingIInv
<1>1. PICK p \in Paths : /\ path' = p /\ client' = EncodeRequest(client, p[1]).request
                         /\ Become("sent", EncodeRequest(client, p[1]).message)
  BY DEF Send
<1>2. node' = 0 /\ result' = None /\ mixed' = FALSE /\ sends' = sends + 1 /\ truth' = truth /\ sends < MaxSends
  BY DEF Send
<1> DEFINE e == EncodeRequest(client, p[1])
<1>3. p[1] \in {"rest", "grpc"} /\ Len(p) \in Nat /\ 0 < Len(p) /\ Protocol' = p[1] /\ p # <<>>
  BY <1>1, <1>2, PathHas, OpenAssumption DEF Protocol
<1>4. truth \in Seq(Given) /\ client \in RequestSet /\ Faithful(client.inputs, truth)
      /\ \A i \in DOMAIN truth : Single(client.inputs[i])
  BY DEF ClientRight, Single
<1>5. RequestEncoded(e, client, p[1]) /\ Faithful(e.request.inputs, truth)
      /\ (e.message # Error => MessageFaithful(e.message, truth, p[1]))
  BY <1>3, <1>4, EncodeRequestTyped, EncodeRequestConveys
<1>6. IF e.message = Error THEN pc' = "refused" /\ msg' = None ELSE pc' = "sent" /\ msg' = e.message
  BY <1>1, BecomeIs
<1>7. client' = e.request
  BY <1>1
<1> HIDE DEF e
<1>8. ClientRight'
  <2>1. DOMAIN client.inputs = DOMAIN truth
    BY <1>4 DEF Faithful
  <2>2. \A i \in DOMAIN truth : Single(client'.inputs[i])
    BY <1>4, <1>5, <1>7, <2>1 DEF RequestEncoded
  <2> QED
    BY <1>2, <1>4, <1>5, <1>7, <2>2 DEF ClientRight, RequestEncoded, Single
<1>9. PathRight'
  <2>1. sends' \in 0..MaxSends
    BY <1>2, OpenAssumption DEF PathRight
  <2>2. mixed' \in BOOLEAN /\ ~mixed'
    BY <1>2
  <2>3. node' \in 0..Len(path') /\ node' < Len(path') /\ path' \in Paths \cup {<<>>}
    BY <1>1, <1>2, <1>3
  <2>4. pc' \in {"sent", "refused"} /\ result' \in Results \cup {None} /\ result' = None
    BY <1>2, <1>6
  <2> QED
    BY <2>1, <2>2, <2>3, <2>4 DEF PathRight
<1>10. RequestsRight'
  <2>1. ASSUME pc' = "sent"
        PROVE  /\ msg' \in RequestMessages /\ msg'.binary = client'.binary /\ msg'.outputs = client'.outputs
               /\ MessageFaithful(msg', truth', Protocol') /\ MessageForm(msg', Protocol')
               /\ path' = <<"grpc">> /\ SomeRaw' => msg'.raws # <<>>
    <3>1. e.message # Error /\ msg' = e.message
      BY <1>6, <2>1
    <3>2. /\ msg' \in RequestMessages /\ msg'.binary = client'.binary /\ msg'.outputs = client'.outputs
          /\ MessageForm(msg', p[1])
          /\ p[1] # "rest" /\ (\E i \in DOMAIN client.inputs : client'.inputs[i].raw # None) => msg'.raws # <<>>
          /\ DOMAIN client'.inputs = DOMAIN client.inputs
      BY <1>5, <1>7, <3>1 DEF RequestEncoded
    <3>3. path' = <<"grpc">> => p[1] # "rest"
      BY <1>1
    <3> QED
      BY <1>2, <1>3, <1>5, <3>1, <3>2, <3>3 DEF SomeRaw
  <2> QED
    BY <1>6, <2>1 DEF RequestsRight
<1> QED
  BY <1>6, <1>8, <1>9, <1>10 DEF ResponsesRight

\* A request is received with what it carries.
LEMMA ReceiveCarries ==
  ASSUME CarryingIInv, ReceiveRequest
  PROVE  CarryingIInv'
<1> USE DEF CarryingIInv
<1>1. /\ pc = "sent" /\ Become("held", DecodeRequest(msg, Protocol)) /\ node' = node + 1
      /\ truth' = truth /\ client' = client /\ path' = path /\ result' = result /\ mixed' = mixed /\ sends' = sends
  BY DEF ReceiveRequest
<1> DEFINE q == DecodeRequest(msg, Protocol)
<1>2. IF q = Error THEN pc' = "refused" /\ msg' = None ELSE pc' = "held" /\ msg' = q
  BY <1>1, BecomeIs
<1>3. /\ path \in Paths /\ Len(path) \in Nat /\ node \in Nat /\ node < Len(path) /\ node' \in 1..Len(path)
      /\ Protocol = path[node'] /\ Protocol \in {"rest", "grpc"}
  <2>1. node \in 0..Len(path) /\ node < Len(path) /\ path \in Paths \cup {<<>>}
    BY <1>1 DEF PathRight
  <2>2. path \in Paths
    BY <2>1
  <2>3. node + 1 \in 1..Len(path) /\ Len(path) \in Nat
    BY <2>1, <2>2, PathHas
  <2> QED
    BY <1>1, <2>1, <2>2, <2>3, PathHas DEF Protocol
<1>4. /\ msg \in RequestMessages /\ msg.binary = client.binary /\ msg.outputs = client.outputs
      /\ MessageFaithful(msg, truth, Protocol) /\ MessageForm(msg, Protocol)
      /\ path = <<"grpc">> /\ SomeRaw => msg.raws # <<>>
  BY <1>1 DEF RequestsRight
<1>5. truth \in Seq(Given)
  BY DEF ClientRight
<1> HIDE DEF q
<1>6. ASSUME q # Error
      PROVE  /\ q \in RequestSet /\ q.binary = client.binary /\ q.outputs = client.outputs
             /\ q.grpc <=> path[node'] = "grpc"
             /\ Faithful(q.inputs, truth)
             /\ path = <<"grpc">> /\ SomeRaw => q.raw
  <2>1. /\ q \in RequestSet /\ q.binary = msg.binary /\ q.outputs = msg.outputs
        /\ q.inputs = DecodeInputs(msg, Protocol) /\ DecodeInputs(msg, Protocol) # Error
        /\ q.grpc <=> Protocol = "grpc"
        /\ q.raw <=> (Protocol = "grpc" /\ msg.raws # <<>>)
    BY <1>4, <1>6, DecodeRequestTyped DEF q
  <2>2. Faithful(q.inputs, truth)
    BY <1>3, <1>4, <1>5, <2>1, MessageHas, DecodeInputsConveys
  <2>3. path = <<"grpc">> => Protocol = "grpc"
    BY <1>3
  <2> QED
    BY <1>3, <1>4, <2>1, <2>2, <2>3
<1>7. PathRight'
  BY <1>1, <1>2, <1>3 DEF PathRight
<1>8. ClientRight'
  BY <1>1 DEF ClientRight
<1>9. RequestsRight'
  BY <1>1, <1>2, <1>6 DEF RequestsRight, SomeRaw
<1> QED
  BY <1>2, <1>7, <1>8, <1>9 DEF ResponsesRight

\* A transformer forwards what the request carries.
LEMMA ForwardCarries ==
  ASSUME CarryingIInv, Forward
  PROVE  CarryingIInv'
<1> USE DEF CarryingIInv
<1>1. /\ pc = "held" /\ node < Len(path) /\ Become("sent", EncodeRequest(msg, Protocol).message)
      /\ truth' = truth /\ client' = client /\ path' = path /\ node' = node
      /\ result' = result /\ mixed' = mixed /\ sends' = sends
  BY DEF Forward
<1> DEFINE e == EncodeRequest(msg, Protocol)
<1>2. IF e.message = Error THEN pc' = "refused" /\ msg' = None ELSE pc' = "sent" /\ msg' = e.message
  BY <1>1, BecomeIs
<1>3. /\ path \in Paths /\ Len(path) \in Nat /\ node \in 1..Len(path)
      /\ Protocol \in {"rest", "grpc"} /\ Protocol' = Protocol /\ path # <<"grpc">>
  <2>1. node \in 0..Len(path) /\ node > 0 /\ node < Len(path) /\ path \in Paths \cup {<<>>}
    BY <1>1 DEF PathRight
  <2>2. path \in Paths
    BY <2>1
  <2>3. node + 1 \in 1..Len(path) /\ Len(path) \in Nat
    BY <2>1, <2>2, PathHas
  <2>4. Len(path) # 1
    <3> DEFINE L == Len(path)
    <3>1. node \in 0..L /\ node > 0 /\ node < L /\ L \in Nat
      BY <2>1, <2>3
    <3> HIDE DEF L
    <3>2. L # 1
      BY <3>1
    <3> QED
      BY <3>2 DEF L
  <2> QED
    BY <1>1, <2>1, <2>2, <2>3, <2>4, PathHas DEF Protocol
<1>4. /\ msg \in RequestSet /\ msg.binary = client.binary /\ msg.outputs = client.outputs
      /\ Faithful(msg.inputs, truth) /\ truth \in Seq(Given)
  BY <1>1 DEF RequestsRight, ClientRight
<1>5. RequestEncoded(e, msg, Protocol) /\ (e.message # Error => MessageFaithful(e.message, truth, Protocol))
  BY <1>3, <1>4, EncodeRequestTyped, EncodeRequestConveys
<1> HIDE DEF e
<1>6. PathRight'
  BY <1>1, <1>2 DEF PathRight
<1>7. ClientRight'
  BY <1>1 DEF ClientRight
<1>8. RequestsRight'
  BY <1>1, <1>2, <1>3, <1>4, <1>5 DEF RequestsRight, RequestEncoded
<1> QED
  BY <1>2, <1>6, <1>7, <1>8 DEF ResponsesRight

\* The response of the model carries what it returned.
LEMMA PredictCarries ==
  ASSUME CarryingIInv, Predict
  PROVE  CarryingIInv'
<1> USE DEF CarryingIInv
<1>1. PICK r \in Results :
        /\ result' = r
        /\ Become("predicted", IF r.helper THEN PredictResponse(msg, r.outputs) ELSE OwnResponse(r.outputs))
  BY DEF Predict
<1>2. /\ pc = "held" /\ node = Len(path)
      /\ truth' = truth /\ client' = client /\ path' = path /\ node' = node /\ mixed' = mixed /\ sends' = sends
  BY DEF Predict
<1> DEFINE p == IF r.helper THEN PredictResponse(msg, r.outputs) ELSE OwnResponse(r.outputs)
<1>3. IF p = Error THEN pc' = "refused" /\ msg' = None ELSE pc' = "predicted" /\ msg' = p
  BY <1>1, BecomeIs
<1>4. r.helper \in BOOLEAN /\ r.outputs \in Seq(Given)
  BY ResultHas
<1>5. /\ msg \in RequestSet /\ msg.binary = client.binary /\ msg.outputs = client.outputs
      /\ msg.grpc <=> path[node] = "grpc"
      /\ path = <<"grpc">> /\ SomeRaw => msg.raw
  BY <1>2 DEF RequestsRight
<1>6. node \in 1..Len(path) /\ path \in Paths /\ path[node] \in {"rest", "grpc"} /\ Len(path) \in Nat
  <2>1. node \in 0..Len(path) /\ node > 0 /\ path \in Paths \cup {<<>>}
    BY <1>2 DEF PathRight
  <2>2. path \in Paths
    BY <1>2, <2>1
  <2> QED
    BY <2>1, <2>2, PathHas
<1>7. p # Error => p \in ResponseSet /\ Intact(p.tensors, r.outputs)
  BY <1>4, <1>5, PredictResponseIs, OwnResponseIs
<1>8. ASSUME p # Error, r.helper, pc' = "predicted", msg' = p
      PROVE  HelpersOwn'
  <2>1. p = PredictResponse(msg, r.outputs)
    BY <1>8
  <2>2. /\ p.binary = UseBinaryOutputs(msg) /\ p.outputs = msg.outputs
        /\ \A i \in DOMAIN p.tensors : OwnTensor(p.tensors[i], p.binary)
    BY <1>4, <1>5, <1>8, <2>1, PredictResponseIs
  <2> HIDE DEF p
  <2>3. path[node] = "rest" => p.binary = client.binary
    BY <1>5, <2>2 DEF UseBinaryOutputs
  <2>4. path = <<"grpc">> /\ SomeRaw => p.binary
    <3>1. path = <<"grpc">> => path[node] = "grpc"
      BY <1>6
    <3> QED
      BY <1>5, <2>2, <3>1 DEF UseBinaryOutputs
  <2>5. \A i \in DOMAIN p.tensors :
          IF p.binary THEN p.tensors[i].data = None /\ p.tensors[i].raw # None
          ELSE Is(p.tensors[i].data, "list") /\ p.tensors[i].raw = None
    BY <2>2 DEF OwnTensor
  <2> QED
    BY <1>2, <1>5, <1>8, <2>2, <2>3, <2>4, <2>5 DEF HelpersOwn, SomeRaw
<1> HIDE DEF p
<1>9. PathRight'
  <2>1. pc' \in {"predicted", "refused"} /\ result' \in Results
    BY <1>1, <1>3
  <2> QED
    BY <1>2, <2>1 DEF PathRight
<1>10. ClientRight'
  BY <1>2 DEF ClientRight
<1>11. ResponsesRight'
  <2>1. ASSUME pc' = "predicted"
        PROVE  /\ msg' \in ResponseSet
               /\ ~mixed' => \E qs : Chosen(qs, result'.outputs) /\ Intact(msg'.tensors, qs)
               /\ node' = Len(path') => Intact(msg'.tensors, result'.outputs) /\ (result'.helper => HelpersOwn') /\ ~mixed'
               /\ node' < Len(path') => msg'.outputs = None /\ ~msg'.binary
    <3>1. p # Error /\ msg' = p
      BY <1>3, <2>1
    <3>2. Chosen(result'.outputs, result'.outputs) /\ Intact(msg'.tensors, result'.outputs)
      BY <1>1, <1>4, <1>7, <3>1 DEF Chosen
    <3>3. ~mixed'
      BY <1>2 DEF PathRight
    <3>4. ~(node' < Len(path'))
      BY <1>2, <1>6
    <3>5. result'.helper => HelpersOwn'
      BY <1>1, <1>8, <2>1, <3>1
    <3> QED
      BY <1>7, <3>1, <3>2, <3>3, <3>4, <3>5
  <2>2. pc' \notin {"replied", "received"}
    BY <1>3
  <2> QED
    BY <2>1, <2>2 DEF ResponsesRight
<1> QED
  BY <1>3, <1>9, <1>10, <1>11 DEF RequestsRight

\* What the client asked for.
LEMMA ClientAsks ==
  ASSUME ClientRight
  PROVE  /\ client.binary \in BOOLEAN
         /\ client.outputs # None =>
              \A i \in DOMAIN client.outputs : client.outputs[i].binary \in {TRUE, FALSE, None}
<1>1. client.binary \in BOOLEAN /\ client.outputs \in AskedSet
  BY DEF ClientRight, RequestSet
<1> QED
  BY <1>1, AskedHas

\* What the reply of the predictor says, as EncodedAsAsked.
LEMMA ReplyCarries ==
  ASSUME CarryingIInv, Reply
  PROVE  CarryingIInv' /\ EncodedAsAsked'
<1> USE DEF CarryingIInv
<1> DEFINE protocol == path[node]
           m == EncodeResponse(msg, protocol)
<1>1. /\ pc = "predicted" /\ Become("replied", m)
      /\ mixed' = (mixed \/ (m # Error /\ protocol = "grpc" /\ Len(m.raws) \notin {0, Len(m.tensors)}))
      /\ node' = node - 1
      /\ truth' = truth /\ client' = client /\ path' = path /\ result' = result /\ sends' = sends
  BY DEF Reply
<1>2. IF m = Error THEN pc' = "refused" /\ msg' = None ELSE pc' = "replied" /\ msg' = m
  BY <1>1, BecomeIs
<1>3. /\ path \in Paths /\ Len(path) \in Nat /\ node \in 1..Len(path) /\ node' \in 0..Len(path) /\ node' < Len(path)
      /\ protocol \in {"rest", "grpc"} /\ Protocol' = protocol
  <2>1. node \in 0..Len(path) /\ node > 0 /\ path \in Paths \cup {<<>>}
    BY <1>1 DEF PathRight
  <2>2. path \in Paths
    BY <2>1
  <2>3. Len(path) \in Nat /\ node \in 1..Len(path) /\ protocol \in {"rest", "grpc"}
    BY <2>1, <2>2, PathHas
  <2>4. node' + 1 = node /\ node' \in 0..Len(path) /\ node' < Len(path)
    BY <1>1, <2>1, <2>3
  <2> QED
    BY <1>1, <2>2, <2>3, <2>4 DEF Protocol
<1>4. /\ msg \in ResponseSet
      /\ ~mixed => \E qs : Chosen(qs, result.outputs) /\ Intact(msg.tensors, qs)
      /\ node = Len(path) => (result.helper => HelpersOwn)
  BY <1>1 DEF ResponsesRight
<1>5. m = IF protocol = "rest" THEN ResponseToRest(msg) ELSE ResponseToGrpc(msg)
  BY DEF EncodeResponse
<1> HIDE DEF m, protocol
<1>6. ASSUME m # Error
      PROVE  /\ m \in ResponseMessages /\ MessageForm(m, protocol)
             /\ protocol = "rest" => AsAsked(m, msg)
             /\ protocol = "grpc" /\ (\A i \in DOMAIN msg.tensors : msg.tensors[i].data = None /\ msg.tensors[i].raw # None)
                  => Len(m.raws) = Len(m.tensors)
             /\ ~mixed => \E qs : Chosen(qs, result.outputs) /\ MessageIntact(m, qs, protocol)
  <2>1. CASE protocol = "rest"
    <3>1. m = ResponseToRest(msg)
      BY <1>5, <2>1
    <3>2. m \in ResponseMessages /\ MessageForm(m, "rest") /\ AsAsked(m, msg)
      BY <1>4, <1>6, <3>1, RestReply
    <3>3. ASSUME ~mixed  PROVE \E qs : Chosen(qs, result.outputs) /\ MessageIntact(m, qs, protocol)
      <4>1. PICK qs : Chosen(qs, result.outputs) /\ Intact(msg.tensors, qs)
        BY <1>4, <3>3
      <4>2. qs \in Seq(Given)
        BY <4>1 DEF Chosen
      <4>3. PICK rs : SomeOf(rs, qs) /\ MessageIntact(m, rs, "rest")
        BY <1>4, <1>6, <3>1, <4>1, <4>2, RestReplyIntact
      <4>4. Chosen(rs, result.outputs)
        BY <4>1, <4>3 DEF SomeOf, Chosen
      <4> QED
        BY <2>1, <4>3, <4>4
    <3> QED
      BY <2>1, <3>2, <3>3
  <2>2. CASE protocol = "grpc"
    <3>1. m = ResponseToGrpc(msg)
      BY <1>5, <2>2
    <3>2. /\ m \in ResponseMessages /\ MessageForm(m, "grpc")
          /\ (\A i \in DOMAIN msg.tensors : msg.tensors[i].data = None /\ msg.tensors[i].raw # None)
               => Len(m.raws) = Len(m.tensors)
          /\ \A rs \in Seq(Given) : Intact(msg.tensors, rs) => MessageIntact(m, rs, "grpc")
      BY <1>4, <1>6, <3>1, GrpcReply
    <3>3. ASSUME ~mixed  PROVE \E qs : Chosen(qs, result.outputs) /\ MessageIntact(m, qs, protocol)
      <4>1. PICK qs : Chosen(qs, result.outputs) /\ Intact(msg.tensors, qs)
        BY <1>4, <3>3
      <4>2. MessageIntact(m, qs, "grpc")
        BY <3>2, <4>1 DEF Chosen
      <4> QED
        BY <2>2, <4>1, <4>2
    <3> QED
      BY <2>2, <3>2, <3>3
  <2> QED
    BY <1>3, <2>1, <2>2
<1>7. PathRight'
  <2>1. pc' \in {"replied", "refused"} /\ mixed' \in BOOLEAN
    BY <1>1, <1>2 DEF PathRight
  <2>2. result' \in Results
    BY <1>1 DEF PathRight
  <2> QED
    BY <1>1, <1>3, <2>1, <2>2 DEF PathRight
<1>8. ClientRight'
  BY <1>1 DEF ClientRight
<1>9. ResponsesRight'
  <2>1. ASSUME pc' = "replied"
        PROVE  /\ msg' \in ResponseMessages /\ MessageForm(msg', Protocol')
               /\ ~mixed' => \E qs : Chosen(qs, result'.outputs) /\ MessageIntact(msg', qs, Protocol')
               /\ ~mixed' /\ Protocol' = "grpc" => msg'.raws = <<>> \/ Len(msg'.raws) = Len(msg'.tensors)
    <3>1. m # Error /\ msg' = m
      BY <1>2, <2>1
    <3>2. ~mixed' => ~mixed
      BY <1>1
    <3>3. ASSUME ~mixed', protocol = "grpc"  PROVE m.raws = <<>> \/ Len(m.raws) = Len(m.tensors)
      <4>1. Len(m.raws) \in {0, Len(m.tensors)}
        BY <1>1, <3>1, <3>3
      <4>2. m.raws \in Seq(Seq(Nat))
        BY <1>6, <3>1, ReplyHas DEF Arrays
      <4> QED
        BY <4>1, <4>2, EmptySeq
    <3> QED
      BY <1>1, <1>3, <1>6, <3>1, <3>2, <3>3
  <2>2. pc' \notin {"predicted", "received"}
    BY <1>2
  <2> QED
    BY <2>1, <2>2 DEF ResponsesRight
<1>10. EncodedAsAsked'
  <2> SUFFICES ASSUME pc' = "replied", node' = Len(path) - 1, result.helper
               PROVE  LET asked == client.outputs
                      IN IF protocol = "rest"
                         THEN /\ asked # None => [i \in DOMAIN m.tensors |-> m.tensors[i].name]
                                                  = [i \in DOMAIN asked |-> asked[i].name]
                              /\ ~LeavesNoneToRequest =>
                                   Len(m.raws) = Cardinality({i \in DOMAIN m.tensors : WantsBinary(i)})
                         ELSE SomeRaw /\ path = <<"grpc">> => Len(m.raws) = Len(m.tensors)
    <3>1. pc' = "replied" => msg' = m
      BY <1>2
    <3> QED
      BY <1>1, <1>3, <3>1 DEF EncodedAsAsked, SomeRaw, LeavesNoneToRequest, WantsBinary
  <2>1. m # Error
    BY <1>2
  <2>2. node = Len(path)
    BY <1>1, <1>3
  <2>3. HelpersOwn
    BY <1>4, <2>2
  <2>4. msg.outputs = client.outputs /\ (protocol = "rest" => msg.binary = client.binary)
    BY <2>3 DEF HelpersOwn, protocol
  <2>5. CASE protocol = "rest"
    <3>1. AsAsked(m, msg) /\ msg.binary = client.binary
      BY <1>6, <2>1, <2>4, <2>5
    <3> DEFINE InReply == {i \in DOMAIN m.tensors :
                             IF client.outputs = None THEN client.binary ELSE client.outputs[i].binary = TRUE}
               Wanted == {i \in DOMAIN m.tensors : WantsBinary(i)}
    <3>2. /\ client.outputs # None => [i \in DOMAIN m.tensors |-> m.tensors[i].name]
                                       = [i \in DOMAIN client.outputs |-> client.outputs[i].name]
          /\ Len(m.raws) = Cardinality(InReply)
      BY <2>4, <3>1 DEF AsAsked
    <3>3. ASSUME ~LeavesNoneToRequest  PROVE InReply = Wanted
      <4>1. CASE client.outputs = None
        BY <4>1 DEF WantsBinary
      <4>2. CASE client.outputs # None
        <5>1. DOMAIN m.tensors = DOMAIN client.outputs
          BY <3>2, <4>2
        <5>2. /\ client.binary \in BOOLEAN
              /\ \A i \in DOMAIN client.outputs : client.outputs[i].binary \in {TRUE, FALSE, None}
          BY <4>2, ClientAsks
        <5>3. ASSUME NEW i \in DOMAIN m.tensors
              PROVE  client.outputs[i].binary = TRUE <=> WantsBinary(i)
          <6>1. client.outputs[i].binary \in {TRUE, FALSE, None}
            BY <5>1, <5>2
          <6>2. CASE client.outputs[i].binary = None
            <7>1. ~client.binary /\ None # TRUE
              BY <3>3, <4>2, <5>1, <5>2, <6>2, OpenAssumption DEF LeavesNoneToRequest
            <7> QED
              BY <6>2, <7>1 DEF WantsBinary
          <6>3. CASE client.outputs[i].binary # None
            BY <4>2, <6>1, <6>3 DEF WantsBinary
          <6> QED
            BY <6>2, <6>3
        <5> QED
          BY <4>2, <5>3
      <4> QED
        BY <4>1, <4>2
    <3> QED
      BY <2>5, <3>2, <3>3
  <2>6. CASE protocol = "grpc"
    <3>1. ASSUME SomeRaw, path = <<"grpc">>  PROVE Len(m.raws) = Len(m.tensors)
      <4>1. \A i \in DOMAIN msg.tensors : msg.tensors[i].data = None /\ msg.tensors[i].raw # None
        BY <2>3, <3>1 DEF HelpersOwn
      <4> QED
        BY <1>6, <2>1, <2>6, <4>1
    <3> QED
      BY <2>6, <3>1
  <2> QED
    BY <1>3, <2>5, <2>6
<1> QED
  BY <1>2, <1>7, <1>8, <1>9, <1>10 DEF RequestsRight

\* A response is received with what it carries, unless it was mixed.
LEMMA ReturnCarries ==
  ASSUME CarryingIInv, Return
  PROVE  CarryingIInv'
<1> USE DEF CarryingIInv
<1> DEFINE q == DecodeResponse(msg, Protocol)
           where == IF node = 0 THEN "received" ELSE "predicted"
<1>1. /\ pc = "replied" /\ Become(where, q)
      /\ truth' = truth /\ client' = client /\ path' = path /\ node' = node
      /\ result' = result /\ mixed' = mixed /\ sends' = sends
  BY DEF Return
<1>2. IF q = Error THEN pc' = "refused" /\ msg' = None ELSE pc' = where /\ msg' = q
  BY <1>1, BecomeIs
<1>3. /\ path \in Paths /\ Len(path) \in Nat /\ node \in 0..Len(path) /\ node < Len(path)
      /\ Protocol \in {"rest", "grpc"}
  <2>1. node \in 0..Len(path) /\ node < Len(path) /\ path \in Paths \cup {<<>>}
    BY <1>1 DEF PathRight
  <2>2. path \in Paths
    BY <2>1
  <2>3. node + 1 \in 1..Len(path) /\ Len(path) \in Nat
    BY <2>1, <2>2, PathHas
  <2> QED
    BY <2>1, <2>2, <2>3, PathHas DEF Protocol
<1>4. /\ msg \in ResponseMessages /\ MessageForm(msg, Protocol)
      /\ ~mixed => \E qs : Chosen(qs, result.outputs) /\ MessageIntact(msg, qs, Protocol)
      /\ ~mixed /\ Protocol = "grpc" => msg.raws = <<>> \/ Len(msg.raws) = Len(msg.tensors)
  BY <1>1 DEF ResponsesRight
<1> HIDE DEF q
<1>5. ASSUME q # Error
      PROVE  /\ q \in ResponseSet /\ q.outputs = None /\ ~q.binary
             /\ ~mixed => \E qs : Chosen(qs, result.outputs) /\ Intact(q.tensors, qs)
  <2>1. /\ q \in ResponseSet /\ q.outputs = None /\ ~q.binary
        /\ q.tensors = DecodedTensors(msg, Protocol) /\ DecodedTensors(msg, Protocol) # Error
    BY <1>4, <1>5, DecodeResponseTyped DEF q
  <2>2. ASSUME ~mixed  PROVE \E qs : Chosen(qs, result.outputs) /\ Intact(q.tensors, qs)
    <3>1. PICK qs : Chosen(qs, result.outputs) /\ MessageIntact(msg, qs, Protocol)
      BY <1>4, <2>2
    <3>2. qs \in Seq(Given)
      BY <3>1 DEF Chosen
    <3>3. Intact(DecodedTensors(msg, Protocol), qs)
      BY <1>3, <1>4, <2>1, <2>2, <3>1, <3>2, OutputsIntact
    <3> QED
      BY <2>1, <3>1, <3>3
  <2> QED
    BY <2>1, <2>2
<1>6. pc' \in {"received", "predicted", "refused"} /\ (pc' = "predicted" => node > 0)
  BY <1>2, <1>3
<1>7. PathRight'
  BY <1>1, <1>6 DEF PathRight
<1>8. ClientRight'
  BY <1>1 DEF ClientRight
<1>9. ResponsesRight'
  <2>1. pc' \in {"received", "predicted"} => q # Error /\ msg' = q
    BY <1>2
  <2>2. node' # Len(path')
    BY <1>1, <1>3
  <2> QED
    BY <1>1, <1>5, <1>6, <2>1, <2>2 DEF ResponsesRight
<1> QED
  BY <1>6, <1>7, <1>8, <1>9 DEF RequestsRight

-----------------------------------------------------------------------------
(* The values and the form of the messages.                                *)

\* Nothing changes while nothing happens.
LEMMA SameCarries ==
  ASSUME CarryingIInv, UNCHANGED openVars
  PROVE  CarryingIInv'
<1>1. /\ truth' = truth /\ client' = client /\ path' = path /\ node' = node /\ pc' = pc /\ msg' = msg
      /\ result' = result /\ mixed' = mixed /\ sends' = sends
  BY DEF openVars
<1>2. PathRight'
  BY <1>1 DEF CarryingIInv, PathRight
<1>3. ClientRight'
  BY <1>1 DEF CarryingIInv, ClientRight
<1>4. RequestsRight'
  BY <1>1 DEF CarryingIInv, RequestsRight, SomeRaw, Protocol
<1>5. ResponsesRight'
  BY <1>1 DEF CarryingIInv, ResponsesRight, HelpersOwn, SomeRaw, Protocol
<1> QED
  BY <1>2, <1>3, <1>4, <1>5 DEF CarryingIInv

\* Always, every request carries what the client put in its tensors and every
\* response what the model returned, unless it was mixed, in every form the
\* conversions of infer_type.py give them; and the reply of get_predict_response is
\* encoded as asked.
THEOREM CarryingInvariance == OpenSpec => []OpenIInv
<1>1. OpenInit => OpenIInv
  BY InitCarries DEF OpenIInv, EncodedAsAsked, OpenInit
<1>2. OpenIInv /\ [OpenNext]_openVars => OpenIInv'
  <2> SUFFICES ASSUME OpenIInv, [OpenNext]_openVars  PROVE OpenIInv'
    OBVIOUS
  <2>0. CarryingIInv
    BY DEF OpenIInv
  <2>1. ASSUME CarryingIInv', pc' # "replied"  PROVE OpenIInv'
    BY <2>1 DEF OpenIInv, EncodedAsAsked
  <2>2. CASE Send
    <3>1. pc' # "replied"
      BY <2>2 DEF Send, Become
    <3> QED
      BY <2>0, <2>1, <2>2, <3>1, SendCarries
  <2>3. CASE ReceiveRequest
    <3>1. pc' # "replied"
      BY <2>3 DEF ReceiveRequest, Become
    <3> QED
      BY <2>0, <2>1, <2>3, <3>1, ReceiveCarries
  <2>4. CASE Forward
    <3>1. pc' # "replied"
      BY <2>4 DEF Forward, Become
    <3> QED
      BY <2>0, <2>1, <2>4, <3>1, ForwardCarries
  <2>5. CASE Predict
    <3>1. pc' # "replied"
      BY <2>5 DEF Predict, Become
    <3> QED
      BY <2>0, <2>1, <2>5, <3>1, PredictCarries
  <2>6. CASE Reply
    BY <2>0, <2>6, ReplyCarries DEF OpenIInv
  <2>7. CASE Return
    <3>1. pc' # "replied"
      BY <2>7 DEF Return, Become
    <3> QED
      BY <2>0, <2>1, <2>7, <3>1, ReturnCarries
  <2>8. CASE UNCHANGED openVars
    <3>1. CarryingIInv'
      BY <2>0, <2>8, SameCarries
    <3>2. EncodedAsAsked'
      BY <2>8 DEF OpenIInv, EncodedAsAsked, LeavesNoneToRequest, WantsBinary, openVars, Protocol
    <3> QED
      BY <3>1, <3>2 DEF OpenIInv
  <2> QED
    BY <2>2, <2>3, <2>4, <2>5, <2>6, <2>7, <2>8 DEF OpenNext
<1> QED
  BY <1>1, <1>2, PTL DEF OpenSpec

-----------------------------------------------------------------------------

\* What a tensor conveys is what as_numpy reads.
LEMMA ConveysIsRead ==
  ASSUME NEW t \in TensorSet, NEW r \in Given, Conveys(t, r)
  PROVE  t.name = r.name /\ t.datatype = r.datatype
         /\ (AsNumpy(t) = r.elements \/ (AsNumpy(t) = Error /\ ~HasText(r)))
<1>1. t.name = r.name /\ t.datatype = r.datatype
  BY DEF Conveys, Carries, Torn, SameHead
<1>2. Carries(t, r) => AsNumpy(t) = r.elements
  BY CarriesIsRead
<1>3. Torn(t, r) => AsNumpy(t) = Error
  BY TornIsNot
<1> QED
  BY <1>1, <1>2, <1>3 DEF Conveys

\* The same for all the tensors of a request.
LEMMA FaithfulIsRead ==
  ASSUME NEW ts \in Seq(TensorSet), truth \in Seq(Given), Faithful(ts, truth)
  PROVE  /\ Len(ts) = Len(truth)
         /\ \A i \in DOMAIN truth : /\ ts[i].name = truth[i].name /\ ts[i].datatype = truth[i].datatype
                                    /\ AsNumpy(ts[i]) = Elements[i] \/ (AsNumpy(ts[i]) = Error /\ ~AllText(truth))
<1>0. DOMAIN ts = DOMAIN truth /\ \A i \in DOMAIN truth : ts[i] \in TensorSet /\ truth[i] \in Given
  <2>1. DOMAIN ts = DOMAIN truth
    BY DEF Faithful
  <2>2. DOMAIN ts = 1..Len(ts) /\ DOMAIN truth = 1..Len(truth)
    BY LenProperties
  <2> QED
    BY <2>1, <2>2, ElementOfSeq
<1>1. Len(ts) = Len(truth)
  BY <1>0, LenProperties
<1>2. ASSUME NEW i \in DOMAIN truth
      PROVE  /\ ts[i].name = truth[i].name /\ ts[i].datatype = truth[i].datatype
             /\ AsNumpy(ts[i]) = Elements[i] \/ (AsNumpy(ts[i]) = Error /\ ~AllText(truth))
  <2>1. Conveys(ts[i], truth[i])
    BY DEF Faithful
  <2>2. /\ ts[i].name = truth[i].name /\ ts[i].datatype = truth[i].datatype
        /\ AsNumpy(ts[i]) = truth[i].elements \/ (AsNumpy(ts[i]) = Error /\ ~HasText(truth[i]))
    BY <1>0, <2>1, ConveysIsRead
  <2>3. Elements[i] = truth[i].elements
    BY DEF Elements
  <2>4. AllText(truth) => HasText(truth[i])
    BY DEF AllText, HasText
  <2> QED
    BY <2>2, <2>3, <2>4
<1> QED
  BY <1>1, <1>2

\* Whoever holds tensors that carry the elements reads them.
LEMMA ValuesFollow == OpenIInv => ValuesArrive
<1> SUFFICES ASSUME OpenIInv  PROVE ValuesArrive
  OBVIOUS
<1> USE DEF OpenIInv, CarryingIInv
<1>1. InputsArrive
  <2> SUFFICES ASSUME pc = "held"
               PROVE  /\ Len(msg.inputs) = Len(truth)
                      /\ \A i \in DOMAIN truth :
                           /\ msg.inputs[i].name = truth[i].name /\ msg.inputs[i].datatype = truth[i].datatype
                           /\ AsNumpy(msg.inputs[i]) = Elements[i] \/ (AsNumpy(msg.inputs[i]) = Error /\ ~AllText(truth))
    BY DEF InputsArrive
  <2>1. msg \in RequestSet /\ Faithful(msg.inputs, truth) /\ truth \in Seq(Given)
    BY DEF RequestsRight, ClientRight
  <2> QED
    BY <2>1, RequestHas, FaithfulIsRead
<1>2. OutputsArrive
  <2> SUFFICES ASSUME pc = "received", ~mixed, NEW i \in DOMAIN msg.tensors
               PROVE  \E j \in DOMAIN result.outputs :
                         /\ msg.tensors[i].name = result.outputs[j].name
                         /\ AsNumpy(msg.tensors[i]) = result.outputs[j].elements
    BY DEF OutputsArrive
  <2>1. PICK qs : Chosen(qs, result.outputs) /\ Intact(msg.tensors, qs)
    BY DEF ResponsesRight
  <2>2. i \in DOMAIN qs /\ Carries(msg.tensors[i], qs[i])
    BY <2>1 DEF Intact
  <2>3. PICK j \in DOMAIN result.outputs : qs[i] = result.outputs[j]
    BY <2>1, <2>2 DEF Chosen
  <2>4. qs[i] \in Given
    BY <2>1, <2>2, GivenSeq DEF Chosen
  <2>5. AsNumpy(msg.tensors[i]) = qs[i].elements /\ msg.tensors[i].name = qs[i].name
    BY <2>2, <2>4, CarriesIsRead DEF Carries, SameHead
  <2> QED
    BY <2>3, <2>5
<1>3. SendingKeepsValues
  <2> SUFFICES ASSUME AllText(truth)  PROVE [i \in DOMAIN truth |-> AsNumpy(client.inputs[i])] = Elements
    BY DEF SendingKeepsValues
  <2>1. client \in RequestSet /\ Faithful(client.inputs, truth) /\ truth \in Seq(Given)
    BY DEF ClientRight
  <2>2. \A i \in DOMAIN truth : AsNumpy(client.inputs[i]) = Elements[i]
    BY <2>1, RequestHas, FaithfulIsRead
  <2>3. Elements = [i \in DOMAIN truth |-> Elements[i]]
    BY DEF Elements
  <2> QED
    BY <2>2, <2>3
<1> QED
  BY <1>1, <1>2, <1>3 DEF ValuesArrive

\* The form of the messages follows from the invariant.
LEMMA FormFollows == OpenIInv => MessagesInForm
<1> SUFFICES ASSUME OpenIInv  PROVE MessagesInForm
  OBVIOUS
<1> USE DEF OpenIInv, CarryingIInv
<1>1. ASSUME pc \in {"sent", "replied"}  PROVE MessageForm(msg, Protocol)
  BY <1>1 DEF RequestsRight, ResponsesRight
<1>2. OpenTypeOK
  <2>1. /\ pc \in {"idle", "sent", "held", "predicted", "replied", "received", "refused"}
        /\ path \in Paths \cup {<<>>} /\ node \in 0..Len(path) /\ sends \in 0..MaxSends
    BY DEF PathRight
  <2>2. client \in RequestSet /\ \A i \in DOMAIN client.inputs : client.inputs[i].data = None \/ client.inputs[i].raw = None
    BY DEF ClientRight, Faithful
  <2>3. /\ pc = "sent" => msg \in RequestMessages
        /\ pc = "held" => msg \in RequestSet
    BY DEF RequestsRight
  <2>4. /\ pc \in {"predicted", "received"} => msg \in ResponseSet
        /\ pc = "replied" => msg \in ResponseMessages
    BY DEF ResponsesRight
  <2>5. pc \in {"sent", "replied"} =>
           /\ Protocol = "grpc" =>
                Len(msg.raws) = Cardinality({i \in DOMAIN msg.tensors : msg.tensors[i].data = None})
           /\ Len(msg.raws) <= Len(msg.tensors)
    BY <1>1 DEF MessageForm
  <2> QED
    BY <2>1, <2>2, <2>3, <2>4, <2>5 DEF OpenTypeOK
<1>3. Fp16OnlyBinary
  BY <1>1 DEF Fp16OnlyBinary, MessageForm
<1> QED
  BY <1>2, <1>3 DEF MessagesInForm

\* Always, as_numpy reads at the server what the client put in its tensors, at the
\* client what the model returned, and in the next attempt what it was in the
\* first; an error is possible only where a string is not UTF-8, a difference only
\* where a gRPC response mixed contents with raw contents.
THEOREM ValuesSafety == OpenSpec => []ValuesArrive
BY CarryingInvariance, ValuesFollow, PTL

\* Always, the messages have their types, gRPC messages have contents or raw
\* contents, the reply of the predictor has the outputs asked for as binary data or
\* not as asked, and FP16 is never written as data.
THEOREM FormSafety == OpenSpec => []MessagesInForm
BY CarryingInvariance, FormFollows, PTL

-----------------------------------------------------------------------------
(* Plain tensors.                                                          *)

\* An ordinary tensor: numbers or text, some, and not FP16.
Plain(r) == HasText(r) /\ r.elements # <<>> /\ r.datatype # "FP16"
AllPlain(rs) == \A i \in DOMAIN rs : Plain(rs[i])

\* A plain tensor is read, and is not empty.
LEMMA PlainCarries ==
  ASSUME NEW t \in TensorSet, NEW r \in Given, Plain(r), Carries(t, r)
  PROVE  /\ t.datatype = r.datatype /\ t.datatype # "FP16" /\ AsNumpy(t) = r.elements /\ r.elements # Error
         /\ OneRaw(t) => /\ t.raw = Raw(r) /\ Raw(r) # <<>> /\ Raw(r) # None /\ ~Is(t.data, "array") /\ Empty(t.data)
         /\ OneData(t) \/ OneKind(t, "array") => t.data # None /\ t.data.elements = r.elements /\ ~Empty(t.data)
         /\ OneData(t) => ~Is(t.data, "array")
<1>1. t.datatype = r.datatype /\ t.datatype # "FP16" /\ AsNumpy(t) = r.elements /\ r.elements # Error
  BY GivenHas, Nothing, CarriesIsRead DEF Carries, SameHead, Plain
<1>2. ASSUME OneRaw(t)
      PROVE  /\ t.raw = Raw(r) /\ Raw(r) # <<>> /\ Raw(r) # None /\ ~Is(t.data, "array") /\ Empty(t.data)
  <2>1. t.raw = Raw(r) /\ (t.data = None \/ (t.data.elements = <<>> /\ t.data.kind # "array"))
    BY <1>2 DEF OneRaw, Carries
  <2>2. Raw(r) # <<>> /\ Raw(r) # None
    BY RawEmpty, RawBack, Nothing DEF Plain
  <2> QED
    BY <2>1, <2>2 DEF Is, Empty
<1>3. ASSUME OneData(t) \/ OneKind(t, "array")
      PROVE  t.data # None /\ t.data.elements = r.elements /\ ~Empty(t.data)
  <2>1. t.raw = None /\ t.data # None
    BY <1>3 DEF OneData, OneKind, Is
  <2>2. t.raw # Raw(r)
    BY <2>1, RawBack, Nothing
  <2> QED
    BY <2>1, <2>2 DEF Carries, Empty, Plain
<1>4. OneData(t) => ~Is(t.data, "array")
  BY DEF OneData, Is
<1> QED
  BY <1>1, <1>2, <1>3, <1>4

\* What a step makes of a plain tensor: data, or raw data.
StepOfData(x) == x.ok /\ DataWire(x.wire) /\ x.raw = None
StepOfRaw(x) == x.ok /\ RawWire(x.wire) /\ x.raw # None

\* A tensor with raw data and its size is written as it is.
LEMMA WroteRaw ==
  ASSUME NEW u, u.raw # None, u.size # None
  PROVE  StepOfRaw(Wrote(u, None, u.raw)) /\ Wrote(u, None, u.raw).tensor = u
BY OnWireHas DEF Wrote, StepOfRaw, RawWire

\* A tensor with data and no size is written as it is.
LEMMA WroteData ==
  ASSUME NEW u, NEW data, data # None, u.size = None
  PROVE  StepOfData(Wrote(u, data, None)) /\ Wrote(u, data, None).tensor = u
BY OnWireHas DEF Wrote, StepOfData, DataWire

\* to_rest writes a plain input in its own form, an array as a list.
LEMMA PlainToRest ==
  ASSUME NEW t \in TensorSet, NEW r \in Given, Plain(r), Carries(t, r)
  PROVE  LET x == InputToRest(t)
         IN /\ OneRaw(t) => StepOfRaw(x) /\ x.tensor = t
            /\ OneData(t) => StepOfData(x) /\ x.tensor = t
            /\ OneKind(t, "array") => StepOfData(x) /\ OneKind(x.tensor, "list")
<1> DEFINE set == IF Is(t.data, "array") THEN SetText(t, t.data.elements) ELSE Done(t)
           u == set.tensor
           x == InputToRest(t)
<1>1. ~(t.data = None /\ t.raw = None)
  BY RawBack, Nothing DEF Carries
<1>2. x = IF \/ ~set.ok
             \/ ~Empty(u.data) /\ u.raw \notin {None, <<>>}
             \/ u.datatype = "FP16" /\ ~Empty(u.data)
          THEN Failed(u)
          ELSE IF u.raw \notin {None, <<>>} THEN Wrote(u, None, u.raw)
          ELSE Wrote(u, Values(u.data), None)
  BY <1>1 DEF InputToRest
<1>3. ~Is(t.data, "array") => set.ok /\ u = t
  BY DEF Done
<1>4. t.datatype = r.datatype /\ t.datatype # "FP16"
  BY PlainCarries
<1>5. ASSUME OneRaw(t)  PROVE StepOfRaw(x) /\ x.tensor = t
  <2>1. t.raw = Raw(r) /\ Raw(r) # <<>> /\ Raw(r) # None /\ ~Is(t.data, "array") /\ Empty(t.data)
    BY <1>5, PlainCarries
  <2>2. set.ok /\ u = t
    BY <1>3, <2>1
  <2> HIDE DEF set, u, x
  <2>3. x = Wrote(t, None, t.raw)
    BY <1>2, <1>4, <2>1, <2>2
  <2> QED
    BY <1>5, <2>3, WroteRaw DEF OneRaw
<1>6. ASSUME OneData(t)  PROVE StepOfData(x) /\ x.tensor = t
  <2>1. t.data # None /\ t.data.elements \in Arrays /\ ~Is(t.data, "array") /\ t.raw = None /\ t.size = None
    BY <1>6, PlainCarries, TensorHas DEF OneData
  <2>2. set.ok /\ u = t
    BY <1>3, <2>1
  <2>3. Values(t.data) # None
    BY <2>1, Nothing DEF Values
  <2> HIDE DEF set, u, x
  <2>4. x = Wrote(t, Values(t.data), None)
    BY <1>2, <1>4, <2>1, <2>2
  <2> QED
    BY <2>1, <2>3, <2>4, WroteData
<1>7. ASSUME OneKind(t, "array")  PROVE StepOfData(x) /\ OneKind(x.tensor, "list")
  <2>1. Is(t.data, "array") /\ t.data.elements = r.elements /\ r.elements \in Arrays
    BY <1>7, PlainCarries, GivenHas DEF OneKind
  <2>2. Texted(set, t, r.elements)
    BY <2>1, SetTextDoes
  <2> HIDE DEF set
  <2>3. /\ set.ok /\ u.raw = None /\ u.size = None /\ u.data # None /\ u.data.kind = "list"
        /\ u.data.elements = r.elements /\ u.datatype = t.datatype
    BY <2>2 DEF Texted, Same, Plain, HasText
  <2> HIDE DEF u, x
  <2>4. x = Wrote(u, Values(u.data), None)
    BY <1>2, <1>4, <2>3
  <2>5. Values(u.data) # None
    BY <2>1, <2>3, Nothing DEF Values
  <2> QED
    BY <2>3, <2>4, <2>5, WroteData DEF OneKind, Is
<1> QED
  BY <1>5, <1>6, <1>7

\* to_grpc writes a tensor that is not FP16 in its own form.
LEMMA PlainTensorToGrpc ==
  ASSUME NEW t \in TensorSet, t.datatype # "FP16"
  PROVE  LET x == TensorToGrpc(t)
         IN /\ t.raw # None /\ t.size # None => StepOfRaw(x) /\ x.tensor = t
            /\ OneData(t) => StepOfData(x) /\ (t.datatype # "BYTES" => x.tensor = t)
<1> DEFINE x == TensorToGrpc(t)
           u == IF t.datatype = "BYTES" THEN [t EXCEPT !.data.kind = "bytes"] ELSE t
<1>1. ASSUME t.raw # None, t.size # None  PROVE StepOfRaw(x) /\ x.tensor = t
  <2>1. x = Wrote(t, None, t.raw)
    BY <1>1 DEF TensorToGrpc
  <2> QED
    BY <1>1, <2>1, WroteRaw
<1>2. ASSUME OneData(t)  PROVE StepOfData(x) /\ (t.datatype # "BYTES" => x.tensor = t)
  <2>1. t.raw = None /\ t.data # None /\ t.size = None /\ t.data \in DataSet
    BY <1>2, TensorHas DEF OneData
  <2>2. x = Wrote(u, u.data.elements, None)
    BY <2>1 DEF TensorToGrpc
  <2>3. u.size = None /\ u.data.elements # None /\ (t.datatype # "BYTES" => u = t)
    <3>1. CASE t.datatype = "BYTES"
      <4> DEFINE d == [t.data EXCEPT !.kind = "bytes"]
      <4>1. d.elements = t.data.elements
        BY <2>1 DEF DataSet
      <4>2. u = [t EXCEPT !.data = d]
        BY <3>1 DEF TensorSet
      <4> HIDE DEF d
      <4>3. u.size = t.size /\ u.data = d
        BY <4>2 DEF TensorSet
      <4> QED
        BY <2>1, <3>1, <4>1, <4>3, TensorHas, Nothing
    <3>2. CASE t.datatype # "BYTES"
      BY <2>1, <3>2, TensorHas, Nothing
    <3> QED
      BY <3>1, <3>2
  <2> HIDE DEF u, x
  <2> QED
    BY <2>2, <2>3, WroteData DEF x
<1> QED
  BY <1>1, <1>2

\* to_grpc writes a plain input in its own form, an array as raw data.
LEMMA PlainToGrpc ==
  ASSUME NEW t \in TensorSet, NEW r \in Given, Plain(r), Carries(t, r)
  PROVE  LET x == InputToGrpc(t)
         IN /\ OneRaw(t) => StepOfRaw(x) /\ x.tensor = t
            /\ OneData(t) => StepOfData(x) /\ (t.datatype # "BYTES" => x.tensor = t)
            /\ OneKind(t, "array") => StepOfRaw(x) /\ OneRaw(x.tensor)
<1> DEFINE x == InputToGrpc(t)
<1>1. t.datatype = r.datatype /\ t.datatype # "FP16"
  BY PlainCarries
<1>2. ASSUME OneRaw(t)  PROVE StepOfRaw(x) /\ x.tensor = t
  <2>1. ~Is(t.data, "array") /\ t.raw # None /\ t.size # None
    BY <1>2, PlainCarries DEF OneRaw
  <2>2. x = TensorToGrpc(t)
    BY <2>1 DEF InputToGrpc
  <2> QED
    BY <1>1, <2>1, <2>2, PlainTensorToGrpc
<1>3. ASSUME OneData(t)  PROVE StepOfData(x) /\ (t.datatype # "BYTES" => x.tensor = t)
  <2>1. ~Is(t.data, "array")
    BY <1>3, PlainCarries
  <2>2. x = TensorToGrpc(t)
    BY <2>1 DEF InputToGrpc
  <2> QED
    BY <1>1, <1>3, <2>2, PlainTensorToGrpc
<1>4. ASSUME OneKind(t, "array")  PROVE StepOfRaw(x) /\ OneRaw(x.tensor)
  <2> DEFINE s == SetBinary(t, t.data.elements)
             u == s.tensor
  <2>1. Is(t.data, "array") /\ t.data.elements \in Arrays
    BY <1>4, TensorHas DEF OneKind, Is
  <2>2. Binaried(s, t, t.data.elements)
    BY <2>1, SetBinaryDoes
  <2>3. x = TensorToGrpc(u)
    BY <2>1 DEF InputToGrpc
  <2>4. Bytes(t.datatype, t.data.elements) # None /\ Len(Bytes(t.datatype, t.data.elements)) # None
    BY <2>1, TensorHas, BytesAre, Nothing
  <2> HIDE DEF s
  <2>5. u \in TensorSet /\ u.datatype # "FP16" /\ u.raw # None /\ u.size # None /\ u.data = None
    BY <1>1, <2>2, <2>4 DEF Binaried, Same
  <2> HIDE DEF u, x
  <2>6. StepOfRaw(TensorToGrpc(u)) /\ TensorToGrpc(u).tensor = u
    BY <2>5, PlainTensorToGrpc
  <2> QED
    BY <2>3, <2>5, <2>6 DEF OneRaw, x
<1> QED
  BY <1>2, <1>3, <1>4

\* Steps that are all alike make a message all alike.
LEMMA PlainWritten ==
  ASSUME NEW N \in Nat, NEW steps, NEW m, Together(m, steps, N)
  PROVE  /\ (\A i \in 1..N : StepOfRaw(steps[i])) => AllRawSent(m)
         /\ (\A i \in 1..N : StepOfData(steps[i])) => AllDataSent(m)
<1>1. /\ Len(m.tensors) = N /\ DOMAIN m.tensors = 1..N /\ (\A i \in 1..N : m.tensors[i] = steps[i].wire)
      /\ m.raws \in Seq(Seq(Nat)) /\ IsFiniteSet({i \in 1..N : steps[i].raw # None})
      /\ Len(m.raws) = Cardinality({i \in 1..N : steps[i].raw # None})
      /\ (\A i \in 1..N : steps[i].raw # None) => m.raws = [i \in 1..N |-> steps[i].raw]
  BY DEF Together, Arrays
<1>2. ASSUME \A i \in 1..N : StepOfRaw(steps[i])  PROVE AllRawSent(m)
  <2>1. m.raws = [i \in 1..N |-> steps[i].raw]
    BY <1>1, <1>2 DEF StepOfRaw
  <2>2. Len(m.raws) = N
    BY <2>1
  <2> QED
    BY <1>1, <1>2, <2>2 DEF AllRawSent, StepOfRaw
<1>3. ASSUME \A i \in 1..N : StepOfData(steps[i])  PROVE AllDataSent(m)
  <2> DEFINE some == {i \in 1..N : steps[i].raw # None}
  <2>1. some = {}
    BY <1>3 DEF StepOfData
  <2>2. Len(m.raws) = Cardinality(some)
    BY <1>1
  <2> HIDE DEF some
  <2>3. Len(m.raws) = 0
    BY <2>1, <2>2, FS_EmptySet
  <2>4. m.raws = <<>>
    BY <1>1, <2>3, EmptySeq
  <2> QED
    BY <1>1, <1>3, <2>4 DEF AllDataSent, StepOfData
<1> QED
  BY <1>2, <1>3

\* A message of steps that wrote is a request.
LEMMA WholeTyped ==
  ASSUME NEW q \in RequestSet, NEW protocol \in {"rest", "grpc"}, AllOk(Steps(q, protocol))
  PROVE  /\ Whole(q, Steps(q, protocol)) \in RequestMessages
         /\ Together(Whole(q, Steps(q, protocol)), Steps(q, protocol), Len(q.inputs))
<1> DEFINE steps == Steps(q, protocol)
           N == Len(q.inputs)
           m == Whole(q, steps)
<1>0. N \in Nat /\ DOMAIN q.inputs = 1..N /\ DOMAIN steps = 1..N
  BY RequestHas DEF Steps
<1>1. \A i \in 1..N : StepTyped(steps[i], q.inputs[i])
  BY <1>0, StepsTyped
<1>2. AllOk(steps)
  OBVIOUS
<1>3. m = [tensors |-> Written(steps).tensors, raws |-> Written(steps).raws, binary |-> q.binary, outputs |-> q.outputs]
  BY DEF Whole
<1> HIDE DEF steps, m, N
<1>4. \A i \in 1..N : steps[i].wire \in WireSet /\ steps[i].raw \in Seq(Nat) \cup {None}
  BY <1>0, <1>1, <1>2 DEF StepTyped, AllOk
<1>5. Together(Written(steps), steps, N)
  BY <1>0, <1>4, WrittenDoes
<1>6. Written(steps).tensors \in Seq(WireSet) /\ Written(steps).raws \in Arrays
  BY <1>5 DEF Together
<1>7. m \in RequestMessages /\ m.tensors = Written(steps).tensors /\ m.raws = Written(steps).raws
  BY <1>3, <1>6, RequestHas DEF RequestMessages
<1>8. Together(m, steps, N)
  BY <1>5, <1>7 DEF Together
<1> QED
  BY <1>7, <1>8 DEF m, steps, N

\* A plain request is encoded, except that JSON has no bytes objects.
PlainEncoded(e, q, protocol) ==
  /\ AllRaw(q.inputs) => e.message # Error /\ AllRawSent(e.message) /\ AllRaw(e.request.inputs)
  /\ AllData(q.inputs) =>
       /\ e.message # Error => AllDataSent(e.message)
       /\ protocol = "rest" /\ NoBytes(q.inputs) =>
            e.message # Error /\ (NoStrings(q.inputs) => e.request.inputs = q.inputs)
       /\ protocol = "grpc" => e.message # Error /\ (NoStrings(q.inputs) => e.request.inputs = q.inputs)
  /\ DataOfKind(q.inputs, "array") =>
       /\ e.message # Error
       /\ \/ AllRawSent(e.message) /\ AllRaw(e.request.inputs)
          \/ AllDataSent(e.message) /\ DataOfKind(e.request.inputs, "list")

\* What to_rest and to_grpc make of a plain request.
LEMMA EncodePlain ==
  ASSUME NEW q \in RequestSet, NEW protocol \in {"rest", "grpc"},
         NEW rs \in Seq(Given), AllPlain(rs), Intact(q.inputs, rs)
  PROVE  PlainEncoded(EncodeRequest(q, protocol), q, protocol)
<1> DEFINE steps == Steps(q, protocol)
           N == Len(q.inputs)
           c == Converted(q.inputs, steps)
           e == EncodeRequest(q, protocol)
<1>0. /\ N \in Nat /\ DOMAIN q.inputs = 1..N /\ DOMAIN steps = 1..N
      /\ \A i \in 1..N : /\ q.inputs[i] \in TensorSet /\ rs[i] \in Given /\ Plain(rs[i]) /\ Carries(q.inputs[i], rs[i])
                         /\ steps[i] = IF protocol = "rest" THEN InputToRest(q.inputs[i]) ELSE InputToGrpc(q.inputs[i])
  <2>1. N \in Nat /\ DOMAIN q.inputs = 1..N /\ DOMAIN steps = 1..N /\ \A i \in 1..N : q.inputs[i] \in TensorSet
    BY RequestHas DEF Steps
  <2>2. DOMAIN rs = DOMAIN q.inputs /\ \A i \in DOMAIN rs : Plain(rs[i]) /\ Carries(q.inputs[i], rs[i])
    BY DEF Intact, AllPlain
  <2>3. \A i \in 1..N : steps[i] = IF protocol = "rest" THEN InputToRest(q.inputs[i]) ELSE InputToGrpc(q.inputs[i])
    BY <2>1 DEF Steps
  <2> HIDE DEF N, steps
  <2> QED
    BY <2>1, <2>2, <2>3, GivenSeq
<1>1. /\ e.request = [q EXCEPT !.inputs = c]
      /\ e.message # Error => AllOk(steps) /\ e.message = Whole(q, steps)
      /\ e.message = Error =>
           \/ ~AllOk(steps)
           \/ protocol = "rest" /\ \E i \in DOMAIN steps :
                                     Is(steps[i].tensor.data, "bytes") /\ ~Empty(steps[i].tensor.data)
           \/ Error = Whole(q, steps)
  <2>1. steps = Steps(q, protocol)
    OBVIOUS
  <2> HIDE DEF steps
  <2> QED
    BY <2>1, EncodeRequestIs
<1>2. /\ DOMAIN c = 1..N /\ AllOk(steps) => \A i \in 1..N : c[i] = steps[i].tensor
  BY <1>0, ConvertedIs
<1>3. AllOk(steps) => Whole(q, steps) # Error /\ Together(Whole(q, steps), steps, N)
  BY WholeTyped, Nothing
<1>4. DOMAIN c = 1..N /\ c \in Seq(TensorSet) /\ q.inputs \in Seq(TensorSet)
  BY <1>0, ConvertedIs, RequestHas
<1> HIDE DEF steps, c, e, N
<1>5. e.request.inputs = c
  BY <1>1 DEF RequestSet
<1>6. ASSUME \A i \in 1..N : steps[i].ok
      PROVE  /\ AllOk(steps) /\ (\A i \in 1..N : c[i] = steps[i].tensor)
             /\ Whole(q, steps) # Error /\ Together(Whole(q, steps), steps, N)
  BY <1>0, <1>2, <1>3, <1>4, <1>6 DEF AllOk
<1>7. ASSUME AllRaw(q.inputs)
      PROVE  e.message # Error /\ AllRawSent(e.message) /\ AllRaw(c)
  <2>1. \A i \in 1..N : StepOfRaw(steps[i]) /\ steps[i].tensor = q.inputs[i] /\ OneRaw(q.inputs[i])
    BY <1>0, <1>7, PlainToRest, PlainToGrpc DEF AllRaw
  <2>2. \A i \in 1..N : steps[i].ok /\ Empty(steps[i].tensor.data)
    BY <2>1 DEF StepOfRaw, OneRaw, Empty
  <2>3. e.message = Whole(q, steps) /\ e.message # Error
    BY <1>0, <1>1, <1>6, <2>2
  <2>4. AllRawSent(e.message)
    BY <1>0, <1>6, <2>1, <2>2, <2>3, PlainWritten
  <2>5. AllRaw(c)
    BY <1>4, <1>6, <2>1, <2>2 DEF AllRaw
  <2> QED
    BY <2>3, <2>4, <2>5
<1>8. ASSUME AllData(q.inputs)
      PROVE  /\ e.message # Error => AllDataSent(e.message)
             /\ protocol = "rest" /\ NoBytes(q.inputs) => e.message # Error /\ (NoStrings(q.inputs) => c = q.inputs)
             /\ protocol = "grpc" => e.message # Error /\ (NoStrings(q.inputs) => c = q.inputs)
  <2>1. \A i \in 1..N : StepOfData(steps[i])
    BY <1>0, <1>8, PlainToRest, PlainToGrpc DEF AllData
  <2>2. \A i \in 1..N : steps[i].tensor = q.inputs[i] \/ (protocol = "grpc" /\ q.inputs[i].datatype = "BYTES")
    BY <1>0, <1>8, PlainToRest, PlainToGrpc DEF AllData
  <2>3. \A i \in 1..N : steps[i].ok
    BY <2>1 DEF StepOfData
  <2>4. e.message # Error => AllDataSent(e.message)
    BY <1>0, <1>1, <1>6, <2>1, <2>3, PlainWritten
  <2>5. NoStrings(q.inputs) => c = q.inputs
    <3>1. ASSUME NoStrings(q.inputs)  PROVE c = q.inputs
      <4>1. \A i \in 1..N : c[i] = q.inputs[i]
        BY <1>0, <1>6, <2>2, <2>3, <3>1 DEF NoStrings
      <4>2. Len(c) = N /\ Len(q.inputs) = N
        BY <1>4, LenProperties DEF N
      <4> QED
        BY <1>4, <4>1, <4>2, SeqEqual
    <3> QED
      BY <3>1
  <2>6. protocol = "grpc" => e.message # Error
    BY <1>1, <1>6, <2>3
  <2>7. ASSUME protocol = "rest", NoBytes(q.inputs)  PROVE e.message # Error
    <3>1. \A i \in 1..N : ~Is(steps[i].tensor.data, "bytes")
      BY <1>0, <2>2, <2>7 DEF NoBytes
    <3> QED
      BY <1>0, <1>1, <1>6, <2>3, <3>1
  <2> QED
    BY <2>4, <2>5, <2>6, <2>7
<1>9. ASSUME DataOfKind(q.inputs, "array")
      PROVE  /\ e.message # Error
             /\ \/ AllRawSent(e.message) /\ AllRaw(c)
                \/ AllDataSent(e.message) /\ DataOfKind(c, "list")
  <2>1. CASE protocol = "rest"
    <3>1. \A i \in 1..N : StepOfData(steps[i]) /\ OneKind(steps[i].tensor, "list")
      BY <1>0, <1>9, <2>1, PlainToRest DEF DataOfKind
    <3>2. \A i \in 1..N : steps[i].ok /\ ~Is(steps[i].tensor.data, "bytes")
      BY <3>1 DEF StepOfData, OneKind, Is
    <3>3. e.message = Whole(q, steps) /\ e.message # Error
      BY <1>0, <1>1, <1>6, <3>2
    <3>4. AllDataSent(e.message)
      BY <1>0, <1>6, <3>1, <3>2, <3>3, PlainWritten
    <3>5. DataOfKind(c, "list")
      BY <1>4, <1>6, <3>1, <3>2 DEF DataOfKind
    <3> QED
      BY <3>3, <3>4, <3>5
  <2>2. CASE protocol = "grpc"
    <3>1. \A i \in 1..N : StepOfRaw(steps[i]) /\ OneRaw(steps[i].tensor)
      BY <1>0, <1>9, <2>2, PlainToGrpc DEF DataOfKind
    <3>2. \A i \in 1..N : steps[i].ok
      BY <3>1 DEF StepOfRaw
    <3>3. e.message = Whole(q, steps) /\ e.message # Error
      BY <1>0, <1>1, <1>6, <2>2, <3>2
    <3>4. AllRawSent(e.message)
      BY <1>0, <1>6, <3>1, <3>2, <3>3, PlainWritten
    <3>5. AllRaw(c)
      BY <1>4, <1>6, <3>1, <3>2 DEF AllRaw
    <3> QED
      BY <3>3, <3>4, <3>5
  <2> QED
    BY <2>1, <2>2
<1> QED
  BY <1>5, <1>7, <1>8, <1>9 DEF PlainEncoded, e

\* A tensor with its values in a list.
OneList(t) == OneData(t) /\ t.data.kind = "list"

\* A plain tensor is made of its slice, as a list.
LEMMA PlainSlice ==
  ASSUME NEW w \in WireSet, NEW r \in Given, Plain(r), WireCarries(w, r)
  PROVE  FromSlice(w, Raw(r)).ok /\ OneList(FromSlice(w, Raw(r)).tensor)
<1>1. FromSlice(w, Raw(r)).ok
  BY FromSliceCarries DEF Plain
<1>2. Sliced(FromSlice(w, Raw(r)), w)
  BY RawBack, FromSliceTyped
<1> QED
  BY <1>1, <1>2 DEF Sliced, OneList, OneData

\* A plain tensor is made of its data, as a list.
LEMMA PlainList ==
  ASSUME NEW w \in WireSet, DataWire(w)
  PROVE  OneList(Tensor(w, List(w.data), None))
BY ListTyped DEF DataWire, OneList, OneData

\* from_grpc makes raw data of raw contents, data of contents.
LEMMA PlainFromGrpc ==
  ASSUME NEW m, m.tensors \in Seq(WireSet), m.raws \in Arrays, NEW i \in DOMAIN m.tensors
  PROVE  /\ AllRawSent(m) => OneRaw(FromGrpc(m)[i])
         /\ AllDataSent(m) => /\ OneData(FromGrpc(m)[i])
                              /\ Is(FromGrpc(m)[i].data, "bytes") => m.tensors[i].datatype = "BYTES"
<1> DEFINE w == m.tensors[i]
           t == FromGrpc(m)[i]
           kind == IF w.datatype = "BYTES" THEN "bytes" ELSE "list"
           es == IF w.data = None THEN <<>> ELSE w.data
           raw == IF i \in DOMAIN m.raws THEN m.raws[i] ELSE None
<1>1. Of(t, w, Data(kind, es), raw)
  BY FromGrpcTyped
<1>2. w \in WireSet /\ <<>> \in Arrays /\ DOMAIN m.raws = 1..Len(m.raws) /\ DOMAIN m.tensors = 1..Len(m.tensors)
  BY LenProperties, ElementOfSeq DEF Arrays
<1>3. kind \in {"list", "bytes"} /\ es \in Arrays
  BY <1>2, WireHas
<1>4. ASSUME AllRawSent(m)  PROVE raw # None /\ es = <<>> /\ w.size # None
  <2>1. w.data = None /\ w.size # None /\ i \in DOMAIN m.raws
    BY <1>2, <1>4 DEF AllRawSent, RawWire
  <2>2. m.raws[i] \in Seq(Nat)
    BY <1>2, <2>1, ElementOfSeq DEF Arrays
  <2> QED
    BY <2>1, <2>2, Nothing
<1>5. ASSUME AllDataSent(m)  PROVE raw = None /\ w.size = None /\ (kind = "bytes" => w.datatype = "BYTES")
  <2>1. DOMAIN m.raws = {}
    BY <1>5 DEF AllDataSent
  <2>2. w.size = None
    BY <1>5 DEF AllDataSent, DataWire
  <2> QED
    BY <2>1, <2>2
<1> HIDE DEF w, t, kind, es, raw
<1>6. t.data # None /\ t.data.kind = kind /\ t.data.elements = es /\ t.raw = raw /\ t.size = w.size
  BY <1>1, <1>3, DataTyped DEF Of
<1> QED
  BY <1>3, <1>4, <1>5, <1>6 DEF OneRaw, OneData, Is, t, w

\* What is written for a plain tensor has all its elements.
LEMMA PlainWire ==
  ASSUME NEW w, NEW r \in Given, Plain(r), WireConveys(w, r)
  PROVE  WireCarries(w, r) /\ w.datatype = r.datatype /\ w.datatype # "FP16"
BY DEF WireConveys, WireCarries, Plain, SameHead

\* A plain request is accepted: over gRPC in the form it was written in, over REST
\* as lists.
LEMMA DecodePlain ==
  ASSUME NEW m, m.tensors \in Seq(WireSet), m.raws \in Arrays, NEW protocol \in {"rest", "grpc"},
         NEW rs \in Seq(Given), AllPlain(rs), MessageFaithful(m, rs, protocol), MessageForm(m, protocol),
         AllRawSent(m) \/ AllDataSent(m)
  PROVE  LET ts == DecodeInputs(m, protocol)
         IN /\ ts # Error
            /\ protocol = "grpc" /\ AllRawSent(m) => AllRaw(ts)
            /\ protocol = "grpc" /\ AllDataSent(m) =>
                 /\ AllData(ts)
                 /\ \A i \in DOMAIN ts : Is(ts[i].data, "bytes") => rs[i].datatype = "BYTES"
            /\ protocol = "rest" => \A i \in DOMAIN ts : OneList(ts[i])
<1> DEFINE ts == DecodeInputs(m, protocol)
<1>0. DOMAIN m.tensors = DOMAIN rs /\ RawsRight(m, rs, protocol)
  BY DEF MessageFaithful
<1>1. \A i \in DOMAIN rs : /\ m.tensors[i] \in WireSet /\ rs[i] \in Given /\ Plain(rs[i])
                           /\ WireConveys(m.tensors[i], rs[i]) /\ WireCarries(m.tensors[i], rs[i])
                           /\ m.tensors[i].datatype = rs[i].datatype /\ m.tensors[i].datatype # "FP16"
  <2>1. \A i \in DOMAIN rs : m.tensors[i] \in WireSet /\ rs[i] \in Given
    <3>1. DOMAIN rs = 1..Len(rs) /\ DOMAIN m.tensors = 1..Len(m.tensors)
      BY LenProperties
    <3> QED
      BY <1>0, <3>1, ElementOfSeq
  <2>2. \A i \in DOMAIN rs : Plain(rs[i]) /\ WireConveys(m.tensors[i], rs[i])
    BY DEF AllPlain, MessageFaithful
  <2> QED
    BY <2>1, <2>2, PlainWire
<1>2. CASE protocol = "grpc"
  <2>1. ValidGrpc(m)
    BY DEF ValidGrpc, AllRawSent, AllDataSent, RawWire
  <2>2. ts = FromGrpc(m)
    BY <1>2, <2>1 DEF DecodeInputs
  <2>3. ts # Error /\ DOMAIN ts = DOMAIN m.tensors
    BY <2>2, FromGrpcTyped DEF Received
  <2> HIDE DEF ts
  <2>4. AllRawSent(m) => AllRaw(ts)
    BY <2>2, <2>3, PlainFromGrpc DEF AllRaw
  <2>5. AllDataSent(m) => AllData(ts)
    BY <2>2, <2>3, PlainFromGrpc DEF AllData
  <2>6. AllDataSent(m) => \A i \in DOMAIN ts : Is(ts[i].data, "bytes") => rs[i].datatype = "BYTES"
    BY <1>0, <1>1, <2>2, <2>3, PlainFromGrpc
  <2> QED
    BY <1>2, <2>3, <2>4, <2>5, <2>6 DEF ts
<1>3. CASE protocol # "grpc" /\ m.raws # <<>>
  <2> DEFINE steps == InputSteps(m)
             taking == TakingInputs(m)
  <2>0. AllRawSent(m)
    BY <1>3 DEF AllDataSent
  <2>1. ts = AllDone(steps)
    BY <1>3, FromBytesAre DEF DecodeInputs
  <2>2. DOMAIN steps = DOMAIN m.tensors /\ \A i \in DOMAIN m.tensors : steps[i] = InputStep(m.tensors[i], Slices(m, taking)[i])
    BY DEF InputSteps
  <2>3. taking = DOMAIN rs
    BY <1>0, <2>0 DEF TakingInputs, AllRawSent, RawWire
  <2>4. \A i \in taking : Slices(m, taking)[i] = Raw(rs[i])
    <3>1. taking \in SUBSET (DOMAIN rs) /\ (\A i \in taking : m.tensors[i].size # None)
          /\ \A i \in DOMAIN rs : i \notin taking => m.tensors[i].data # None
      BY <2>3 DEF TakingInputs
    <3>2. RawsRight(m, rs, "rest")
      BY <1>0, <1>3
    <3> QED
      BY <1>0, <1>1, <3>1, <3>2, PartsAreSlices
  <2> HIDE DEF steps
  <2>5. \A i \in DOMAIN m.tensors : steps[i].ok /\ OneList(steps[i].tensor)
    <3> TAKE i \in DOMAIN m.tensors
    <3>1. m.tensors[i].data = None /\ m.tensors[i].size # None
      BY <2>0 DEF AllRawSent, RawWire
    <3>2. steps[i] = FromSlice(m.tensors[i], Raw(rs[i]))
      BY <1>0, <2>2, <2>3, <2>4, <3>1 DEF InputStep
    <3> QED
      BY <1>0, <1>1, <3>2, PlainSlice
  <2>6. AllDone(steps) = [i \in DOMAIN steps |-> steps[i].tensor]
    BY <2>2, <2>5, AllDoneIs DEF AllOk
  <2>7. DOMAIN AllDone(steps) = DOMAIN m.tensors /\ \A i \in DOMAIN m.tensors : OneList(AllDone(steps)[i])
    BY <2>2, <2>5, <2>6
  <2>8. AllDone(steps) # Error
    <3>1. \A i \in DOMAIN m.tensors : StepReceived(steps[i], m.tensors[i])
      BY SequenceOf DEF steps
    <3>2. AllDone(steps) \in Seq(TensorSet)
      <4>1. \A i \in DOMAIN m.tensors : steps[i].tensor \in TensorSet
        BY <2>5, <3>1 DEF StepReceived
      <4>2. Len(m.tensors) \in Nat /\ DOMAIN m.tensors = 1..Len(m.tensors)
        BY LenProperties
      <4> QED
        BY <2>2, <2>6, <4>1, <4>2
    <3> QED
      BY <3>2, Nothing
  <2> HIDE DEF ts
  <2> QED
    BY <1>3, <2>1, <2>7, <2>8 DEF ts
<1>4. CASE protocol # "grpc" /\ m.raws = <<>>
  <2> DEFINE steps == JsonSteps(m)
  <2>1. ts = AllDone(steps)
    BY <1>4, FromBytesAre DEF DecodeInputs
  <2>2. DOMAIN steps = DOMAIN m.tensors /\ \A i \in DOMAIN m.tensors : steps[i] = JsonStep(m.tensors[i])
    BY DEF JsonSteps
  <2>3. \A i \in DOMAIN m.tensors : DataWire(m.tensors[i])
    <3>1. CASE AllDataSent(m)
      BY <3>1 DEF AllDataSent
    <3>2. CASE AllRawSent(m)
      <4>1. DOMAIN m.tensors = 1..Len(m.tensors) /\ Len(m.tensors) = 0
        BY <1>4, <3>2, LenProperties DEF AllRawSent
      <4>2. DOMAIN m.tensors = {}
        BY <4>1
      <4> QED
        BY <4>2
    <3> QED
      BY <3>1, <3>2
  <2> HIDE DEF steps
  <2>5. \A i \in DOMAIN m.tensors : steps[i].ok /\ OneList(steps[i].tensor)
    <3> TAKE i \in DOMAIN m.tensors
    <3> DEFINE t == Tensor(m.tensors[i], List(m.tensors[i].data), None)
    <3>1. m.tensors[i].data # None /\ m.tensors[i].datatype # "FP16" /\ OneList(t)
      BY <1>0, <1>1, <2>3, PlainList DEF DataWire
    <3>2. steps[i] = Done(t)
      BY <2>2, <3>1 DEF JsonStep
    <3> HIDE DEF t
    <3> QED
      BY <3>1, <3>2 DEF Done
  <2>6. AllDone(steps) = [i \in DOMAIN steps |-> steps[i].tensor]
    BY <2>2, <2>5, AllDoneIs DEF AllOk
  <2>7. DOMAIN AllDone(steps) = DOMAIN m.tensors /\ \A i \in DOMAIN m.tensors : OneList(AllDone(steps)[i])
    BY <2>2, <2>5, <2>6
  <2>8. AllDone(steps) # Error
    <3>1. \A i \in DOMAIN m.tensors : StepReceived(steps[i], m.tensors[i])
      BY SequenceOf DEF steps
    <3>2. AllDone(steps) \in Seq(TensorSet)
      <4>1. \A i \in DOMAIN m.tensors : steps[i].tensor \in TensorSet
        BY <2>5, <3>1 DEF StepReceived
      <4>2. Len(m.tensors) \in Nat /\ DOMAIN m.tensors = 1..Len(m.tensors)
        BY LenProperties
      <4> QED
        BY <2>2, <2>6, <4>1, <4>2
    <3> QED
      BY <3>2, Nothing
  <2> HIDE DEF ts
  <2> QED
    BY <1>4, <2>1, <2>7, <2>8 DEF ts
<1> QED
  BY <1>2, <1>3, <1>4

-----------------------------------------------------------------------------
(* Plain responses.                                                        *)

\* to_rest writes a plain output in the form asked for.
LEMMA PlainOutputToRest ==
  ASSUME NEW t \in TensorSet, NEW binary \in BOOLEAN, NEW r \in Given, Plain(r), Carries(t, r)
  PROVE  LET x == OutputToRest(t, binary) IN IF binary THEN StepOfRaw(x) ELSE StepOfData(x)
<1> DEFINE s == Shown(t, binary)
           u == s.tensor
           x == OutputToRest(t, binary)
<1>1. /\ s.ok
      /\ binary => u.data = None /\ u.raw # None /\ u.size # None
      /\ ~binary => u.data # None /\ u.raw = None /\ u.size = None
  BY ShownCarries DEF Plain
<1>2. u \in TensorSet /\ u.datatype # "FP16"
  <2>1. ShownAs(s, t, binary) /\ t.datatype # "FP16"
    BY ShownTyped, PlainCarries
  <2> HIDE DEF s
  <2> QED
    BY <2>1 DEF ShownAs, Same
<1>3. ~(t.data = None /\ t.raw = None)
  BY RawBack, Nothing DEF Carries
<1>4. x = IF \/ ~s.ok
             \/ s.tensor.datatype = "FP16" /\ ~Empty(s.tensor.data)
             \/ binary /\ s.tensor.raw = None
          THEN Failed(s.tensor)
          ELSE IF binary THEN Wrote(s.tensor, None, s.tensor.raw) ELSE Wrote(s.tensor, Values(s.tensor.data), None)
  <2>1. s = Shown(t, binary)
    OBVIOUS
  <2> HIDE DEF s
  <2> QED
    BY <1>3, <2>1, OutputToRestIs
<1> HIDE DEF s, x
<1>5. x = IF binary THEN Wrote(u, None, u.raw) ELSE Wrote(u, Values(u.data), None)
  BY <1>1, <1>2, <1>4
<1>6. ~binary => Values(u.data) # None
  BY <1>1, <1>2, TensorHas, Nothing DEF Values
<1> HIDE DEF u
<1>7. CASE binary
  BY <1>1, <1>5, <1>7, WroteRaw DEF x
<1>8. CASE ~binary
  BY <1>1, <1>5, <1>6, <1>8, WroteData DEF x
<1> QED
  BY <1>7, <1>8

\* to_grpc writes a plain output.
LEMMA PlainOutputToGrpc ==
  ASSUME NEW t \in TensorSet, NEW raw \in BOOLEAN, NEW r \in Given, Plain(r), Carries(t, r)
  PROVE  LET x == OutputToGrpc(t, raw)
         IN /\ OneRaw(t) => StepOfRaw(x)
            /\ OneData(t) => IF raw THEN StepOfRaw(x) ELSE StepOfData(x)
<1> DEFINE x == OutputToGrpc(t, raw)
<1>1. ASSUME OneRaw(t)  PROVE StepOfRaw(x)
  <2>1. ~Is(t.data, "array") /\ Empty(t.data)
    BY <1>1, PlainCarries
  <2>2. x = InputToGrpc(t)
    BY <2>1 DEF OutputToGrpc
  <2> QED
    BY <1>1, <2>2, PlainToGrpc
<1>2. ASSUME OneData(t), ~raw  PROVE StepOfData(x)
  <2>1. x = InputToGrpc(t)
    BY <1>2 DEF OutputToGrpc
  <2> QED
    BY <1>2, <2>1, PlainToGrpc
<1>3. ASSUME OneData(t), raw  PROVE StepOfRaw(x)
  <2> DEFINE s == SetBinary(t, r.elements)
             u == s.tensor
  <2>1. ~Is(t.data, "array") /\ ~Empty(t.data) /\ AsNumpy(t) = r.elements /\ AsNumpy(t) # Error /\ t.datatype # "FP16"
    BY <1>3, PlainCarries
  <2>2. x = TensorToGrpc(u)
    BY <1>3, <2>1 DEF OutputToGrpc
  <2>3. r.elements \in Arrays
    BY GivenHas
  <2>4. Binaried(s, t, r.elements)
    BY <2>3, SetBinaryDoes
  <2>5. Bytes(t.datatype, r.elements) # None /\ Len(Bytes(t.datatype, r.elements)) # None
    BY <2>3, TensorHas, BytesAre, Nothing
  <2> HIDE DEF s
  <2>6. u \in TensorSet /\ u.datatype # "FP16" /\ u.raw # None /\ u.size # None
    BY <2>1, <2>4, <2>5 DEF Binaried, Same
  <2> HIDE DEF u
  <2> QED
    BY <2>2, <2>6, PlainTensorToGrpc
<1> QED
  BY <1>1, <1>2, <1>3

\* Every output asked for is there.
LEMMA SelectedAll ==
  ASSUME NEW q \in ResponseSet, NEW N \in Nat, Picks(Selected(q), q, N),
         q.outputs # None => \A i \in DOMAIN q.outputs : \E j \in DOMAIN q.tensors : q.tensors[j].name = q.outputs[i].name
  PROVE  \A i \in 1..N : Selected(q)[i].tensor # None
<1> DEFINE S == Selected(q)
<1>0. N \in Nat /\ DOMAIN S = 1..N
  BY DEF Picks
<1>1. CASE q.outputs = None
  <2>1. S = [i \in DOMAIN q.tensors |-> [tensor |-> q.tensors[i], binary |-> q.binary]]
    BY <1>1 DEF Selected
  <2>2. \A i \in DOMAIN q.tensors : q.tensors[i] \in TensorSet /\ q.tensors[i] # None
    BY ResponseHas, OpenAssumption
  <2>3. \A i \in 1..N : S[i].tensor # None
    BY <1>0, <2>1, <2>2
  <2> QED
    BY <2>3
<1>2. CASE q.outputs # None
  <2>1. S = [i \in DOMAIN q.outputs |-> [tensor |-> ByName(q.tensors, q.outputs[i].name),
                                         binary |-> q.outputs[i].binary = TRUE]]
    BY <1>2 DEF Selected
  <2>2. \A i \in DOMAIN q.outputs : ByName(q.tensors, q.outputs[i].name) # None
    BY <1>2, ResponseHas, ByNameIs
  <2>3. \A i \in 1..N : S[i].tensor # None
    BY <1>0, <2>1, <2>2
  <2> QED
    BY <2>3
<1> QED
  BY <1>1, <1>2

\* A plain response goes over REST if it has the outputs asked for.
LEMMA PlainRestReply ==
  ASSUME NEW q \in ResponseSet, NEW qs \in Seq(Given), AllPlain(qs), Intact(q.tensors, qs),
         q.outputs # None => \A i \in DOMAIN q.outputs : \E j \in DOMAIN q.tensors : q.tensors[j].name = q.outputs[i].name
  PROVE  LET m == ResponseToRest(q)
         IN m # Error /\ \A i \in DOMAIN m.tensors : RawWire(m.tensors[i]) \/ DataWire(m.tensors[i])
<1> DEFINE S == Selected(q)
           steps == RestSteps(q)
           m == Written(steps)
<1>1. PICK N \in Nat : Picks(S, q, N)
  BY SelectedIs
<1>2. \A i \in 1..N : S[i].tensor # None
  BY <1>1, SelectedAll
<1>3. DOMAIN steps = 1..N /\ steps = [i \in DOMAIN steps |-> steps[i]] /\ \A i \in 1..N : steps[i] = RestStep(S[i])
  BY <1>1 DEF Picks, RestSteps
<1>4. /\ ResponseToRest(q) # Error => ResponseToRest(q) = m
      /\ ResponseToRest(q) = Error =>
           \/ ~AllOk(steps)
           \/ m.raws = <<>> /\ \E i \in DOMAIN m.tensors : m.tensors[i].data = None
           \/ Error = m
  BY RepliesAre
<1> HIDE DEF S, steps
<1>5. DOMAIN q.tensors = DOMAIN qs
      /\ \A j \in DOMAIN qs : qs[j] \in Given /\ Carries(q.tensors[j], qs[j]) /\ Plain(qs[j]) /\ q.tensors[j] \in TensorSet
  BY GivenSeq, ResponseHas DEF Intact, AllPlain
<1>6. ASSUME NEW i \in 1..N
      PROVE  IF S[i].binary THEN StepOfRaw(steps[i]) ELSE StepOfData(steps[i])
  <2>1. PICK j \in DOMAIN q.tensors : S[i].tensor = q.tensors[j]
    BY <1>1, <1>2 DEF Picks
  <2>2. S[i].binary \in BOOLEAN
    BY <1>1 DEF Picks
  <2>3. steps[i] = OutputToRest(q.tensors[j], S[i].binary)
    BY <1>2, <1>3, <2>1 DEF RestStep
  <2> QED
    BY <1>5, <2>2, <2>3, PlainOutputToRest
<1>7. \A i \in 1..N : steps[i].ok
  BY <1>6 DEF StepOfRaw, StepOfData
<1>8. AllOk(steps)
  BY <1>3, <1>7 DEF AllOk
<1>9. \A i \in 1..N : S[i].tensor # None /\ RestOutput(steps[i], S[i].tensor, S[i].binary)
  BY <1>1, <1>3, <1>7, RestStepDoes
<1>10. WrittenRight(m, steps, N)
  BY <1>3, <1>8, <1>9, WrittenIsRight DEF RestOutput, StepTyped
<1> HIDE DEF m
<1>11. m \in ResponseMessages /\ Together(m, steps, N)
  BY <1>10 DEF WrittenRight
<1>12. DOMAIN m.tensors = 1..N /\ (\A i \in 1..N : m.tensors[i] = steps[i].wire) /\ m.raws \in Seq(Seq(Nat))
       /\ IsFiniteSet({i \in 1..N : steps[i].raw # None}) /\ Len(m.raws) = Cardinality({i \in 1..N : steps[i].raw # None})
  BY <1>11 DEF Together, Arrays
<1>13. ~(m.raws = <<>> /\ \E i \in DOMAIN m.tensors : m.tensors[i].data = None)
  <2> SUFFICES ASSUME NEW i \in 1..N, m.tensors[i].data = None  PROVE m.raws # <<>>
    BY <1>12
  <2> DEFINE some == {j \in 1..N : steps[j].raw # None}
  <2>1. steps[i].raw # None
    BY <1>6, <1>12 DEF StepOfRaw, StepOfData, DataWire
  <2>2. some # {}
    BY <2>1
  <2>3. IsFiniteSet(some) /\ Len(m.raws) = Cardinality(some)
    BY <1>12
  <2> HIDE DEF some
  <2>4. Cardinality(some) # 0
    BY <2>2, <2>3, FS_EmptySet
  <2> QED
    BY <2>3, <2>4
<1>14. ResponseToRest(q) # Error /\ ResponseToRest(q) = m
  BY <1>4, <1>8, <1>11, <1>13, Nothing
<1>15. \A i \in DOMAIN m.tensors : RawWire(m.tensors[i]) \/ DataWire(m.tensors[i])
  BY <1>6, <1>12 DEF StepOfRaw, StepOfData
<1> QED
  BY <1>14, <1>15

\* A plain response goes over gRPC, all as contents or all as raw contents.
LEMMA PlainGrpcReply ==
  ASSUME NEW q \in ResponseSet, NEW qs \in Seq(Given), AllPlain(qs), Intact(q.tensors, qs),
         AllRaw(q.tensors) \/ AllData(q.tensors)
  PROVE  ResponseToGrpc(q) # Error /\ (AllRawSent(ResponseToGrpc(q)) \/ AllDataSent(ResponseToGrpc(q)))
<1> DEFINE N == Len(q.tensors)
           steps == GrpcSteps(q)
           m == Written(steps)
           raw == RawWanted(q)
<1>0. N \in Nat /\ DOMAIN q.tensors = 1..N /\ (\A i \in 1..N : q.tensors[i] \in TensorSet) /\ raw \in BOOLEAN
  BY ResponseHas DEF RawWanted
<1>1. \A i \in 1..N : qs[i] \in Given /\ Carries(q.tensors[i], qs[i]) /\ Plain(qs[i])
  BY <1>0, GivenSeq DEF Intact, AllPlain
<1>2. /\ ResponseToGrpc(q) # Error => ResponseToGrpc(q) = m
      /\ ResponseToGrpc(q) = Error => ~AllOk(steps) \/ Error = m
  BY RepliesAre
<1>3. DOMAIN steps = 1..N /\ steps = [i \in DOMAIN steps |-> steps[i]] /\ \A i \in 1..N : steps[i] = OutputToGrpc(q.tensors[i], raw)
  BY <1>0 DEF GrpcSteps
<1> HIDE DEF steps, N, raw
<1>4. (\A i \in 1..N : StepOfRaw(steps[i])) \/ (\A i \in 1..N : StepOfData(steps[i]))
  <2>1. CASE AllRaw(q.tensors)
    BY <1>0, <1>1, <1>3, <2>1, PlainOutputToGrpc DEF AllRaw
  <2>2. CASE AllData(q.tensors)
    <3>1. \A i \in 1..N : IF raw THEN StepOfRaw(steps[i]) ELSE StepOfData(steps[i])
      BY <1>0, <1>1, <1>3, <2>2, PlainOutputToGrpc DEF AllData
    <3> QED
      BY <3>1
  <2> QED
    BY <2>1, <2>2
<1>5. AllOk(steps)
  BY <1>3, <1>4 DEF AllOk, StepOfRaw, StepOfData
<1>6. \A i \in 1..N : GrpcOutput(steps[i], q.tensors[i])
  BY <1>0, <1>3, OutputToGrpcTyped
<1>7. WrittenRight(m, steps, N)
  BY <1>0, <1>3, <1>5, <1>6, WrittenIsRight DEF GrpcOutput, StepTyped
<1> HIDE DEF m
<1>8. m \in ResponseMessages /\ Together(m, steps, N)
  BY <1>7 DEF WrittenRight
<1>9. AllRawSent(m) \/ AllDataSent(m)
  BY <1>0, <1>4, <1>8, PlainWritten
<1> QED
  BY <1>2, <1>5, <1>8, <1>9, Nothing

\* A plain response is accepted.
LEMMA PlainDecoded ==
  ASSUME NEW m \in ResponseMessages, NEW protocol \in {"rest", "grpc"},
         NEW rs \in Seq(Given), AllPlain(rs), MessageIntact(m, rs, protocol), MessageForm(m, protocol),
         \A i \in DOMAIN m.tensors : RawWire(m.tensors[i]) \/ DataWire(m.tensors[i]),
         protocol = "grpc" => AllRawSent(m) \/ AllDataSent(m)
  PROVE  /\ DecodeResponse(m, protocol) # Error
         /\ AllRaw(DecodeResponse(m, protocol).tensors) \/ AllData(DecodeResponse(m, protocol).tensors)
<1> DEFINE ts == DecodedTensors(m, protocol)
           q == DecodeResponse(m, protocol)
<1>0. m.tensors \in Seq(WireSet) /\ m.raws \in Arrays
  BY ReplyHas
<1>1. DOMAIN m.tensors = DOMAIN rs /\ RawsRight(m, rs, protocol)
  BY DEF MessageIntact
<1>2. \A i \in DOMAIN rs : /\ m.tensors[i] \in WireSet /\ rs[i] \in Given /\ Plain(rs[i])
                           /\ WireCarries(m.tensors[i], rs[i]) /\ WireConveys(m.tensors[i], rs[i])
  <2>1. DOMAIN rs = 1..Len(rs) /\ DOMAIN m.tensors = 1..Len(m.tensors)
    BY <1>0, LenProperties
  <2>2. \A i \in DOMAIN rs : m.tensors[i] \in WireSet /\ rs[i] \in Given
    BY <1>0, <1>1, <2>1, ElementOfSeq
  <2> QED
    BY <2>2 DEF MessageIntact, WireConveys, AllPlain
<1>3. ts # Error /\ ts \in Seq(TensorSet) /\ (AllRaw(ts) \/ AllData(ts))
  <2>1. CASE protocol = "grpc"
    <3>1. ts = FromGrpc(m)
      BY <2>1 DEF DecodedTensors
    <3>2. ts # Error /\ DOMAIN ts = DOMAIN m.tensors /\ ts \in Seq(TensorSet)
      BY <1>0, <3>1, FromGrpcTyped DEF Received
    <3> HIDE DEF ts
    <3>3. AllRawSent(m) => AllRaw(ts)
      BY <1>0, <3>1, <3>2, PlainFromGrpc DEF AllRaw
    <3>4. AllDataSent(m) => AllData(ts)
      BY <1>0, <3>1, <3>2, PlainFromGrpc DEF AllData
    <3> QED
      BY <2>1, <3>2, <3>3, <3>4
  <2>2. CASE protocol # "grpc"
    <3> DEFINE steps == OutputSteps(m)
               taking == TakingOutputs(m)
    <3>1. ts = AllDone(steps)
      BY <2>2, FromBytesAre DEF DecodedTensors
    <3>2. DOMAIN steps = DOMAIN m.tensors /\ \A i \in DOMAIN m.tensors : steps[i] = OutputStep(m.tensors[i], Slices(m, taking)[i])
      BY DEF OutputSteps
    <3>3. \A i \in taking : Slices(m, taking)[i] = Raw(rs[i])
      <4>1. taking \in SUBSET (DOMAIN rs) /\ (\A i \in taking : m.tensors[i].size # None)
            /\ \A i \in DOMAIN rs : i \notin taking => m.tensors[i].data # None
        BY <1>1 DEF TakingOutputs, RawWire, DataWire
      <4>2. RawsRight(m, rs, "rest")
        BY <1>1, <2>2
      <4> QED
        BY <1>0, <1>1, <1>2, <4>1, <4>2, PartsAreSlices
    <3> HIDE DEF steps
    <3>4. \A i \in DOMAIN m.tensors : steps[i].ok /\ OneList(steps[i].tensor)
      <4> TAKE i \in DOMAIN m.tensors
      <4>1. CASE m.tensors[i].size # None
        <5>1. i \in taking
          BY <4>1 DEF TakingOutputs
        <5>2. steps[i] = FromSlice(m.tensors[i], Raw(rs[i]))
          BY <3>2, <3>3, <4>1, <5>1 DEF OutputStep
        <5> QED
          BY <1>1, <1>2, <5>2, PlainSlice
      <4>2. CASE m.tensors[i].size = None
        <5> DEFINE t == Tensor(m.tensors[i], List(m.tensors[i].data), None)
        <5>1. DataWire(m.tensors[i])
          BY <4>2 DEF RawWire
        <5>2. OneList(t)
          BY <1>1, <1>2, <5>1, PlainList
        <5>3. steps[i] = Done(t)
          BY <3>2, <4>2, <5>1 DEF OutputStep, DataWire
        <5> HIDE DEF t
        <5> QED
          BY <5>2, <5>3 DEF Done
      <4> QED
        BY <4>1, <4>2
    <3>5. AllDone(steps) = [i \in DOMAIN steps |-> steps[i].tensor]
      BY <3>2, <3>4, AllDoneIs DEF AllOk
    <3>6. AllDone(steps) \in Seq(TensorSet)
      <4>1. \A i \in DOMAIN m.tensors : StepReceived(steps[i], m.tensors[i])
        BY <1>0, SequenceOf DEF steps
      <4>2. \A i \in DOMAIN m.tensors : steps[i].tensor \in TensorSet
        BY <3>4, <4>1 DEF StepReceived
      <4>3. Len(m.tensors) \in Nat /\ DOMAIN m.tensors = 1..Len(m.tensors)
        BY <1>0, LenProperties
      <4> QED
        BY <3>2, <3>5, <4>2, <4>3
    <3>7. \A i \in DOMAIN AllDone(steps) : OneList(AllDone(steps)[i])
      BY <3>2, <3>4, <3>5
    <3> HIDE DEF ts
    <3> QED
      BY <3>1, <3>6, <3>7, Nothing DEF AllData, OneList
  <2> QED
    BY <2>1, <2>2
<1>4. q = [tensors |-> ts, binary |-> FALSE, outputs |-> None]
  BY <1>3 DEF DecodeResponse, DecodedTensors
<1>5. None \in AskedSet
  BY DEF AskedSet
<1> HIDE DEF ts, q
<1>6. q \in ResponseSet /\ q.tensors = ts
  BY <1>3, <1>4, <1>5 DEF ResponseSet
<1> QED
  BY <1>3, <1>6, Nothing DEF q

-----------------------------------------------------------------------------
(* Plain tensors are served.                                               *)

\* Ordinary tensors are plain, each.
LEMMA OrdinaryPlain ==
  ASSUME NEW rs, Ordinary(rs)
  PROVE  AllPlain(rs)
BY DEF Ordinary, AllText, AllPlain, Plain, HasText

\* What a client gives and what it holds are the same, if it is plain.
LEMMA PlainIntact ==
  ASSUME NEW ts, NEW rs, AllPlain(rs), Faithful(ts, rs)
  PROVE  Intact(ts, rs)
BY DEF Faithful, Intact, Conveys, AllPlain, Plain

\* Some of the outputs of a model are plain if all are.
LEMMA PlainChosen ==
  ASSUME NEW qs, NEW rs, AllPlain(rs), rs \in Seq(Given), Chosen(qs, rs)
  PROVE  qs \in Seq(Given) /\ AllPlain(qs)
<1>1. qs \in Seq(Given) /\ \A i \in DOMAIN qs : \E j \in DOMAIN rs : qs[i] = rs[j]
  BY DEF Chosen
<1>2. \A j \in DOMAIN rs : Plain(rs[j])
  BY DEF AllPlain
<1>3. \A i \in DOMAIN qs : Plain(qs[i])
  BY <1>1, <1>2
<1> QED
  BY <1>1, <1>3 DEF AllPlain

\* Tensors carry strings where strings were given.
LEMMA SameStrings ==
  ASSUME NEW ts, NEW rs, Intact(ts, rs)
  PROVE  NoStrings(ts) <=> NoStrings(rs)
BY DEF Intact, Carries, SameHead, NoStrings

\* Lists are data, and none of bytes objects.
LEMMA OneListAll ==
  ASSUME NEW ts, \A i \in DOMAIN ts : OneList(ts[i])
  PROVE  AllData(ts) /\ NoBytes(ts)
BY DEF OneList, AllData, NoBytes, Is

\* Tensors as lists are data, and none of bytes objects.
LEMMA ListsAreData ==
  ASSUME NEW ts, DataOfKind(ts, "list")
  PROVE  AllData(ts) /\ NoBytes(ts)
BY DEF DataOfKind, OneKind, AllData, OneData, NoBytes, Is

\* The client starts with tensors that are all alike.
LEMMA InitPlain == OpenInit => PlainIInv
<1> SUFFICES ASSUME OpenInit  PROVE PlainIInv
  OBVIOUS
<1>1. CarryingIInv
  BY InitCarries
<1>2. pc = "idle" /\ result = None
  BY DEF OpenInit
<1>3. /\ truth \in Seq(Given) /\ DOMAIN client.inputs = DOMAIN truth
      /\ \A i \in DOMAIN truth : client.inputs[i] = Made(truth[i])
  <2>1. truth \in Seq(Given)
    BY <1>1 DEF CarryingIInv, ClientRight
  <2>2. client.inputs = [i \in DOMAIN truth |-> Made(truth[i])]
    BY DEF OpenInit
  <2> QED
    BY <2>1, <2>2
<1>4. ASSUME PlainTruth
      PROVE  \/ AllRaw(client.inputs)
             \/ NoStrings(truth) /\ (DataOfKind(client.inputs, "list") \/ DataOfKind(client.inputs, "array"))
  <2>1. PICK form \in {"list", "array", "binary"} :
          \A i \in DOMAIN truth : truth[i].form = form /\ (truth[i].datatype = "BYTES" => form = "binary")
    BY <1>4 DEF PlainTruth, OneForm
  <2>2. \A i \in DOMAIN truth :
          /\ form = "binary" => /\ client.inputs[i].data = None /\ client.inputs[i].raw # None
                                /\ client.inputs[i].size # None
          /\ form \in {"list", "array"} => /\ Is(client.inputs[i].data, form) /\ client.inputs[i].raw = None
                                           /\ client.inputs[i].size = None
    BY <1>3, <2>1, GivenSeq, MadeIs
  <2>3. CASE form = "binary"
    BY <1>3, <2>2, <2>3 DEF AllRaw, OneRaw
  <2>4. CASE form \in {"list", "array"}
    <3>1. NoStrings(truth)
      BY <2>1, <2>4 DEF NoStrings
    <3>2. DataOfKind(client.inputs, form)
      BY <1>3, <2>2, <2>4 DEF DataOfKind, OneKind
    <3> QED
      BY <2>4, <3>1, <3>2
  <2> QED
    BY <2>3, <2>4
<1> QED
  BY <1>1, <1>2, <1>4 DEF PlainIInv, PlainRequests, PlainResponses, PlainIsServed

\* Sending keeps plain tensors alike, and does not fail.
LEMMA SendPlain ==
  ASSUME PlainIInv, Send
  PROVE  PlainIInv'
<1>1. CarryingIInv /\ CarryingIInv'
  BY SendCarries DEF PlainIInv
<1>2. PICK p \in Paths : /\ path' = p /\ client' = EncodeRequest(client, p[1]).request
                         /\ Become("sent", EncodeRequest(client, p[1]).message)
  BY DEF Send
<1>3. node' = 0 /\ result' = None /\ truth' = truth
  BY DEF Send
<1> DEFINE e == EncodeRequest(client, p[1])
<1>4. IF e.message = Error THEN pc' = "refused" /\ msg' = None ELSE pc' = "sent" /\ msg' = e.message
  BY <1>2, BecomeIs
<1>5. client' = e.request /\ p[1] \in {"rest", "grpc"}
  BY <1>2, PathHas
<1>6. truth \in Seq(Given) /\ client \in RequestSet /\ Faithful(client.inputs, truth)
  BY <1>1 DEF CarryingIInv, ClientRight
<1>7. ASSUME PlainTruth
      PROVE  /\ e.message # Error
             /\ AllRawSent(e.message) \/ (AllDataSent(e.message) /\ NoStrings(truth))
             /\ \/ AllRaw(e.request.inputs)
                \/ NoStrings(truth) /\ (DataOfKind(e.request.inputs, "list") \/ DataOfKind(e.request.inputs, "array"))
  <2>1. AllPlain(truth) /\ Intact(client.inputs, truth)
    BY <1>6, <1>7, OrdinaryPlain, PlainIntact DEF PlainTruth
  <2>2. PlainEncoded(e, client, p[1])
    BY <1>5, <1>6, <2>1, EncodePlain
  <2>3. NoStrings(client.inputs) <=> NoStrings(truth)
    BY <2>1, SameStrings
  <2>4. \/ AllRaw(client.inputs)
        \/ NoStrings(truth) /\ (DataOfKind(client.inputs, "list") \/ DataOfKind(client.inputs, "array"))
    BY <1>7 DEF PlainIInv, PlainRequests
  <2> HIDE DEF e
  <2>5. CASE AllRaw(client.inputs)
    BY <2>2, <2>5 DEF PlainEncoded
  <2>6. CASE NoStrings(truth) /\ DataOfKind(client.inputs, "list")
    <3>1. AllData(client.inputs) /\ NoBytes(client.inputs)
      BY <2>6, ListsAreData
    <3>2. e.message # Error /\ AllDataSent(e.message) /\ e.request.inputs = client.inputs
      BY <1>5, <2>2, <2>3, <2>6, <3>1 DEF PlainEncoded
    <3> QED
      BY <2>6, <3>2
  <2>7. CASE NoStrings(truth) /\ DataOfKind(client.inputs, "array")
    BY <2>2, <2>7 DEF PlainEncoded
  <2> QED
    BY <2>4, <2>5, <2>6, <2>7
<1> HIDE DEF e
<1>8. PlainTruth' <=> PlainTruth
  BY <1>3 DEF PlainTruth
<1>9. PlainRequests'
  BY <1>3, <1>4, <1>5, <1>7, <1>8 DEF PlainRequests
<1>10. PlainResponses'
  BY <1>3 DEF PlainResponses
<1>11. PlainIsServed'
  <2>1. PlainTruth' => pc' = "sent"
    BY <1>4, <1>7, <1>8
  <2> QED
    BY <2>1 DEF PlainIsServed, PlainTruth
<1> QED
  BY <1>1, <1>9, <1>10, <1>11 DEF PlainIInv

\* A plain request is accepted.
LEMMA ReceivePlain ==
  ASSUME PlainIInv, ReceiveRequest
  PROVE  PlainIInv'
<1>1. CarryingIInv /\ CarryingIInv'
  BY ReceiveCarries DEF PlainIInv
<1>2. /\ pc = "sent" /\ Become("held", DecodeRequest(msg, Protocol)) /\ node' = node + 1
      /\ truth' = truth /\ client' = client /\ path' = path /\ result' = result
  BY DEF ReceiveRequest
<1> DEFINE q == DecodeRequest(msg, Protocol)
           ts == DecodeInputs(msg, Protocol)
<1>3. IF q = Error THEN pc' = "refused" /\ msg' = None ELSE pc' = "held" /\ msg' = q
  BY <1>2, BecomeIs
<1>4. node \in Nat /\ node' \in 1..node' /\ Protocol = path[node'] /\ Protocol \in {"rest", "grpc"} /\ result = None
  <2>1. node \in 0..Len(path) /\ node < Len(path) /\ path \in Paths \cup {<<>>} /\ result = None
    BY <1>1, <1>2 DEF CarryingIInv, PathRight
  <2>2. path \in Paths
    BY <2>1
  <2>3. node + 1 \in 1..Len(path) /\ Len(path) \in Nat
    BY <2>1, <2>2, PathHas
  <2> QED
    BY <1>2, <2>1, <2>2, <2>3, PathHas DEF Protocol
<1>5. /\ msg \in RequestMessages /\ truth \in Seq(Given)
      /\ MessageFaithful(msg, truth, Protocol) /\ MessageForm(msg, Protocol)
  BY <1>1, <1>2 DEF CarryingIInv, RequestsRight, ClientRight
<1>6. ASSUME PlainTruth
      PROVE  /\ q # Error
             /\ \/ AllRaw(q.inputs)
                \/ /\ AllData(q.inputs) /\ (NoStrings(truth) \/ WasJson(node'))
                   /\ NoBytes(q.inputs) \/ (~NoStrings(truth) /\ WasContents(node'))
  <2>1. AllPlain(truth)
    BY <1>6, OrdinaryPlain DEF PlainTruth
  <2>2. AllRawSent(msg) \/ (AllDataSent(msg) /\ (NoStrings(truth) \/ WasJson(node)))
    BY <1>2, <1>6 DEF PlainIInv, PlainRequests
  <2>3. msg.tensors \in Seq(WireSet) /\ msg.raws \in Arrays
    BY <1>5, MessageHas
  <2>4. /\ ts # Error
        /\ Protocol = "grpc" /\ AllRawSent(msg) => AllRaw(ts)
        /\ Protocol = "grpc" /\ AllDataSent(msg) =>
             /\ AllData(ts)
             /\ \A i \in DOMAIN ts : Is(ts[i].data, "bytes") => truth[i].datatype = "BYTES"
        /\ Protocol = "rest" => \A i \in DOMAIN ts : OneList(ts[i])
    BY <1>4, <1>5, <2>1, <2>2, <2>3, DecodePlain
  <2>5. Received(ts, msg)
    BY <2>3, <2>4, DecodeInputsTyped
  <2>6. DOMAIN ts = DOMAIN truth
    BY <1>5, <2>5 DEF Received, MessageFaithful
  <2>7. q = [inputs |-> ts, binary |-> msg.binary, outputs |-> msg.outputs,
             grpc |-> Protocol = "grpc", raw |-> Protocol = "grpc" /\ msg.raws # <<>>]
    BY <2>4 DEF DecodeRequest
  <2> HIDE DEF q, ts
  <2>8. q # Error /\ q.inputs = ts
    <3>1. ts \in Seq(TensorSet)
      BY <2>5 DEF Received
    <3>2. q \in RequestSet
      BY <1>5, <2>7, <3>1, MessageHas DEF RequestSet
    <3> QED
      BY <2>7, <3>2, Nothing
  <2>9. CASE Protocol = "rest"
    <3>1. WasJson(node')
      BY <1>2, <1>4, <2>9 DEF WasJson
    <3>2. AllData(ts) /\ NoBytes(ts)
      BY <2>4, <2>9, OneListAll
    <3> QED
      BY <2>8, <3>1, <3>2
  <2>10. CASE Protocol = "grpc" /\ AllRawSent(msg)
    BY <2>4, <2>8, <2>10
  <2>11. CASE Protocol = "grpc" /\ AllDataSent(msg) /\ NoStrings(truth)
    <3>1. NoBytes(ts)
      BY <2>4, <2>6, <2>11 DEF NoStrings, NoBytes
    <3> QED
      BY <2>4, <2>8, <2>11, <3>1
  <2>12. CASE Protocol = "grpc" /\ AllDataSent(msg) /\ ~NoStrings(truth) /\ WasJson(node)
    <3>1. PICK i \in 1..node : path[i] = "rest"
      BY <2>12 DEF WasJson
    <3>2. i \in 1..node' /\ i < node'
      BY <1>2, <1>4, <3>1
    <3>3. WasJson(node')
      BY <1>2, <3>1, <3>2 DEF WasJson
    <3>4. WasContents(node')
      BY <1>2, <1>4, <2>12, <3>1, <3>2 DEF WasContents
    <3> QED
      BY <2>4, <2>8, <2>12, <3>3, <3>4
  <2> QED
    BY <1>4, <2>2, <2>9, <2>10, <2>11, <2>12
<1> HIDE DEF q
<1>7. PlainTruth' <=> PlainTruth
  BY <1>2 DEF PlainTruth
<1>8. WasJson(node') <=> WasJson(node)'
  BY <1>2 DEF WasJson
<1>9. WasContents(node') <=> WasContents(node)'
  BY <1>2 DEF WasContents
<1>10. PlainRequests'
  BY <1>2, <1>3, <1>6, <1>7, <1>8, <1>9 DEF PlainIInv, PlainRequests
<1>11. PlainResponses'
  BY <1>2, <1>4 DEF PlainResponses
<1>12. PlainIsServed'
  <2>1. PlainTruth' => pc' = "held"
    BY <1>3, <1>6, <1>7
  <2> QED
    BY <2>1 DEF PlainIsServed, PlainTruth
<1> QED
  BY <1>1, <1>10, <1>11, <1>12 DEF PlainIInv

\* A transformer forwards a plain request, but bytes objects not to JSON.
LEMMA ForwardPlain ==
  ASSUME PlainIInv, Forward
  PROVE  PlainIInv'
<1>1. CarryingIInv /\ CarryingIInv'
  BY ForwardCarries DEF PlainIInv
<1>2. /\ pc = "held" /\ node < Len(path) /\ Become("sent", EncodeRequest(msg, Protocol).message)
      /\ truth' = truth /\ client' = client /\ path' = path /\ node' = node /\ result' = result
  BY DEF Forward
<1> DEFINE e == EncodeRequest(msg, Protocol)
<1>3. IF e.message = Error THEN pc' = "refused" /\ msg' = None ELSE pc' = "sent" /\ msg' = e.message
  BY <1>2, BecomeIs
<1>4. /\ node + 1 \in 1..Len(path) /\ DOMAIN path = 1..Len(path) /\ node \in Nat /\ Len(path) \in Nat
      /\ Protocol = path[node + 1] /\ Protocol \in {"rest", "grpc"} /\ result = None
  <2>1. node \in 0..Len(path) /\ node < Len(path) /\ path \in Paths \cup {<<>>} /\ result = None
    BY <1>1, <1>2 DEF CarryingIInv, PathRight
  <2>2. node > 0
    BY <1>1, <1>2 DEF CarryingIInv, PathRight
  <2>3. path \in Paths
    BY <2>1
  <2>4. node + 1 \in 1..Len(path) /\ Len(path) \in Nat
    BY <2>1, <2>3, PathHas
  <2> QED
    BY <1>2, <2>1, <2>3, <2>4, PathHas DEF Protocol
<1>5. msg \in RequestSet /\ truth \in Seq(Given) /\ Faithful(msg.inputs, truth)
  BY <1>1, <1>2 DEF CarryingIInv, RequestsRight, ClientRight
<1>6. ASSUME PlainTruth
      PROVE  /\ e.message # Error =>
                  AllRawSent(e.message) \/ (AllDataSent(e.message) /\ (NoStrings(truth) \/ WasJson(node)))
             /\ PlainPath => e.message # Error
  <2>1. AllPlain(truth) /\ Intact(msg.inputs, truth)
    BY <1>5, <1>6, OrdinaryPlain, PlainIntact DEF PlainTruth
  <2>2. PlainEncoded(e, msg, Protocol)
    BY <1>4, <1>5, <2>1, EncodePlain
  <2> HIDE DEF e
  <2>3. \/ AllRaw(msg.inputs)
        \/ /\ AllData(msg.inputs) /\ (NoStrings(truth) \/ WasJson(node))
           /\ NoBytes(msg.inputs) \/ (~NoStrings(truth) /\ WasContents(node))
    BY <1>2, <1>6 DEF PlainIInv, PlainRequests
  <2>4. CASE AllRaw(msg.inputs)
    BY <2>2, <2>4 DEF PlainEncoded
  <2>5. CASE /\ AllData(msg.inputs) /\ (NoStrings(truth) \/ WasJson(node))
             /\ NoBytes(msg.inputs) \/ (~NoStrings(truth) /\ WasContents(node))
    <3>1. e.message # Error => AllDataSent(e.message)
      BY <2>2, <2>5 DEF PlainEncoded
    <3>2. ASSUME PlainPath  PROVE e.message # Error
      <4>1. CASE Protocol = "grpc" \/ NoBytes(msg.inputs)
        BY <1>4, <2>2, <2>5, <4>1 DEF PlainEncoded
      <4>2. CASE Protocol = "rest" /\ ~NoStrings(truth) /\ WasContents(node)
        <5>1. PICK i, j \in 1..node : i < j /\ path[i] = "rest" /\ path[j] = "grpc"
          BY <4>2 DEF WasContents
        <5>2. i \in DOMAIN path /\ j \in DOMAIN path /\ node + 1 \in DOMAIN path /\ j < node + 1
          BY <1>4, <5>1
        <5>3. ThereAndBack
          BY <1>4, <4>2, <5>1, <5>2 DEF ThereAndBack
        <5> QED
          BY <3>2, <4>2, <5>3 DEF PlainPath
      <4> QED
        BY <1>4, <2>5, <4>1, <4>2
    <3> QED
      BY <2>5, <3>1, <3>2
  <2> QED
    BY <2>3, <2>4, <2>5
<1> HIDE DEF e
<1>7. (PlainTruth' <=> PlainTruth) /\ (PlainPath' <=> PlainPath) /\ (WasJson(node)' <=> WasJson(node))
  BY <1>2 DEF PlainTruth, PlainPath, ThereAndBack, WasJson
<1>8. PlainRequests'
  BY <1>2, <1>3, <1>6, <1>7 DEF PlainIInv, PlainRequests
<1>9. PlainResponses'
  BY <1>2, <1>4 DEF PlainResponses
<1>10. PlainIsServed'
  <2>1. PlainTruth' /\ PlainPath' => pc' = "sent"
    BY <1>3, <1>6, <1>7
  <2> QED
    BY <2>1 DEF PlainIsServed, PlainTruth, PlainPath, NoStrings
<1> QED
  BY <1>1, <1>8, <1>9, <1>10 DEF PlainIInv

\* get_predict_response makes plain tensors alike.
LEMMA PredictPlain ==
  ASSUME PlainIInv, Predict
  PROVE  PlainIInv'
<1>1. CarryingIInv /\ CarryingIInv'
  BY PredictCarries DEF PlainIInv
<1>2. PICK r \in Results :
        /\ result' = r
        /\ Become("predicted", IF r.helper THEN PredictResponse(msg, r.outputs) ELSE OwnResponse(r.outputs))
  BY DEF Predict
<1>3. /\ pc = "held" /\ truth' = truth /\ client' = client /\ path' = path /\ mixed' = mixed
  BY DEF Predict
<1> DEFINE p == IF r.helper THEN PredictResponse(msg, r.outputs) ELSE OwnResponse(r.outputs)
<1>4. IF p = Error THEN pc' = "refused" /\ msg' = None ELSE pc' = "predicted" /\ msg' = p
  BY <1>2, BecomeIs
<1>5. /\ r.outputs \in Seq(Given) /\ r # None /\ msg \in RequestSet /\ ~mixed
  <2>1. r # None
    BY OpenAssumption
  <2>2. msg \in RequestSet /\ ~mixed
    BY <1>1, <1>3 DEF CarryingIInv, RequestsRight, PathRight
  <2> QED
    BY <2>1, <2>2, ResultHas
<1>6. ASSUME PlainResult'
      PROVE  p # Error /\ (AllRaw(p.tensors) \/ AllData(p.tensors))
  <2>1. r.helper /\ Ordinary(r.outputs)
    BY <1>2, <1>6 DEF PlainResult, Ordinary, AllText
  <2>2. p = PredictResponse(msg, r.outputs)
    BY <2>1
  <2>3. \A i \in DOMAIN r.outputs : HasText(r.outputs[i])
    BY <2>1 DEF Ordinary, AllText, HasText
  <2>4. p # Error
    BY <1>5, <2>2, <2>3, PredictResponseIs
  <2>5. p.binary \in BOOLEAN /\ \A i \in DOMAIN p.tensors : OwnTensor(p.tensors[i], p.binary)
    <3>1. p \in ResponseSet /\ \A i \in DOMAIN p.tensors : OwnTensor(p.tensors[i], p.binary)
      BY <1>5, <2>2, <2>4, PredictResponseIs
    <3> QED
      BY <3>1, ResponseHas
  <2> HIDE DEF p
  <2>6. p.binary => AllRaw(p.tensors)
    BY <2>5 DEF OwnTensor, AllRaw, OneRaw
  <2>7. ~p.binary => AllData(p.tensors)
    BY <2>5 DEF OwnTensor, AllData, OneData, Is
  <2> QED
    BY <2>4, <2>6, <2>7
<1> HIDE DEF p
<1>7. pc' \in {"predicted", "refused"}
  BY <1>4
<1>8. PlainRequests'
  <2>1. PlainTruth' <=> PlainTruth
    BY <1>3 DEF PlainTruth
  <2> QED
    BY <1>3, <1>7, <2>1 DEF PlainIInv, PlainRequests
<1>9. PlainResponses'
  BY <1>3, <1>4, <1>5, <1>6, <1>7 DEF PlainResponses
<1>10. PlainIsServed'
  <2>1. result' # None
    BY <1>2, <1>5
  <2>2. PlainResult' => pc' # "refused"
    BY <1>4, <1>6
  <2> QED
    BY <2>1, <2>2 DEF PlainIsServed, PlainResult
<1> QED
  BY <1>1, <1>8, <1>9, <1>10 DEF PlainIInv

\* A plain response is encoded.
LEMMA ReplyPlain ==
  ASSUME PlainIInv, Reply
  PROVE  PlainIInv'
<1>1. CarryingIInv /\ CarryingIInv'
  BY ReplyCarries DEF PlainIInv
<1> DEFINE protocol == path[node]
           m == EncodeResponse(msg, protocol)
<1>2. /\ pc = "predicted" /\ Become("replied", m)
      /\ mixed' = (mixed \/ (m # Error /\ protocol = "grpc" /\ Len(m.raws) \notin {0, Len(m.tensors)}))
      /\ node' = node - 1
      /\ truth' = truth /\ client' = client /\ path' = path /\ result' = result
  BY DEF Reply
<1>3. IF m = Error THEN pc' = "refused" /\ msg' = None ELSE pc' = "replied" /\ msg' = m
  BY <1>2, BecomeIs
<1>4. /\ protocol \in {"rest", "grpc"} /\ Protocol' = protocol
      /\ node = Len(path) \/ node < Len(path)
  <2>1. node \in 0..Len(path) /\ node > 0 /\ path \in Paths \cup {<<>>}
    BY <1>1, <1>2 DEF CarryingIInv, PathRight
  <2>2. path \in Paths
    <3>1. Len(<<>>) = 0
      OBVIOUS
    <3> QED
      BY <2>1, <3>1
  <2>3. node \in 1..Len(path) /\ Len(path) \in Nat
    BY <2>1, <2>2, PathHas
  <2>4. node' + 1 = node
    BY <1>2, <2>3
  <2> QED
    BY <1>2, <2>2, <2>3, <2>4, PathHas DEF Protocol
<1>5. msg \in ResponseSet /\ result \in Results
  BY <1>1, <1>2 DEF CarryingIInv, ResponsesRight, PathRight
<1>6. m = IF protocol = "rest" THEN ResponseToRest(msg) ELSE ResponseToGrpc(msg)
  BY DEF EncodeResponse
<1>7. result # None
  BY <1>5, OpenAssumption
<1> HIDE DEF m, protocol
<1>8. ASSUME PlainResult
      PROVE  /\ m # Error /\ ~mixed'
             /\ \A i \in DOMAIN m.tensors : RawWire(m.tensors[i]) \/ DataWire(m.tensors[i])
             /\ protocol = "grpc" => AllRawSent(m) \/ AllDataSent(m)
  <2>1. ~mixed /\ (AllRaw(msg.tensors) \/ AllData(msg.tensors))
    BY <1>2, <1>7, <1>8 DEF PlainIInv, PlainResponses
  <2>2. PICK qs : Chosen(qs, result.outputs) /\ Intact(msg.tensors, qs)
    BY <1>1, <1>2, <2>1 DEF CarryingIInv, ResponsesRight
  <2>3. result.helper /\ AllPlain(result.outputs) /\ result.outputs \in Seq(Given)
    BY <1>5, <1>8, OrdinaryPlain, ResultHas DEF PlainResult
  <2>4. qs \in Seq(Given) /\ AllPlain(qs)
    BY <2>2, <2>3, PlainChosen
  <2>5. CASE protocol = "rest"
    <3>1. ASSUME msg.outputs # None
          PROVE  \A i \in DOMAIN msg.outputs : \E j \in DOMAIN msg.tensors : msg.tensors[j].name = msg.outputs[i].name
      <4>1. node = Len(path)
        BY <1>1, <1>2, <1>4, <3>1 DEF CarryingIInv, ResponsesRight
      <4>2. HelpersOwn /\ Intact(msg.tensors, result.outputs)
        BY <1>1, <1>2, <2>3, <4>1 DEF CarryingIInv, ResponsesRight
      <4>3. msg.outputs = client.outputs
        BY <4>2 DEF HelpersOwn
      <4>4. \A i \in DOMAIN client.outputs : \E j \in DOMAIN result.outputs :
              result.outputs[j].name = client.outputs[i].name
        BY <1>8, <3>1, <4>3 DEF PlainResult
      <4>5. /\ DOMAIN msg.tensors = DOMAIN result.outputs
            /\ \A j \in DOMAIN result.outputs : msg.tensors[j].name = result.outputs[j].name
        BY <4>2 DEF Intact, Carries, SameHead
      <4> QED
        BY <4>3, <4>4, <4>5
    <3>2. m = ResponseToRest(msg)
      BY <1>6, <2>5
    <3>3. m # Error /\ \A i \in DOMAIN m.tensors : RawWire(m.tensors[i]) \/ DataWire(m.tensors[i])
      BY <1>5, <2>2, <2>4, <3>1, <3>2, PlainRestReply
    <3> QED
      BY <1>2, <2>1, <2>5, <3>3
  <2>6. CASE protocol = "grpc"
    <3>1. m # Error /\ (AllRawSent(m) \/ AllDataSent(m))
      BY <1>5, <1>6, <2>1, <2>2, <2>4, <2>6, PlainGrpcReply
    <3>2. Len(m.raws) \in {0, Len(m.tensors)}
      BY <3>1 DEF AllRawSent, AllDataSent
    <3>3. \A i \in DOMAIN m.tensors : RawWire(m.tensors[i]) \/ DataWire(m.tensors[i])
      BY <3>1 DEF AllRawSent, AllDataSent
    <3> QED
      BY <1>2, <2>1, <3>1, <3>2, <3>3
  <2> QED
    BY <1>4, <2>5, <2>6
<1>9. PlainResult' <=> PlainResult
  BY <1>2 DEF PlainResult
<1>10. pc' \in {"replied", "refused"}
  BY <1>3
<1>11. PlainRequests'
  <2>1. PlainTruth' <=> PlainTruth
    BY <1>2 DEF PlainTruth
  <2> QED
    BY <1>2, <1>10, <2>1 DEF PlainIInv, PlainRequests
<1>12. PlainResponses'
  BY <1>3, <1>4, <1>8, <1>9, <1>10 DEF PlainResponses
<1>13. PlainIsServed'
  <2>1. PlainResult' => pc' # "refused"
    BY <1>3, <1>8, <1>9
  <2> QED
    BY <1>2, <1>7, <2>1 DEF PlainIsServed, PlainResult
<1> QED
  BY <1>1, <1>11, <1>12, <1>13 DEF PlainIInv

\* A plain response is accepted, and stays plain.
LEMMA ReturnPlain ==
  ASSUME PlainIInv, Return
  PROVE  PlainIInv'
<1>1. CarryingIInv /\ CarryingIInv'
  BY ReturnCarries DEF PlainIInv
<1> DEFINE q == DecodeResponse(msg, Protocol)
           where == IF node = 0 THEN "received" ELSE "predicted"
<1>2. /\ pc = "replied" /\ Become(where, q)
      /\ truth' = truth /\ client' = client /\ path' = path /\ result' = result /\ mixed' = mixed
  BY DEF Return
<1>3. IF q = Error THEN pc' = "refused" /\ msg' = None ELSE pc' = where /\ msg' = q
  BY <1>2, BecomeIs
<1>4. Protocol \in {"rest", "grpc"}
  <2>1. node \in 0..Len(path) /\ node < Len(path) /\ path \in Paths \cup {<<>>}
    BY <1>1, <1>2 DEF CarryingIInv, PathRight
  <2>2. path \in Paths
    BY <2>1
  <2>3. node + 1 \in 1..Len(path) /\ Len(path) \in Nat
    BY <2>1, <2>2, PathHas
  <2> QED
    BY <2>2, <2>3, PathHas DEF Protocol
<1>5. msg \in ResponseMessages /\ MessageForm(msg, Protocol) /\ result \in Results
  BY <1>1, <1>2 DEF CarryingIInv, ResponsesRight, PathRight
<1>6. result # None
  BY <1>5, OpenAssumption
<1> HIDE DEF q
<1>7. ASSUME PlainResult
      PROVE  q # Error /\ ~mixed /\ (AllRaw(q.tensors) \/ AllData(q.tensors))
  <2>1. /\ ~mixed
        /\ \A i \in DOMAIN msg.tensors : RawWire(msg.tensors[i]) \/ DataWire(msg.tensors[i])
        /\ Protocol = "grpc" => AllRawSent(msg) \/ AllDataSent(msg)
    BY <1>2, <1>6, <1>7 DEF PlainIInv, PlainResponses
  <2>2. PICK qs : Chosen(qs, result.outputs) /\ MessageIntact(msg, qs, Protocol)
    BY <1>1, <1>2, <2>1 DEF CarryingIInv, ResponsesRight
  <2>3. AllPlain(result.outputs) /\ result.outputs \in Seq(Given)
    BY <1>5, <1>7, OrdinaryPlain, ResultHas DEF PlainResult
  <2>4. qs \in Seq(Given) /\ AllPlain(qs)
    BY <2>2, <2>3, PlainChosen
  <2>5. /\ DecodeResponse(msg, Protocol) # Error
        /\ AllRaw(DecodeResponse(msg, Protocol).tensors) \/ AllData(DecodeResponse(msg, Protocol).tensors)
    BY <1>4, <1>5, <2>1, <2>2, <2>4, PlainDecoded
  <2> QED
    BY <2>1, <2>5 DEF q
<1>8. PlainResult' <=> PlainResult
  BY <1>2 DEF PlainResult
<1>9. pc' \in {"received", "predicted", "refused"}
  BY <1>3
<1>10. PlainRequests'
  <2>1. PlainTruth' <=> PlainTruth
    BY <1>2 DEF PlainTruth
  <2> QED
    BY <1>2, <1>9, <2>1 DEF PlainIInv, PlainRequests
<1>11. PlainResponses'
  BY <1>2, <1>3, <1>7, <1>8, <1>9 DEF PlainResponses
<1>12. PlainIsServed'
  <2>1. PlainResult' => pc' # "refused"
    BY <1>3, <1>7, <1>8
  <2> QED
    BY <1>2, <1>6, <2>1 DEF PlainIsServed, PlainResult
<1> QED
  BY <1>1, <1>10, <1>11, <1>12 DEF PlainIInv

\* Nothing changes while nothing happens.
LEMMA SamePlain ==
  ASSUME PlainIInv, UNCHANGED openVars
  PROVE  PlainIInv'
<1>1. CarryingIInv'
  BY SameCarries DEF PlainIInv
<1>2. /\ truth' = truth /\ client' = client /\ path' = path /\ node' = node /\ pc' = pc /\ msg' = msg
      /\ result' = result /\ mixed' = mixed
  BY DEF openVars
<1>3. PlainRequests'
  BY <1>2 DEF PlainIInv, PlainRequests, PlainTruth, WasJson, WasContents
<1>4. PlainResponses'
  BY <1>2 DEF PlainIInv, PlainResponses, PlainResult, Protocol
<1>5. PlainIsServed'
  BY <1>2 DEF PlainIInv, PlainIsServed, ThereAndBack
<1> QED
  BY <1>1, <1>3, <1>4, <1>5 DEF PlainIInv

\* Always, a client is served whose tensors are plain and in one form, on any path
\* that does not take strings from JSON over gRPC to JSON, if the model answers
\* through get_predict_response with plain outputs, those asked for among them: no
\* conversion of infer_type.py raises on the way, in any attempt.
THEOREM PlainService == OpenSpec => []PlainIsServed
<1>1. OpenInit => PlainIInv
  BY InitPlain
<1>2. PlainIInv /\ [OpenNext]_openVars => PlainIInv'
  BY SendPlain, ReceivePlain, ForwardPlain, PredictPlain, ReplyPlain, ReturnPlain, SamePlain DEF OpenNext
<1>3. PlainIInv => PlainIsServed
  BY DEF PlainIInv
<1> QED
  BY <1>1, <1>2, <1>3, PTL DEF OpenSpec
=============================================================================
