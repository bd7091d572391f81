----------------------------- MODULE ModelServer -----------------------------
(***************************************************************************)
(* src/python/kserve/kserve: one process of the Python model server. The   *)
(* REST and the gRPC server share an event loop, a registry of models and  *)
(* a data plane; a handler is a coroutine, and others run whenever it      *)
(* awaits. The readiness of a model is awaited because healthy() may be    *)
(* overridden; the evaluation of a model is one wait.                      *)
(*                                                                         *)
(* A load makes a new object under a name: an object is the name and its   *)
(* version. uvicorn keeps SIGTERM until its server has ended and raises it *)
(* again; SIGQUIT reaches the handler of the model server directly.        *)
(***************************************************************************)
EXTENDS Naturals, Sequences, FiniteSets

CONSTANTS
  Names,        \* names of models
  Callers,      \* clients, each with one call at a time
  NoName,
  MaxVersions   \* bound on the versions: one at the start, and one for each load

ASSUME ModelServerAssumption ==
  /\ IsFiniteSet(Names)
  /\ NoName \notin Names
  /\ MaxVersions \in Nat \ {0}

Versions == 0..MaxVersions   \* 0: there is no object
Kinds == {"infer", "ready", "load", "unload", "index"}
Vias == {"rest", "grpc"}
Answers == {"none", "ok", "NotFound", "NotReady", "Error"}

VARIABLES
  enable_grpc, \* ModelServer.enable_grpc
  models,      \* [Names -> version in ModelRepository.models]
  keys,        \* its keys in the order of iteration
  ready,       \* [Names -> versions whose model.ready is set]
  made,        \* the latest version
  req,         \* [Callers -> its call and the coroutine that handles it]
  reply,       \* what the last turn of the event loop has answered
  loop,        \* asyncio.run
  rest, grpc,  \* the two servers
  signal,      \* the signal received
  stopper,     \* the task that runs ModelServer.stop
  live         \* history: [Names -> version the operations have put in place]

repoVars == <<models, keys, ready, made>>
serverVars == <<enable_grpc, loop, rest, grpc, signal, stopper>>
vars == <<repoVars, serverVars, req, reply, live>>

Waits == {"checking", "body", "fetching", "running", "loading", "indexing"}

Calls == [pc : Waits \cup {"idle"}, kind : Kinds, via : Vias, name : Names \cup {NoName},
          version : Versions,   \* the object that is awaited or used
          pos : Nat, left : Nat, size : Nat, listed : Seq(Names),   \* index
          seen : SUBSET Versions]   \* history: versions live during the call

Replies == [answer : Answers, listed : Seq(Names)]

Call(k, via, n) ==
  [pc |-> "idle", kind |-> k, via |-> via, name |-> n, version |-> 0,
   pos |-> 0, left |-> 0, size |-> 0, listed |-> <<>>, seen |-> {}]

Idle == Call("infer", "rest", NoName)
NoReply == [answer |-> "none", listed |-> <<>>]

Init ==
  /\ enable_grpc \in BOOLEAN
  /\ models = [n \in Names |-> 0]
  /\ keys = <<>>
  /\ ready = [n \in Names |-> {}]
  /\ made = 1
  /\ req = [c \in Callers |-> Idle]
  /\ reply = NoReply
  /\ loop = "starting"
  /\ rest = "off"
  /\ grpc = "off"
  /\ signal = "none"
  /\ stopper = "none"
  /\ live = [n \in Names |-> 0]

InFlight(c) == req[c].pc # "idle"
Registered == {n \in Names : models[n] # 0}

Orders(R) == {s \in [1..Cardinality(R) -> R] : \A n \in R : \E i \in DOMAIN s : s[i] = n}

-----------------------------------------------------------------------------
(* ModelRepository.                                                        *)

Update(n, v) ==
  /\ models' = [models EXCEPT ![n] = v]
  /\ keys' = IF models[n] = 0 THEN Append(keys, n) ELSE keys

\* What deletions leave of the keys s of a dictionary, when R are left: they stay
\* in their order.
KeysLeft(s, R) ==
  {t \in Orders(R) : \A i, j \in DOMAIN t :
     i < j => \E k, l \in DOMAIN s : k < l /\ s[k] = t[i] /\ s[l] = t[j]}

\* Variant: unload() only stops the models.
UnloadStops(S) ==
  /\ ready' = [n \in Names |-> IF n \in S THEN ready[n] \ {models[n]} ELSE ready[n]]
  /\ UNCHANGED <<models, keys>>

\* unload() of the models in S: stop() clears model.ready, then the entry goes.
Unload(S) ==
  /\ ready' = [n \in Names |-> IF n \in S THEN ready[n] \ {models[n]} ELSE ready[n]]
  /\ models' = [n \in Names |-> IF n \in S THEN 0 ELSE models[n]]
  /\ keys' \in KeysLeft(keys, Registered \ S)

-----------------------------------------------------------------------------
(* The server starts. R are the models that are ready when they are given  *)
(* to start(): the others are started but never registered. Without a      *)
(* ready one there is no server, unless no model was given at all.         *)

Start(R, given) ==
  /\ loop = "starting"
  /\ R \subseteq given
  /\ IF R = {} /\ given # {}
     THEN /\ loop' = "failed"
          /\ UNCHANGED <<repoVars, rest, grpc, live>>
     ELSE /\ loop' = "running"
          /\ rest' = "serving"
          /\ grpc' = IF enable_grpc THEN "serving" ELSE "off"
          /\ models' = [n \in Names |-> IF n \in R THEN 1 ELSE 0]
          /\ keys' \in Orders(R)
          /\ ready' = [n \in Names |-> IF n \in given THEN {1} ELSE {}]
          /\ live' = models'
          /\ UNCHANGED made
  /\ UNCHANGED <<enable_grpc, signal, stopper, req, reply>>

-----------------------------------------------------------------------------
(* A call arrives, and its handler runs up to the first point where it      *)
(* waits.                                                                  *)

\* What the changes of the registry do to the other calls: the history of each
\* grows, and the iterators stay behind the keys they have given.
Follows(r, l) ==
  CASE r.pc = "idle" -> r
    [] r.pc # "idle" /\ r.kind = "index" ->
         [r EXCEPT !.pos = Cardinality({i \in 1..@ : models'[keys[i]] # 0})]
    [] r.pc # "idle" /\ r.kind = "load" -> r
    [] OTHER -> [r EXCEPT !.seen = @ \cup {l[r.name]}]

\* One turn of the event loop: the call of c becomes r, or is answered by it, and the operations have
\* put the versions l in place.
Turn(c, r, l) ==
  LET answers == "answer" \in DOMAIN r IN
  /\ live' = l
  /\ req' = [d \in Callers |-> IF d = c /\ answers THEN Idle
                           ELSE Follows(IF d = c THEN r ELSE req[d], l)]
  /\ reply' = IF answers THEN r ELSE NoReply
  /\ UNCHANGED serverVars

Answered(r, a) == [answer |-> a, listed |-> IF a = "ok" THEN r.listed ELSE <<>>]

\* DataPlane.get_model, model_ready and ModelRepositoryExtension.load: the name
\* is looked up, and looked up again by is_model_ready before that waits.
LookedUp(r, at) ==
  IF models[r.name] = 0 THEN Answered(r, "NotFound")
  ELSE [r EXCEPT !.pc = at, !.version = models[r.name]]

\* Variant: the iterator does not notice that the dictionary has changed.
IteratedAnyway(r) ==
  IF r.pos >= Len(keys) THEN Answered(r, "ok")
  ELSE LET n == keys[r.pos + 1]
       IN  [r EXCEPT !.pc = "indexing", !.pos = @ + 1, !.name = n, !.version = models[n]]

\* One turn of the loop over models.keys(): the iterator fails when the
\* dictionary has not the size it began with, or when it would give more keys.
Iterated(r) ==
  CASE Len(keys) # r.size -> Answered(r, "Error")
    [] Len(keys) = r.size /\ r.pos = Len(keys) -> Answered(r, "ok")
    [] Len(keys) = r.size /\ r.pos < Len(keys) /\ r.left = 0 -> Answered(r, "Error")
    [] OTHER -> LET n == keys[r.pos + 1]
                IN  [r EXCEPT !.pc = "indexing", !.pos = @ + 1, !.left = @ - 1,
                              !.name = n, !.version = models[n]]

Arrives(c, via) ==
  /\ ~InFlight(c)
  /\ loop = "running"
  /\ (IF via = "rest" THEN rest ELSE grpc) = "serving"

\* v1 predict and v2 infer ask for the readiness of the model first, the gRPC
\* servicer goes to the data plane at once.
HandleInfer(c, via, n) ==
  /\ Arrives(c, via)
  /\ UNCHANGED repoVars
  /\ Turn(c, LookedUp(Call("infer", via, n), IF via = "rest" THEN "checking" ELSE "fetching"), live)

HandleReady(c, via, n) ==
  /\ Arrives(c, via)
  /\ UNCHANGED repoVars
  /\ Turn(c, LookedUp(Call("ready", via, n), "checking"), live)

\* The repository of a framework server makes a new object, loads and registers
\* it without waiting; a load that raises leaves the registry alone.
HandleLoad(c, via, n) ==
  LET r == Call("load", via, n)  v == made + 1 IN
  /\ Arrives(c, via)
  /\ v <= MaxVersions
  /\ made' = v
  /\ \/ /\ ready' = [ready EXCEPT ![n] = @ \cup {v}]
        /\ Update(n, v)
        /\ Turn(c, [r EXCEPT !.pc = "loading", !.version = v], [live EXCEPT ![n] = v])
     \/ /\ UNCHANGED <<models, keys, ready>>
        /\ Turn(c, Answered(r, "NotReady"), live)

\* The coroutines of the data plane return nothing: the gRPC handlers of load
\* and unload fail on their result, after the effect.
Outcome(r) == IF r.via = "rest" THEN "ok" ELSE "Error"

HandleUnload(c, via, n) ==
  LET r == Call("unload", via, n) IN
  /\ Arrives(c, via)
  /\ UNCHANGED made
  /\ IF models[n] = 0
     THEN /\ UNCHANGED <<models, keys, ready>>
          /\ Turn(c, Answered(r, "NotFound"), live)
     ELSE /\ Unload({n})
          /\ Turn(c, Answered(r, Outcome(r)), [live EXCEPT ![n] = 0])

HandleIndex(c) ==
  /\ Arrives(c, "rest")
  /\ UNCHANGED repoVars
  /\ Turn(c, Iterated([Call("index", "rest", NoName) EXCEPT !.size = Len(keys), !.left = Len(keys)]), live)

-----------------------------------------------------------------------------
(* What was awaited is there.                                              *)

IsReady(r) == r.version \in ready[r.name]

\* Variant: a call polls until the model is ready.
CheckedWhenReady(c) ==
  LET r == req[c] IN
  /\ r.pc = "checking"
  /\ IF IsReady(r)
     THEN /\ UNCHANGED repoVars
          /\ Turn(c, IF r.kind = "ready" THEN Answered(r, "ok") ELSE [r EXCEPT !.pc = "body"], live)
     ELSE UNCHANGED vars

Checked(c) ==
  LET r == req[c] IN
  /\ r.pc = "checking"
  /\ UNCHANGED repoVars
  /\ Turn(c, IF ~IsReady(r) THEN Answered(r, "NotReady")
             ELSE IF r.kind = "ready" THEN Answered(r, "ok")
             ELSE [r EXCEPT !.pc = "body"], live)

HasBody(c) ==
  /\ req[c].pc = "body"
  /\ UNCHANGED repoVars
  /\ Turn(c, LookedUp(req[c], "fetching"), live)

\* DataPlane.get_model loads a model that is not ready, whether it is still
\* registered or not; that may raise.
Fetched(c) ==
  LET r == req[c] IN
  /\ r.pc = "fetching"
  /\ UNCHANGED <<models, keys, made>>
  /\ \/ /\ ready' = [ready EXCEPT ![r.name] = @ \cup {r.version}]
        /\ Turn(c, [r EXCEPT !.pc = "running"], live)
     \/ /\ ~IsReady(r)
        /\ Turn(c, Answered(r, "Error"), live)
        /\ UNCHANGED ready

\* preprocess, predict and postprocess of the object that was fetched.
Ran(c, a) ==
  /\ req[c].pc = "running"
  /\ a \in {"ok", "Error"}
  /\ UNCHANGED repoVars
  /\ Turn(c, Answered(req[c], a), live)

Loaded(c) ==
  LET r == req[c] IN
  /\ r.pc = "loading"
  /\ UNCHANGED repoVars
  /\ Turn(c, Answered(r, IF IsReady(r) THEN Outcome(r) ELSE "NotReady"), live)

Indexed(c) ==
  LET r == req[c] IN
  /\ r.pc = "indexing"
  /\ UNCHANGED repoVars
  /\ Turn(c, Iterated([r EXCEPT !.listed = Append(@, r.name)]), live)

-----------------------------------------------------------------------------
(* The end. A server that drains takes no new call.                        *)

InFlightVia(via) == {c \in Callers : InFlight(c) /\ req[c].via = via}

\* The client factory awaits the end of the connections to the predictor in
\* stop(), so the task starts in "closing".
Signal(s) ==
  /\ loop = "running"
  /\ signal = "none"
  /\ signal' = s
  /\ CASE s = "TERM" -> rest' = "draining" /\ UNCHANGED stopper
       [] s = "QUIT" -> stopper' = "closing" /\ UNCHANGED rest
  /\ UNCHANGED <<repoVars, enable_grpc, loop, grpc, req, reply, live>>

\* uvicorn waits for its calls, ends and raises the signal again.
RestEnds ==
  /\ rest = "draining"
  /\ InFlightVia("rest") = {}
  /\ rest' = "done"
  /\ stopper' = "closing"
  /\ UNCHANGED <<repoVars, enable_grpc, loop, grpc, signal, req, reply, live>>

UnloadAll(q) ==
  /\ Unload(Registered)
  /\ live' = [n \in Names |-> 0]
  /\ req' = [c \in Callers |-> Follows(q[c], live')]
  /\ reply' = NoReply
  /\ stopper' = "done"
  /\ UNCHANGED made

ClientsClosed ==
  /\ stopper = "closing"
  /\ IF enable_grpc
     THEN /\ grpc' = "draining"
          /\ stopper' = "draining"
          /\ UNCHANGED <<repoVars, req, reply, live>>
     ELSE UnloadAll(req) /\ UNCHANGED grpc
  /\ UNCHANGED <<enable_grpc, loop, rest, signal>>

\* The calls that are left when the grace period ends are cancelled. Both stop()
\* and the task of the server wait for the end of the server, and stop() unloads
\* the models before asyncio.run has seen the end of that task.
GrpcStopped ==
  /\ stopper = "draining"
  /\ grpc' = "done"
  /\ UnloadAll([c \in Callers |-> IF c \in InFlightVia("grpc") THEN Idle ELSE req[c]])
  /\ UNCHANGED <<enable_grpc, loop, rest, signal>>

\* Variant: the end of the REST server ends the loop.
LoopEndsWithRest ==
  /\ loop = "running"
  /\ rest = "done"
  /\ loop' = "closed"
  /\ stopper' = IF stopper = "done" THEN "done" ELSE "cancelled"
  /\ UNCHANGED <<repoVars, enable_grpc, rest, grpc, signal, req, reply, live>>

\* gather() is done, and asyncio.run cancels what is left of stop().
LoopEnds ==
  /\ loop = "running"
  /\ rest = "done"
  /\ grpc \in {"off", "done"}
  /\ loop' = "closed"
  /\ stopper' = IF stopper = "done" THEN "done" ELSE "cancelled"
  /\ UNCHANGED <<repoVars, enable_grpc, rest, grpc, signal, req, reply, live>>

Exited == loop \in {"closed", "failed"} /\ UNCHANGED vars

-----------------------------------------------------------------------------
Receive(c) ==
  \/ HandleIndex(c)
  \/ \E via \in Vias, n \in Names :
       HandleInfer(c, via, n) \/ HandleReady(c, via, n) \/ HandleLoad(c, via, n) \/ HandleUnload(c, via, n)

Continue(c) ==
  \/ Checked(c) \/ HasBody(c) \/ Fetched(c) \/ Loaded(c) \/ Indexed(c)
  \/ \E a \in {"ok", "Error"} : Ran(c, a)

Stop == RestEnds \/ ClientsClosed \/ GrpcStopped \/ LoopEnds

Next ==
  \/ \E R, given \in SUBSET Names : Start(R, given)
  \/ \E c \in Callers : Receive(c) \/ Continue(c)
  \/ \E s \in {"TERM", "QUIT"} : Signal(s)
  \/ Stop
  \/ Exited

Spec == Init /\ [][Next]_vars

\* The loop runs every coroutine that has what it waits for; healthy(), the
\* models and the clients' connections end.
FairSpec ==
  /\ Spec
  /\ \A c \in Callers : WF_vars(Continue(c))
  /\ WF_vars(Stop)

-----------------------------------------------------------------------------
\* The state is well-formed, and the registry iterates over every name it holds
\* once (ModelRepository.models).
ServerTypeOK ==
  /\ enable_grpc \in BOOLEAN
  /\ models \in [Names -> Versions]
  /\ keys \in Orders(Registered)
  /\ ready \in [Names -> SUBSET (1..MaxVersions)]
  /\ made \in Versions
  /\ req \in [Callers -> Calls]
  /\ reply \in Replies
  /\ loop \in {"starting", "running", "closed", "failed"}
  /\ rest \in {"off", "serving", "draining", "done"}
  /\ grpc \in {"off", "serving", "draining", "done"}
  /\ signal \in {"none", "TERM", "QUIT"}
  /\ stopper \in {"none", "closing", "draining", "done", "cancelled"}
  /\ live \in [Names -> Versions]

\* An inference is answered by an object that the loads and unloads had in place
\* under its name at some moment of the call, and "not found" means that there
\* was none at some moment: an unload that was answered before the call leaves
\* nothing to be served, and a load leaves no older version.
AnswerIsCurrent(c) ==
  InFlight(c) /\ ~InFlight(c)' =>
    /\ req[c].kind = "infer" /\ reply'.answer = "ok" => req[c].version \in req[c].seen \ {0}
    /\ reply'.answer = "NotFound" => 0 \in req[c].seen

AnswersAreCurrent == [][\A c \in Callers : AnswerIsCurrent(c)]_vars

\* After SIGTERM the connections to the predictor are closed when no REST call is
\* left, and the models are unloaded when no call is left at all.
StopsAfterCalls ==
  signal = "TERM" =>
    /\ stopper # "none" => InFlightVia("rest") = {}
    /\ stopper \in {"done", "cancelled"} => \A c \in Callers : ~InFlight(c)

\* When the process ends, every model of the registry was stopped and removed,
\* unless stop() was still closing connections and there is no gRPC server to
\* keep the loop running.
ExitUnloadsModels ==
  loop = "closed" =>
    \/ stopper = "done" /\ Registered = {}
    \/ stopper = "cancelled" /\ ~enable_grpc

\* The end of the server is orderly: first the calls, then the models, then the
\* process.
ShutdownIsOrderly == StopsAfterCalls /\ ExitUnloadsModels

\* An index that is answered, and does not fail because of the loads and unloads
\* that ran in its waits, lists exactly the models that are registered then.
IndexIsExact ==
  [][\A c \in Callers :
       req[c].kind = "index" /\ InFlight(c) /\ ~InFlight(c)' /\ reply'.answer = "ok" =>
         LET l == reply'.listed IN
         /\ {l[i] : i \in DOMAIN l} = Registered'
         /\ Len(l) = Cardinality(Registered')]_vars

\* The registry is well-formed, and what is listed from it is right.
IndexIsRight == []ServerTypeOK /\ IndexIsExact

\* SIGTERM ends the process.
ShutdownEnds == signal = "TERM" ~> loop = "closed"

\* Every call is answered, whatever is loaded, unloaded or stopped meanwhile.
EveryCallAnswered == \A c \in Callers : InFlight(c) ~> ~InFlight(c)

\* Nothing hangs, neither a call nor the process that was told to end.
EverythingEnds == EveryCallAnswered /\ ShutdownEnds

-----------------------------------------------------------------------------
(* The inductive invariant behind ShutdownIsOrderly and AnswersAreCurrent. *)

\* How far the parts of the server are in their end.
StagesRight ==
  /\ loop \in {"starting", "running", "closed", "failed"}
  /\ rest \in {"off", "serving", "draining", "done"}
  /\ grpc \in {"off", "serving", "draining", "done"}
  /\ signal \in {"none", "TERM", "QUIT"}
  /\ stopper \in {"none", "closing", "draining", "done", "cancelled"}
  /\ loop \in {"starting", "failed"} =>
       rest = "off" /\ grpc = "off" /\ stopper = "none" /\ signal = "none"
  /\ loop = "running" => rest # "off" /\ stopper # "cancelled" /\ (grpc = "off" <=> ~enable_grpc)
  /\ loop = "closed" => rest = "done" /\ grpc \in {"off", "done"} /\ stopper \in {"done", "cancelled"}
  /\ ~enable_grpc => grpc = "off"
  /\ signal = "none" => stopper = "none"
  /\ rest \in {"draining", "done"} => signal = "TERM"
  /\ signal = "TERM" => rest \in {"draining", "done"} /\ (rest = "draining" => stopper = "none")
  /\ stopper \in {"done", "cancelled"} => grpc \in {"off", "done"}
  /\ grpc = "done" => stopper = "done"
  /\ stopper = "draining" => grpc = "draining"

\* A server that is off or has ended has no calls, and after SIGTERM nothing is
\* registered any more when stop() has unloaded the models.
EndsRight ==
  /\ rest \in {"off", "done"} => InFlightVia("rest") = {}
  /\ grpc \in {"off", "done"} => InFlightVia("grpc") = {}
  /\ signal = "TERM" /\ stopper = "done" => Registered = {}

\* What is in place is what is registered, and a call that is under way has seen
\* what is in place under its name, and what it has fetched.
SeenRight ==
  /\ live = models
  /\ \A c \in Callers : InFlight(c) /\ req[c].kind = "infer" =>
       /\ req[c].name \in Names
       /\ models[req[c].name] \in req[c].seen
       /\ req[c].version \in req[c].seen \ {0}

\* A call has the fields of a call, and waits where its kind may wait.
Fields == {"pc", "kind", "via", "name", "version", "pos", "left", "size", "listed", "seen"}

CallOK(r) ==
  /\ DOMAIN r = Fields
  /\ r.via \in Vias
  /\ r.pc = "checking" => r.kind \in {"infer", "ready"}
  /\ r.pc = "body" => r.kind = "infer"
  /\ r.pc = "indexing" => r.kind = "index"

CallsOK == DOMAIN req = Callers /\ \A c \in Callers : CallOK(req[c])

ServerIInv ==
  /\ models \in [Names -> Versions] /\ made \in Versions
  /\ CallsOK /\ StagesRight /\ EndsRight /\ SeenRight /\ ExitUnloadsModels

\* The inductive invariant behind IndexIsRight. A call that waits has a name and
\* an object, and only the index call waits in its loop.
WaitsRight(r) ==
  r.pc # "idle" => r.name \in Names /\ r.version # 0 /\ (r.pc = "indexing" <=> r.kind = "index")

\* The index call has listed, with the name it waits for, what its iterator has
\* given; and these are the first of the keys k as long as none was unloaded.
IndexRight(r, k) ==
  r.pc = "indexing" =>
    /\ Len(r.listed) + 1 + r.left = r.size
    /\ r.pos + r.left <= r.size
    /\ r.pos + r.left = r.size =>
         r.pos <= Len(k) /\ \A i \in 1..r.pos : Append(r.listed, r.name)[i] = k[i]

IndexIInv ==
  ServerTypeOK /\ \A c \in Callers : WaitsRight(req[c]) /\ IndexRight(req[c], keys)
=============================================================================
