------------------------------- MODULE Batcher -------------------------------
(***************************************************************************)
(* src/pkg/batcher/handler.go: ServeHTTP hands every predict request over  *)
(* an unbuffered channel to the one goroutine of batch(), which collects   *)
(* the instances of several requests, sends them to the next handler as    *)
(* one request and gives each caller its share of the predictions.         *)
(*                                                                         *)
(* An instance is a pair <<request, position>>, a prediction an instance   *)
(* with the path it was posted to. A request that is no predict request,   *)
(* cannot be read or has no instances is answered by ServeHTTP itself, and *)
(* never gets here.                                                        *)
(***************************************************************************)
EXTENDS AgentRequests, Naturals, Sequences

CONSTANTS
  Paths,          \* URL paths that end in :predict
  MaxInstances,   \* bound on the instances of one request
  MaxBatchSize,   \* maxBatchSize of the handler
  MaxLatency      \* maxLatency, in ticks of the loop

ASSUME BatcherAssumption ==
  /\ MaxInstances \in Nat \ {0}
  /\ MaxBatchSize \in Nat \ {0}
  /\ MaxLatency \in Nat \ {0}

VARIABLES
  asked,      \* [Requests -> path and number of instances]; never changes
  caller,     \* [Requests -> where the goroutine of ServeHTTP is]
  answer,     \* [Requests -> the predictions received, Failure for a message]
  loop,       \* where the goroutine of batch() is
  path,       \* batcherInfo.Path
  instances,  \* batcherInfo.Instances
  index,      \* batcherInfo.ContextMap: the positions of a request's instances
  age,        \* batcherInfo.Now - batcherInfo.Start, up to MaxLatency
  reply,      \* predictions of the next handler; <<>> for any other outcome
  waited      \* history: ticks since the request was received

batchVars == <<asked, caller, answer, loop, path, instances, index, age, reply, waited>>

Failure == <<>>
NoIndex == [r \in {} |-> <<>>]
Instances == Requests \X (1..MaxInstances)
Predictions == [path : Paths, of : Instances]
Positions == Seq(Nat \ {0})

BatcherTypeOK ==
  /\ asked \in [Requests -> [path : Paths, size : 1..MaxInstances]]
  /\ caller \in [Requests -> {"new", "sending", "waiting", "answered"}]
  /\ answer \in [Requests -> Seq(Predictions)]
  /\ loop \in {"select", "predict", "reply"}
  /\ path \in Paths
  /\ instances \in Seq(Instances)
  /\ DOMAIN index \subseteq Requests
  /\ \A r \in DOMAIN index : index[r] \in Positions
  /\ age \in 0..MaxLatency
  /\ reply \in Seq(Predictions)
  /\ waited \in [Requests -> Nat]

BatcherInit ==
  /\ asked \in [Requests -> [path : Paths, size : 1..MaxInstances]]
  /\ caller = [r \in Requests |-> "new"]
  /\ answer = [r \in Requests |-> Failure]
  /\ loop = "select"
  /\ path \in Paths
  /\ instances = <<>>
  /\ index = NoIndex
  /\ age = 0
  /\ reply = <<>>
  /\ waited = [r \in Requests |-> 0]

-----------------------------------------------------------------------------
\* ServeHTTP gets to handler.channelIn <- Input{...}.
Arrive(r) ==
  /\ caller[r] = "new"
  /\ caller' = [caller EXCEPT ![r] = "sending"]
  /\ UNCHANGED <<asked, answer, loop, path, instances, index, age, reply, waited>>

OwnInstances(r) == [n \in 1..asked[r].size |-> <<r, n>>]

\* Where they go: to the end of the batch.
NextPositions(r) == [n \in 1..asked[r].size |-> Len(instances) + n]

\* The clock moves by d ticks while the loop is at work on a batch that is
\* `since` ticks old, for the requests collected so far.
Elapse(since, d, collected) ==
  /\ age' = IF since + d > MaxLatency THEN MaxLatency ELSE since + d
  /\ waited' = [r \in Requests |-> IF r \in collected THEN waited[r] + d ELSE waited[r]]

\* The condition for batchPredict, at the end of each iteration.
Due == Len(instances') >= MaxBatchSize \/ (age' >= MaxLatency /\ Len(instances') > 0)

\* Variant: the latency is counted from the last request.
ReceiveRestarts(r, d) ==
  /\ loop = "select"
  /\ caller[r] = "sending"
  /\ caller' = [caller EXCEPT ![r] = "waiting"]
  /\ path' = asked[r].path
  /\ instances' = instances \o OwnInstances(r)
  /\ index' = [q \in DOMAIN index \cup {r} |-> IF q = r THEN NextPositions(r) ELSE index[q]]
  /\ Elapse(0, d, DOMAIN index \cup {r})
  /\ loop' = IF Due THEN "predict" ELSE "select"
  /\ UNCHANGED <<asked, answer, reply>>

\* The loop receives a request: its instances go to the end of the batch, and
\* the first one of a batch starts the clock.
ReceiveRequest(r, d) ==
  /\ loop = "select"
  /\ caller[r] = "sending"
  /\ caller' = [caller EXCEPT ![r] = "waiting"]
  /\ path' = asked[r].path
  /\ instances' = instances \o OwnInstances(r)
  /\ index' = [q \in DOMAIN index \cup {r} |-> IF q = r THEN NextPositions(r) ELSE index[q]]
  /\ Elapse(IF instances = <<>> THEN 0 ELSE age, d, DOMAIN index \cup {r})
  /\ loop' = IF Due THEN "predict" ELSE "select"
  /\ UNCHANGED <<asked, answer, reply>>

\* time.After(SleepTime): nothing was received.
WakeUp ==
  /\ loop = "select"
  /\ Elapse(age, 1, DOMAIN index)
  /\ UNCHANGED instances
  /\ loop' = IF Due THEN "predict" ELSE "select"
  /\ UNCHANGED <<asked, caller, answer, path, index, reply>>

\* The next handler answers the batch: with a prediction for every instance,
\* or with an error, a body that is no JSON, or the wrong number of them.
PredictorReplies ==
  /\ loop = "predict"
  /\ reply' \in {[i \in DOMAIN instances |-> [path |-> path, of |-> instances[i]]], <<>>}
  /\ loop' = "reply"
  /\ UNCHANGED <<asked, caller, answer, path, instances, index, age, waited>>

\* Variant: the predictions are counted out one by one from the start.
ShareFromStart(r) ==
  IF Len(reply) # Len(instances) THEN Failure
  ELSE [n \in DOMAIN index[r] |-> reply[n]]

\* The Response of one caller.
Share(r) ==
  IF Len(reply) # Len(instances) THEN Failure
  ELSE [n \in DOMAIN index[r] |-> reply[index[r][n]]]

Unanswered == {r \in DOMAIN index : caller[r] = "waiting"}

InitializeInfo ==
  /\ loop' = "select"
  /\ instances' = <<>>
  /\ index' = NoIndex
  /\ reply' = <<>>
  /\ age' = 0

\* *v.ChannelOut <- res, in the order of the map; after the last one the next
\* batch starts from nothing.
Reply(r) ==
  /\ loop = "reply"
  /\ r \in Unanswered
  /\ caller' = [caller EXCEPT ![r] = "answered"]
  /\ answer' = [answer EXCEPT ![r] = Share(r)]
  /\ IF Unanswered = {r} THEN InitializeInfo
     ELSE UNCHANGED <<loop, instances, index, reply, age>>
  /\ UNCHANGED <<asked, path, waited>>

Loop ==
  \/ WakeUp
  \/ \E r \in Requests : Reply(r) \/ \E d \in 0..1 : ReceiveRequest(r, d)

BatcherNext ==
  \/ \E r \in Requests : Arrive(r)
  \/ Loop
  \/ PredictorReplies

BatcherSpec == BatcherInit /\ [][BatcherNext]_batchVars

-----------------------------------------------------------------------------
\* Whatever else was in its batch, and however many batches went before, a
\* caller gets the predictions of its own instances, all of them and in order,
\* or a message.
OwnPredictions ==
  \A r \in Requests :
    answer[r] # Failure =>
      [n \in DOMAIN answer[r] |-> answer[r][n].of] = OwnInstances(r)

\* A batch is sent on as soon as it has maxBatchSize instances: it is never
\* larger than that by more than one request less one instance.
BatchIsBounded ==
  /\ loop = "select" => Len(instances) < MaxBatchSize
  /\ Len(instances) < MaxBatchSize + MaxInstances

\* "or the latency meets the maxLatency": the latency is that of the oldest
\* request of the batch; no request is held back longer, and no batch that is
\* not full is sent earlier.
LatencyOfOldest ==
  /\ loop = "select" => \A r \in DOMAIN index : waited[r] < MaxLatency
  /\ loop = "predict" /\ Len(instances) < MaxBatchSize =>
       \E r \in DOMAIN index : waited[r] >= MaxLatency

\* A caller waits for exactly one batch: it is in the current one, nothing is
\* lost when the batch is closed, and nothing stays in the next one.
WaitingAreBatched ==
  /\ {r \in Requests : caller[r] = "waiting"} \subseteq DOMAIN index
  /\ loop # "reply" => \A r \in DOMAIN index : caller[r] = "waiting"
  /\ Len(instances) = 0 <=> DOMAIN index = {}

\* The limits of a batch, for every request and through every close of a batch.
LimitsKept == BatchIsBounded /\ LatencyOfOldest /\ WaitingAreBatched

\* The inductive invariant behind OwnPredictions: while a batch is open every
\* caller's positions hold exactly its instances, in order, and a reply that
\* is given out has one prediction for each position.
PositionsRight ==
  \A r \in DOMAIN index :
    /\ Len(index[r]) = asked[r].size
    /\ \A n \in 1..asked[r].size :
         /\ index[r][n] \in 1..Len(instances)
         /\ instances[index[r][n]] = <<r, n>>

ReplyMatches ==
  /\ loop # "reply" => reply = <<>>
  /\ Len(reply) = Len(instances) =>
       \A i \in 1..Len(instances) : reply[i].of = instances[i]

BatchIInv ==
  /\ BatcherTypeOK
  /\ PositionsRight
  /\ ReplyMatches
  /\ OwnPredictions

\* With BatchIInv, the inductive invariant behind LimitsKept: the age of an open batch is the
\* wait of its oldest request, and nobody waits before he is received.
ClockRight ==
  /\ \A r \in Requests : caller[r] \in {"new", "sending"} => waited[r] = 0
  /\ loop = "select" /\ instances # <<>> =>
       /\ age < MaxLatency
       /\ \E r \in DOMAIN index : waited[r] = age
       /\ \A r \in DOMAIN index : waited[r] <= age

LimitsIInv == ClockRight /\ LimitsKept
=============================================================================
