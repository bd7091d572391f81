---------------------------- MODULE PayloadLogger ----------------------------
(***************************************************************************)
(* src/pkg/logger: the handler queues a log entry before a request is      *)
(* passed on and one after it was answered; the dispatcher starts a        *)
(* goroutine for every entry, which waits for an idle worker; the worker   *)
(* sends the entry to the sink as a cloud event.                           *)
(*                                                                         *)
(* Probes of the kubelet and requests whose body cannot be read are not    *)
(* logged, and are left out. Worker.Stop is never called by the agent.     *)
(***************************************************************************)
EXTENDS AgentRequests, Naturals, Sequences

CONSTANTS
  LogMode,    \* "all", "request" or "response"
  QueueCap,   \* LoggerWorkerQueueSize (100 in the code)
  LogWorkers, \* the workers of StartDispatcher
  NoEntry

EntryTypes == {"request", "response"}
Entries == [id : Requests, type : EntryTypes]

ASSUME LoggerAssumption ==
  /\ LogMode \in EntryTypes \cup {"all"}
  /\ QueueCap \in Nat \ {0}
  /\ NoEntry \notin Entries

VARIABLES
  stage,      \* [Requests -> where its goroutine is in ServeHTTP]
  status,     \* [Requests -> statusCode of the loggingResponseWriter]
  workQueue,  \* WorkQueue, a FIFO channel
  carriers,   \* entries, each with a goroutine that waits for a worker
  atWorker,   \* [LogWorkers -> the entry it sends, NoEntry while it is idle]
  sent,       \* entries the sink has accepted, in order
  failed      \* entries whose event was not delivered

logVars == <<stage, status, workQueue, carriers, atWorker, sent, failed>>

Statuses == {0, 200, 500}

LoggerTypeOK ==
  /\ stage \in [Requests -> {"new", "logRequest", "next", "logResponse", "done"}]
  /\ status \in [Requests -> Statuses]
  /\ workQueue \in Seq(Entries)
  /\ Len(workQueue) <= QueueCap
  /\ carriers \in SUBSET Entries
  /\ atWorker \in [LogWorkers -> Entries \cup {NoEntry}]
  /\ sent \in Seq(Entries)
  /\ failed \in SUBSET Entries

LoggerInit ==
  /\ stage = [r \in Requests |-> "new"]
  /\ status = [r \in Requests |-> 0]
  /\ workQueue = <<>>
  /\ carriers = {}
  /\ atWorker = [w \in LogWorkers |-> NoEntry]
  /\ sent = <<>>
  /\ failed = {}

-----------------------------------------------------------------------------
(* LoggerHandler.ServeHTTP, one goroutine per request.                     *)

Logs(type) == LogMode \in {"all", type}

ReadRequest(r) ==
  /\ stage[r] = "new"
  /\ stage' = [stage EXCEPT ![r] = IF Logs("request") THEN "logRequest" ELSE "next"]
  /\ UNCHANGED <<status, workQueue, carriers, atWorker, sent, failed>>

\* QueueLogRequest: the handler waits while the channel is full.
Enqueue(r, type) ==
  /\ Len(workQueue) < QueueCap
  /\ workQueue' = Append(workQueue, [id |-> r, type |-> type])
  /\ UNCHANGED <<status, carriers, atWorker, sent, failed>>

QueueRequest(r) ==
  /\ stage[r] = "logRequest"
  /\ stage' = [stage EXCEPT ![r] = "next"]
  /\ Enqueue(r, "request")

\* The next handler has written the response. The status is that of its call
\* of WriteHeader, and 0 when it only called Write.
NextReturns(r, code) ==
  /\ stage[r] = "next"
  /\ status' = [status EXCEPT ![r] = code]
  /\ stage' = [stage EXCEPT ![r] = IF code = 200 /\ Logs("response")
                                     THEN "logResponse" ELSE "done"]
  /\ UNCHANGED <<workQueue, carriers, atWorker, sent, failed>>

QueueResponse(r) ==
  /\ stage[r] = "logResponse"
  /\ stage' = [stage EXCEPT ![r] = "done"]
  /\ Enqueue(r, "response")

-----------------------------------------------------------------------------
(* StartDispatcher and Worker.Start.                                       *)

\* Variant: the dispatcher waits for the worker itself.
DispatchWaits ==
  /\ workQueue # <<>>
  /\ carriers = {}
  /\ carriers' = {Head(workQueue)}
  /\ workQueue' = Tail(workQueue)
  /\ UNCHANGED <<stage, status, atWorker, sent, failed>>

\* Each entry gets a goroutine, so the channel is emptied whatever the workers
\* are doing.
Dispatch ==
  /\ workQueue # <<>>
  /\ carriers' = carriers \cup {Head(workQueue)}
  /\ workQueue' = Tail(workQueue)
  /\ UNCHANGED <<stage, status, atWorker, sent, failed>>

\* Variant: the worker's channel stays in the WorkerQueue.
HandOverOverwrites(e, w) ==
  /\ e \in carriers
  /\ carriers' = carriers \ {e}
  /\ atWorker' = [atWorker EXCEPT ![w] = e]
  /\ UNCHANGED <<stage, status, workQueue, sent, failed>>

\* A goroutine takes an idle worker's channel from the WorkerQueue and gives
\* it the entry; which goroutine is not determined.
HandOver(e, w) ==
  /\ e \in carriers
  /\ atWorker[w] = NoEntry
  /\ carriers' = carriers \ {e}
  /\ atWorker' = [atWorker EXCEPT ![w] = e]
  /\ UNCHANGED <<stage, status, workQueue, sent, failed>>

\* sendCloudEvent; a failure is only logged, and the entry is gone.
SendCloudEvent(w) ==
  /\ atWorker[w] # NoEntry
  /\ atWorker' = [atWorker EXCEPT ![w] = NoEntry]
  /\ \/ sent' = Append(sent, atWorker[w]) /\ UNCHANGED failed
     \/ failed' = failed \cup {atWorker[w]} /\ UNCHANGED sent
  /\ UNCHANGED <<stage, status, workQueue, carriers>>

LogHandler(r) == ReadRequest(r) \/ QueueRequest(r) \/ QueueResponse(r)

Logging ==
  \/ Dispatch
  \/ \E w \in LogWorkers : SendCloudEvent(w) \/ \E e \in carriers : HandOver(e, w)

-----------------------------------------------------------------------------
SentEntries == {sent[i] : i \in DOMAIN sent}
QueuedEntries == {workQueue[i] : i \in DOMAIN workQueue}
WorkedOn == {atWorker[w] : w \in LogWorkers} \ {NoEntry}

\* The entries the handler has queued so far.
Queued(r, type) ==
  IF type = "request"
    THEN Logs("request") /\ stage[r] \in {"next", "logResponse", "done"}
    ELSE Logs("response") /\ stage[r] = "done" /\ status[r] = 200

NoDoubles(seq) == \A i, j \in DOMAIN seq : seq[i] = seq[j] => i = j

Places == <<QueuedEntries, carriers, WorkedOn, SentEntries, failed>>

\* An entry the handler has queued is in exactly one place on its way to the
\* sink, and nothing else is: no entry is lost between the channels and
\* goroutines, sent twice, or made up.
EntriesConserved ==
  /\ UNION {Places[i] : i \in DOMAIN Places} = {e \in Entries : Queued(e.id, e.type)}
  /\ \A i, j \in DOMAIN Places : i # j => Places[i] \cap Places[j] = {}
  /\ NoDoubles(sent)

LoggerInv == LoggerTypeOK /\ EntriesConserved

\* The inductive invariant behind LoggerInv: the handler waits to queue only what
\* it will have queued, and no entry is twice in a channel or with two workers.
StagesRight ==
  \A r \in Requests :
    /\ stage[r] = "logRequest" => Logs("request")
    /\ stage[r] = "logResponse" => Logs("response") /\ status[r] = 200

LoggerIInv ==
  /\ LoggerInv
  /\ StagesRight
  /\ NoDoubles(workQueue)
  /\ \A v, w \in LogWorkers : atWorker[v] = atWorker[w] /\ atWorker[v] # NoEntry => v = w
=============================================================================
