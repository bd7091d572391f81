----------------------------- MODULE AgentServer -----------------------------
(***************************************************************************)
(* The handlers of the agent's HTTP server (src/cmd/agent/main.go,         *)
(* buildServer): the logger around the batcher around the reverse proxy.   *)
(***************************************************************************)
EXTENDS Batcher, PayloadLogger

serverVars == <<batchVars, logVars>>

ServerInit == BatcherInit /\ LoggerInit

LogHandlerStep == \E r \in Requests : LogHandler(r) /\ UNCHANGED batchVars

LoggingStep == Logging /\ UNCHANGED batchVars

\* The logger calls ServeHTTP of the batcher.
CallBatcher(r) ==
  /\ stage[r] = "next"
  /\ Arrive(r)
  /\ UNCHANGED logVars

BatchStep ==
  /\ Loop \/ PredictorReplies
  /\ UNCHANGED logVars

\* What is not a predict request passes the batcher by, to the reverse proxy.
BypassBatcher(r, code) ==
  /\ caller[r] = "new"
  /\ NextReturns(r, code)
  /\ UNCHANGED batchVars

\* ServeHTTP of the batcher writes the response, and never a status code.
BatcherReturns(r) ==
  /\ caller[r] = "answered"
  /\ NextReturns(r, 0)
  /\ UNCHANGED batchVars

ServerNext ==
  \/ LogHandlerStep
  \/ LoggingStep
  \/ BatchStep
  \/ \E r \in Requests :
       \/ CallBatcher(r)
       \/ BatcherReturns(r)
       \/ \E code \in {200, 500} : BypassBatcher(r, code)

ServerSpec == ServerInit /\ [][ServerNext]_serverVars

\* The goroutines of the agent run and the predictor answers; nothing is assumed
\* of the sink. There are finitely many requests, so it is enough that of the
\* goroutines that wait for the same thing some one goes on.
ServerFairness ==
  /\ WF_serverVars(Dispatch /\ UNCHANGED batchVars)
  /\ WF_serverVars(WakeUp /\ UNCHANGED logVars)
  /\ WF_serverVars(PredictorReplies /\ UNCHANGED logVars)
  /\ WF_serverVars((\E r \in Requests : QueueRequest(r) \/ QueueResponse(r)) /\ UNCHANGED batchVars)
  /\ WF_serverVars(\E r \in Requests : CallBatcher(r) \/ \E code \in {200, 500} : BypassBatcher(r, code))
  /\ WF_serverVars(\E r \in Requests : BatcherReturns(r))
  /\ WF_serverVars((\E r \in Requests : Reply(r)) /\ UNCHANGED logVars)
  /\ WF_serverVars((\E r \in Requests, d \in 0..1 : ReceiveRequest(r, d)) /\ UNCHANGED logVars)
  /\ WF_serverVars((\E e \in Entries, w \in LogWorkers : HandOver(e, w)) /\ UNCHANGED batchVars)

ServerFairSpec == ServerSpec /\ ServerFairness

SinkAnswers == \A w \in LogWorkers : WF_serverVars(SendCloudEvent(w) /\ UNCHANGED batchVars)

-----------------------------------------------------------------------------
\* A request gets through the logger and the batcher and back, however small
\* the log channel is and also while the sink of the log does not answer. (A
\* request is handled once, so that what has ended has ended for good.)
EveryRequestServed ==
  <>[](\A r \in Requests : stage[r] \in {"new", "done"})

\* When the sink answers, every entry that was queued gets through to it or is
\* rejected.
EveryEntrySent ==
  SinkAnswers =>
    <>[](\A e \in Entries : Queued(e.id, e.type) => e \in SentEntries \cup failed)

\* Both promises of the handlers: the request ends whatever the sink does, and
\* its log entries end if the sink answers.
EveryRequestEnds == EveryRequestServed /\ EveryEntrySent
=============================================================================
