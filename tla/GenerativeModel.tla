--------------------------- MODULE GenerativeModel ---------------------------
(***************************************************************************)
(* huggingfaceserver/generative_model.py: the completions of a model that  *)
(* runs on the transformers library. The event loop queues the requests,   *)
(* one background thread takes them in turn. It generates the answer of a  *)
(* plain request itself; for a stream it starts a thread that generates    *)
(* and moves what that thread puts into a TextIteratorStreamer to the      *)
(* queue of the response.                                                  *)
(*                                                                         *)
(* A text is the sequence of its tokens: 0 is a token of the prompt, i the *)
(* i-th that is generated. The rows of a batch are as long as each other.  *)
(***************************************************************************)
EXTENDS Integers, Sequences, SequencesExt

CONSTANTS
  Requests,
  Params,      \* what the requests may ask for
  MaxLength,   \* max_length of the model
  None

AllParams ==
  [stream : BOOLEAN, echo : BOOLEAN, stop : BOOLEAN, seed : BOOLEAN,
   rows : Nat \ {0}, prompt : Nat \ {0}, max_tokens : Nat \cup {None}]

ASSUME GenerativeModelAssumption ==
  /\ MaxLength \in Nat \ {0}
  /\ None \notin Nat \cup Requests \cup Seq(Nat)   \* no text either
  /\ Params \subseteq AllParams

VARIABLES
  is_encoder_decoder,
  ready,       \* the model is loaded and not stopped
  loop,        \* the event loop is open
  queue,       \* _request_queue, None being the end
  worker,      \* the background thread and the request it works on
  call,        \* [Requests -> the call of create_completion]
  thread,      \* [Requests -> generate(): its state, the tokens it has made and,
               \*  as history, whether they end with a stop sequence]
  triggered,   \* [Requests -> StopSequenceStoppingCriteria.triggered]
  stats,       \* [Requests -> num_generation_tokens]
  held,        \* [Requests -> text the streamer keeps back]
  streamer,    \* [Requests -> its queue of texts, None being the end]
  responses,   \* [Requests -> response_queue]
  seed         \* the last request that has set the global seed

callVars == <<ready, loop, call>>
genVars == <<thread, triggered, held, streamer>>
vars == <<is_encoder_decoder, callVars, queue, worker, genVars, stats, responses, seed>>

NoParams == [stream |-> FALSE, echo |-> FALSE, stop |-> FALSE, seed |-> FALSE,
             rows |-> 1, prompt |-> 1, max_tokens |-> None]

Init ==
  /\ is_encoder_decoder \in BOOLEAN
  /\ ready = TRUE
  /\ loop = TRUE
  /\ queue = <<>>
  /\ worker = [pc |-> "get", at |-> None]
  /\ call = [r \in Requests |-> [pc |-> "new", params |-> NoParams, max |-> 0,
                                 text |-> <<>>, reason |-> "none", usage |-> 0]]
  /\ thread = [r \in Requests |-> [pc |-> "none", tokens |-> 0, met |-> FALSE]]
  /\ triggered = [r \in Requests |-> FALSE]
  /\ stats = [r \in Requests |-> 0]
  /\ held = [r \in Requests |-> <<>>]
  /\ streamer = [r \in Requests |-> <<>>]
  /\ responses = [r \in Requests |-> <<>>]
  /\ seed = None

P(r) == call[r].params
Prompt(r) == [i \in 1..P(r).prompt |-> 0]
Tokens(n) == [i \in 1..n |-> i]

-----------------------------------------------------------------------------
(* The event loop.                                                         *)

TooLong(p, max) == p.prompt + max > MaxLength

\* Without a limit the completion fills the context; GenerationConfig refuses a
\* limit that is not positive.
CreateCompletion(r, p) ==
  LET max == IF p.max_tokens = None THEN MaxLength - p.prompt ELSE p.max_tokens
      refused == TooLong(p, max) \/ (p.echo /\ is_encoder_decoder) \/ max <= 0
  IN
  /\ call[r].pc = "new"
  /\ ready
  /\ call' = [call EXCEPT ![r].pc = IF refused THEN "refused" ELSE "waiting",
                          ![r].params = p, ![r].max = max]
  /\ queue' = IF refused THEN queue ELSE Append(queue, r)
  /\ UNCHANGED <<is_encoder_decoder, ready, loop, worker, genVars, stats, responses, seed>>

Reason(r) == IF P(r).stop /\ triggered[r] THEN "stop" ELSE "length"

\* CompletionStreamer.__anext__, and what follows the wait of a plain request.
Consume(r) ==
  LET item == Head(responses[r]) IN
  /\ call[r].pc = "waiting"
  /\ responses[r] # <<>>
  /\ responses' = [responses EXCEPT ![r] = Tail(@)]
  /\ call' = [call EXCEPT ![r] =
       IF P(r).stream
       THEN IF item = None THEN [@ EXCEPT !.pc = "done"]
            ELSE [@ EXCEPT !.text = call[r].text \o item, !.reason = Reason(r)]
       ELSE [@ EXCEPT !.pc = "done", !.text = item, !.reason = Reason(r), !.usage = stats[r]]]
  /\ UNCHANGED <<is_encoder_decoder, ready, loop, queue, worker, genVars, stats, seed>>

\* The client of a stream goes away; the request stays where it is.
Disconnect(r) ==
  /\ call[r].pc = "waiting"
  /\ P(r).stream
  /\ call' = [call EXCEPT ![r].pc = "gone"]
  /\ UNCHANGED <<is_encoder_decoder, ready, loop, queue, worker, genVars, stats, responses, seed>>

\* Variant: the thread is told to end before what is queued.
StopAtOnce ==
  /\ ready
  /\ queue' = <<None>>
  /\ ready' = FALSE
  /\ UNCHANGED <<is_encoder_decoder, loop, call, worker, genVars, stats, responses, seed>>

Stop ==
  /\ ready
  /\ queue' = Append(queue, None)
  /\ ready' = FALSE
  /\ UNCHANGED <<is_encoder_decoder, loop, call, worker, genVars, stats, responses, seed>>

\* The server ends when the calls that are waited for are answered.
LoopCloses ==
  /\ ~ready
  /\ loop
  /\ \A r \in Requests : call[r].pc # "waiting"
  /\ loop' = FALSE
  /\ UNCHANGED <<is_encoder_decoder, ready, call, queue, worker, genVars, stats, responses, seed>>

-----------------------------------------------------------------------------
(* The background thread.                                                  *)

Works(pc) == worker.pc = pc
At(r) == worker.at = r

Take ==
  LET r == Head(queue) IN
  /\ Works("get")
  /\ queue # <<>>
  /\ queue' = Tail(queue)
  /\ IF r = None
     THEN worker' = [pc |-> "stopped", at |-> None] /\ UNCHANGED <<seed, thread>>
     ELSE /\ worker' = [pc |-> IF P(r).stream THEN "stream" ELSE "generate", at |-> r]
          /\ seed' = IF P(r).seed THEN r ELSE seed
          /\ thread' = [thread EXCEPT ![r].pc = "start"]
  /\ UNCHANGED <<is_encoder_decoder, callVars, triggered, held, streamer, stats, responses>>

\* call_soon_threadsafe: the items arrive in order; a closed loop raises.
QueuePut(r, item, pc) ==
  IF loop THEN /\ responses' = [responses EXCEPT ![r] = Append(@, item)]
               /\ worker' = [pc |-> pc, at |-> IF pc = "get" THEN None ELSE r]
  ELSE worker' = [pc |-> "dead", at |-> None] /\ UNCHANGED responses

\* generate() in the background thread; n tokens, the last of which may complete
\* a stop sequence. An exception ends the thread.
Generate(r) ==
  /\ Works("generate") /\ At(r)
  /\ \/ \E n \in 1..call[r].max, t \in {FALSE, P(r).stop} :
          /\ thread' = [thread EXCEPT ![r] = [pc |-> "ended", tokens |-> n, met |-> t]]
          /\ triggered' = [triggered EXCEPT ![r] = t]
          /\ worker' = [worker EXCEPT !.pc = "stats"]
     \/ /\ thread' = [thread EXCEPT ![r].pc = "raised"]
        /\ worker' = [pc |-> "dead", at |-> None]
        /\ UNCHANGED triggered
  /\ UNCHANGED <<is_encoder_decoder, callVars, queue, held, streamer, stats, responses, seed>>

\* What generate() returns: a decoder continues the prompt, an encoder-decoder
\* begins with a start token of its own that is skipped in the text.
Returned(r) ==
  IF is_encoder_decoder THEN 1 + thread[r].tokens ELSE P(r).prompt + thread[r].tokens

WriteStats(r) ==
  /\ Works("stats") /\ At(r)
  /\ stats' = [stats EXCEPT ![r] =
       P(r).rows * IF is_encoder_decoder THEN Returned(r) ELSE Returned(r) - P(r).prompt]
  /\ worker' = [worker EXCEPT !.pc = "put"]
  /\ UNCHANGED <<is_encoder_decoder, callVars, queue, genVars, responses, seed>>

\* The text from output_start on.
Output(r) ==
  (IF P(r).echo THEN Prompt(r) ELSE <<>>) \o Tokens(thread[r].tokens)

PutOutput(r) ==
  /\ Works("put") /\ At(r)
  /\ QueuePut(r, Output(r), "get")
  /\ UNCHANGED <<is_encoder_decoder, callVars, queue, genVars, stats, seed>>

\* Variant: an empty text is taken for the end.
MoveUntilEmpty(r) ==
  LET item == Head(streamer[r]) IN
  /\ Works("stream") /\ At(r)
  /\ streamer[r] # <<>>
  /\ streamer' = [streamer EXCEPT ![r] = Tail(@)]
  /\ IF item \in {None, <<>>} THEN QueuePut(r, None, "get") ELSE QueuePut(r, item, "stream")
  /\ UNCHANGED <<is_encoder_decoder, callVars, queue, thread, triggered, held, stats, seed>>

\* One turn of the loop over the streamer.
Move(r) ==
  LET item == Head(streamer[r]) IN
  /\ Works("stream") /\ At(r)
  /\ streamer[r] # <<>>
  /\ streamer' = [streamer EXCEPT ![r] = Tail(@)]
  /\ CASE item = None -> QueuePut(r, None, "get")
       [] item = <<>> -> UNCHANGED <<worker, responses>>
       [] OTHER -> QueuePut(r, item, "stream")
  /\ UNCHANGED <<is_encoder_decoder, callVars, queue, thread, triggered, held, stats, seed>>

-----------------------------------------------------------------------------
(* generate() in the thread of a stream.                                   *)

Generates(r, pc) == P(r).stream /\ thread[r].pc = pc

\* The streamer cuts the text where a word may still change.
PutText(r, text) ==
  \E k \in 0..Len(text) :
    /\ streamer' = [streamer EXCEPT ![r] = Append(@, SubSeq(text, 1, k))]
    /\ held' = [held EXCEPT ![r] = SubSeq(text, k + 1, Len(text))]

\* The streamer is given the prompt. It takes one row only, and generate()
\* raises; it may raise later for reasons of its own.
Begin(r) ==
  /\ Generates(r, "start")
  /\ \/ /\ P(r).rows = 1
        /\ thread' = [thread EXCEPT ![r].pc = "decode"]
        /\ IF P(r).echo THEN PutText(r, Prompt(r)) ELSE UNCHANGED <<streamer, held>>
     \/ /\ P(r).rows > 1
        /\ thread' = [thread EXCEPT ![r].pc = "raised"]
        /\ UNCHANGED <<streamer, held>>
  /\ UNCHANGED <<is_encoder_decoder, callVars, queue, worker, triggered, stats, responses, seed>>

Decode(r) ==
  LET n == thread[r].tokens + 1 IN
  /\ Generates(r, "decode")
  /\ \/ /\ thread' = [thread EXCEPT ![r].pc = "judge", ![r].tokens = n]
        /\ PutText(r, Append(held[r], n))
     \/ /\ thread' = [thread EXCEPT ![r].pc = "raised"]
        /\ UNCHANGED <<streamer, held>>
  /\ UNCHANGED <<is_encoder_decoder, callVars, queue, worker, triggered, stats, responses, seed>>

\* The stopping criteria come after the text is put: a stop sequence, or the end
\* of the text or the limit, or neither.
Judge(r) ==
  /\ Generates(r, "judge")
  /\ \/ /\ P(r).stop
        /\ triggered' = [triggered EXCEPT ![r] = TRUE]
        /\ thread' = [thread EXCEPT ![r].pc = "over", ![r].met = TRUE]
     \/ /\ thread' = [thread EXCEPT ![r].pc = "over"]
        /\ UNCHANGED triggered
     \/ /\ thread[r].tokens < call[r].max
        /\ thread' = [thread EXCEPT ![r].pc = "decode"]
        /\ UNCHANGED triggered
  /\ UNCHANGED <<is_encoder_decoder, callVars, queue, worker, held, streamer, stats, responses, seed>>

EndText(r) ==
  /\ Generates(r, "over")
  /\ thread' = [thread EXCEPT ![r].pc = "ended"]
  /\ streamer' = [streamer EXCEPT ![r] = @ \o <<held[r], None>>]
  /\ held' = [held EXCEPT ![r] = <<>>]
  /\ UNCHANGED <<is_encoder_decoder, callVars, queue, worker, triggered, stats, responses, seed>>

-----------------------------------------------------------------------------
Work == Take \/ \E r \in Requests : Generate(r) \/ WriteStats(r) \/ PutOutput(r) \/ Move(r)
Thread(r) == Begin(r) \/ Decode(r) \/ Judge(r) \/ EndText(r)

Next ==
  \/ \E r \in Requests :
       \/ \E p \in Params : CreateCompletion(r, p)
       \/ Consume(r) \/ Disconnect(r) \/ Thread(r)
  \/ Work
  \/ Stop
  \/ LoopCloses

Spec == Init /\ [][Next]_vars

\* The threads are scheduled and the event loop runs what it can.
Fairness ==
  /\ WF_vars(Work)
  /\ \A r \in Requests : WF_vars(Thread(r)) /\ WF_vars(Consume(r))

FairSpec == Spec /\ Fairness

-----------------------------------------------------------------------------
Texts == Seq(0..MaxLength)

\* The state is well-formed, and nothing is queued behind the end (stop() is
\* called once for a model that is registered).
GenerativeTypeOK ==
  /\ is_encoder_decoder \in BOOLEAN /\ ready \in BOOLEAN /\ loop \in BOOLEAN
  /\ queue \in Seq(Requests \cup {None})
  /\ \A i \in DOMAIN queue : queue[i] = None => i = Len(queue)
  /\ worker \in [pc : {"get", "generate", "stats", "put", "stream", "stopped", "dead"},
                 at : Requests \cup {None}]
  /\ call \in [Requests -> [pc : {"new", "refused", "waiting", "gone", "done"},
                            params : AllParams, max : Int, text : Texts,
                            reason : {"none", "stop", "length"}, usage : Nat]]
  /\ thread \in [Requests -> [pc : {"none", "start", "decode", "judge", "over", "ended", "raised"},
                              tokens : 0..MaxLength, met : BOOLEAN]]
  /\ triggered \in [Requests -> BOOLEAN]
  /\ stats \in [Requests -> Nat]
  /\ held \in [Requests -> Texts]
  /\ streamer \in [Requests -> Seq(Texts \cup {None})]
  /\ responses \in [Requests -> Seq(Texts \cup {None})]
  /\ seed \in Requests \cup {None}

\* What a client has received is a prefix of the text of its own request, and all
\* of it when the call is done, whether it is streamed or not: no text is lost,
\* doubled, mixed with that of another request or taken for the end.
OutputIsOwn ==
  \A r \in Requests :
    /\ call[r].text # <<>> => IsPrefix(call[r].text, Output(r))
    /\ call[r].pc = "done" => call[r].text = Output(r)

\* The usage of a plain answer counts the tokens of its own rows, although the
\* statistics are written by one thread and read by another.
UsageIsOwn ==
  \A r \in Requests :
    call[r].pc = "done" /\ ~P(r).stream /\ ~is_encoder_decoder =>
      call[r].usage = P(r).rows * thread[r].tokens

\* A finish reason "stop" is given only to a request whose own text has met a
\* stop sequence, and to every such request that is not streamed. (The chunk of
\* a stream may be read before the criteria have seen its text.)
ReasonIsTrue ==
  \A r \in Requests :
    /\ call[r].reason = "stop" => thread[r].met
    /\ call[r].pc = "done" /\ ~P(r).stream => (call[r].reason = "stop" <=> thread[r].met)

Decoding(r) ==
  IF P(r).stream THEN thread[r].pc \in {"start", "decode", "judge"}
  ELSE Works("generate") /\ At(r)

\* One request at a time draws from the global random numbers, and one that has
\* asked for a seed draws from its own.
SeedIsOwn ==
  \A r \in Requests : Decoding(r) =>
    /\ \A s \in Requests : Decoding(s) => s = r
    /\ P(r).seed => seed = r

\* A request that was accepted never outgrows the context of the model.
TokensFit == \A r \in Requests : thread[r].tokens > 0 => P(r).prompt + thread[r].tokens <= MaxLength

\* The answers, their usage, their finish reasons and their random numbers belong
\* to the request.
AnswersAreOwn ==
  GenerativeTypeOK /\ OutputIsOwn /\ UsageIsOwn /\ ReasonIsTrue /\ SeedIsOwn /\ TokensFit

NoneRaises == \A r \in Requests : thread[r].pc # "raised"

\* While generate() does not raise, every request that was accepted is answered,
\* those that are in the queue when the model is stopped included.
EveryRequestAnswered ==
  \A r \in Requests : []NoneRaises => (call[r].pc = "waiting" ~> call[r].pc # "waiting")

\* While generate() does not raise, the background thread of a model that is
\* stopped ends, so that the process can end.
WorkerEnds == []NoneRaises => (~ready ~> worker.pc \in {"stopped", "dead"})

\* Both: the queue is worked off, and then the thread ends.
EveryRequestEnds == EveryRequestAnswered /\ WorkerEnds
-----------------------------------------------------------------------------
(* The inductive invariant behind the answers: where a request is, and for *)
(* a stream, that the text the client has, the items on their way to it    *)
(* and the text that is held back continue each other up to the last token *)
(* that was generated.                                                     *)

\* The i-th token of an output whose prompt part has the length s, and a text
\* that is the part of the output from a to b.
TokenAt(s, i) == IF i <= s THEN 0 ELSE i - s
IsPart(s, text, a, b) ==
  Len(text) = b - a /\ \A i \in 1..Len(text) : text[i] = TokenAt(s, a + i)

\* The items are cut from the output between the text and the rest, to the last
\* of its e tokens.
CutAt(s, text, items, rest, e, cut) ==
  /\ IsPart(s, text, 0, cut[1])
  /\ \A i \in 1..Len(items) :
       IF items[i] = None THEN i = Len(items) /\ cut[i + 1] = cut[i]
       ELSE IsPart(s, items[i], cut[i], cut[i + 1])
  /\ IsPart(s, rest, cut[Len(items) + 1], e)
Continues(s, text, items, rest, e) ==
  \E cut \in [1..(Len(items) + 1) -> 0..e] : CutAt(s, text, items, rest, e, cut)

Shown(r) == IF P(r).echo THEN P(r).prompt ELSE 0
OutputLen(r) == Shown(r) + thread[r].tokens

\* The tokens that the streamer has been given.
Streamed(r) ==
  IF thread[r].pc \in {"none", "start"} \/ P(r).rows > 1 THEN 0 ELSE OutputLen(r)

\* A request that waits is queued once, and no request is behind the end.
QueueRight ==
  /\ \A i \in 1..Len(queue) :
       LET r == queue[i] IN
       IF r = None THEN i = Len(queue) /\ ~ready
       ELSE call[r].pc \in {"waiting", "gone"} /\ thread[r].pc = "none"
  /\ \A i, j \in 1..Len(queue) : queue[i] = queue[j] => i = j

\* What the background thread does fits its request and the thread of it.
WorkerRight ==
  /\ worker.at = None <=> worker.pc \in {"get", "stopped", "dead"}
  /\ \A r \in Requests : At(r) =>
       /\ thread[r].pc # "none"
       /\ Works("stream") <=> P(r).stream
       /\ Works("generate") => thread[r].pc = "start"
       /\ Works("stats") \/ Works("put") => thread[r].pc = "ended"
  /\ \A r \in Requests : Decoding(r) /\ worker.pc # "dead" => At(r)
  /\ ~loop => ~ready /\ \A r \in Requests : call[r].pc # "waiting"

\* What is known of a request: nothing of it is there before it is taken.
CallRight(r) ==
  /\ call[r].pc \in {"new", "refused"} => thread[r].pc = "none"
  /\ call[r].pc \notin {"new", "refused"} =>
       call[r].max > 0 /\ P(r).prompt + call[r].max <= MaxLength
  /\ thread[r].pc = "none" => call[r].pc # "done" /\ call[r].text = <<>>
  /\ thread[r].pc \in {"none", "start"} =>
       /\ thread[r].tokens = 0 /\ ~thread[r].met
       /\ responses[r] = <<>> /\ streamer[r] = <<>> /\ held[r] = <<>>
  /\ thread[r].tokens > 0 => thread[r].tokens <= call[r].max
  /\ thread[r].pc = "decode" => thread[r].tokens < call[r].max
  /\ triggered[r] <=> thread[r].met
  /\ thread[r].met => P(r).stop
  /\ call[r].reason = "stop" => thread[r].met
  /\ IsPart(Shown(r), call[r].text, 0, Len(call[r].text)) /\ Len(call[r].text) <= OutputLen(r)
  /\ call[r].pc = "done" => Len(call[r].text) = OutputLen(r) /\ thread[r].pc = "ended"

StatsRight(r) == ~is_encoder_decoder => stats[r] = P(r).rows * thread[r].tokens

\* A plain request gets its answer in one piece.
PlainRight(r) ==
  /\ thread[r].pc \in {"none", "start", "ended", "raised"}
  /\ call[r].pc # "gone"
  /\ At(r) \/ call[r].pc = "done" => responses[r] = <<>>
  /\ At(r) => call[r].pc # "done"
  /\ (Works("put") /\ At(r)) \/ responses[r] # <<>> => StatsRight(r)
  /\ responses[r] # <<>> =>
       /\ Len(responses[r]) = 1 /\ thread[r].pc = "ended"
       /\ responses[r][1] # None /\ IsPart(Shown(r), responses[r][1], 0, OutputLen(r))
  /\ call[r].pc = "done" =>
       /\ ~is_encoder_decoder => call[r].usage = P(r).rows * thread[r].tokens
       /\ call[r].reason = "stop" <=> thread[r].met

\* A stream goes on where the client is.
StreamRight(r) ==
  /\ thread[r].pc \in {"decode", "judge", "over", "ended"} => P(r).rows = 1
  /\ thread[r].pc = "ended" => held[r] = <<>>
  /\ \A i \in 1..Len(streamer[r]) : streamer[r][i] = None => thread[r].pc = "ended"
  /\ \A i \in 1..Len(responses[r]) : responses[r][i] = None => thread[r].pc = "ended"
  /\ call[r].pc = "waiting" =>
       Continues(Shown(r), call[r].text, responses[r] \o streamer[r], held[r], Streamed(r))

RequestRight(r) ==
  CallRight(r) /\ IF P(r).stream THEN StreamRight(r) ELSE PlainRight(r)

GenerativeIInv ==
  /\ GenerativeTypeOK
  /\ QueueRight
  /\ WorkerRight
  /\ SeedIsOwn
  /\ \A r \in Requests : RequestRight(r)
=============================================================================
