--------------------------- MODULE VllmCompletions ---------------------------
(***************************************************************************)
(* huggingfaceserver/vllm/vllm_completions.py: one completion on the vLLM  *)
(* engine. A request has some prompts and asks for n choices of each. The  *)
(* engine answers the prompts in any order, each answer with all that the  *)
(* choices of a prompt have become so far; it is either sent on as the     *)
(* difference to what was sent before, or kept until the last one and      *)
(* sent as a whole.                                                        *)
(*                                                                         *)
(* A token is <<prompt, choice, position>>, choice 0 being the prompt, and *)
(* a text is the sequence of the tokens it is made of; the text of an      *)
(* answer may be behind its tokens. Log probabilities are left out, their  *)
(* tokens are not.                                                         *)
(***************************************************************************)
EXTENDS Integers, Sequences, FiniteSets

CONSTANTS
  Params,          \* the requests
  max_model_len,
  None

AllParams ==
  [stream : BOOLEAN, echo : BOOLEAN, n : Nat \ {0}, best_of : Nat \cup {None},
   max_tokens : Nat \cup {None}, prompts : Seq(Nat \ {0})]   \* lengths of the prompts

VARIABLES
  pc,               \* "new", "refused", "running" or "done"
  request,
  max_tokens,       \* request.max_tokens, which the validation changes
  final_res_batch,  \* [prompts -> the last answer of the engine, the choices in its order]
  previous,         \* [choices -> lengths of previous_texts and previous_num_tokens]
  has_echoed,       \* [choices -> BOOLEAN]
  sent              \* [choices -> what a client has put together from the chunks]

vars == <<pc, request, max_tokens, final_res_batch, previous, has_echoed, sent>>

Nothing == [text |-> <<>>, tokens |-> <<>>, reason |-> None, usage |-> None]

Init ==
  /\ pc = "new"
  /\ request \in Params
  /\ max_tokens = request.max_tokens
  /\ final_res_batch = [k \in DOMAIN request.prompts |-> <<>>]
  /\ LET choices == 1..(request.n * Len(request.prompts)) IN
     /\ previous = [i \in choices |-> [text |-> 0, tokens |-> 0]]
     /\ has_echoed = [i \in choices |-> FALSE]
     /\ sent = [i \in choices |-> Nothing]

Prompts == DOMAIN request.prompts
Streams == request.stream /\ request.best_of \in {None, request.n}

-----------------------------------------------------------------------------
(* Validation, one prompt after the other. A limit that is not given       *)
(* becomes what the first prompt leaves, for all of them.                  *)

Limit == IF request.max_tokens = None THEN max_model_len - request.prompts[1]
         ELSE request.max_tokens

Fits(k) == request.prompts[k] + Limit <= max_model_len

\* What the engine is asked to generate. It refuses less than one token, and
\* fewer candidates than choices; the candidates that are not among the best
\* are never seen.
SamplingLimit == IF request.echo /\ Limit = 0 THEN 1 ELSE Limit

Samples == SamplingLimit >= 1 /\ (request.best_of # None => request.best_of >= request.n)

CreateCompletion ==
  /\ pc = "new"
  /\ max_tokens' = Limit
  /\ pc' = IF (\A k \in Prompts : Fits(k)) /\ Samples THEN "running" ELSE "refused"
  /\ UNCHANGED <<request, final_res_batch, previous, has_echoed, sent>>

-----------------------------------------------------------------------------
(* The engine. An output has the place of its choice in the group, the     *)
(* lengths of its tokens and of its text, and the reason why it is over.   *)

Empty == [index |-> 0, tokens |-> 0, text |-> 0, reason |-> None]
Last(k, c) ==
  LET res == final_res_batch[k] IN
  IF res = <<>> THEN [Empty EXCEPT !.index = c]
  ELSE CHOOSE o \in {res[j] : j \in DOMAIN res} : o.index = c

\* A choice that is not over gets a token; a stop string is cut from its text,
\* of which nothing was shown before.
Continuations(o) ==
  IF o.reason # None THEN {o}
  ELSE {[index |-> o.index, tokens |-> o.tokens + 1, text |-> t, reason |-> r] :
          t \in o.text..(o.tokens + 1),
          r \in IF o.tokens + 1 = SamplingLimit THEN {"length", "stop"} ELSE {None, "stop"}}

\* What may become of the choices of a prompt, and their order.
Turns(k) ==
  {f \in [1..request.n -> UNION {Continuations(Last(k, c)) : c \in 1..request.n}] :
     \A c \in 1..request.n : f[c] \in Continuations(Last(k, c))}
Ranks ==
  {f \in [1..request.n -> 1..request.n] : \A i, j \in 1..request.n : f[i] = f[j] => i = j}

\* The outputs of one group, the likeliest first.
Answers(k) == {[j \in 1..request.n |-> o[rank[j]]] : o \in Turns(k), rank \in Ranks}

Over(k) ==
  /\ final_res_batch[k] # <<>>
  /\ \A j \in 1..request.n : final_res_batch[k][j].reason # None

-----------------------------------------------------------------------------
(* The answer.                                                             *)

Piece(k, c, from, to) == [j \in 1..(to - from) |-> <<k, c, from + j>>]
PromptOf(k) == Piece(k, 0, 0, request.prompts[k])
TextOf(k, o) == Piece(k, o.index, 0, o.text)
TokensOf(k, o) == Piece(k, o.index, 0, o.tokens)

Usage(k, o) == [prompt |-> request.prompts[k], completion |-> o.tokens]

Choice(k, o) == o.index + (k - 1) * request.n

EchoesNow(i) == request.echo /\ ~has_echoed[i]

\* Variant: the text is cut at the number of the tokens.
DeltaFromTokens(k, o) ==
  LET i == Choice(k, o) IN
  CASE request.echo /\ max_tokens = 0 -> [text |-> PromptOf(k), tokens |-> PromptOf(k)]
    [] max_tokens > 0 /\ EchoesNow(i) ->
         [text |-> PromptOf(k) \o TextOf(k, o), tokens |-> PromptOf(k) \o TokensOf(k, o)]
    [] OTHER -> [text |-> Piece(k, o.index, previous[i].tokens, o.text),
                 tokens |-> Piece(k, o.index, previous[i].tokens, o.tokens)]

\* The difference that is sent for an output.
Delta(k, o) ==
  LET i == Choice(k, o) IN
  CASE request.echo /\ max_tokens = 0 -> [text |-> PromptOf(k), tokens |-> PromptOf(k)]
    [] max_tokens > 0 /\ EchoesNow(i) ->
         [text |-> PromptOf(k) \o TextOf(k, o), tokens |-> PromptOf(k) \o TokensOf(k, o)]
    [] OTHER -> [text |-> Piece(k, o.index, previous[i].text, o.text),
                 tokens |-> Piece(k, o.index, previous[i].tokens, o.tokens)]

\* One turn of completion_stream_generator, all the outputs of an answer.
Send(k, res) ==
  LET of == [i \in {Choice(k, res[j]) : j \in DOMAIN res} |->
               CHOOSE o \in {res[j] : j \in DOMAIN res} : Choice(k, o) = i]
  IN
  /\ sent' = [i \in DOMAIN sent |->
       IF i \notin DOMAIN of THEN sent[i]
       ELSE LET d == Delta(k, of[i]) IN
            [text |-> sent[i].text \o d.text, tokens |-> sent[i].tokens \o d.tokens,
             reason |-> of[i].reason,
             usage |-> IF of[i].reason = None THEN None ELSE Usage(k, of[i])]]
  /\ has_echoed' = [i \in DOMAIN has_echoed |->
       has_echoed[i] \/ (i \in DOMAIN of /\ request.echo)]
  /\ previous' = [i \in DOMAIN previous |->
       IF i \in DOMAIN of THEN [text |-> of[i].text, tokens |-> of[i].tokens] ELSE previous[i]]

Receive(k, res) ==
  /\ pc = "running"
  /\ ~Over(k)
  /\ final_res_batch' = [final_res_batch EXCEPT ![k] = res]
  /\ IF Streams THEN Send(k, res) ELSE UNCHANGED <<sent, has_echoed, previous>>
  /\ UNCHANGED <<pc, request, max_tokens>>

\* request_output_to_completion_response.
Shown(k, o) ==
  CASE request.echo /\ max_tokens = 0 -> [text |-> PromptOf(k), tokens |-> PromptOf(k)]
    [] request.echo /\ max_tokens > 0 ->
         [text |-> PromptOf(k) \o TextOf(k, o), tokens |-> PromptOf(k) \o TokensOf(k, o)]
    [] OTHER -> [text |-> TextOf(k, o), tokens |-> TokensOf(k, o)]

Whole ==
  [i \in DOMAIN sent |->
     LET k == ((i - 1) \div request.n) + 1
         o == final_res_batch[k][((i - 1) % request.n) + 1]
     IN  [text |-> Shown(k, o).text, tokens |-> Shown(k, o).tokens, reason |-> o.reason]]

\* The sum of the natural numbers f[x].
Total(f) == Cardinality(UNION {{x} \X (1..f[x]) : x \in DOMAIN f})

WholeUsage ==
  [prompt |-> Total(request.prompts),
   completion |-> Total([at \in Prompts \X (1..request.n) |->
                           final_res_batch[at[1]][at[2]].tokens])]

Finish ==
  /\ pc = "running"
  /\ \A k \in Prompts : Over(k)
  /\ pc' = "done"
  /\ UNCHANGED <<request, max_tokens, final_res_batch, previous, has_echoed, sent>>

Ended == pc \in {"done", "refused"} /\ UNCHANGED vars

Next ==
  \/ CreateCompletion
  \/ \E k \in Prompts : \E res \in Answers(k) : Receive(k, res)
  \/ Finish
  \/ Ended

Spec == Init /\ [][Next]_vars

-----------------------------------------------------------------------------
AllChoices == DOMAIN sent

\* The state is well-formed, and a stream remembers of each choice what it has
\* sent: its lengths without the prompt, and whether the prompt was sent.
CompletionsTypeOK ==
  /\ pc \in {"new", "refused", "running", "done"}
  /\ request \in AllParams
  /\ max_tokens \in Int \cup {None}
  /\ \A i \in AllChoices :
       LET k == ((i - 1) \div request.n) + 1
           prompt == IF has_echoed[i] THEN request.prompts[k] ELSE 0
       IN  max_tokens # 0 =>
             /\ Len(sent[i].text) = prompt + previous[i].text
             /\ Len(sent[i].tokens) = prompt + previous[i].tokens

\* At every moment what a client has put together of a choice is what the request
\* would show of it as a whole, in whatever order the engine answers the prompts
\* and ranks the choices.
StreamIsWhole ==
  Streams => \A k \in Prompts : \A j \in DOMAIN final_res_batch[k] :
    LET o == final_res_batch[k][j]
        s == sent[o.index + (k - 1) * request.n]
    IN  /\ [text |-> s.text, tokens |-> s.tokens] = Shown(k, o)
        /\ s.reason = o.reason

\* When it is done, a stream has sent the choices of each prompt that the whole
\* answer has at the places of that prompt, in some order.
StreamChoicesAgree ==
  Streams /\ pc = "done" => \A k \in Prompts :
    LET at == ((k - 1) * request.n + 1)..(k * request.n)
    IN  {[text |-> sent[i].text, tokens |-> sent[i].tokens, reason |-> sent[i].reason] : i \in at}
          = {Whole[i] : i \in at}

\* The usages of the choices of a stream add up to the usage of the whole answer,
\* the prompt being counted once.
UsagesAgree ==
  Streams /\ pc = "done" =>
    /\ Total([i \in AllChoices |-> sent[i].usage.completion]) = WholeUsage.completion
    /\ Total([i \in AllChoices |-> sent[i].usage.prompt]) = request.n * WholeUsage.prompt

\* Asked for a stream or not, a client gets the same choices and usage.
StreamAgrees == CompletionsTypeOK /\ StreamIsWhole /\ StreamChoicesAgree /\ UsagesAgree

\* No prompt grows over the context of the model, but for the one token that is
\* generated when only the prompt is to be echoed.
ContextIsEnough ==
  \A k \in Prompts : \A j \in DOMAIN final_res_batch[k] :
    LET n == final_res_batch[k][j].tokens
    IN  request.prompts[k] + n <= max_model_len + (IF max_tokens = 0 THEN 1 ELSE 0)

\* A request is refused only if a prompt with the given limit is too long, nothing
\* is to be generated or echoed, or there are fewer candidates than choices.
\* Without a limit, a prompt must leave room for a token and no prompt may be
\* longer than the first.
RefusedForCause ==
  pc = "refused" =>
    \/ request.best_of # None /\ request.best_of < request.n
    \/ request.max_tokens = 0 /\ ~request.echo
    \/ request.max_tokens # None /\ \E k \in Prompts : request.prompts[k] + request.max_tokens > max_model_len
    \/ request.max_tokens = None /\ \/ request.prompts[1] >= max_model_len
                                    \/ \E k \in Prompts : request.prompts[k] > request.prompts[1]

\* The limit is neither too generous nor too strict.
LimitsHold == ContextIsEnough /\ RefusedForCause

-----------------------------------------------------------------------------
(* The inductive invariant behind them: of every prompt there is either no *)
(* answer, or one output for each choice, of which a stream has sent all   *)
(* that there is and remembers how much that was.                          *)

ValidationRight ==
  /\ request \in AllParams /\ request.prompts # <<>>
  /\ pc \in {"new", "refused", "running", "done"}
  /\ max_tokens = IF pc = "new" THEN request.max_tokens ELSE Limit
  /\ pc \in {"running", "done"} => (\A k \in Prompts : Fits(k)) /\ Samples
  /\ pc = "refused" => ~((\A k \in Prompts : Fits(k)) /\ Samples)

OutputRight(o) ==
  /\ o \in [index : 1..request.n, tokens : Nat, text : Nat, reason : {None, "length", "stop"}]
  /\ o.text <= o.tokens /\ 1 <= o.tokens /\ o.tokens <= SamplingLimit
  /\ o.tokens = SamplingLimit => o.reason # None

\* The outputs of one prompt are those of its choices.
GroupRight(res) ==
  /\ DOMAIN res = 1..request.n
  /\ \A j \in 1..request.n : OutputRight(res[j])
  /\ \A i, j \in 1..request.n : res[i].index = res[j].index => i = j
  /\ \A c \in 1..request.n : \E j \in 1..request.n : res[j].index = c

AnswersRight ==
  /\ DOMAIN final_res_batch = Prompts
  /\ \A k \in Prompts : final_res_batch[k] # <<>> => GroupRight(final_res_batch[k])
  /\ pc \in {"new", "refused"} => \A k \in Prompts : final_res_batch[k] = <<>>
  /\ pc = "done" => \A k \in Prompts : Over(k)

\* Nothing was sent of the choice i.
Unsent(i) ==
  sent[i] = Nothing /\ previous[i] = [text |-> 0, tokens |-> 0] /\ has_echoed[i] = FALSE

\* All that there is of the output o was sent for the choice i of the prompt k.
SentWhole(i, k, o) ==
  /\ sent[i] = [text |-> Shown(k, o).text, tokens |-> Shown(k, o).tokens, reason |-> o.reason,
                usage |-> IF o.reason = None THEN None ELSE Usage(k, o)]
  /\ previous[i] = [text |-> o.text, tokens |-> o.tokens]
  /\ has_echoed[i] = request.echo

SentRight ==
  /\ DOMAIN sent = 1..(request.n * Len(request.prompts))
  /\ DOMAIN previous = DOMAIN sent /\ DOMAIN has_echoed = DOMAIN sent
  /\ \A k \in Prompts, c \in 1..request.n :
       LET res == final_res_batch[k]
           i == c + (k - 1) * request.n
       IN  IF Streams /\ res # <<>>
           THEN \E j \in 1..request.n : res[j].index = c /\ SentWhole(i, k, res[j])
           ELSE Unsent(i)

CompletionsIInv == ValidationRight /\ AnswersRight /\ SentRight
=============================================================================
