------------------------- MODULE MCHuggingFaceServer -------------------------
(* Requests that differ in what the backends tell apart.                   *)
EXTENDS HuggingFaceServer

Plain == [NoParams EXCEPT !.seed = TRUE]

MCParams ==
  {[Plain EXCEPT !.stop = TRUE],
   [Plain EXCEPT !.echo = TRUE, !.rows = 2, !.max_tokens = 1],
   [Plain EXCEPT !.prompt = MaxLength, !.max_tokens = 1],
   [Plain EXCEPT !.prompt = MaxLength + 1, !.seed = FALSE],
   [Plain EXCEPT !.stream = TRUE, !.stop = TRUE],
   [Plain EXCEPT !.stream = TRUE, !.echo = TRUE, !.max_tokens = 2, !.seed = FALSE],
   [Plain EXCEPT !.stream = TRUE, !.rows = 2]}

\* One or two prompts and up to two choices.
MCVllmParams ==
  {p \in [stream : BOOLEAN, echo : BOOLEAN, n : {1, 2}, best_of : {None, 1, 2},
          max_tokens : {None, 0, 1, 2}, prompts : {<<1>>, <<3>>, <<1, 2>>, <<2, 1>>}] :
     \* two candidates for each of two prompts with two tokens are left out
     Len(p.prompts) = 2 /\ p.n = 2 => p.max_tokens \in {0, 1}}
=============================================================================
