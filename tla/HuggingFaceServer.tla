-------------------------- MODULE HuggingFaceServer --------------------------
(***************************************************************************)
(* huggingfaceserver/__main__.py: the completions of one model. When it is *)
(* loaded the server chooses, for good, what runs it: the vLLM engine, or  *)
(* the transformers library in a thread of its own.                        *)
(***************************************************************************)
EXTENDS GenerativeModel

CONSTANT VllmParams   \* what the requests to the engine may ask for

VARIABLES
  backend,
  pc, request, max_tokens, final_res_batch, previous, has_echoed, sent

Vllm == INSTANCE VllmCompletions WITH Params <- VllmParams, max_model_len <- MaxLength

ASSUME VllmCompletionsAssumption ==
  /\ VllmParams \subseteq Vllm!AllParams
  /\ \A p \in VllmParams : p.prompts # <<>>
  /\ None \notin {"length", "stop"}

vllmVars == <<pc, request, max_tokens, final_res_batch, previous, has_echoed, sent>>
serverVars == <<backend, vars, vllmVars>>

\* The requests to the backend that is not chosen are not told apart.
ServerInit ==
  /\ Init
  /\ Vllm!Init
  /\ \/ backend = "vllm" /\ ~is_encoder_decoder
     \/ backend = "huggingface" /\ request = CHOOSE p \in VllmParams : TRUE

HuggingFaceStep == backend = "huggingface" /\ Next /\ UNCHANGED <<backend, vllmVars>>

VllmStep == backend = "vllm" /\ Vllm!Next /\ UNCHANGED <<backend, vars>>

ServerNext == HuggingFaceStep \/ VllmStep

ServerSpec == ServerInit /\ [][ServerNext]_serverVars /\ Fairness

\* Asked for a stream or not, a client of the engine gets the same choices and
\* usage, in whatever order the engine answers the prompts and ranks the choices,
\* and the limit on their tokens is neither too generous nor too strict.
CompletionsAgree == Vllm!StreamAgrees /\ Vllm!LimitsHold
=============================================================================
