\* Two requests to the library, one to the engine, and a context of three tokens.
\* The model may hang or be done, so a state without successor is no error.
SPECIFICATION ServerSpec
CONSTANTS
  Requests = {r1, r2}
  Params <- MCParams
  VllmParams <- MCVllmParams
  MaxLength = 3
  None = None
INVARIANTS
  AnswersAreOwn
  CompletionsAgree
PROPERTIES
  EveryRequestEnds
CHECK_DEADLOCK FALSE
