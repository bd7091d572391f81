\* Two tensors, up to one transformer, and two more attempts.
SPECIFICATION OpenSpec
CONSTANTS
  Requests <- MCRequests
  Results <- MCResults
  Paths <- MCPaths
  MaxSends = 3
  None = None
  Error = Error
INVARIANTS
  ValuesArrive
  MessagesInForm
  PlainIsServed
\* The client stops after its last attempt.
CHECK_DEADLOCK FALSE
