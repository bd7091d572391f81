---------------------------- MODULE AgentRequests ----------------------------
(* The HTTP requests that go through the handlers of the agent's server. *)

CONSTANTS Requests    \* each with a goroutine, an id and a context pointer of its own
=============================================================================
