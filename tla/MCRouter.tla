------------------------------- MODULE MCRouter -------------------------------
(* Graphs with the four kinds of nodes, alone and in each other.           *)
EXTENDS Router

CONSTANTS Inner, Missing

Service == [node |-> NoNode, hard |-> FALSE, condition |-> FALSE, useResponse |-> FALSE, weight |-> 0]
HardService == [Service EXCEPT !.hard = TRUE]
To(n, step) == [step EXCEPT !.node = n]
Node(type, steps) == [type |-> type, steps |-> steps]
Graph(root, inner) == [n \in {Root, Inner} |-> IF n = Root THEN root ELSE inner]

Split == Node("Splitter", <<[Service EXCEPT !.weight = 40], [HardService EXCEPT !.weight = 60]>>)
Choose == Node("Switch", <<[Service EXCEPT !.condition = TRUE], [HardService EXCEPT !.condition = TRUE]>>)
Both == Node("Ensemble", <<Service, HardService>>)
Chain == Node("Sequence", <<HardService, [Service EXCEPT !.condition = TRUE, !.useResponse = TRUE]>>)

MCGraphs ==
  {Graph(Node("Ensemble", <<HardService, Service, HardService>>), Both),
   Graph(Node("Ensemble", <<HardService, To(Inner, Service)>>), Chain),
   Graph(Node("Ensemble", <<Service, To(Inner, HardService)>>), Split),
   Graph(Node("Sequence", <<To(Inner, HardService), [Service EXCEPT !.useResponse = TRUE], Service>>), Both),
   Graph(Node("Sequence", <<To(Inner, Service), To(Missing, Service)>>), Choose),
   Graph(Node("Splitter", <<[To(Inner, Service) EXCEPT !.weight = 100]>>), Chain)}

MCPaths == {<<>>} \cup {<<i>> : i \in 1..3} \cup {<<i, j>> : i \in 1..3, j \in 1..2}
=============================================================================
