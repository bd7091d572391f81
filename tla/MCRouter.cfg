\* One request through each of six graphs.
SPECIFICATION FairSpec
CONSTANTS
  Graphs <- MCGraphs
  Paths <- MCPaths
  Nodes = {root, inner, missing}
  Root = root
  Inner = inner
  Missing = missing
  NoNode = NoNode
INVARIANTS
  RouterInv
  EnsembleIsJustified
PROPERTIES
  EveryRequestEnds
