CONSTANTS
  States <- MCStates
  s0 = 1
  NT = 2
  Programs <- MCPrograms
  Piped <- MCPiped
  Name <- MCName
SPECIFICATION AllSpec
INVARIANTS
  FindsReachable
  EdgesComplete
  ShortestTraces
  TreeSpans
PROPERTY
  BothEnd
