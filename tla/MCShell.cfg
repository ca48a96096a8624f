CONSTANTS
  Words = {"echo", "cat", "yes", "true", "nothing", "f", "g"}
  Programs = {"echo", "cat", "yes", "true"}
  Missing = {"nothing"}
  MaxArgs = 3
  MemSize = 600
  MaxPid = 5
  MaxTokens = 5
  Input <- MCInput
SPECIFICATION MCSpec
INVARIANTS
  Plumbing
  InOrder
  ParserAgrees
  AllWaysShown
  ChildrenAreWaitedFor
PROPERTY
  ParentsReturn
CHECK_DEADLOCK FALSE
