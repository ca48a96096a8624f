CONSTANTS
  Threads <- MCThreads
  roles <- MCRoles
SPECIFICATION FairSpec
INVARIANTS
  OneTurn
  AssertHolds
PROPERTIES
  DrawsFish
  Progress
