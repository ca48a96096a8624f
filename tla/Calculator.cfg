CONSTANTS
  MaxLength = 3
  MaxAnimations = 2
SPECIFICATION Spec
INVARIANTS
  ResultsAreReplaced
  WellFormed
PROPERTY
  EvaluationEnds
