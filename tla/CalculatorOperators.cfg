CONSTANTS
  MaxLength = 3
  MaxAnimations = 2
SPECIFICATION Spec
INVARIANT NoSuccessiveOperators
