CONSTANTS
  Null = Null
  Limit = 2
  AfterInfinite <- CalledAgain
  MaxChanges = 2
SPECIFICATION Spec
INVARIANT ThreadsEndSafely
