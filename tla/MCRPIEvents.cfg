CONSTANTS
  s1 = s1
  Sinks <- OneSink
  MaxChanges = 3
SPECIFICATION Spec
INVARIANTS SettledIsCurrent TornOnlyWhileStoring EdidMatchesConnection SinksAgreeWithGetters
PROPERTY ChangesAreHeard
