CONSTANTS
  o1 = o1
  o2 = o2
  d1 = d1
  d2 = d2
  r24 = r24
  r60 = r60
  UNKNOWN = UNKNOWN
  Seeder = Seeder
  Nobody = Nobody
  Observers <- TwoObservers
  Dispatchers <- OneDispatcher
  Rates <- OneRate
  MaxAttempts = 2
  MaxModeChanges = 1
  MaxRegistrations = 2
SPECIFICATION Spec
INVARIANTS CalledSinkIsAlive ReferencesMatchEntries
PROPERTIES ImplementsFeed CallbacksFinish
