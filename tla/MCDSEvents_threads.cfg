CONSTANTS
  o1 = o1
  o2 = o2
  d1 = d1
  d2 = d2
  r24 = r24
  r60 = r60
  UNKNOWN = UNKNOWN
  Seeder = Seeder
  Nobody = Nobody
  Observers <- OneObserver
  Dispatchers <- TwoDispatchers
  Rates <- TwoRates
  MaxAttempts = 2
  MaxModeChanges = 2
  MaxRegistrations = 0
SPECIFICATION Spec
INVARIANTS TypeOK LocksAreHeld DiffIsExact
PROPERTIES ImplementsFeed SeedEnds
