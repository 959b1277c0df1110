CONSTANTS
  i1 = i1
  i2 = i2
  None = None
  Instances <- TwoObjects
  MaxEvents = 2
  MaxActivations = 2
  Wanted <- OneInterface
SPECIFICATION SystemSpec
INVARIANT TestedInstanceStays
