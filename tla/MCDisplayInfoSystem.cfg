CONSTANTS
  i1 = i1
  i2 = i2
  None = None
  Instances <- TwoObjects
  MaxEvents = 1
  MaxActivations = 2
  Wanted <- TwoInterfaces
SPECIFICATION SystemSpec
INVARIANTS CallsAreSafe SeedStaysInside NothingIsLeft
PROPERTIES DestructionEnds DeactivationEnds UndisturbedPluginHears
