CONSTANTS
  Modes <- SmallModes
  Counts <- UpToTwo
  Null = Null
  Devices <- SmallDevices
  MaxTries = 0
  MaxFlips = 4
SPECIFICATION LibdrmSpec
INVARIANTS ChosenIsRight SizeWasShown ContextIsReleased MissingSizeHasAReason
PROPERTY QueryEnds
