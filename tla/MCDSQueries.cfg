CONSTANTS
  c1 = c1
  hdmi = hdmi
  panel = panel
  component = component
  Unset = Unset
  Callers <- OneCaller
  Ports <- ThreePorts
  PortType <- ThreeTypes
  DefaultPort = hdmi
  Sinks <- TwoSinks
  NoSink <- Nothing
  STBFormats <- STBBits
  MaxLength = 20
  Lengths <- SomeLengths
  Asked <- EveryQuery
  MaxCalls = 1
  MaxChanges = 2
SPECIFICATION Spec
INVARIANTS SuccessIsAnAnswer EarlierPortsWereOff SteadyDisplayIsAnswered EdidFits
PROPERTY QueriesReturn
