\* A slot whose modules have one input, over a link that may refuse.
SPECIFICATION BridgeSpec
CONSTANTS
  MaxInputs = 1
  RevisionModulus = 3
  Values = {"wet", "dry"}
  Counts = {0, 1}
  QueueDepth = 1
INVARIANTS
  GoneInputsHidden
  InputListFollowsModule
PROPERTY ReadingsReachBroker
