\* A slot whose modules have one or two outputs, over a link that may refuse.
SPECIFICATION BridgeSpec
CONSTANTS
  MaxOutputs = 2
  RevisionModulus = 3
  Counts = {1, 2}
  Reported = {"On", "Disconnected"}
INVARIANTS
  GoneOutputsHidden
  ListFollowsModule
PROPERTIES
  OutputStatesReachBroker
  RequestAnswered
