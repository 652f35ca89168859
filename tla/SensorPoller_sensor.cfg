\* One slot with a sensor module of one input; requests may name a second.
SPECIFICATION FairSpec
CONSTANTS
  sensor = sensor
  none = none
  NumSlots = 1
  EpochModulus = 2
  ModuleTypes = {sensor}
  KnownTypes = {sensor}
  NoType = none
  Broken = {}
  QueryAttempts = 2
  QueueDepth = 2
  RevisionModulus = 3
  MaxInputs = 2
  Sensor = sensor
  Counts = {1}
  Values = {"wet"}
PROPERTIES
  SamplesKeepPromise
  DemandsAnswered
  ReadingsFollow
