\* One pump whose module comes and goes, over a link that may refuse.
SPECIFICATION MCSpec
CONSTANTS
  pump = pump
  none = none
  NumSlots = 1
  QueryAttempts = 1
  RevisionModulus = 3
  EpochModulus = 2
  ModuleTypes = {pump}
  KnownTypes = {pump}
  NoType = none
  Pump = pump
  Broken = {}
  WrapHits = FALSE
INVARIANT GoneIsShown
PROPERTY StateReachesBroker
