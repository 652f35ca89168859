\* One pump slot that other modules are plugged into as well.
SPECIFICATION FairSpec
CONSTANTS
  pump = pump
  other = other
  none = none
  NumSlots = 1
  QueryAttempts = 2
  RevisionModulus = 2
  EpochModulus = 2
  ModuleTypes = {pump, other}
  KnownTypes = {pump, other}
  NoType = none
  Pump = pump
  Broken = {}
  WrapHits = FALSE
INVARIANT OnOnlyWanted
PROPERTIES
  PumpsFollow
  SilenceTurnsOff
