\* One slot with every failure, a known and two unknown types (one of them
\* has type id 0), three tries, two lost pings and a wrapping epoch.
SPECIFICATION FairSpec
CONSTANTS
  pump = pump
  zero = zero
  other = other
  CommandRetries = 3
  HealthFailLimit = 2
  EpochModulus = 3
  ModuleTypes = {pump, other, zero}
  KnownTypes = {pump}
  NoType = zero
  NumSlots = 1
  Noise = {"Nack", "BadCrc", "BadFrame", "Timeout", "Busy"}
  Noisy = {0}
  Broken = {}
  BriefGaps = {0}
INVARIANTS
  TypeOK
  ExchangeReachesIdentified
  SnapshotCoherent
PROPERTIES
  SlotsKeepPromise
  SlotsShowTheirModules
