\* Two slots that compete for the lock and the bus; the module in the one that
\* is served first keeps failing.
SPECIFICATION FairSpec
CONSTANTS
  pump = pump
  none = none
  CommandRetries = 1
  HealthFailLimit = 1
  EpochModulus = 1
  ModuleTypes = {pump}
  KnownTypes = {pump}
  NoType = none
  NumSlots = 2
  Noise = {"Nack"}
  Noisy = {}
  Broken = {0}
  BriefGaps = {}
INVARIANTS
  LockAgreement
  SelectDiscipline
  AddressesUnique
PROPERTY SlotsShowTheirModules
