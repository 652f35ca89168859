\* Two slots, the second with a contact that can open for a moment.
SPECIFICATION FairSpec
CONSTANTS
  pump = pump
  none = none
  CommandRetries = 1
  HealthFailLimit = 1
  EpochModulus = 1
  ModuleTypes = {pump}
  KnownTypes = {pump}
  NoType = none
  NumSlots = 2
  Noise = {"Nack"}
  Noisy = {}
  Broken = {}
  BriefGaps = {1}
PROPERTY LockMovesOn
