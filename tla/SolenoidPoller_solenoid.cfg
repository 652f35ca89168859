\* One slot with a solenoid module of up to two outputs.
SPECIFICATION FairSpec
CONSTANTS
  solenoid = solenoid
  none = none
  NumSlots = 1
  EpochModulus = 2
  ModuleTypes = {solenoid}
  KnownTypes = {solenoid}
  NoType = none
  Broken = {}
  QueryAttempts = 2
  RevisionModulus = 2
  MaxOutputs = 2
  Solenoid = solenoid
  Counts = {0, 2}
  Loose = {2}
INVARIANT OnOnlyCommanded
PROPERTIES
  FeedsKeepPromise
  CommandApplied
  AllOffInSilence
