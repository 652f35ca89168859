\* One slot, two device ids, delays 1, 2, 3.
SPECIFICATION FairSpec
CONSTANTS
  pump = pump
  nack = nack
  none = none
  Prefixes = {"garden", "plant-room"}
  Statuses <- MCStatuses
  MaxRetryDelay = 3
  DelayModulus = 8
INVARIANTS
  LinkTypeOK
  SubscribedToCurrent
PROPERTIES
  LinkRestored
  StatusReachesBroker
