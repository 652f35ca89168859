\* Two fields of two values, one of them the default, and two requests.
SPECIFICATION FairSpec
CONSTANTS
  Client = "client"
  Status = "status"
  Fields = {"client", "status"}
  Values = {"default", "other"}
  Default <- MCDefault
  Requests <- MCRequests
  IdleTimeout = 3
  UnplugTimeout = 2
INVARIANTS
  StoreAgrees
  SessionIsExclusive
PROPERTIES
  EndsOnlyInSilence
  ControllerRuns
