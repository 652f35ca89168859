SPECIFICATION FairProgramming
CONSTANTS
  PageBytes = 4
  EepromPageBytes = 2
  FlashBytes = 8
  EepromBytes = 4
  MaxPage = 8
  FaultSteps = {1, 2, 4, 8, 10, 16}
  MaxTrouble = 1
  Image <- MCImage
  IspOps <- MCIspOps
  UpdiOps <- MCUpdiOps
INVARIANTS
  TargetHoldsWhatWasConfirmed
  AnswersFit
  WiresReleased
PROPERTIES
  HostIsAnswered
