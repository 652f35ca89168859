--------------------------- MODULE SlotController ---------------------------
(***************************************************************************)
(* The state machine of one module slot (SlotController.cpp): what the     *)
(* controller remembers of its slot, and how a reading of the SENSE pin, a *)
(* change of the enumeration lock and the result of an I2C transaction     *)
(* change it.  The operators map a slot record to the next one; the host   *)
(* (module ModuleHost) decides in which order they run.                    *)
(*                                                                         *)
(* Time.  A controller compares the clock with a start time in one place   *)
(* per phase.  `elapsed' is the outcome of the comparison the current      *)
(* phase makes in a pass (debounce, boot wait, MOD settle, retry gap,      *)
(* fault wait or health period), so every duration is covered.             *)
(*                                                                         *)
(* Phase::DebounceAbsent with _phaseBeforeAbsent = p is the record with    *)
(* phase = p and absent = TRUE.                                            *)
(***************************************************************************)
EXTENDS Integers

CONSTANTS
  CommandRetries,   \* ModuleHostConfig.commandRetries
  HealthFailLimit,  \* ModuleHostConfig.healthFailLimit
  EpochModulus,     \* 2^32 in the code: _identityEpoch is a uint32_t
  ModuleTypes,      \* identities a module can report: type id and protocol version
  KnownTypes,       \* those lookupTypeName() has a name for
  NoType            \* type id 0: what _typeId holds when no identity is stored

ASSUME SlotAssumption ==
  /\ CommandRetries \in Nat \ {0}
  /\ HealthFailLimit \in Nat \ {0}
  /\ EpochModulus \in Nat \ {0}
  /\ KnownTypes \subseteq ModuleTypes
  /\ NoType \notin KnownTypes

NoAddress == 0
Unconfigured == 10             \* 0x0A
SlotAddress(i) == 16 + i       \* 0x10 plus the slot index

Failures == {"Nack", "BadCrc", "BadFrame", "Timeout", "Busy"}

\* The steps that issue enumeration I2C (_stepDue) ...
StepPhases == {"ProbeDefault", "ProbeAssigned", "SetAddress", "VerifyAssigned",
               "Identify", "RecoverProbeDefault", "RecoverProbeAssigned"}
\* ... those from the grant of the lock on, and those that want or hold it
\* (_holdsLock).
EnumerationPhases == StepPhases \cup {"SelectAssert", "RecoverSelect"}
LockPhases == EnumerationPhases \cup {"WaitForLock", "RecoverWaitLock"}
IdentifiedPhases == {"Online", "Unsupported"}
Phases == LockPhases \cup IdentifiedPhases \cup
          {"Empty", "DebouncePresent", "BootWait", "Fault"}

PublicOf(phase) ==
  CASE phase \in {"Empty", "Fault"} \cup IdentifiedPhases -> phase
    [] phase = "DebouncePresent" -> "Debouncing"
    [] OTHER -> "Enumerating"

\* state(): an absence that is still being debounced does not show.
State(s) == PublicOf(s.phase)

Fresh == [phase |-> "Empty", absent |-> FALSE, prior |-> "Empty",
          lockHeld |-> FALSE, mod |-> FALSE, waiting |-> FALSE, attempts |-> 0,
          fails |-> 0, address |-> NoAddress, committed |-> NoAddress,
          type |-> NoType, epoch |-> 0, fault |-> "None"]

SlotRecords(i) ==
  [phase : Phases, absent : BOOLEAN, prior : IdentifiedPhases \cup {"Empty"},
   lockHeld : BOOLEAN, mod : BOOLEAN,   \* mod: the pin is driven low
   waiting : BOOLEAN, attempts : 0 .. CommandRetries - 1,
   fails : 0 .. HealthFailLimit - 1, address : {NoAddress, SlotAddress(i)},
   committed : {NoAddress, SlotAddress(i)}, type : ModuleTypes \cup {NoType},
   epoch : 0 .. EpochModulus - 1, fault : Failures \cup {"None"}]

-----------------------------------------------------------------------------
(* Private helpers                                                         *)

AssertSelect(s) == [s EXCEPT !.mod = TRUE]
ReleaseMod(s) == [s EXCEPT !.mod = FALSE]

\* Faulty variant: MOD stays as it was.
EnterEmptyKeepsMod(s) == [Fresh EXCEPT !.epoch = s.epoch, !.mod = s.mod]

\* Everything but the identity epoch is forgotten.
EnterEmpty(s) == [Fresh EXCEPT !.epoch = s.epoch]

EnterStep(s, phase) ==
  [s EXCEPT !.phase = phase, !.attempts = 0, !.waiting = FALSE]

\* Faulty variant: MOD stays low during the fault wait.
EnterFaultKeepsMod(s, status) ==
  [s EXCEPT !.fault = status, !.phase = "Fault", !.waiting = FALSE, !.attempts = 0]

EnterFault(s, status) ==
  [ReleaseMod(s) EXCEPT !.fault = status, !.phase = "Fault",
                        !.waiting = FALSE, !.attempts = 0]

\* Faulty variant: one try too many.
LastAttemptLate(s) == s.attempts >= CommandRetries

LastAttempt(s) == s.attempts + 1 >= CommandRetries

RetryLater(s, status) ==
  [s EXCEPT !.fault = status, !.attempts = @ + 1, !.waiting = TRUE]

NoteAttemptFail(s, status) ==
  IF LastAttempt(s) THEN EnterFault(s, status) ELSE RetryLater(s, status)

\* Faulty variant: the identity survives the loss of the module's address.
ForgetNothing(s) == s

ForgetIdentity(s) ==
  [s EXCEPT !.type = NoType, !.address = NoAddress, !.prior = "Empty"]

\* Faulty variant: a module identified anew keeps the epoch.
ApplyIdentitySameEpoch(s, type) ==
  LET public == IF type \in KnownTypes THEN "Online" ELSE "Unsupported"
  IN  [s EXCEPT !.type = type, !.fails = 0, !.fault = "None",
                !.phase = public, !.prior = public]

ApplyIdentity(s, type) ==
  LET public == IF type \in KnownTypes THEN "Online" ELSE "Unsupported"
  IN  [s EXCEPT !.type = type, !.epoch = (@ + 1) % EpochModulus, !.fails = 0,
                !.fault = "None", !.phase = public, !.prior = public]

-----------------------------------------------------------------------------
(* updatePinsAndState                                                      *)

\* Faulty variant: a fault always recovers at the committed address.
TimerFiredRecovers(s) ==
  CASE s.phase = "BootWait"     -> [s EXCEPT !.phase = "WaitForLock"]
    [] s.phase = "SelectAssert" -> EnterStep(s, "ProbeDefault")
    [] s.phase = "RecoverSelect" -> EnterStep(s, "RecoverProbeDefault")
    [] s.phase = "Fault"        -> [s EXCEPT !.phase = "RecoverWaitLock"]
    [] OTHER -> s

\* What a finished wait leads to in a seated slot.
TimerFired(s) ==
  CASE s.phase = "BootWait"     -> [s EXCEPT !.phase = "WaitForLock"]
    [] s.phase = "SelectAssert" -> EnterStep(s, "ProbeDefault")
    [] s.phase = "RecoverSelect" -> EnterStep(s, "RecoverProbeDefault")
    [] s.phase = "Fault" ->
         [s EXCEPT !.phase = IF s.committed # NoAddress THEN "RecoverWaitLock"
                                                        ELSE "WaitForLock"]
    [] OTHER -> s

\* Phase::DebounceAbsent: back to the phase before, or to Empty.
DebounceAbsence(s, present, elapsed) ==
  IF present THEN [s EXCEPT !.absent = FALSE]
  ELSE IF elapsed THEN EnterEmpty(s) ELSE s

UpdatePins(s, present, elapsed) ==
  CASE s.phase = "Empty" ->
         IF present THEN [s EXCEPT !.phase = "DebouncePresent"] ELSE s
    [] s.phase = "DebouncePresent" ->
         IF ~present THEN EnterEmpty(s)
         ELSE IF elapsed THEN [s EXCEPT !.phase = "BootWait"] ELSE s
    [] s.phase \notin {"Empty", "DebouncePresent"} /\ s.absent ->
         DebounceAbsence(s, present, elapsed)
    [] OTHER ->
         IF ~present THEN [s EXCEPT !.absent = TRUE]
         ELSE IF elapsed THEN TimerFired(s) ELSE s

-----------------------------------------------------------------------------
(* The enumeration lock, seen from the slot                                *)

\* Faulty variant: a slot whose absence is being debounced gives up the lock.
WantsEnumLockSeated(s) == s.phase \in LockPhases /\ ~s.absent

WantsEnumLock(s) == s.phase \in LockPhases \/ (s.absent /\ s.lockHeld)

LoseEnumLock(s) == [s EXCEPT !.lockHeld = FALSE]

\* notifyEnumLock(true).  A slot whose absence is being debounced takes the
\* lock and stays in the phase it was in.
GainEnumLock(s) ==
  LET held == [s EXCEPT !.lockHeld = TRUE]
  IN  CASE s.phase = "WaitForLock" /\ ~s.absent ->
             AssertSelect([held EXCEPT !.phase = "SelectAssert"])
        [] s.phase = "RecoverWaitLock" /\ ~s.absent ->
             AssertSelect([held EXCEPT !.phase = "RecoverSelect"])
        [] OTHER -> held

-----------------------------------------------------------------------------
(* proposedI2c                                                             *)

HealthDue(s, elapsed) ==
  /\ s.phase \in IdentifiedPhases
  /\ ~s.absent
  /\ s.address # NoAddress
  /\ elapsed

StepDue(s, elapsed) ==
  /\ s.phase \in StepPhases
  /\ ~s.absent
  /\ s.lockHeld
  /\ s.waiting => elapsed

\* The address the due transaction goes to.
ProposedAddress(s, i) ==
  CASE s.phase \in {"ProbeDefault", "RecoverProbeDefault", "SetAddress"} -> Unconfigured
    [] s.phase = "ProbeAssigned" -> SlotAddress(i)
    [] s.phase \in {"VerifyAssigned", "RecoverProbeAssigned"} -> s.committed
    [] OTHER -> s.address

-----------------------------------------------------------------------------
(* applyI2cResult                                                          *)

\* The answer to a health ping that failed.
NoteHealthFail(s, status) ==
  IF s.fails + 1 >= HealthFailLimit
  THEN [s EXCEPT !.fault = status, !.fails = 0, !.prior = State(s),
                 !.phase = "RecoverWaitLock"]
  ELSE [s EXCEPT !.fault = status, !.fails = @ + 1]

\* Faulty variant: every module that answers again is served as online.
RecoverOnline(s) ==
  IF s.type = NoType
  THEN EnterStep(ReleaseMod([s EXCEPT !.address =
                   IF s.address = NoAddress THEN s.committed ELSE @]), "Identify")
  ELSE [ReleaseMod(s) EXCEPT !.fails = 0, !.phase = "Online"]

\* A module that still answers at its address after the lost pings keeps the
\* identity it had; without a stored identity it is read again.
RecoverAtAddress(s) ==
  IF s.type = NoType
  THEN EnterStep(ReleaseMod([s EXCEPT !.address =
                   IF s.address = NoAddress THEN s.committed ELSE @]), "Identify")
  ELSE [ReleaseMod(s) EXCEPT !.fails = 0,
          !.phase = IF s.prior = "Unsupported" THEN "Unsupported" ELSE "Online"]

\* `type' is the identity a successful GET_IDENTITY carried.
ApplySuccess(s, i, type) ==
  CASE s.phase \in IdentifiedPhases -> [s EXCEPT !.fails = 0]
    [] s.phase = "ProbeDefault" -> EnterStep(s, "SetAddress")
    [] s.phase = "RecoverProbeDefault" -> EnterStep(ForgetIdentity(s), "SetAddress")
    [] s.phase = "SetAddress" ->
         EnterStep([s EXCEPT !.committed = SlotAddress(i)], "VerifyAssigned")
    [] s.phase = "VerifyAssigned" ->
         EnterStep(ReleaseMod([s EXCEPT !.address = s.committed]), "Identify")
    [] s.phase = "ProbeAssigned" ->
         EnterStep(ReleaseMod([s EXCEPT !.committed = SlotAddress(i),
                                        !.address = SlotAddress(i)]), "Identify")
    [] s.phase = "RecoverProbeAssigned" -> RecoverAtAddress(s)
    [] s.phase = "Identify" -> ApplyIdentity(s, type)
    [] OTHER -> s

ApplyFailure(s, status) ==
  CASE s.phase \in IdentifiedPhases ->
         IF status = "Busy" THEN s ELSE NoteHealthFail(s, status)
    [] s.phase = "RecoverProbeDefault" /\ status = "Nack" ->
         EnterStep(s, "RecoverProbeAssigned")
    [] s.phase = "ProbeDefault" /\ status = "Nack" ->
         IF LastAttempt(s) THEN EnterStep([s EXCEPT !.fault = status], "ProbeAssigned")
                           ELSE RetryLater(s, status)
    [] s.phase \in StepPhases /\ ~(s.phase \in {"ProbeDefault", "RecoverProbeDefault"}
                                   /\ status = "Nack") -> NoteAttemptFail(s, status)
    [] OTHER -> s
=============================================================================
