-------------------------- MODULE ModuleHostProofs --------------------------
(***************************************************************************)
(* The safety invariants of the bus, for every number of slots and every   *)
(* retry limit, set of types and kind of noise.                            *)
(*                                                                         *)
(* SlotInv says what a controller knows in each phase, Agreed who may      *)
(* enumerate, Remembered how the memory of a daughter relates to what the  *)
(* controller of its slot remembers.  A pass changes the controllers in    *)
(* stages (pins, lock, result, lock); between the pins and the lock only   *)
(* the weaker Unreconciled holds.                                          *)
(***************************************************************************)
EXTENDS ModuleHost, TLAPS

\* The phases of a slot whose module has no identity in the controller yet.
FirstPhases == {"Empty", "DebouncePresent", "BootWait", "WaitForLock", "SelectAssert",
                "ProbeDefault", "ProbeAssigned", "SetAddress", "VerifyAssigned", "Identify"}

\* The phases in which the slot address has been in use in this seating.
CommittedPhases == {"VerifyAssigned", "Identify", "Online", "Unsupported", "RecoverWaitLock",
                    "RecoverSelect", "RecoverProbeDefault", "RecoverProbeAssigned"}

SlotInv(s, i) ==
  /\ s.phase \in FirstPhases => s.type = NoType
  /\ s.phase = "Online" => s.type \in KnownTypes
  /\ s.phase = "Unsupported" => s.type \notin KnownTypes
  /\ s.type \in KnownTypes <=> s.prior = "Online"
  /\ s.type # NoType => s.address = SlotAddress(i) /\ s.prior # "Empty"
  /\ s.address # NoAddress => s.committed = SlotAddress(i)
  /\ s.phase \in CommittedPhases => s.committed = SlotAddress(i)
  /\ s.phase \in IdentifiedPhases \cup {"Identify"} => s.address = SlotAddress(i)
  /\ s.phase = "Empty" => s.address = NoAddress
  /\ s.phase = "Fault" => s.fault # "None"
  /\ s.mod => s.phase \in EnumerationPhases \ {"Identify"}

\* `own' says that the host's record names this slot as the lock owner.
Agreed(s, own) ==
  /\ s.lockHeld <=> own
  /\ s.phase \in EnumerationPhases => own

Unreconciled(s, own) ==
  /\ s.lockHeld => own
  /\ own /\ WantsEnumLock(s) => s.lockHeld
  /\ s.phase \in EnumerationPhases => own

-----------------------------------------------------------------------------
(* What the operations of a controller preserve                            *)

LEMMA ZeroCounters ==
  /\ 0 \in 0 .. CommandRetries - 1
  /\ 0 \in 0 .. HealthFailLimit - 1
  /\ 0 \in 0 .. EpochModulus - 1
BY SlotAssumption

\* An emptied controller is well formed and knows nothing.
LEMMA EmptyKeeps ==
  ASSUME NEW i \in Nat, NEW s \in SlotRecords(i)
  PROVE  LET t == EnterEmpty(s)
         IN  /\ t \in SlotRecords(i)
             /\ SlotInv(t, i)
             /\ t.type = NoType
             /\ ~t.mod
             /\ \A own \in BOOLEAN : Unreconciled(t, own)
<1>1. Fresh \in SlotRecords(i)
  BY ZeroCounters DEF Fresh, SlotRecords, Phases, IdentifiedPhases
<1>2. EnterEmpty(s) \in SlotRecords(i)
  BY <1>1 DEF EnterEmpty, SlotRecords
<1>3. SlotInv(EnterEmpty(s), i)
  BY SlotAssumption DEF EnterEmpty, Fresh, SlotInv, CommittedPhases, IdentifiedPhases,
     NoAddress
<1>4. \A own \in BOOLEAN : Unreconciled(EnterEmpty(s), own)
  BY DEF EnterEmpty, Fresh, Unreconciled, WantsEnumLock, LockPhases, EnumerationPhases,
     StepPhases
<1>5. QED
  BY <1>2, <1>3, <1>4 DEF EnterEmpty, Fresh

\* A step of the enumeration starts: only the phase and the retry state change.
LEMMA StepKeeps ==
  ASSUME NEW i \in Nat, NEW s \in SlotRecords(i), NEW p \in Phases
  PROVE  /\ EnterStep(s, p) \in SlotRecords(i)
         /\ [s EXCEPT !.phase = p] \in SlotRecords(i)
         /\ [s EXCEPT !.absent = TRUE] \in SlotRecords(i)
         /\ [s EXCEPT !.absent = FALSE] \in SlotRecords(i)
BY ZeroCounters DEF SlotRecords, EnterStep

\* The end of a wait in a seated slot.
LEMMA TimerKeeps ==
  ASSUME NEW i \in Nat, NEW s \in SlotRecords(i), SlotInv(s, i)
  PROVE  LET t == TimerFired(s)
         IN  /\ t \in SlotRecords(i)
             /\ SlotInv(t, i)
             /\ t.type = s.type
             /\ t.mod = s.mod
             /\ \A own \in BOOLEAN : Agreed(s, own) /\ ~s.absent => Unreconciled(t, own)
<1> DEFINE t == TimerFired(s)
<1>1. {"WaitForLock", "ProbeDefault", "RecoverProbeDefault", "RecoverWaitLock"} \subseteq Phases
  BY DEF Phases, LockPhases, EnumerationPhases, StepPhases
<1>2. t \in SlotRecords(i)
  BY <1>1, StepKeeps DEF TimerFired
<1>3. /\ t.type = s.type
      /\ t.mod = s.mod
      /\ t.lockHeld = s.lockHeld
      /\ t.absent = s.absent
      /\ t.address = s.address
      /\ t.committed = s.committed
      /\ t.prior = s.prior
      /\ t.fault = s.fault
  BY DEF TimerFired, EnterStep, SlotRecords
<1>4. \/ t.phase = s.phase
      \/ s.phase = "BootWait" /\ t.phase = "WaitForLock"
      \/ s.phase = "SelectAssert" /\ t.phase = "ProbeDefault"
      \/ s.phase = "RecoverSelect" /\ t.phase = "RecoverProbeDefault"
      \/ s.phase = "Fault" /\ s.committed # NoAddress /\ t.phase = "RecoverWaitLock"
      \/ s.phase = "Fault" /\ s.committed = NoAddress /\ t.phase = "WaitForLock"
  BY DEF TimerFired, EnterStep, SlotRecords
<1>5. s.committed \in {NoAddress, SlotAddress(i)} /\ SlotAddress(i) # NoAddress
  BY DEF SlotRecords, SlotAddress, NoAddress
<1>6. SlotInv(t, i)
  BY <1>3, <1>4, <1>5 DEF SlotInv, FirstPhases, CommittedPhases, IdentifiedPhases,
     EnumerationPhases, StepPhases
<1>7. ASSUME NEW own \in BOOLEAN, Agreed(s, own), ~s.absent
      PROVE  Unreconciled(t, own)
  BY <1>3, <1>4, <1>7 DEF Agreed, Unreconciled, WantsEnumLock, LockPhases,
     EnumerationPhases, StepPhases
<1>8. QED
  BY <1>2, <1>3, <1>6, <1>7

LEMMA AbsentKeeps ==
  ASSUME NEW i \in Nat, NEW s \in SlotRecords(i), SlotInv(s, i), NEW absent \in BOOLEAN
  PROVE  LET t == [s EXCEPT !.absent = absent]
         IN  /\ t \in SlotRecords(i)
             /\ SlotInv(t, i)
             /\ t.type = s.type
             /\ t.mod = s.mod
             /\ \A own \in BOOLEAN : Agreed(s, own) => Unreconciled(t, own)
BY StepKeeps DEF SlotRecords, SlotInv, Agreed, Unreconciled, WantsEnumLock

LEMMA SeatedKeeps ==
  ASSUME NEW i \in Nat, NEW s \in SlotRecords(i), SlotInv(s, i),
         NEW p, \/ s.phase = "Empty" /\ p = "DebouncePresent"
                \/ s.phase = "DebouncePresent" /\ p = "BootWait"
  PROVE  LET t == [s EXCEPT !.phase = p]
         IN  /\ t \in SlotRecords(i)
             /\ SlotInv(t, i)
             /\ t.type = s.type
             /\ t.mod = s.mod
             /\ \A own \in BOOLEAN : Agreed(s, own) => Unreconciled(t, own)
<1>1. p \in Phases
  BY DEF Phases
<1>2. [s EXCEPT !.phase = p] \in SlotRecords(i)
  BY <1>1, StepKeeps
<1>3. QED
  BY <1>2 DEF SlotRecords, SlotInv, Agreed, Unreconciled, WantsEnumLock, FirstPhases,
     CommittedPhases, IdentifiedPhases, LockPhases, EnumerationPhases, StepPhases

\* Reading the pins forgets the type or keeps it, never drives MOD low, and
\* leaves a controller that is reconciled with the host by the next step.
LEMMA PinsKeep ==
  ASSUME NEW i \in Nat, NEW s \in SlotRecords(i), SlotInv(s, i),
         NEW present \in BOOLEAN, NEW elapsed \in BOOLEAN
  PROVE  LET t == UpdatePins(s, present, elapsed)
         IN  /\ t \in SlotRecords(i)
             /\ SlotInv(t, i)
             /\ t.type \in {s.type, NoType}
             /\ t.mod => s.mod
             /\ \A own \in BOOLEAN : Agreed(s, own) => Unreconciled(t, own)
<1> DEFINE t == UpdatePins(s, present, elapsed)
<1>1. CASE t = s
  BY <1>1 DEF Agreed, Unreconciled
<1>2. CASE t = EnterEmpty(s)
  BY <1>2, EmptyKeeps
<1>3. CASE t = TimerFired(s) /\ ~s.absent
  BY <1>3, TimerKeeps
<1>4. CASE \E absent \in BOOLEAN : t = [s EXCEPT !.absent = absent]
  BY <1>4, AbsentKeeps
<1>5. CASE \E p : /\ t = [s EXCEPT !.phase = p]
                  /\ \/ s.phase = "Empty" /\ p = "DebouncePresent"
                     \/ s.phase = "DebouncePresent" /\ p = "BootWait"
  BY <1>5, SeatedKeeps
<1>6. QED
  BY <1>1, <1>2, <1>3, <1>4, <1>5 DEF UpdatePins, DebounceAbsence, SlotRecords

\* Losing the lock, for a slot that does not want it, and gaining it.
LEMMA LockKeeps ==
  ASSUME NEW i \in Nat, NEW s \in SlotRecords(i), SlotInv(s, i)
  PROVE  /\ LoseEnumLock(s) \in SlotRecords(i)
         /\ SlotInv(LoseEnumLock(s), i)
         /\ LoseEnumLock(s).type = s.type
         /\ LoseEnumLock(s).mod = s.mod
         /\ ~WantsEnumLock(s) => Agreed(LoseEnumLock(s), FALSE)
         /\ GainEnumLock(s) \in SlotRecords(i)
         /\ SlotInv(GainEnumLock(s), i)
         /\ GainEnumLock(s).type = s.type
         /\ Agreed(GainEnumLock(s), TRUE)
<1> DEFINE t == GainEnumLock(s)
<1>1. /\ LoseEnumLock(s) \in SlotRecords(i)
      /\ LoseEnumLock(s).type = s.type
      /\ LoseEnumLock(s).mod = s.mod
  BY DEF LoseEnumLock, SlotRecords
<1>2. SlotInv(LoseEnumLock(s), i)
  BY DEF LoseEnumLock, SlotRecords, SlotInv
<1>3. ~WantsEnumLock(s) => Agreed(LoseEnumLock(s), FALSE)
  BY DEF LoseEnumLock, SlotRecords, Agreed, WantsEnumLock, LockPhases
<1>4. {"SelectAssert", "RecoverSelect"} \subseteq Phases
  BY DEF Phases, LockPhases, EnumerationPhases, StepPhases
<1>5. t \in SlotRecords(i)
  BY <1>4 DEF GainEnumLock, AssertSelect, SlotRecords
<1>6. /\ t.lockHeld
      /\ t.type = s.type
      /\ t.address = s.address
      /\ t.committed = s.committed
      /\ t.prior = s.prior
      /\ t.fault = s.fault
  BY DEF GainEnumLock, AssertSelect, SlotRecords
<1>7. \/ t.phase = s.phase /\ t.mod = s.mod
      \/ s.phase = "WaitForLock" /\ t.phase = "SelectAssert"
      \/ s.phase = "RecoverWaitLock" /\ t.phase = "RecoverSelect"
  BY DEF GainEnumLock, AssertSelect, SlotRecords
<1>8. SlotInv(t, i)
  BY <1>6, <1>7 DEF SlotInv, FirstPhases, CommittedPhases, IdentifiedPhases,
     EnumerationPhases, StepPhases
<1>9. Agreed(t, TRUE)
  BY <1>6 DEF Agreed
<1>10. QED
  BY <1>1, <1>2, <1>3, <1>5, <1>6, <1>8, <1>9

\* A successful transaction: only GET_IDENTITY stores a type, the answer of an
\* unconfigured module during a recovery forgets it, and MOD is never driven.
LEMMA SuccessKeeps ==
  ASSUME NEW i \in Nat, NEW s \in SlotRecords(i), SlotInv(s, i),
         s.phase \in StepPhases \cup IdentifiedPhases,
         NEW type \in ModuleTypes \cup {NoType},
         s.phase = "Identify" => type \in ModuleTypes
  PROVE  LET t == ApplySuccess(s, i, type)
         IN  /\ t \in SlotRecords(i)
             /\ SlotInv(t, i)
             /\ t.type = IF s.phase = "Identify" THEN type
                         ELSE IF s.phase = "RecoverProbeDefault" THEN NoType ELSE s.type
             /\ t.mod => s.mod
             /\ \A own \in BOOLEAN : Agreed(s, own) => Unreconciled(t, own)
<1> DEFINE t == ApplySuccess(s, i, type)
           Typed == t \in SlotRecords(i)
           Kept == /\ t.lockHeld = s.lockHeld
                   /\ t.mod => s.mod
                   /\ t.type = IF s.phase = "Identify" THEN type
                               ELSE IF s.phase = "RecoverProbeDefault" THEN NoType ELSE s.type
<1>1. /\ {"SetAddress", "VerifyAssigned", "Identify", "Online", "Unsupported"} \subseteq Phases
      /\ NoType \notin KnownTypes
      /\ SlotAddress(i) # NoAddress
  BY SlotAssumption DEF Phases, LockPhases, EnumerationPhases, StepPhases, IdentifiedPhases,
     SlotAddress, NoAddress
<1>2. CASE s.phase \in IdentifiedPhases
  <2>1. t = [s EXCEPT !.fails = 0]
    BY <1>2 DEF ApplySuccess, IdentifiedPhases
  <2>2. Typed /\ Kept /\ SlotInv(t, i) /\ t.phase = s.phase
    BY <1>2, <2>1, ZeroCounters DEF SlotRecords, SlotInv, IdentifiedPhases
  <2>3. QED
    BY <1>2, <2>2 DEF Agreed, Unreconciled
<1>3. CASE s.phase = "ProbeDefault"
  <2>1. t = EnterStep(s, "SetAddress")
    BY <1>3 DEF ApplySuccess, IdentifiedPhases
  <2>2. Typed
    BY <2>1, <1>1, StepKeeps
  <2>3. Kept /\ SlotInv(t, i)
    BY <1>3, <2>1, <2>2 DEF EnterStep, SlotRecords, SlotInv, FirstPhases, CommittedPhases,
       IdentifiedPhases, EnumerationPhases, StepPhases
  <2>4. QED
    BY <1>3, <2>2, <2>3 DEF Agreed, Unreconciled, EnumerationPhases, StepPhases
<1>4. CASE s.phase = "RecoverProbeDefault"
  <2>1. t = EnterStep(ForgetIdentity(s), "SetAddress")
    BY <1>4 DEF ApplySuccess, IdentifiedPhases
  <2>2. ForgetIdentity(s) \in SlotRecords(i)
    BY DEF ForgetIdentity, SlotRecords
  <2>3. Typed
    BY <2>1, <2>2, <1>1, StepKeeps
  <2>4. Kept /\ SlotInv(t, i)
    BY <1>1, <1>4, <2>1, <2>3 DEF EnterStep, ForgetIdentity, SlotRecords, SlotInv, FirstPhases,
       CommittedPhases, IdentifiedPhases, EnumerationPhases, StepPhases
  <2>5. QED
    BY <1>4, <2>3, <2>4 DEF Agreed, Unreconciled, EnumerationPhases, StepPhases
<1>5. CASE s.phase = "SetAddress"
  <2> DEFINE u == [s EXCEPT !.committed = SlotAddress(i)]
  <2>1. t = EnterStep(u, "VerifyAssigned")
    BY <1>5 DEF ApplySuccess, IdentifiedPhases
  <2>2. u \in SlotRecords(i)
    BY DEF SlotRecords
  <2>3. Typed
    BY <2>1, <2>2, <1>1, StepKeeps
  <2>4. Kept /\ SlotInv(t, i)
    BY <1>5, <2>1, <2>3 DEF EnterStep, SlotRecords, SlotInv, FirstPhases,
       CommittedPhases, IdentifiedPhases, EnumerationPhases, StepPhases
  <2>5. QED
    BY <1>5, <2>3, <2>4 DEF Agreed, Unreconciled, EnumerationPhases, StepPhases
<1>6. CASE s.phase = "VerifyAssigned"
  <2> DEFINE u == ReleaseMod([s EXCEPT !.address = s.committed])
  <2>1. t = EnterStep(u, "Identify")
    BY <1>6 DEF ApplySuccess, IdentifiedPhases
  <2>2. u \in SlotRecords(i)
    BY DEF SlotRecords, ReleaseMod
  <2>3. Typed
    BY <2>1, <2>2, <1>1, StepKeeps
  <2>4. Kept /\ SlotInv(t, i)
    BY <1>6, <2>1, <2>3 DEF EnterStep, ReleaseMod, SlotRecords, SlotInv, FirstPhases,
       CommittedPhases, IdentifiedPhases, EnumerationPhases, StepPhases
  <2>5. QED
    BY <1>6, <2>3, <2>4 DEF Agreed, Unreconciled, EnumerationPhases, StepPhases
<1>7. CASE s.phase = "ProbeAssigned"
  <2> DEFINE u == ReleaseMod([s EXCEPT !.committed = SlotAddress(i),
                                       !.address = SlotAddress(i)])
  <2>1. t = EnterStep(u, "Identify")
    BY <1>7 DEF ApplySuccess, IdentifiedPhases
  <2>2. u \in SlotRecords(i)
    BY DEF SlotRecords, ReleaseMod
  <2>3. Typed
    BY <2>1, <2>2, <1>1, StepKeeps
  <2>4. Kept /\ SlotInv(t, i)
    BY <1>7, <2>1, <2>3 DEF EnterStep, ReleaseMod, SlotRecords, SlotInv, FirstPhases,
       CommittedPhases, IdentifiedPhases, EnumerationPhases, StepPhases
  <2>5. QED
    BY <1>7, <2>3, <2>4 DEF Agreed, Unreconciled, EnumerationPhases, StepPhases
<1>8. CASE s.phase = "RecoverProbeAssigned" /\ s.type = NoType
  <2> DEFINE u == ReleaseMod([s EXCEPT !.address =
                    IF s.address = NoAddress THEN s.committed ELSE s.address])
  <2>1. t = EnterStep(u, "Identify")
    BY <1>8 DEF ApplySuccess, IdentifiedPhases, RecoverAtAddress
  <2>2. u \in SlotRecords(i)
    BY DEF SlotRecords, ReleaseMod
  <2>3. Typed
    BY <2>1, <2>2, <1>1, StepKeeps
  <2>4. Kept /\ SlotInv(t, i)
    BY <1>8, <2>1, <2>3 DEF EnterStep, ReleaseMod, SlotRecords, SlotInv, FirstPhases,
       CommittedPhases, IdentifiedPhases, EnumerationPhases, StepPhases
  <2>5. QED
    BY <1>8, <2>3, <2>4 DEF Agreed, Unreconciled, EnumerationPhases, StepPhases
<1>9. CASE s.phase = "RecoverProbeAssigned" /\ s.type # NoType
  <2> DEFINE p == IF s.prior = "Unsupported" THEN "Unsupported" ELSE "Online"
  <2>1. t = [ReleaseMod(s) EXCEPT !.fails = 0, !.phase = p]
    BY <1>9 DEF ApplySuccess, IdentifiedPhases, RecoverAtAddress
  <2>2. Typed
    BY <2>1, <1>1, ZeroCounters DEF SlotRecords, ReleaseMod
  <2>3. Kept /\ SlotInv(t, i)
    BY <1>9, <2>1, <2>2 DEF ReleaseMod, SlotRecords, SlotInv, FirstPhases,
       CommittedPhases, IdentifiedPhases, EnumerationPhases, StepPhases
  <2>4. QED
    BY <1>9, <2>2, <2>3 DEF Agreed, Unreconciled, EnumerationPhases, StepPhases
<1>10. CASE s.phase = "Identify"
  <2>1. t = ApplyIdentity(s, type)
    BY <1>10 DEF ApplySuccess, IdentifiedPhases
  <2>2. (s.epoch + 1) % EpochModulus \in 0 .. EpochModulus - 1
    BY SlotAssumption DEF SlotRecords
  <2>3. Typed
    BY <2>1, <2>2, <1>1, ZeroCounters DEF ApplyIdentity, SlotRecords, IdentifiedPhases
  <2>4. Kept /\ SlotInv(t, i)
    BY <1>1, <1>10, <2>1, <2>3 DEF ApplyIdentity, SlotRecords, SlotInv, FirstPhases,
       CommittedPhases, IdentifiedPhases, EnumerationPhases, StepPhases
  <2>5. QED
    BY <1>10, <2>3, <2>4 DEF Agreed, Unreconciled, EnumerationPhases, StepPhases
<1>11. QED
  BY <1>2, <1>3, <1>4, <1>5, <1>6, <1>7, <1>8, <1>9, <1>10 DEF StepPhases

\* A failed transaction keeps the type and never drives MOD low.
LEMMA FailureKeeps ==
  ASSUME NEW i \in Nat, NEW s \in SlotRecords(i), SlotInv(s, i),
         s.phase \in StepPhases \cup IdentifiedPhases, NEW status \in Failures
  PROVE  LET t == ApplyFailure(s, status)
         IN  /\ t \in SlotRecords(i)
             /\ SlotInv(t, i)
             /\ t.type = s.type
             /\ t.mod => s.mod
             /\ \A own \in BOOLEAN : Agreed(s, own) => Unreconciled(t, own)
<1> DEFINE t == ApplyFailure(s, status)
<1>1. /\ {"RecoverWaitLock", "RecoverProbeAssigned", "ProbeAssigned", "Fault"} \subseteq Phases
      /\ status \in Failures \cup {"None"}
      /\ status # "None"
  BY DEF Phases, LockPhases, EnumerationPhases, StepPhases, Failures
<1>2. CASE t = s
  BY <1>2 DEF Agreed, Unreconciled
<1>3. CASE t = NoteHealthFail(s, status) /\ s.phase \in IdentifiedPhases
  <2>1. CASE s.fails + 1 >= HealthFailLimit
    <3>1. t = [s EXCEPT !.fault = status, !.fails = 0, !.prior = s.phase,
                        !.phase = "RecoverWaitLock"]
      BY <1>3, <2>1 DEF NoteHealthFail, State, PublicOf, IdentifiedPhases
    <3>2. t \in SlotRecords(i)
      BY <3>1, <1>1, <1>3, ZeroCounters DEF SlotRecords
    <3>3. /\ t.phase = "RecoverWaitLock" /\ t.prior = s.phase /\ t.type = s.type
          /\ t.mod = s.mod /\ t.lockHeld = s.lockHeld /\ t.address = s.address
          /\ t.committed = s.committed
      BY <3>1 DEF SlotRecords
    <3>4. SlotInv(t, i)
      BY <1>3, <3>3 DEF SlotInv, FirstPhases, CommittedPhases, IdentifiedPhases,
         EnumerationPhases, StepPhases
    <3>5. QED
      BY <3>2, <3>3, <3>4 DEF Agreed, Unreconciled, EnumerationPhases, StepPhases
  <2>2. CASE ~(s.fails + 1 >= HealthFailLimit)
    <3>1. t = [s EXCEPT !.fault = status, !.fails = s.fails + 1]
      BY <1>3, <2>2 DEF NoteHealthFail
    <3>2. s.fails + 1 \in 0 .. HealthFailLimit - 1
      BY <2>2, SlotAssumption DEF SlotRecords
    <3>3. t \in SlotRecords(i)
      BY <3>1, <3>2, <1>1 DEF SlotRecords
    <3>4. /\ SlotInv(t, i) /\ t.phase = s.phase /\ t.type = s.type
          /\ t.mod = s.mod /\ t.lockHeld = s.lockHeld
      BY <1>1, <3>1 DEF SlotRecords, SlotInv
    <3>5. QED
      BY <1>3, <3>3, <3>4 DEF Agreed, Unreconciled, EnumerationPhases, StepPhases,
         IdentifiedPhases
  <2>3. QED
    BY <2>1, <2>2
<1>4. CASE /\ t = EnterStep(s, "RecoverProbeAssigned")
           /\ s.phase = "RecoverProbeDefault"
  <2>1. t \in SlotRecords(i)
    BY <1>1, <1>4, StepKeeps
  <2>2. /\ SlotInv(t, i) /\ t.phase = "RecoverProbeAssigned" /\ t.type = s.type
        /\ t.mod = s.mod /\ t.lockHeld = s.lockHeld
    BY <1>4 DEF EnterStep, SlotRecords, SlotInv, FirstPhases, CommittedPhases,
       IdentifiedPhases, EnumerationPhases, StepPhases
  <2>3. QED
    BY <1>4, <2>1, <2>2 DEF Agreed, Unreconciled, EnumerationPhases, StepPhases
<1>5. CASE /\ t = EnterStep([s EXCEPT !.fault = status], "ProbeAssigned")
           /\ s.phase = "ProbeDefault"
  <2>1. [s EXCEPT !.fault = status] \in SlotRecords(i)
    BY <1>1 DEF SlotRecords
  <2>2. t \in SlotRecords(i)
    BY <1>1, <1>5, <2>1, StepKeeps
  <2>3. /\ SlotInv(t, i) /\ t.phase = "ProbeAssigned" /\ t.type = s.type
        /\ t.mod = s.mod /\ t.lockHeld = s.lockHeld
    BY <1>5 DEF EnterStep, SlotRecords, SlotInv, FirstPhases, CommittedPhases,
       IdentifiedPhases, EnumerationPhases, StepPhases
  <2>4. QED
    BY <1>5, <2>2, <2>3 DEF Agreed, Unreconciled, EnumerationPhases, StepPhases
<1>6. CASE t = RetryLater(s, status) /\ ~LastAttempt(s) /\ s.phase \in StepPhases
  <2>1. s.attempts + 1 \in 0 .. CommandRetries - 1
    BY <1>6, SlotAssumption DEF SlotRecords, LastAttempt
  <2>2. t \in SlotRecords(i)
    BY <1>1, <1>6, <2>1 DEF RetryLater, SlotRecords
  <2>3. /\ SlotInv(t, i) /\ t.phase = s.phase /\ t.type = s.type
        /\ t.mod = s.mod /\ t.lockHeld = s.lockHeld
    BY <1>1, <1>6 DEF RetryLater, SlotRecords, SlotInv
  <2>4. QED
    BY <1>6, <2>2, <2>3 DEF Agreed, Unreconciled, EnumerationPhases
<1>7. CASE t = EnterFault(s, status) /\ s.phase \in StepPhases
  <2>1. t \in SlotRecords(i)
    BY <1>1, <1>7, ZeroCounters DEF EnterFault, ReleaseMod, SlotRecords
  <2>2. /\ t.phase = "Fault" /\ t.fault = status /\ ~t.mod /\ t.type = s.type
        /\ t.lockHeld = s.lockHeld /\ t.address = s.address
        /\ t.committed = s.committed /\ t.prior = s.prior
    BY <1>7 DEF EnterFault, ReleaseMod, SlotRecords
  <2>3. SlotInv(t, i)
    BY <1>1, <2>2 DEF SlotInv, FirstPhases, CommittedPhases, IdentifiedPhases
  <2>4. QED
    BY <1>7, <2>1, <2>2, <2>3 DEF Agreed, Unreconciled, EnumerationPhases, StepPhases
<1>8. CASE s.phase \in IdentifiedPhases
  <2>1. t = IF status = "Busy" THEN s ELSE NoteHealthFail(s, status)
    BY <1>8 DEF ApplyFailure, IdentifiedPhases, StepPhases
  <2>2. QED
    BY <2>1, <1>8, <1>2, <1>3
<1>9. CASE s.phase \in StepPhases
  <2>1. s.phase \notin IdentifiedPhases
    BY <1>9 DEF StepPhases, IdentifiedPhases
  <2>2. CASE s.phase = "RecoverProbeDefault" /\ status = "Nack"
    <3>1. t = EnterStep(s, "RecoverProbeAssigned")
      BY <2>1, <2>2 DEF ApplyFailure
    <3>2. QED
      BY <3>1, <2>2, <1>4
  <2>3. CASE s.phase = "ProbeDefault" /\ status = "Nack"
    <3>1. t = IF LastAttempt(s)
              THEN EnterStep([s EXCEPT !.fault = status], "ProbeAssigned")
              ELSE RetryLater(s, status)
      BY <2>1, <2>3 DEF ApplyFailure
    <3>2. QED
      BY <3>1, <2>3, <1>9, <1>5, <1>6
  <2>4. CASE ~(s.phase \in {"ProbeDefault", "RecoverProbeDefault"} /\ status = "Nack")
    <3>1. t = NoteAttemptFail(s, status)
      BY <2>1, <2>4, <1>9 DEF ApplyFailure
    <3>2. QED
      BY <3>1, <1>9, <1>6, <1>7 DEF NoteAttemptFail
  <2>5. QED
    BY <2>2, <2>3, <2>4
<1>10. QED
  BY <1>8, <1>9

-----------------------------------------------------------------------------
(* The host                                                                *)

Controllers(sl) ==
  /\ sl = [i \in Slots |-> sl[i]]
  /\ \A i \in Slots : sl[i] \in SlotRecords(i) /\ SlotInv(sl[i], i)

AllAgreed(sl, o) ==
  /\ o \in Slots \cup {NoOwner}
  /\ \A i \in Slots : Agreed(sl[i], o = i)

AllUnreconciled(sl, o) ==
  /\ o \in Slots \cup {NoOwner}
  /\ \A i \in Slots : Unreconciled(sl[i], o = i)

\* What the daughter m of slot i, known to be the identified one if id, and the
\* controller s of the slot have to do with each other.
Remembered(m, id, s, i) ==
  /\ m.powered => m.address \in {Unconfigured, SlotAddress(i)} /\ m.type \in ModuleTypes
  /\ id => m.powered /\ m.address = SlotAddress(i) /\ s.type \in {NoType, m.type}
  /\ m.powered /\ m.address = SlotAddress(i) /\ ~id => s.type = NoType

Remembers(m, id, sl) == \A i \in Slots : Remembered(m[i], id[i], sl[i], i)

MayDrive(sl) == \A i \in Slots : sl[i].mod => started /\ ~quiesced

\* The inductive invariant.
HostInv ==
  /\ TypeOK
  /\ Controllers(slots)
  /\ AllAgreed(slots, lockOwner)
  /\ MayDrive(slots)
  /\ Remembers(module, identified, slots)

LEMMA SlotNumbers ==
  /\ Slots \subseteq Nat
  /\ NoOwner \notin Slots
  /\ 0 \in Slots
  /\ \A i \in Slots : SlotAddress(i) \notin {Unconfigured, NoAddress}
  /\ \A i, j \in Slots : SlotAddress(i) = SlotAddress(j) => i = j
  /\ \A i \in Slots : (i + 1) % NumSlots \in Slots
BY HostAssumption DEF Slots, NoOwner, SlotAddress, Unconfigured, NoAddress

\* The lock changes hands: the controllers agree with the host again.
LEMMA ReconcileKeeps ==
  ASSUME NEW sl, NEW o, Controllers(sl), AllUnreconciled(sl, o),
         NEW o2 \in NextOwners(sl, o)
  PROVE  LET r == Reconciled(sl, o, o2)
         IN  /\ Controllers(r)
             /\ AllAgreed(r, o2)
             /\ \A i \in Slots : r[i].type = sl[i].type
<1> DEFINE r == Reconciled(sl, o, o2)
<1>1. o2 \in Slots \cup {NoOwner}
  BY DEF NextOwners, AllUnreconciled, Waiting
<1>2. o2 # o => ~KeepsLock(sl, o)
  BY DEF NextOwners
<1>3. \A i \in Slots : i = o /\ ~KeepsLock(sl, o) => ~WantsEnumLock(sl[i])
  BY SlotNumbers DEF KeepsLock, Waiting
<1>4. o2 \in Slots => WantsEnumLock(sl[o2])
  BY SlotNumbers DEF NextOwners, KeepsLock, Waiting
<1>5. ASSUME NEW i \in Slots
      PROVE  /\ r[i] \in SlotRecords(i)
             /\ SlotInv(r[i], i)
             /\ r[i].type = sl[i].type
             /\ Agreed(r[i], o2 = i)
  <2>1. /\ i \in Nat
        /\ sl[i] \in SlotRecords(i)
        /\ SlotInv(sl[i], i)
        /\ Unreconciled(sl[i], o = i)
        /\ (o = i) \in BOOLEAN
    BY SlotNumbers DEF Controllers, AllUnreconciled
  <2>2. CASE i = o2 /\ ~KeepsLock(sl, o)
    <3>1. r[i] = GainEnumLock(sl[i])
      BY <2>2 DEF Reconciled
    <3>2. QED
      BY <2>1, <2>2, <3>1, LockKeeps DEF Agreed
  <2>3. CASE i = o /\ i # o2
    <3>1. r[i] = LoseEnumLock(sl[i])
      BY <2>3 DEF Reconciled
    <3>2. ~WantsEnumLock(sl[i])
      BY <2>3, <1>2, <1>3
    <3>3. QED
      BY <2>1, <2>3, <3>1, <3>2, LockKeeps DEF Agreed
  <2>4. CASE i = o2 /\ KeepsLock(sl, o)
    <3>1. r[i] = sl[i] /\ i = o
      BY <2>4, <1>2 DEF Reconciled
    <3>2. QED
      BY <2>1, <2>4, <3>1, <1>4 DEF Agreed, Unreconciled
  <2>5. CASE i # o2 /\ i # o
    <3>1. r[i] = sl[i]
      BY <2>5 DEF Reconciled
    <3>2. QED
      BY <2>1, <2>5, <3>1 DEF Agreed, Unreconciled
  <2>6. QED
    BY <2>2, <2>3, <2>4, <2>5
<1>6. r = [i \in Slots |-> r[i]]
  BY DEF Reconciled
<1>7. QED
  BY <1>1, <1>5, <1>6 DEF Controllers, AllAgreed

\* Controllers whose types were kept or forgotten still match the daughters.
LEMMA Forgetting ==
  ASSUME NEW m, NEW id, NEW sl, NEW r, Remembers(m, id, sl),
         \A i \in Slots : r[i].type \in {sl[i].type, NoType}
  PROVE  Remembers(m, id, r)
BY DEF Remembers, Remembered

\* What a pass chooses its transaction from.
LEMMA PreparedGood ==
  ASSUME HostInv, NEW E \in SUBSET Slots, NEW p \in Prepared(E)
  PROVE  /\ Controllers(p.sl)
         /\ AllAgreed(p.sl, p.owner)
         /\ Remembers(module, identified, p.sl)
<1> DEFINE q == Pinned(E)
<1>1. PICK o \in NextOwners(q, lockOwner) :
         p.sl = Reconciled(q, lockOwner, o) /\ p.owner = o
  BY DEF Prepared
<1>2. ASSUME NEW i \in Slots
      PROVE  /\ q[i] \in SlotRecords(i)
             /\ SlotInv(q[i], i)
             /\ q[i].type \in {slots[i].type, NoType}
             /\ Unreconciled(q[i], lockOwner = i)
  <2>1. /\ i \in Nat
        /\ slots[i] \in SlotRecords(i)
        /\ SlotInv(slots[i], i)
        /\ sense[i] \in BOOLEAN
    BY SlotNumbers DEF HostInv, Controllers, TypeOK
  <2>2. PICK elapsed \in BOOLEAN : q[i] = UpdatePins(slots[i], sense[i], elapsed)
    BY DEF Pinned, UpdatePins, DebounceAbsence
  <2>3. PICK own \in BOOLEAN : own <=> lockOwner = i
    OBVIOUS
  <2>4. Agreed(slots[i], own)
    BY <2>3 DEF HostInv, AllAgreed, Agreed
  <2> DEFINE t == UpdatePins(slots[i], sense[i], elapsed)
  <2>5. /\ t \in SlotRecords(i)
        /\ SlotInv(t, i)
        /\ t.type \in {slots[i].type, NoType}
        /\ t.mod => slots[i].mod
        /\ \A b \in BOOLEAN : Agreed(slots[i], b) => Unreconciled(t, b)
    BY <2>1, PinsKeep
  <2>6. Unreconciled(q[i], lockOwner = i)
    <3>1. Unreconciled(q[i], own)
      BY <2>2, <2>4, <2>5
    <3>2. QED
      BY <2>3, <3>1 DEF Unreconciled
  <2>7. QED
    BY <2>2, <2>5, <2>6
<1>3. q = [i \in Slots |-> q[i]]
  BY DEF Pinned
<1>4. Controllers(q) /\ AllUnreconciled(q, lockOwner)
  BY <1>2, <1>3 DEF Controllers, AllUnreconciled, HostInv, AllAgreed
<1>5. /\ Controllers(p.sl)
      /\ AllAgreed(p.sl, p.owner)
      /\ \A i \in Slots : p.sl[i].type = q[i].type
  BY <1>1, <1>4, ReconcileKeeps
<1>6. Remembers(module, identified, p.sl)
  <2>1. \A i \in Slots : p.sl[i].type \in {slots[i].type, NoType}
    BY <1>2, <1>5
  <2>2. QED
    BY <2>1, Forgetting DEF HostInv
<1>7. QED
  BY <1>5, <1>6

\* The end of a pass.
LEMMA FinishGood ==
  ASSUME NEW sl, NEW o, Controllers(sl), AllUnreconciled(sl, o),
         NEW m, NEW id, Remembers(m, id, sl),
         NEW o2 \in NextOwners(sl, o)
  PROVE  LET r == Reconciled(sl, o, o2)
         IN  /\ Controllers(r)
             /\ AllAgreed(r, o2)
             /\ Remembers(m, id, r)
<1>1. LET r == Reconciled(sl, o, o2)
      IN  /\ Controllers(r)
          /\ AllAgreed(r, o2)
          /\ \A i \in Slots : r[i].type = sl[i].type
  BY ReconcileKeeps
<1>2. QED
  BY <1>1, Forgetting

\* The type that the result of a transaction of slot i leaves in its controller s.
TypeAfter(s, status, type) ==
  IF status = "None" /\ s.phase = "Identify" THEN type
  ELSE IF status = "None" /\ s.phase = "RecoverProbeDefault" THEN NoType
  ELSE s.type

\* The result of a transaction.
LEMMA AppliedGood ==
  ASSUME NEW sl, NEW o, Controllers(sl), AllAgreed(sl, o),
         NEW i \in Slots, sl[i].phase \in StepPhases \cup IdentifiedPhases,
         NEW status \in Failures \cup {"None"},
         NEW type \in ModuleTypes \cup {NoType},
         sl[i].phase = "Identify" /\ status = "None" => type \in ModuleTypes
  PROVE  LET r == Applied(sl, i, status, type)
         IN  /\ Controllers(r)
             /\ AllUnreconciled(r, o)
             /\ r[i].type = TypeAfter(sl[i], status, type)
             /\ \A j \in Slots \ {i} : r[j] = sl[j]
<1> DEFINE s == sl[i]
           r == Applied(sl, i, status, type)
<1>1. i \in Nat /\ s \in SlotRecords(i) /\ SlotInv(s, i)
  BY SlotNumbers DEF Controllers
<1>2. /\ r[i] \in SlotRecords(i)
      /\ SlotInv(r[i], i)
      /\ r[i].type = TypeAfter(s, status, type)
      /\ \A own \in BOOLEAN : Agreed(s, own) => Unreconciled(r[i], own)
  <2>1. CASE status = "None"
    <3> DEFINE t == ApplySuccess(s, i, type)
    <3>1. r[i] = t
      BY <2>1 DEF Applied, Controllers
    <3>2. /\ t \in SlotRecords(i)
          /\ SlotInv(t, i)
          /\ t.type = IF s.phase = "Identify" THEN type
                      ELSE IF s.phase = "RecoverProbeDefault" THEN NoType ELSE s.type
          /\ t.mod => s.mod
          /\ \A own \in BOOLEAN : Agreed(s, own) => Unreconciled(t, own)
      BY <1>1, <2>1, SuccessKeeps
    <3>3. QED
      BY <2>1, <3>1, <3>2 DEF TypeAfter
  <2>2. CASE status # "None"
    <3> DEFINE t == ApplyFailure(s, status)
    <3>1. r[i] = t
      BY <2>2 DEF Applied, Controllers
    <3>2. /\ t \in SlotRecords(i)
          /\ SlotInv(t, i)
          /\ t.type = s.type
          /\ t.mod => s.mod
          /\ \A own \in BOOLEAN : Agreed(s, own) => Unreconciled(t, own)
      BY <1>1, <2>2, FailureKeeps
    <3>3. QED
      BY <2>2, <3>1, <3>2 DEF TypeAfter
  <2>3. QED
    BY <2>1, <2>2
<1>3. Unreconciled(r[i], o = i)
  <2>1. PICK own \in BOOLEAN : own <=> o = i
    OBVIOUS
  <2>2. Agreed(s, own)
    BY <2>1 DEF AllAgreed, Agreed
  <2>3. Unreconciled(r[i], own)
    BY <1>2, <2>2
  <2>4. QED
    BY <2>1, <2>3 DEF Unreconciled
<1>4. \A j \in Slots \ {i} : r[j] = sl[j]
  BY DEF Applied, Controllers
<1>5. Controllers(r)
  <2>1. r = [j \in Slots |-> r[j]]
    BY DEF Applied, Controllers
  <2>2. \A j \in Slots : r[j] \in SlotRecords(j) /\ SlotInv(r[j], j)
    BY <1>2, <1>4 DEF Controllers
  <2>3. QED
    BY <2>1, <2>2 DEF Controllers
<1>6. AllUnreconciled(r, o)
  <2>1. \A j \in Slots \ {i} : Unreconciled(r[j], o = j)
    BY <1>4 DEF AllAgreed, Agreed, Unreconciled
  <2>2. QED
    BY <1>3, <2>1 DEF AllUnreconciled, AllAgreed
<1>7. QED
  BY <1>2, <1>4, <1>5, <1>6

\* Nothing but the MOD lines changes.
LEMMA ReleaseGood ==
  ASSUME NEW sl, NEW o, Controllers(sl), AllAgreed(sl, o)
  PROVE  LET r == [i \in Slots |-> ReleaseMod(sl[i])]
         IN  /\ Controllers(r)
             /\ AllAgreed(r, o)
             /\ \A i \in Slots : ~r[i].mod /\ r[i].type = sl[i].type
<1> DEFINE r == [i \in Slots |-> ReleaseMod(sl[i])]
<1>1. ASSUME NEW i \in Slots
      PROVE  /\ r[i] \in SlotRecords(i)
             /\ SlotInv(r[i], i)
             /\ Agreed(r[i], o = i)
             /\ ~r[i].mod
             /\ r[i].type = sl[i].type
  <2>1. sl[i] \in SlotRecords(i) /\ SlotInv(sl[i], i) /\ Agreed(sl[i], o = i)
    BY DEF Controllers, AllAgreed
  <2>2. r[i] = [sl[i] EXCEPT !.mod = FALSE]
    BY DEF ReleaseMod
  <2>3. QED
    BY <2>1, <2>2 DEF SlotRecords, SlotInv, Agreed
<1>2. r = [i \in Slots |-> r[i]]
  OBVIOUS
<1>3. QED
  BY <1>1, <1>2 DEF Controllers, AllAgreed

\* Controllers after a reset.
LEMMA FreshGood ==
  LET r == [i \in Slots |-> Fresh]
  IN  /\ Controllers(r)
      /\ AllAgreed(r, NoOwner)
      /\ \A i \in Slots : ~r[i].mod /\ r[i].type = NoType
<1>1. \A i \in Slots : Fresh \in SlotRecords(i)
  BY ZeroCounters DEF Fresh, SlotRecords, Phases, IdentifiedPhases
<1>2. \A i \in Slots : SlotInv(Fresh, i)
  BY SlotAssumption DEF Fresh, SlotInv, CommittedPhases, IdentifiedPhases, NoAddress
<1>3. \A i \in Slots : Agreed(Fresh, NoOwner = i)
  BY SlotNumbers DEF Fresh, Agreed, EnumerationPhases, StepPhases
<1>4. QED
  BY <1>1, <1>2, <1>3 DEF Controllers, AllAgreed, Fresh

\* Who answers: at a slot address the module of that slot, at the unconfigured
\* address the module of the lock owner.
LEMMA Takers ==
  ASSUME NEW sl, NEW o, Controllers(sl), AllAgreed(sl, o),
         Remembers(module, identified, sl)
  PROVE  /\ Answering(sl, Unconfigured) \subseteq {o}
         /\ \A i \in Slots : Answering(sl, SlotAddress(i)) \subseteq {i}
<1>1. ASSUME NEW j \in Answering(sl, Unconfigured)
      PROVE  j = o
  <2>1. j \in Slots /\ sl[j].mod
    BY DEF Answering
  <2>2. sl[j].phase \in EnumerationPhases
    BY <2>1 DEF Controllers, SlotInv
  <2>3. QED
    BY <2>1, <2>2 DEF AllAgreed, Agreed
<1>2. ASSUME NEW i \in Slots, NEW j \in Answering(sl, SlotAddress(i))
      PROVE  j = i
  BY SlotNumbers DEF Answering, Remembers, Remembered
<1>3. QED
  BY <1>1, <1>2

-----------------------------------------------------------------------------
(* Every step keeps the invariant                                          *)

LEMMA InitHostInv == Init => HostInv
<1> SUFFICES ASSUME Init PROVE HostInv
  OBVIOUS
<1>1. /\ Controllers(slots)
      /\ AllAgreed(slots, lockOwner)
      /\ MayDrive(slots)
  BY FreshGood DEF Init, MayDrive
<1>2. TypeOK
  BY <1>1, SlotNumbers DEF Init, TypeOK, Controllers, Modules, NoModule
<1>3. Remembers(module, identified, slots)
  BY DEF Init, Remembers, Remembered, NoModule
<1>4. QED
  BY <1>1, <1>2, <1>3 DEF HostInv

\* A pass ends: the invariant holds of what it leaves behind.
LEMMA PassEnds ==
  ASSUME HostInv, started, ~quiesced, UNCHANGED <<started, quiesced, sense, calm>>,
         nextHealth' \in Slots, module' \in [Slots -> Modules],
         identified' \in [Slots -> BOOLEAN],
         NEW sl, NEW o, Controllers(sl), AllUnreconciled(sl, o),
         Remembers(module', identified', sl), FinishPass(sl, o)
  PROVE  HostInv'
<1>1. PICK o2 \in NextOwners(sl, o) : lockOwner' = o2 /\ slots' = Reconciled(sl, o, o2)
  BY DEF FinishPass
<1>2. /\ Controllers(slots')
      /\ AllAgreed(slots', lockOwner')
      /\ Remembers(module', identified', slots')
  BY <1>1, FinishGood
<1>3. TypeOK'
  BY <1>2 DEF HostInv, TypeOK, Controllers, AllAgreed
<1>4. MayDrive(slots)'
  BY DEF MayDrive
<1>5. QED
  BY <1>2, <1>3, <1>4 DEF HostInv

LEMMA IdleKeeps ==
  ASSUME HostInv, NEW E \in SUBSET Slots, IdlePass(E)
  PROVE  HostInv'
<1>1. PICK p \in Prepared(E) : lockOwner' = p.owner /\ slots' = p.sl
  BY DEF IdlePass
<1>2. /\ Controllers(slots')
      /\ AllAgreed(slots', lockOwner')
      /\ Remembers(module, identified, slots')
  BY <1>1, PreparedGood
<1>3. UNCHANGED <<started, quiesced, nextHealth, sense, module, identified, calm>>
      /\ started /\ ~quiesced
  BY DEF IdlePass, envVars
<1>4. TypeOK'
  BY <1>2, <1>3 DEF HostInv, TypeOK, Controllers, AllAgreed
<1>5. QED
  BY <1>2, <1>3, <1>4 DEF HostInv, MayDrive

LEMMA HealthKeeps ==
  ASSUME HostInv, NEW E \in SUBSET Slots, HealthPass(E)
  PROVE  HostInv'
<1> PICK p \in Prepared(E) :
      \E i \in HealthCandidates(p.sl, E) :
        /\ \E status \in Outcomes(i, Answering(p.sl, p.sl[i].address)) :
             FinishPass(Applied(p.sl, i, status, NoType), p.owner)
        /\ nextHealth' = WalkAfter(i)
  BY DEF HealthPass
<1>1. PICK i \in HealthCandidates(p.sl, E) :
        /\ \E status \in Outcomes(i, Answering(p.sl, p.sl[i].address)) :
             FinishPass(Applied(p.sl, i, status, NoType), p.owner)
        /\ nextHealth' = WalkAfter(i)
  OBVIOUS
<1>2. PICK status \in Failures \cup {"None"} :
        FinishPass(Applied(p.sl, i, status, NoType), p.owner)
  BY <1>1, HostAssumption DEF Outcomes, Failures
<1>3. /\ Controllers(p.sl)
      /\ AllAgreed(p.sl, p.owner)
      /\ Remembers(module, identified, p.sl)
  BY PreparedGood
<1>4. /\ i \in Slots
      /\ p.sl[i].phase \in IdentifiedPhases
      /\ p.sl[i].phase \notin {"Identify", "RecoverProbeDefault"}
  BY DEF HealthCandidates, HealthDue, IdentifiedPhases
<1> DEFINE r == Applied(p.sl, i, status, NoType)
<1>5. /\ Controllers(r)
      /\ AllUnreconciled(r, p.owner)
      /\ r[i].type = TypeAfter(p.sl[i], status, NoType)
      /\ \A j \in Slots \ {i} : r[j] = p.sl[j]
  BY <1>3, <1>4, AppliedGood
<1>6. \A j \in Slots : r[j].type = p.sl[j].type
  BY <1>4, <1>5 DEF TypeAfter
<1>7. Remembers(module, identified, r)
  BY <1>3, <1>6, Forgetting
<1>8. /\ started /\ ~quiesced
      /\ UNCHANGED <<started, quiesced, sense, module, identified, calm>>
  BY DEF HealthPass, envVars
<1>9. nextHealth' \in Slots
  BY <1>1, <1>4, SlotNumbers DEF WalkAfter
<1>10. module' \in [Slots -> Modules] /\ identified' \in [Slots -> BOOLEAN]
  BY <1>8 DEF HostInv, TypeOK
<1>11. QED
  BY <1>2, <1>5, <1>7, <1>8, <1>9, <1>10, PassEnds

\* A SET_ADDRESS reaches the module of the lock owner, of which nothing is known.
LEMMA SetAddressRemembers ==
  ASSUME HostInv, NEW sl, NEW o \in Slots, Controllers(sl), AllAgreed(sl, o),
         Remembers(module, identified, sl), sl[o].phase = "SetAddress",
         NEW acting \in SUBSET Answering(sl, Unconfigured)
  PROVE  /\ Addressed(o, acting) \in [Slots -> Modules]
         /\ Remembers(Addressed(o, acting), identified, sl)
<1> DEFINE m == Addressed(o, acting)
<1>1. acting \subseteq {o} /\ acting \subseteq Slots
  BY Takers DEF Answering
<1>2. m \in [Slots -> Modules]
  <2>1. ASSUME NEW j \in Slots PROVE m[j] \in Modules
    BY <1>1 DEF Addressed, HostInv, TypeOK, Modules
  <2>2. QED
    BY <2>1 DEF Addressed
<1>3. ASSUME NEW j \in Slots PROVE Remembered(m[j], identified[j], sl[j], j)
  <2>1. CASE j \notin acting
    BY <2>1 DEF Addressed, Remembers
  <2>2. CASE j \in acting
    <3>1. j = o /\ module[o] \in Modules
      BY <1>1, <2>2 DEF HostInv, TypeOK
    <3>2. /\ m[o] = [module[o] EXCEPT !.address = SlotAddress(o)]
          /\ module[o].powered
          /\ module[o].address = Unconfigured
      BY <2>2, <3>1 DEF Addressed, Answering
    <3>3. /\ m[o].address = SlotAddress(o)
          /\ m[o].type = module[o].type
      BY <3>1, <3>2 DEF Modules
    <3>4. Remembered(module[o], identified[o], sl[o], o)
      BY DEF Remembers
    <3>5. ~identified[o]
      BY <3>2, <3>4, SlotNumbers DEF Remembered
    <3>6. sl[o].type = NoType
      BY DEF Controllers, SlotInv, FirstPhases
    <3>7. m[o].type \in ModuleTypes
      BY <3>2, <3>3, <3>4 DEF Remembered
    <3>8. QED
      BY <3>1, <3>3, <3>5, <3>6, <3>7 DEF Remembered
  <2>3. QED
    BY <2>1, <2>2
<1>4. QED
  BY <1>2, <1>3 DEF Remembers

LEMMA EnumerateKeeps ==
  ASSUME HostInv, NEW E \in SUBSET Slots, EnumeratePass(E)
  PROVE  HostInv'
<1>1. PICK p \in Prepared(E) :
        LET o == p.owner
            sl == p.sl
            takers == Answering(sl, ProposedAddress(sl[o], o))
        IN  /\ EnumerationDue(sl, o, E)
            /\ \E status \in Outcomes(o, takers) :
                 \/ /\ sl[o].phase = "SetAddress"
                    /\ \E acting \in Effects(o, takers) : module' = Addressed(o, acting)
                    /\ FinishPass(Applied(sl, o, status, NoType), o)
                    /\ UNCHANGED identified
                 \/ /\ sl[o].phase = "Identify" /\ status = "None"
                    /\ \E j \in takers :
                         /\ FinishPass(Applied(sl, o, status, module[j].type), o)
                         /\ identified' = [identified EXCEPT ![o] = (j = o)]
                    /\ UNCHANGED module
                 \/ /\ sl[o].phase # "SetAddress"
                    /\ ~(sl[o].phase = "Identify" /\ status = "None")
                    /\ FinishPass(Applied(sl, o, status, NoType), o)
                    /\ UNCHANGED <<module, identified>>
  BY DEF EnumeratePass
<1> DEFINE o == p.owner
           sl == p.sl
           takers == Answering(sl, ProposedAddress(sl[o], o))
<1>2. /\ Controllers(sl)
      /\ AllAgreed(sl, o)
      /\ Remembers(module, identified, sl)
  BY PreparedGood
<1>3. o \in Slots /\ sl[o].phase \in StepPhases
  BY <1>1, <1>2 DEF EnumerationDue, StepDue, AllAgreed
<1>4. /\ started /\ ~quiesced
      /\ UNCHANGED <<started, quiesced, nextHealth, sense, calm>>
  BY DEF EnumeratePass
<1>5. nextHealth' \in Slots
  BY <1>4 DEF HostInv, TypeOK
<1>6. PICK status \in Failures \cup {"None"} :
        \/ /\ sl[o].phase = "SetAddress"
           /\ \E acting \in Effects(o, takers) : module' = Addressed(o, acting)
           /\ FinishPass(Applied(sl, o, status, NoType), o)
           /\ UNCHANGED identified
        \/ /\ sl[o].phase = "Identify" /\ status = "None"
           /\ \E j \in takers :
                /\ FinishPass(Applied(sl, o, status, module[j].type), o)
                /\ identified' = [identified EXCEPT ![o] = (j = o)]
           /\ UNCHANGED module
        \/ /\ sl[o].phase # "SetAddress"
           /\ ~(sl[o].phase = "Identify" /\ status = "None")
           /\ FinishPass(Applied(sl, o, status, NoType), o)
           /\ UNCHANGED <<module, identified>>
  BY <1>1, HostAssumption DEF Outcomes, Failures
<1>7. /\ NoType \in ModuleTypes \cup {NoType}
      /\ sl[o].phase \in StepPhases \cup IdentifiedPhases
  BY <1>3
<1>8. CASE /\ sl[o].phase = "SetAddress"
           /\ \E acting \in Effects(o, takers) : module' = Addressed(o, acting)
           /\ FinishPass(Applied(sl, o, status, NoType), o)
           /\ UNCHANGED identified
  <2> DEFINE r == Applied(sl, o, status, NoType)
  <2>1. PICK acting \in Effects(o, takers) : module' = Addressed(o, acting)
    BY <1>8
  <2>2. acting \in SUBSET Answering(sl, Unconfigured)
    BY <1>8 DEF Effects, ProposedAddress
  <2>3. module' \in [Slots -> Modules] /\ Remembers(module', identified, sl)
    BY <1>2, <1>3, <1>8, <2>1, <2>2, SetAddressRemembers
  <2>4. /\ Controllers(r)
        /\ AllUnreconciled(r, o)
        /\ r[o].type = TypeAfter(sl[o], status, NoType)
        /\ \A j \in Slots \ {o} : r[j] = sl[j]
    BY <1>2, <1>3, <1>7, <1>8, AppliedGood
  <2>5. \A j \in Slots : r[j].type = sl[j].type
    BY <1>8, <2>4 DEF TypeAfter
  <2>6. Remembers(module', identified', r)
    BY <1>8, <2>3, <2>5, Forgetting
  <2>7. identified' \in [Slots -> BOOLEAN]
    BY <1>8 DEF HostInv, TypeOK
  <2>8. QED
    BY <1>4, <1>5, <1>8, <2>3, <2>4, <2>6, <2>7, PassEnds
<1>9. CASE /\ sl[o].phase = "Identify" /\ status = "None"
           /\ \E j \in takers :
                /\ FinishPass(Applied(sl, o, status, module[j].type), o)
                /\ identified' = [identified EXCEPT ![o] = (j = o)]
           /\ UNCHANGED module
  <2>1. takers \subseteq {o}
    <3>1. ProposedAddress(sl[o], o) = SlotAddress(o)
      BY <1>2, <1>3, <1>9 DEF ProposedAddress, Controllers, SlotInv
    <3>2. QED
      BY <1>2, <1>3, <3>1, Takers
  <2>2. /\ o \in takers
        /\ FinishPass(Applied(sl, o, status, module[o].type), o)
        /\ identified' = [identified EXCEPT ![o] = TRUE]
    BY <1>9, <2>1
  <2> DEFINE r == Applied(sl, o, status, module[o].type)
  <2>3. /\ module[o].powered
        /\ module[o].address = SlotAddress(o)
        /\ module[o].type \in ModuleTypes
    BY <1>2, <1>3, <1>9, <2>2 DEF Answering, Remembers, Remembered, ProposedAddress,
       Controllers, SlotInv
  <2>4. /\ Controllers(r)
        /\ AllUnreconciled(r, o)
        /\ r[o].type = TypeAfter(sl[o], status, module[o].type)
        /\ \A j \in Slots \ {o} : r[j] = sl[j]
    BY <1>2, <1>3, <1>7, <2>3, AppliedGood
  <2>5. r[o].type = module[o].type
    BY <1>9, <2>4 DEF TypeAfter
  <2>6. /\ identified' \in [Slots -> BOOLEAN]
        /\ identified'[o]
        /\ \A j \in Slots \ {o} : identified'[j] = identified[j]
    BY <1>3, <2>2 DEF HostInv, TypeOK
  <2>7. Remembers(module', identified', r)
    <3>1. Remembered(module'[o], identified'[o], r[o], o)
      BY <1>9, <2>3, <2>5, <2>6 DEF Remembered
    <3>2. \A j \in Slots \ {o} : Remembered(module'[j], identified'[j], r[j], j)
      BY <1>2, <1>9, <2>4, <2>6 DEF Remembers
    <3>3. QED
      BY <3>1, <3>2 DEF Remembers
  <2>8. module' \in [Slots -> Modules]
    BY <1>9 DEF HostInv, TypeOK
  <2>9. QED
    BY <1>4, <1>5, <2>2, <2>4, <2>6, <2>7, <2>8, PassEnds
<1>10. CASE /\ sl[o].phase # "SetAddress"
            /\ ~(sl[o].phase = "Identify" /\ status = "None")
            /\ FinishPass(Applied(sl, o, status, NoType), o)
            /\ UNCHANGED <<module, identified>>
  <2> DEFINE r == Applied(sl, o, status, NoType)
  <2>1. /\ Controllers(r)
        /\ AllUnreconciled(r, o)
        /\ r[o].type = TypeAfter(sl[o], status, NoType)
        /\ \A j \in Slots \ {o} : r[j] = sl[j]
    BY <1>2, <1>3, <1>7, <1>10, AppliedGood
  <2>2. \A j \in Slots : r[j].type \in {sl[j].type, NoType}
    BY <1>10, <2>1 DEF TypeAfter
  <2>3. Remembers(module', identified', r)
    BY <1>2, <1>10, <2>2, Forgetting
  <2>4. module' \in [Slots -> Modules] /\ identified' \in [Slots -> BOOLEAN]
    BY <1>10 DEF HostInv, TypeOK
  <2>5. QED
    BY <1>4, <1>5, <1>10, <2>1, <2>3, <2>4, PassEnds
<1>11. QED
  BY <1>6, <1>8, <1>9, <1>10

LEMMA ControlKeeps ==
  ASSUME HostInv, Begin \/ Quiesce \/ Resume \/ ControllerReset
  PROVE  HostInv'
<1>1. CASE /\ slots' = [i \in Slots |-> ReleaseMod(slots[i])]
           /\ started' \in BOOLEAN /\ quiesced' \in BOOLEAN
           /\ UNCHANGED <<lockOwner, nextHealth, sense, module, identified, calm>>
  <2>1. /\ Controllers(slots')
        /\ AllAgreed(slots', lockOwner')
        /\ \A i \in Slots : ~slots'[i].mod /\ slots'[i].type = slots[i].type
    BY <1>1, ReleaseGood DEF HostInv
  <2>2. TypeOK'
    BY <1>1, <2>1 DEF HostInv, TypeOK, Controllers
  <2>3. Remembers(module', identified', slots')
    BY <1>1, <2>1, Forgetting DEF HostInv
  <2>4. QED
    BY <2>1, <2>2, <2>3 DEF HostInv, MayDrive
<1>2. CASE /\ UNCHANGED <<slots, started, lockOwner, nextHealth, sense, module,
                          identified, calm>>
           /\ quiesced' \in BOOLEAN
           /\ quiesced' => ~started
  BY <1>2 DEF HostInv, TypeOK, Controllers, AllAgreed, MayDrive, Remembers
<1>3. CASE ControllerReset
  <2>1. /\ Controllers(slots')
        /\ AllAgreed(slots', lockOwner')
        /\ \A i \in Slots : ~slots'[i].mod /\ slots'[i].type = NoType
    BY <1>3, FreshGood DEF ControllerReset
  <2>2. TypeOK'
    BY <1>3, <2>1, SlotNumbers DEF HostInv, TypeOK, Controllers, ControllerReset
  <2>3. Remembers(module', identified', slots')
    BY <1>3, <2>1 DEF HostInv, Remembers, Remembered, ControllerReset
  <2>4. QED
    BY <2>1, <2>2, <2>3 DEF HostInv, MayDrive
<1>4. QED
  <2>1. CASE Begin
    BY <2>1, <1>1 DEF Begin, envVars, HostInv, TypeOK
  <2>2. CASE Quiesce /\ started
    BY <2>2, <1>1 DEF Quiesce, envVars, HostInv, TypeOK
  <2>3. CASE Quiesce /\ ~started
    BY <2>3, <1>2 DEF Quiesce, envVars
  <2>4. CASE Resume
    BY <2>4, <1>2 DEF Resume, envVars
  <2>5. QED
    BY <1>3, <2>1, <2>2, <2>3, <2>4

\* A hand, a reboot of a daughter or a contact only touches what is in a slot.
LEMMA EnvironmentKeeps ==
  ASSUME HostInv, Environment
  PROVE  HostInv'
<1>1. ASSUME UNCHANGED hostVars, TypeOK', Remembers(module', identified', slots)
      PROVE  HostInv'
  BY <1>1 DEF hostVars, HostInv, Controllers, AllAgreed, MayDrive, Remembers
<1>2. UNCHANGED hostVars
  BY DEF Environment, Plug, Unplug, ModuleRestart, SenseOpens, SenseCloses, CalmDown
<1>3. CASE UNCHANGED <<module, identified>> /\ sense' \in [Slots -> BOOLEAN] /\ calm' \in BOOLEAN
  BY <1>1, <1>2, <1>3 DEF HostInv, TypeOK, hostVars, Remembers
<1>4. ASSUME NEW i \in Slots, NEW m \in Modules, module' = [module EXCEPT ![i] = m],
             m.powered => m.address = Unconfigured /\ m.type \in ModuleTypes,
             identified' \in [Slots -> BOOLEAN], ~identified'[i],
             \A j \in Slots \ {i} : identified'[j] = identified[j],
             sense' \in [Slots -> BOOLEAN], UNCHANGED calm
      PROVE  HostInv'
  <2>1. TypeOK'
    BY <1>2, <1>4 DEF HostInv, TypeOK, hostVars
  <2>2. Remembered(module'[i], identified'[i], slots[i], i)
    BY <1>4, SlotNumbers DEF Remembered, HostInv, TypeOK
  <2>3. \A j \in Slots \ {i} : Remembered(module'[j], identified'[j], slots[j], j)
    BY <1>4 DEF HostInv, TypeOK, Remembers
  <2>4. QED
    BY <1>1, <1>2, <2>1, <2>2, <2>3 DEF Remembers
<1>5. ASSUME NEW type \in ModuleTypes
      PROVE  /\ PoweredUp(type) \in Modules
             /\ PoweredUp(type).powered
             /\ PoweredUp(type).address = Unconfigured
             /\ PoweredUp(type).type = type
  BY DEF PoweredUp, Modules
<1>6. NoModule \in Modules /\ ~NoModule.powered
  BY DEF NoModule, Modules
<1>7. ASSUME NEW i \in Slots, NEW type \in ModuleTypes, Plug(i, type)
      PROVE  HostInv'
  <2>1. ~identified[i]
    BY <1>7 DEF Plug, HostInv, Remembers, Remembered
  <2>2. /\ identified' = identified
        /\ identified' \in [Slots -> BOOLEAN]
        /\ sense' \in [Slots -> BOOLEAN]
        /\ UNCHANGED calm
        /\ module' = [module EXCEPT ![i] = PoweredUp(type)]
    BY <1>7 DEF Plug, HostInv, TypeOK
  <2>3. QED
    BY <1>4, <1>5, <2>1, <2>2
<1>8. ASSUME NEW i \in Slots, Unplug(i)
      PROVE  HostInv'
  BY <1>4, <1>6, <1>8 DEF Unplug, HostInv, TypeOK
<1>9. ASSUME NEW i \in Slots, ModuleRestart(i)
      PROVE  HostInv'
  <2>1. module[i].type \in ModuleTypes
    BY <1>9 DEF ModuleRestart, HostInv, Remembers, Remembered
  <2>2. module' = [module EXCEPT ![i] = PoweredUp(module[i].type)]
    BY <1>9 DEF ModuleRestart
  <2>3. /\ identified' \in [Slots -> BOOLEAN]
        /\ ~identified'[i]
        /\ \A j \in Slots \ {i} : identified'[j] = identified[j]
        /\ sense' \in [Slots -> BOOLEAN]
        /\ UNCHANGED calm
    BY <1>9 DEF ModuleRestart, HostInv, TypeOK
  <2>4. QED
    BY <1>4, <1>5, <2>1, <2>2, <2>3
<1>10. ASSUME NEW i \in Slots, SenseOpens(i) \/ SenseCloses(i)
       PROVE  HostInv'
  BY <1>3, <1>10 DEF SenseOpens, SenseCloses, HostInv, TypeOK
<1>11. ASSUME CalmDown
       PROVE  HostInv'
  BY <1>3, <1>11 DEF CalmDown, HostInv, TypeOK
<1>12. QED
  BY <1>7, <1>8, <1>9, <1>10, <1>11 DEF Environment

-----------------------------------------------------------------------------
(* The theorems                                                            *)

\* The invariant holds in every state of every behaviour of the bus.
THEOREM Invariance == Spec => []HostInv
<1>1. Init => HostInv
  BY InitHostInv
<1>2. HostInv /\ [Next]_vars => HostInv'
  <2> SUFFICES ASSUME HostInv, [Next]_vars PROVE HostInv'
    OBVIOUS
  <2>1. CASE \E E \in SUBSET Slots : Update(E)
    BY <2>1, IdleKeeps, EnumerateKeeps, HealthKeeps DEF Update
  <2>2. CASE Begin \/ Quiesce \/ Resume \/ ControllerReset
    BY <2>2, ControlKeeps
  <2>3. CASE Environment
    BY <2>3, EnvironmentKeeps
  <2>4. CASE UNCHANGED vars
    BY <2>4 DEF vars, hostVars, envVars, HostInv, TypeOK, Controllers, AllAgreed, MayDrive,
       Remembers
  <2>5. QED
    BY <2>1, <2>2, <2>3, <2>4 DEF Next
<1>3. QED
  BY <1>1, <1>2, PTL DEF Spec

\* TypeOK for every number of slots: in particular the retry and ping counters
\* of a controller never reach their limits, and the owner is a slot.
THEOREM TypeCorrect == Spec => []TypeOK
<1>1. HostInv => TypeOK
  BY DEF HostInv
<1>2. QED
  BY <1>1, Invariance, PTL

\* LockAgreement: host and controllers agree on the holder of the enumeration
\* lock (_reconcileLock), so at most one slot enumerates.
THEOREM LockAgreementHolds == Spec => []LockAgreement
<1>1. HostInv => LockAgreement
  BY DEF HostInv, AllAgreed, Agreed, LockAgreement
<1>2. QED
  BY <1>1, Invariance, PTL

\* SelectDiscipline: only the lock owner's MOD line is ever low, and never
\* during a programming session (_assertSelect, _releaseMod, quiesce).
THEOREM SelectDisciplineHolds == Spec => []SelectDiscipline
<1>1. HostInv => SelectDiscipline
  BY DEF HostInv, Controllers, SlotInv, AllAgreed, Agreed, MayDrive, SelectDiscipline
<1>2. QED
  BY <1>1, Invariance, PTL

\* AddressesUnique: SET_ADDRESS never gives a module the address of another
\* slot, whichever answers were lost.
THEOREM AddressesUniqueHolds == Spec => []AddressesUnique
<1>1. HostInv => AddressesUnique
  BY DEF HostInv, Remembers, Remembered, AddressesUnique
<1>2. QED
  BY <1>1, Invariance, PTL

\* ExchangeReachesIdentified: exchange() is only ever answered by the module
\* whose identity the slot stores.
THEOREM ExchangeReachesIdentifiedHolds == Spec => []ExchangeReachesIdentified
<1>1. ASSUME HostInv, NEW i \in Slots, NEW type \in ModuleTypes, ExchangeAllowed(i, type),
             NEW j \in Answering(slots, slots[i].address)
      PROVE  j = i /\ identified[i] /\ module[i].type = type
  <2>1. /\ slots[i].phase = "Online"
        /\ slots[i].type = type
    BY <1>1 DEF ExchangeAllowed, State, PublicOf, IdentifiedPhases
  <2>2. /\ slots[i].address = SlotAddress(i)
        /\ slots[i].type \in KnownTypes
    BY <1>1, <2>1 DEF HostInv, Controllers, SlotInv, IdentifiedPhases
  <2>3. j = i
    BY <1>1, <2>2, Takers DEF HostInv
  <2>4. /\ module[i].powered
        /\ module[i].address = SlotAddress(i)
    BY <2>2, <2>3 DEF Answering
  <2>5. Remembered(module[i], identified[i], slots[i], i)
    BY <1>1 DEF HostInv, Remembers
  <2>6. QED
    BY <2>1, <2>2, <2>3, <2>4, <2>5, SlotAssumption DEF Remembered
<1>2. HostInv => ExchangeReachesIdentified
  BY <1>1 DEF ExchangeReachesIdentified
<1>3. QED
  BY <1>2, Invariance, PTL

\* SnapshotCoherent: what a slot shows of itself belongs together.
THEOREM SnapshotCoherentHolds == Spec => []SnapshotCoherent
<1>1. ASSUME HostInv, NEW i \in Slots
      PROVE  LET s == slots[i]
             IN  /\ State(s) \in IdentifiedPhases =>
                      /\ s.address = SlotAddress(i) /\ s.committed = SlotAddress(i)
                      /\ State(s) = "Online" <=> s.type \in KnownTypes
                 /\ State(s) = "Fault" => s.fault # "None"
                 /\ State(s) = "Empty" => s.address = NoAddress /\ s.type = NoType
  <2>1. SlotInv(slots[i], i)
    BY <1>1 DEF HostInv, Controllers
  <2>2. /\ State(slots[i]) \in {"Empty", "Fault", "Online", "Unsupported"}
               => slots[i].phase = State(slots[i])
    BY DEF State, PublicOf, IdentifiedPhases
  <2>3. QED
    BY <2>1, <2>2 DEF SlotInv, FirstPhases, CommittedPhases, IdentifiedPhases
<1>2. HostInv => SnapshotCoherent
  BY <1>1 DEF SnapshotCoherent
<1>3. QED
  BY <1>2, Invariance, PTL

-----------------------------------------------------------------------------
(* What a slot shows                                                       *)

\* The controller goes from s to t and the readers see no difference.
Same(s, t) ==
  State(t) = State(s) /\ t.type = s.type /\ t.address = s.address /\ t.epoch = s.epoch

\* They see one step of SlotView, for the reading of the pins ...
PinsShow(s, t) ==
  \/ /\ State(s) = "Empty" /\ State(t) = "Debouncing"
     /\ t.type = s.type /\ t.address = s.address /\ t.epoch = s.epoch
  \/ /\ State(s) # "Empty" /\ State(t) = "Empty"
     /\ t.type = NoType /\ t.address = NoAddress /\ t.epoch = s.epoch
  \/ /\ State(s) \in {"Debouncing", "Fault"} /\ State(t) = "Enumerating"
     /\ t.type = s.type /\ t.address = s.address /\ t.epoch = s.epoch

Identified(type) == IF type \in KnownTypes THEN "Online" ELSE "Unsupported"

\* ... or for the result of a transaction of slot i.
ResultShows(s, t, i) ==
  \/ /\ State(s) \in IdentifiedPhases /\ State(t) = "Enumerating"
     /\ t.type = s.type /\ t.address = s.address /\ t.epoch = s.epoch
  \/ /\ State(s) = "Enumerating" /\ State(t) = "Enumerating"
     /\ t.type = s.type /\ t.address = SlotAddress(i) /\ t.epoch = s.epoch
  \/ /\ State(s) = "Enumerating" /\ s.address = SlotAddress(i)
     /\ t.type \in ModuleTypes /\ State(t) = Identified(t.type)
     /\ t.address = s.address /\ t.epoch = (s.epoch + 1) % EpochModulus
  \/ /\ State(s) = "Enumerating" /\ s.address = SlotAddress(i)
     /\ s.type # NoType /\ State(t) = Identified(s.type)
     /\ t.type = s.type /\ t.address = s.address /\ t.epoch = s.epoch
  \/ /\ State(s) = "Enumerating" /\ State(t) = "Enumerating"
     /\ t.type = NoType /\ t.address = NoAddress /\ t.epoch = s.epoch
  \/ /\ State(s) = "Enumerating" /\ State(t) = "Fault"
     /\ t.type = s.type /\ t.address = s.address /\ t.epoch = s.epoch

\* A slot that has just shown something new has no transaction in the same pass.
Resting(s) == s.phase \notin StepPhases \cup IdentifiedPhases

LEMMA PublicStates ==
  /\ \A p \in LockPhases \cup {"BootWait"} : PublicOf(p) = "Enumerating"
  /\ \A p \in IdentifiedPhases \cup {"Empty", "Fault"} : PublicOf(p) = p
  /\ PublicOf("DebouncePresent") = "Debouncing"
BY DEF PublicOf, LockPhases, EnumerationPhases, StepPhases, IdentifiedPhases

LEMMA PinsShowOneStep ==
  ASSUME NEW i \in Nat, NEW s \in SlotRecords(i), NEW present \in BOOLEAN,
         NEW elapsed \in BOOLEAN
  PROVE  LET t == UpdatePins(s, present, elapsed)
         IN  Same(s, t) \/ (PinsShow(s, t) /\ Resting(t))
<1> DEFINE t == UpdatePins(s, present, elapsed)
<1>1. CASE t = s
  BY <1>1 DEF Same
<1>2. CASE t = EnterEmpty(s) /\ s.phase # "Empty"
  <2>1. State(s) # "Empty"
    BY <1>2 DEF State, PublicOf, SlotRecords, IdentifiedPhases
  <2>2. t.phase = "Empty" /\ t.type = NoType /\ t.address = NoAddress /\ t.epoch = s.epoch
    BY <1>2 DEF EnterEmpty, Fresh
  <2>3. State(t) = "Empty" /\ Resting(t)
    BY <2>2 DEF State, PublicOf, Resting, StepPhases, IdentifiedPhases
  <2>4. QED
    BY <2>1, <2>2, <2>3 DEF PinsShow
<1>3. CASE t = TimerFired(s)
  <2>1. t.type = s.type /\ t.address = s.address /\ t.epoch = s.epoch
    BY <1>3 DEF TimerFired, EnterStep, SlotRecords
  <2>2. \/ t.phase = s.phase
        \/ s.phase = "BootWait" /\ t.phase = "WaitForLock"
        \/ s.phase = "SelectAssert" /\ t.phase = "ProbeDefault"
        \/ s.phase = "RecoverSelect" /\ t.phase = "RecoverProbeDefault"
        \/ s.phase = "Fault" /\ t.phase \in {"RecoverWaitLock", "WaitForLock"}
    BY <1>3 DEF TimerFired, EnterStep, SlotRecords
  <2> HIDE DEF t
  <2>3. CASE t.phase = s.phase
    BY <2>1, <2>3 DEF Same, State, t
  <2>4. CASE \/ s.phase = "BootWait" /\ t.phase = "WaitForLock"
             \/ s.phase = "SelectAssert" /\ t.phase = "ProbeDefault"
             \/ s.phase = "RecoverSelect" /\ t.phase = "RecoverProbeDefault"
    <3>1. State(s) = "Enumerating" /\ State(t) = "Enumerating"
      BY <2>4, PublicStates DEF State, LockPhases, EnumerationPhases, StepPhases
    <3>2. QED
      BY <2>1, <3>1 DEF Same, t
  <2>5. CASE s.phase = "Fault" /\ t.phase \in {"RecoverWaitLock", "WaitForLock"}
    <3>1. State(s) = "Fault" /\ State(t) = "Enumerating" /\ Resting(t)
      BY <2>5, PublicStates DEF State, Resting, LockPhases, StepPhases, IdentifiedPhases
    <3>2. QED
      BY <2>1, <3>1 DEF PinsShow, t
  <2>6. QED
    BY <2>2, <2>3, <2>4, <2>5
<1>4. CASE \E absent \in BOOLEAN : t = [s EXCEPT !.absent = absent]
  BY <1>4 DEF Same, State, SlotRecords
<1>5. CASE \E p : /\ t = [s EXCEPT !.phase = p]
                  /\ \/ s.phase = "Empty" /\ p = "DebouncePresent"
                     \/ s.phase = "DebouncePresent" /\ p = "BootWait"
  <2>1. /\ t.type = s.type /\ t.address = s.address /\ t.epoch = s.epoch
        /\ \/ s.phase = "Empty" /\ t.phase = "DebouncePresent"
           \/ s.phase = "DebouncePresent" /\ t.phase = "BootWait"
    BY <1>5 DEF SlotRecords
  <2> HIDE DEF t
  <2>2. /\ Resting(t)
        /\ \/ State(s) = "Empty" /\ State(t) = "Debouncing"
           \/ State(s) = "Debouncing" /\ State(t) = "Enumerating"
    BY <2>1, PublicStates DEF Resting, State, StepPhases, IdentifiedPhases
  <2>3. QED
    BY <2>1, <2>2 DEF PinsShow, t
<1>6. QED
  BY <1>1, <1>2, <1>3, <1>4, <1>5 DEF UpdatePins, DebounceAbsence, SlotRecords

\* The readers do not see the lock.
LEMMA LockDoesNotShow ==
  ASSUME NEW i \in Nat, NEW s \in SlotRecords(i)
  PROVE  /\ Same(s, LoseEnumLock(s)) /\ (Resting(s) => Resting(LoseEnumLock(s)))
         /\ Same(s, GainEnumLock(s)) /\ (Resting(s) => Resting(GainEnumLock(s)))
         /\ Same(s, ReleaseMod(s))
<1>1. Same(s, LoseEnumLock(s)) /\ (Resting(s) => Resting(LoseEnumLock(s)))
  BY DEF Same, State, Resting, LoseEnumLock, SlotRecords
<1>2. Same(s, ReleaseMod(s))
  BY DEF Same, State, ReleaseMod, SlotRecords
<1> DEFINE t == GainEnumLock(s)
<1>3. t.type = s.type /\ t.address = s.address /\ t.epoch = s.epoch
  BY DEF GainEnumLock, AssertSelect, SlotRecords
<1>4. \/ t.phase = s.phase
      \/ s.phase = "WaitForLock" /\ t.phase = "SelectAssert"
      \/ s.phase = "RecoverWaitLock" /\ t.phase = "RecoverSelect"
  BY DEF GainEnumLock, AssertSelect, SlotRecords
<1> HIDE DEF t
<1>5. Same(s, t) /\ (Resting(s) => Resting(t))
  BY <1>3, <1>4 DEF Same, Resting, State, PublicOf, StepPhases, IdentifiedPhases
<1>6. QED
  BY <1>1, <1>2, <1>5 DEF t

LEMMA SuccessShowsOneStep ==
  ASSUME NEW i \in Nat, NEW s \in SlotRecords(i), SlotInv(s, i),
         s.phase \in StepPhases \cup IdentifiedPhases,
         NEW type, s.phase = "Identify" => type \in ModuleTypes
  PROVE  LET t == ApplySuccess(s, i, type)
         IN  Same(s, t) \/ ResultShows(s, t, i)
<1> DEFINE t == ApplySuccess(s, i, type)
<1>1. s.phase \in StepPhases => State(s) = "Enumerating"
  BY DEF State, PublicOf, StepPhases, IdentifiedPhases
<1>2. CASE s.phase \in IdentifiedPhases
  <2>1. t = [s EXCEPT !.fails = 0]
    BY <1>2 DEF ApplySuccess, IdentifiedPhases
  <2>2. QED
    BY <2>1 DEF Same, State, SlotRecords
<1>3. CASE s.phase = "ProbeDefault"
  <2>1. t = EnterStep(s, "SetAddress")
    BY <1>3 DEF ApplySuccess, IdentifiedPhases
  <2>2. QED
    BY <1>3, <2>1 DEF EnterStep, Same, State, PublicOf, SlotRecords, IdentifiedPhases
<1>4. CASE s.phase = "RecoverProbeDefault"
  <2>1. t = EnterStep(ForgetIdentity(s), "SetAddress")
    BY <1>4 DEF ApplySuccess, IdentifiedPhases
  <2>2. t.phase = "SetAddress" /\ t.type = NoType /\ t.address = NoAddress /\ t.epoch = s.epoch
    BY <2>1 DEF EnterStep, ForgetIdentity, SlotRecords
  <2>3. State(t) = "Enumerating"
    BY <2>2 DEF State, PublicOf, IdentifiedPhases
  <2>4. QED
    BY <1>1, <1>4, <2>2, <2>3 DEF ResultShows, StepPhases
<1>5. CASE s.phase = "SetAddress"
  <2>1. t = EnterStep([s EXCEPT !.committed = SlotAddress(i)], "VerifyAssigned")
    BY <1>5 DEF ApplySuccess, IdentifiedPhases
  <2>2. QED
    BY <1>5, <2>1 DEF EnterStep, Same, State, PublicOf, SlotRecords, IdentifiedPhases
<1>6. CASE \/ s.phase \in {"VerifyAssigned", "ProbeAssigned"}
           \/ s.phase = "RecoverProbeAssigned" /\ s.type = NoType
  <2>1. /\ t.phase = "Identify" /\ t.type = s.type /\ t.epoch = s.epoch
        /\ t.address = SlotAddress(i)
    <3>1. CASE s.phase = "VerifyAssigned"
      <4>1. t = EnterStep(ReleaseMod([s EXCEPT !.address = s.committed]), "Identify")
        BY <3>1 DEF ApplySuccess, IdentifiedPhases
      <4>2. s.committed = SlotAddress(i)
        BY <3>1 DEF SlotInv, CommittedPhases
      <4>3. QED
        BY <4>1, <4>2 DEF EnterStep, ReleaseMod, SlotRecords
    <3>2. CASE s.phase = "ProbeAssigned"
      <4>1. t = EnterStep(ReleaseMod([s EXCEPT !.committed = SlotAddress(i),
                                               !.address = SlotAddress(i)]), "Identify")
        BY <3>2 DEF ApplySuccess, IdentifiedPhases
      <4>2. QED
        BY <4>1 DEF EnterStep, ReleaseMod, SlotRecords
    <3>3. CASE s.phase = "RecoverProbeAssigned" /\ s.type = NoType
      <4> DEFINE a == IF s.address = NoAddress THEN s.committed ELSE s.address
      <4>1. t = EnterStep(ReleaseMod([s EXCEPT !.address = a]), "Identify")
        BY <3>3 DEF ApplySuccess, IdentifiedPhases, RecoverAtAddress
      <4>2. a = SlotAddress(i)
        BY <3>3 DEF SlotInv, CommittedPhases, SlotRecords
      <4> HIDE DEF a
      <4>3. QED
        BY <4>1, <4>2 DEF EnterStep, ReleaseMod, SlotRecords
    <3>4. QED
      BY <1>6, <3>1, <3>2, <3>3
  <2>2. State(t) = "Enumerating"
    BY <2>1 DEF State, PublicOf, IdentifiedPhases
  <2>3. QED
    BY <1>1, <1>6, <2>1, <2>2 DEF ResultShows, StepPhases
<1>7. CASE s.phase = "RecoverProbeAssigned" /\ s.type # NoType
  <2>1. t = [ReleaseMod(s) EXCEPT !.fails = 0,
               !.phase = IF s.prior = "Unsupported" THEN "Unsupported" ELSE "Online"]
    BY <1>7 DEF ApplySuccess, IdentifiedPhases, RecoverAtAddress
  <2>2. /\ t.phase = IF s.prior = "Unsupported" THEN "Unsupported" ELSE "Online"
        /\ t.type = s.type /\ t.address = s.address /\ t.epoch = s.epoch
    BY <2>1 DEF ReleaseMod, SlotRecords
  <2>3. /\ s.address = SlotAddress(i)
        /\ s.type \in KnownTypes <=> s.prior = "Online"
        /\ s.prior \in {"Online", "Unsupported"}
    BY <1>7 DEF SlotInv, SlotRecords, IdentifiedPhases
  <2>4. State(t) = Identified(s.type)
    BY <2>2, <2>3 DEF State, PublicOf, IdentifiedPhases, Identified
  <2>5. QED
    BY <1>1, <1>7, <2>2, <2>3, <2>4 DEF ResultShows, StepPhases
<1>8. CASE s.phase = "Identify"
  <2>1. t = ApplyIdentity(s, type)
    BY <1>8 DEF ApplySuccess, IdentifiedPhases
  <2>2. /\ t.phase = Identified(type) /\ t.type = type /\ t.address = s.address
        /\ t.epoch = (s.epoch + 1) % EpochModulus
    BY <2>1 DEF ApplyIdentity, Identified, SlotRecords
  <2>3. s.address = SlotAddress(i)
    BY <1>8 DEF SlotInv
  <2>4. State(t) = Identified(type)
    BY <2>2 DEF State, PublicOf, IdentifiedPhases, Identified
  <2>5. QED
    BY <1>1, <1>8, <2>2, <2>3, <2>4 DEF ResultShows, StepPhases
<1>9. QED
  BY <1>2, <1>3, <1>4, <1>5, <1>6, <1>7, <1>8 DEF StepPhases

LEMMA FailureShowsOneStep ==
  ASSUME NEW i \in Nat, NEW s \in SlotRecords(i),
         s.phase \in StepPhases \cup IdentifiedPhases, NEW status
  PROVE  LET t == ApplyFailure(s, status)
         IN  Same(s, t) \/ ResultShows(s, t, i)
<1> DEFINE t == ApplyFailure(s, status)
<1>1. CASE s.phase \in IdentifiedPhases
  <2>1. t = IF status = "Busy" THEN s ELSE NoteHealthFail(s, status)
    BY <1>1 DEF ApplyFailure, IdentifiedPhases, StepPhases
  <2>2. /\ t.type = s.type /\ t.address = s.address /\ t.epoch = s.epoch
        /\ t.phase \in {s.phase, "RecoverWaitLock"}
    BY <2>1 DEF NoteHealthFail, SlotRecords
  <2> HIDE DEF t
  <2>3. State(s) \in IdentifiedPhases /\ State(t) \in {State(s), "Enumerating"}
    BY <1>1, <2>2, PublicStates DEF State, LockPhases
  <2>4. QED
    BY <2>2, <2>3 DEF Same, ResultShows, t
<1>2. CASE s.phase \in StepPhases
  <2>1. /\ t.type = s.type /\ t.address = s.address /\ t.epoch = s.epoch
        /\ t.phase \in StepPhases \cup {"Fault"}
    <3>1. /\ s.phase \notin IdentifiedPhases
          /\ {"RecoverProbeAssigned", "ProbeAssigned"} \subseteq StepPhases
      BY <1>2 DEF StepPhases, IdentifiedPhases
    <3>2. \/ t = EnterStep(s, "RecoverProbeAssigned")
          \/ t = EnterStep([s EXCEPT !.fault = status], "ProbeAssigned")
          \/ t = RetryLater(s, status)
          \/ t = EnterFault(s, status)
          \/ t = s
      BY <3>1 DEF ApplyFailure, NoteAttemptFail
    <3> HIDE DEF t
    <3>3. CASE t = EnterStep(s, "RecoverProbeAssigned")
      BY <3>1, <3>3 DEF EnterStep, SlotRecords
    <3>4. CASE t = EnterStep([s EXCEPT !.fault = status], "ProbeAssigned")
      BY <3>1, <3>4 DEF EnterStep, SlotRecords
    <3>5. CASE t = RetryLater(s, status)
      BY <1>2, <3>5 DEF RetryLater, SlotRecords
    <3>6. CASE t = EnterFault(s, status)
      BY <3>6 DEF EnterFault, ReleaseMod, SlotRecords
    <3>7. QED
      BY <1>2, <3>2, <3>3, <3>4, <3>5, <3>6
  <2> HIDE DEF t
  <2>2. State(s) = "Enumerating" /\ State(t) \in {"Enumerating", "Fault"}
    BY <1>2, <2>1, PublicStates DEF State, LockPhases, EnumerationPhases
  <2>3. QED
    BY <2>1, <2>2 DEF Same, ResultShows, t
<1>3. QED
  BY <1>1, <1>2

\* The effect of a step on what slot i shows.
Shows(s, t, i) == Same(s, t) \/ PinsShow(s, t) \/ ResultShows(s, t, i)

\* A change that does not show may precede or follow one that does.
LEMMA SameShows ==
  ASSUME NEW i, NEW s, NEW t, NEW u
  PROVE  /\ Same(s, t) /\ Same(t, u) => Same(s, u)
         /\ Same(s, t) /\ ResultShows(t, u, i) => ResultShows(s, u, i)
         /\ PinsShow(s, t) /\ Same(t, u) => PinsShow(s, u)
         /\ Shows(s, t, i) /\ Same(t, u) => Shows(s, u, i)
BY DEF Same, PinsShow, ResultShows, Shows

LEMMA ReconcileShows ==
  ASSUME NEW sl, Controllers(sl), NEW o, NEW o2, NEW i \in Slots
  PROVE  LET t == Reconciled(sl, o, o2)[i]
         IN  Same(sl[i], t) /\ (Resting(sl[i]) => Resting(t))
<1>1. i \in Nat /\ sl[i] \in SlotRecords(i)
  BY SlotNumbers DEF Controllers
<1>2. Reconciled(sl, o, o2)[i] \in {GainEnumLock(sl[i]), LoseEnumLock(sl[i]), sl[i]}
  BY DEF Reconciled
<1>3. Same(sl[i], sl[i])
  BY DEF Same
<1>4. QED
  BY <1>1, <1>2, <1>3, LockDoesNotShow

\* The controllers after the pins were read.
LEMMA PinnedGood ==
  ASSUME HostInv, NEW E \in SUBSET Slots
  PROVE  /\ Controllers(Pinned(E))
         /\ \A i \in Slots :
              LET t == Pinned(E)[i]
              IN  Same(slots[i], t) \/ (PinsShow(slots[i], t) /\ Resting(t))
<1> DEFINE q == Pinned(E)
<1>1. ASSUME NEW i \in Slots
      PROVE  /\ q[i] \in SlotRecords(i) /\ SlotInv(q[i], i)
             /\ Same(slots[i], q[i]) \/ (PinsShow(slots[i], q[i]) /\ Resting(q[i]))
  <2>1. /\ i \in Nat
        /\ slots[i] \in SlotRecords(i)
        /\ SlotInv(slots[i], i)
        /\ sense[i] \in BOOLEAN
    BY SlotNumbers DEF HostInv, Controllers, TypeOK
  <2>2. PICK elapsed \in BOOLEAN : q[i] = UpdatePins(slots[i], sense[i], elapsed)
    BY DEF Pinned, UpdatePins, DebounceAbsence
  <2> DEFINE t == UpdatePins(slots[i], sense[i], elapsed)
  <2>3. t \in SlotRecords(i) /\ SlotInv(t, i)
    BY <2>1, PinsKeep
  <2>4. Same(slots[i], t) \/ (PinsShow(slots[i], t) /\ Resting(t))
    BY <2>1, PinsShowOneStep
  <2>5. QED
    BY <2>2, <2>3, <2>4
<1>2. q = [i \in Slots |-> q[i]]
  BY DEF Pinned
<1>3. QED
  BY <1>1, <1>2 DEF Controllers

\* A slot that shows something new before the transaction rests in it.
LEMMA PreparedShows ==
  ASSUME HostInv, NEW E \in SUBSET Slots, NEW p \in Prepared(E), NEW i \in Slots
  PROVE  \/ Same(slots[i], p.sl[i])
         \/ PinsShow(slots[i], p.sl[i]) /\ Resting(p.sl[i])
<1> DEFINE q == Pinned(E)
<1>1. PICK o \in NextOwners(q, lockOwner) : p.sl = Reconciled(q, lockOwner, o)
  BY DEF Prepared
<1>2. /\ Controllers(q)
      /\ Same(slots[i], q[i]) \/ (PinsShow(slots[i], q[i]) /\ Resting(q[i]))
  BY PinnedGood
<1> HIDE DEF q
<1>3. Same(q[i], p.sl[i]) /\ (Resting(q[i]) => Resting(p.sl[i]))
  BY <1>1, <1>2, ReconcileShows
<1>4. QED
  BY <1>2, <1>3, SameShows

\* The result of a transaction of slot i shows in that slot only.
LEMMA AppliedShows ==
  ASSUME NEW sl, Controllers(sl), NEW i \in Slots,
         sl[i].phase \in StepPhases \cup IdentifiedPhases, NEW status, NEW type,
         sl[i].phase = "Identify" /\ status = "None" => type \in ModuleTypes
  PROVE  LET r == Applied(sl, i, status, type)
         IN  /\ Same(sl[i], r[i]) \/ ResultShows(sl[i], r[i], i)
             /\ \A j \in Slots \ {i} : r[j] = sl[j]
<1> DEFINE r == Applied(sl, i, status, type)
<1>1. i \in Nat /\ sl[i] \in SlotRecords(i) /\ SlotInv(sl[i], i)
  BY SlotNumbers DEF Controllers
<1>2. \A j \in Slots \ {i} : r[j] = sl[j]
  BY DEF Applied, Controllers
<1>3. CASE status = "None"
  <2>1. r[i] = ApplySuccess(sl[i], i, type)
    BY <1>3 DEF Applied, Controllers
  <2>2. QED
    BY <1>1, <1>2, <1>3, <2>1, SuccessShowsOneStep
<1>4. CASE status # "None"
  <2>1. r[i] = ApplyFailure(sl[i], status)
    BY <1>4 DEF Applied, Controllers
  <2>2. QED
    BY <1>1, <1>2, <2>1, FailureShowsOneStep
<1>5. QED
  BY <1>3, <1>4

\* A pass with a transaction of slot i: the pins, the lock, the result and the
\* lock again show as one step at most.
LEMMA TransactionShows ==
  ASSUME HostInv, NEW E \in SUBSET Slots, NEW p \in Prepared(E), NEW i \in Slots,
         p.sl[i].phase \in StepPhases \cup IdentifiedPhases,
         NEW status \in Failures \cup {"None"}, NEW type \in ModuleTypes \cup {NoType},
         p.sl[i].phase = "Identify" /\ status = "None" => type \in ModuleTypes,
         FinishPass(Applied(p.sl, i, status, type), p.owner)
  PROVE  \A j \in Slots : Shows(slots[j], slots'[j], j)
<1> DEFINE r == Applied(p.sl, i, status, type)
<1>1. Controllers(p.sl) /\ AllAgreed(p.sl, p.owner)
  BY PreparedGood
<1>2. Controllers(r)
  BY <1>1, AppliedGood
<1>3. /\ Same(p.sl[i], r[i]) \/ ResultShows(p.sl[i], r[i], i)
      /\ \A j \in Slots \ {i} : r[j] = p.sl[j]
  BY <1>1, AppliedShows
<1>4. PICK o2 \in NextOwners(r, p.owner) : slots' = Reconciled(r, p.owner, o2)
  BY DEF FinishPass
<1> HIDE DEF r
<1>5. ASSUME NEW j \in Slots
      PROVE  Shows(slots[j], slots'[j], j)
  <2>1. Same(slots[j], p.sl[j]) \/ (PinsShow(slots[j], p.sl[j]) /\ Resting(p.sl[j]))
    BY PreparedShows
  <2>2. Same(r[j], slots'[j])
    BY <1>2, <1>4, ReconcileShows
  <2>3. Shows(slots[j], r[j], j)
    <3>1. CASE j # i
      BY <1>3, <2>1, <3>1 DEF Shows
    <3>2. CASE j = i
      <4>1. Same(slots[i], p.sl[i])
        BY <2>1, <3>2 DEF Resting
      <4>2. QED
        BY <1>3, <3>2, <4>1, SameShows DEF Shows
    <3>3. QED
      BY <3>1, <3>2
  <2>4. QED
    BY <2>2, <2>3, SameShows
<1>6. QED
  BY <1>5

LEMMA UpdateShows ==
  ASSUME HostInv, NEW E \in SUBSET Slots, Update(E)
  PROVE  \A j \in Slots : Shows(slots[j], slots'[j], j)
<1>1. CASE IdlePass(E)
  <2>1. PICK p \in Prepared(E) : slots' = p.sl
    BY <1>1 DEF IdlePass
  <2>2. QED
    BY <2>1, PreparedShows DEF Shows
<1>2. CASE HealthPass(E)
  <2> PICK p \in Prepared(E) :
        \E i \in HealthCandidates(p.sl, E) :
          \E status \in Outcomes(i, Answering(p.sl, p.sl[i].address)) :
            FinishPass(Applied(p.sl, i, status, NoType), p.owner)
    BY <1>2 DEF HealthPass
  <2>1. PICK i \in HealthCandidates(p.sl, E) :
          \E status \in Outcomes(i, Answering(p.sl, p.sl[i].address)) :
            FinishPass(Applied(p.sl, i, status, NoType), p.owner)
    OBVIOUS
  <2>2. PICK status \in Failures \cup {"None"} :
          FinishPass(Applied(p.sl, i, status, NoType), p.owner)
    BY <2>1, HostAssumption DEF Outcomes, Failures
  <2>3. i \in Slots /\ p.sl[i].phase \in IdentifiedPhases /\ p.sl[i].phase # "Identify"
    BY DEF HealthCandidates, HealthDue, IdentifiedPhases
  <2>4. QED
    BY <2>2, <2>3, TransactionShows
<1>3. CASE EnumeratePass(E)
  <2>1. PICK p \in Prepared(E) :
          /\ EnumerationDue(p.sl, p.owner, E)
          /\ \E status \in Outcomes(p.owner,
                             Answering(p.sl, ProposedAddress(p.sl[p.owner], p.owner))) :
               \/ /\ p.sl[p.owner].phase # "Identify" \/ status # "None"
                  /\ FinishPass(Applied(p.sl, p.owner, status, NoType), p.owner)
               \/ \E j \in Answering(p.sl, ProposedAddress(p.sl[p.owner], p.owner)) :
                    FinishPass(Applied(p.sl, p.owner, status, module[j].type), p.owner)
    BY <1>3 DEF EnumeratePass
  <2> DEFINE o == p.owner
             takers == Answering(p.sl, ProposedAddress(p.sl[o], o))
  <2>2. PICK status \in Failures \cup {"None"} :
               \/ /\ p.sl[o].phase # "Identify" \/ status # "None"
                  /\ FinishPass(Applied(p.sl, o, status, NoType), o)
               \/ \E j \in takers : FinishPass(Applied(p.sl, o, status, module[j].type), o)
    BY <2>1, HostAssumption DEF Outcomes, Failures
  <2>3. AllAgreed(p.sl, o) /\ Remembers(module, identified, p.sl)
    BY PreparedGood
  <2>4. o \in Slots /\ p.sl[o].phase \in StepPhases
    BY <2>1, <2>3 DEF EnumerationDue, StepDue, AllAgreed
  <2>5. CASE /\ p.sl[o].phase # "Identify" \/ status # "None"
             /\ FinishPass(Applied(p.sl, o, status, NoType), o)
    BY <2>4, <2>5, TransactionShows
  <2>6. ASSUME NEW j \in takers, FinishPass(Applied(p.sl, o, status, module[j].type), o)
        PROVE  \A k \in Slots : Shows(slots[k], slots'[k], k)
    <3>1. module[j].type \in ModuleTypes
      BY <2>3, <2>6 DEF Answering, Remembers, Remembered
    <3>2. QED
      BY <2>4, <2>6, <3>1, TransactionShows
  <2>7. QED
    BY <2>2, <2>5, <2>6
<1>4. QED
  BY <1>1, <1>2, <1>3 DEF Update

\* Every step but a reset of the controller.
LEMMA NextShows ==
  ASSUME HostInv, [Next]_vars, ~ControllerReset
  PROVE  \A i \in Slots : Shows(slots[i], slots'[i], i)
<1>1. ASSUME \A i \in Slots : slots'[i] \in {slots[i], ReleaseMod(slots[i])}
      PROVE  \A i \in Slots : Shows(slots[i], slots'[i], i)
  <2>1. ASSUME NEW i \in Slots
        PROVE  Shows(slots[i], slots'[i], i)
    <3>1. i \in Nat /\ slots[i] \in SlotRecords(i)
      BY SlotNumbers DEF HostInv, Controllers
    <3>2. Same(slots[i], slots[i]) /\ Same(slots[i], ReleaseMod(slots[i]))
      BY <3>1, LockDoesNotShow DEF Same
    <3>3. QED
      BY <1>1, <3>2 DEF Shows
  <2>2. QED
    BY <2>1
<1>2. CASE \E E \in SUBSET Slots : Update(E)
  BY <1>2, UpdateShows
<1>3. CASE Begin \/ Quiesce \/ Resume
  BY <1>1, <1>3 DEF Begin, Quiesce, Resume
<1>4. CASE Environment
  BY <1>1, <1>4 DEF Environment, Plug, Unplug, ModuleRestart, SenseOpens, SenseCloses,
     CalmDown, hostVars
<1>5. CASE UNCHANGED vars
  BY <1>1, <1>5 DEF vars, hostVars
<1>6. QED
  BY <1>2, <1>3, <1>4, <1>5 DEF Next

\* What a slot shows is a step of its view, or none.
LEMMA ShowsIsStep ==
  ASSUME HostInv, NEW i \in Slots, Shows(slots[i], slots'[i], i)
  PROVE  [View(i)!Next]_(View(i)!vars)
<1> DEFINE s == slots[i]
           t == slots'[i]
<1>1. CASE Same(s, t)
  BY <1>1 DEF Same, View!vars
<1>2. CASE PinsShow(s, t)
  BY <1>2 DEF PinsShow, View!Next, View!PassStep, View!Seat, View!Unseat, View!Nothing,
     View!StartEnumerating
<1>3. CASE ResultShows(s, t, i)
  BY <1>3 DEF ResultShows, Identified, IdentifiedPhases, View!Next, View!PassStep,
     View!StartEnumerating, View!Assign, View!Identify, View!Recall, View!Forget,
     View!GiveUp, View!Nothing, View!Readable
<1>4. QED
  BY <1>1, <1>2, <1>3 DEF Shows

\* SlotsImplemented: the bus implements SlotView in every slot.  One pass reads the
\* pins, moves the lock, applies the result of a transaction and moves the lock
\* again (ModuleHost::update), and the readers see one step of the slot at most: a
\* type and an epoch never change apart, a slot under an old epoch only comes back
\* with the identity that epoch stands for, and an address is only ever that of
\* the slot.
THEOREM SlotsImplemented == Spec => SlotsKeepPromise
<1>1. Init => \A i \in Slots : View(i)!Init
  BY PublicStates DEF Init, View!Init, Fresh, State
<1>2. HostInv /\ [Next]_vars => \A i \in Slots : [View(i)!Next]_(View(i)!vars)
  <2> SUFFICES ASSUME HostInv, [Next]_vars
               PROVE  \A i \in Slots : [View(i)!Next]_(View(i)!vars)
    OBVIOUS
  <2>1. CASE ControllerReset
    <3>1. \A i \in Slots : View(i)!Reboot
      BY <2>1, PublicStates DEF ControllerReset, Fresh, State, View!Reboot, View!Nothing
    <3>2. QED
      BY <3>1 DEF View!Next
  <2>2. CASE ~ControllerReset
    BY <2>2, NextShows, ShowsIsStep
  <2>3. QED
    BY <2>1, <2>2
<1>3. QED
  BY <1>1, <1>2, Invariance, PTL DEF Spec, SlotsKeepPromise

=============================================================================
