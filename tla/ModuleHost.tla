----------------------------- MODULE ModuleHost -----------------------------
(***************************************************************************)
(* The four-slot I2C bus (ModuleHost.cpp): the host runs every slot        *)
(* controller, grants the enumeration lock, and issues at most one I2C     *)
(* transaction per pass.  The daughter modules, the SENSE contacts and the *)
(* noise on the bus are the environment.                                   *)
(*                                                                         *)
(* One pass of update() is one step: loop() is a single thread and nothing *)
(* else writes this state.  Between two passes a hand, a reset or a        *)
(* programming session may do anything.                                    *)
(***************************************************************************)
EXTENDS SlotController

CONSTANTS
  NumSlots,    \* 4 on the board
  Noise,       \* the failures a disturbed transaction may be classified as
  Noisy,       \* slots whose transactions may be disturbed until things calm down
  Broken,      \* slots whose module keeps failing even then
  BriefGaps    \* slots whose SENSE can read absent for less than the debounce

Slots == 0 .. NumSlots - 1
NoOwner == -1

ASSUME HostAssumption ==
  /\ NumSlots \in Nat \ {0}
  /\ Noise \subseteq Failures
  /\ Noisy \subseteq Slots
  /\ Broken \subseteq Slots
  /\ BriefGaps \subseteq Slots

VARIABLES
  started,     \* begin() has run
  quiesced,    \* a programming session owns the shared pins
  slots,       \* the slot controllers
  lockOwner,   \* the slot holding the enumeration lock, or NoOwner
  nextHealth,  \* _nextHealthSlot, where the search for a health ping starts
  sense,       \* whether the SENSE pin of a slot reads "seated"
  module,      \* the daughter in each slot
  identified,  \* history: the daughter in the slot, since it was last powered
               \* up, is the one whose identity the controller stores
  calm         \* no more plugging, resets, noise or programming sessions

hostVars == <<started, quiesced, slots, lockOwner, nextHealth>>
envVars == <<sense, module, identified, calm>>
vars == <<hostVars, envVars>>

\* An empty slot and a module that has just been powered.
NoModule == [powered |-> FALSE, address |-> NoAddress, type |-> NoType]
PoweredUp(type) == [powered |-> TRUE, address |-> Unconfigured, type |-> type]

Modules == [powered : BOOLEAN, type : ModuleTypes \cup {NoType},
            address : {NoAddress, Unconfigured} \cup {SlotAddress(i) : i \in Slots}]

-----------------------------------------------------------------------------
(* _reconcileLock, on the controllers sl and the owner o                   *)

Waiting(sl) == {i \in Slots : WantsEnumLock(sl[i])}

KeepsLock(sl, o) == o # NoOwner /\ o \in Waiting(sl)

\* The owner keeps the lock while it wants it; a free lock goes to the
\* lowest slot that wants it.
NextOwners(sl, o) ==
  IF KeepsLock(sl, o) THEN {o}
  ELSE IF Waiting(sl) = {} THEN {NoOwner}
  ELSE {i \in Waiting(sl) : \A j \in Waiting(sl) : i <= j}

\* The controllers told about the lock going from o to o2.
Reconciled(sl, o, o2) ==
  [i \in Slots |-> IF i = o2 /\ ~KeepsLock(sl, o) THEN GainEnumLock(sl[i])
                   ELSE IF i = o /\ i # o2 THEN LoseEnumLock(sl[i])
                   ELSE sl[i]]

-----------------------------------------------------------------------------
(* The bus.  A daughter answers at the unconfigured address only while its *)
(* MOD line is low, and at the address it was given at any time.           *)

Answering(sl, address) ==
  {j \in Slots : /\ module[j].powered
                 /\ module[j].address = address
                 /\ address = Unconfigured => sl[j].mod}

\* Whether a transaction of slot i may go wrong.
Disturbed(i) == i \in Broken \/ (~calm /\ i \in Noisy)

\* How the host may classify a transaction of slot i that `takers' answer.
Outcomes(i, takers) ==
  (IF takers = {} THEN {"Nack"} ELSE {"None"})
    \cup (IF Disturbed(i) THEN Noise ELSE {})

\* The daughters that act on a SET_ADDRESS: an error seen by the host does
\* not tell whether the frame arrived, and a broken frame is acknowledged
\* byte by byte before the daughter drops it.
Effects(i, takers) ==
  {takers} \cup (IF Disturbed(i) THEN {{}} ELSE {})

\* The daughters listening after SlotAddress(i) was set on `takers'.
Addressed(i, takers) ==
  [j \in Slots |-> IF j \in takers THEN [module[j] EXCEPT !.address = SlotAddress(i)]
                                   ELSE module[j]]

-----------------------------------------------------------------------------
(* update()                                                                *)

\* The slots whose controller reads its timer as run out: E.
Pinned(E) == [i \in Slots |-> UpdatePins(slots[i], sense[i], i \in E)]

HealthCandidates(sl, E) == {i \in Slots : HealthDue(sl[i], i \in E)}

EnumerationDue(sl, o, E) == o # NoOwner /\ StepDue(sl[o], o \in E)

\* Position of slot i in the walk that starts at _nextHealthSlot.
WalkFrom(i) == (i + NumSlots - nextHealth) % NumSlots

\* Faulty variant: the walk starts at the slot that was just served.
WalkAgain(i) == i

\* Where the next walk starts after a ping of slot i.
WalkAfter(i) == (i + 1) % NumSlots

\* The controllers and the lock owner after the pins were read and the lock
\* reconciled: what the pass chooses its transaction from.
Prepared(E) ==
  {[sl |-> Reconciled(Pinned(E), lockOwner, o), owner |-> o] :
     o \in NextOwners(Pinned(E), lockOwner)}

\* The lock changes hands again after the result was applied.
FinishPass(sl, o) ==
  \E o2 \in NextOwners(sl, o) :
    /\ lockOwner' = o2
    /\ slots' = Reconciled(sl, o, o2)

\* A pass that finds no transaction due.
IdlePass(E) ==
  /\ started /\ ~quiesced
  /\ UNCHANGED <<started, quiesced, nextHealth, envVars>>
  /\ \E p \in Prepared(E) :
       /\ ~EnumerationDue(p.sl, p.owner, E)
       /\ HealthCandidates(p.sl, E) = {}
       /\ lockOwner' = p.owner
       /\ slots' = p.sl

\* The transaction of slot i ended with `status'.
Applied(sl, i, status, type) ==
  [sl EXCEPT ![i] = IF status = "None" THEN ApplySuccess(@, i, type)
                                       ELSE ApplyFailure(@, status)]

\* A pass whose transaction is the enumeration step of the lock owner.
EnumeratePass(E) ==
  /\ started /\ ~quiesced
  /\ UNCHANGED <<started, quiesced, nextHealth, sense, calm>>
  /\ \E p \in Prepared(E) :
       LET o == p.owner
           sl == p.sl
           takers == Answering(sl, ProposedAddress(sl[o], o))
       IN  /\ EnumerationDue(sl, o, E)
           /\ \E status \in Outcomes(o, takers) :
                \/ /\ sl[o].phase = "SetAddress"
                   /\ \E acting \in Effects(o, takers) : module' = Addressed(o, acting)
                   /\ FinishPass(Applied(sl, o, status, NoType), o)
                   /\ UNCHANGED identified
                \/ /\ sl[o].phase = "Identify" /\ status = "None"
                   /\ \E j \in takers :
                        /\ FinishPass(Applied(sl, o, status, module[j].type), o)
                        /\ identified' = [identified EXCEPT ![o] = (j = o)]
                   /\ UNCHANGED module
                \/ /\ sl[o].phase # "SetAddress"
                   /\ ~(sl[o].phase = "Identify" /\ status = "None")
                   /\ FinishPass(Applied(sl, o, status, NoType), o)
                   /\ UNCHANGED <<module, identified>>

\* A pass whose transaction is the first due health ping of the walk.
HealthPass(E) ==
  /\ started /\ ~quiesced
  /\ UNCHANGED <<started, quiesced, envVars>>
  /\ \E p \in Prepared(E) :
       /\ ~EnumerationDue(p.sl, p.owner, E)
       /\ \E i \in HealthCandidates(p.sl, E) :
            /\ \A j \in HealthCandidates(p.sl, E) : WalkFrom(i) <= WalkFrom(j)
            /\ \E status \in Outcomes(i, Answering(p.sl, p.sl[i].address)) :
                 FinishPass(Applied(p.sl, i, status, NoType), p.owner)
            /\ nextHealth' = WalkAfter(i)

Update(E) == IdlePass(E) \/ EnumeratePass(E) \/ HealthPass(E)

-----------------------------------------------------------------------------
(* begin(), quiesce(), resume() and a controller reset                     *)

Begin ==
  /\ ~started
  /\ started' = TRUE
  /\ slots' = [i \in Slots |-> ReleaseMod(slots[i])]
  /\ UNCHANGED <<quiesced, lockOwner, nextHealth, envVars>>

Quiesce ==
  /\ ~calm
  /\ quiesced' = TRUE
  /\ slots' = IF started THEN [i \in Slots |-> ReleaseMod(slots[i])] ELSE slots
  /\ UNCHANGED <<started, lockOwner, nextHealth, envVars>>

Resume ==
  /\ quiesced
  /\ quiesced' = FALSE
  /\ UNCHANGED <<started, slots, lockOwner, nextHealth, envVars>>

\* The controller reboots: the daughters keep their power and their address.
ControllerReset ==
  /\ ~calm
  /\ started' = FALSE
  /\ quiesced' = FALSE
  /\ slots' = [i \in Slots |-> Fresh]
  /\ lockOwner' = NoOwner
  /\ nextHealth' = 0
  /\ identified' = [i \in Slots |-> FALSE]
  /\ UNCHANGED <<sense, module, calm>>

\* exchange(): the command goes to the address of an online slot of the type.
ExchangeAllowed(i, type) ==
  /\ ~quiesced
  /\ State(slots[i]) = "Online"
  /\ slots[i].type = type
  /\ slots[i].address # NoAddress

-----------------------------------------------------------------------------
(* The environment                                                         *)

\* A hand is slower than the absence debounce, except in a slot of BriefGaps.
SeenAbsent(i) == i \in BriefGaps \/ ~slots[i].absent

Plug(i, type) ==
  /\ ~calm
  /\ ~module[i].powered
  /\ SeenAbsent(i)
  /\ module' = [module EXCEPT ![i] = PoweredUp(type)]
  /\ sense' = [sense EXCEPT ![i] = TRUE]
  /\ UNCHANGED <<hostVars, identified, calm>>

Unplug(i) ==
  /\ ~calm
  /\ module[i].powered
  /\ module' = [module EXCEPT ![i] = NoModule]
  /\ sense' = [sense EXCEPT ![i] = FALSE]
  /\ identified' = [identified EXCEPT ![i] = FALSE]
  /\ UNCHANGED <<hostVars, calm>>

\* The daughter reboots in its slot: its address is gone.
ModuleRestart(i) ==
  /\ ~calm
  /\ module[i].powered
  /\ module' = [module EXCEPT ![i] = PoweredUp(@.type)]
  /\ identified' = [identified EXCEPT ![i] = FALSE]
  /\ UNCHANGED <<hostVars, sense, calm>>

\* The contact of a powered module opens for a moment.
SenseOpens(i) ==
  /\ ~calm
  /\ i \in BriefGaps
  /\ module[i].powered
  /\ sense' = [sense EXCEPT ![i] = FALSE]
  /\ UNCHANGED <<hostVars, module, identified, calm>>

SenseCloses(i) ==
  /\ ~calm
  /\ module[i].powered
  /\ ~sense[i]
  /\ sense' = [sense EXCEPT ![i] = TRUE]
  /\ UNCHANGED <<hostVars, module, identified, calm>>

CalmDown ==
  /\ ~calm
  /\ calm' = TRUE
  /\ \A i \in Slots : sense[i] = module[i].powered
  /\ UNCHANGED <<hostVars, sense, module, identified>>

Environment ==
  \/ \E i \in Slots, type \in ModuleTypes : Plug(i, type)
  \/ \E i \in Slots : Unplug(i)
  \/ \E i \in Slots : ModuleRestart(i)
  \/ \E i \in Slots : SenseOpens(i)
  \/ \E i \in Slots : SenseCloses(i)
  \/ CalmDown

-----------------------------------------------------------------------------
Init ==
  /\ started = FALSE
  /\ quiesced = FALSE
  /\ slots = [i \in Slots |-> Fresh]
  /\ lockOwner = NoOwner
  /\ nextHealth = 0
  /\ sense = [i \in Slots |-> FALSE]
  /\ module = [i \in Slots |-> NoModule]
  /\ identified = [i \in Slots |-> FALSE]
  /\ calm = FALSE

Next ==
  \/ \E E \in SUBSET Slots : Update(E)
  \/ Begin
  \/ Quiesce
  \/ Resume
  \/ ControllerReset
  \/ Environment

\* A pass in which the timer of slot i has run out, and one of them in which the
\* transaction is left to the health pings.
TimedPass(i) == \E E \in SUBSET Slots : i \in E /\ Update(E)
TimedHealthPass(i) == \E E \in SUBSET Slots : i \in E /\ HealthPass(E)

\* loop() runs for ever and every timer of a slot runs out.  A health timer
\* that has run out stays so until its ping, so it is found by one of the
\* passes that the waits of an enumeration (retry gap, fault wait) leave free.
\* The idle timeout ends a programming session.
Fairness ==
  /\ \A i \in Slots : WF_vars(TimedPass(i)) /\ SF_vars(TimedHealthPass(i))
  /\ WF_vars(Resume)

Spec == Init /\ [][Next]_vars
FairSpec == Spec /\ Fairness

-----------------------------------------------------------------------------
(* Correctness                                                             *)

\* Every variable stays in its type.
TypeOK ==
  /\ started \in BOOLEAN
  /\ quiesced \in BOOLEAN
  /\ slots = [i \in Slots |-> slots[i]]
  /\ \A i \in Slots : slots[i] \in SlotRecords(i)
  /\ lockOwner \in Slots \cup {NoOwner}
  /\ nextHealth \in Slots
  /\ sense \in [Slots -> BOOLEAN]
  /\ module \in [Slots -> Modules]
  /\ identified \in [Slots -> BOOLEAN]
  /\ calm \in BOOLEAN

\* LockAgreement: the host and the slots agree on who holds the enumeration
\* lock, and a slot that is in the middle of an enumeration step is the one
\* holding it (_reconcileLock against the phases a slot moves through by
\* itself, through a debounced absence too).
LockAgreement ==
  \A i \in Slots :
    /\ slots[i].lockHeld <=> lockOwner = i
    /\ slots[i].phase \in EnumerationPhases => lockOwner = i

\* SelectDiscipline: at most the lock owner's MOD line is low, and only from
\* the select to the answer at the slot address: every way out of an
\* enumeration (success, fault, unplug, quiesce, reset) releases the line.
SelectDiscipline ==
  \A i \in Slots :
    slots[i].mod =>
      /\ lockOwner = i
      /\ ~quiesced
      /\ slots[i].phase \in EnumerationPhases \ {"Identify"}

\* AddressesUnique: a module only ever listens at the unconfigured address or
\* at that of its own slot, so no two modules answer the same command, however
\* the enumerations of the slots, unplugging and lost answers interleave.
AddressesUnique ==
  \A i \in Slots : module[i].powered =>
                     module[i].address \in {Unconfigured, SlotAddress(i)}

\* ExchangeReachesIdentified: a command of a type poller is only ever acted on
\* by the module whose identity the slot stores, powered without a break since
\* it was read: a module that was swapped, rebooted or reprogrammed under a
\* slot that still shows Online does not answer at the stale address.
ExchangeReachesIdentified ==
  \A i \in Slots, type \in ModuleTypes :
    ExchangeAllowed(i, type) =>
      \A j \in Answering(slots, slots[i].address) :
        j = i /\ identified[i] /\ module[i].type = type

\* SnapshotCoherent: what the status text prints belongs together: an online
\* slot has a registered type and its own address, an unsupported one its
\* address, and a fault names the failure (writeSlotStatusBody), also after a
\* recovery that kept, lost or re-read the identity.
SnapshotCoherent ==
  \A i \in Slots :
    LET s == slots[i]
    IN  /\ State(s) \in IdentifiedPhases =>
             /\ s.address = SlotAddress(i) /\ s.committed = SlotAddress(i)
             /\ State(s) = "Online" <=> s.type \in KnownTypes
        /\ State(s) = "Fault" => s.fault # "None"
        /\ State(s) = "Empty" => s.address = NoAddress /\ s.type = NoType

\* Every slot read through the public getters behaves as SlotView promises.
View(i) == INSTANCE SlotView WITH
  state <- State(slots[i]), type <- slots[i].type, epoch <- slots[i].epoch,
  address <- slots[i].address, Address <- SlotAddress(i)

\* SlotsKeepPromise: the host implements SlotView in every slot, whatever the
\* other slots, the noise and the programming sessions do.
SlotsKeepPromise ==
  /\ \A i \in Slots : View(i)!Init
  /\ [][\A i \in Slots : [View(i)!Next]_(View(i)!vars)]_vars

\* SlotsShowTheirModules: once the disturbances are over, every slot shows what
\* is in it, whatever state they left it in: a working module is identified and
\* served, and a slot whose module is gone is Empty, although a broken module in
\* another slot keeps faulting, asking for the lock and failing its pings.
ShowsItsModule(i) ==
  IF module[i].powered THEN State(slots[i]) \in IdentifiedPhases /\ identified[i]
                       ELSE State(slots[i]) = "Empty"

SlotsShowTheirModules ==
  \A i \in Slots \ Broken : (calm /\ started) ~> ShowsItsModule(i)

\* LockMovesOn: no slot keeps the enumeration lock for ever.
\* docs/reference/module-bus.md: "The lock stays with that slot until identify
\* finishes and MOD is released. ... The lock then moves to the next waiting
\* slot."
LockMovesOn ==
  \A i \in Slots : (calm /\ started /\ lockOwner = i) ~> (lockOwner # i)
=============================================================================
