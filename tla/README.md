# Modular controller board firmware: a TLA+ model

The repository holds an irrigation controller: an ESP32-S3 main board with four
slots for daughter modules (sensors, solenoids, a pump) on one I2C bus. The
logic is in `src/Firmware` (`lib/Logic`, `lib/Drivers`, `lib/Interfaces`,
`src/main.cpp`); the rest of the repository is hardware design and produces no
behaviour to check. This directory models the firmware, part by part, in the
order of the plan below.

## Modules

| module | stands for | proved in |
|---|---|---|
| `SlotController` | one slot: `lib/Logic/Bus/SlotController.cpp` | |
| `ModuleHost` | the bus: `lib/Logic/Bus/ModuleHost.cpp`, and its environment | `ModuleHostProofs` |
| `SlotView` | abstract: what a slot promises to whoever reads it | |
| `PolledSlots` | the slots as the three pollers read them: `SlotView` for each, and who may fail | |
| `PumpPoller` | `lib/Logic/Pump/PumpPoller.cpp` and the pumps | `PumpProofs` |
| `PumpBridge` | extends `PumpPoller` by the publication of states: `PumpMqttBridge.cpp`, `PumpModule.cpp` | `PumpProofs` |
| `SolenoidFeed`, `SensorFeed` | abstract: what a poller shows its bridge of one slot | |
| `SolenoidPoller`, `SensorPoller` | the pollers of those names and the modules' outputs and inputs | `SolenoidPollerProofs`, `SensorPollerProofs` |
| `SolenoidBridge`, `SensorBridge` | the MQTT bridge of one slot, over any behaviour of the feed | `SolenoidBridgeProofs`, `SensorBridgeProofs` |
| `NetworkLink` | `WifiManager`, `NtpService`, `MqttService`, the pushes of `NetworkRuntime`, and `ModuleSlotPublisher` | `NetworkLinkProofs` |
| `ConfigStore` | the stored keys, the active record and the staged fields: `NetworkConfigRecord.cpp`, `NetworkRuntime.cpp` | |
| `MainLoop` | `src/main.cpp`, `ProgrammingSession.cpp`, the programming latch, the console's commands; extends `ConfigStore` | `MainLoopProofs` |
| `IspProgrammer`, `UpdiProgrammer` | the two programmers, each with the target it acts on | `MainLoopProofs` |
| `Programming` | the facade, with the session, the link check, the wires and the tool at the host | `MainLoopProofs` |
| `MC*` | constants, start states and steps of one run each | |

Each `.cfg` is one run and begins with the name of its module. `PROJECT.json` maps every definition to its source lines.

## Inventory

One thread runs everything: `loop()` (`src/main.cpp:259-343`) calls each part's
`update()` in a fixed order and nothing else writes their state (the Wi-Fi and
MQTT libraries hand over received messages inside those calls). Interleaving
therefore means: which part runs between which two passes of another one, and
what the outside (modules, network, console, power) does in between.

| component | state it keeps | operations | talks to |
|---|---|---|---|
| Slot controller | phase, timers, lock and MOD flags, retry and ping counters, identity, addresses, fault, identity epoch | `updatePinsAndState`, `notifyEnumLock`, `proposedI2c`, `applyI2cResult`, `releaseMod` | called by the host |
| Module host | the four controllers, lock owner, health rotation, quiesced flag | `begin`, `update`, `quiesce`, `resume`, `exchange`, `ping`, `echo` | I2C bus, SENSE and MOD pins; read by pollers and publisher |
| Slot publisher | last published slot texts, topic generation | `update` | reads slots, publishes over MQTT |
| Pump, solenoid, sensor pollers | per slot: epoch seen, cached value, retry count, next poll, intent, silence timer; demand and result queues | `command*`, `update` | host `exchange`; driven by the bridges |
| MQTT bridges (one per type) | subscriptions, published revisions, held results | `update`, `handleMessage` | MQTT service, pollers |
| Wi-Fi manager, MQTT service, NTP service | connection state, retry backoff | `begin`, `update`, `reconfigure`, `publish` | each other through `NetworkRuntime` |
| Network configuration | stored keys, running copy, topic prefix | load, save, apply | console, network parts |
| Programming session, ISP and UPDI programmers, latch | session kind, timers, persistent latch | `begin`, `update`, `_finish` | quiesces the host, owns the shared pins |
| Serial console | line buffer, pending request | `update`, `takeProgrammingRequest` | main loop, configuration |
| Main loop | startup flag, running link check | `setup`, `loop`, `startController` | all of the above |

Hard behaviours, and what makes each part correct:

* **Bus.** Unconfigured modules all listen at `0x0A` and are told apart only by
  their MOD line, so enumeration is serialised by a lock. It can be cut short
  anywhere: by an unplug, a bouncing contact, a lost answer, a rebooting module,
  a programming session or a reset of the controller (the modules then keep
  their address). Correct: one enumeration at a time and one selected module;
  no address given twice; a command is acted on only by the module it was meant
  for; what the slot shows belongs together; every slot ends up showing its
  module; no slot keeps the lock for ever.
* **Pollers.** Cached values go stale when an answer is lost or a module is
  swapped; a command must not outlive the silence window; retries are limited.
  Correct: after the window nothing is switched on, everything reachable ends
  off; a reader never publishes a value of the previous module.
* **Bridges.** Revisions, topic generations and held results decide what is
  published. Correct: each new state is published once the link is up.
* **Network.** Reconfiguration during a connection, growing backoff, key by key
  writes with a reset in between. Correct: nothing is published under old
  topics, retries restart quickly after success, the status of a slot reaches
  the broker, a controller runs what it would load again.
* **Programming.** The latch survives a reset; console and session timers race;
  tools break off and targets fall silent. Correct: the session is alone and
  ends only in silence, the latch does not outlive it, the bus is given back,
  what a tool was told of the target is true, and it is always answered.

All hazards, each at its line, are in `PROJECT.json`.

## Plan

1. `SlotController`, `ModuleHost`, `SlotView`, `ModuleHostProofs`: done. The bus
   comes first because every other part reads it.
2. `PumpPoller`, `PumpBridge` and their proofs: done. Pumps come next because a
   pump left on is the worst the controller can do.
3. `SolenoidPoller`, `SensorPoller`, their feeds and bridges: done.
4. `NetworkLink` with the slot publisher, `ConfigStore`: done, with proofs.
5. `MainLoop`: done, with proofs.
6. The two programmers and `Programming`: done.
7. Proofs for the parts that had none: the pollers and bridges of solenoids and
   sensors, `SlotsKeepPromise` of the bus, `EndsOnlyInSilence` of the main loop,
   `WiresReleased` of the programmers, the buffers of their parsers, and the answers
   of a tool that is not cut short (`AnswersFit` but for the data of a read): done.
   Of the safety properties `TargetHoldsWhatWasConfirmed` and the rest of
   `AnswersFit` are left to TLC, see below.
8. `FrameCodec`: a bounded check of the frame encoding, if it earns one.

## The bus model

`SlotController` is the record of one slot and operators on it, one per private
method; `ModuleHost` holds an array of them. A pass of `ModuleHost::update()` is
one step, because the code blocks until its transaction is over:

1. every slot reads its SENSE pin and timer (`UpdatePins`),
2. `_reconcileLock` (`NextOwners`, `Reconciled`; the two are `Prepared`),
3. at most one transaction: the lock owner's enumeration step
   (`EnumeratePass`) or else the first due health ping of the rotation
   (`HealthPass`), or none (`IdlePass`),
4. the result is applied and the lock reconciled again (`FinishPass`).

`Begin`, `Quiesce`, `Resume` are the functions of that name and
`ControllerReset` is a reboot. `Begin` may also happen while quiesced, and a
session may begin before `Begin` did: both are reachable from `main.cpp` or a
superset of it. `exchange()` changes no state of the bus; `ExchangeAllowed` is
its guard.

*Time.* In each phase the code compares the clock with one start time. The set
`E` of a pass holds the slots whose comparison says "elapsed"; it is arbitrary,
so every combination of durations and loop speeds is covered, and the safety
properties do not depend on the configured milliseconds.

*Absence.* `Phase::DebounceAbsent` with its `_phaseBeforeAbsent` is the pair of
`absent = TRUE` and the earlier phase.

*The outside.* A module answers at `0x0A` while its MOD line is low and at its
own address always; after power-up or a reboot its address is `0x0A`
(`docs/daughter/contract.md`). A transaction that is disturbed ends with one of
the failures in `Noise`, and a `SET_ADDRESS` then may or may not have taken
effect, and may also be acknowledged and dropped. Everything is allowed at any
time until `calm`, with one restriction: a hand that swaps a module is slower
than the absence debounce (`SeenAbsent`), except in slots of `BriefGaps`, where
module and contact may do what they like.

*`identified`* is a history variable: the module in the slot has been powered
without a break since the controller read its identity.

## The pump model

`PumpPoller` holds the record of each slot (`SlotRuntime` and `Intent` in one)
and one operator per private method. A pass, `Update`, is one step: sessions and
the command-absence window first (`Prepared`), then the first of the five
services that has work issues the one query of the pass, for its lowest slot.
`_serviceApply` also clears the sets that the cache matches, as far as its loop
comes (`Settled`). `commandState` and `commandReset` are the messages, which
arrive between passes. `PumpBridge` adds what `PumpModule::update()` runs after
the poller: the publications, each accepted or refused.

*The slots* move by `SlotView!PassStep`, at most one each between two passes of
the poller, as `ModuleHost` runs once per turn of the loop (`changed`). The run
`one_slot` shows that `ModuleHost` keeps `SlotView`.

*Time.* A due time is stored or not (0 is "none" or "always", by field), and a
pass finds any subset `E` of the stored ones passed. The window is `Idle`,
`Open` or `Closed`; an open one may close at any pass. With `WrapHits` a due
time may come out as 0.

*The outside.* `motor` is what a pump really does. A command or its answer may be
lost, and the poller cannot tell which; a pump may stop or fault by itself,
refuse a set, and keeps a fault until a reset. After `calm` nothing of this
happens, except that queries to slots of `Broken` may go on failing.
`wanted`, `issued` and `accepted` are history variables. Busy, Rejected and
Failed are one answer, as the poller treats them alike. A message is the command
it contains; its text is not parsed.

## The solenoid and sensor models

Both pollers have the form of `PumpPoller`: a pass is one step, the sessions
first (`Prepared...`), then the first service that has work issues the one query
of the pass. `SolenoidPoller` drives the outputs of a slot one by one with a
cursor (`_serviceApply`; `Settled` is the part of its loop that ends without a
query), polls them in turn, and after the window of command absence drives every
output off once per identification (`ArmAllOff`, and `RemindOff` when a poll finds
one on). `SensorPoller` answers the head of its queue of requested reads, learns
the count, and reads presence and value of each input in turn; both queues drop
as the code does. Outputs and inputs are numbered from 1. `board` and `inputs`
are what is really there; a board can be swapped for one of another count.

What a bridge reads of its poller is one record per output or input with a
revision. `SolenoidFeed` and `SensorFeed` say how it may change: forgotten as a
whole, learnt as a whole with nothing read, then stored one at a time with the
next revision. The poller runs check that every slot keeps it
(`FeedsKeepPromise`, `SamplesKeepPromise`), and the bridge modules extend it, so
that a bridge meets everything a poller may show without the poller's timers.
Every slot is treated alike and shares only the topic generation with the
others: one is modelled. Each publish of a pass is refused or accepted by itself
(the set of topics that goes through); `accepted` and `asked` are history.

## The network model

`Update` is `Network::update()`: Wi-Fi, NTP, MQTT in this order; `Publish` is the
publisher at the end of the same turn, but other steps may fall in between,
which only adds behaviours. `Begin`, `ApplyWifi` and `ApplyMqtt` are what
`NetworkRuntime` pushes at the start and at an apply. A wait is over or not, free
in every pass; the delays keep their values, in units of the initial one.
Statuses are snapshots of the slot and their text is what of a snapshot is
printed (`Body`). A publish the client accepts reaches the broker: with QoS 0 a
message can be lost with the link, see the observations.

## The main loop and the configuration

`MainLoop` cuts a pass of `loop()` where a reset may fall between two effects
(`pc`): the session, the end of a session, the delayed start, the console, the
record of a request, its session, the link check, the modules. Console lines are
their effect: staged, applied, requested. `Restart` keeps RTC memory (the latch),
`PowerCycle` does not, and `RestartInApply` is a reset between two keys. An apply
may fail at any of its keys (`Apply`). Time is counted in ticks; the two
timeouts are a few of them. `since` and `noticed` say what really happened since
the last byte and on the link, for `EndsOnlyInSilence`; a change of the link is
assumed to last until a pass of the session sees it. A store that cannot be
opened for reading is taken to hold nothing.

## The programmers

A programmer is a record, every handler of the class an operator from records to
records, and the target is part of the record: flash, EEPROM, fuse, page buffer,
keys, state of the wire. Bytes are numbers, so that data can look like a
protocol byte; a command is cut to the fields its handler uses, and a UPDI frame
to one number per field, with the checksum as a function of the others. A
conversation with the UPDI target is a sequence of instructions, and a fault may
hit those numbered in `FaultSteps`: an echo that differs, a target that loses the
wire, an answer lost on the way back after the target has done its part, a status
that stays busy. In the write of flash cells 2 to 5 (pages of four) the
instructions are

| instruction | flash write 2..5 | EEPROM write 101..102 |
|---|---|---|
| 1, 2 | system status, pointer | the same |
| 3 to 6 | pointer kept, NVM status, pointer back, repeat | the same |
| data | 7, 8 | 7 |
| pointer kept, commit, pointer back | 9, 10, 11 | 8, 9, 10 |
| 12 to 15, or 11 to 14 | as 3 to 6, for the second page | the same |
| data | 16, 17 | 15 |
| pointer kept, commit, pointer back | 18, 19, 20 | 16, 17, 18 |

and `FaultSteps = {1, 2, 4, 8, 10, 16}` fails it before anything is stored (1, 2, 4),
with bytes in the page buffer and the page not committed (8), with the first page
committed and the answer lost or, for EEPROM, the pointer not restored (10), and
in the second page with the first one written (16). The write of the fuse has its
commit at 4; a chip erase reads its key back at 2 and lets go of reset at 4; the
status the reset waits for is at 4 when the target is entered, and its buffer is
cleared at 10 (or 2).

`Programming` adds the facade, the session, the link check, and the tool, which
sends a command, waits for the answer, may break off in the middle of a command
and start again with sync requests, and believes what it was told: `host.sure`.
A session may end between any two passes. The ISP and the UPDI target are two
kinds of jumper setting; each session is run with the target it is made for. Two
bounds keep the states of the parts from multiplying: a UPDI target has either its
flash and EEPROM written (its fuse, known from before, must stay as it is) or its
fuse, not both (`May`); and the kind of target is changed only until the ISP
programmer has kept a page size or an address of a session (`Unused`), which the
other programmer never reads. After `MaxTrouble` (one fault, interrupted tool or
controller reset) the tool goes on for ever without another; ending a session and
resetting the target by hand are not counted.

## What the runs check

| run | instance | properties | result |
|---|---|---|---|
| `one_slot` | 1 slot, all five failures, 3 tries, 2 lost pings, a known type and two unknown ones (one with id 0), epoch modulo 3 | `TypeOK`, `ExchangeReachesIdentified`, `SnapshotCoherent`, `SlotsKeepPromise`, `SlotsShowTheirModules` | holds, 112 thousand states |
| `two_slots` | 2 slots, the module in the first never stops failing, one try | `LockAgreement`, `SelectDiscipline`, `AddressesUnique`, `SlotsShowTheirModules` | holds, 68 thousand states |
| `lock_stranded` | 2 slots, a contact that opens for a moment | `LockMovesOn` | violated |
| `one_pump` | 1 slot, pumps and another type, 2 tries, reboots | `OnOnlyWanted`, `PumpsFollow`, `SilenceTurnsOff` | holds, 40 thousand states |
| `bridge_state` | 1 slot, 1 try, revisions modulo 3, refused publishes, other topics, reboots; on is the only command and the pump follows it or not | `GoneIsShown`, `StateReachesBroker` | holds, 67 thousand states |
| `solenoid` | 1 slot, boards of 0 and 2 outputs, the second may be disconnected, 2 tries | `OnOnlyCommanded`, `FeedsKeepPromise`, `CommandApplied`, `AllOffInSilence` | holds, 157 thousand states |
| `solenoid_bridge` | boards of 1 and 2 outputs, revisions modulo 3 | `GoneOutputsHidden`, `ListFollowsModule`, `OutputStatesReachBroker`, `RequestAnswered` | holds, 86 thousand states |
| `sensor` | 1 slot, boards of 1 input, requests for 2, queues of 2, 2 tries | `SamplesKeepPromise`, `DemandsAnswered`, `ReadingsFollow` | holds, 257 thousand states |
| `sensor_bridge` | boards of 0 and 1 inputs, two values, a queue of 1 and a held answer | `GoneInputsHidden`, `InputListFollowsModule`, `ReadingsReachBroker` | holds, 184 thousand states |
| `network` | 2 device ids, 3 statuses, delays 1, 2, 3 in a width of 8 | `LinkTypeOK`, `SubscribedToCurrent`, `LinkRestored`, `StatusReachesBroker` | holds, 122 thousand states |
| `programmers` | 2 flash pages of 4, 2 EEPROM pages of 2, a fuse, UPDI writes across two pages of each memory and of the fuse, one fault (at instruction 1, 2, 4, 8, 10 or 16), interruption or reset | `TargetHoldsWhatWasConfirmed`, `AnswersFit`, `WiresReleased`, `HostIsAnswered` | holds, 429 thousand states |
| `main_loop` | 2 fields of 2 values, 2 requests, timeouts of 3 and 2 ticks | `StoreAgrees`, `SessionIsExclusive`, `EndsOnlyInSilence`, `ControllerRuns` | holds, 651 thousand states |

* `ExchangeReachesIdentified`: a command for an online slot is acted on by
  nobody, or by the module whose identity is stored. This is about modules
  swapped or rebooted under a slot that still shows `Online`: the newcomer has
  no address and does not listen to the stale one.
* `SnapshotCoherent`: state, type, both addresses and the fault tag agree.
* `SlotsKeepPromise`: each slot, seen through its getters, is a behaviour of
  `SlotView`. The point for the readers is that a slot becomes readable under an
  old epoch only with the identity that epoch stands for.
* `LockAgreement`, `SelectDiscipline`, `AddressesUnique`: host and controllers
  agree on the lock; MOD is low only for the owner, only before `GET_IDENTITY`,
  never in a session; a module listens at `0x0A` or its own slot's address.
* `SlotsShowTheirModules`: when the disturbances are over, a working module is
  identified and an emptied slot is `Empty`, even beside a module that faults
  for ever and keeps asking for the lock first.
* `OnOnlyWanted`, `OnOnlyCommanded`: an "on" only goes out while the last command
  of the slot, given since it last could not hold such a module, says so, and the
  window is open. Retries, refreshes, a reset, a module identified again: nothing
  revives an older one, and no output of a board of another size gets it.
* `PumpsFollow`: after the disturbances a pump that is not faulted does what its
  slot is to do. Lost answers leave the cache wrong and retries give up; the poll
  has to find it.
* `CommandApplied`: a command that waits for a module of its size sets every
  connected output. It starts from a cache that is true: the code skips an output
  whose cached state matches, and unlike a pump an output that was set against a
  wrong cache is only read again, not driven again.
* `SilenceTurnsOff`, `AllOffInSilence`: after the window everything reachable ends
  off, also what was on before a reboot or came with a board swapped in.
* `GoneIsShown`, `GoneOutputsHidden`, `GoneInputsHidden`: after a pass whose
  publishes were accepted, no reader is left with the state of something that is
  gone or not yet read again, not even from an answer that was held back.
* `StateReachesBroker`, `OutputStatesReachBroker`, `ReadingsReachBroker`: whatever
  was refused before and however often module and topics changed, what is
  published ends as what is stored. For inputs this is about a presence that
  agrees with the last reading (`Settled`).
* `ListFollowsModule`, `InputListFollowsModule`, `RequestAnswered`: a list on the
  broker is that of the module that is there, and a request for it is answered
  although publishes are refused and the module changes.
* `DemandsAnswered`, `ReadingsFollow`: requested reads do not starve the cycle nor
  the cycle them, and a request that cannot be answered is refused in its turn. A
  slot in enumeration at the head of the queue holds it up, as the code means it.
* `SubscribedToCurrent`: while the service accepts publishes the session listens
  under the prefix they go to. `LinkRestored`, `StatusReachesBroker`: from
  whatever outages, refusals and applies left behind, the link comes back and the
  broker ends with the present status under the present prefix. `LinkTypeOK` is a
  type invariant with one statement about time: a connected service has its delay
  back at the first value.
* `TargetHoldsWhatWasConfirmed`: every cell that answers declared erased or
  written holds just that, whatever the commands before were cut off or failed:
  a write that fails between two pages or with bytes in the page buffer is not
  confirmed, and the next tool's enter clears the buffer before another page is
  committed (the mutant leaves it, and a byte of one memory turns up in the other).
  There is one exception, and the property states it: a UPDI chip erase that was
  refused or never answered may have left its key with the target. The tool may
  then enter, write and be told OK, and the reset of its own leave erases all
  that. So from such an erase until one is confirmed (`host.wary`), a cell of
  flash or EEPROM that was confirmed holds what was confirmed or is blank, and
  nothing else; the fuse is not touched by it.
* `AnswersFit`, `HostIsAnswered`: a tool in step gets one answer per command, of
  its form; a tool that is out of step comes into step.
* `WiresReleased`: SPI and UART share a net and are never both on it; what a
  session or a check took it gives back, however it ended.
* `StoreAgrees`: what runs is what a reset would load, except for fields that are
  still staged; a save that failed half way hides nothing.
* `SessionIsExclusive`: a session has the bus, its own record, and neither a check
  nor another request beside it; the modules run only without all of these.
* `EndsOnlyInSilence`, `ControllerRuns`: a session ends after the idle time
  without a byte or the unplug time without a link it has had, and then the
  controller starts, if it had not, and serves its modules again.

*Bounds.* Counters are compared with their limits, never with each other: 2 or 3
tries and 2 pings reach "first", "middle" and "last". The slots meet only in the
lock, the rotation and the shared address, and each of these relates two slots
at a time, so two show every conflict of a pair; the theorems below cover any
number. The five failures differ to the code only as `Nack`, `Busy` and others.
An epoch modulo 3 wraps within a run; with modulus 1 (two-slot runs) it is
dropped because no property there looks at it. In the poller runs a modulus of 2
gives the epochs 1 (identified again: commands are repeated) and 0 (wrapped, which
equals a cleared session: they are not); 2 tries reach a first and a last one, and
`bridge_state` has 1 because the count of a failed read is nothing to the
bridge, and its pump does not move by itself, since a set that is not followed
gives the bridge every state anyhow. Revisions modulo 2 are always 1 once a state is stored and only do for
runs without a bridge; 3 is the least at which one state can be told from the
next. Slots only compete for the one query of a pass, and the poller properties
are stated per slot: the runs have one. Two outputs have a first and a last, and
one of them disconnected is skipped by the other's cursor; two inputs exceed the
state space with the queues, so the second only exists as a request that must be
refused. Queues of two overflow with the third request. Delays of 1, 2, 3 double,
are cut to the cap and stay there; the width is that of a doubled cap. Two
flash pages can be confused, and a page of four holds two words; the image has
bytes that are also the protocol's end mark, sync and start mark. One fault, or
one command cut short, is a sample of the troubles and not all of them: a fault
hits the second or the fifth instruction of a conversation, and a command is cut
in its middle or, for STK500, before its end mark (`Cuts`). A second trouble is
not modelled with the recovery of the first under way. Timeouts of 3 and 2 ticks
let either one come first. `CHECK_DEADLOCK` is on everywhere.

*Fairness.* `loop()` never stops, so for every slot a pass in which its timer
has run out happens again and again: weak fairness of `TimedPass`. Strong
fairness of `TimedHealthPass`: a health timer that has run out stays so until
its ping, and the passes between two tries or during a fault wait have no
enumeration step due, so the ping finds one. `Resume`: the idle timeout ends
every session. Nothing is assumed of modules, hands or noise but that they
settle (`calm`), which the property names.

For the pollers: fairness of `PassFor(i)` (`ModulePassFor(i)` with the pump
bridge; strong for the pumps, weak for the two others, where a pass for a slot
stays enabled while the slot has something due), a pass after `calm` in which
exactly the due times of slot `i` have passed. The loop runs for ever, a poll interval is thousands of turns, and
another slot needs at most a few passes before its own next due time, so such a
pass recurs. Whether an open window closes is left free: nothing is promised
about when. For the bridges over a feed: each output or input is stored again,
with every publish accepted (weak fairness of that pass); that the poller does so
is the cycle of its run.

For the network: passes recur in which the waits are over (strong, `Pass`), the
station comes up when it is asked to often enough, the clock is set, publishes
are taken once the network is calm. For the main loop: passes, ticks, and the end
of a link check that keeps running (strong: each pass of a check is one of a few
phases). For the programmers: passes while one is due, the port is read, the tool
reads its answers and sends its next sync request.

## Findings

* **A slot can hold the lock without using it** (`lock_stranded`).
  A slot waiting for the lock loses its contact for a moment, is granted the lock
  while the absence is being debounced (`notifyEnumLock` then does nothing else),
  and comes back to `WaitForLock` holding it. The host sees an owner that wants
  the lock and tells it nothing. No slot enumerates until that module is
  unplugged, against the statement of `docs/reference/module-bus.md:139` that the
  lock moves on. `two_slots` therefore has no brief gaps; `one_slot`, with one
  slot, can only meet the case when the lock is given in the same pass, and does
  not.

## Observations

Met while modelling; no run claims them, and the properties above are stated so
that they hold in spite of them.

Bus and pumps:

* `quiesce()` releases MOD and keeps phase and lock, so after a session the step
  that talks to `0x0A` goes out with the line released, unlike
  `docs/reference/module-bus.md:90`. The slot recovers by way of a fault.
* With a brief gap at a failing slot that is served first, a hand that keeps
  re-seating it keeps the other slot waiting; `two_slots` excludes that hand.
* A poll due on the millisecond at which the 32-bit clock is 0 is stored as "no
  poll" (`PumpPoller.cpp:701`). With a lost answer before it the pump is never
  turned off, against `docs/reference/pump-module.md:77`. It takes one millisecond
  in 49 days. `PumpPoller` has it as `WrapHits`, and `SilenceTurnsOff` fails with
  `WrapHits = TRUE` in `PumpPoller_one_pump.cfg`; safety is proved with it.
* A refresh that meets a fault or an "off" is dropped and only a set answered "on"
  arms the next one; a pump that came on while those answers were lost is on
  without a refresh until the next command, unlike line 77.
* Revisions restart for a module identified again while the bridge compares with
  the one before (`PumpMqttBridge.cpp:259`, `SolenoidMqttBridge.cpp:311-315`, the
  sensor bridge alike): a new state under an equal number is not published until
  the next read, against `docs/reference/pump-module.md:101`.

Sensors and solenoids:

* A held answer that is published marks the newest revision as published, so a
  newer reading waits for the next read. An answer waiting in the queue can be
  published after a newer reading.
* A presence that is stored after a refused publish is published as a reading.
* `docs/reference/solenoid-module.md:73` says extra tokens are ignored; the code
  (`SolenoidMqttBridge.cpp:272-275`) drops such a message.

Network and configuration:

* A QoS 0 publish that is accepted and lost with the link counts as published
  (`docs/reference/mqtt.md:188` says as much); a new `mqtt.host` does not make the
  publishers send again to the new broker.
* A failed save leaves a mixture of old and new keys that is loaded after a reset,
  while `docs/reference/configuration.md:7` speaks of the active record only.
* After a start without PSRAM the console still applies, and the active record
  then holds nothing but the applied fields.

Console and programmers:

* A second `check` while one runs is dropped without a word. Bytes behind a
  `program` line in the same read stay in the line buffer and prefix the next line.
* Page size and address survive an ISP session. ISP erases and writes are answered
  with OK also outside of programming mode, so a tool is only taken to believe
  them inside of it.
* UPDI answers OK to a descriptor, a GO and a sign-off without a target. A failed
  chip erase leaves its key pending, so the next reset erases. The write error bit
  of the NVM status is not read. For pages of 256 and more the page buffer is not
  cleared on entry.

## What is proved

`ModuleHostProofs` proves, with TLAPS, for every number of slots, every retry
and ping limit, every epoch modulus, any set of module types and any noise (the
assumptions `SlotAssumption` and `HostAssumption`, nothing else):

`TypeCorrect`, `LockAgreementHolds`, `SelectDisciplineHolds`,
`AddressesUniqueHolds`, `ExchangeReachesIdentifiedHolds`,
`SnapshotCoherentHolds`: `Spec => []P` for the property of that name.

All follow from `Invariance`, `Spec => []HostInv`. None of the properties is
inductive alone. `HostInv` adds to `TypeOK`:

* `Controllers`: what a slot knows in each phase (from `VerifyAssigned` on the
  address is committed, in `Identify` and the identified states it is the
  slot's own, a stored type has an address). `SnapshotCoherent` needs it because
  a recovery returns to `Online` without reading anything.
* `AllAgreed`: the lock flags and the owner agree, and a slot in an enumeration
  phase owns the lock.
* `MayDrive`: where MOD may be low. With the lock it gives `SelectDiscipline`,
  and that in turn that a `SET_ADDRESS` at `0x0A` reaches only the owner's
  module, hence `AddressesUnique`.
* `Remembers`: what the module in the slot has in common with what the
  controller remembers. `ExchangeReachesIdentified` rests on it: a module that
  listens at the slot's address while the slot is identified is the one whose
  identity is stored.

The lemmas go along the code: one per operator of `SlotController` (a pass of
the timer, an absence, a grant, a success, a failure), then one per action of
`ModuleHost`.

`SlotsImplemented` (`Spec => SlotsKeepPromise`) is the refinement: the bus
implements `SlotView` in every slot. A pass reads the pins, moves the lock, applies
the result of a transaction and moves the lock again, so that one step of the bus
is up to four of a slot. The argument is that at most one of them shows. What a
reading of the pins changes visibly leaves the slot in a phase without a step to
take (`Resting`), the lock shows nothing (`LockDoesNotShow`), and the result of a
transaction belongs to a slot that had a step to take. `PinsShow` and
`ResultShows` name what each may show, and each is a step of the view. `HostInv`
is needed for the last part: a slot that comes back under its old epoch has the
identity it stands for.

`PumpProofs` proves `PumpTypeCorrect` and `OnOnlyWantedHolds` for every
number of slots, retry limit, modulus, pattern of losses and poll interval (from
`PollerAssumption`). The invariant `PollerInv` adds `Wants` to both: a stored "on" stands
for a last command "on". It is needed because `OnOnlyWanted` only looks at the
query of the last step, while an "on" may lie pending over many. Along a pass, the
stages hand on `Allowed`: after `Prepared` every "on" left is wanted and the window
is open, and no later stage makes one (`AnsweredKeeps`, `SettledKeeps`). It also
proves `BridgeImplementsPoller` (`BridgeSpec => Spec`: the
bridge only reads, so `PollerInv` holds with it) and, with it, `GoneIsShownHolds`.
Its invariant adds that a slot of which nothing was accepted has published no
text, since `_publishSnapshots` only tells "unavailable" after an accepted publish.

`SolenoidPollerProofs` proves `OnOnlyCommandedHolds`, the type invariant and
`FeedsImplemented` (`Spec => FeedsKeepPromise`), for every number of slots and
outputs, every retry limit and modulus (`SolenoidAssumption`). `SolenoidInv` adds

* `IntentOK`: what is pending is the last command, because `OnOnlyCommanded` looks
  at the query only when it goes out;
* `SessionOK`: a cache with a count has as many outputs as the board in the slot,
  or the slot has changed since the last pass (then the pass drops the cache
  before it uses it). A command is as long as the cache, and the property speaks
  of the board, which may have been swapped in between;
* `Cursor`: an output is addressed within the cache.

For the refinement, `FeedMoves` lists the four ways a pass may change what a reader
sees of a slot. Only one slot is served in a pass and one query answered
(`OneSlotServed`), so that a pass shows at most one of them after the session was
synchronised; a session that is dropped and counted again in one pass is one step
of the feed, as the count replaces the list. `SensorPollerProofs` does the same for
`SamplesImplemented` and the types of the sensor poller, its queues included
(`Pushed`, `Handed`: they hold at most `QueueDepth` requests or answers).

`SolenoidBridgeProofs` and `SensorBridgeProofs` prove that nothing stays shown of
what is gone (`GoneOutputsAreHidden`, `GoneInputsAreHidden`), that a list is of the
module that is there (`ListIsOfTheModule`, `InputListIsOfTheModule`), and the type
invariants. `BridgeInv` adds `ShownOnlyIfPublished`: a topic that was never accepted
shows nothing. Without it a pass could leave an old state behind, because
`_publishSnapshots` only retracts what it remembers as accepted. The bridges are
over any behaviour of their feed, and `FeedsImplemented` and `SamplesImplemented`
say that the pollers are such behaviours.

`MainLoopProofs` proves `StoreIsAgreedWith` (`StoreAgrees`) and
`SessionsAreExclusive` (`SessionIsExclusive`), for every set of fields, values and
requests and every pair of timeouts (`ConfigAssumption`, `LoopAssumption`). The
first is inductive together with the types of the keys: a write-back of the
missing client id and a save, however cut, change what a start would load only in
fields that are staged.
The second needs what each `pc` says of latch, request, check and session, since
the property only looks at two of them. `SessionsEndInSilence` (`EndsOnlyInSilence`)
compares the timer of a session with what really happened on the line. `TimerInv`
says that the timer never runs ahead of the truth, but in two places: while bytes
wait at the port, and when the link has come back and no pass has seen it. In both
the next pass resets the timer before it looks at it; that order in
`ProgrammingSession::update` is what the proof is about.

The same module proves `WiresAreReleased` (`ProgrammingSpec => []WiresReleased`) for
every size of the memories, every set of commands with any data, and every cut,
fault, end and restart (`HostAssumption` of `Programming` only says what a command
is). `WiresInv` follows each programmer over a session. For ISP (`IspForm`): reset is
low, or a further try of programming enable is waited for, only with SPI on; so no
try after the end of a session can drive it. For UPDI (`OnTheWire`): in a session the
line is never given up and no check runs; outside of both, `UpdiReleased`. Every
handler is shown to keep this whatever its conversation did to the target: the
conversations are not looked into. A pass reads as many bytes as there are, and
its result is a function defined by recursion on their number. What holds after
each byte is proved by induction, from the first-order fact that a set of numbers
has a least element (`LeastOfASet`, `InductionOnSets`); that the recursive function
exists at all is proved the same way (`IspReadingExists`, `UpdiReadingExists`).

Two more theorems are about the buffers of the parsers, which take what any stream
of bytes puts into them. `IspPagesAreWhole` (`ProgrammingSpec => []PagesAreWhole`):
the ISP parser never stores beyond its buffers, and while a page is written and its
wait runs, the page is complete and the cursor of the EEPROM bytes within it.
`UpdiFramesAreWhole` (`ProgrammingSpec => []FramesAreWhole`): a frame never exceeds
the buffer, a command that a break has put off still has its whole frame, and no part
of a frame outlives its session. The invariants (`Buffered`, `Framed`) say for every
phase of the parsers what has been taken so far; in a wait or a break the parser is
back at its start with the buffer kept, and bytes that come in the meantime stay at
the port. These proofs assume that what is at the port are numbers (`ByteAssumption`
of `Programming`: sizes, the addresses of ISP memory commands and the image at the
cells the commands write); that a checksum is one is proved from its recursive
definition (`ChecksumIsAByte`).

The last two are about what the host hears. `UninterruptedToolIsAnswered` says that
as long as no tool goes away in the middle of a command (`[][~CutShort]`), each
command has one answer before the next one, of its own form and number, and nothing
comes unasked. That is `AnswersFit` without its premise that the host is in step, but
for a read, of whose answer everything but the data is proved (`AnswersInForm`). Faults
on the wire, sessions that end at any point, controller and target restarts are all
allowed. `SessionsStayInStep` says what a cut tool can do: nothing to the next session,
which begins in step whatever was left (`RestsInv`), and only a further cut gets it out.
`InStep` says what is at the port and in the programmer for the command the host waits
for: the frame unread and the programmer ready; or nothing at the port, and the answer
given or the wait or break running, with what has been answered so far. That a pass
takes the first to the second is the core of the proof (`CommandIsRead`,
`FrameIsAnswered`): a pass reads all the bytes of a command, and the parser's state
after the k-th byte is followed by induction on k, from the form of the frame
(`WriteFrame`, `BareForm`) and not its data. For ISP the two commands of a setup or
a memory access are followed through their concatenation, and the wait starts with
the last byte, so none is left at the port when `update()` stops reading. The theorem
assumes of the tool (`ToolAssumption` of `Programming`) that its pages and bodies fit
the buffers, that it asks for whole words of flash, and that its baud codes are those
of the protocol, or zero. `Oversize`, `OddRead` and the zero are the requests beyond
that which are modelled, and their answer is a refusal.

`NetworkLinkProofs` proves `DelaysAreBounded` (`LinkTypeOK`),
`PublishesWhereItListens` (`SubscribedToCurrent`), and `NotesAreRetained`: what the
publisher takes for published is what the broker holds under the present prefix.
The invariant of the first is the type invariant cut into its parts, with the
two about connected services; the doubling stays within the cap because the
width holds it (`LinkAssumption`). `NotesAreRetained` needs that an idle service
has seen no new prefix (`IdleIsSeen`).

## Only model-checked, and not modelled

* Liveness under fairness is checked by TLC only, as the prover does not handle
  it.
* `TargetHoldsWhatWasConfirmed`, and of `AnswersFit` the data of a read, are checked by
  TLC only. They depend on what a whole command makes of the target, page by page and
  bit by bit: a recursion over the words of a page or the pieces of a block, and masks
  of an address (`BitAnd`, a fold over sets of bits), whose arithmetic would need
  an induction over data for each memory and each conversation.
* `AnswersFit` after a tool was cut short in the middle of a command, in the same
  session, is checked by TLC only. Then the rest of a frame meets the beginning of
  another one, and whether the UPDI parser takes the two for a command depends on the
  value of a checksum, which for some `Image` it may have. Over every `Image` nothing
  excludes that; over the one of the run it does not happen.
* Left out of the bus model: `ping()` and `echo()` (they change no state of the
  host), firmware version and chip-select pin (stored and printed, never
  compared), text formatting, bytes of a frame (an answer is its classification).
* Left out of the poller and bridge models: the text of a message (a command is
  its parsed form, a malformed one does nothing), the refusal of a query whose
  slot holds another type (only active ones are queried), and the instants of
  window and timers. Busy, Rejected and Failed are one answer, as the pollers
  treat them alike.
* Left out of the network models: which values the console accepts, the text of
  topics and reports, the retries of the NTP client (nothing waits for them).
* Left out of the programmers: timing within a byte, the baud the tool asks for
  beyond its range check, the encoding of answers, descriptor fields other
  than the page size, the cap of 255 bytes on a piece of a page (pages are smaller),
  the memory types that are other names of flash, EEPROM or fuse, and the address
  of the fuse (the four stores before its commit are one).
* The real-time values of the timers: no property is about milliseconds.
* Not modelled, with the reason in `PROJECT.json`: the bus facade (it forwards), the
  frame codec (pure, tested with vectors), the drivers (pure I/O).
* The modules' own firmware is not in the repository; its behaviour on the bus is
  the environment of the models.
