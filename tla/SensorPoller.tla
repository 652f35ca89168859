---------------------------- MODULE SensorPoller ----------------------------
(***************************************************************************)
(* The scheduler of the sensor queries (SensorPoller.cpp): it answers the  *)
(* reads requested over MQTT, learns how many inputs a module has, and     *)
(* reads the presence and the value of each input in turn.  At most one    *)
(* query goes out per pass.  Requests and answers wait in two queues of    *)
(* the same depth.                                                         *)
(*                                                                         *)
(* Inputs are numbered from 1 here, from 0 in the code.  Time is as in     *)
(* SolenoidPoller.  A raw value is abstracted to what was read: a value of *)
(* Values, or "Absent", for which the module also sends a raw value that   *)
(* means nothing.                                                          *)
(***************************************************************************)
EXTENDS PolledSlots, Sequences

CONSTANTS
  QueryAttempts,    \* kSensorQueryAttempts
  QueueDepth,       \* kDemandQueueDepth
  RevisionModulus,  \* 2^32 in the code
  MaxInputs,        \* kMaxSensorsPerModule
  Sensor,           \* kTypeSensorModule
  Counts,           \* the numbers of inputs a module may report
  Values            \* the values an input may have

ASSUME SensorAssumption ==
  /\ QueryAttempts \in Nat \ {0}
  /\ QueueDepth \in Nat \ {0}
  /\ RevisionModulus \in Nat \ {0, 1}
  /\ MaxInputs \in Nat \ {0}
  /\ Sensor \in KnownTypes
  /\ Counts \subseteq 0 .. MaxInputs
  /\ "Absent" \notin Values /\ "Failed" \notin Values

VARIABLES
  runtime,  \* _runtime of every slot
  demands,  \* _demands, the head first
  results,  \* _results, the head first
  inputs    \* what is connected to the inputs of a slot

pollerVars == <<runtime, demands, results>>
vars == <<pollerVars, view, changed, inputs, calm>>

\* The feed of slot i, as the readers of the poller see it.
Feed(i) == INSTANCE SensorFeed WITH
  counted <- runtime[i].counted, samples <- runtime[i].samples

Readings == {"Absent"} \cup Values

\* connectedKnown and connected are present; valueKnown and value are reading.
Unread == [present |-> "Unknown", reading |-> "None", revision |-> 0]

Samples ==
  [present : {"Unknown", "Yes", "No"}, reading : {"None"} \cup Readings,
   revision : 0 .. RevisionModulus - 1]

Cleared == [epoch |-> 0, counted |-> FALSE, samples |-> << >>, countAttempts |-> 0,
            countRetryAt |-> FALSE, inCycle |-> FALSE, index |-> 1,
            readingStep |-> FALSE, stepAttempts |-> 0, nextPollAt |-> FALSE]

RuntimeRecords ==
  LET Attempts == 0 .. QueryAttempts - 1
  IN  [epoch : 0 .. EpochModulus - 1, counted : BOOLEAN,
       samples : UpTo(MaxInputs, Samples), countAttempts : Attempts,
       countRetryAt : BOOLEAN, inCycle : BOOLEAN, index : 1 .. MaxInputs,
       readingStep : BOOLEAN, stepAttempts : Attempts, nextPollAt : BOOLEAN]

Demands == [slot : Slots, input : 1 .. MaxInputs, attempts : 0 .. QueryAttempts - 1]

\* ok and connected of the code are in the answer.
Results == [slot : Slots, input : 1 .. MaxInputs, answer : Readings \cup {"Failed"}]

-----------------------------------------------------------------------------
(* One slot of the poller                                                  *)

SyncSession(r, v) ==
  IF ~Holds(v, Sensor) THEN Cleared
  ELSE IF r.epoch = v.epoch THEN r ELSE [Cleared EXCEPT !.epoch = v.epoch]

Exhausted(attempts) == attempts + 1 >= QueryAttempts

NextRevision(n) == IF n + 1 = RevisionModulus THEN 1 ELSE n + 1

RememberConnected(r, k, reading) ==
  [r EXCEPT !.samples[k].present = IF reading = "Absent" THEN "No" ELSE "Yes"]

\* Faulty variant: a reading leaves the presence as it was asked for last.
RememberValue(r, k, reading) ==
  [r EXCEPT !.samples[k].reading = reading, !.samples[k].revision = NextRevision(@)]

RememberReading(r, k, reading) ==
  [RememberConnected(r, k, reading) EXCEPT !.samples[k].reading = reading,
                                           !.samples[k].revision = NextRevision(@)]

NoCount == -1

Counted(r, count) ==
  IF count = NoCount
  THEN [r EXCEPT !.countAttempts = IF Exhausted(@) THEN 0 ELSE @ + 1,
                 !.countRetryAt = @ \/ Exhausted(r.countAttempts)]
  ELSE [r EXCEPT !.counted = TRUE, !.samples = [k \in 1 .. count |-> Unread],
                 !.countAttempts = 0, !.countRetryAt = FALSE, !.inCycle = FALSE,
                 !.index = 1, !.readingStep = FALSE, !.stepAttempts = 0,
                 !.nextPollAt = FALSE]

\* Faulty variant: the presence of an input ends its turn.
AdvanceProbe(r) ==
  IF r.index < Len(r.samples) THEN [r EXCEPT !.index = @ + 1]
  ELSE [r EXCEPT !.inCycle = FALSE, !.index = 1, !.nextPollAt = TRUE]

\* _advancePeriodic: presence, then reading, then the next input.
Advance(r) ==
  IF ~r.readingStep THEN [r EXCEPT !.readingStep = TRUE]
  ELSE IF r.index < Len(r.samples) THEN [r EXCEPT !.readingStep = FALSE, !.index = @ + 1]
  ELSE [r EXCEPT !.readingStep = FALSE, !.inCycle = FALSE, !.index = 1, !.nextPollAt = TRUE]

\* The slot after its periodic step was answered.
Polled(r, reply) ==
  LET cycling == [r EXCEPT !.inCycle = TRUE]
  IN  CASE reply = "Failed" /\ ~Exhausted(r.stepAttempts) ->
             [cycling EXCEPT !.stepAttempts = @ + 1]
        [] reply = "Failed" /\ Exhausted(r.stepAttempts) ->
             Advance([cycling EXCEPT !.stepAttempts = 0])
        [] reply # "Failed" /\ ~r.readingStep ->
             Advance([RememberConnected(cycling, r.index, reply) EXCEPT !.stepAttempts = 0])
        [] OTHER ->
             Advance([RememberReading(cycling, r.index, reply) EXCEPT !.stepAttempts = 0])

-----------------------------------------------------------------------------
(* The queues                                                              *)

\* _pushResult: the oldest answer makes room.
Pushed(q, result) == Append(IF Len(q) >= QueueDepth THEN Tail(q) ELSE q, result)

\* The queue when a demand is answered.
WithAnswer(demand, answer) ==
  Pushed(results, [slot |-> demand.slot, input |-> demand.input, answer |-> answer])

-----------------------------------------------------------------------------
(* Which slots a service has work for; r is the prepared runtime           *)

Stored ==
  {t \in Slots \X {"Count", "Poll"} :
     IF t[2] = "Count" THEN runtime[t[1]].countRetryAt ELSE runtime[t[1]].nextPollAt}

Active == {i \in Slots : Holds(view[i], Sensor)}

\* _slotNeedingCount: the slot of the demand at the head goes first.
NeedingCount(r, E) ==
  LET due == {i \in Active : ~r[i].counted /\ (r[i].countRetryAt => <<i, "Count">> \in E)}
      demanded == {i \in due : demands # << >> /\ Head(demands).slot = i}
  IN  IF demanded # {} THEN demanded ELSE Lowest(due)

\* _periodicSlot: a cycle that is under way goes on.
Pollable(r, E) ==
  IF \E i \in Slots : r[i].inCycle THEN Lowest({i \in Slots : r[i].inCycle})
  ELSE Lowest({i \in Slots :
                 Len(r[i].samples) > 0 /\ (r[i].nextPollAt => <<i, "Poll">> \in E)})

\* Faulty variant: an input the module does not have is waited for.
RefusedByType(r, demand) == CannotHold(view[demand.slot], Sensor)

\* The demand at the head can never be answered.
Refused(r, demand) ==
  \/ CannotHold(view[demand.slot], Sensor)
  \/ Holds(view[demand.slot], Sensor) /\ r[demand.slot].counted
       /\ demand.input > Len(r[demand.slot].samples)

Answerable(r, demand) ==
  /\ Holds(view[demand.slot], Sensor)
  /\ demand.input \in DOMAIN r[demand.slot].samples

\* The head leaves the pass to the other services: there is none, or its module
\* is not ready to answer.
HeadWaits(r) ==
  demands # << >> => ~Refused(r, Head(demands)) /\ ~Answerable(r, Head(demands))

-----------------------------------------------------------------------------
(* update()                                                                *)

\* What is heard of input k: the module answers truly or not at all.
Replies(i, k) == {inputs[i][k]} \cup (IF Lossy(i) THEN {"Failed"} ELSE {})

Prepared == [i \in Slots |-> SyncSession(runtime[i], view[i])]

\* The bridge takes one answer of the queue in the same pass, unless it still
\* holds one.
Handed(q) == IF q = << >> THEN {q} ELSE {Tail(q)} \cup (IF calm THEN {} ELSE {q})

RefuseDemand(r) ==
  /\ demands # << >> /\ Refused(r, Head(demands))
  /\ demands' = Tail(demands)
  /\ runtime' = r
  /\ results' \in Handed(WithAnswer(Head(demands), "Failed"))

\* Busy and Failed are tried again.  Rejected does not occur: the host rejects
\* only queries to a slot that Answerable excludes.
ServiceDemand(r) ==
  /\ demands # << >> /\ Answerable(r, Head(demands))
  /\ LET demand == Head(demands)
     IN  \E reply \in Replies(demand.slot, demand.input) :
           \/ /\ reply # "Failed"
              /\ runtime' = [r EXCEPT ![demand.slot] = RememberReading(@, demand.input, reply)]
              /\ demands' = Tail(demands)
              /\ results' \in Handed(WithAnswer(demand, reply))
           \/ /\ reply = "Failed" /\ Exhausted(demand.attempts)
              /\ runtime' = r
              /\ demands' = Tail(demands)
              /\ results' \in Handed(WithAnswer(demand, "Failed"))
           \/ /\ reply = "Failed" /\ ~Exhausted(demand.attempts)
              /\ runtime' = r
              /\ demands' = [demands EXCEPT ![1].attempts = @ + 1]
              /\ results' \in Handed(results)

ServiceCount(r, E) ==
  /\ HeadWaits(r)
  /\ \E i \in NeedingCount(r, E) :
     \E count \in {Len(inputs[i])} \cup (IF Lossy(i) THEN {NoCount} ELSE {}) :
       runtime' = [r EXCEPT ![i] = Counted(@, count)]
  /\ UNCHANGED demands
  /\ results' \in Handed(results)

ServicePeriodic(r, E) ==
  /\ HeadWaits(r) /\ NeedingCount(r, E) = {}
  /\ \E i \in Pollable(r, E) : \E reply \in Replies(i, r[i].index) :
       runtime' = [r EXCEPT ![i] = Polled(@, reply)]
  /\ UNCHANGED demands
  /\ results' \in Handed(results)

NothingDue(r, E) ==
  /\ HeadWaits(r) /\ NeedingCount(r, E) = {} /\ Pollable(r, E) = {}
  /\ runtime' = r
  /\ UNCHANGED demands
  /\ results' \in Handed(results)

Update(E) ==
  /\ \E r \in {Prepared} :
       \/ RefuseDemand(r)
       \/ ServiceDemand(r)
       \/ ServiceCount(r, E)
       \/ ServicePeriodic(r, E)
       \/ NothingDue(r, E)
  /\ changed' = {}
  /\ UNCHANGED <<view, inputs, calm>>

\* A read requested over MQTT: dropped when four others wait.
RequestReading(i, k) ==
  /\ ~calm
  /\ demands' = IF Len(demands) >= QueueDepth THEN demands
                ELSE Append(demands, [slot |-> i, input |-> k, attempts |-> 0])
  /\ UNCHANGED <<runtime, results, view, changed, inputs, calm>>

-----------------------------------------------------------------------------
(* The environment                                                         *)

HostChanges(i) ==
  /\ HostMoves(i)
  /\ UNCHANGED <<pollerVars, inputs, calm>>

Boards == UNION {[1 .. n -> Readings] : n \in Counts}

\* Another module is plugged in.
BoardSwapped(i) ==
  /\ ~calm /\ view[i].state = "Empty"
  /\ inputs' \in {[inputs EXCEPT ![i] = b] : b \in Boards}
  /\ UNCHANGED <<pollerVars, view, changed, calm>>

InputChanges(i) ==
  /\ ~calm
  /\ \E k \in DOMAIN inputs[i], reading \in Readings :
       inputs' = [inputs EXCEPT ![i][k] = reading]
  /\ UNCHANGED <<pollerVars, view, changed, calm>>

\* The controller reboots; the modules go on.
ControllerReset ==
  /\ ~calm
  /\ runtime' = [i \in Slots |-> Cleared]
  /\ demands' = << >> /\ results' = << >>
  /\ SlotsReboot
  /\ UNCHANGED <<inputs, calm>>

\* A pass after the last change of a slot counts as disturbed: it may do more
\* than a calm one.
CalmDown ==
  /\ ~calm /\ changed = {}
  /\ calm' = TRUE
  /\ UNCHANGED <<pollerVars, view, changed, inputs>>

-----------------------------------------------------------------------------
Init ==
  /\ runtime = [i \in Slots |-> Cleared]
  /\ demands = << >> /\ results = << >>
  /\ SlotsInit
  /\ inputs \in [Slots -> Boards]
  /\ calm = FALSE

Next ==
  \/ \E E \in SUBSET Stored : Update(E)
  \/ \E i \in Slots, k \in 1 .. MaxInputs : RequestReading(i, k)
  \/ \E i \in Slots : HostChanges(i)
  \/ \E i \in Slots : BoardSwapped(i)
  \/ \E i \in Slots : InputChanges(i)
  \/ ControllerReset
  \/ CalmDown

\* As in PumpPoller: the loop runs for ever, and there are passes in which only
\* the timers of slot i have passed.
PassFor(i) == calm /\ Update({t \in Stored : t[1] = i})

Spec == Init /\ [][Next]_vars
FairSpec == Spec /\ \A i \in Slots : WF_vars(PassFor(i))

-----------------------------------------------------------------------------
(* Correctness                                                             *)

\* Every variable stays in its type: no queue outgrows its depth, no retry
\* counter reaches its limit and no cursor leaves the inputs.
SensorTypeOK ==
  /\ runtime \in [Slots -> RuntimeRecords]
  /\ demands \in UpTo(QueueDepth, Demands)
  /\ results \in UpTo(QueueDepth, Results)
  /\ SlotsTypeOK
  /\ \A i \in Slots : runtime[i].inCycle => runtime[i].index \in DOMAIN runtime[i].samples

\* DemandsAnswered: once disturbances are over, every requested read of the
\* queue is answered and handed to the bridge, whatever its slot holds, unless
\* the module at the head is still being identified (_serviceDemand).
DemandsAnswered ==
  (/\ calm
   /\ \A i \in Slots : CannotHold(view[i], Sensor) \/ Holds(view[i], Sensor))
    ~> demands = << >> /\ results = << >>

\* ReadingsFollow: once disturbances are over, what is stored of every input is
\* what is connected to it, also when other slots keep failing and reads keep
\* the periodic cycle waiting (_servicePeriodic and _advancePeriodic).
ReadingsFollow ==
  \A i \in Slots \ Broken :
    calm ~> [](Holds(view[i], Sensor) =>
                 \A k \in DOMAIN inputs[i] :
                   /\ k \in DOMAIN runtime[i].samples
                   /\ runtime[i].samples[k].reading = inputs[i][k]
                   /\ runtime[i].samples[k].present = IF inputs[i][k] = "Absent" THEN "No"
                                                                                 ELSE "Yes")

\* SamplesKeepPromise: what the poller shows of every slot follows SensorFeed.
SamplesKeepPromise ==
  /\ \A i \in Slots : Feed(i)!Init
  /\ [][\A i \in Slots : [Feed(i)!Next]_(Feed(i)!feedVars)]_vars
=============================================================================
