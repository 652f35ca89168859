----------------------------- MODULE PumpPoller -----------------------------
(***************************************************************************)
(* The scheduler of the pump commands (PumpPoller.cpp): it reads each      *)
(* pump, drives it to the state the last MQTT command named, repeats an    *)
(* "on" while commands keep coming, and turns every pump off when they     *)
(* stop.  At most one query goes out per pass.                             *)
(*                                                                         *)
(* The slots are those of PolledSlots; the pumps are the environment.      *)
(*                                                                         *)
(* Time.  A due time is stored (nonzero) or not, and a pass may find a     *)
(* stored one passed or not; so it is with the command-absence window.     *)
(* Every poll interval and timeout is covered.                             *)
(***************************************************************************)
EXTENDS PolledSlots

CONSTANTS
  QueryAttempts,    \* kPumpQueryAttempts
  RevisionModulus,  \* 2^32 in the code: revision is a uint32_t
  Pump,             \* kTypePumpModule
  WrapHits          \* TRUE when a due time may fall on the millisecond 0

ASSUME PollerAssumption ==
  /\ QueryAttempts \in Nat \ {0}
  /\ RevisionModulus \in Nat \ {0, 1}
  /\ Pump \in KnownTypes
  /\ WrapHits \in BOOLEAN

VARIABLES
  pumps,    \* _runtime and _intent of every slot
  silence,  \* the command-absence window: not started, open or closed
  motor,    \* what the pump of a slot really does
  wanted,   \* history: the last command for the slot since it could not be a pump
  issued    \* history: the query of the last step

vars == <<pumps, silence, view, changed, motor, wanted, issued, calm>>

PumpStates == {"Off", "On", "Fault"}
Nothing == [slot |-> 0, command |-> "None"]

\* desired "None" is desiredValid = false; a stored due time is TRUE.
Cleared == [epoch |-> 0, known |-> FALSE, state |-> "Off", revision |-> 0,
            readAttempts |-> 0, readRetryAt |-> FALSE, nextPollAt |-> FALSE,
            desired |-> "None", applyPending |-> FALSE, applyAttempts |-> 0,
            resetPending |-> FALSE, resetAttempts |-> 0,
            refreshNow |-> FALSE, refreshArmed |-> FALSE, refreshAttempts |-> 0]

PumpRecords ==
  LET Attempts == 0 .. QueryAttempts - 1
  IN  [epoch : 0 .. EpochModulus - 1, known : BOOLEAN, state : PumpStates,
       revision : 0 .. RevisionModulus - 1, readAttempts : Attempts,
       readRetryAt : BOOLEAN, nextPollAt : BOOLEAN,
       desired : {"None", "On", "Off"}, applyPending : BOOLEAN,
       applyAttempts : Attempts, resetPending : BOOLEAN, resetAttempts : Attempts,
       refreshNow : BOOLEAN, refreshArmed : BOOLEAN, refreshAttempts : Attempts]

-----------------------------------------------------------------------------
(* One slot of the poller                                                  *)

ClearCache(p) ==
  [p EXCEPT !.epoch = 0, !.known = FALSE, !.state = "Off", !.revision = 0,
            !.readAttempts = 0, !.readRetryAt = FALSE, !.nextPollAt = FALSE]

ClearIntent(p) ==
  [p EXCEPT !.desired = "None", !.applyPending = FALSE, !.applyAttempts = 0,
            !.resetPending = FALSE, !.resetAttempts = 0, !.refreshNow = FALSE,
            !.refreshArmed = FALSE, !.refreshAttempts = 0]

\* A module identified again gets the desired state once more.
Reidentified(p, epoch) ==
  [ClearCache(p) EXCEPT
     !.epoch = epoch, !.applyAttempts = 0, !.resetAttempts = 0, !.refreshAttempts = 0,
     !.applyPending = @ \/ p.desired # "None", !.refreshNow = @ \/ p.desired = "On"]

\* Faulty variant: a desired state waits for the next module of the slot.
SyncKeepsIntent(p, v) ==
  IF Holds(v, Pump) THEN IF p.epoch = v.epoch THEN p ELSE Reidentified(p, v.epoch)
  ELSE ClearCache(p)

SyncSession(p, v) ==
  IF Holds(v, Pump) THEN IF p.epoch = v.epoch THEN p ELSE Reidentified(p, v.epoch)
  ELSE IF CannotHold(v, Pump) THEN ClearIntent(ClearCache(p))
  ELSE ClearCache(p)

ArmOff(p) ==
  LET held == [p EXCEPT !.refreshNow = FALSE, !.refreshArmed = FALSE,
                        !.refreshAttempts = 0]
  IN  IF p.desired = "Off" THEN held
      ELSE [held EXCEPT !.desired = "Off", !.applyPending = TRUE, !.applyAttempts = 0]

Matches(p) == p.known /\ p.state = p.desired

\* Faulty variant: the revision only says that a state is stored.
RevisionOnce(p) == 1

NextRevision(p) == IF p.revision + 1 = RevisionModulus THEN 1 ELSE p.revision + 1

\* Faulty variant: a read that disagrees with the desired state arms nothing.
RememberOnly(p, state, fromPoll) ==
  [p EXCEPT !.known = TRUE, !.state = state, !.revision = NextRevision(p)]

RememberState(p, state, fromPoll) ==
  LET stored == [p EXCEPT !.known = TRUE, !.state = state, !.revision = NextRevision(p)]
  IN  IF fromPoll /\ p.desired # "None" /\ state # "Fault" /\ ~Matches(stored)
      THEN [stored EXCEPT !.applyPending = TRUE, !.applyAttempts = 0]
      ELSE stored

ArmOnRefresh(p, due) ==
  [p EXCEPT !.refreshNow = FALSE, !.refreshAttempts = 0, !.refreshArmed = TRUE,
            !.nextPollAt = due]

-----------------------------------------------------------------------------
(* The answer to each kind of query: `reply' is the state reported, or     *)
(* "Failed" for Busy and every other failure; `due' is FALSE only when     *)
(* now + interval is 0.                                                    *)

Attempt(attempts) == (attempts + 1) % QueryAttempts

Exhausted(attempts) == attempts + 1 >= QueryAttempts

StateRead(p, reply, due) ==
  IF reply # "Failed"
  THEN [RememberState(p, reply, TRUE) EXCEPT !.readAttempts = 0, !.readRetryAt = FALSE,
                                             !.nextPollAt = due]
  ELSE [p EXCEPT !.readAttempts = Attempt(@),
                 !.readRetryAt = IF Exhausted(p.readAttempts) THEN due ELSE @]

StatePolled(p, reply, due) ==
  IF reply # "Failed"
  THEN [RememberState(p, reply, TRUE) EXCEPT !.readAttempts = 0, !.nextPollAt = due]
  ELSE [p EXCEPT !.readAttempts = Attempt(@),
                 !.nextPollAt = IF Exhausted(p.readAttempts) THEN due ELSE @]

ResetAnswered(p, reply) ==
  IF reply # "Failed"
  THEN [RememberState(p, reply, TRUE) EXCEPT !.resetPending = FALSE, !.resetAttempts = 0]
  ELSE [p EXCEPT !.resetAttempts = Attempt(@),
                 !.resetPending = ~Exhausted(p.resetAttempts)]

\* One more try, or none until a poll finds the pump still different.
NoteApplyFail(p) ==
  [p EXCEPT !.applyAttempts = Attempt(@), !.applyPending = ~Exhausted(p.applyAttempts)]

ApplyDone(p) == [p EXCEPT !.applyPending = FALSE, !.applyAttempts = 0]

SetAnswered(p, reply, due) ==
  LET written == RememberState(p, reply, FALSE)
  IN  CASE reply = "Failed" -> NoteApplyFail(p)
        [] reply = "On" /\ p.desired = "On" -> ArmOnRefresh(ApplyDone(written), due)
        [] reply = "Off" /\ p.desired = "Off" -> ApplyDone(written)
        [] reply = "Fault" -> ApplyDone(written)
        [] OTHER -> NoteApplyFail(written)

RefreshAnswered(p, reply, due) ==
  LET written == RememberState(p, reply, TRUE)
  IN  CASE reply = "Failed" /\ Exhausted(p.refreshAttempts) -> ArmOnRefresh(p, due)
        [] reply = "Failed" /\ ~Exhausted(p.refreshAttempts) ->
             [p EXCEPT !.refreshAttempts = @ + 1, !.refreshNow = TRUE]
        [] reply = "On" -> ArmOnRefresh(written, due)
        [] reply = "Fault" ->
             [written EXCEPT !.refreshNow = FALSE, !.refreshArmed = FALSE,
                             !.refreshAttempts = 0, !.nextPollAt = due]
        [] OTHER -> [written EXCEPT !.refreshNow = FALSE, !.refreshAttempts = 0]

\* What the first parameter, a service, makes of the answer.
Answered(service, p, reply, due) ==
  CASE service = "Unknown"  -> StateRead(p, reply, due)
    [] service = "Reset"    -> ResetAnswered(p, reply)
    [] service = "Apply"    -> SetAnswered(p, reply, due)
    [] service = "Refresh"  -> RefreshAnswered(p, reply, due)
    [] service = "Periodic" -> StatePolled(p, reply, due)

CommandOf(service, p) ==
  CASE service = "Reset"   -> "Reset"
    [] service = "Apply"   -> IF p.desired = "On" THEN "SetOn" ELSE "SetOff"
    [] service = "Refresh" -> "SetOn"
    [] OTHER -> "Get"

-----------------------------------------------------------------------------
(* Which slots a service has work for.  E holds the <<slot, timer>> pairs  *)
(* whose stored due time a pass finds passed.                              *)

Stored ==
  {t \in Slots \X {"Read", "Refresh", "Poll"} :
     LET p == pumps[t[1]]
     IN  CASE t[2] = "Read"    -> p.readRetryAt
           [] t[2] = "Refresh" -> p.refreshArmed
           [] t[2] = "Poll"    -> p.nextPollAt}

Active == {i \in Slots : Holds(view[i], Pump)}
Known(q) == {i \in Active : q[i].known}

Commanded(p) == p.resetPending \/ p.applyPending \/ p.desired # "None"

\* _slotNeedingState: a commanded slot goes first.
NeedingState(q, E) ==
  LET due == {i \in Active : ~q[i].known /\ (q[i].readRetryAt => <<i, "Read">> \in E)}
  IN  IF \E i \in due : Commanded(q[i]) THEN {i \in due : Commanded(q[i])} ELSE due

Resettable(q) == {i \in Known(q) : q[i].resetPending}

Applicable(q) ==
  {i \in Known(q) : q[i].applyPending /\ ~q[i].resetPending /\ q[i].state # "Fault"}

Unmatched(q) == {i \in Applicable(q) : ~Matches(q[i])}

\* The loop of _serviceApply settles the slots that match already, as far as
\* it comes.
Settled(q, S) ==
  [i \in Slots |-> IF i \in S \cap Applicable(q) /\ Matches(q[i]) THEN ApplyDone(q[i])
                                                                ELSE q[i]]

Refreshable(q, E) ==
  {i \in Known(q) :
     /\ ~q[i].resetPending /\ q[i].desired = "On" /\ q[i].state = "On"
     /\ q[i].refreshNow \/ (q[i].refreshArmed /\ <<i, "Refresh">> \in E)}

Pollable(q, E) == {i \in Known(q) : q[i].nextPollAt /\ <<i, "Poll">> \in E}

-----------------------------------------------------------------------------
(* The bus and the pumps                                                   *)

\* What a pump may do with a command.  A faulted pump stays so until a reset.
Reactions(state, command) ==
  CASE command = "Get" -> {state}
    [] command = "Reset" -> {"Off", state}
    [] state = "Fault" /\ command \in {"SetOn", "SetOff"} -> {"Fault"}
    [] command = "SetOff" /\ state # "Fault" -> {"Off"} \cup (IF calm THEN {} ELSE {state})
    [] command = "SetOn" /\ state # "Fault" ->
         {"On"} \cup (IF calm THEN {} ELSE {state, "Fault"})

\* The answer and the pump after a command: a lost answer does not tell
\* whether the command was lost too.
Exchanges(i, command) ==
  LET reached == Reactions(motor[i], command)
  IN  {[reply |-> state, motor |-> state] : state \in reached}
        \cup (IF ~Lossy(i) THEN {}
              ELSE {[reply |-> "Failed", motor |-> state] :
                      state \in reached \cup {motor[i]}})

\* The due time of a timer armed now is stored, unless it is 0.
Dues == IF WrapHits THEN BOOLEAN ELSE {TRUE}

-----------------------------------------------------------------------------
(* update()                                                                *)

\* _silenceStarted and _failsafeActive after _armSilence.
WindowCloses(elapsed) == silence = "Closed" \/ (silence = "Open" /\ elapsed)

\* Faulty variant: pumps are turned off once, when the window closes.
ClosesOnce(elapsed) == silence = "Open" /\ elapsed

\* Whether _armSilence goes over the slots.
ArmsOff(elapsed) == WindowCloses(elapsed)

\* The slots after _syncSessions and _armSilence.
Prepared(elapsed) ==
  [i \in Slots |-> IF ArmsOff(elapsed) THEN ArmOff(SyncSession(pumps[i], view[i]))
                                       ELSE SyncSession(pumps[i], view[i])]

\* The one query of a pass goes to the lowest slot of S.
Serve(q, S, service) ==
  \E i \in S :
    /\ \A j \in S : i <= j
    /\ LET command == CommandOf(service, q[i])
       IN  \E x \in Exchanges(i, command), due \in Dues :
             /\ pumps' = [q EXCEPT ![i] = Answered(service, @, x.reply, due)]
             /\ motor' = [motor EXCEPT ![i] = x.motor]
             /\ issued' = [slot |-> i, command |-> command]

\* What every pass does beside its query.
Turn(elapsed) ==
  /\ silence' = IF WindowCloses(elapsed) THEN "Closed" ELSE "Open"
  /\ changed' = {}
  /\ wanted' = [i \in Slots |-> IF CannotHold(view[i], Pump) THEN "None"
                                                                   ELSE wanted[i]]
  /\ UNCHANGED <<view, calm>>

\* The services, on the prepared slots q.  Each issues at most one query, and a
\* later one runs only when the earlier ones had none to issue.
ServiceUnknown(q, E) == Serve(q, NeedingState(q, E), "Unknown")

ServiceReset(q, E) ==
  /\ NeedingState(q, E) = {}
  /\ Serve(q, Resettable(q), "Reset")

ServiceApply(q, E) ==
  LET passed == {j \in Slots : \A i \in Unmatched(q) : j < i}
  IN  /\ NeedingState(q, E) = {} /\ Resettable(q) = {}
      /\ Serve(Settled(q, passed), Unmatched(q), "Apply")

\* Nothing is left to read, reset or set.
PumpsSettled(q, E) == NeedingState(q, E) = {} /\ Resettable(q) = {} /\ Unmatched(q) = {}

ServiceRefresh(q, E) ==
  /\ PumpsSettled(q, E)
  /\ Serve(Settled(q, Slots), Refreshable(q, E), "Refresh")

ServicePeriodic(q, E) ==
  /\ PumpsSettled(q, E) /\ Refreshable(q, E) = {}
  /\ Serve(Settled(q, Slots), Pollable(q, E), "Periodic")

\* No query is due.
NothingDue(q, E) ==
  /\ PumpsSettled(q, E) /\ Refreshable(q, E) = {} /\ Pollable(q, E) = {}
  /\ pumps' = Settled(q, Slots)
  /\ issued' = Nothing
  /\ UNCHANGED motor

Update(E, elapsed) ==
  /\ Turn(elapsed)
  /\ LET q == Prepared(elapsed)
     IN  \/ ServiceUnknown(q, E)
         \/ ServiceReset(q, E)
         \/ ServiceApply(q, E)
         \/ ServiceRefresh(q, E)
         \/ ServicePeriodic(q, E)
         \/ NothingDue(q, E)

-----------------------------------------------------------------------------
(* Commands that arrive over MQTT                                          *)

CommandedOn(p) ==
  [p EXCEPT !.desired = "On", !.applyPending = TRUE, !.applyAttempts = 0,
            !.refreshNow = TRUE, !.refreshAttempts = 0]

CommandedOff(p) ==
  [p EXCEPT !.desired = "Off", !.applyPending = TRUE, !.applyAttempts = 0,
            !.refreshNow = FALSE, !.refreshArmed = FALSE, !.refreshAttempts = 0]

CommandState(i, state) ==
  /\ ~calm
  /\ silence' = "Open"
  /\ pumps' = [pumps EXCEPT ![i] = IF state = "On" THEN CommandedOn(@) ELSE CommandedOff(@)]
  /\ wanted' = [wanted EXCEPT ![i] = state]
  /\ issued' = Nothing
  /\ UNCHANGED <<view, changed, motor, calm>>

CommandReset(i) ==
  /\ ~calm
  /\ pumps' = [pumps EXCEPT ![i].resetPending = TRUE, ![i].resetAttempts = 0]
  /\ issued' = Nothing
  /\ UNCHANGED <<silence, view, changed, motor, wanted, calm>>

-----------------------------------------------------------------------------
(* The environment                                                         *)

HostChanges(i) ==
  /\ HostMoves(i)
  /\ issued' = Nothing
  /\ UNCHANGED <<pumps, silence, motor, wanted, calm>>

\* The pump stops by itself, is swapped or loses power, or faults.
MotorChanges(i) ==
  /\ ~calm
  /\ \E state \in {"Off", "Fault"} : motor' = [motor EXCEPT ![i] = state]
  /\ issued' = Nothing
  /\ UNCHANGED <<pumps, silence, view, changed, wanted, calm>>

\* The controller reboots; the pumps go on.
ControllerReset ==
  /\ ~calm
  /\ pumps' = [i \in Slots |-> Cleared]
  /\ silence' = "Idle"
  /\ SlotsReboot
  /\ wanted' = [i \in Slots |-> "None"]
  /\ issued' = Nothing
  /\ UNCHANGED <<motor, calm>>

CalmDown ==
  /\ ~calm
  /\ calm' = TRUE
  /\ issued' = Nothing
  /\ UNCHANGED <<pumps, silence, view, changed, motor, wanted>>

-----------------------------------------------------------------------------
Init ==
  /\ pumps = [i \in Slots |-> Cleared]
  /\ silence = "Idle"
  /\ SlotsInit
  /\ motor \in [Slots -> PumpStates]
  /\ wanted = [i \in Slots |-> "None"]
  /\ issued = Nothing
  /\ calm = FALSE

Next ==
  \/ \E E \in SUBSET Stored, elapsed \in {FALSE, silence = "Open"} : Update(E, elapsed)
  \/ \E i \in Slots, state \in {"On", "Off"} : CommandState(i, state)
  \/ \E i \in Slots : CommandReset(i)
  \/ \E i \in Slots : HostChanges(i)
  \/ \E i \in Slots : MotorChanges(i)
  \/ ControllerReset
  \/ CalmDown

\* The loop runs for ever, and a stored due time passes.  A poll interval is
\* far longer than the few passes a slot needs to be read or to be given up
\* until the next one, so there are passes in which only the timers of slot i
\* have passed.  No more is asked of the loop than of the time after the
\* disturbances.
PassFor(i) ==
  /\ calm
  /\ \E elapsed \in {FALSE, silence = "Open"} :
       Update({t \in Stored : t[1] = i}, elapsed)

Spec == Init /\ [][Next]_vars
FairSpec == Spec /\ \A i \in Slots : SF_vars(PassFor(i))

-----------------------------------------------------------------------------
(* Correctness                                                             *)

\* Every variable stays in its type; no retry counter reaches its limit.
TypeOK ==
  /\ pumps \in [Slots -> PumpRecords]
  /\ silence \in {"Idle", "Open", "Closed"}
  /\ SlotsTypeOK
  /\ motor \in [Slots -> PumpStates]
  /\ wanted \in [Slots -> {"None", "On", "Off"}]
  /\ issued \in [slot : Slots, command : {"None", "Get", "Reset", "SetOn", "SetOff"}]

\* OnOnlyWanted: SET_PUMP on only goes to a slot whose last command was "on",
\* given since the slot last held no pump, and never after the window of
\* command absence has closed: no retry, refresh, re-identification or reset
\* brings back an older "on" (update() and its order of services).
OnOnlyWanted ==
  issued.command = "SetOn" => wanted[issued.slot] = "On" /\ silence = "Open"

\* PumpsFollow: once commands, losses and faults are over, a pump that is not
\* faulted does what its slot is to do, whatever answers were lost before:
\* retries are limited, but the periodic read finds the difference.
PumpsFollow ==
  \A i \in Slots \ Broken :
    calm ~> [](Holds(view[i], Pump) /\ motor[i] # "Fault"
                 => pumps[i].desired \in {"None", motor[i]})

\* SilenceTurnsOff: after the window of command absence has closed every
\* reachable pump ends off, also one that was on before a reboot or that comes
\* online later.
\* docs/reference/pump-module.md: "If no accepted on/off command arrives for 3
\* minutes, the controller turns off every pump that is on."
SilenceTurnsOff ==
  \A i \in Slots \ Broken :
    (calm /\ silence = "Closed")
      ~> [](Holds(view[i], Pump) => motor[i] # "On")
=============================================================================
