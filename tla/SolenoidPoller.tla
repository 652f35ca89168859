--------------------------- MODULE SolenoidPoller ---------------------------
(***************************************************************************)
(* The scheduler of the solenoid commands (SolenoidPoller.cpp): it learns  *)
(* how many outputs a module has, drives them one by one to the states the *)
(* last MQTT command named, reads them in turn, and turns every output off *)
(* when commands stop.  At most one query goes out per pass.               *)
(*                                                                         *)
(* Outputs are numbered from 1 here, from 0 in the code.  Time is as in    *)
(* PumpPoller: a pass may find a stored due time passed or not.  A due     *)
(* time that falls on the millisecond 0 is due at once, which is one of    *)
(* the outcomes a pass may find anyway.                                    *)
(***************************************************************************)
EXTENDS PolledSlots, Sequences

CONSTANTS
  QueryAttempts,    \* kSolenoidQueryAttempts
  RevisionModulus,  \* 2^32 in the code
  MaxOutputs,       \* kMaxSolenoidsPerModule
  Solenoid,         \* kTypeSolenoidModule
  Counts,           \* the numbers of outputs a module may report
  Loose             \* the outputs whose solenoid may be disconnected

ASSUME SolenoidAssumption ==
  /\ QueryAttempts \in Nat \ {0}
  /\ RevisionModulus \in Nat \ {0, 1}
  /\ MaxOutputs \in Nat \ {0}
  /\ Solenoid \in KnownTypes
  /\ Counts \subseteq 0 .. MaxOutputs
  /\ Loose \subseteq 1 .. MaxOutputs

VARIABLES
  runtime,  \* _runtime of every slot
  intent,   \* _intent of every slot
  silence,  \* the command-absence window: not started, open or closed
  board,    \* what the outputs of a slot really do
  wanted,   \* history: the command in force for the slot, if any
  switched  \* history: the slot and output of the SET_SOLENOID on of the last step

pollerVars == <<runtime, intent, silence>>
vars == <<pollerVars, view, changed, calm, board, wanted, switched>>

\* The feed of slot i, as the readers of the poller see it.
Feed(i) == INSTANCE SolenoidFeed WITH
  counted <- runtime[i].counted, outputs <- runtime[i].outputs

OutputStates == {"Off", "On", "Disconnected"}
Unread == [state |-> "Unknown", revision |-> 0]

\* count is the length of outputs; a stored due time is TRUE.
NoRuntime == [epoch |-> 0, counted |-> FALSE, outputs |-> << >>, countAttempts |-> 0,
              countRetryAt |-> FALSE, inCycle |-> FALSE, index |-> 1,
              stepAttempts |-> 0, nextPollAt |-> FALSE]

\* tokenCount is the length of desired.
NoIntent == [kind |-> "None", desired |-> << >>, pending |-> FALSE,
             applying |-> FALSE, index |-> 1, attempts |-> 0]

Attempts == 0 .. QueryAttempts - 1

RuntimeRecords ==
  [epoch : 0 .. EpochModulus - 1, counted : BOOLEAN,
   outputs : UpTo(MaxOutputs, {Unread} \cup
               [state : OutputStates, revision : 1 .. RevisionModulus - 1]),
   countAttempts : Attempts, countRetryAt : BOOLEAN, inCycle : BOOLEAN,
   index : 1 .. MaxOutputs, stepAttempts : Attempts, nextPollAt : BOOLEAN]

IntentRecords ==
  [kind : {"None", "States", "AllOff"}, desired : UpTo(MaxOutputs, BOOLEAN),
   pending : BOOLEAN, applying : BOOLEAN, index : 1 .. MaxOutputs + 1,
   attempts : Attempts]

-----------------------------------------------------------------------------
(* The session of one slot: r is its runtime, d its intent, v its view     *)

\* pending set anew, the application back at the first output.
Restarted(d) == [d EXCEPT !.pending = TRUE, !.applying = FALSE, !.index = 1, !.attempts = 0]

\* Faulty variant: the states of the last module stay in the cache.
SyncRuntimeStale(r, v) ==
  IF ~Holds(v, Solenoid) THEN [NoRuntime EXCEPT !.outputs = r.outputs]
  ELSE IF r.epoch = v.epoch THEN r ELSE [NoRuntime EXCEPT !.epoch = v.epoch]

SyncRuntime(r, v) ==
  IF ~Holds(v, Solenoid) THEN NoRuntime
  ELSE IF r.epoch = v.epoch THEN r ELSE [NoRuntime EXCEPT !.epoch = v.epoch]

\* Faulty variant: a desired state waits for the next module of the slot.
SyncIntentKept(d, r, v) ==
  IF Holds(v, Solenoid) /\ r.epoch # v.epoch /\ d.kind # "None" THEN Restarted(d) ELSE d

\* A module identified again gets the desired states once more.
SyncIntent(d, r, v) ==
  IF CannotHold(v, Solenoid) THEN NoIntent
  ELSE IF Holds(v, Solenoid) /\ r.epoch # v.epoch /\ d.kind # "None" THEN Restarted(d)
  ELSE d

\* What _armSilence does to a slot once the window has closed.
ArmAllOff(d) ==
  IF d.kind = "AllOff" THEN d ELSE Restarted([NoIntent EXCEPT !.kind = "AllOff"])

-----------------------------------------------------------------------------
(* The answer to each kind of query: the state or count reported, or       *)
(* "Failed", NoCount, for Busy and every other failure.                    *)

NoCount == -1

Exhausted(attempts) == attempts + 1 >= QueryAttempts

NextRevision(r) == IF r + 1 = RevisionModulus THEN 1 ELSE r + 1

Remember(r, k, state) ==
  [r EXCEPT !.outputs[k] = [state |-> state, revision |-> NextRevision(@.revision)]]

\* Faulty variant: a read changes no intent.
NoRemindOff(d, state) == d

\* _rememberState arms the drive to off again when it stores an "on" that is
\* not to be.
RemindOff(d, state) ==
  IF d.kind = "AllOff" /\ state = "On" /\ ~d.applying THEN [d EXCEPT !.pending = TRUE] ELSE d

DesiredOn(d, k) == d.kind = "States" /\ d.desired[k]

\* A disconnected output cannot be driven.
MatchesState(d, k, state) ==
  \/ state = "Disconnected"
  \/ DesiredOn(d, k) /\ state = "On"
  \/ ~DesiredOn(d, k) /\ state = "Off"

Counted(r, count) ==
  IF count = NoCount
  THEN [r EXCEPT !.countAttempts = IF Exhausted(@) THEN 0 ELSE @ + 1,
                 !.countRetryAt = @ \/ Exhausted(r.countAttempts)]
  ELSE [r EXCEPT !.counted = TRUE, !.outputs = [k \in 1 .. count |-> Unread],
                 !.countAttempts = 0, !.countRetryAt = FALSE, !.inCycle = FALSE,
                 !.index = 1, !.stepAttempts = 0, !.nextPollAt = FALSE]

NextOutput(d) == [d EXCEPT !.index = @ + 1, !.attempts = 0]

\* One more try at this output, or on to the next.
RetryOutput(d) == IF Exhausted(d.attempts) THEN NextOutput(d) ELSE [d EXCEPT !.attempts = @ + 1]

\* The intent when the read or the set of its output has been answered.
ReadForApply(d, state) == IF state = "Failed" THEN RetryOutput(d) ELSE [d EXCEPT !.attempts = 0]

SetAnswered(d, state) ==
  IF state # "Failed" /\ MatchesState(d, d.index, state) THEN NextOutput(d) ELSE RetryOutput(d)

\* The cursor of the periodic reads after the step for its output.
Polled(r, state) ==
  LET cycling == [r EXCEPT !.inCycle = TRUE]
      read == IF state = "Failed" THEN cycling ELSE Remember(cycling, r.index, state)
  IN  CASE state = "Failed" /\ ~Exhausted(r.stepAttempts) ->
             [cycling EXCEPT !.stepAttempts = @ + 1]
        [] ~(state = "Failed" /\ ~Exhausted(r.stepAttempts)) /\ r.index < Len(r.outputs) ->
             [read EXCEPT !.stepAttempts = 0, !.index = @ + 1]
        [] OTHER ->
             [read EXCEPT !.stepAttempts = 0, !.inCycle = FALSE, !.index = 1,
                          !.nextPollAt = TRUE]

-----------------------------------------------------------------------------
(* Which slots a service has work for; r and d are the prepared slots.  E  *)
(* holds the <<slot, timer>> pairs whose stored due time has passed.       *)

Stored ==
  {t \in Slots \X {"Count", "Poll"} :
     IF t[2] = "Count" THEN runtime[t[1]].countRetryAt ELSE runtime[t[1]].nextPollAt}

Active == {i \in Slots : Holds(view[i], Solenoid)}

Open(d) == d.kind # "None" /\ (d.pending \/ d.applying)

\* _slotNeedingCount: a commanded slot goes first.
NeedingCount(r, d, E) ==
  LET due == {i \in Active : ~r[i].counted /\ (r[i].countRetryAt => <<i, "Count">> \in E)}
  IN  IF \E i \in due : Open(d[i]) THEN {i \in due : Open(d[i])} ELSE due

\* _applySlot
ToApply(r, d) == {i \in Active : Open(d[i]) /\ r[i].counted}

Mismatched(r, d) == d.kind = "States" /\ Len(d.desired) # Len(r.outputs)

\* Faulty variant: an output that was never read counts as matching.
UnmatchedRead(r, d) ==
  {k \in DOMAIN r.outputs :
     /\ d.applying => d.index <= k
     /\ r.outputs[k].state # "Unknown" /\ ~MatchesState(d, k, r.outputs[k].state)}

\* The outputs from the cursor on that do not match what is desired.
Unmatched(r, d) ==
  {k \in DOMAIN r.outputs :
     (d.applying => d.index <= k) /\ ~MatchesState(d, k, r.outputs[k].state)}

\* The slots with an output to read or set.
Unapplied(r, d) ==
  {i \in ToApply(r, d) : ~Mismatched(r[i], d[i]) /\ Unmatched(r[i], d[i]) # {}}

\* The loop of _serviceApply ends the other intents, as far as it comes.
Settle(r, d) ==
  IF Mismatched(r, d) THEN NoIntent
  ELSE [d EXCEPT !.pending = FALSE, !.applying = FALSE, !.index = 1, !.attempts = 0]

Settled(r, d, S) ==
  [i \in Slots |->
     IF i \in S \cap (ToApply(r, d) \ Unapplied(r, d)) THEN Settle(r[i], d[i]) ELSE d[i]]

\* The cursor moved over the outputs that match.
AtOutput(d, k) ==
  [d EXCEPT !.applying = TRUE, !.index = k,
            !.attempts = IF d.applying /\ d.index = k THEN @ ELSE 0]

\* _periodicSlot: a cycle that is under way goes on.
Pollable(r, E) ==
  IF \E i \in Slots : r[i].inCycle THEN {i \in Slots : r[i].inCycle}
  ELSE {i \in Slots : Len(r[i].outputs) > 0 /\ (r[i].nextPollAt => <<i, "Poll">> \in E)}

-----------------------------------------------------------------------------
(* The bus and the outputs                                                 *)

\* What an output may do with a command; a set may be ignored.
Reactions(state, command) ==
  IF command = "Get" \/ state = "Disconnected" THEN {state}
  ELSE {IF command = "SetOn" THEN "On" ELSE "Off"} \cup (IF calm THEN {} ELSE {state})

\* The answer and the output after a command: a lost answer does not tell
\* whether the command was lost too.
Exchanges(i, k, command) ==
  LET reached == Reactions(board[i][k], command)
  IN  {[reply |-> state, state |-> state] : state \in reached}
        \cup (IF Lossy(i) THEN {[reply |-> "Failed", state |-> state] :
                                  state \in reached \cup {board[i][k]}}
              ELSE {})

\* A query to output k of slot i with its outcome x.
Query(i, k, command, x) ==
  /\ board' = [board EXCEPT ![i][k] = x.state]
  /\ switched' = IF command = "SetOn" THEN {<<i, k>>} ELSE {}

-----------------------------------------------------------------------------
(* update()                                                                *)

\* _silenceStarted and _failsafeActive after _armSilence.
WindowCloses(elapsed) == silence = "Closed" \/ (silence = "Open" /\ elapsed)

\* The slots after _syncSessions and _armSilence.
PreparedRuntime == [i \in Slots |-> SyncRuntime(runtime[i], view[i])]

PreparedIntent(elapsed) ==
  [i \in Slots |->
     LET synced == SyncIntent(intent[i], runtime[i], view[i])
     IN  IF WindowCloses(elapsed) THEN ArmAllOff(synced) ELSE synced]

\* What every pass does beside its query.
Turn(elapsed) ==
  /\ silence' = IF WindowCloses(elapsed) THEN "Closed" ELSE "Open"
  /\ changed' = {}
  /\ wanted' = [i \in Slots |->
       IF CannotHold(view[i], Solenoid) \/ WindowCloses(elapsed) THEN << >> ELSE wanted[i]]
  /\ UNCHANGED <<view, calm>>

ServiceCount(r, d, E) ==
  \E i \in Lowest(NeedingCount(r, d, E)) :
   \E count \in {Len(board[i])} \cup (IF Lossy(i) THEN {NoCount} ELSE {}) :
    /\ runtime' = [r EXCEPT ![i] = Counted(@, count)]
    /\ intent' = d
    /\ switched' = {}
    /\ UNCHANGED board

\* Each service runs only when the earlier ones had no query to issue.
ServiceApply(r, d, E) ==
  /\ NeedingCount(r, d, E) = {}
  /\ \E i \in Lowest(Unapplied(r, d)) : \E k \in Lowest(Unmatched(r[i], d[i])) :
       LET state == r[i].outputs[k].state
           command == CASE state = "Unknown" -> "Get"
                        [] state # "Unknown" /\ DesiredOn(d[i], k) -> "SetOn"
                        [] OTHER -> "SetOff"
           passed == Settled(r, d, {j \in Slots : j < i})
           at == AtOutput(d[i], k)
       IN  \E x \in Exchanges(i, k, command) :
             /\ Query(i, k, command, x)
             /\ intent' = [passed EXCEPT ![i] = IF command = "Get" THEN ReadForApply(at, x.reply)
                                                ELSE SetAnswered(at, x.reply)]
             /\ runtime' = IF x.reply = "Failed" THEN r
                           ELSE [r EXCEPT ![i] = Remember(@, k, x.reply)]

Idle(r, d, E) == NeedingCount(r, d, E) = {} /\ Unapplied(r, d) = {}

ServicePeriodic(r, d, E) ==
  /\ Idle(r, d, E)
  /\ \E i \in Lowest(Pollable(r, E)) : \E x \in Exchanges(i, r[i].index, "Get") :
       /\ Query(i, r[i].index, "Get", x)
       /\ runtime' = [r EXCEPT ![i] = Polled(@, x.reply)]
       /\ intent' = [Settled(r, d, Slots) EXCEPT ![i] = RemindOff(@, x.reply)]

NothingDue(r, d, E) ==
  /\ Idle(r, d, E) /\ Pollable(r, E) = {}
  /\ runtime' = r
  /\ intent' = Settled(r, d, Slots)
  /\ switched' = {}
  /\ UNCHANGED board

Update(E, elapsed) ==
  /\ Turn(elapsed)
  /\ LET r == PreparedRuntime
         d == PreparedIntent(elapsed)
     IN  \/ ServiceCount(r, d, E)
         \/ ServiceApply(r, d, E)
         \/ ServicePeriodic(r, d, E)
         \/ NothingDue(r, d, E)

\* A command that arrives over MQTT.
CommandStates(i, desired) ==
  /\ ~calm
  /\ silence' = "Open"
  /\ intent' = [intent EXCEPT
       ![i] = Restarted([NoIntent EXCEPT !.kind = "States", !.desired = desired])]
  /\ wanted' = [wanted EXCEPT ![i] = desired]
  /\ switched' = {}
  /\ UNCHANGED <<runtime, view, changed, board, calm>>

-----------------------------------------------------------------------------
(* The environment                                                         *)

HostChanges(i) ==
  /\ HostMoves(i)
  /\ switched' = {}
  /\ UNCHANGED <<pollerVars, board, wanted, calm>>

Boards ==
  {b \in UNION {[1 .. n -> OutputStates] : n \in Counts} :
     \A k \in DOMAIN b \ Loose : b[k] # "Disconnected"}

\* Another module is plugged in, possibly with outputs that are on.
BoardSwapped(i) ==
  /\ ~calm /\ view[i].state = "Empty"
  /\ board' \in {[board EXCEPT ![i] = b] : b \in Boards}
  /\ switched' = {}
  /\ UNCHANGED <<pollerVars, view, changed, wanted, calm>>

\* An output goes off by itself, or a solenoid is connected or disconnected.
OutputChanges(i) ==
  /\ ~calm
  /\ \E k \in DOMAIN board[i] :
     \E state \in {"Off"} \cup (IF k \in Loose THEN {"Disconnected"} ELSE {}) :
       board' = [board EXCEPT ![i][k] = state]
  /\ switched' = {}
  /\ UNCHANGED <<pollerVars, view, changed, wanted, calm>>

\* The controller reboots; the modules go on.
ControllerReset ==
  /\ ~calm
  /\ runtime' = [i \in Slots |-> NoRuntime]
  /\ intent' = [i \in Slots |-> NoIntent]
  /\ silence' = "Idle"
  /\ SlotsReboot
  /\ wanted' = [i \in Slots |-> << >>]
  /\ switched' = {}
  /\ UNCHANGED <<board, calm>>

\* A pass after the last change of a slot counts as disturbed: it may do more
\* than a calm one.
CalmDown ==
  /\ ~calm /\ changed = {}
  /\ calm' = TRUE
  /\ switched' = {}
  /\ UNCHANGED <<pollerVars, view, changed, board, wanted>>

-----------------------------------------------------------------------------
Init ==
  /\ runtime = [i \in Slots |-> NoRuntime]
  /\ intent = [i \in Slots |-> NoIntent]
  /\ silence = "Idle"
  /\ SlotsInit
  /\ board \in [Slots -> Boards]
  /\ wanted = [i \in Slots |-> << >>]
  /\ switched = {}
  /\ calm = FALSE

Next ==
  \/ \E E \in SUBSET Stored, elapsed \in {FALSE, silence = "Open"} : Update(E, elapsed)
  \/ \E i \in Slots, n \in 1 .. MaxOutputs : \E desired \in [1 .. n -> BOOLEAN] :
       CommandStates(i, desired)
  \/ \E i \in Slots : HostChanges(i)
  \/ \E i \in Slots : BoardSwapped(i)
  \/ \E i \in Slots : OutputChanges(i)
  \/ ControllerReset
  \/ CalmDown

\* As in PumpPoller: the loop runs for ever, and there are passes in which only
\* the timers of slot i have passed.
PassFor(i) ==
  /\ calm
  /\ \E elapsed \in {FALSE, silence = "Open"} :
       Update({t \in Stored : t[1] = i}, elapsed)

Spec == Init /\ [][Next]_vars
FairSpec == Spec /\ \A i \in Slots : WF_vars(PassFor(i))

-----------------------------------------------------------------------------
(* Correctness                                                             *)

\* Every variable stays in its type: no retry counter reaches its limit and no
\* cursor leaves the outputs.
SolenoidTypeOK ==
  /\ runtime \in [Slots -> RuntimeRecords]
  /\ intent \in [Slots -> IntentRecords]
  /\ silence \in {"Idle", "Open", "Closed"}
  /\ SlotsTypeOK
  /\ \A i \in Slots : runtime[i].inCycle => runtime[i].index \in DOMAIN runtime[i].outputs

\* OnOnlyCommanded: SET_SOLENOID on only goes to an output that the last command
\* for its slot named on, with as many states as the module has outputs.  The
\* command ends with the slot's chance to hold solenoids and with the window of
\* command absence (update(), _serviceApply and its cursor).
OnOnlyCommanded ==
  \A on \in switched :
    LET i == on[1]
        k == on[2]
    IN  Len(wanted[i]) = Len(board[i]) /\ wanted[i][k]

\* CommandApplied: a command that is to be applied to a module with as many
\* outputs, from a cache that is true, sets every connected output once
\* disturbances are over, unless the window of command absence closes first.
CommandApplied ==
  \A i \in Slots \ Broken :
    LET commanded == intent[i].kind = "States" /\ Len(intent[i].desired) = Len(board[i])
        waiting == intent[i].pending /\ ~intent[i].applying
        cacheTrue == \A k \in DOMAIN runtime[i].outputs :
                       runtime[i].outputs[k].state \in {"Unknown", board[i][k]}
    IN  (calm /\ Holds(view[i], Solenoid) /\ commanded /\ waiting /\ cacheTrue)
        ~> \/ silence = "Closed"
           \/ commanded /\ \A k \in DOMAIN board[i] : MatchesState(intent[i], k, board[i][k])

\* AllOffInSilence: after the window of command absence has closed every
\* reachable output ends off, also one that was on before a reboot, that comes
\* online later, or whose SET_SOLENOID off was lost as often as it was tried.
\* docs/reference/solenoid-module.md: "If no valid command arrives for 15
\* minutes, every solenoid output on every Online Solenoid module is commanded
\* off."
AllOffInSilence ==
  \A i \in Slots \ Broken :
    (calm /\ silence = "Closed" /\ Holds(view[i], Solenoid))
      ~> \A k \in DOMAIN board[i] : board[i][k] # "On"

\* FeedsKeepPromise: what the poller shows of every slot follows SolenoidFeed.
FeedsKeepPromise ==
  /\ \A i \in Slots : Feed(i)!Init
  /\ [][\A i \in Slots : [Feed(i)!Next]_(Feed(i)!feedVars)]_vars
=============================================================================
