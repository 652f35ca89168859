----------------------------- MODULE PumpProofs -----------------------------
(***************************************************************************)
(* No "on" without a command in force, and no reader that keeps showing a  *)
(* pump that is gone, for every number of slots, every retry limit, every  *)
(* pattern of losses and refused publishes and every poll interval.        *)
(*                                                                         *)
(* A pass goes over a slot in stages: the session is synchronised and the  *)
(* window applied (Prepared), matching slots are settled, one query is     *)
(* answered.  Only commandState makes "on" the desired state, so each      *)
(* stage has to keep or clear it, and Prepared has to clear it as soon as  *)
(* the window is closed or the slot cannot be a pump.                      *)
(*                                                                         *)
(* The bridge is the poller with a reader, so what is proved of the poller *)
(* (Spec) holds of it (BridgeSpec).                                        *)
(***************************************************************************)
EXTENDS PumpBridge, TLAPS

Tries == 0 .. QueryAttempts - 1
Services == {"Unknown", "Reset", "Apply", "Refresh", "Periodic"}
Commands == {"None", "Get", "Reset", "SetOn", "SetOff"}
Replies == PumpStates \cup {"Failed"}

-----------------------------------------------------------------------------
(* What the operations on one slot preserve                                *)

\* The counters stay below their limits.
LEMMA Counters ==
  /\ 0 \in Tries
  /\ 0 \in 0 .. RevisionModulus - 1
  /\ 0 \in 0 .. EpochModulus - 1
  /\ \A n \in Tries : Attempt(n) \in Tries
  /\ \A n \in Tries : ~Exhausted(n) => n + 1 \in Tries
  /\ \A p \in PumpRecords : NextRevision(p) \in 0 .. RevisionModulus - 1
BY PollerAssumption, SlotsAssumption DEF Tries, Attempt, Exhausted, NextRevision, PumpRecords

\* A cleared slot is well formed.
LEMMA ClearedKeeps == Cleared \in PumpRecords
BY Counters DEF Cleared, PumpRecords, PumpStates, Tries

LEMMA ClearKeeps ==
  ASSUME NEW p \in PumpRecords
  PROVE  /\ ClearCache(p) \in PumpRecords
         /\ ClearCache(p).desired = p.desired
         /\ ClearIntent(p) \in PumpRecords
         /\ ClearIntent(p).desired = "None"
<1>1. /\ ClearCache(p) \in PumpRecords
      /\ ClearCache(p).desired = p.desired
  BY Counters DEF ClearCache, PumpRecords, PumpStates, Tries
<1>2. /\ ClearIntent(p) \in PumpRecords
      /\ ClearIntent(p).desired = "None"
  BY Counters DEF ClearIntent, PumpRecords, Tries
<1>3. QED
  BY <1>1, <1>2

\* A session may drop the desired state and never invents one; it drops it when
\* the slot cannot be a pump.
LEMMA SyncKeeps ==
  ASSUME NEW p \in PumpRecords, NEW i \in Slots, NEW v \in ViewRecords(i)
  PROVE  LET t == SyncSession(p, v)
         IN  /\ t \in PumpRecords
             /\ t.desired \in {p.desired, "None"}
             /\ CannotHold(v, Pump) => t.desired = "None"
<1>1. ClearIntent(ClearCache(p)) \in PumpRecords
  BY ClearKeeps
<1>2. v.epoch \in 0 .. EpochModulus - 1
  BY DEF ViewRecords
<1>3. /\ Reidentified(p, v.epoch) \in PumpRecords
      /\ Reidentified(p, v.epoch).desired = p.desired
  <2> DEFINE c == ClearCache(p)
             again == c.applyPending \/ p.desired # "None"
             refresh == c.refreshNow \/ p.desired = "On"
             t == [c EXCEPT !.epoch = v.epoch, !.applyAttempts = 0, !.resetAttempts = 0,
                            !.refreshAttempts = 0, !.applyPending = again,
                            !.refreshNow = refresh]
  <2>1. c \in PumpRecords /\ c.desired = p.desired
    BY ClearKeeps
  <2>2. again \in BOOLEAN /\ refresh \in BOOLEAN
    BY <2>1 DEF PumpRecords
  <2>3. Reidentified(p, v.epoch) = t
    BY DEF Reidentified
  <2> HIDE DEF c, again, refresh
  <2>4. t \in PumpRecords /\ t.desired = p.desired
    BY <1>2, <2>1, <2>2, Counters DEF PumpRecords, Tries
  <2>5. QED
    BY <2>3, <2>4
<1>4. Holds(v, Pump) => ~CannotHold(v, Pump)
  BY DEF Holds, CannotHold
<1>5. QED
  BY <1>1, <1>3, <1>4, ClearKeeps DEF SyncSession

LEMMA ArmOffKeeps ==
  ASSUME NEW p \in PumpRecords
  PROVE  /\ ArmOff(p) \in PumpRecords
         /\ ArmOff(p).desired = "Off"
BY Counters DEF ArmOff, PumpRecords, Tries

LEMMA RememberKeeps ==
  ASSUME NEW p \in PumpRecords, NEW state \in PumpStates, NEW fromPoll \in BOOLEAN
  PROVE  /\ RememberState(p, state, fromPoll) \in PumpRecords
         /\ RememberState(p, state, fromPoll).desired = p.desired
<1> DEFINE stored == [p EXCEPT !.known = TRUE, !.state = state, !.revision = NextRevision(p)]
<1>1. stored \in PumpRecords /\ stored.desired = p.desired
  BY Counters DEF PumpRecords
<1> HIDE DEF stored
<1>2. /\ [stored EXCEPT !.applyPending = TRUE, !.applyAttempts = 0] \in PumpRecords
      /\ [stored EXCEPT !.applyPending = TRUE, !.applyAttempts = 0].desired = p.desired
  BY <1>1, Counters DEF PumpRecords, Tries
<1>3. QED
  BY <1>1, <1>2 DEF RememberState, stored

LEMMA ApplyKeeps ==
  ASSUME NEW p \in PumpRecords, NEW due \in BOOLEAN
  PROVE  /\ ApplyDone(p) \in PumpRecords
         /\ ApplyDone(p).desired = p.desired
         /\ NoteApplyFail(p) \in PumpRecords
         /\ NoteApplyFail(p).desired = p.desired
         /\ ArmOnRefresh(p, due) \in PumpRecords
         /\ ArmOnRefresh(p, due).desired = p.desired
BY Counters DEF ApplyDone, NoteApplyFail, ArmOnRefresh, Exhausted, PumpRecords, Tries

\* No answer changes the desired state.
LEMMA AnsweredKeeps ==
  ASSUME NEW p \in PumpRecords, NEW service \in Services, NEW reply \in Replies,
         NEW due \in BOOLEAN
  PROVE  /\ Answered(service, p, reply, due) \in PumpRecords
         /\ Answered(service, p, reply, due).desired = p.desired
<1>1. /\ StateRead(p, reply, due) \in PumpRecords
      /\ StateRead(p, reply, due).desired = p.desired
  <2>1. CASE reply = "Failed"
    BY <2>1, Counters DEF StateRead, PumpRecords, Tries
  <2>2. CASE reply # "Failed"
    <3> DEFINE w == RememberState(p, reply, TRUE)
    <3>1. w \in PumpRecords /\ w.desired = p.desired
      BY <2>2, RememberKeeps DEF Replies
    <3>2. StateRead(p, reply, due) =
            [w EXCEPT !.readAttempts = 0, !.readRetryAt = FALSE, !.nextPollAt = due]
      BY <2>2 DEF StateRead
    <3> HIDE DEF w
    <3>3. QED
      BY <3>1, <3>2, Counters DEF PumpRecords, Tries
  <2>3. QED
    BY <2>1, <2>2
<1>2. /\ StatePolled(p, reply, due) \in PumpRecords
      /\ StatePolled(p, reply, due).desired = p.desired
  <2>1. CASE reply = "Failed"
    BY <2>1, Counters DEF StatePolled, PumpRecords, Tries
  <2>2. CASE reply # "Failed"
    <3> DEFINE w == RememberState(p, reply, TRUE)
    <3>1. w \in PumpRecords /\ w.desired = p.desired
      BY <2>2, RememberKeeps DEF Replies
    <3>2. StatePolled(p, reply, due) = [w EXCEPT !.readAttempts = 0, !.nextPollAt = due]
      BY <2>2 DEF StatePolled
    <3> HIDE DEF w
    <3>3. QED
      BY <3>1, <3>2, Counters DEF PumpRecords, Tries
  <2>3. QED
    BY <2>1, <2>2
<1>3. /\ ResetAnswered(p, reply) \in PumpRecords
      /\ ResetAnswered(p, reply).desired = p.desired
  <2>1. CASE reply = "Failed"
    BY <2>1, Counters DEF ResetAnswered, Exhausted, PumpRecords, Tries
  <2>2. CASE reply # "Failed"
    <3> DEFINE w == RememberState(p, reply, TRUE)
    <3>1. w \in PumpRecords /\ w.desired = p.desired
      BY <2>2, RememberKeeps DEF Replies
    <3>2. ResetAnswered(p, reply) = [w EXCEPT !.resetPending = FALSE, !.resetAttempts = 0]
      BY <2>2 DEF ResetAnswered
    <3> HIDE DEF w
    <3>3. QED
      BY <3>1, <3>2, Counters DEF PumpRecords, Tries
  <2>3. QED
    BY <2>1, <2>2
<1>4. /\ SetAnswered(p, reply, due) \in PumpRecords
      /\ SetAnswered(p, reply, due).desired = p.desired
  <2>1. CASE reply = "Failed"
    BY <2>1, ApplyKeeps DEF SetAnswered
  <2>2. CASE reply # "Failed"
    <3> DEFINE w == RememberState(p, reply, FALSE)
    <3>1. w \in PumpRecords /\ w.desired = p.desired
      BY <2>2, RememberKeeps DEF Replies
    <3>2. SetAnswered(p, reply, due) \in
            {ArmOnRefresh(ApplyDone(w), due), ApplyDone(w), NoteApplyFail(w)}
      BY <2>2 DEF SetAnswered
    <3> HIDE DEF w
    <3>3. QED
      BY <3>1, <3>2, ApplyKeeps
  <2>3. QED
    BY <2>1, <2>2
<1>5. /\ RefreshAnswered(p, reply, due) \in PumpRecords
      /\ RefreshAnswered(p, reply, due).desired = p.desired
  <2>1. CASE reply = "Failed" /\ Exhausted(p.refreshAttempts)
    BY <2>1, ApplyKeeps DEF RefreshAnswered
  <2>2. CASE reply = "Failed" /\ ~Exhausted(p.refreshAttempts)
    BY <2>2, Counters DEF RefreshAnswered, PumpRecords, Tries
  <2>3. CASE reply # "Failed"
    <3> DEFINE w == RememberState(p, reply, TRUE)
    <3>1. w \in PumpRecords /\ w.desired = p.desired
      BY <2>3, RememberKeeps DEF Replies
    <3> DEFINE stopped == [w EXCEPT !.refreshNow = FALSE, !.refreshArmed = FALSE,
                                    !.refreshAttempts = 0, !.nextPollAt = due]
               answered == [w EXCEPT !.refreshNow = FALSE, !.refreshAttempts = 0]
    <3>2. RefreshAnswered(p, reply, due) \in {ArmOnRefresh(w, due), stopped, answered}
      BY <2>3 DEF RefreshAnswered
    <3> HIDE DEF w
    <3>3. /\ stopped \in PumpRecords /\ stopped.desired = w.desired
          /\ answered \in PumpRecords /\ answered.desired = w.desired
      BY <3>1, Counters DEF PumpRecords, Tries
    <3>4. /\ ArmOnRefresh(w, due) \in PumpRecords
          /\ ArmOnRefresh(w, due).desired = w.desired
      BY <3>1, ApplyKeeps
    <3> HIDE DEF stopped, answered
    <3>5. QED
      BY <3>1, <3>2, <3>3, <3>4
  <2>4. QED
    BY <2>1, <2>2, <2>3
<1>6. QED
  BY <1>1, <1>2, <1>3, <1>4, <1>5 DEF Answered, Services

LEMMA SettledKeeps ==
  ASSUME NEW q \in [Slots -> PumpRecords], NEW S
  PROVE  /\ Settled(q, S) \in [Slots -> PumpRecords]
         /\ \A i \in Slots : Settled(q, S)[i].desired = q[i].desired
<1>1. \A i \in Slots : /\ ApplyDone(q[i]) \in PumpRecords
                       /\ ApplyDone(q[i]).desired = q[i].desired
  BY ApplyKeeps
<1>2. QED
  BY <1>1 DEF Settled

-----------------------------------------------------------------------------
(* The invariant                                                           *)

\* An "on" in the poller stands for the last command of the slot.
Wants(q, w) == \A i \in Slots : q[i].desired = "On" => w[i] = "On"

PollerInv == TypeOK /\ Wants(pumps, wanted) /\ OnOnlyWanted

\* What a pass goes by: "on" is still wanted, and the window is open.
Allowed(q) ==
  /\ q \in [Slots -> PumpRecords]
  /\ \A i \in Slots : q[i].desired = "On" => wanted'[i] = "On" /\ silence' = "Open"

\* The turn of the loop keeps its own variables in their types, and leaves an
\* "on" only where it is wanted.
LEMMA TurnKeeps ==
  ASSUME PollerInv, NEW elapsed \in BOOLEAN, Turn(elapsed)
  PROVE  /\ Allowed(Prepared(elapsed))
         /\ silence' \in {"Idle", "Open", "Closed"}
         /\ wanted' \in [Slots -> {"None", "On", "Off"}]
         /\ changed' \subseteq Slots
         /\ view' = view /\ calm' = calm
<1> DEFINE q == Prepared(elapsed)
<1>1. ASSUME NEW i \in Slots
      PROVE  /\ q[i] \in PumpRecords
             /\ q[i].desired = "On" => wanted'[i] = "On" /\ silence' = "Open"
  <2> DEFINE t == SyncSession(pumps[i], view[i])
  <2>1. /\ pumps[i] \in PumpRecords
        /\ view[i] \in ViewRecords(i)
    BY DEF PollerInv, TypeOK, SlotsTypeOK
  <2>2. /\ t \in PumpRecords
        /\ t.desired \in {pumps[i].desired, "None"}
        /\ CannotHold(view[i], Pump) => t.desired = "None"
    BY <2>1, SyncKeeps
  <2> HIDE DEF t
  <2>3. CASE ArmsOff(elapsed)
    <3>1. q[i] = ArmOff(t)
      BY <2>3 DEF Prepared, t
    <3>2. QED
      BY <2>2, <3>1, ArmOffKeeps
  <2>4. CASE ~ArmsOff(elapsed)
    <3>1. q[i] = t
      BY <2>4 DEF Prepared, t
    <3>2. silence' = "Open"
      BY <2>4 DEF Turn, ArmsOff
    <3>3. t.desired = "On" => pumps[i].desired = "On" /\ ~CannotHold(view[i], Pump)
      BY <2>2
    <3>4. t.desired = "On" => wanted'[i] = "On"
      BY <3>3 DEF PollerInv, Wants, Turn
    <3>5. QED
      BY <2>2, <3>1, <3>2, <3>4
  <2>5. QED
    BY <2>3, <2>4
<1>2. q = [i \in Slots |-> q[i]]
  BY DEF Prepared
<1> HIDE DEF q
<1>3. Allowed(q)
  BY <1>1, <1>2 DEF Allowed
<1>4. QED
  BY <1>3 DEF q, Turn, PollerInv, TypeOK, SlotsTypeOK

\* What a pump may do is a state of a pump.
LEMMA ReactionsKeep ==
  ASSUME NEW state \in PumpStates, NEW command \in Commands \ {"None"}
  PROVE  Reactions(state, command) \subseteq PumpStates
BY DEF Reactions, PumpStates, Commands

LEMMA ExchangesKeep ==
  ASSUME NEW i \in Slots, motor[i] \in PumpStates, NEW command \in Commands \ {"None"},
         NEW x \in Exchanges(i, command)
  PROVE  x.reply \in Replies /\ x.motor \in PumpStates
<1>1. Reactions(motor[i], command) \subseteq PumpStates
  BY ReactionsKeep
<1>2. QED
  BY <1>1 DEF Exchanges, Replies

\* A query from a prepared poller sends "on" only where it is allowed.
LEMMA ServeKeeps ==
  ASSUME PollerInv, NEW q, Allowed(q), NEW S \in SUBSET Slots, NEW service \in Services,
         service = "Refresh" => \A i \in S : q[i].desired = "On",
         Serve(q, S, service)
  PROVE  /\ pumps' \in [Slots -> PumpRecords]
         /\ Wants(pumps, wanted)'
         /\ motor' \in [Slots -> PumpStates]
         /\ issued' \in [slot : Slots, command : Commands]
         /\ OnOnlyWanted'
<1>1. PICK i \in S :
        LET command == CommandOf(service, q[i])
        IN  \E x \in Exchanges(i, command), due \in Dues :
              /\ pumps' = [q EXCEPT ![i] = Answered(service, q[i], x.reply, due)]
              /\ motor' = [motor EXCEPT ![i] = x.motor]
              /\ issued' = [slot |-> i, command |-> command]
  BY DEF Serve
<1> DEFINE command == CommandOf(service, q[i])
<1>2. PICK x \in Exchanges(i, command), due \in Dues :
        /\ pumps' = [q EXCEPT ![i] = Answered(service, q[i], x.reply, due)]
        /\ motor' = [motor EXCEPT ![i] = x.motor]
        /\ issued' = [slot |-> i, command |-> command]
  BY <1>1
<1>3. /\ command \in Commands \ {"None"}
      /\ command = "SetOn" => q[i].desired = "On"
  BY DEF CommandOf, Commands, Services
<1> HIDE DEF command
<1>4. i \in Slots /\ due \in BOOLEAN
  BY DEF Dues
<1>5. motor \in [Slots -> PumpStates] /\ q \in [Slots -> PumpRecords]
  BY DEF PollerInv, TypeOK, SlotsTypeOK, Allowed
<1>6. x.reply \in Replies /\ x.motor \in PumpStates
  BY <1>3, <1>4, <1>5, ExchangesKeep
<1>7. /\ Answered(service, q[i], x.reply, due) \in PumpRecords
      /\ Answered(service, q[i], x.reply, due).desired = q[i].desired
  BY <1>4, <1>5, <1>6, AnsweredKeeps
<1>8. /\ pumps' \in [Slots -> PumpRecords]
      /\ \A j \in Slots : pumps'[j].desired = q[j].desired
  BY <1>2, <1>4, <1>5, <1>7
<1>9. Wants(pumps, wanted)'
  BY <1>8 DEF Wants, Allowed
<1>10. OnOnlyWanted'
  BY <1>2, <1>3, <1>4 DEF OnOnlyWanted, Allowed
<1>11. QED
  BY <1>2, <1>3, <1>4, <1>5, <1>6, <1>8, <1>9, <1>10

-----------------------------------------------------------------------------
(* The steps                                                               *)

\* A pass of the poller.
LEMMA UpdateKeeps ==
  ASSUME PollerInv, NEW E, NEW elapsed \in BOOLEAN, Update(E, elapsed)
  PROVE  PollerInv'
<1> DEFINE q == Prepared(elapsed)
<1>1. Turn(elapsed)
  BY DEF Update
<1>2. /\ Allowed(q)
      /\ silence' \in {"Idle", "Open", "Closed"}
      /\ wanted' \in [Slots -> {"None", "On", "Off"}]
      /\ changed' \subseteq Slots
      /\ view' = view /\ calm' = calm
  BY <1>1, TurnKeeps
<1>3. \A T : Allowed(Settled(q, T))
  BY <1>2, SettledKeeps DEF Allowed
<1>4. ASSUME NEW S \in SUBSET Slots, NEW T, NEW service \in Services,
             NEW p \in {q, Settled(q, T)}, Serve(p, S, service),
             service = "Refresh" => \A i \in S : p[i].desired = "On"
      PROVE  PollerInv'
  <2>1. Allowed(p)
    BY <1>2, <1>3, <1>4
  <2> HIDE DEF q
  <2>2. /\ pumps' \in [Slots -> PumpRecords]
        /\ Wants(pumps, wanted)'
        /\ motor' \in [Slots -> PumpStates]
        /\ issued' \in [slot : Slots, command : Commands]
        /\ OnOnlyWanted'
    BY <1>4, <2>1, ServeKeeps
  <2>3. TypeOK'
    BY <1>2, <2>2 DEF PollerInv, TypeOK, SlotsTypeOK, Commands
  <2>4. QED
    BY <2>2, <2>3 DEF PollerInv
<1>5. Known(q) \subseteq Slots
  BY DEF Known, Active
<1>6. CASE ServiceUnknown(q, E)
  <2>1. Serve(q, NeedingState(q, E), "Unknown") /\ NeedingState(q, E) \subseteq Slots
    BY <1>6 DEF ServiceUnknown, NeedingState, Active
  <2> HIDE DEF q
  <2>2. QED
    BY <1>4, <2>1 DEF Services
<1>7. CASE ServiceReset(q, E)
  <2>1. Serve(q, Resettable(q), "Reset") /\ Resettable(q) \subseteq Slots
    BY <1>5, <1>7 DEF ServiceReset, Resettable
  <2> HIDE DEF q
  <2>2. QED
    BY <1>4, <2>1 DEF Services
<1>8. CASE ServiceApply(q, E)
  <2> DEFINE passed == {j \in Slots : \A i \in Unmatched(q) : j < i}
  <2>1. Serve(Settled(q, passed), Unmatched(q), "Apply") /\ Unmatched(q) \subseteq Slots
    BY <1>5, <1>8 DEF ServiceApply, Unmatched, Applicable
  <2> HIDE DEF q, passed
  <2>2. QED
    BY <1>4, <2>1 DEF Services
<1>9. CASE ServiceRefresh(q, E)
  <2>1. /\ Serve(Settled(q, Slots), Refreshable(q, E), "Refresh")
        /\ Refreshable(q, E) \subseteq Slots
        /\ \A i \in Refreshable(q, E) : q[i].desired = "On"
    BY <1>5, <1>9 DEF ServiceRefresh, Refreshable
  <2>2. \A i \in Slots : Settled(q, Slots)[i].desired = q[i].desired
    BY <1>2, SettledKeeps DEF Allowed
  <2> HIDE DEF q
  <2>3. \A i \in Refreshable(q, E) : Settled(q, Slots)[i].desired = "On"
    BY <2>1, <2>2
  <2>4. QED
    BY <1>4, <2>1, <2>3 DEF Services
<1>10. CASE ServicePeriodic(q, E)
  <2>1. Serve(Settled(q, Slots), Pollable(q, E), "Periodic") /\ Pollable(q, E) \subseteq Slots
    BY <1>5, <1>10 DEF ServicePeriodic, Pollable
  <2> HIDE DEF q
  <2>2. QED
    BY <1>4, <2>1 DEF Services
<1>11. CASE NothingDue(q, E)
  <2>1. /\ pumps' = Settled(q, Slots)
        /\ issued' = Nothing
        /\ motor' = motor
    BY <1>11 DEF NothingDue
  <2>2. /\ pumps' \in [Slots -> PumpRecords]
        /\ Wants(pumps, wanted)'
    BY <1>3, <2>1 DEF Allowed, Wants
  <2>3. OnOnlyWanted' /\ issued' \in [slot : Slots, command : Commands]
    BY <2>1, PollerAssumption, SlotsAssumption DEF OnOnlyWanted, Nothing, Commands, Slots
  <2> HIDE DEF q
  <2>4. TypeOK'
    BY <1>2, <2>1, <2>2, <2>3 DEF PollerInv, TypeOK, SlotsTypeOK, Commands
  <2>5. QED
    BY <2>2, <2>3, <2>4 DEF PollerInv
<1>12. QED
  BY <1>6, <1>7, <1>8, <1>9, <1>10, <1>11 DEF Update

LEMMA NothingTyped ==
  Nothing \in [slot : Slots, command : Commands] /\ Nothing.command # "SetOn"
BY PollerAssumption, SlotsAssumption DEF Nothing, Slots, Commands

\* A command over MQTT.
LEMMA CommandKeeps ==
  ASSUME PollerInv, NEW i \in Slots, NEW state \in {"On", "Off"},
         CommandState(i, state) \/ CommandReset(i)
  PROVE  PollerInv'
<1>1. pumps[i] \in PumpRecords
  BY DEF PollerInv, TypeOK, SlotsTypeOK
<1>2. CASE CommandState(i, state)
  <2> DEFINE t == IF state = "On" THEN CommandedOn(pumps[i]) ELSE CommandedOff(pumps[i])
  <2>1. t \in PumpRecords /\ t.desired = state
    BY <1>1, Counters DEF CommandedOn, CommandedOff, PumpRecords, Tries
  <2>2. /\ pumps' = [pumps EXCEPT ![i] = t]
        /\ wanted' = [wanted EXCEPT ![i] = state]
        /\ silence' = "Open"
        /\ issued' = Nothing
        /\ UNCHANGED <<view, changed, motor, calm>>
    BY <1>2 DEF CommandState
  <2> HIDE DEF t
  <2>3. Wants(pumps, wanted)'
    BY <2>1, <2>2 DEF PollerInv, TypeOK, SlotsTypeOK, Wants
  <2>4. TypeOK'
    BY <2>1, <2>2, NothingTyped DEF PollerInv, TypeOK, SlotsTypeOK, Commands
  <2>5. QED
    BY <2>2, <2>3, <2>4, NothingTyped DEF PollerInv, OnOnlyWanted
<1>3. CASE CommandReset(i)
  <2> DEFINE t == [pumps[i] EXCEPT !.resetPending = TRUE, !.resetAttempts = 0]
  <2>1. t \in PumpRecords /\ t.desired = pumps[i].desired
    BY <1>1, Counters DEF PumpRecords, Tries
  <2>2. pumps' = [pumps EXCEPT ![i] = t]
    BY <1>1, <1>3 DEF CommandReset, PollerInv, TypeOK, SlotsTypeOK
  <2>3. issued' = Nothing /\ UNCHANGED <<silence, view, changed, motor, wanted, calm>>
    BY <1>3 DEF CommandReset
  <2> HIDE DEF t
  <2>4. Wants(pumps, wanted)'
    BY <2>1, <2>2, <2>3 DEF PollerInv, TypeOK, SlotsTypeOK, Wants
  <2>5. TypeOK'
    BY <2>1, <2>2, <2>3, NothingTyped DEF PollerInv, TypeOK, SlotsTypeOK, Commands
  <2>6. QED
    BY <2>3, <2>4, <2>5, NothingTyped DEF PollerInv, OnOnlyWanted
<1>4. QED
  BY <1>2, <1>3

\* The slots, the pumps and a reboot.
LEMMA OutsideKeeps ==
  ASSUME PollerInv, NEW i \in Slots,
         HostChanges(i) \/ MotorChanges(i) \/ ControllerReset \/ CalmDown
  PROVE  PollerInv'
<1>1. issued' = Nothing
  BY DEF HostChanges, HostMoves, MotorChanges, ControllerReset, SlotsReboot, CalmDown
<1>2. OnOnlyWanted'
  BY <1>1, NothingTyped DEF OnOnlyWanted
<1>3. Wants(pumps, wanted)'
  BY DEF PollerInv, Wants, HostChanges, HostMoves, MotorChanges, ControllerReset, SlotsReboot, CalmDown, Cleared
<1>4. CASE HostChanges(i)
  <2>1. PICK v \in ViewRecords(i) : view' = [view EXCEPT ![i] = v]
    BY <1>4 DEF HostChanges, HostMoves
  <2>2. /\ view' = [j \in Slots |-> view'[j]]
        /\ \A j \in Slots : view'[j] \in ViewRecords(j)
    BY <2>1 DEF PollerInv, TypeOK, SlotsTypeOK
  <2>3. TypeOK'
    BY <1>1, <1>4, <2>2, NothingTyped DEF HostChanges, HostMoves, PollerInv, TypeOK, SlotsTypeOK, Commands
  <2>4. QED
    BY <1>2, <1>3, <2>3 DEF PollerInv
<1>5. CASE MotorChanges(i)
  <2>1. motor' \in [Slots -> PumpStates]
    BY <1>5 DEF MotorChanges, PollerInv, TypeOK, SlotsTypeOK, PumpStates
  <2>2. TypeOK'
    BY <1>1, <1>5, <2>1, NothingTyped DEF MotorChanges, PollerInv, TypeOK, SlotsTypeOK, Commands
  <2>3. QED
    BY <1>2, <1>3, <2>2 DEF PollerInv
<1>6. CASE ControllerReset
  <2>1. \A j \in Slots : EmptySlot \in ViewRecords(j)
    BY PollerAssumption, SlotsAssumption DEF EmptySlot, ViewRecords
  <2>2. pumps' \in [Slots -> PumpRecords] /\ wanted' \in [Slots -> {"None", "On", "Off"}]
    BY <1>6, ClearedKeeps DEF ControllerReset, SlotsReboot
  <2>3. /\ view' = [j \in Slots |-> view'[j]]
        /\ \A j \in Slots : view'[j] \in ViewRecords(j)
    BY <1>6, <2>1 DEF ControllerReset, SlotsReboot
  <2>4. TypeOK'
    BY <1>1, <1>6, <2>2, <2>3, NothingTyped DEF ControllerReset, SlotsReboot, PollerInv, TypeOK, SlotsTypeOK, Commands
  <2>5. QED
    BY <1>2, <1>3, <2>4 DEF PollerInv
<1>7. CASE CalmDown
  <2>1. TypeOK'
    BY <1>1, <1>7, NothingTyped DEF CalmDown, PollerInv, TypeOK, SlotsTypeOK, Commands
  <2>2. QED
    BY <1>2, <1>3, <2>1 DEF PollerInv
<1>8. QED
  BY <1>4, <1>5, <1>6, <1>7

LEMMA InitPollerInv == Init => PollerInv
<1> SUFFICES ASSUME Init PROVE PollerInv
  OBVIOUS
<1>1. \A j \in Slots : EmptySlot \in ViewRecords(j)
  BY PollerAssumption, SlotsAssumption DEF EmptySlot, ViewRecords
<1>2. TypeOK
  BY <1>1, ClearedKeeps, NothingTyped DEF Init, SlotsInit, TypeOK, SlotsTypeOK, Commands
<1>3. Wants(pumps, wanted)
  BY DEF Init, SlotsInit, Wants, Cleared
<1>4. QED
  BY <1>2, <1>3, NothingTyped DEF Init, SlotsInit, PollerInv, OnOnlyWanted

-----------------------------------------------------------------------------
\* PollerInv holds in every reachable state, for every interleaving of passes,
\* commands, losses, swapped modules and reboots.
THEOREM PollerInvariance == Spec => []PollerInv
<1>1. PollerInv /\ [Next]_vars => PollerInv'
  <2> SUFFICES ASSUME PollerInv, [Next]_vars PROVE PollerInv'
    OBVIOUS
  <2>1. CASE UNCHANGED vars
    BY <2>1 DEF vars, PollerInv, TypeOK, SlotsTypeOK, Wants, OnOnlyWanted
  <2>2. ASSUME NEW E \in SUBSET Stored, NEW elapsed \in {FALSE, silence = "Open"},
               Update(E, elapsed)
        PROVE  PollerInv'
    BY <2>2, UpdateKeeps
  <2>3. ASSUME NEW i \in Slots, NEW state \in {"On", "Off"}, CommandState(i, state)
        PROVE  PollerInv'
    BY <2>3, CommandKeeps
  <2>4. ASSUME NEW i \in Slots, CommandReset(i)
        PROVE  PollerInv'
    BY <2>4, CommandKeeps
  <2>5. ASSUME NEW i \in Slots, HostChanges(i) \/ MotorChanges(i)
        PROVE  PollerInv'
    BY <2>5, OutsideKeeps
  <2>6. CASE ControllerReset \/ CalmDown
    <3>1. 0 \in Slots
      BY PollerAssumption, SlotsAssumption DEF Slots
    <3>2. QED
      BY <2>6, <3>1, OutsideKeeps
  <2>7. QED
    BY <2>1, <2>2, <2>3, <2>4, <2>5, <2>6 DEF Next
<1>2. QED
  BY InitPollerInv, <1>1, PTL DEF Spec

\* TypeOK: no retry counter reaches its limit, the revision is never out of
\* range.
THEOREM PumpTypeCorrect == Spec => []TypeOK
<1>1. PollerInv => TypeOK
  BY DEF PollerInv
<1>2. QED
  BY <1>1, PollerInvariance, PTL

\* OnOnlyWanted: _serviceApply and _serviceRefresh never send an "on" that no
\* command is in force for.
THEOREM OnOnlyWantedHolds == Spec => []OnOnlyWanted
<1>1. PollerInv => OnOnlyWanted
  BY DEF PollerInv
<1>2. QED
  BY <1>1, PollerInvariance, PTL

-----------------------------------------------------------------------------
(* The MQTT bridge                                                         *)

\* The bridge only watches: every step of the pump module is one of the poller.
THEOREM BridgeImplementsPoller == BridgeSpec => Spec
<1>1. BridgeInit => Init
  BY DEF BridgeInit
<1>2. [BridgeNext]_<<vars, bridgeVars>> => [Next]_vars
  BY DEF BridgeNext, ModuleUpdate, Between, Rename, BridgeReset, Next
<1>3. QED
  BY <1>1, <1>2, PTL DEF BridgeSpec, Spec

\* A slot of which nothing was accepted has shown nothing.
BridgeInv ==
  /\ published \in [Slots -> PublishedRecords]
  /\ renamed \in BOOLEAN
  /\ accepted \subseteq Slots
  /\ \A i \in Slots : published[i].ok \/ published[i].text = "None"
  /\ GoneIsShown

LEMMA ForgottenKeeps == Forgotten \in PublishedRecords
BY PollerAssumption, SlotsAssumption DEF Forgotten, PublishedRecords, PumpStates

\* A publication: an accepted one leaves nothing of a pump that is not known.
LEMMA SnapshotKeeps ==
  ASSUME NEW b \in PublishedRecords, b.ok \/ b.text = "None",
         NEW p \in PumpRecords, NEW accepts \in BOOLEAN
  PROVE  LET t == PublishSnapshot(b, p, accepts)
         IN  /\ t \in PublishedRecords
             /\ t.ok \/ t.text = "None"
             /\ ~p.known /\ accepts => t.text \in {"None", "Unavailable"}
<1>1. CASE ~p.known
  BY <1>1 DEF PublishSnapshot, PublishedRecords
<1>2. CASE p.known
  BY <1>2 DEF PublishSnapshot, PublishedRecords, PumpRecords
<1>3. QED
  BY <1>1, <1>2 DEF PumpRecords

LEMMA UpdatePublishes ==
  ASSUME BridgeInv, PollerInv', NEW E, NEW elapsed, ModuleUpdate(E, elapsed)
  PROVE  BridgeInv'
<1> DEFINE old == SyncTopicGeneration
<1>1. /\ old \in [Slots -> PublishedRecords]
      /\ \A i \in Slots : old[i].ok \/ old[i].text = "None"
  BY ForgottenKeeps DEF BridgeInv, SyncTopicGeneration, Forgotten
<1> HIDE DEF old
<1>2. PICK A \in SUBSET Slots :
        /\ published' = [i \in Slots |-> PublishSnapshot(old[i], pumps'[i], i \in A)]
        /\ accepted' = A
  BY DEF ModuleUpdate, old
<1>3. \A i \in Slots : pumps'[i] \in PumpRecords
  BY DEF PollerInv, TypeOK
<1>4. ASSUME NEW i \in Slots
      PROVE  /\ published'[i] \in PublishedRecords
             /\ published'[i].ok \/ published'[i].text = "None"
             /\ ~pumps'[i].known /\ i \in A => published'[i].text \in {"None", "Unavailable"}
  <2>1. /\ old[i] \in PublishedRecords
        /\ old[i].ok \/ old[i].text = "None"
        /\ pumps'[i] \in PumpRecords
        /\ (i \in A) \in BOOLEAN
    BY <1>1, <1>3
  <2>2. published'[i] = PublishSnapshot(old[i], pumps'[i], i \in A)
    BY <1>2
  <2> DEFINE t == PublishSnapshot(old[i], pumps'[i], i \in A)
  <2>3. /\ t \in PublishedRecords
        /\ t.ok \/ t.text = "None"
        /\ ~pumps'[i].known /\ i \in A => t.text \in {"None", "Unavailable"}
    BY <2>1, SnapshotKeeps
  <2>4. QED
    BY <2>2, <2>3
<1>5. published' \in [Slots -> PublishedRecords]
  BY <1>2, <1>4
<1>6. renamed' = FALSE
  BY DEF ModuleUpdate
<1>7. QED
  BY <1>2, <1>4, <1>5, <1>6 DEF BridgeInv, GoneIsShown

\* Nothing between two passes makes a known pump unknown.
LEMMA BetweenKeeps ==
  ASSUME BridgeInv, PollerInv, Between, UNCHANGED bridgeVars
  PROVE  BridgeInv'
<1>1. \A i \in Slots : pumps'[i].known = pumps[i].known
  <2>1. CASE pumps' = pumps
    BY <2>1
  <2>2. ASSUME NEW i \in Slots, NEW state \in {"On", "Off"}, CommandState(i, state)
        PROVE  \A j \in Slots : pumps'[j].known = pumps[j].known
    BY <2>2 DEF CommandState, CommandedOn, CommandedOff, PollerInv, TypeOK, PumpRecords
  <2>3. ASSUME NEW i \in Slots, CommandReset(i)
        PROVE  \A j \in Slots : pumps'[j].known = pumps[j].known
    BY <2>3 DEF CommandReset, PollerInv, TypeOK, PumpRecords
  <2>4. QED
    BY <2>1, <2>2, <2>3 DEF Between, HostChanges, MotorChanges, CalmDown
<1>2. QED
  BY <1>1 DEF BridgeInv, GoneIsShown, bridgeVars

\* BridgeTypeOK and GoneIsShown: after an accepted publish no reader is left
\* with the state of a pump that is gone.
THEOREM GoneIsShownHolds == BridgeSpec => [](BridgeTypeOK /\ GoneIsShown)
<1>1. BridgeSpec => []PollerInv
  BY BridgeImplementsPoller, PollerInvariance
<1>2. BridgeInit => BridgeInv
  <2> SUFFICES ASSUME BridgeInit PROVE BridgeInv
    OBVIOUS
  <2>1. published = [i \in Slots |-> Forgotten] /\ renamed = FALSE /\ accepted = {}
    BY DEF BridgeInit
  <2>2. /\ published \in [Slots -> PublishedRecords]
        /\ \A i \in Slots : published[i].text = "None"
    BY <2>1, ForgottenKeeps DEF Forgotten
  <2>3. QED
    BY <2>1, <2>2 DEF BridgeInv, GoneIsShown
<1>3. BridgeInv /\ PollerInv /\ PollerInv' /\ [BridgeNext]_<<vars, bridgeVars>> => BridgeInv'
  <2> SUFFICES ASSUME BridgeInv, PollerInv, PollerInv', [BridgeNext]_<<vars, bridgeVars>>
               PROVE  BridgeInv'
    OBVIOUS
  <2>1. CASE UNCHANGED <<vars, bridgeVars>>
    BY <2>1 DEF vars, bridgeVars, BridgeInv, GoneIsShown
  <2>2. ASSUME NEW E, NEW elapsed, ModuleUpdate(E, elapsed)
        PROVE  BridgeInv'
    BY <2>2, UpdatePublishes
  <2>3. CASE Between /\ UNCHANGED bridgeVars
    BY <2>3, BetweenKeeps
  <2>4. CASE Rename
    BY <2>4 DEF Rename, BridgeInv, GoneIsShown
  <2>5. CASE BridgeReset
    BY <2>5, ForgottenKeeps DEF BridgeReset, BridgeInv, GoneIsShown, Forgotten
  <2>6. QED
    BY <2>1, <2>2, <2>3, <2>4, <2>5 DEF BridgeNext
<1>4. PollerInv /\ BridgeInv => BridgeTypeOK /\ GoneIsShown
  BY DEF PollerInv, BridgeInv, BridgeTypeOK
<1>5. QED
  BY <1>1, <1>2, <1>3, <1>4, PTL DEF BridgeSpec
=============================================================================
