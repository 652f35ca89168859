------------------------ MODULE SolenoidPollerProofs ------------------------
(***************************************************************************)
(* The solenoid poller never turns an output on that was not asked for,    *)
(* stays within its bounds and implements the feed its readers rely on,    *)
(* for every number of slots and outputs and every retry limit.            *)
(*                                                                         *)
(* A command names as many states as the cache of the module has outputs.  *)
(* That the cache has as many as the module itself is what SessionOK adds: *)
(* a cache with a count belongs to a module that is still in its slot, or  *)
(* the host has changed the slot since the last pass, and the next pass    *)
(* drops the cache before it uses it.                                      *)
(***************************************************************************)
EXTENDS SolenoidPoller, TLAPS

\* A cycle stands at an output; the next one starts at the first.
Cursor(r) == IF r.inCycle THEN r.index \in DOMAIN r.outputs ELSE r.index = 1

RuntimeOK(r) ==
  /\ r \in RuntimeRecords
  /\ Cursor(r)
  /\ ~r.counted => r.outputs = << >>

SessionOK(i) ==
  runtime[i].counted =>
    /\ Len(runtime[i].outputs) = Len(board[i]) \/ view[i].state = "Empty"
    /\ Holds(view[i], Solenoid) \/ i \in changed

IntentOK(i) == intent[i].kind = "States" => wanted[i] = intent[i].desired

SolenoidInv ==
  /\ SolenoidTypeOK
  /\ board \in [Slots -> UpTo(MaxOutputs, OutputStates)]
  /\ wanted \in [Slots -> UpTo(MaxOutputs, BOOLEAN)]
  /\ \A i \in Slots : RuntimeOK(runtime[i]) /\ SessionOK(i) /\ IntentOK(i)
  /\ OnOnlyCommanded

\* What the readers see of a slot when its runtime goes from r to t.
FeedMoves(r, t) ==
  \/ t.counted = r.counted /\ t.outputs = r.outputs
  \/ ~t.counted /\ t.outputs = << >>
  \/ \E n \in 0 .. MaxOutputs : t.counted /\ t.outputs = [k \in 1 .. n |-> Unread]
  \/ \E k \in 1 .. MaxOutputs, state \in OutputStates :
       /\ r.counted /\ t.counted /\ k \in DOMAIN r.outputs
       /\ t.outputs = [r.outputs EXCEPT
                         ![k] = [state |-> state, revision |-> NextRevision(@.revision)]]

-----------------------------------------------------------------------------
(* Bounded sequences                                                       *)

LEMMA EmptyUpTo ==
  ASSUME NEW n \in Nat, NEW S
  PROVE  << >> \in UpTo(n, S)
<1>1. 0 \in 0 .. n /\ << >> \in [1 .. 0 -> S]
  OBVIOUS
<1>2. QED
  BY <1>1, Zenon DEF UpTo

\* A bounded sequence is a sequence with a bounded length.
LEMMA SequenceUpTo ==
  ASSUME NEW n \in Nat, NEW S, NEW q \in UpTo(n, S)
  PROVE  /\ q \in Seq(S)
         /\ Len(q) \in 0 .. n
         /\ DOMAIN q = 1 .. Len(q)
         /\ \A k \in DOMAIN q : k \in 1 .. n /\ q[k] \in S
<1>1. PICK m \in 0 .. n : q \in [1 .. m -> S]
  BY DEF UpTo
<1>2. m \in Nat
  BY <1>1
<1>3. q \in Seq(S)
  BY <1>1, <1>2
<1>4. Len(q) = m /\ DOMAIN q = 1 .. m
  BY <1>1, <1>2
<1>5. QED
  BY <1>1, <1>3, <1>4

\* Changing one element keeps the bound and the length.
LEMMA ExceptUpTo ==
  ASSUME NEW n \in Nat, NEW S, NEW q \in UpTo(n, S), NEW k \in DOMAIN q, NEW e \in S
  PROVE  /\ [q EXCEPT ![k] = e] \in UpTo(n, S)
         /\ Len([q EXCEPT ![k] = e]) = Len(q)
         /\ DOMAIN [q EXCEPT ![k] = e] = DOMAIN q
<1>1. PICK m \in 0 .. n : q \in [1 .. m -> S]
  BY DEF UpTo
<1>2. [q EXCEPT ![k] = e] \in [1 .. m -> S]
  BY <1>1
<1>3. [q EXCEPT ![k] = e] \in UpTo(n, S)
  BY <1>2 DEF UpTo
<1>4. QED
  BY <1>1, <1>2, <1>3

LEMMA ConstantUpTo ==
  ASSUME NEW n \in Nat, NEW S, NEW m \in 0 .. n, NEW e \in S
  PROVE  /\ [k \in 1 .. m |-> e] \in UpTo(n, S)
         /\ Len([k \in 1 .. m |-> e]) = m
<1>1. [k \in 1 .. m |-> e] \in [1 .. m -> S]
  OBVIOUS
<1>2. QED
  BY <1>1 DEF UpTo

-----------------------------------------------------------------------------
(* The runtime of a slot                                                   *)

\* The records of the outputs of a slot.
StoredOutputs ==
  {Unread} \cup [state : OutputStates, revision : 1 .. RevisionModulus - 1]

LEMMA Constants ==
  /\ 0 \in Attempts
  /\ 1 \in 1 .. MaxOutputs /\ 1 \in 1 .. MaxOutputs + 1
  /\ 0 \in 0 .. EpochModulus - 1
  /\ MaxOutputs \in Nat
BY SolenoidAssumption, SlotsAssumption DEF Attempts

LEMMA OneMoreAttempt ==
  ASSUME NEW n \in Attempts, ~Exhausted(n)
  PROVE  n + 1 \in Attempts
BY SolenoidAssumption DEF Attempts, Exhausted

LEMMA NextRevisionIsOne ==
  ASSUME NEW output \in StoredOutputs, NEW state \in OutputStates
  PROVE  [state |-> state, revision |-> NextRevision(output.revision)] \in StoredOutputs
<1>1. output.revision \in 0 .. RevisionModulus - 1
  BY SolenoidAssumption DEF StoredOutputs, Unread
<1>2. NextRevision(output.revision) \in 1 .. RevisionModulus - 1
  BY <1>1, SolenoidAssumption DEF NextRevision
<1>3. QED
  BY <1>2 DEF StoredOutputs

\* A runtime in its parts.
LEMMA RuntimeRecord ==
  ASSUME NEW r \in RuntimeRecords
  PROVE  /\ r.counted \in BOOLEAN /\ r.inCycle \in BOOLEAN
         /\ r.outputs \in UpTo(MaxOutputs, StoredOutputs)
         /\ r.index \in 1 .. MaxOutputs
         /\ Len(r.outputs) \in 0 .. MaxOutputs
         /\ DOMAIN r.outputs = 1 .. Len(r.outputs)
         /\ \A k \in DOMAIN r.outputs : k \in 1 .. MaxOutputs /\ r.outputs[k] \in StoredOutputs
<1>1. /\ r.counted \in BOOLEAN /\ r.inCycle \in BOOLEAN
      /\ r.outputs \in UpTo(MaxOutputs, StoredOutputs)
      /\ r.index \in 1 .. MaxOutputs
  BY DEF RuntimeRecords, StoredOutputs
<1>2. QED
  BY <1>1, SequenceUpTo, Constants

LEMMA NoRuntimeOK ==
  /\ RuntimeOK(NoRuntime) /\ ~NoRuntime.counted /\ NoRuntime.outputs = << >>
  /\ \A e \in 0 .. EpochModulus - 1 :
       LET t == [NoRuntime EXCEPT !.epoch = e]
       IN  RuntimeOK(t) /\ ~t.counted /\ t.outputs = << >>
<1>1. << >> \in UpTo(MaxOutputs, StoredOutputs)
  BY EmptyUpTo, Constants
<1>2. QED
  BY <1>1, Constants DEF NoRuntime, RuntimeOK, RuntimeRecords, Cursor, StoredOutputs

\* The session check keeps the runtime, or starts one that knows nothing.
LEMMA SyncRuntimeKeeps ==
  ASSUME NEW r, RuntimeOK(r), NEW v, v.epoch \in 0 .. EpochModulus - 1
  PROVE  LET t == SyncRuntime(r, v)
         IN  /\ RuntimeOK(t)
             /\ t = r \/ (~t.counted /\ t.outputs = << >>)
             /\ t.counted => Holds(v, Solenoid)
BY NoRuntimeOK DEF SyncRuntime

\* Only the count and the outputs show.
LEMMA FeedMovesAlike ==
  ASSUME NEW r, NEW t, FeedMoves(r, t),
         NEW r2, r2.counted = r.counted, r2.outputs = r.outputs,
         NEW t2, t2.counted = t.counted, t2.outputs = t.outputs
  PROVE  FeedMoves(r2, t2)
<1> DEFINE Moves(c, os, c2, os2) ==
      \/ c2 = c /\ os2 = os
      \/ ~c2 /\ os2 = << >>
      \/ \E n \in 0 .. MaxOutputs : c2 /\ os2 = [k \in 1 .. n |-> Unread]
      \/ \E k \in 1 .. MaxOutputs, state \in OutputStates :
           /\ c /\ c2 /\ k \in DOMAIN os
           /\ os2 = [os EXCEPT ![k] = [state |-> state, revision |-> NextRevision(@.revision)]]
<1>1. \A x, y : FeedMoves(x, y) <=> Moves(x.counted, x.outputs, y.counted, y.outputs)
  BY DEF FeedMoves
<1> HIDE DEF Moves
<1>2. QED
  BY <1>1

\* The answer to a count query.
LEMMA CountedKeeps ==
  ASSUME NEW r, RuntimeOK(r), NEW count \in {NoCount} \cup 0 .. MaxOutputs
  PROVE  LET t == Counted(r, count)
         IN  /\ RuntimeOK(t)
             /\ FeedMoves(r, t)
             /\ count = NoCount => t.counted = r.counted /\ t.outputs = r.outputs
             /\ count # NoCount => Len(t.outputs) = count
<1> DEFINE t == Counted(r, count)
<1>1. CASE count = NoCount
  <2>1. t = [r EXCEPT !.countAttempts = IF Exhausted(r.countAttempts) THEN 0
                                                               ELSE r.countAttempts + 1,
                      !.countRetryAt = r.countRetryAt \/ Exhausted(r.countAttempts)]
    BY <1>1 DEF Counted, RuntimeOK, RuntimeRecords
  <2>2. r.countAttempts \in Attempts /\ r.countRetryAt \in BOOLEAN
    BY DEF RuntimeOK, RuntimeRecords
  <2>3. (IF Exhausted(r.countAttempts) THEN 0 ELSE r.countAttempts + 1) \in Attempts
    BY <2>2, OneMoreAttempt, Constants
  <2>4. (r.countRetryAt \/ Exhausted(r.countAttempts)) \in BOOLEAN
    OBVIOUS
  <2>5. t \in RuntimeRecords /\ t.counted = r.counted /\ t.outputs = r.outputs
        /\ t.inCycle = r.inCycle /\ t.index = r.index
    BY <2>1, <2>3, <2>4 DEF RuntimeOK, RuntimeRecords
  <2>6. QED
    BY <1>1, <2>5 DEF RuntimeOK, Cursor, FeedMoves
<1>2. CASE count # NoCount
  <2>1. count \in 0 .. MaxOutputs /\ Unread \in StoredOutputs
    BY <1>2 DEF StoredOutputs
  <2> DEFINE os == [k \in 1 .. count |-> Unread]
  <2>2. os \in UpTo(MaxOutputs, StoredOutputs) /\ Len(os) = count
    BY <2>1, ConstantUpTo, Constants
  <2>3. t = [r EXCEPT !.counted = TRUE, !.outputs = os, !.countAttempts = 0,
                      !.countRetryAt = FALSE, !.inCycle = FALSE, !.index = 1,
                      !.stepAttempts = 0, !.nextPollAt = FALSE]
    BY <1>2 DEF Counted
  <2> HIDE DEF os
  <2>4. t \in RuntimeRecords /\ t.counted = TRUE /\ t.outputs = os /\ ~t.inCycle /\ t.index = 1
    BY <2>2, <2>3, Constants DEF RuntimeOK, RuntimeRecords, StoredOutputs
  <2>5. t.counted /\ t.outputs = [k \in 1 .. count |-> Unread]
    BY <2>4 DEF os
  <2>6. FeedMoves(r, t)
    BY <2>1, <2>5 DEF FeedMoves
  <2>7. QED
    BY <1>2, <2>2, <2>4, <2>6 DEF RuntimeOK, Cursor
<1>3. QED
  BY <1>1, <1>2

\* A state that is stored.
LEMMA RememberKeeps ==
  ASSUME NEW r, RuntimeOK(r), r.counted, NEW k \in DOMAIN r.outputs, NEW state \in OutputStates
  PROVE  LET t == Remember(r, k, state)
         IN  /\ RuntimeOK(t)
             /\ FeedMoves(r, t)
             /\ t.counted
             /\ Len(t.outputs) = Len(r.outputs)
             /\ t = [r EXCEPT !.outputs = t.outputs]
<1> DEFINE t == Remember(r, k, state)
           e == [state |-> state, revision |-> NextRevision(r.outputs[k].revision)]
           os == [r.outputs EXCEPT ![k] = e]
<1>1. /\ r \in RuntimeRecords
      /\ r.outputs \in UpTo(MaxOutputs, StoredOutputs)
      /\ k \in 1 .. MaxOutputs /\ r.outputs[k] \in StoredOutputs
  BY RuntimeRecord DEF RuntimeOK
<1>2. e \in StoredOutputs
  BY <1>1, NextRevisionIsOne
<1>3. os = [r.outputs EXCEPT ![k] = [state |-> state, revision |-> NextRevision(@.revision)]]
  OBVIOUS
<1>4. t = [r EXCEPT !.outputs = os]
  BY <1>1 DEF Remember, RuntimeRecords
<1> HIDE DEF e, t
<1>5. os \in UpTo(MaxOutputs, StoredOutputs) /\ Len(os) = Len(r.outputs)
      /\ DOMAIN os = DOMAIN r.outputs
  BY <1>1, <1>2, ExceptUpTo, Constants
<1> HIDE DEF os
<1>6. /\ t \in RuntimeRecords
      /\ t.outputs = os /\ t.counted = r.counted /\ t.inCycle = r.inCycle /\ t.index = r.index
  BY <1>1, <1>4, <1>5 DEF RuntimeRecords, StoredOutputs
<1>7. RuntimeOK(t)
  BY <1>5, <1>6 DEF RuntimeOK, Cursor
<1>8. FeedMoves(r, t)
  BY <1>1, <1>3, <1>6 DEF FeedMoves
<1>9. QED
  BY <1>4, <1>5, <1>6, <1>7, <1>8 DEF t

\* A step of the periodic reads.
LEMMA PolledKeeps ==
  ASSUME NEW r, RuntimeOK(r), r.counted, r.index \in DOMAIN r.outputs,
         NEW state \in OutputStates \cup {"Failed"}
  PROVE  LET t == Polled(r, state)
         IN  /\ RuntimeOK(t)
             /\ FeedMoves(r, t)
             /\ t.counted
             /\ Len(t.outputs) = Len(r.outputs)
<1> DEFINE t == Polled(r, state)
           cycling == [r EXCEPT !.inCycle = TRUE]
           read == IF state = "Failed" THEN cycling ELSE Remember(cycling, r.index, state)
<1>1. r \in RuntimeRecords /\ r.stepAttempts \in Attempts /\ r.index \in 1 .. MaxOutputs
      /\ DOMAIN r.outputs = 1 .. Len(r.outputs) /\ Len(r.outputs) \in 0 .. MaxOutputs
  BY RuntimeRecord DEF RuntimeOK, RuntimeRecords
<1>2. /\ cycling \in RuntimeRecords
      /\ cycling.counted = r.counted /\ cycling.outputs = r.outputs
      /\ cycling.inCycle = TRUE /\ cycling.index = r.index
      /\ cycling.stepAttempts = r.stepAttempts
  BY <1>1 DEF RuntimeRecords
<1>3. RuntimeOK(cycling)
  BY <1>2 DEF RuntimeOK, Cursor
<1> HIDE DEF cycling
<1>4. /\ RuntimeOK(read)
      /\ FeedMoves(cycling, read)
      /\ read.counted /\ Len(read.outputs) = Len(r.outputs)
      /\ read.inCycle = TRUE /\ read.index = r.index
      /\ read.stepAttempts = r.stepAttempts
  <2>1. CASE state = "Failed"
    BY <1>2, <1>3, <2>1 DEF FeedMoves
  <2>2. CASE state # "Failed"
    <3>1. state \in OutputStates
      BY <2>2
    <3>2. LET u == Remember(cycling, r.index, state)
          IN  /\ RuntimeOK(u) /\ FeedMoves(cycling, u) /\ u.counted
              /\ Len(u.outputs) = Len(cycling.outputs)
              /\ u = [cycling EXCEPT !.outputs = u.outputs]
      <4>1. cycling.counted /\ r.index \in DOMAIN cycling.outputs
        BY <1>2
      <4>2. QED
        BY <1>3, <3>1, <4>1, RememberKeeps
    <3>3. read = Remember(cycling, r.index, state)
      BY <2>2
    <3> HIDE DEF read
    <3>4. read.inCycle = cycling.inCycle /\ read.index = cycling.index
          /\ read.stepAttempts = cycling.stepAttempts
      BY <1>2, <3>2, <3>3 DEF RuntimeRecords
    <3>5. QED
      BY <1>2, <3>2, <3>3, <3>4
  <2>3. QED
    BY <2>1, <2>2
<1>5. FeedMoves(r, read)
  BY <1>2, <1>4, FeedMovesAlike
<1>6. Polled(r, state) =
        CASE state = "Failed" /\ ~Exhausted(r.stepAttempts) ->
               [cycling EXCEPT !.stepAttempts = r.stepAttempts + 1]
          [] ~(state = "Failed" /\ ~Exhausted(r.stepAttempts)) /\ r.index < Len(r.outputs) ->
               [read EXCEPT !.stepAttempts = 0, !.index = r.index + 1]
          [] OTHER ->
               [read EXCEPT !.stepAttempts = 0, !.inCycle = FALSE, !.index = 1,
                            !.nextPollAt = TRUE]
  BY <1>1, <1>2, <1>3, <1>4 DEF Polled, cycling, RuntimeOK, RuntimeRecords
<1> HIDE DEF read
<1>7. CASE state = "Failed" /\ ~Exhausted(r.stepAttempts)
  <2>1. t = [cycling EXCEPT !.stepAttempts = r.stepAttempts + 1]
    BY <1>6, <1>7
  <2>2. r.stepAttempts + 1 \in Attempts
    BY <1>1, <1>7, OneMoreAttempt
  <2> HIDE DEF t
  <2>3. /\ t \in RuntimeRecords /\ t.counted = r.counted /\ t.outputs = r.outputs
        /\ t.inCycle = TRUE /\ t.index = r.index
    BY <1>2, <2>1, <2>2 DEF RuntimeRecords
  <2>4. RuntimeOK(t) /\ FeedMoves(r, t) /\ t.counted /\ Len(t.outputs) = Len(r.outputs)
    BY <2>3 DEF RuntimeOK, Cursor, FeedMoves
  <2>5. QED
    BY <2>4 DEF t
<1>8. CASE ~(state = "Failed" /\ ~Exhausted(r.stepAttempts)) /\ r.index < Len(r.outputs)
  <2>1. t = [read EXCEPT !.stepAttempts = 0, !.index = r.index + 1]
    BY <1>6, <1>8
  <2>2. r.index + 1 \in 1 .. MaxOutputs /\ r.index + 1 \in 1 .. Len(r.outputs)
    BY <1>1, <1>8, Constants
  <2> HIDE DEF t
  <2>3. /\ t \in RuntimeRecords /\ t.counted = read.counted /\ t.outputs = read.outputs
        /\ t.inCycle = TRUE /\ t.index = r.index + 1
    BY <1>4, <2>1, <2>2, Constants DEF RuntimeOK, RuntimeRecords
  <2>4. DOMAIN t.outputs = 1 .. Len(r.outputs)
    BY <1>4, <2>3, RuntimeRecord
  <2>5. FeedMoves(r, t)
    BY <1>5, <2>3, FeedMovesAlike
  <2>6. RuntimeOK(t) /\ t.counted /\ Len(t.outputs) = Len(r.outputs)
    BY <1>4, <2>2, <2>3, <2>4 DEF RuntimeOK, Cursor
  <2>7. QED
    BY <2>5, <2>6 DEF t
<1>9. CASE ~(state = "Failed" /\ ~Exhausted(r.stepAttempts)) /\ ~(r.index < Len(r.outputs))
  <2>1. t = [read EXCEPT !.stepAttempts = 0, !.inCycle = FALSE, !.index = 1,
                         !.nextPollAt = TRUE]
    BY <1>6, <1>9
  <2> HIDE DEF t
  <2>2. /\ t \in RuntimeRecords /\ t.counted = read.counted /\ t.outputs = read.outputs
        /\ t.inCycle = FALSE /\ t.index = 1
    BY <1>4, <2>1, Constants DEF RuntimeOK, RuntimeRecords
  <2>3. FeedMoves(r, t)
    BY <1>5, <2>2, FeedMovesAlike
  <2>4. RuntimeOK(t) /\ t.counted /\ Len(t.outputs) = Len(r.outputs)
    BY <1>4, <2>2 DEF RuntimeOK, Cursor
  <2>5. QED
    BY <2>3, <2>4 DEF t
<1>10. QED
  BY <1>7, <1>8, <1>9

-----------------------------------------------------------------------------
(* The intent of a slot                                                    *)

\* An intent to drive outputs to named states comes from one that named them.
Follows(e, d) == e.kind = "States" => d.kind = "States" /\ e.desired = d.desired

LEMMA NoIntentKeeps ==
  NoIntent \in IntentRecords /\ NoIntent.kind = "None"
<1>1. << >> \in UpTo(MaxOutputs, BOOLEAN)
  BY EmptyUpTo, Constants
<1>2. QED
  BY <1>1, Constants DEF NoIntent, IntentRecords

\* The operators that move an intent along keep what it wants.
LEMMA IntentKeeps ==
  ASSUME NEW d \in IntentRecords
  PROVE  /\ Restarted(d) \in IntentRecords /\ Follows(Restarted(d), d)
         /\ \A k \in 1 .. MaxOutputs :
              /\ AtOutput(d, k) \in IntentRecords /\ Follows(AtOutput(d, k), d)
              /\ AtOutput(d, k).index = k
         /\ d.index \in 1 .. MaxOutputs =>
              \A state :
                /\ ReadForApply(d, state) \in IntentRecords /\ Follows(ReadForApply(d, state), d)
                /\ SetAnswered(d, state) \in IntentRecords /\ Follows(SetAnswered(d, state), d)
         /\ \A state : RemindOff(d, state) \in IntentRecords /\ Follows(RemindOff(d, state), d)
         /\ \A r : Settle(r, d) \in IntentRecords /\ Follows(Settle(r, d), d)
<1>1. Restarted(d) \in IntentRecords /\ Follows(Restarted(d), d)
  BY Constants DEF Restarted, IntentRecords, Follows
<1>2. ASSUME NEW k \in 1 .. MaxOutputs
      PROVE  /\ AtOutput(d, k) \in IntentRecords /\ Follows(AtOutput(d, k), d)
             /\ AtOutput(d, k).index = k
  <2> DEFINE n == IF d.applying /\ d.index = k THEN d.attempts ELSE 0
  <2>1. k \in 1 .. MaxOutputs + 1
    BY Constants
  <2>2. n \in Attempts
    BY Constants DEF IntentRecords
  <2>3. AtOutput(d, k) = [d EXCEPT !.applying = TRUE, !.index = k, !.attempts = n]
    BY DEF AtOutput, IntentRecords
  <2> HIDE DEF n
  <2>4. QED
    BY <2>1, <2>2, <2>3 DEF IntentRecords, Follows
<1>3. ASSUME d.index \in 1 .. MaxOutputs
      PROVE  NextOutput(d) \in IntentRecords /\ Follows(NextOutput(d), d)
  <2>1. d.index + 1 \in 1 .. MaxOutputs + 1
    BY <1>3, Constants
  <2>2. NextOutput(d) = [d EXCEPT !.index = d.index + 1, !.attempts = 0]
    BY DEF NextOutput, IntentRecords
  <2>3. QED
    BY <2>1, <2>2, Constants DEF IntentRecords, Follows
<1>4. ASSUME d.index \in 1 .. MaxOutputs
      PROVE  RetryOutput(d) \in IntentRecords /\ Follows(RetryOutput(d), d)
  <2>1. CASE Exhausted(d.attempts)
    BY <1>3, <1>4, <2>1 DEF RetryOutput
  <2>2. CASE ~Exhausted(d.attempts)
    <3>1. d.attempts + 1 \in Attempts
      BY <2>2, OneMoreAttempt DEF IntentRecords
    <3>2. RetryOutput(d) = [d EXCEPT !.attempts = d.attempts + 1]
      BY <2>2 DEF RetryOutput, IntentRecords
    <3>3. QED
      BY <3>1, <3>2 DEF IntentRecords, Follows
  <2>3. QED
    BY <2>1, <2>2
<1>5. ASSUME d.index \in 1 .. MaxOutputs, NEW state
      PROVE  /\ ReadForApply(d, state) \in IntentRecords /\ Follows(ReadForApply(d, state), d)
             /\ SetAnswered(d, state) \in IntentRecords /\ Follows(SetAnswered(d, state), d)
  <2>1. /\ [d EXCEPT !.attempts = 0] \in IntentRecords
        /\ Follows([d EXCEPT !.attempts = 0], d)
    BY Constants DEF IntentRecords, Follows
  <2>2. QED
    BY <1>3, <1>4, <1>5, <2>1 DEF ReadForApply, SetAnswered
<1>6. ASSUME NEW state
      PROVE  RemindOff(d, state) \in IntentRecords /\ Follows(RemindOff(d, state), d)
  <2>1. [d EXCEPT !.pending = TRUE] \in IntentRecords /\ Follows([d EXCEPT !.pending = TRUE], d)
    BY DEF IntentRecords, Follows
  <2>2. Follows(d, d)
    BY DEF Follows
  <2>3. QED
    BY <2>1, <2>2 DEF RemindOff
<1>7. ASSUME NEW r
      PROVE  Settle(r, d) \in IntentRecords /\ Follows(Settle(r, d), d)
  <2> DEFINE e == [d EXCEPT !.pending = FALSE, !.applying = FALSE, !.index = 1, !.attempts = 0]
  <2>1. e \in IntentRecords /\ Follows(e, d)
    BY Constants DEF IntentRecords, Follows
  <2>2. Follows(NoIntent, d)
    BY NoIntentKeeps DEF Follows
  <2>3. QED
    BY <2>1, <2>2, NoIntentKeeps DEF Settle
<1>8. QED
  BY <1>1, <1>2, <1>5, <1>6, <1>7

\* The session check and the closed window: an intent that still names states is
\* one the slot may still serve.
LEMMA SyncIntentKeeps ==
  ASSUME NEW d \in IntentRecords, NEW r, NEW v
  PROVE  LET t == SyncIntent(d, r, v)
         IN  /\ t \in IntentRecords /\ Follows(t, d)
             /\ t.kind = "States" => ~CannotHold(v, Solenoid)
<1>1. CASE CannotHold(v, Solenoid)
  BY <1>1, NoIntentKeeps DEF SyncIntent, Follows
<1>2. CASE ~CannotHold(v, Solenoid)
  <2>1. Follows(d, d)
    BY DEF Follows
  <2>2. QED
    BY <1>2, <2>1, IntentKeeps DEF SyncIntent
<1>3. QED
  BY <1>1, <1>2

LEMMA ArmAllOffKeeps ==
  ASSUME NEW d \in IntentRecords
  PROVE  ArmAllOff(d) \in IntentRecords /\ ArmAllOff(d).kind = "AllOff"
<1> DEFINE e == [NoIntent EXCEPT !.kind = "AllOff"]
<1>1. e \in IntentRecords /\ e.kind = "AllOff"
  BY NoIntentKeeps DEF IntentRecords
<1> HIDE DEF e
<1>2. Restarted(e) \in IntentRecords /\ Restarted(e).kind = "AllOff"
  BY <1>1, IntentKeeps DEF Restarted, IntentRecords
<1>3. QED
  BY <1>2 DEF ArmAllOff, e

\* A command that arrives.
LEMMA CommandKeeps ==
  ASSUME NEW n \in 1 .. MaxOutputs, NEW desired \in [1 .. n -> BOOLEAN]
  PROVE  LET t == Restarted([NoIntent EXCEPT !.kind = "States", !.desired = desired])
         IN  t \in IntentRecords /\ t.desired = desired
<1> DEFINE e == [NoIntent EXCEPT !.kind = "States", !.desired = desired]
<1>1. n \in 0 .. MaxOutputs
  BY Constants
<1>2. desired \in UpTo(MaxOutputs, BOOLEAN)
  BY <1>1 DEF UpTo
<1>3. e \in IntentRecords /\ e.desired = desired
  BY <1>2, NoIntentKeeps DEF IntentRecords
<1> HIDE DEF e
<1>4. Restarted(e) \in IntentRecords /\ Restarted(e).desired = desired
  BY <1>3, IntentKeeps DEF Restarted, IntentRecords
<1>5. QED
  BY <1>4 DEF e

-----------------------------------------------------------------------------
(* The services of a pass                                                  *)

Boarded == UpTo(MaxOutputs, OutputStates)

\* What a pass has in hand before its query: a cache with a count is that of the
\* module in the slot, and an intent to named states is the command in force.
InHand(r, d) ==
  /\ r = [i \in Slots |-> r[i]] /\ d = [i \in Slots |-> d[i]]
  /\ \A i \in Slots :
       /\ RuntimeOK(r[i])
       /\ r[i].counted => Holds(view[i], Solenoid) /\ Len(r[i].outputs) = Len(board[i])
       /\ d[i] \in IntentRecords
       /\ d[i].kind = "States" => wanted'[i] = d[i].desired

\* What it leaves.
Served(r, d) ==
  /\ runtime' = [i \in Slots |-> runtime'[i]] /\ intent' = [i \in Slots |-> intent'[i]]
  /\ board' \in [Slots -> Boarded]
  /\ \A i \in Slots :
       /\ RuntimeOK(runtime'[i])
       /\ runtime'[i].counted =>
            Holds(view[i], Solenoid) /\ Len(runtime'[i].outputs) = Len(board'[i])
       /\ FeedMoves(r[i], runtime'[i])
       /\ intent'[i] \in IntentRecords /\ Follows(intent'[i], d[i])
  /\ OnOnlyCommanded'

\* A pass that changes the runtime of one slot, to t.
LEMMA OneSlotServed ==
  ASSUME NEW r, NEW d, InHand(r, d),
         board' \in [Slots -> Boarded], \A j \in Slots : Len(board'[j]) = Len(board[j]),
         NEW i \in Slots, NEW t, runtime' = [r EXCEPT ![i] = t],
         RuntimeOK(t), FeedMoves(r[i], t),
         t.counted => Holds(view[i], Solenoid) /\ Len(t.outputs) = Len(board[i]),
         intent' = [j \in Slots |-> intent'[j]],
         \A j \in Slots : intent'[j] \in IntentRecords /\ Follows(intent'[j], d[j]),
         OnOnlyCommanded'
  PROVE  Served(r, d)
<1>1. runtime' = [j \in Slots |-> IF j = i THEN t ELSE r[j]]
  BY DEF InHand
<1>2. \A j \in Slots : FeedMoves(r[j], r[j])
  BY DEF FeedMoves
<1>3. ASSUME NEW j \in Slots
      PROVE  /\ RuntimeOK(runtime'[j])
             /\ runtime'[j].counted =>
                  Holds(view[j], Solenoid) /\ Len(runtime'[j].outputs) = Len(board'[j])
             /\ FeedMoves(r[j], runtime'[j])
  <2>1. CASE j = i
    <3>1. runtime'[j] = t
      BY <1>1, <2>1
    <3>2. QED
      BY <2>1, <3>1
  <2>2. CASE j # i
    <3>1. runtime'[j] = r[j]
      BY <1>1, <2>2
    <3>2. QED
      BY <1>2, <3>1 DEF InHand
  <2>3. QED
    BY <2>1, <2>2
<1>4. runtime' = [j \in Slots |-> runtime'[j]]
  BY <1>1
<1>5. QED
  BY <1>3, <1>4 DEF Served

\* The intents the loop of _serviceApply ended.
LEMMA SettledKeeps ==
  ASSUME NEW r, NEW d, InHand(r, d), NEW S
  PROVE  /\ Settled(r, d, S) = [i \in Slots |-> Settled(r, d, S)[i]]
         /\ \A i \in Slots : /\ Settled(r, d, S)[i] \in IntentRecords
                             /\ Follows(Settled(r, d, S)[i], d[i])
<1>1. ASSUME NEW i \in Slots
      PROVE  /\ Settled(r, d, S)[i] \in IntentRecords
             /\ Follows(Settled(r, d, S)[i], d[i])
  <2>1. d[i] \in IntentRecords /\ Follows(d[i], d[i])
    BY DEF InHand, Follows
  <2>2. Settle(r[i], d[i]) \in IntentRecords /\ Follows(Settle(r[i], d[i]), d[i])
    BY <2>1, IntentKeeps
  <2>3. Settled(r, d, S)[i] \in {d[i], Settle(r[i], d[i])}
    BY DEF Settled
  <2>4. QED
    BY <2>1, <2>2, <2>3
<1>2. Settled(r, d, S) = [i \in Slots |-> Settled(r, d, S)[i]]
  BY DEF Settled
<1>3. QED
  BY <1>1, <1>2

\* A query to an output leaves as many outputs as there were, and its answer is a
\* state of an output or none.
LEMMA QueryKeeps ==
  ASSUME board \in [Slots -> Boarded], NEW i \in Slots, NEW k \in DOMAIN board[i],
         NEW command, NEW x \in Exchanges(i, k, command), Query(i, k, command, x)
  PROVE  /\ board' \in [Slots -> Boarded]
         /\ \A j \in Slots : Len(board'[j]) = Len(board[j])
         /\ x.reply \in OutputStates \cup {"Failed"}
<1>1. board[i] \in Boarded /\ board[i][k] \in OutputStates
  BY SequenceUpTo, Constants DEF Boarded
<1>2. Reactions(board[i][k], command) \subseteq OutputStates
  BY <1>1 DEF Reactions, OutputStates
<1>3. x.state \in OutputStates /\ x.reply \in OutputStates \cup {"Failed"}
  BY <1>1, <1>2 DEF Exchanges
<1>4. [board[i] EXCEPT ![k] = x.state] \in Boarded
      /\ Len([board[i] EXCEPT ![k] = x.state]) = Len(board[i])
  BY <1>1, <1>3, ExceptUpTo, Constants DEF Boarded
<1>5. board' = [board EXCEPT ![i] = [board[i] EXCEPT ![k] = x.state]]
  BY DEF Query
<1>6. QED
  BY <1>3, <1>4, <1>5

LEMMA CountServed ==
  ASSUME NEW r, NEW d, NEW E, InHand(r, d), board \in [Slots -> Boarded], ServiceCount(r, d, E)
  PROVE  Served(r, d)
<1>1. PICK i \in Lowest(NeedingCount(r, d, E)) :
        \E count \in {Len(board[i])} \cup (IF Lossy(i) THEN {NoCount} ELSE {}) :
          /\ runtime' = [r EXCEPT ![i] = Counted(@, count)]
          /\ intent' = d
          /\ switched' = {}
          /\ UNCHANGED board
  BY DEF ServiceCount
<1>2. PICK count \in {Len(board[i]), NoCount} :
          /\ runtime' = [r EXCEPT ![i] = Counted(r[i], count)]
          /\ intent' = d
          /\ switched' = {}
          /\ UNCHANGED board
  BY <1>1
<1>3. i \in Slots /\ Holds(view[i], Solenoid) /\ ~r[i].counted
  BY DEF Lowest, NeedingCount, Active
<1>4. count \in {NoCount} \cup 0 .. MaxOutputs
  BY <1>3, SequenceUpTo, Constants DEF Boarded
<1>5. RuntimeOK(r[i])
  BY <1>3 DEF InHand
<1> DEFINE t == Counted(r[i], count)
<1>6. /\ RuntimeOK(t) /\ FeedMoves(r[i], t)
      /\ count = NoCount => t.counted = r[i].counted
      /\ count # NoCount => Len(t.outputs) = count
  BY <1>4, <1>5, CountedKeeps
<1>7. runtime' = [r EXCEPT ![i] = t]
  BY <1>2
<1> HIDE DEF t
<1>8. t.counted => Holds(view[i], Solenoid) /\ Len(t.outputs) = Len(board[i])
  BY <1>2, <1>3, <1>6
<1>9. \A j \in Slots : d[j] \in IntentRecords /\ Follows(d[j], d[j])
  BY DEF InHand, Follows
<1>10. d = [j \in Slots |-> d[j]]
  BY DEF InHand
<1>11. OnOnlyCommanded'
  BY <1>2 DEF OnOnlyCommanded
<1>12. board' \in [Slots -> Boarded] /\ \A j \in Slots : Len(board'[j]) = Len(board[j])
  BY <1>2
<1>13. /\ intent' = [j \in Slots |-> intent'[j]]
       /\ \A j \in Slots : intent'[j] \in IntentRecords /\ Follows(intent'[j], d[j])
  BY <1>2, <1>9, <1>10
<1>14. QED
  BY <1>3, <1>6, <1>7, <1>8, <1>11, <1>12, <1>13, OneSlotServed

\* The step for one output of an intent.
LEMMA ApplyServed ==
  ASSUME NEW r, NEW d, NEW E, InHand(r, d), board \in [Slots -> Boarded], ServiceApply(r, d, E)
  PROVE  Served(r, d)
<1> DEFINE Command(i, k) == CASE r[i].outputs[k].state = "Unknown" -> "Get"
                              [] r[i].outputs[k].state # "Unknown" /\ DesiredOn(d[i], k) -> "SetOn"
                              [] OTHER -> "SetOff"
           Passed(i) == Settled(r, d, {j \in Slots : j < i})
           Applied(i, k, x) ==
             /\ Query(i, k, Command(i, k), x)
             /\ intent' = [Passed(i) EXCEPT ![i] = IF Command(i, k) = "Get"
                                                   THEN ReadForApply(AtOutput(d[i], k), x.reply)
                                                   ELSE SetAnswered(AtOutput(d[i], k), x.reply)]
             /\ runtime' = IF x.reply = "Failed" THEN r
                           ELSE [r EXCEPT ![i] = Remember(@, k, x.reply)]
<1>1. PICK i \in Lowest(Unapplied(r, d)) : \E k \in Lowest(Unmatched(r[i], d[i])) :
        \E x \in Exchanges(i, k, Command(i, k)) : Applied(i, k, x)
  BY DEF ServiceApply
<1> PICK k \in Lowest(Unmatched(r[i], d[i])) :
        \E x \in Exchanges(i, k, Command(i, k)) : Applied(i, k, x)
  BY <1>1
<1> DEFINE command == Command(i, k)
           passed == Passed(i)
           at == AtOutput(d[i], k)
<1>2. PICK x \in Exchanges(i, k, command) :
        /\ Query(i, k, command, x)
        /\ intent' = [passed EXCEPT ![i] = IF command = "Get" THEN ReadForApply(at, x.reply)
                                           ELSE SetAnswered(at, x.reply)]
        /\ runtime' = IF x.reply = "Failed" THEN r ELSE [r EXCEPT ![i] = Remember(@, k, x.reply)]
  OBVIOUS
<1>3. command = "SetOn" => DesiredOn(d[i], k)
  OBVIOUS
<1> HIDE DEF command, passed, at
<1>4. /\ i \in Slots /\ Holds(view[i], Solenoid) /\ r[i].counted
      /\ ~Mismatched(r[i], d[i]) /\ k \in DOMAIN r[i].outputs
  BY DEF Lowest, Unapplied, ToApply, Active, Unmatched
<1>5. /\ RuntimeOK(r[i]) /\ d[i] \in IntentRecords /\ Len(r[i].outputs) = Len(board[i])
      /\ d[i].kind = "States" => wanted'[i] = d[i].desired
  BY <1>4 DEF InHand
<1>6. k \in 1 .. MaxOutputs /\ k \in DOMAIN board[i]
  <2>1. k \in 1 .. MaxOutputs /\ DOMAIN r[i].outputs = 1 .. Len(r[i].outputs)
    BY <1>4, <1>5, RuntimeRecord DEF RuntimeOK
  <2>2. DOMAIN board[i] = 1 .. Len(board[i])
    BY <1>4, SequenceUpTo, Constants DEF Boarded
  <2>3. QED
    BY <1>4, <1>5, <2>1, <2>2
<1>7. /\ board' \in [Slots -> Boarded]
      /\ \A j \in Slots : Len(board'[j]) = Len(board[j])
      /\ x.reply \in OutputStates \cup {"Failed"}
  BY <1>2, <1>4, <1>6, QueryKeeps
<1>8. at \in IntentRecords /\ Follows(at, d[i]) /\ at.index \in 1 .. MaxOutputs
  BY <1>5, <1>6, IntentKeeps DEF at
<1> DEFINE e == IF command = "Get" THEN ReadForApply(at, x.reply) ELSE SetAnswered(at, x.reply)
<1>9. e \in IntentRecords /\ Follows(e, d[i])
  <2>1. e \in IntentRecords /\ Follows(e, at)
    BY <1>8, IntentKeeps
  <2>2. QED
    BY <1>8, <2>1 DEF Follows
<1>10. /\ passed = [j \in Slots |-> passed[j]]
       /\ \A j \in Slots : passed[j] \in IntentRecords /\ Follows(passed[j], d[j])
  BY SettledKeeps DEF passed, Passed
<1>11. intent' = [passed EXCEPT ![i] = e]
  BY <1>2
<1> HIDE DEF e
<1>12. /\ intent' = [j \in Slots |-> intent'[j]]
       /\ \A j \in Slots : intent'[j] \in IntentRecords /\ Follows(intent'[j], d[j])
  BY <1>4, <1>9, <1>10, <1>11
<1> DEFINE t == IF x.reply = "Failed" THEN r[i] ELSE Remember(r[i], k, x.reply)
<1>13. runtime' = [r EXCEPT ![i] = t]
  BY <1>2, <1>4 DEF InHand
<1>14. RuntimeOK(t) /\ FeedMoves(r[i], t) /\ t.counted /\ Len(t.outputs) = Len(r[i].outputs)
  <2>1. FeedMoves(r[i], r[i])
    BY DEF FeedMoves
  <2>2. QED
    BY <1>4, <1>5, <1>7, <2>1, RememberKeeps
<1> HIDE DEF t
<1>15. OnOnlyCommanded'
  <2>1. CASE command = "SetOn"
    <3>1. switched' = {<<i, k>>}
      BY <1>2, <2>1 DEF Query
    <3>2. d[i].kind = "States" /\ d[i].desired[k]
      BY <1>3, <2>1 DEF DesiredOn
    <3>3. Len(d[i].desired) = Len(board'[i])
      BY <1>4, <1>5, <1>7, <3>2 DEF Mismatched
    <3>4. wanted'[i] = d[i].desired
      BY <1>5, <3>2
    <3>5. QED
      BY <3>1, <3>2, <3>3, <3>4 DEF OnOnlyCommanded
  <2>2. CASE command # "SetOn"
    BY <1>2, <2>2 DEF Query, OnOnlyCommanded
  <2>3. QED
    BY <2>1, <2>2
<1>16. t.counted => Holds(view[i], Solenoid) /\ Len(t.outputs) = Len(board[i])
  BY <1>4, <1>5, <1>14
<1>17. QED
  BY <1>4, <1>7, <1>12, <1>13, <1>14, <1>15, <1>16, OneSlotServed

LEMMA PeriodicServed ==
  ASSUME NEW r, NEW d, NEW E, InHand(r, d), board \in [Slots -> Boarded],
         ServicePeriodic(r, d, E)
  PROVE  Served(r, d)
<1>1. PICK i \in Lowest(Pollable(r, E)) : \E x \in Exchanges(i, r[i].index, "Get") :
        /\ Query(i, r[i].index, "Get", x)
        /\ runtime' = [r EXCEPT ![i] = Polled(@, x.reply)]
        /\ intent' = [Settled(r, d, Slots) EXCEPT ![i] = RemindOff(@, x.reply)]
  BY DEF ServicePeriodic
<1>2. PICK x \in Exchanges(i, r[i].index, "Get") :
        /\ Query(i, r[i].index, "Get", x)
        /\ runtime' = [r EXCEPT ![i] = Polled(r[i], x.reply)]
        /\ intent' = [Settled(r, d, Slots) EXCEPT
                        ![i] = RemindOff(Settled(r, d, Slots)[i], x.reply)]
  BY <1>1
<1>3. i \in Slots /\ (r[i].inCycle \/ Len(r[i].outputs) > 0)
  BY DEF Lowest, Pollable
<1>4. RuntimeOK(r[i])
  BY <1>3 DEF InHand
<1>5. r[i].index \in DOMAIN r[i].outputs
  <2>1. CASE r[i].inCycle
    BY <1>4, <2>1 DEF RuntimeOK, Cursor
  <2>2. CASE ~r[i].inCycle
    <3>1. r[i].index = 1 /\ Len(r[i].outputs) > 0
      BY <1>3, <1>4, <2>2 DEF RuntimeOK, Cursor
    <3>2. DOMAIN r[i].outputs = 1 .. Len(r[i].outputs) /\ Len(r[i].outputs) \in 0 .. MaxOutputs
      BY <1>4, RuntimeRecord DEF RuntimeOK
    <3>3. QED
      BY <3>1, <3>2, Constants
  <2>3. QED
    BY <2>1, <2>2
<1>6. r[i].counted
  <2>1. ~r[i].counted => r[i].outputs = << >>
    BY <1>4 DEF RuntimeOK
  <2>2. QED
    BY <1>5, <2>1
<1>7. Holds(view[i], Solenoid) /\ Len(r[i].outputs) = Len(board[i])
  BY <1>3, <1>6 DEF InHand
<1>8. r[i].index \in DOMAIN board[i]
  <2>1. DOMAIN r[i].outputs = 1 .. Len(r[i].outputs)
    BY <1>4, RuntimeRecord DEF RuntimeOK
  <2>2. DOMAIN board[i] = 1 .. Len(board[i])
    BY <1>3, SequenceUpTo, Constants DEF Boarded
  <2>3. QED
    BY <1>5, <1>7, <2>1, <2>2
<1>9. /\ board' \in [Slots -> Boarded]
      /\ \A j \in Slots : Len(board'[j]) = Len(board[j])
      /\ x.reply \in OutputStates \cup {"Failed"}
  BY <1>2, <1>3, <1>8, QueryKeeps
<1> DEFINE t == Polled(r[i], x.reply)
           ended == Settled(r, d, Slots)
<1>10. RuntimeOK(t) /\ FeedMoves(r[i], t) /\ t.counted /\ Len(t.outputs) = Len(r[i].outputs)
  BY <1>4, <1>5, <1>6, <1>9, PolledKeeps
<1>11. runtime' = [r EXCEPT ![i] = t]
  BY <1>2
<1>12. /\ ended = [j \in Slots |-> ended[j]]
       /\ \A j \in Slots : ended[j] \in IntentRecords /\ Follows(ended[j], d[j])
  BY SettledKeeps
<1>13. intent' = [ended EXCEPT ![i] = RemindOff(ended[i], x.reply)]
  BY <1>2
<1> HIDE DEF t, ended
<1>14. /\ RemindOff(ended[i], x.reply) \in IntentRecords
       /\ Follows(RemindOff(ended[i], x.reply), d[i])
  <2>1. ended[i] \in IntentRecords /\ Follows(ended[i], d[i])
    BY <1>3, <1>12
  <2>2. /\ RemindOff(ended[i], x.reply) \in IntentRecords
        /\ Follows(RemindOff(ended[i], x.reply), ended[i])
    BY <2>1, IntentKeeps
  <2>3. QED
    BY <2>1, <2>2 DEF Follows
<1>15. /\ intent' = [j \in Slots |-> intent'[j]]
       /\ \A j \in Slots : intent'[j] \in IntentRecords /\ Follows(intent'[j], d[j])
  BY <1>3, <1>12, <1>13, <1>14
<1>16. OnOnlyCommanded'
  BY <1>2 DEF Query, OnOnlyCommanded
<1>17. t.counted => Holds(view[i], Solenoid) /\ Len(t.outputs) = Len(board[i])
  BY <1>7, <1>10
<1>18. QED
  BY <1>3, <1>9, <1>10, <1>11, <1>15, <1>16, <1>17, OneSlotServed

LEMMA NothingServed ==
  ASSUME NEW r, NEW d, NEW E, InHand(r, d), board \in [Slots -> Boarded], NothingDue(r, d, E)
  PROVE  Served(r, d)
<1>1. runtime' = r /\ intent' = Settled(r, d, Slots) /\ switched' = {} /\ board' = board
  BY DEF NothingDue
<1>2. \A i \in Slots : FeedMoves(r[i], r[i])
  BY DEF FeedMoves
<1>3. OnOnlyCommanded'
  BY <1>1 DEF OnOnlyCommanded
<1>4. QED
  BY <1>1, <1>2, <1>3, SettledKeeps DEF Served, InHand

-----------------------------------------------------------------------------
(* The steps                                                               *)

LEMMA PreparedInHand ==
  ASSUME SolenoidInv, NEW elapsed, Turn(elapsed)
  PROVE  /\ InHand(PreparedRuntime, PreparedIntent(elapsed))
         /\ \A i \in Slots : FeedMoves(runtime[i], PreparedRuntime[i])
<1> DEFINE r == PreparedRuntime
           d == PreparedIntent(elapsed)
<1>1. ASSUME NEW i \in Slots
      PROVE  /\ RuntimeOK(r[i])
             /\ r[i].counted => Holds(view[i], Solenoid) /\ Len(r[i].outputs) = Len(board[i])
             /\ FeedMoves(runtime[i], r[i])
  <2>1. RuntimeOK(runtime[i]) /\ SessionOK(i) /\ view[i].epoch \in 0 .. EpochModulus - 1
    BY DEF SolenoidInv, SolenoidTypeOK, SlotsTypeOK, ViewRecords
  <2>2. r[i] = SyncRuntime(runtime[i], view[i])
    BY DEF PreparedRuntime
  <2> HIDE DEF r
  <2>3. /\ RuntimeOK(r[i])
        /\ r[i] = runtime[i] \/ (~r[i].counted /\ r[i].outputs = << >>)
        /\ r[i].counted => Holds(view[i], Solenoid)
    BY <2>1, <2>2, SyncRuntimeKeeps
  <2>4. r[i].counted => Len(r[i].outputs) = Len(board[i])
    BY <2>1, <2>3 DEF SessionOK, Holds
  <2>5. FeedMoves(runtime[i], r[i])
    BY <2>3 DEF FeedMoves
  <2>6. QED
    BY <2>3, <2>4, <2>5
<1>2. ASSUME NEW i \in Slots
      PROVE  d[i] \in IntentRecords /\ (d[i].kind = "States" => wanted'[i] = d[i].desired)
  <2> DEFINE synced == SyncIntent(intent[i], runtime[i], view[i])
  <2>1. intent[i] \in IntentRecords /\ IntentOK(i)
    BY DEF SolenoidInv, SolenoidTypeOK
  <2>2. /\ synced \in IntentRecords /\ Follows(synced, intent[i])
        /\ synced.kind = "States" => ~CannotHold(view[i], Solenoid)
    BY <2>1, SyncIntentKeeps
  <2>3. d[i] = IF WindowCloses(elapsed) THEN ArmAllOff(synced) ELSE synced
    BY DEF PreparedIntent
  <2> HIDE DEF synced, d
  <2>4. CASE WindowCloses(elapsed)
    BY <2>2, <2>3, <2>4, ArmAllOffKeeps
  <2>5. CASE ~WindowCloses(elapsed)
    <3>1. d[i] = synced
      BY <2>3, <2>5
    <3>2. ASSUME d[i].kind = "States"
          PROVE  wanted'[i] = d[i].desired
      <4>1. wanted'[i] = wanted[i]
        BY <2>2, <2>5, <3>1, <3>2 DEF Turn
      <4>2. QED
        BY <2>1, <2>2, <3>1, <3>2, <4>1 DEF Follows, IntentOK
    <3>3. QED
      BY <2>2, <3>1, <3>2
  <2>6. QED
    BY <2>4, <2>5
<1>3. r = [i \in Slots |-> r[i]] /\ d = [i \in Slots |-> d[i]]
  BY DEF PreparedRuntime, PreparedIntent
<1>4. QED
  BY <1>1, <1>2, <1>3 DEF InHand

\* From a runtime that was kept, or that knows nothing, a service moves the feed
\* by at most one step.
LEMMA FeedMovesFrom ==
  ASSUME NEW r0, NEW r, NEW t,
         r = r0 \/ (~r.counted /\ r.outputs = << >>),
         RuntimeOK(r), RuntimeOK(t), FeedMoves(r, t)
  PROVE  FeedMoves(r0, t)
<1>1. CASE r = r0
  BY <1>1
<1>2. CASE ~r.counted /\ r.outputs = << >>
  <2>1. r.counted \in BOOLEAN /\ t.counted \in BOOLEAN
    BY DEF RuntimeOK, RuntimeRecords
  <2>2. \/ ~t.counted /\ t.outputs = << >>
        \/ \E n \in 0 .. MaxOutputs : t.counted /\ t.outputs = [k \in 1 .. n |-> Unread]
    BY <1>2, <2>1 DEF FeedMoves
  <2>3. QED
    BY <2>2 DEF FeedMoves
<1>3. QED
  BY <1>1, <1>2

LEMMA UpdateKeeps ==
  ASSUME SolenoidInv, NEW E, NEW elapsed, Update(E, elapsed)
  PROVE  SolenoidInv' /\ \A i \in Slots : FeedMoves(runtime[i], runtime'[i])
<1> DEFINE r == PreparedRuntime
           d == PreparedIntent(elapsed)
<1>1. Turn(elapsed)
  BY DEF Update
<1>2. InHand(r, d)
  BY <1>1, PreparedInHand
<1>3. \A i \in Slots : r[i] = runtime[i] \/ (~r[i].counted /\ r[i].outputs = << >>)
  <2>1. ASSUME NEW i \in Slots
        PROVE  r[i] = runtime[i] \/ (~r[i].counted /\ r[i].outputs = << >>)
    <3>1. RuntimeOK(runtime[i]) /\ view[i].epoch \in 0 .. EpochModulus - 1
      BY DEF SolenoidInv, SolenoidTypeOK, SlotsTypeOK, ViewRecords
    <3>2. r[i] = SyncRuntime(runtime[i], view[i])
      BY DEF PreparedRuntime
    <3>3. QED
      BY <3>1, <3>2, SyncRuntimeKeeps
  <2>2. QED
    BY <2>1
<1>4. \/ ServiceCount(r, d, E) \/ ServiceApply(r, d, E)
      \/ ServicePeriodic(r, d, E) \/ NothingDue(r, d, E)
  BY DEF Update
<1> HIDE DEF r, d
<1>5. board \in [Slots -> Boarded]
  BY DEF SolenoidInv, Boarded
<1>6. Served(r, d)
  BY <1>2, <1>4, <1>5, CountServed, ApplyServed, PeriodicServed, NothingServed
<1>7. ASSUME NEW i \in Slots
      PROVE  /\ RuntimeOK(runtime'[i]) /\ SessionOK(i)' /\ IntentOK(i)'
             /\ FeedMoves(runtime[i], runtime'[i])
  <2>1. /\ RuntimeOK(runtime'[i]) /\ FeedMoves(r[i], runtime'[i])
        /\ runtime'[i].counted =>
             Holds(view[i], Solenoid) /\ Len(runtime'[i].outputs) = Len(board'[i])
        /\ intent'[i] \in IntentRecords /\ Follows(intent'[i], d[i])
    BY <1>6 DEF Served
  <2>2. RuntimeOK(r[i]) /\ (d[i].kind = "States" => wanted'[i] = d[i].desired)
    BY <1>2 DEF InHand
  <2>3. FeedMoves(runtime[i], runtime'[i])
    BY <1>3, <2>1, <2>2, FeedMovesFrom
  <2>4. SessionOK(i)'
    BY <1>1, <2>1 DEF SessionOK, Turn
  <2>5. IntentOK(i)'
    BY <2>1, <2>2 DEF IntentOK, Follows
  <2>6. QED
    BY <2>1, <2>3, <2>4, <2>5
<1>8. wanted' \in [Slots -> UpTo(MaxOutputs, BOOLEAN)]
  <2>1. << >> \in UpTo(MaxOutputs, BOOLEAN)
    BY EmptyUpTo, Constants
  <2>2. QED
    BY <1>1, <2>1 DEF Turn, SolenoidInv
<1>9. SolenoidTypeOK'
  <2>1. runtime' \in [Slots -> RuntimeRecords]
    BY <1>6, <1>7 DEF Served, RuntimeOK
  <2>2. intent' \in [Slots -> IntentRecords]
    BY <1>6 DEF Served
  <2>3. \A i \in Slots : runtime'[i].inCycle => runtime'[i].index \in DOMAIN runtime'[i].outputs
    BY <1>7 DEF RuntimeOK, Cursor
  <2>4. silence' \in {"Idle", "Open", "Closed"} /\ SlotsTypeOK'
    BY <1>1 DEF Turn, SolenoidInv, SolenoidTypeOK, SlotsTypeOK
  <2>5. QED
    BY <2>1, <2>2, <2>3, <2>4 DEF SolenoidTypeOK
<1>10. QED
  BY <1>6, <1>7, <1>8, <1>9 DEF SolenoidInv, Served, Boarded

LEMMA CommandStatesKeeps ==
  ASSUME SolenoidInv, NEW i \in Slots, NEW n \in 1 .. MaxOutputs,
         NEW desired \in [1 .. n -> BOOLEAN], CommandStates(i, desired)
  PROVE  SolenoidInv'
<1> DEFINE t == Restarted([NoIntent EXCEPT !.kind = "States", !.desired = desired])
<1>1. t \in IntentRecords /\ t.desired = desired
  BY CommandKeeps
<1>2. intent' = [intent EXCEPT ![i] = t]
  BY DEF CommandStates
<1> HIDE DEF t
<1>3. desired \in UpTo(MaxOutputs, BOOLEAN)
  BY Constants DEF UpTo
<1>4. SolenoidTypeOK'
  BY <1>1, <1>2 DEF CommandStates, SolenoidInv, SolenoidTypeOK, SlotsTypeOK
<1>5. wanted' \in [Slots -> UpTo(MaxOutputs, BOOLEAN)]
  BY <1>3 DEF CommandStates, SolenoidInv
<1>6. ASSUME NEW j \in Slots
      PROVE  IntentOK(j)'
  <2>1. CASE j = i
    BY <1>1, <1>2, <2>1 DEF CommandStates, SolenoidInv, SolenoidTypeOK, IntentOK
  <2>2. CASE j # i
    BY <1>2, <2>2 DEF CommandStates, SolenoidInv, SolenoidTypeOK, IntentOK
  <2>3. QED
    BY <2>1, <2>2
<1>7. QED
  BY <1>4, <1>5, <1>6 DEF CommandStates, SolenoidInv, SessionOK, OnOnlyCommanded

\* A slot that loses its module is marked as changed until the next pass.
LEMMA HostChangesKeeps ==
  ASSUME SolenoidInv, NEW i \in Slots, HostChanges(i)
  PROVE  SolenoidInv'
<1>1. PICK v \in ViewRecords(i) : view' = [view EXCEPT ![i] = v]
  BY DEF HostChanges, HostMoves
<1>2. i \notin changed /\ changed' = changed \cup {i}
      /\ UNCHANGED <<runtime, intent, silence, board, wanted, calm>> /\ switched' = {}
  BY DEF HostChanges, HostMoves, pollerVars
<1>3. SlotsTypeOK'
  BY <1>1, <1>2 DEF SolenoidInv, SolenoidTypeOK, SlotsTypeOK
<1>4. ASSUME NEW j \in Slots
      PROVE  SessionOK(j)'
  <2>1. SessionOK(j)
    BY DEF SolenoidInv
  <2>2. CASE j = i
    BY <1>2, <2>1, <2>2 DEF SessionOK, Holds
  <2>3. CASE j # i
    <3>1. view'[j] = view[j]
      BY <1>1, <2>3 DEF SolenoidInv, SolenoidTypeOK, SlotsTypeOK
    <3>2. QED
      BY <1>2, <2>1, <3>1 DEF SessionOK
  <2>4. QED
    BY <2>2, <2>3
<1>5. QED
  BY <1>2, <1>3, <1>4 DEF SolenoidInv, SolenoidTypeOK, IntentOK, OnOnlyCommanded

LEMMA BoardSwappedKeeps ==
  ASSUME SolenoidInv, NEW i \in Slots, BoardSwapped(i)
  PROVE  SolenoidInv'
<1>1. PICK b \in Boards : board' = [board EXCEPT ![i] = b]
  BY DEF BoardSwapped
<1>2. b \in UpTo(MaxOutputs, OutputStates)
  BY SolenoidAssumption DEF Boards, UpTo
<1>3. board' \in [Slots -> UpTo(MaxOutputs, OutputStates)]
  BY <1>1, <1>2 DEF SolenoidInv
<1>4. ASSUME NEW j \in Slots
      PROVE  SessionOK(j)'
  <2>1. SessionOK(j)
    BY DEF SolenoidInv
  <2>2. CASE j = i
    BY <2>1, <2>2 DEF BoardSwapped, SessionOK, pollerVars
  <2>3. CASE j # i
    BY <1>1, <2>1, <2>3 DEF BoardSwapped, SolenoidInv, SessionOK, pollerVars
  <2>4. QED
    BY <2>2, <2>3
<1>5. QED
  BY <1>3, <1>4 DEF BoardSwapped, pollerVars, SolenoidInv, SolenoidTypeOK, SlotsTypeOK,
     IntentOK, OnOnlyCommanded

LEMMA OutputChangesKeeps ==
  ASSUME SolenoidInv, NEW i \in Slots, OutputChanges(i)
  PROVE  SolenoidInv'
<1>1. PICK k \in DOMAIN board[i], state \in {"Off", "Disconnected"} :
        board' = [board EXCEPT ![i] = [board[i] EXCEPT ![k] = state]]
  BY DEF OutputChanges
<1>2. board[i] \in UpTo(MaxOutputs, OutputStates) /\ state \in OutputStates
  BY DEF SolenoidInv, OutputStates
<1>3. /\ [board[i] EXCEPT ![k] = state] \in UpTo(MaxOutputs, OutputStates)
      /\ Len([board[i] EXCEPT ![k] = state]) = Len(board[i])
  BY <1>2, ExceptUpTo, Constants
<1>4. /\ board' \in [Slots -> UpTo(MaxOutputs, OutputStates)]
      /\ \A j \in Slots : Len(board'[j]) = Len(board[j])
  BY <1>1, <1>3 DEF SolenoidInv
<1>5. QED
  BY <1>4 DEF OutputChanges, pollerVars, SolenoidInv, SolenoidTypeOK, SlotsTypeOK, SessionOK,
     IntentOK, OnOnlyCommanded

\* What Init and a reset of the controller start with.
LEMMA StartsEmpty ==
  /\ [i \in Slots |-> NoRuntime] \in [Slots -> RuntimeRecords]
  /\ [i \in Slots |-> NoIntent] \in [Slots -> IntentRecords]
  /\ [i \in Slots |-> << >>] \in [Slots -> UpTo(MaxOutputs, BOOLEAN)]
  /\ \A i \in Slots : EmptySlot \in ViewRecords(i)
  /\ ~NoRuntime.inCycle
<1>1. << >> \in UpTo(MaxOutputs, BOOLEAN)
  BY EmptyUpTo, Constants
<1>2. \A i \in Slots : EmptySlot \in ViewRecords(i)
  BY Constants DEF EmptySlot, ViewRecords
<1>3. QED
  BY <1>1, <1>2, NoRuntimeOK, NoIntentKeeps DEF RuntimeOK, NoRuntime

LEMMA ControllerResetKeeps ==
  ASSUME SolenoidInv, ControllerReset
  PROVE  SolenoidInv'
<1>1. SolenoidTypeOK'
  BY StartsEmpty DEF ControllerReset, SlotsReboot, SolenoidInv, SolenoidTypeOK, SlotsTypeOK
<1>2. wanted' \in [Slots -> UpTo(MaxOutputs, BOOLEAN)]
  BY StartsEmpty DEF ControllerReset
<1>3. \A i \in Slots : RuntimeOK(runtime'[i]) /\ ~runtime'[i].counted
  BY NoRuntimeOK DEF ControllerReset
<1>4. \A i \in Slots : intent'[i].kind # "States"
  BY NoIntentKeeps DEF ControllerReset
<1>5. QED
  BY <1>1, <1>2, <1>3, <1>4 DEF ControllerReset, SolenoidInv, SessionOK, IntentOK,
     OnOnlyCommanded

LEMMA InitGood == Init => SolenoidInv
<1> SUFFICES ASSUME Init PROVE SolenoidInv
  OBVIOUS
<1>1. SolenoidTypeOK
  BY StartsEmpty DEF Init, SlotsInit, SolenoidTypeOK, SlotsTypeOK
<1>2. board \in [Slots -> UpTo(MaxOutputs, OutputStates)]
  <2>1. Boards \subseteq UpTo(MaxOutputs, OutputStates)
    BY SolenoidAssumption DEF Boards, UpTo
  <2>2. QED
    BY <2>1 DEF Init
<1>3. QED
  BY <1>1, <1>2, StartsEmpty, NoRuntimeOK, NoIntentKeeps DEF Init, SolenoidInv, SessionOK,
     IntentOK, OnOnlyCommanded

\* Every step keeps the invariant and moves every feed by at most one step.
LEMMA NextKeeps ==
  ASSUME SolenoidInv, [Next]_vars
  PROVE  SolenoidInv' /\ \A i \in Slots : FeedMoves(runtime[i], runtime'[i])
<1>1. ASSUME UNCHANGED runtime
      PROVE  \A i \in Slots : FeedMoves(runtime[i], runtime'[i])
  BY <1>1 DEF FeedMoves
<1>2. ASSUME NEW E, NEW elapsed, Update(E, elapsed)
      PROVE  SolenoidInv' /\ \A i \in Slots : FeedMoves(runtime[i], runtime'[i])
  BY <1>2, UpdateKeeps
<1>3. ASSUME NEW i \in Slots, NEW n \in 1 .. MaxOutputs, NEW desired \in [1 .. n -> BOOLEAN],
             CommandStates(i, desired)
      PROVE  SolenoidInv' /\ UNCHANGED runtime
  BY <1>3, CommandStatesKeeps DEF CommandStates
<1>4. ASSUME NEW i \in Slots, HostChanges(i)
      PROVE  SolenoidInv' /\ UNCHANGED runtime
  BY <1>4, HostChangesKeeps DEF HostChanges, pollerVars
<1>5. ASSUME NEW i \in Slots, BoardSwapped(i)
      PROVE  SolenoidInv' /\ UNCHANGED runtime
  BY <1>5, BoardSwappedKeeps DEF BoardSwapped, pollerVars
<1>6. ASSUME NEW i \in Slots, OutputChanges(i)
      PROVE  SolenoidInv' /\ UNCHANGED runtime
  BY <1>6, OutputChangesKeeps DEF OutputChanges, pollerVars
<1>7. CASE ControllerReset
  <2>1. \A i \in Slots : FeedMoves(runtime[i], runtime'[i])
    BY <1>7, NoRuntimeOK DEF ControllerReset, FeedMoves
  <2>2. QED
    BY <1>7, <2>1, ControllerResetKeeps
<1>8. CASE CalmDown
  <2>1. SolenoidInv'
    BY <1>8 DEF CalmDown, pollerVars, SolenoidInv, SolenoidTypeOK, SlotsTypeOK, SessionOK,
       IntentOK, OnOnlyCommanded
  <2>2. QED
    BY <1>1, <1>8, <2>1 DEF CalmDown, pollerVars
<1>9. CASE UNCHANGED vars
  <2>1. SolenoidInv'
    BY <1>9 DEF vars, pollerVars, SolenoidInv, SolenoidTypeOK, SlotsTypeOK, SessionOK,
       IntentOK, OnOnlyCommanded
  <2>2. QED
    BY <1>1, <1>9, <2>1 DEF vars, pollerVars
<1>10. QED
  BY <1>1, <1>2, <1>3, <1>4, <1>5, <1>6, <1>7, <1>8, <1>9 DEF Next

-----------------------------------------------------------------------------
(* The results                                                             *)

\* SolenoidInvariance: the inductive invariant of the poller.
THEOREM SolenoidInvariance == Spec => []SolenoidInv
<1>1. Init => SolenoidInv
  BY InitGood
<1>2. SolenoidInv /\ [Next]_vars => SolenoidInv'
  BY NextKeeps
<1>3. QED
  BY <1>1, <1>2, PTL DEF Spec

\* SolenoidTypeCorrect: no retry counter of the poller reaches its limit, no
\* cursor leaves the outputs of its module and every record keeps its type.
THEOREM SolenoidTypeCorrect == Spec => []SolenoidTypeOK
BY SolenoidInvariance, PTL DEF SolenoidInv

\* OnOnlyCommandedHolds: SET_SOLENOID on only ever goes to an output that the
\* command in force names on, and to a module with as many outputs as it names
\* (_serviceApply), however modules leave, reboot and are swapped between the
\* command and its application.
THEOREM OnOnlyCommandedHolds == Spec => []OnOnlyCommanded
BY SolenoidInvariance, PTL DEF SolenoidInv

\* A move of the feed is a step of the abstract feed, or none.
LEMMA FeedMovesAreSteps ==
  ASSUME NEW i \in Slots, RuntimeOK(runtime[i]), RuntimeOK(runtime'[i]),
         FeedMoves(runtime[i], runtime'[i])
  PROVE  [Feed(i)!Next]_(Feed(i)!feedVars)
<1>1. runtime[i].counted \in BOOLEAN /\ runtime'[i].counted \in BOOLEAN
  BY DEF RuntimeOK, RuntimeRecords
<1>2. CASE runtime'[i].counted = runtime[i].counted /\ runtime'[i].outputs = runtime[i].outputs
  BY <1>2 DEF Feed!feedVars
<1>3. CASE ~runtime'[i].counted /\ runtime'[i].outputs = << >>
  BY <1>1, <1>3 DEF Feed!Next, Feed!Forget
<1>4. ASSUME NEW n \in 0 .. MaxOutputs, runtime'[i].counted,
             runtime'[i].outputs = [k \in 1 .. n |-> Unread]
      PROVE  Feed(i)!Next
  <2>1. Feed(i)!Learn(n)
    BY <1>1, <1>4 DEF Feed!Learn, Feed!Unread, Unread
  <2>2. QED
    BY <2>1 DEF Feed!Next
<1>5. ASSUME NEW k \in 1 .. MaxOutputs, NEW state \in OutputStates,
             runtime[i].counted, runtime'[i].counted, k \in DOMAIN runtime[i].outputs,
             runtime'[i].outputs =
               [runtime[i].outputs EXCEPT
                  ![k] = [state |-> state, revision |-> NextRevision(@.revision)]]
      PROVE  Feed(i)!Next
  <2>1. Feed(i)!Store(k, state)
    BY <1>1, <1>5 DEF Feed!Store, Feed!Stored, Feed!NextRevision, NextRevision
  <2>2. QED
    BY <2>1 DEF Feed!Next, Feed!OutputStates, OutputStates
<1>6. QED
  BY <1>2, <1>3, <1>4, <1>5 DEF FeedMoves

\* FeedsImplemented: the poller implements SolenoidFeed in every slot: a stored
\* state always moves the revision of its output, and all of them start anew with
\* the count of a module that is identified, which is what the MQTT bridge relies
\* on (_rememberState and _syncSessions).
THEOREM FeedsImplemented == Spec => FeedsKeepPromise
<1>1. Init => \A i \in Slots : Feed(i)!Init
  BY DEF Init, Feed!Init, NoRuntime
<1>2. SolenoidInv /\ SolenoidInv' /\ [Next]_vars =>
        \A i \in Slots : [Feed(i)!Next]_(Feed(i)!feedVars)
  BY NextKeeps, FeedMovesAreSteps DEF SolenoidInv
<1>3. QED
  BY <1>1, <1>2, SolenoidInvariance, PTL DEF Spec, FeedsKeepPromise

=============================================================================
