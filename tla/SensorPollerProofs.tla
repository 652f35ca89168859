------------------------- MODULE SensorPollerProofs -------------------------
(***************************************************************************)
(* The sensor poller stays within its queues, counters and cursors and     *)
(* implements the feed its readers rely on, for every number of slots and  *)
(* inputs, every depth of the queues, every retry limit and every set of   *)
(* values.                                                                 *)
(*                                                                         *)
(* A read of an input of the cache only means an input of the module if    *)
(* both have as many: as in SolenoidPollerProofs, SessionOK says that a    *)
(* cache with a count belongs to the module in the slot, or the slot was   *)
(* changed since the last pass, and the next pass drops the cache.         *)
(***************************************************************************)
EXTENDS SensorPoller, TLAPS

\* A cycle stands at an input; the next one starts at the first.
Cursor(r) == IF r.inCycle THEN r.index \in DOMAIN r.samples ELSE r.index = 1

RuntimeOK(r) ==
  /\ r \in RuntimeRecords
  /\ Cursor(r)
  /\ ~r.counted => r.samples = << >>

SessionOK(i) ==
  runtime[i].counted =>
    /\ Len(runtime[i].samples) = Len(inputs[i]) \/ view[i].state = "Empty"
    /\ Holds(view[i], Sensor) \/ i \in changed

SensorInv ==
  /\ SensorTypeOK
  /\ inputs \in [Slots -> UpTo(MaxInputs, Readings)]
  /\ \A i \in Slots : RuntimeOK(runtime[i]) /\ SessionOK(i)

Presence(reading) == IF reading = "Absent" THEN "No" ELSE "Yes"

Reread(sample, reading) ==
  [present |-> Presence(reading), reading |-> reading,
   revision |-> NextRevision(sample.revision)]

\* What the readers see of a slot: the count c and the samples ss become c2, ss2.
Moves(c, ss, c2, ss2) ==
  \/ c2 = c /\ ss2 = ss
  \/ ~c2 /\ ss2 = << >>
  \/ \E n \in 0 .. MaxInputs : c2 /\ ss2 = [k \in 1 .. n |-> Unread]
  \/ \E k \in 1 .. MaxInputs, presence \in {"Yes", "No"} :
       /\ c /\ c2 /\ k \in DOMAIN ss
       /\ ss2 = [ss EXCEPT ![k].present = presence]
  \/ \E k \in 1 .. MaxInputs, reading \in Readings :
       /\ c /\ c2 /\ k \in DOMAIN ss
       /\ ss2 = [ss EXCEPT ![k] = Reread(@, reading)]

FeedMoves(r, t) == Moves(r.counted, r.samples, t.counted, t.samples)

-----------------------------------------------------------------------------
(* Bounded sequences                                                       *)

LEMMA EmptyUpTo ==
  ASSUME NEW n \in Nat, NEW S
  PROVE  << >> \in UpTo(n, S)
<1>1. 0 \in 0 .. n /\ << >> \in [1 .. 0 -> S]
  OBVIOUS
<1>2. QED
  BY <1>1, Zenon DEF UpTo

\* A bounded sequence is a sequence with a bounded length.
LEMMA SequenceUpTo ==
  ASSUME NEW n \in Nat, NEW S, NEW q \in UpTo(n, S)
  PROVE  /\ q \in Seq(S)
         /\ Len(q) \in 0 .. n
         /\ DOMAIN q = 1 .. Len(q)
         /\ \A k \in DOMAIN q : k \in 1 .. n /\ q[k] \in S
<1>1. PICK m \in 0 .. n : q \in [1 .. m -> S]
  BY DEF UpTo
<1>2. m \in Nat
  BY <1>1
<1>3. q \in Seq(S)
  BY <1>1, <1>2
<1>4. Len(q) = m /\ DOMAIN q = 1 .. m
  BY <1>1, <1>2
<1>5. QED
  BY <1>1, <1>3, <1>4

\* And every such sequence is one.
LEMMA LengthUpTo ==
  ASSUME NEW n \in Nat, NEW S, NEW q \in Seq(S), Len(q) <= n
  PROVE  q \in UpTo(n, S)
<1>1. Len(q) \in 0 .. n /\ q \in [1 .. Len(q) -> S]
  OBVIOUS
<1>2. QED
  BY <1>1, Zenon DEF UpTo

\* Changing one element keeps the bound and the length.
LEMMA ExceptUpTo ==
  ASSUME NEW n \in Nat, NEW S, NEW q \in UpTo(n, S), NEW k \in DOMAIN q, NEW e \in S
  PROVE  /\ [q EXCEPT ![k] = e] \in UpTo(n, S)
         /\ Len([q EXCEPT ![k] = e]) = Len(q)
         /\ DOMAIN [q EXCEPT ![k] = e] = DOMAIN q
<1>1. PICK m \in 0 .. n : q \in [1 .. m -> S]
  BY DEF UpTo
<1>2. [q EXCEPT ![k] = e] \in [1 .. m -> S]
  BY <1>1
<1>3. [q EXCEPT ![k] = e] \in UpTo(n, S)
  BY <1>2 DEF UpTo
<1>4. QED
  BY <1>1, <1>2, <1>3

LEMMA ConstantUpTo ==
  ASSUME NEW n \in Nat, NEW S, NEW m \in 0 .. n, NEW e \in S
  PROVE  /\ [k \in 1 .. m |-> e] \in UpTo(n, S)
         /\ Len([k \in 1 .. m |-> e]) = m
<1>1. [k \in 1 .. m |-> e] \in [1 .. m -> S]
  OBVIOUS
<1>2. QED
  BY <1>1 DEF UpTo

\* A queue that is not empty has a head and a shorter rest.
LEMMA TailUpTo ==
  ASSUME NEW n \in Nat, NEW S, NEW q \in UpTo(n, S), q # << >>
  PROVE  /\ Head(q) \in S
         /\ 1 \in DOMAIN q /\ Head(q) = q[1]
         /\ Tail(q) \in UpTo(n, S)
         /\ Len(Tail(q)) = Len(q) - 1
<1>1. q \in Seq(S) /\ Len(q) \in 0 .. n /\ DOMAIN q = 1 .. Len(q)
  BY SequenceUpTo
<1>2. Head(q) \in S /\ Tail(q) \in Seq(S) /\ Len(Tail(q)) = Len(q) - 1
  BY <1>1
<1>3. 1 \in DOMAIN q /\ Head(q) = q[1]
  BY <1>1
<1>4. Len(Tail(q)) <= n
  BY <1>1, <1>2
<1>5. Tail(q) \in UpTo(n, S)
  BY <1>2, <1>4, LengthUpTo
<1>6. QED
  BY <1>2, <1>3, <1>5

\* An element that is appended finds room.
LEMMA AppendUpTo ==
  ASSUME NEW n \in Nat, NEW S, NEW q \in UpTo(n, S), Len(q) < n, NEW e \in S
  PROVE  Append(q, e) \in UpTo(n, S)
<1>1. q \in Seq(S) /\ Len(q) \in 0 .. n
  BY SequenceUpTo
<1>2. Append(q, e) \in Seq(S) /\ Len(Append(q, e)) = Len(q) + 1
  BY <1>1
<1>3. Len(Append(q, e)) <= n
  BY <1>1, <1>2
<1>4. QED
  BY <1>2, <1>3, LengthUpTo

-----------------------------------------------------------------------------
(* The runtime of a slot                                                   *)

Attempts == 0 .. QueryAttempts - 1

LEMMA Constants ==
  /\ 0 \in Attempts
  /\ 1 \in 1 .. MaxInputs
  /\ 0 \in 0 .. EpochModulus - 1
  /\ MaxInputs \in Nat /\ QueueDepth \in Nat /\ QueueDepth > 0
BY SensorAssumption, SlotsAssumption DEF Attempts

LEMMA OneMoreAttempt ==
  ASSUME NEW n \in Attempts, ~Exhausted(n)
  PROVE  n + 1 \in Attempts
BY SensorAssumption DEF Attempts, Exhausted

\* A reading that is stored is one of the samples.
LEMMA RereadIsSample ==
  ASSUME NEW sample \in Samples, NEW reading \in Readings
  PROVE  Reread(sample, reading) \in Samples
<1>1. NextRevision(sample.revision) \in 0 .. RevisionModulus - 1
  BY SensorAssumption DEF NextRevision, Samples
<1>2. QED
  BY <1>1 DEF Reread, Presence, Samples

\* Storing the presence first makes no difference to it.
LEMMA RereadInSteps ==
  ASSUME NEW sample \in Samples, NEW reading
  PROVE  LET f == [sample EXCEPT !.present = Presence(reading)]
         IN  [f EXCEPT !.reading = reading, !.revision = NextRevision(f.revision)]
               = Reread(sample, reading)
<1> DEFINE f == [sample EXCEPT !.present = Presence(reading)]
           n == NextRevision(sample.revision)
           g == [f EXCEPT !.reading = reading]
<1>1. f = [present |-> Presence(reading), reading |-> sample.reading,
           revision |-> sample.revision]
  BY DEF Samples
<1>2. f.revision = sample.revision
  BY <1>1
<1> HIDE DEF f, n
<1>3. g = [present |-> Presence(reading), reading |-> reading, revision |-> sample.revision]
  BY <1>1
<1>4. [f EXCEPT !.reading = reading, !.revision = n] = [g EXCEPT !.revision = n]
  BY <1>1
<1> HIDE DEF g
<1>5. [f EXCEPT !.reading = reading, !.revision = n]
        = [present |-> Presence(reading), reading |-> reading, revision |-> n]
  BY <1>3, <1>4
<1>6. QED
  BY <1>2, <1>5 DEF Reread, f, n

\* A runtime in its parts.
LEMMA RuntimeRecord ==
  ASSUME NEW r \in RuntimeRecords
  PROVE  /\ r.counted \in BOOLEAN /\ r.inCycle \in BOOLEAN /\ r.readingStep \in BOOLEAN
         /\ r.samples \in UpTo(MaxInputs, Samples)
         /\ r.index \in 1 .. MaxInputs
         /\ Len(r.samples) \in 0 .. MaxInputs
         /\ DOMAIN r.samples = 1 .. Len(r.samples)
         /\ \A k \in DOMAIN r.samples : k \in 1 .. MaxInputs /\ r.samples[k] \in Samples
<1>1. /\ r.counted \in BOOLEAN /\ r.inCycle \in BOOLEAN /\ r.readingStep \in BOOLEAN
      /\ r.samples \in UpTo(MaxInputs, Samples)
      /\ r.index \in 1 .. MaxInputs
  BY DEF RuntimeRecords
<1>2. QED
  BY <1>1, SequenceUpTo, Constants

LEMMA ClearedOK ==
  /\ RuntimeOK(Cleared) /\ ~Cleared.counted /\ Cleared.samples = << >>
  /\ \A e \in 0 .. EpochModulus - 1 :
       LET t == [Cleared EXCEPT !.epoch = e]
       IN  RuntimeOK(t) /\ ~t.counted /\ t.samples = << >>
<1>1. << >> \in UpTo(MaxInputs, Samples)
  BY EmptyUpTo, Constants
<1>2. QED
  BY <1>1, Constants DEF Cleared, RuntimeOK, RuntimeRecords, Cursor, Attempts

\* The session check keeps the runtime, or starts one that knows nothing.
LEMMA SyncSessionKeeps ==
  ASSUME NEW r, RuntimeOK(r), NEW v, v.epoch \in 0 .. EpochModulus - 1
  PROVE  LET t == SyncSession(r, v)
         IN  /\ RuntimeOK(t)
             /\ t = r \/ (~t.counted /\ t.samples = << >>)
             /\ t.counted => Holds(v, Sensor)
BY ClearedOK DEF SyncSession

\* The answer to a count query.
LEMMA CountedKeeps ==
  ASSUME NEW r, RuntimeOK(r), NEW count \in {NoCount} \cup 0 .. MaxInputs
  PROVE  LET t == Counted(r, count)
         IN  /\ RuntimeOK(t)
             /\ FeedMoves(r, t)
             /\ count = NoCount => t.counted = r.counted /\ t.samples = r.samples
             /\ count # NoCount => Len(t.samples) = count
<1> DEFINE t == Counted(r, count)
<1>1. CASE count = NoCount
  <2>1. t = [r EXCEPT !.countAttempts = IF Exhausted(r.countAttempts) THEN 0
                                                               ELSE r.countAttempts + 1,
                      !.countRetryAt = r.countRetryAt \/ Exhausted(r.countAttempts)]
    BY <1>1 DEF Counted, RuntimeOK, RuntimeRecords
  <2>2. r.countAttempts \in Attempts /\ r.countRetryAt \in BOOLEAN
    BY DEF RuntimeOK, RuntimeRecords, Attempts
  <2>3. (IF Exhausted(r.countAttempts) THEN 0 ELSE r.countAttempts + 1) \in Attempts
    BY <2>2, OneMoreAttempt, Constants
  <2>4. (r.countRetryAt \/ Exhausted(r.countAttempts)) \in BOOLEAN
    OBVIOUS
  <2>5. t \in RuntimeRecords /\ t.counted = r.counted /\ t.samples = r.samples
        /\ t.inCycle = r.inCycle /\ t.index = r.index
    BY <2>1, <2>3, <2>4 DEF RuntimeOK, RuntimeRecords, Attempts
  <2>6. QED
    BY <1>1, <2>5 DEF RuntimeOK, Cursor, FeedMoves, Moves
<1>2. CASE count # NoCount
  <2>1. count \in 0 .. MaxInputs
    BY <1>2
  <2>2. Unread \in Samples
    BY SensorAssumption DEF Unread, Samples
  <2> DEFINE ss == [k \in 1 .. count |-> Unread]
  <2>3. ss \in UpTo(MaxInputs, Samples) /\ Len(ss) = count
    BY <2>1, <2>2, ConstantUpTo, Constants
  <2>4. t = [r EXCEPT !.counted = TRUE, !.samples = ss, !.countAttempts = 0,
                      !.countRetryAt = FALSE, !.inCycle = FALSE, !.index = 1,
                      !.readingStep = FALSE, !.stepAttempts = 0, !.nextPollAt = FALSE]
    BY <1>2 DEF Counted
  <2> HIDE DEF ss
  <2>5. t \in RuntimeRecords /\ t.counted = TRUE /\ t.samples = ss /\ ~t.inCycle /\ t.index = 1
    BY <2>3, <2>4, Constants DEF RuntimeOK, RuntimeRecords, Attempts
  <2>6. t.counted /\ t.samples = [k \in 1 .. count |-> Unread]
    BY <2>5 DEF ss
  <2>7. FeedMoves(r, t)
    BY <2>1, <2>6 DEF FeedMoves, Moves
  <2>8. QED
    BY <1>2, <2>3, <2>5, <2>7 DEF RuntimeOK, Cursor
<1>3. QED
  BY <1>1, <1>2

\* A presence that is stored.
LEMMA ConnectedKeeps ==
  ASSUME NEW r, RuntimeOK(r), r.counted, NEW k \in DOMAIN r.samples, NEW reading \in Readings
  PROVE  LET t == RememberConnected(r, k, reading)
         IN  /\ RuntimeOK(t)
             /\ FeedMoves(r, t)
             /\ t.counted
             /\ Len(t.samples) = Len(r.samples)
             /\ t = [r EXCEPT !.samples = t.samples]
<1> DEFINE t == RememberConnected(r, k, reading)
           e == [r.samples[k] EXCEPT !.present = Presence(reading)]
           ss == [r.samples EXCEPT ![k] = e]
<1>1. /\ r \in RuntimeRecords
      /\ r.samples \in UpTo(MaxInputs, Samples)
      /\ k \in 1 .. MaxInputs /\ r.samples[k] \in Samples
  BY RuntimeRecord DEF RuntimeOK
<1>2. Presence(reading) \in {"Yes", "No"}
  BY DEF Presence
<1>3. e \in Samples
  BY <1>1, <1>2 DEF Samples
<1>4. ss = [r.samples EXCEPT ![k].present = Presence(reading)]
  OBVIOUS
<1>5. t = [r EXCEPT !.samples = ss]
  BY <1>1 DEF RememberConnected, RuntimeRecords, Presence
<1> HIDE DEF e, t
<1>6. ss \in UpTo(MaxInputs, Samples) /\ Len(ss) = Len(r.samples)
      /\ DOMAIN ss = DOMAIN r.samples
  BY <1>1, <1>3, ExceptUpTo, Constants
<1> HIDE DEF ss
<1>7. /\ t \in RuntimeRecords
      /\ t.samples = ss /\ t.counted = r.counted /\ t.inCycle = r.inCycle /\ t.index = r.index
  BY <1>1, <1>5, <1>6 DEF RuntimeRecords
<1>8. RuntimeOK(t)
  BY <1>6, <1>7 DEF RuntimeOK, Cursor
<1>9. FeedMoves(r, t)
  BY <1>1, <1>2, <1>4, <1>7 DEF FeedMoves, Moves
<1>10. QED
  BY <1>5, <1>6, <1>7, <1>8, <1>9 DEF t

\* A reading that is stored, with the presence it tells.
LEMMA ReadingKeeps ==
  ASSUME NEW r, RuntimeOK(r), r.counted, NEW k \in DOMAIN r.samples, NEW reading \in Readings
  PROVE  LET t == RememberReading(r, k, reading)
         IN  /\ RuntimeOK(t)
             /\ FeedMoves(r, t)
             /\ t.counted
             /\ Len(t.samples) = Len(r.samples)
             /\ t = [r EXCEPT !.samples = t.samples]
<1> DEFINE t == RememberReading(r, k, reading)
           e == Reread(r.samples[k], reading)
           ss == [r.samples EXCEPT ![k] = e]
           c == RememberConnected(r, k, reading)
           f == [r.samples[k] EXCEPT !.present = Presence(reading)]
<1>1. /\ r \in RuntimeRecords
      /\ r.samples \in UpTo(MaxInputs, Samples)
      /\ k \in 1 .. MaxInputs /\ r.samples[k] \in Samples
  BY RuntimeRecord DEF RuntimeOK
<1>2. e \in Samples
  BY <1>1, RereadIsSample
<1>3. ss = [r.samples EXCEPT ![k] = Reread(@, reading)]
  OBVIOUS
<1>4. t = [r EXCEPT !.samples = ss]
  <2>1. c = [r EXCEPT !.samples = [r.samples EXCEPT ![k] = f]]
    BY <1>1 DEF RememberConnected, RuntimeRecords, Presence
  <2>2. t = [c EXCEPT !.samples = [c.samples EXCEPT
               ![k] = [c.samples[k] EXCEPT !.reading = reading,
                                           !.revision = NextRevision(c.samples[k].revision)]]]
    BY <2>1, <1>1 DEF RememberReading, RuntimeRecords
  <2>3. c.samples = [r.samples EXCEPT ![k] = f]
    BY <1>1, <2>1 DEF RuntimeRecords
  <2>4. c.samples[k] = f
    BY <2>3
  <2>5. [f EXCEPT !.reading = reading, !.revision = NextRevision(f.revision)] = e
    BY <1>1, RereadInSteps
  <2> HIDE DEF t, c, e, f
  <2>6. [c.samples EXCEPT ![k] = e] = ss
    BY <2>3
  <2>7. t = [c EXCEPT !.samples = ss]
    BY <2>2, <2>4, <2>5, <2>6
  <2> HIDE DEF ss
  <2>8. QED
    BY <1>1, <2>1, <2>7 DEF RuntimeRecords
<1> HIDE DEF e, t
<1>5. ss \in UpTo(MaxInputs, Samples) /\ Len(ss) = Len(r.samples)
      /\ DOMAIN ss = DOMAIN r.samples
  BY <1>1, <1>2, ExceptUpTo, Constants
<1> HIDE DEF ss
<1>6. /\ t \in RuntimeRecords
      /\ t.samples = ss /\ t.counted = r.counted /\ t.inCycle = r.inCycle /\ t.index = r.index
  BY <1>1, <1>4, <1>5 DEF RuntimeRecords
<1>7. RuntimeOK(t)
  BY <1>5, <1>6 DEF RuntimeOK, Cursor
<1>8. FeedMoves(r, t)
  <2>1. /\ r.counted /\ t.counted /\ k \in DOMAIN r.samples
        /\ t.samples = [r.samples EXCEPT ![k] = Reread(@, reading)]
    BY <1>3, <1>6
  <2>2. QED
    BY <1>1, <2>1 DEF FeedMoves, Moves
<1>9. QED
  BY <1>4, <1>5, <1>6, <1>7, <1>8 DEF t

\* The cursor moves on; what the readers see stays.
LEMMA AdvanceKeeps ==
  ASSUME NEW r, RuntimeOK(r), r.inCycle
  PROVE  LET t == Advance(r)
         IN  RuntimeOK(t) /\ t.counted = r.counted /\ t.samples = r.samples
<1> DEFINE t == Advance(r)
<1>1. /\ r \in RuntimeRecords /\ r.index \in 1 .. Len(r.samples)
      /\ DOMAIN r.samples = 1 .. Len(r.samples) /\ Len(r.samples) \in 0 .. MaxInputs
  BY RuntimeRecord DEF RuntimeOK, Cursor
<1>2. CASE ~r.readingStep
  <2>1. t = [r EXCEPT !.readingStep = TRUE]
    BY <1>2 DEF Advance
  <2>2. QED
    BY <1>1, <2>1 DEF RuntimeOK, RuntimeRecords, Cursor
<1>3. CASE r.readingStep /\ r.index < Len(r.samples)
  <2>1. t = [r EXCEPT !.readingStep = FALSE, !.index = r.index + 1]
    BY <1>1, <1>3 DEF Advance, RuntimeRecords
  <2>2. r.index + 1 \in 1 .. MaxInputs /\ r.index + 1 \in 1 .. Len(r.samples)
    BY <1>1, <1>3, Constants
  <2>3. /\ t \in RuntimeRecords /\ t.index = r.index + 1 /\ t.inCycle = r.inCycle
        /\ t.counted = r.counted /\ t.samples = r.samples
    BY <1>1, <2>1, <2>2 DEF RuntimeRecords
  <2>4. QED
    BY <1>1, <2>2, <2>3 DEF RuntimeOK, Cursor
<1>4. CASE r.readingStep /\ ~(r.index < Len(r.samples))
  <2>1. t = [r EXCEPT !.readingStep = FALSE, !.inCycle = FALSE, !.index = 1, !.nextPollAt = TRUE]
    BY <1>4 DEF Advance
  <2>2. /\ t \in RuntimeRecords /\ t.index = 1 /\ t.inCycle = FALSE
        /\ t.counted = r.counted /\ t.samples = r.samples
    BY <1>1, <2>1, Constants DEF RuntimeRecords
  <2>3. QED
    BY <2>2 DEF RuntimeOK, Cursor
<1>5. QED
  BY <1>2, <1>3, <1>4

\* A step of the periodic cycle.
LEMMA PolledKeeps ==
  ASSUME NEW r, RuntimeOK(r), r.counted, r.index \in DOMAIN r.samples,
         NEW reply \in Readings \cup {"Failed"}
  PROVE  LET t == Polled(r, reply)
         IN  /\ RuntimeOK(t)
             /\ FeedMoves(r, t)
             /\ t.counted
             /\ Len(t.samples) = Len(r.samples)
<1> DEFINE t == Polled(r, reply)
           cycling == [r EXCEPT !.inCycle = TRUE]
           Restarts(u) == [u EXCEPT !.stepAttempts = 0]
<1>1. r \in RuntimeRecords /\ r.stepAttempts \in Attempts
  BY DEF RuntimeOK, RuntimeRecords, Attempts
<1>2. /\ cycling \in RuntimeRecords
      /\ cycling.counted = r.counted /\ cycling.samples = r.samples
      /\ cycling.inCycle = TRUE /\ cycling.index = r.index
      /\ cycling.stepAttempts = r.stepAttempts
  BY <1>1 DEF RuntimeRecords
<1>3. RuntimeOK(cycling)
  BY <1>2 DEF RuntimeOK, Cursor
<1>4. ASSUME NEW u, RuntimeOK(u), u.inCycle, u.counted, FeedMoves(r, u),
             Len(u.samples) = Len(r.samples)
      PROVE  LET v == Advance(Restarts(u))
             IN  RuntimeOK(v) /\ FeedMoves(r, v) /\ v.counted /\ Len(v.samples) = Len(r.samples)
  <2> DEFINE w == Restarts(u)
  <2>1. w \in RuntimeRecords /\ w.inCycle = u.inCycle /\ w.index = u.index
        /\ w.counted = u.counted /\ w.samples = u.samples
    BY <1>4, Constants DEF RuntimeOK, RuntimeRecords, Attempts
  <2> HIDE DEF w
  <2>2. RuntimeOK(w) /\ w.inCycle
    BY <1>4, <2>1 DEF RuntimeOK, Cursor
  <2>3. RuntimeOK(Advance(w)) /\ Advance(w).counted = w.counted
        /\ Advance(w).samples = w.samples
    BY <2>2, AdvanceKeeps
  <2>4. FeedMoves(r, Advance(w))
    BY <1>4, <2>1, <2>3 DEF FeedMoves
  <2>5. QED
    BY <1>4, <2>1, <2>3, <2>4 DEF w
<1>5. CASE reply = "Failed" /\ ~Exhausted(r.stepAttempts)
  <2>1. t = [cycling EXCEPT !.stepAttempts = r.stepAttempts + 1]
    BY <1>2, <1>5 DEF Polled, RuntimeRecords
  <2>2. r.stepAttempts + 1 \in Attempts
    BY <1>1, <1>5, OneMoreAttempt
  <2> HIDE DEF t, cycling
  <2>3. /\ t \in RuntimeRecords /\ t.counted = r.counted /\ t.samples = r.samples
        /\ t.inCycle = TRUE /\ t.index = r.index
    BY <1>2, <2>1, <2>2 DEF RuntimeRecords, Attempts
  <2>4. RuntimeOK(t) /\ FeedMoves(r, t) /\ t.counted /\ Len(t.samples) = Len(r.samples)
    BY <2>3 DEF RuntimeOK, Cursor, FeedMoves, Moves
  <2>5. QED
    BY <2>4 DEF t
<1>6. CASE reply = "Failed" /\ Exhausted(r.stepAttempts)
  <2>1. t = Advance(Restarts(cycling))
    BY <1>6 DEF Polled
  <2>2. FeedMoves(r, cycling)
    BY <1>2 DEF FeedMoves, Moves
  <2> HIDE DEF cycling, Restarts, t
  <2>3. LET v == Advance(Restarts(cycling))
        IN  RuntimeOK(v) /\ FeedMoves(r, v) /\ v.counted /\ Len(v.samples) = Len(r.samples)
    BY <1>2, <1>3, <1>4, <2>2
  <2>4. QED
    BY <2>1, <2>3 DEF t
<1>7. CASE reply # "Failed"
  <2> DEFINE u == IF r.readingStep THEN RememberReading(cycling, r.index, reply)
                                   ELSE RememberConnected(cycling, r.index, reply)
  <2>1. t = Advance(Restarts(u))
    BY <1>7 DEF Polled
  <2> HIDE DEF cycling, t
  <2>2. reply \in Readings /\ cycling.counted /\ r.index \in DOMAIN cycling.samples
    BY <1>2, <1>7
  <2>3. /\ RuntimeOK(u) /\ FeedMoves(cycling, u) /\ u.counted
        /\ Len(u.samples) = Len(cycling.samples)
        /\ u = [cycling EXCEPT !.samples = u.samples]
    <3>1. CASE r.readingStep
      BY <1>3, <2>2, <3>1, ReadingKeeps
    <3>2. CASE ~r.readingStep
      BY <1>3, <2>2, <3>2, ConnectedKeeps
    <3>3. QED
      BY <3>1, <3>2
  <2> HIDE DEF u, Restarts
  <2>4. u.inCycle
    BY <1>2, <2>3 DEF RuntimeRecords
  <2>5. FeedMoves(r, u)
    BY <1>2, <2>3 DEF FeedMoves
  <2>6. LET v == Advance(Restarts(u))
        IN  RuntimeOK(v) /\ FeedMoves(r, v) /\ v.counted /\ Len(v.samples) = Len(r.samples)
    BY <1>2, <1>4, <2>3, <2>4, <2>5
  <2>7. QED
    BY <2>1, <2>6 DEF t
<1>8. QED
  BY <1>5, <1>6, <1>7

-----------------------------------------------------------------------------
(* The queues                                                              *)

DemandQueues == UpTo(QueueDepth, Demands)
ResultQueues == UpTo(QueueDepth, Results)

\* An answer that is queued finds room: the oldest one made it.
LEMMA PushedKeeps ==
  ASSUME NEW q \in ResultQueues, NEW result \in Results
  PROVE  Pushed(q, result) \in ResultQueues
<1> DEFINE rest == IF Len(q) >= QueueDepth THEN Tail(q) ELSE q
<1>1. q \in Seq(Results) /\ Len(q) \in 0 .. QueueDepth
  BY SequenceUpTo, Constants DEF ResultQueues
<1>2. rest \in ResultQueues /\ Len(rest) < QueueDepth
  <2>1. CASE Len(q) >= QueueDepth
    <3>1. q # << >>
      BY <1>1, <2>1, Constants
    <3>2. Tail(q) \in ResultQueues /\ Len(Tail(q)) = Len(q) - 1
      BY <3>1, TailUpTo, Constants DEF ResultQueues
    <3>3. QED
      BY <1>1, <2>1, <3>2, Constants
  <2>2. CASE ~(Len(q) >= QueueDepth)
    BY <1>1, <2>2, Constants
  <2>3. QED
    BY <2>1, <2>2
<1> HIDE DEF rest
<1>3. Append(rest, result) \in ResultQueues
  BY <1>2, AppendUpTo, Constants DEF ResultQueues
<1>4. QED
  BY <1>3 DEF Pushed, rest

\* The bridge takes at most one answer.
LEMMA HandedKeeps ==
  ASSUME NEW q \in ResultQueues
  PROVE  Handed(q) \subseteq ResultQueues
<1>1. CASE q = << >>
  BY <1>1 DEF Handed
<1>2. CASE q # << >>
  <2>1. Tail(q) \in ResultQueues
    BY <1>2, TailUpTo, Constants DEF ResultQueues
  <2>2. QED
    BY <1>2, <2>1 DEF Handed
<1>3. QED
  BY <1>1, <1>2

LEMMA WithAnswerKeeps ==
  ASSUME results \in ResultQueues, NEW demand \in Demands,
         NEW answer \in Readings \cup {"Failed"}
  PROVE  WithAnswer(demand, answer) \in ResultQueues
<1> DEFINE result == [slot |-> demand.slot, input |-> demand.input, answer |-> answer]
<1>1. result \in Results
  BY DEF Demands, Results
<1> HIDE DEF result
<1>2. Pushed(results, result) \in ResultQueues
  BY <1>1, PushedKeeps
<1>3. QED
  BY <1>2 DEF WithAnswer, result

\* The head of the demands leaves, or is tried once more.
LEMMA HeadKeeps ==
  ASSUME demands \in DemandQueues, demands # << >>
  PROVE  /\ Head(demands) \in Demands
         /\ Tail(demands) \in DemandQueues
         /\ ~Exhausted(Head(demands).attempts) =>
              [demands EXCEPT ![1].attempts = @ + 1] \in DemandQueues
<1>1. /\ Head(demands) \in Demands /\ Tail(demands) \in DemandQueues
      /\ 1 \in DOMAIN demands /\ Head(demands) = demands[1]
  BY TailUpTo, Constants DEF DemandQueues
<1>2. ASSUME ~Exhausted(Head(demands).attempts)
      PROVE  [demands EXCEPT ![1].attempts = @ + 1] \in DemandQueues
  <2> DEFINE demand == [demands[1] EXCEPT !.attempts = demands[1].attempts + 1]
  <2>1. demands[1].attempts + 1 \in Attempts
    BY <1>1, <1>2, OneMoreAttempt DEF Demands, Attempts
  <2>2. demand \in Demands
    BY <1>1, <2>1 DEF Demands, Attempts
  <2>3. [demands EXCEPT ![1].attempts = @ + 1] = [demands EXCEPT ![1] = demand]
    OBVIOUS
  <2> HIDE DEF demand
  <2>4. [demands EXCEPT ![1] = demand] \in DemandQueues
    BY <1>1, <2>2, ExceptUpTo, Constants DEF DemandQueues
  <2>5. QED
    BY <2>3, <2>4
<1>3. QED
  BY <1>1, <1>2

-----------------------------------------------------------------------------
(* The services of a pass                                                  *)

Boarded == UpTo(MaxInputs, Readings)

\* What a pass has in hand before its query: a cache with a count is that of the
\* module in the slot.
InHand(r) ==
  /\ r = [i \in Slots |-> r[i]]
  /\ \A i \in Slots :
       /\ RuntimeOK(r[i])
       /\ r[i].counted => Holds(view[i], Sensor) /\ Len(r[i].samples) = Len(inputs[i])
  /\ demands \in DemandQueues /\ results \in ResultQueues
  /\ inputs \in [Slots -> Boarded]

\* What it leaves.
Served(r) ==
  /\ runtime' = [i \in Slots |-> runtime'[i]]
  /\ \A i \in Slots :
       /\ RuntimeOK(runtime'[i])
       /\ runtime'[i].counted =>
            Holds(view[i], Sensor) /\ Len(runtime'[i].samples) = Len(inputs[i])
       /\ FeedMoves(r[i], runtime'[i])
  /\ demands' \in DemandQueues /\ results' \in ResultQueues

\* A pass that changes the runtime of one slot, to t.
LEMMA OneSlotServed ==
  ASSUME NEW r, InHand(r), NEW i \in Slots, NEW t, runtime' = [r EXCEPT ![i] = t],
         RuntimeOK(t), FeedMoves(r[i], t),
         t.counted => Holds(view[i], Sensor) /\ Len(t.samples) = Len(inputs[i]),
         demands' \in DemandQueues, results' \in ResultQueues
  PROVE  Served(r)
<1>1. runtime' = [j \in Slots |-> IF j = i THEN t ELSE r[j]]
  BY DEF InHand
<1>2. \A j \in Slots : FeedMoves(r[j], r[j])
  BY DEF FeedMoves, Moves
<1>3. ASSUME NEW j \in Slots
      PROVE  /\ RuntimeOK(runtime'[j])
             /\ runtime'[j].counted =>
                  Holds(view[j], Sensor) /\ Len(runtime'[j].samples) = Len(inputs[j])
             /\ FeedMoves(r[j], runtime'[j])
  <2>1. CASE j = i
    <3>1. runtime'[j] = t
      BY <1>1, <2>1
    <3>2. QED
      BY <2>1, <3>1
  <2>2. CASE j # i
    <3>1. runtime'[j] = r[j]
      BY <1>1, <2>2
    <3>2. QED
      BY <1>2, <3>1 DEF InHand
  <2>3. QED
    BY <2>1, <2>2
<1>4. runtime' = [j \in Slots |-> runtime'[j]]
  BY <1>1
<1>5. QED
  BY <1>3, <1>4 DEF Served

\* A pass that changes none.
LEMMA NoSlotServed ==
  ASSUME NEW r, InHand(r), runtime' = r, demands' \in DemandQueues, results' \in ResultQueues
  PROVE  Served(r)
<1>1. \A i \in Slots : FeedMoves(r[i], r[i])
  BY DEF FeedMoves, Moves
<1>2. QED
  BY <1>1 DEF Served, InHand

LEMMA RefusalServed ==
  ASSUME NEW r, InHand(r), RefuseDemand(r)
  PROVE  Served(r)
<1>1. demands \in DemandQueues /\ demands # << >> /\ results \in ResultQueues
  BY DEF RefuseDemand, InHand
<1>2. Head(demands) \in Demands /\ Tail(demands) \in DemandQueues
  BY <1>1, HeadKeeps
<1>3. Handed(WithAnswer(Head(demands), "Failed")) \subseteq ResultQueues
  BY <1>1, <1>2, WithAnswerKeeps, HandedKeeps
<1>4. QED
  BY <1>2, <1>3, NoSlotServed DEF RefuseDemand

LEMMA DemandServed ==
  ASSUME NEW r, InHand(r), ServiceDemand(r)
  PROVE  Served(r)
<1> DEFINE demand == Head(demands)
<1>1. demands \in DemandQueues /\ demands # << >> /\ results \in ResultQueues
      /\ Answerable(r, demand)
  BY DEF ServiceDemand, InHand
<1>2. demand \in Demands /\ Tail(demands) \in DemandQueues
      /\ (~Exhausted(demand.attempts) => [demands EXCEPT ![1].attempts = @ + 1] \in DemandQueues)
  BY <1>1, HeadKeeps
<1>3. PICK reply \in Replies(demand.slot, demand.input) :
           \/ /\ reply # "Failed"
              /\ runtime' = [r EXCEPT ![demand.slot] = RememberReading(@, demand.input, reply)]
              /\ demands' = Tail(demands)
              /\ results' \in Handed(WithAnswer(demand, reply))
           \/ /\ reply = "Failed" /\ Exhausted(demand.attempts)
              /\ runtime' = r
              /\ demands' = Tail(demands)
              /\ results' \in Handed(WithAnswer(demand, "Failed"))
           \/ /\ reply = "Failed" /\ ~Exhausted(demand.attempts)
              /\ runtime' = r
              /\ demands' = [demands EXCEPT ![1].attempts = @ + 1]
              /\ results' \in Handed(results)
  BY DEF ServiceDemand
<1> DEFINE i == demand.slot
           k == demand.input
           t == RememberReading(r[i], k, reply)
<1>4. i \in Slots /\ k \in 1 .. MaxInputs /\ k \in DOMAIN r[i].samples
  BY <1>1, <1>2 DEF Demands, Answerable
<1>5. RuntimeOK(r[i])
  BY <1>4 DEF InHand
<1>6. r[i].counted /\ Len(r[i].samples) = Len(inputs[i]) /\ Holds(view[i], Sensor)
  <2>1. r[i].counted
    BY <1>4, <1>5 DEF RuntimeOK
  <2>2. QED
    BY <1>4, <2>1 DEF InHand
<1>7. reply \in Readings \cup {"Failed"}
  <2>1. DOMAIN r[i].samples = 1 .. Len(r[i].samples)
    BY <1>5, RuntimeRecord DEF RuntimeOK
  <2>2. inputs[i] \in Boarded
    BY <1>4 DEF InHand
  <2>3. k \in DOMAIN inputs[i]
    BY <1>4, <1>6, <2>1, <2>2, SequenceUpTo, Constants DEF Boarded
  <2>4. inputs[i][k] \in Readings
    BY <2>2, <2>3, SequenceUpTo, Constants DEF Boarded
  <2>5. QED
    BY <2>4 DEF Replies
<1>8. CASE reply # "Failed"
  <2>1. /\ runtime' = [r EXCEPT ![i] = t]
        /\ demands' = Tail(demands)
        /\ results' \in Handed(WithAnswer(demand, reply))
    BY <1>3, <1>8
  <2>2. RuntimeOK(t) /\ FeedMoves(r[i], t) /\ t.counted /\ Len(t.samples) = Len(r[i].samples)
    BY <1>4, <1>5, <1>6, <1>7, <1>8, ReadingKeeps
  <2>3. Handed(WithAnswer(demand, reply)) \subseteq ResultQueues
    BY <1>1, <1>2, <1>7, WithAnswerKeeps, HandedKeeps
  <2> HIDE DEF t, i, k, demand
  <2>4. QED
    BY <1>2, <1>4, <1>6, <2>1, <2>2, <2>3, OneSlotServed
<1>9. CASE reply = "Failed"
  <2>1. WithAnswer(demand, "Failed") \in ResultQueues
    BY <1>1, <1>2, WithAnswerKeeps
  <2>2. Handed(WithAnswer(demand, "Failed")) \subseteq ResultQueues
        /\ Handed(results) \subseteq ResultQueues
    BY <1>1, <2>1, HandedKeeps
  <2>3. runtime' = r /\ demands' \in DemandQueues /\ results' \in ResultQueues
    BY <1>2, <1>3, <1>9, <2>2
  <2>4. QED
    BY <2>3, NoSlotServed
<1>10. QED
  BY <1>8, <1>9

LEMMA CountServed ==
  ASSUME NEW r, NEW E, InHand(r), ServiceCount(r, E)
  PROVE  Served(r)
<1>1. PICK i \in NeedingCount(r, E) :
        \E count \in {Len(inputs[i])} \cup (IF Lossy(i) THEN {NoCount} ELSE {}) :
          runtime' = [r EXCEPT ![i] = Counted(@, count)]
  BY DEF ServiceCount
<1>2. PICK count \in {Len(inputs[i]), NoCount} :
        runtime' = [r EXCEPT ![i] = Counted(r[i], count)]
  BY <1>1
<1>3. i \in Slots /\ Holds(view[i], Sensor) /\ ~r[i].counted
  BY DEF Lowest, NeedingCount, Active
<1>4. count \in {NoCount} \cup 0 .. MaxInputs
  BY <1>3, SequenceUpTo, Constants DEF InHand, Boarded
<1>5. RuntimeOK(r[i])
  BY <1>3 DEF InHand
<1> DEFINE t == Counted(r[i], count)
<1>6. /\ RuntimeOK(t) /\ FeedMoves(r[i], t)
      /\ count = NoCount => t.counted = r[i].counted
      /\ count # NoCount => Len(t.samples) = count
  BY <1>4, <1>5, CountedKeeps
<1>7. runtime' = [r EXCEPT ![i] = t]
  BY <1>2
<1> HIDE DEF t
<1>8. t.counted => Holds(view[i], Sensor) /\ Len(t.samples) = Len(inputs[i])
  BY <1>2, <1>3, <1>6
<1>9. demands' \in DemandQueues /\ results' \in ResultQueues
  BY HandedKeeps DEF ServiceCount, InHand
<1>10. QED
  BY <1>3, <1>6, <1>7, <1>8, <1>9, OneSlotServed

LEMMA PeriodicServed ==
  ASSUME NEW r, NEW E, InHand(r), ServicePeriodic(r, E)
  PROVE  Served(r)
<1>1. PICK i \in Pollable(r, E) : \E reply \in Replies(i, r[i].index) :
        runtime' = [r EXCEPT ![i] = Polled(@, reply)]
  BY DEF ServicePeriodic
<1>2. PICK reply \in Replies(i, r[i].index) : runtime' = [r EXCEPT ![i] = Polled(r[i], reply)]
  BY <1>1
<1>3. i \in Slots /\ (r[i].inCycle \/ Len(r[i].samples) > 0)
  BY DEF Lowest, Pollable
<1>4. RuntimeOK(r[i])
  BY <1>3 DEF InHand
<1>5. DOMAIN r[i].samples = 1 .. Len(r[i].samples) /\ Len(r[i].samples) \in 0 .. MaxInputs
  BY <1>4, RuntimeRecord DEF RuntimeOK
<1>6. r[i].index \in DOMAIN r[i].samples
  <2>1. CASE r[i].inCycle
    BY <1>4, <2>1 DEF RuntimeOK, Cursor
  <2>2. CASE ~r[i].inCycle
    <3>1. r[i].index = 1 /\ Len(r[i].samples) > 0
      BY <1>3, <1>4, <2>2 DEF RuntimeOK, Cursor
    <3>2. QED
      BY <1>5, <3>1, Constants
  <2>3. QED
    BY <2>1, <2>2
<1>7. r[i].counted
  <2>1. ~r[i].counted => r[i].samples = << >>
    BY <1>4 DEF RuntimeOK
  <2>2. QED
    BY <1>6, <2>1
<1>8. Holds(view[i], Sensor) /\ Len(r[i].samples) = Len(inputs[i])
  BY <1>3, <1>7 DEF InHand
<1>9. reply \in Readings \cup {"Failed"}
  <2>1. inputs[i] \in Boarded
    BY <1>3 DEF InHand
  <2>2. r[i].index \in DOMAIN inputs[i]
    BY <1>5, <1>6, <1>8, <2>1, SequenceUpTo, Constants DEF Boarded
  <2>3. inputs[i][r[i].index] \in Readings
    BY <2>1, <2>2, SequenceUpTo, Constants DEF Boarded
  <2>4. QED
    BY <2>3 DEF Replies
<1> DEFINE t == Polled(r[i], reply)
<1>10. RuntimeOK(t) /\ FeedMoves(r[i], t) /\ t.counted /\ Len(t.samples) = Len(r[i].samples)
  BY <1>4, <1>6, <1>7, <1>9, PolledKeeps
<1>11. runtime' = [r EXCEPT ![i] = t]
  BY <1>2
<1> HIDE DEF t
<1>12. demands' \in DemandQueues /\ results' \in ResultQueues
  BY HandedKeeps DEF ServicePeriodic, InHand
<1>13. QED
  BY <1>3, <1>8, <1>10, <1>11, <1>12, OneSlotServed

LEMMA NothingServed ==
  ASSUME NEW r, NEW E, InHand(r), NothingDue(r, E)
  PROVE  Served(r)
<1>1. runtime' = r /\ demands' \in DemandQueues /\ results' \in ResultQueues
  BY HandedKeeps DEF NothingDue, InHand
<1>2. QED
  BY <1>1, NoSlotServed

-----------------------------------------------------------------------------
(* The steps                                                               *)

LEMMA PreparedInHand ==
  ASSUME SensorInv
  PROVE  /\ InHand(Prepared)
         /\ \A i \in Slots :
              \/ Prepared[i] = runtime[i]
              \/ ~Prepared[i].counted /\ Prepared[i].samples = << >>
<1> DEFINE r == Prepared
<1>1. ASSUME NEW i \in Slots
      PROVE  /\ RuntimeOK(r[i])
             /\ r[i].counted => Holds(view[i], Sensor) /\ Len(r[i].samples) = Len(inputs[i])
             /\ r[i] = runtime[i] \/ (~r[i].counted /\ r[i].samples = << >>)
  <2>1. RuntimeOK(runtime[i]) /\ SessionOK(i) /\ view[i].epoch \in 0 .. EpochModulus - 1
    BY DEF SensorInv, SensorTypeOK, SlotsTypeOK, ViewRecords
  <2>2. r[i] = SyncSession(runtime[i], view[i])
    BY DEF Prepared
  <2> HIDE DEF r
  <2>3. /\ RuntimeOK(r[i])
        /\ r[i] = runtime[i] \/ (~r[i].counted /\ r[i].samples = << >>)
        /\ r[i].counted => Holds(view[i], Sensor)
    BY <2>1, <2>2, SyncSessionKeeps
  <2>4. r[i].counted => Len(r[i].samples) = Len(inputs[i])
    BY <2>1, <2>3 DEF SessionOK, Holds
  <2>5. QED
    BY <2>3, <2>4
<1>2. r = [i \in Slots |-> r[i]]
  BY DEF Prepared
<1>3. /\ demands \in DemandQueues /\ results \in ResultQueues
      /\ inputs \in [Slots -> Boarded]
  BY DEF SensorInv, SensorTypeOK, DemandQueues, ResultQueues, Boarded
<1>4. QED
  BY <1>1, <1>2, <1>3 DEF InHand

\* From a runtime that was kept, or that knows nothing, a service moves the feed
\* by at most one step.
LEMMA FeedMovesFrom ==
  ASSUME NEW r0, NEW r, NEW t,
         r = r0 \/ (~r.counted /\ r.samples = << >>),
         RuntimeOK(r), RuntimeOK(t), FeedMoves(r, t)
  PROVE  FeedMoves(r0, t)
<1>1. CASE r = r0
  BY <1>1
<1>2. CASE ~r.counted /\ r.samples = << >>
  <2>1. r.counted \in BOOLEAN /\ t.counted \in BOOLEAN
    BY DEF RuntimeOK, RuntimeRecords
  <2>2. \/ ~t.counted /\ t.samples = << >>
        \/ \E n \in 0 .. MaxInputs : t.counted /\ t.samples = [k \in 1 .. n |-> Unread]
    BY <1>2, <2>1 DEF FeedMoves, Moves
  <2>3. QED
    BY <2>2 DEF FeedMoves, Moves
<1>3. QED
  BY <1>1, <1>2

LEMMA UpdateKeeps ==
  ASSUME SensorInv, NEW E, Update(E)
  PROVE  SensorInv' /\ \A i \in Slots : FeedMoves(runtime[i], runtime'[i])
<1> DEFINE r == Prepared
<1>1. changed' = {} /\ UNCHANGED <<view, inputs, calm>>
  BY DEF Update
<1>2. /\ InHand(r)
      /\ \A i \in Slots : r[i] = runtime[i] \/ (~r[i].counted /\ r[i].samples = << >>)
  BY PreparedInHand
<1>3. RefuseDemand(r) \/ ServiceDemand(r) \/ ServiceCount(r, E) \/ ServicePeriodic(r, E)
      \/ NothingDue(r, E)
  BY DEF Update
<1> HIDE DEF r
<1>4. Served(r)
  BY <1>2, <1>3, RefusalServed, DemandServed, CountServed, PeriodicServed, NothingServed
<1>5. ASSUME NEW i \in Slots
      PROVE  RuntimeOK(runtime'[i]) /\ SessionOK(i)' /\ FeedMoves(runtime[i], runtime'[i])
  <2>1. /\ RuntimeOK(runtime'[i]) /\ FeedMoves(r[i], runtime'[i])
        /\ runtime'[i].counted =>
             Holds(view[i], Sensor) /\ Len(runtime'[i].samples) = Len(inputs[i])
    BY <1>4 DEF Served
  <2>2. RuntimeOK(r[i])
    BY <1>2 DEF InHand
  <2>3. FeedMoves(runtime[i], runtime'[i])
    BY <1>2, <2>1, <2>2, FeedMovesFrom
  <2>4. SessionOK(i)'
    BY <1>1, <2>1 DEF SessionOK
  <2>5. QED
    BY <2>1, <2>3, <2>4
<1>6. SensorTypeOK'
  <2>1. runtime' \in [Slots -> RuntimeRecords]
    BY <1>4, <1>5 DEF Served, RuntimeOK
  <2>2. demands' \in UpTo(QueueDepth, Demands) /\ results' \in UpTo(QueueDepth, Results)
    BY <1>4 DEF Served, DemandQueues, ResultQueues
  <2>3. \A i \in Slots : runtime'[i].inCycle => runtime'[i].index \in DOMAIN runtime'[i].samples
    BY <1>5 DEF RuntimeOK, Cursor
  <2>4. SlotsTypeOK'
    BY <1>1 DEF SensorInv, SensorTypeOK, SlotsTypeOK
  <2>5. QED
    BY <2>1, <2>2, <2>3, <2>4 DEF SensorTypeOK
<1>7. QED
  BY <1>1, <1>5, <1>6 DEF SensorInv

LEMMA RequestReadingKeeps ==
  ASSUME SensorInv, NEW i \in Slots, NEW k \in 1 .. MaxInputs, RequestReading(i, k)
  PROVE  SensorInv'
<1> DEFINE demand == [slot |-> i, input |-> k, attempts |-> 0]
<1>1. demand \in Demands
  BY Constants DEF Demands, Attempts
<1>2. demands' = IF Len(demands) >= QueueDepth THEN demands ELSE Append(demands, demand)
  BY DEF RequestReading
<1> HIDE DEF demand
<1>3. Len(demands) \in 0 .. QueueDepth
  BY SequenceUpTo, Constants DEF SensorInv, SensorTypeOK
<1>4. demands' \in UpTo(QueueDepth, Demands)
  <2>1. CASE Len(demands) >= QueueDepth
    BY <1>2, <2>1 DEF SensorInv, SensorTypeOK
  <2>2. CASE ~(Len(demands) >= QueueDepth)
    <3>1. Len(demands) < QueueDepth
      BY <1>3, <2>2, Constants
    <3>2. QED
      BY <1>1, <1>2, <2>2, <3>1, AppendUpTo, Constants DEF SensorInv, SensorTypeOK
  <2>3. QED
    BY <2>1, <2>2
<1>5. QED
  BY <1>4 DEF RequestReading, SensorInv, SensorTypeOK, SlotsTypeOK, SessionOK

\* A slot that loses its module is marked as changed until the next pass.
LEMMA HostChangesKeeps ==
  ASSUME SensorInv, NEW i \in Slots, HostChanges(i)
  PROVE  SensorInv'
<1>1. PICK v \in ViewRecords(i) : view' = [view EXCEPT ![i] = v]
  BY DEF HostChanges, HostMoves
<1>2. i \notin changed /\ changed' = changed \cup {i}
      /\ UNCHANGED <<runtime, demands, results, inputs, calm>>
  BY DEF HostChanges, HostMoves, pollerVars
<1>3. SlotsTypeOK'
  BY <1>1, <1>2 DEF SensorInv, SensorTypeOK, SlotsTypeOK
<1>4. ASSUME NEW j \in Slots
      PROVE  SessionOK(j)'
  <2>1. SessionOK(j)
    BY DEF SensorInv
  <2>2. CASE j = i
    BY <1>2, <2>1, <2>2 DEF SessionOK, Holds
  <2>3. CASE j # i
    <3>1. view'[j] = view[j]
      BY <1>1, <2>3 DEF SensorInv, SensorTypeOK, SlotsTypeOK
    <3>2. QED
      BY <1>2, <2>1, <3>1 DEF SessionOK
  <2>4. QED
    BY <2>2, <2>3
<1>5. QED
  BY <1>2, <1>3, <1>4 DEF SensorInv, SensorTypeOK

LEMMA BoardSwappedKeeps ==
  ASSUME SensorInv, NEW i \in Slots, BoardSwapped(i)
  PROVE  SensorInv'
<1>1. PICK b \in Boards : inputs' = [inputs EXCEPT ![i] = b]
  BY DEF BoardSwapped
<1>2. b \in UpTo(MaxInputs, Readings)
  BY SensorAssumption DEF Boards, UpTo
<1>3. inputs' \in [Slots -> UpTo(MaxInputs, Readings)]
  BY <1>1, <1>2 DEF SensorInv
<1>4. ASSUME NEW j \in Slots
      PROVE  SessionOK(j)'
  <2>1. SessionOK(j)
    BY DEF SensorInv
  <2>2. CASE j = i
    BY <2>1, <2>2 DEF BoardSwapped, SessionOK, pollerVars
  <2>3. CASE j # i
    BY <1>1, <2>1, <2>3 DEF BoardSwapped, SensorInv, SessionOK, pollerVars
  <2>4. QED
    BY <2>2, <2>3
<1>5. QED
  BY <1>3, <1>4 DEF BoardSwapped, pollerVars, SensorInv, SensorTypeOK, SlotsTypeOK

LEMMA InputChangesKeeps ==
  ASSUME SensorInv, NEW i \in Slots, InputChanges(i)
  PROVE  SensorInv'
<1>1. PICK k \in DOMAIN inputs[i], reading \in Readings :
        inputs' = [inputs EXCEPT ![i] = [inputs[i] EXCEPT ![k] = reading]]
  BY DEF InputChanges
<1>2. inputs[i] \in UpTo(MaxInputs, Readings)
  BY DEF SensorInv
<1>3. /\ [inputs[i] EXCEPT ![k] = reading] \in UpTo(MaxInputs, Readings)
      /\ Len([inputs[i] EXCEPT ![k] = reading]) = Len(inputs[i])
  BY <1>2, ExceptUpTo, Constants
<1>4. /\ inputs' \in [Slots -> UpTo(MaxInputs, Readings)]
      /\ \A j \in Slots : Len(inputs'[j]) = Len(inputs[j])
  BY <1>1, <1>3 DEF SensorInv
<1>5. QED
  BY <1>4 DEF InputChanges, pollerVars, SensorInv, SensorTypeOK, SlotsTypeOK, SessionOK

\* What Init and a reset of the controller start with.
LEMMA StartsEmpty ==
  /\ [i \in Slots |-> Cleared] \in [Slots -> RuntimeRecords]
  /\ << >> \in UpTo(QueueDepth, Demands) /\ << >> \in UpTo(QueueDepth, Results)
  /\ \A i \in Slots : EmptySlot \in ViewRecords(i)
  /\ ~Cleared.inCycle
<1>1. << >> \in UpTo(QueueDepth, Demands) /\ << >> \in UpTo(QueueDepth, Results)
  BY EmptyUpTo, Constants
<1>2. \A i \in Slots : EmptySlot \in ViewRecords(i)
  BY Constants DEF EmptySlot, ViewRecords
<1>3. QED
  BY <1>1, <1>2, ClearedOK DEF RuntimeOK, Cleared

LEMMA ControllerResetKeeps ==
  ASSUME SensorInv, ControllerReset
  PROVE  SensorInv'
<1>1. SensorTypeOK'
  BY StartsEmpty DEF ControllerReset, SlotsReboot, SensorInv, SensorTypeOK, SlotsTypeOK
<1>2. \A i \in Slots : RuntimeOK(runtime'[i]) /\ ~runtime'[i].counted
  BY ClearedOK DEF ControllerReset
<1>3. QED
  BY <1>1, <1>2 DEF ControllerReset, SensorInv, SessionOK

LEMMA InitGood == Init => SensorInv
<1> SUFFICES ASSUME Init PROVE SensorInv
  OBVIOUS
<1>1. SensorTypeOK
  BY StartsEmpty DEF Init, SlotsInit, SensorTypeOK, SlotsTypeOK
<1>2. inputs \in [Slots -> UpTo(MaxInputs, Readings)]
  <2>1. Boards \subseteq UpTo(MaxInputs, Readings)
    BY SensorAssumption DEF Boards, UpTo
  <2>2. QED
    BY <2>1 DEF Init
<1>3. QED
  BY <1>1, <1>2, ClearedOK DEF Init, SensorInv, SessionOK

\* Every step keeps the invariant and moves every feed by at most one step.
LEMMA NextKeeps ==
  ASSUME SensorInv, [Next]_vars
  PROVE  SensorInv' /\ \A i \in Slots : FeedMoves(runtime[i], runtime'[i])
<1>1. ASSUME UNCHANGED runtime
      PROVE  \A i \in Slots : FeedMoves(runtime[i], runtime'[i])
  BY <1>1 DEF FeedMoves, Moves
<1>2. ASSUME NEW E, Update(E)
      PROVE  SensorInv' /\ \A i \in Slots : FeedMoves(runtime[i], runtime'[i])
  BY <1>2, UpdateKeeps
<1>3. ASSUME NEW i \in Slots, NEW k \in 1 .. MaxInputs, RequestReading(i, k)
      PROVE  SensorInv' /\ UNCHANGED runtime
  BY <1>3, RequestReadingKeeps DEF RequestReading
<1>4. ASSUME NEW i \in Slots, HostChanges(i)
      PROVE  SensorInv' /\ UNCHANGED runtime
  BY <1>4, HostChangesKeeps DEF HostChanges, pollerVars
<1>5. ASSUME NEW i \in Slots, BoardSwapped(i)
      PROVE  SensorInv' /\ UNCHANGED runtime
  BY <1>5, BoardSwappedKeeps DEF BoardSwapped, pollerVars
<1>6. ASSUME NEW i \in Slots, InputChanges(i)
      PROVE  SensorInv' /\ UNCHANGED runtime
  BY <1>6, InputChangesKeeps DEF InputChanges, pollerVars
<1>7. CASE ControllerReset
  <2>1. \A i \in Slots : FeedMoves(runtime[i], runtime'[i])
    BY <1>7, ClearedOK DEF ControllerReset, FeedMoves, Moves
  <2>2. QED
    BY <1>7, <2>1, ControllerResetKeeps
<1>8. CASE CalmDown
  <2>1. SensorInv'
    BY <1>8 DEF CalmDown, pollerVars, SensorInv, SensorTypeOK, SlotsTypeOK, SessionOK
  <2>2. QED
    BY <1>1, <1>8, <2>1 DEF CalmDown, pollerVars
<1>9. CASE UNCHANGED vars
  <2>1. SensorInv'
    BY <1>9 DEF vars, pollerVars, SensorInv, SensorTypeOK, SlotsTypeOK, SessionOK
  <2>2. QED
    BY <1>1, <1>9, <2>1 DEF vars, pollerVars
<1>10. QED
  BY <1>1, <1>2, <1>3, <1>4, <1>5, <1>6, <1>7, <1>8, <1>9 DEF Next

-----------------------------------------------------------------------------
(* The results                                                             *)

\* SensorInvariance: the inductive invariant of the poller.
THEOREM SensorInvariance == Spec => []SensorInv
<1>1. Init => SensorInv
  BY InitGood
<1>2. SensorInv /\ [Next]_vars => SensorInv'
  BY NextKeeps
<1>3. QED
  BY <1>1, <1>2, PTL DEF Spec

\* SensorTypeCorrect: neither queue outgrows its depth, no retry counter of the
\* poller reaches its limit, no cursor leaves the inputs of its module and every
\* record keeps its type (requestReading, _pushResult and _advancePeriodic).
THEOREM SensorTypeCorrect == Spec => []SensorTypeOK
BY SensorInvariance, PTL DEF SensorInv

\* A move of the feed is a step of the abstract feed, or none.
LEMMA FeedMovesAreSteps ==
  ASSUME NEW i \in Slots, RuntimeOK(runtime[i]), RuntimeOK(runtime'[i]),
         FeedMoves(runtime[i], runtime'[i])
  PROVE  [Feed(i)!Next]_(Feed(i)!feedVars)
<1>1. runtime[i].counted \in BOOLEAN /\ runtime'[i].counted \in BOOLEAN
  BY DEF RuntimeOK, RuntimeRecords
<1>2. CASE runtime'[i].counted = runtime[i].counted /\ runtime'[i].samples = runtime[i].samples
  BY <1>2 DEF Feed!feedVars
<1>3. CASE ~runtime'[i].counted /\ runtime'[i].samples = << >>
  BY <1>1, <1>3 DEF Feed!Next, Feed!Forget
<1>4. ASSUME NEW n \in 0 .. MaxInputs, runtime'[i].counted,
             runtime'[i].samples = [k \in 1 .. n |-> Unread]
      PROVE  Feed(i)!Next
  <2>1. Feed(i)!Learn(n)
    BY <1>1, <1>4 DEF Feed!Learn, Feed!Unread, Unread
  <2>2. QED
    BY <2>1 DEF Feed!Next
<1>5. ASSUME NEW k \in 1 .. MaxInputs, NEW presence \in {"Yes", "No"},
             runtime[i].counted, runtime'[i].counted, k \in DOMAIN runtime[i].samples,
             runtime'[i].samples = [runtime[i].samples EXCEPT ![k].present = presence]
      PROVE  Feed(i)!Next
  <2>1. Feed(i)!Probe(k, presence)
    BY <1>1, <1>5 DEF Feed!Probe
  <2>2. QED
    BY <2>1 DEF Feed!Next
<1>6. ASSUME NEW k \in 1 .. MaxInputs, NEW reading \in Readings,
             runtime[i].counted, runtime'[i].counted, k \in DOMAIN runtime[i].samples,
             runtime'[i].samples = [runtime[i].samples EXCEPT ![k] = Reread(@, reading)]
      PROVE  Feed(i)!Next
  <2>1. Feed(i)!Read(k, reading)
    BY <1>1, <1>6 DEF Feed!Read, Feed!WithReading, Feed!PresenceOf, Feed!NextRevision,
       Reread, Presence, NextRevision
  <2>2. QED
    BY <2>1 DEF Feed!Next, Feed!Readings, Readings
<1>7. QED
  BY <1>2, <1>3, <1>4, <1>5, <1>6 DEF FeedMoves, Moves

\* SamplesImplemented: the poller implements SensorFeed in every slot: a reading
\* always moves the revision of its input and brings its presence, a presence
\* leaves the reading alone, and all of them start anew with the count of a module
\* that is identified, which is what the MQTT bridge relies on
\* (_rememberReading, _rememberConnected and _syncSessions).
THEOREM SamplesImplemented == Spec => SamplesKeepPromise
<1>1. Init => \A i \in Slots : Feed(i)!Init
  BY DEF Init, Feed!Init, Cleared
<1>2. SensorInv /\ SensorInv' /\ [Next]_vars =>
        \A i \in Slots : [Feed(i)!Next]_(Feed(i)!feedVars)
  BY NextKeeps, FeedMovesAreSteps DEF SensorInv
<1>3. QED
  BY <1>1, <1>2, SensorInvariance, PTL DEF Spec, SamplesKeepPromise

=============================================================================
