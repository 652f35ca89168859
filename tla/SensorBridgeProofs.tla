------------------------- MODULE SensorBridgeProofs -------------------------
(***************************************************************************)
(* What the sensor bridge publishes of a module that leaves or changes,    *)
(* for every number of inputs, every set of values, every depth of the     *)
(* queue of answers and every pattern of refused publishes.                *)
(*                                                                         *)
(* As in SolenoidBridgeProofs, the checks of a pass rely on a topic that   *)
(* was never published showing nothing; here an answer to a requested read *)
(* also writes that memory, before the readings of the same pass.          *)
(***************************************************************************)
EXTENDS SensorBridge, TLAPS

\* The sequences over S of at most n elements.
UpTo(n, S) == UNION {[1 .. m -> S] : m \in 0 .. n}

SampleSequences == UpTo(MaxInputs, SampleRecords)

Queues == UpTo(QueueDepth, Answers)

Hands == {<< >>} \cup {<<a>> : a \in Answers}

Records == [ok : BOOLEAN, revision : 0 .. RevisionModulus - 1, text : Texts]

Inventories == [pending : BOOLEAN, ok : BOOLEAN, payload : Payloads]

ShownOnlyIfPublished ==
  /\ \A k \in Inputs : published[k].ok \/ published[k].text = "None"
  /\ inventory.ok \/ inventory.payload = NoPayload

BridgeInv ==
  /\ SensorBridgeTypeOK
  /\ ShownOnlyIfPublished
  /\ GoneInputsHidden
  /\ InputListFollowsModule

-----------------------------------------------------------------------------
(* Bounded sequences                                                       *)

LEMMA EmptyUpTo ==
  ASSUME NEW n \in Nat, NEW S
  PROVE  << >> \in UpTo(n, S)
<1>1. 0 \in 0 .. n /\ << >> \in [1 .. 0 -> S]
  OBVIOUS
<1>2. QED
  BY <1>1, Zenon DEF UpTo

\* A bounded sequence is a sequence with a bounded length.
LEMMA SequenceUpTo ==
  ASSUME NEW n \in Nat, NEW S, NEW q \in UpTo(n, S)
  PROVE  /\ q \in Seq(S)
         /\ Len(q) \in 0 .. n
         /\ DOMAIN q = 1 .. Len(q)
         /\ \A k \in DOMAIN q : q[k] \in S
<1>1. PICK m \in 0 .. n : q \in [1 .. m -> S]
  BY DEF UpTo
<1>2. m \in Nat
  BY <1>1
<1>3. q \in Seq(S)
  BY <1>1, <1>2
<1>4. Len(q) = m /\ DOMAIN q = 1 .. m
  BY <1>1, <1>2
<1>5. QED
  BY <1>1, <1>3, <1>4

LEMMA LengthUpTo ==
  ASSUME NEW n \in Nat, NEW S, NEW q \in Seq(S), Len(q) <= n
  PROVE  q \in UpTo(n, S)
<1>1. Len(q) \in 0 .. n /\ q \in [1 .. Len(q) -> S]
  OBVIOUS
<1>2. QED
  BY <1>1, Zenon DEF UpTo

-----------------------------------------------------------------------------
(* The feed                                                                *)

LEMMA Sample ==
  ASSUME NEW ss \in SampleSequences, NEW k \in DOMAIN ss
  PROVE  k \in Inputs /\ ss[k] \in SampleRecords
BY BridgeAssumption, SequenceUpTo DEF SampleSequences, Inputs

\* The revision of a reading stays in its type.
LEMMA NextRevisionIsOne ==
  ASSUME NEW r \in 0 .. RevisionModulus - 1
  PROVE  NextRevision(r) \in 1 .. RevisionModulus - 1
BY BridgeAssumption DEF NextRevision

\* What a step of the poller may do to the feed.
FeedStep ==
  \/ UNCHANGED feedVars
  \/ Forget
  \/ \E n \in Counts : Learn(n)
  \/ \E k \in Inputs, presence \in {"Yes", "No"} : Probe(k, presence)
  \/ \E k \in Inputs, reading \in Readings : Read(k, reading)

\* Every such step keeps the type of the feed.
LEMMA FeedKeeps ==
  ASSUME counted \in BOOLEAN, samples \in SampleSequences, FeedStep
  PROVE  counted' \in BOOLEAN /\ samples' \in SampleSequences
<1>1. CASE UNCHANGED feedVars
  BY <1>1 DEF feedVars
<1>2. CASE Forget
  BY <1>2, EmptyUpTo, BridgeAssumption DEF Forget, SampleSequences
<1>3. ASSUME NEW n \in Counts, Learn(n)
      PROVE  counted' \in BOOLEAN /\ samples' \in SampleSequences
  <2>1. n \in 0 .. MaxInputs /\ Unread \in SampleRecords
    BY BridgeAssumption DEF Unread, SampleRecords
  <2>2. [k \in 1 .. n |-> Unread] \in [1 .. n -> SampleRecords]
    BY <2>1
  <2>3. QED
    BY <1>3, <2>1, <2>2 DEF Learn, SampleSequences, UpTo
<1>4. ASSUME NEW k \in DOMAIN samples, NEW t \in SampleRecords,
             samples' = [samples EXCEPT ![k] = t]
      PROVE  samples' \in SampleSequences
  <2>1. PICK n \in 0 .. MaxInputs : samples \in [1 .. n -> SampleRecords]
    BY DEF SampleSequences, UpTo
  <2>2. samples' \in [1 .. n -> SampleRecords]
    BY <1>4, <2>1
  <2>3. QED
    BY <2>1, <2>2 DEF SampleSequences, UpTo
<1>5. ASSUME NEW k \in Inputs, NEW presence \in {"Yes", "No"}, Probe(k, presence)
      PROVE  counted' \in BOOLEAN /\ samples' \in SampleSequences
  <2>1. k \in DOMAIN samples
    BY <1>5 DEF Probe
  <2>2. samples[k] \in SampleRecords
    BY <2>1, Sample
  <2>3. [samples[k] EXCEPT !.present = presence] \in SampleRecords
    BY <2>2 DEF SampleRecords
  <2>4. samples' = [samples EXCEPT ![k] = [samples[k] EXCEPT !.present = presence]]
    BY <1>5 DEF Probe
  <2>5. samples' \in SampleSequences
    BY <1>4, <2>1, <2>3, <2>4
  <2>6. QED
    BY <1>5, <2>5 DEF Probe
<1>6. ASSUME NEW k \in Inputs, NEW reading \in Readings, Read(k, reading)
      PROVE  counted' \in BOOLEAN /\ samples' \in SampleSequences
  <2>1. k \in DOMAIN samples
    BY <1>6 DEF Read
  <2>2. samples[k].revision \in 0 .. RevisionModulus - 1
    BY <2>1, Sample DEF SampleRecords
  <2>3. NextRevision(samples[k].revision) \in 0 .. RevisionModulus - 1
    BY <2>2, NextRevisionIsOne
  <2>4. WithReading(samples[k], reading) \in SampleRecords
    BY <2>3 DEF WithReading, PresenceOf, SampleRecords
  <2>5. samples' = [samples EXCEPT ![k] = WithReading(samples[k], reading)]
    BY <1>6 DEF Read
  <2>6. samples' \in SampleSequences
    BY <1>4, <2>1, <2>4, <2>5
  <2>7. QED
    BY <1>6, <2>6 DEF Read
<1>7. QED
  BY <1>1, <1>2, <1>3, <1>5, <1>6 DEF FeedStep

-----------------------------------------------------------------------------
(* The answers                                                             *)

\* An answer that is queued finds room: the oldest one made it.
LEMMA PushedKeeps ==
  ASSUME results \in Queues, NEW answer \in Answers
  PROVE  Pushed(answer) \in Queues
<1> DEFINE q == IF Len(results) >= QueueDepth THEN Tail(results) ELSE results
<1>1. results \in Seq(Answers) /\ Len(results) \in 0 .. QueueDepth
  BY SequenceUpTo, BridgeAssumption DEF Queues
<1>2. q \in Seq(Answers) /\ Len(q) < QueueDepth
  <2>1. CASE Len(results) >= QueueDepth
    <3>1. results # << >>
      BY <1>1, <2>1, BridgeAssumption
    <3>2. Tail(results) \in Seq(Answers) /\ Len(Tail(results)) = Len(results) - 1
      BY <1>1, <3>1
    <3>3. QED
      BY <1>1, <2>1, <3>2, BridgeAssumption
  <2>2. CASE ~(Len(results) >= QueueDepth)
    BY <1>1, <2>2, BridgeAssumption
  <2>3. QED
    BY <2>1, <2>2
<1>3. Append(q, answer) \in Seq(Answers) /\ Len(Append(q, answer)) = Len(q) + 1
  BY <1>2
<1> HIDE DEF q
<1>4. Len(Append(q, answer)) <= QueueDepth
  BY <1>2, <1>3, BridgeAssumption
<1>5. Append(q, answer) \in Queues
  BY <1>3, <1>4, LengthUpTo, BridgeAssumption DEF Queues
<1>6. QED
  BY <1>5 DEF Pushed, q

\* Taking the head of the queue in hand, and holding what was refused.
LEMMA HandKeeps ==
  ASSUME NEW q \in Queues, held \in Hands, NEW A
  PROVE  /\ InHand(q) \in Hands
         /\ QueueAfter(q) \in Queues
         /\ HeldAfter(InHand(q), A) \in Hands
<1>1. q \in Seq(Answers) /\ Len(q) \in 0 .. QueueDepth
  BY SequenceUpTo, BridgeAssumption DEF Queues
<1>2. ASSUME q # << >>
      PROVE  Head(q) \in Answers /\ Tail(q) \in Queues
  <2>1. Head(q) \in Answers /\ Tail(q) \in Seq(Answers) /\ Len(Tail(q)) <= QueueDepth
    BY <1>1, <1>2, BridgeAssumption
  <2>2. QED
    BY <2>1, LengthUpTo, BridgeAssumption DEF Queues
<1>3. InHand(q) \in Hands
  BY <1>2 DEF InHand, Hands
<1>4. QueueAfter(q) \in Queues
  BY <1>2 DEF QueueAfter
<1>5. QED
  BY <1>3, <1>4 DEF HeldAfter, Hands

\* An answer that is published leaves well-formed records.
LEMMA AnswerKeeps ==
  ASSUME NEW b \in [Inputs -> Records], \A k \in Inputs : b[k].ok \/ b[k].text = "None",
         NEW ss \in SampleSequences, NEW hand \in Hands, NEW A
  PROVE  LET t == AnswerPublished(b, ss, hand, A)
         IN  /\ t \in [Inputs -> Records]
             /\ \A k \in Inputs : t[k].ok \/ t[k].text = "None"
<1>1. CASE ~(hand # << >> /\ hand[1].input \in A /\ hand[1].answer # "Failed")
  BY <1>1 DEF AnswerPublished
<1>2. CASE hand # << >> /\ hand[1].input \in A /\ hand[1].answer # "Failed"
  <2>1. PICK a \in Answers : hand = <<a>>
    BY <1>2 DEF Hands
  <2>2. a.input \in Inputs /\ a.answer \in Readings
    BY <1>2, <2>1 DEF Answers
  <2>3. Revision(ss, a.input) \in 0 .. RevisionModulus - 1
    BY Sample, BridgeAssumption DEF Revision, SampleRecords
  <2> DEFINE r == [ok |-> TRUE, revision |-> Revision(ss, a.input), text |-> a.answer]
  <2>4. r \in Records /\ r.ok
    BY <2>2, <2>3 DEF Records, Texts
  <2>5. AnswerPublished(b, ss, hand, A) = [b EXCEPT ![a.input] = r]
    BY <1>2, <2>1 DEF AnswerPublished
  <2> HIDE DEF r
  <2>6. QED
    BY <2>2, <2>4, <2>5
<1>3. QED
  BY <1>1, <1>2

-----------------------------------------------------------------------------
(* One topic                                                               *)

LEMMA ForgottenIsRecord == Forgotten \in Records /\ Forgotten.text = "None"
BY BridgeAssumption DEF Forgotten, Records, Texts

\* A publish of an input that is accepted leaves no text of a reading that the
\* feed does not hold.
LEMMA SnapshotKeeps ==
  ASSUME NEW b \in Records, b.ok \/ b.text = "None",
         NEW ss \in SampleSequences, NEW k \in Inputs, NEW waiting
  PROVE  LET t == Snapshot(b, ss, k, waiting)
         IN  /\ t \in Records
             /\ t.ok \/ t.text = "None"
             /\ ~Readable(ss, k) => t.text \in {"None", "Unavailable"}
<1>1. CASE ~Readable(ss, k)
  <2>1. ~Fresh(b, ss, k, waiting)
    BY <1>1 DEF Fresh
  <2>2. CASE Goes(b, ss, k)
    BY <2>2 DEF Snapshot, Goes, Records, Texts
  <2>3. CASE ~Goes(b, ss, k)
    BY <1>1, <2>1, <2>3 DEF Snapshot, Goes
  <2>4. QED
    BY <2>2, <2>3
<1>2. CASE Readable(ss, k)
  <2>1. ss[k] \in SampleRecords
    BY <1>2, Sample DEF Readable
  <2>2. Text(ss[k]) \in Texts
    BY <2>1 DEF Text, Texts, SampleRecords, Readings
  <2>3. [ok |-> TRUE, revision |-> ss[k].revision, text |-> Text(ss[k])] \in Records
    BY <2>1, <2>2 DEF Records, SampleRecords
  <2>4. QED
    BY <1>2, <2>3 DEF Snapshot, Goes
<1>3. QED
  BY <1>1, <1>2

\* The list after a pass whose publish of it was accepted.
LEMMA InventoriedKeeps ==
  ASSUME NEW v \in Inventories, v.ok \/ v.payload = NoPayload,
         NEW c \in BOOLEAN, NEW ss \in SampleSequences
  PROVE  LET w == Inventoried(v, c, ss)
         IN  /\ w \in Inventories
             /\ w.ok \/ w.payload = NoPayload
             /\ w.payload = IF Listed(c, ss) THEN Payload(ss) ELSE NoPayload
<1>1. NoInventory \in Inventories
  BY DEF NoInventory, Inventories, Payloads
<1>2. Len(ss) \in 0 .. MaxInputs /\ DOMAIN ss \subseteq Inputs
  BY Sample, SequenceUpTo, BridgeAssumption DEF SampleSequences
<1>3. Payload(ss) \in Payloads
  BY <1>2 DEF Payload, Payloads
<1>4. [pending |-> FALSE, ok |-> TRUE, payload |-> Payload(ss)] \in Inventories
  BY <1>3 DEF Inventories
<1>5. CASE Listed(c, ss)
  BY <1>4, <1>5 DEF Inventoried
<1>6. CASE ~Listed(c, ss)
  BY <1>1, <1>6 DEF Inventoried, NoInventory
<1>7. QED
  BY <1>5, <1>6

-----------------------------------------------------------------------------
(* The steps                                                               *)

\* What a bridge starts with, and over which feed, is in its type.
LEMMA EmptyIsOne ==
  /\ << >> \in SampleSequences /\ << >> \in Queues /\ << >> \in Hands
  /\ [k \in Inputs |-> Forgotten] \in [Inputs -> Records]
  /\ \A k \in Inputs : [j \in Inputs |-> Forgotten][k].text = "None"
  /\ NoInventory \in Inventories /\ NoInventory.payload = NoPayload
<1>1. << >> \in SampleSequences /\ << >> \in Queues /\ << >> \in Hands
  BY EmptyUpTo, BridgeAssumption DEF SampleSequences, Queues, Hands
<1>2. NoInventory \in Inventories /\ NoInventory.payload = NoPayload
  BY DEF NoInventory, Inventories, Payloads
<1>3. QED
  BY <1>1, <1>2, ForgottenIsRecord

LEMMA InitGood == BridgeInit => BridgeInv
<1> SUFFICES ASSUME BridgeInit PROVE BridgeInv
  OBVIOUS
<1>1. SensorBridgeTypeOK
  BY EmptyIsOne DEF BridgeInit, Init, SensorBridgeTypeOK, Records, Inventories,
     SampleSequences, Queues, Hands, UpTo
<1>2. ShownOnlyIfPublished
  BY EmptyIsOne DEF BridgeInit, ShownOnlyIfPublished
<1>3. QED
  BY <1>1, <1>2 DEF BridgeInv, BridgeInit, GoneInputsHidden, InputListFollowsModule

\* A pass after any step of the feed, which left the queue q.
LEMMA PassKeeps ==
  ASSUME BridgeInv, NEW A \in SUBSET Topics, NEW q \in Queues, Pass(q, A),
         counted' \in BOOLEAN, samples' \in SampleSequences
  PROVE  BridgeInv'
<1> DEFINE old == SyncedReadings
           list == SyncedInventory
           waiting == HeldAfter(InHand(q), A)
           answered == AnswerPublished(old, samples', InHand(q), A)
<1>1. /\ old \in [Inputs -> Records]
      /\ \A k \in Inputs : old[k].ok \/ old[k].text = "None"
  BY ForgottenIsRecord DEF BridgeInv, ShownOnlyIfPublished, SensorBridgeTypeOK,
     SyncedReadings, Records
<1>2. list \in Inventories /\ (list.ok \/ list.payload = NoPayload)
  BY DEF BridgeInv, ShownOnlyIfPublished, SensorBridgeTypeOK, SyncedInventory,
     Inventories, Payloads
<1>3. held \in Hands
  BY DEF BridgeInv, SensorBridgeTypeOK, Hands
<1>4. /\ published' = [k \in Inputs |-> IF k \in A
                                         THEN Snapshot(answered[k], samples', k, waiting)
                                         ELSE answered[k]]
      /\ inventory' = IF List \in A THEN Inventoried(list, counted', samples') ELSE list
      /\ results' = QueueAfter(q)
      /\ held' = waiting
  BY DEF Pass
<1>5. InHand(q) \in Hands /\ QueueAfter(q) \in Queues /\ waiting \in Hands
  BY <1>3, HandKeeps
<1> HIDE DEF old, list, waiting
<1>6. /\ answered \in [Inputs -> Records]
      /\ \A k \in Inputs : answered[k].ok \/ answered[k].text = "None"
  BY <1>1, <1>5, AnswerKeeps
<1> HIDE DEF answered
<1>7. ASSUME NEW k \in Inputs
      PROVE  /\ published'[k] \in Records
             /\ published'[k].ok \/ published'[k].text = "None"
             /\ k \in A /\ ~Readable(samples', k)
                  => published'[k].text \in {"None", "Unavailable"}
  <2>1. answered[k] \in Records /\ (answered[k].ok \/ answered[k].text = "None")
    BY <1>6
  <2>2. CASE k \in A
    <3>1. published'[k] = Snapshot(answered[k], samples', k, waiting)
      BY <1>4, <2>2
    <3>2. QED
      BY <2>1, <3>1, SnapshotKeeps
  <2>3. CASE k \notin A
    BY <1>4, <2>1, <2>3
  <2>4. QED
    BY <2>2, <2>3
<1>8. published' \in [Inputs -> Records]
  BY <1>4, <1>7
<1>9. /\ inventory' \in Inventories
      /\ inventory'.ok \/ inventory'.payload = NoPayload
      /\ List \in A => inventory'.payload = IF Listed(counted', samples')
                                            THEN Payload(samples') ELSE NoPayload
  <2>1. CASE List \in A
    <3>1. inventory' = Inventoried(list, counted', samples')
      BY <1>4, <2>1
    <3>2. QED
      BY <1>2, <3>1, InventoriedKeeps
  <2>2. CASE List \notin A
    BY <1>2, <1>4, <2>2
  <2>3. QED
    BY <2>1, <2>2
<1>10. SensorBridgeTypeOK'
  BY <1>4, <1>5, <1>8, <1>9 DEF Pass, BridgeInv, SensorBridgeTypeOK, Records, Inventories,
     SampleSequences, Queues, Hands, UpTo
<1>11. ShownOnlyIfPublished'
  BY <1>7, <1>9 DEF ShownOnlyIfPublished
<1>12. accepted' => A = Topics
  BY DEF Pass
<1>13. GoneInputsHidden'
  BY <1>7, <1>12 DEF GoneInputsHidden, Topics
<1>14. InputListFollowsModule'
  BY <1>9, <1>12 DEF InputListFollowsModule, Topics
<1>15. QED
  BY <1>10, <1>11, <1>13, <1>14 DEF BridgeInv

LEMMA NextKeeps == BridgeInv /\ [BridgeNext]_vars => BridgeInv'
<1> SUFFICES ASSUME BridgeInv, [BridgeNext]_vars PROVE BridgeInv'
  OBVIOUS
<1> DEFINE AnyPass(A) ==
      \/ PassAfterSync(A)
      \/ \E n \in Counts : PassAfterLearn(n, A)
      \/ \E k \in Inputs, presence \in {"Yes", "No"} : PassAfterProbe(k, presence, A)
      \/ \E k \in Inputs, reading \in Readings : PassAfterRead(k, reading, A)
      \/ \E k \in Inputs, reading \in Readings : PassAfterAnswer(k, reading, A)
      \/ \E k \in Inputs : PassAfterFailure(k, A)
<1>1. ASSUME NEW A \in SUBSET Topics, AnyPass(A)
      PROVE  BridgeInv'
  <2>1. counted \in BOOLEAN /\ samples \in SampleSequences /\ results \in Queues
    BY DEF BridgeInv, SensorBridgeTypeOK, SampleSequences, Queues, UpTo
  <2>2. FeedStep
    BY <1>1 DEF FeedStep, PassAfterSync, PassAfterLearn, PassAfterProbe, PassAfterRead,
       PassAfterAnswer, PassAfterFailure
  <2>3. PICK q \in Queues : Pass(q, A)
    <3>1. CASE \E k \in Inputs, reading \in Readings : PassAfterAnswer(k, reading, A)
      <4>1. PICK k \in Inputs, reading \in Readings : PassAfterAnswer(k, reading, A)
        BY <3>1
      <4>2. [input |-> k, answer |-> reading] \in Answers
        BY DEF Answers
      <4>3. QED
        BY <2>1, <4>1, <4>2, PushedKeeps DEF PassAfterAnswer
    <3>2. CASE \E k \in Inputs : PassAfterFailure(k, A)
      <4>1. PICK k \in Inputs : PassAfterFailure(k, A)
        BY <3>2
      <4>2. [input |-> k, answer |-> "Failed"] \in Answers
        BY DEF Answers
      <4>3. QED
        BY <2>1, <4>1, <4>2, PushedKeeps DEF PassAfterFailure
    <3>3. QED
      BY <1>1, <2>1, <3>1, <3>2 DEF PassAfterSync, PassAfterLearn, PassAfterProbe,
         PassAfterRead
  <2>4. QED
    BY <2>1, <2>2, <2>3, FeedKeeps, PassKeeps
<1>2. CASE Request
  BY <1>2 DEF Request, feedVars, BridgeInv, SensorBridgeTypeOK, ShownOnlyIfPublished,
     GoneInputsHidden, InputListFollowsModule
<1>3. CASE Rename
  BY <1>3 DEF Rename, feedVars, BridgeInv, SensorBridgeTypeOK, ShownOnlyIfPublished,
     GoneInputsHidden, InputListFollowsModule
<1>4. CASE ControllerReset
  <2>1. SensorBridgeTypeOK'
    BY <1>4, EmptyIsOne DEF ControllerReset, Forget, BridgeInv, SensorBridgeTypeOK, Records,
       Inventories, SampleSequences, Queues, Hands, UpTo
  <2>2. ShownOnlyIfPublished'
    BY <1>4, EmptyIsOne DEF ControllerReset, ShownOnlyIfPublished
  <2>3. QED
    BY <1>4, <2>1, <2>2 DEF ControllerReset, BridgeInv, GoneInputsHidden,
       InputListFollowsModule
<1>5. CASE CalmDown
  BY <1>5 DEF CalmDown, feedVars, bridgeVars, BridgeInv, SensorBridgeTypeOK,
     ShownOnlyIfPublished, GoneInputsHidden, InputListFollowsModule
<1>6. CASE UNCHANGED vars
  BY <1>6 DEF vars, feedVars, bridgeVars, BridgeInv, SensorBridgeTypeOK,
     ShownOnlyIfPublished, GoneInputsHidden, InputListFollowsModule, Listed, Payload, Readable
<1>7. QED
  BY <1>1, <1>2, <1>3, <1>4, <1>5, <1>6 DEF BridgeNext

\* BridgeInvariance: in every state reached the bridge remembers of a topic only
\* what was accepted on it, also when an answer to a requested read wrote it.
THEOREM BridgeInvariance == BridgeSpec => []BridgeInv
<1>1. BridgeInit => BridgeInv
  BY InitGood
<1>2. BridgeInv /\ [BridgeNext]_vars => BridgeInv'
  BY NextKeeps
<1>3. QED
  BY <1>1, <1>2, PTL DEF BridgeSpec

\* GoneInputsAreHidden: after a pass of which nothing was refused no subscriber
\* reads a value of an input the present module does not report, not even from an
\* answer that was held while the module left (_publishSnapshots after
\* _publishDemand).
THEOREM GoneInputsAreHidden == BridgeSpec => []GoneInputsHidden
BY BridgeInvariance, PTL DEF BridgeInv

\* InputListIsOfTheModule: after such a pass the connected-input list is that of
\* the present module or there is none (_publishInventories).
THEOREM InputListIsOfTheModule == BridgeSpec => []InputListFollowsModule
BY BridgeInvariance, PTL DEF BridgeInv

\* SensorBridgeTypeCorrect: the queue of answers never outgrows its depth, at
\* most one answer is held, and every record stays in its type.
THEOREM SensorBridgeTypeCorrect == BridgeSpec => []SensorBridgeTypeOK
BY BridgeInvariance, PTL DEF BridgeInv
=============================================================================
