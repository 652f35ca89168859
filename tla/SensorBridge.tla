---------------------------- MODULE SensorBridge ----------------------------
(***************************************************************************)
(* The MQTT bridge of one slot (SensorMqttBridge.cpp) over the feed and    *)
(* the answers that the sensor poller promises.  SensorModule::update()    *)
(* runs the poller and then the bridge, so both share one step: first the  *)
(* answer to a requested read, one per pass, then the readings and the     *)
(* list of connected inputs.  Each publish of a pass may be refused on its *)
(* own; an answer that was refused is held and tried again.                *)
(***************************************************************************)
EXTENDS SensorFeed

CONSTANTS Counts,      \* the numbers of inputs a module may report
          QueueDepth   \* kDemandQueueDepth

ASSUME BridgeAssumption ==
  /\ MaxInputs \in Nat
  /\ RevisionModulus \in Nat \ {0, 1}
  /\ Counts \subseteq 0 .. MaxInputs
  /\ QueueDepth \in Nat \ {0}

VARIABLES
  results,    \* _results of the poller for this slot, the head first
  held,       \* _heldDemand, if _demandHeld
  published,  \* _publishedOk, _publishedRevision and _published per input
  inventory,  \* _inventoryPending, _inventoryOk and _inventoryPayload
  renamed,    \* the topic layout has a generation the bridge has not seen
  accepted,   \* history: the last step was a pass of which nothing was refused
  calm        \* no more requests, refusals or changes of the module

bridgeVars == <<results, held, published, inventory, renamed>>
vars == <<feedVars, bridgeVars, accepted, calm>>

Inputs == 1 .. MaxInputs

\* The topic of the inventory, beside those of the inputs.
List == 0
Topics == {List} \cup Inputs

Forgotten == [ok |-> FALSE, revision |-> 0, text |-> "None"]

\* "Raw" is "connected" with the raw value of a reading that was not connected.
Texts == Readings \cup {"None", "Unavailable", "Raw"}

\* The connected-input list: a count and the inputs that are connected.
NoPayload == [count |-> -1, connected |-> {}]
Payloads == {NoPayload} \cup [count : 0 .. MaxInputs, connected : SUBSET Inputs]

NoInventory == [pending |-> FALSE, ok |-> FALSE, payload |-> NoPayload]

\* The answer to a requested read.
Answers == [input : Inputs, answer : Readings \cup {"Failed"}]

\* _pushResult: the oldest answer makes room.
Pushed(answer) == Append(IF Len(results) >= QueueDepth THEN Tail(results) ELSE results, answer)

-----------------------------------------------------------------------------
(* _publishDemand                                                          *)

\* The answer in hand, held from before or taken from the queue q.
InHand(q) == IF held # << >> \/ q = << >> THEN held ELSE << Head(q) >>

QueueAfter(q) == IF held = << >> /\ q # << >> THEN Tail(q) ELSE q

HeldAfter(hand, A) == IF hand # << >> /\ hand[1].input \notin A THEN hand ELSE << >>

Revision(ss, k) == IF k \in DOMAIN ss THEN ss[k].revision ELSE 0

\* An answer that is accepted counts as the newest reading of its input, which
\* the samples ss of the pass hold.
AnswerPublished(b, ss, hand, A) ==
  IF hand # << >> /\ hand[1].input \in A /\ hand[1].answer # "Failed"
  THEN [b EXCEPT ![hand[1].input] =
          [ok |-> TRUE, revision |-> Revision(ss, hand[1].input), text |-> hand[1].answer]]
  ELSE b

-----------------------------------------------------------------------------
(* _publishSnapshots for one input                                         *)

\* _formatSample: the presence is known, and the reading unless nothing is
\* connected.
Readable(ss, k) ==
  /\ k \in DOMAIN ss
  /\ ss[k].present = "No" \/ (ss[k].present = "Yes" /\ ss[k].reading # "None")

\* _formatReading
Text(sample) ==
  IF sample.present = "No" THEN "Absent"
  ELSE IF sample.reading = "Absent" THEN "Raw" ELSE sample.reading

\* Whether the snapshot of input k has something to publish: b is what was
\* published of it last.
Goes(b, ss, k) == b.ok /\ ~Readable(ss, k)

\* Faulty variant: only a newer revision is published.
FreshLater(b, ss, k, waiting) ==
  /\ Readable(ss, k) /\ ss[k].revision > b.revision
  /\ waiting = << >> \/ waiting[1].input # k

\* A reading stays behind the answer that waits for the same input.
Fresh(b, ss, k, waiting) ==
  /\ Readable(ss, k) /\ ss[k].revision \notin {0, b.revision}
  /\ waiting = << >> \/ waiting[1].input # k

\* Faulty variant: an input that goes keeps its text.
SnapshotFresh(b, ss, k, waiting) ==
  IF Fresh(b, ss, k, waiting)
  THEN [ok |-> TRUE, revision |-> ss[k].revision, text |-> Text(ss[k])]
  ELSE b

Snapshot(b, ss, k, waiting) ==
  IF Goes(b, ss, k) THEN [b EXCEPT !.text = "Unavailable"]
  ELSE IF Fresh(b, ss, k, waiting)
  THEN [ok |-> TRUE, revision |-> ss[k].revision, text |-> Text(ss[k])]
  ELSE b

-----------------------------------------------------------------------------
(* _publishInventories                                                     *)

\* _formatInventory succeeds: the count and every presence are known.
Listed(c, ss) == c /\ \A k \in DOMAIN ss : ss[k].present # "Unknown"

Payload(ss) ==
  [count |-> Len(ss), connected |-> {k \in DOMAIN ss : ss[k].present = "Yes"}]

\* Faulty variant: the list is published once for each module.
InventoryFirst(v, c, ss) ==
  IF ~Listed(c, ss) THEN IF v.ok THEN NoInventory ELSE v
  ELSE IF v.pending \/ ~v.ok THEN [pending |-> FALSE, ok |-> TRUE, payload |-> Payload(ss)]
  ELSE v

\* The inventory after its publish was accepted, if there was one.
Inventoried(v, c, ss) ==
  IF ~Listed(c, ss) THEN IF v.ok THEN NoInventory ELSE v
  ELSE [pending |-> FALSE, ok |-> TRUE, payload |-> Payload(ss)]

-----------------------------------------------------------------------------
\* _syncTopicGeneration
SyncedReadings == IF renamed THEN [k \in Inputs |-> Forgotten] ELSE published
SyncedInventory ==
  IF renamed THEN [inventory EXCEPT !.ok = FALSE, !.payload = NoPayload] ELSE inventory

\* SensorModule::update() around a step of the poller that leaves the queue q,
\* when the broker takes what is published to the topics of A.
Pass(q, A) ==
  LET hand == InHand(q)
      waiting == HeldAfter(hand, A)
      answered == AnswerPublished(SyncedReadings, samples', hand, A)
  IN  /\ results' = QueueAfter(q)
      /\ held' = waiting
      /\ published' = [k \in Inputs |-> IF k \in A THEN Snapshot(answered[k], samples', k, waiting)
                                                   ELSE answered[k]]
      /\ inventory' = IF List \in A THEN Inventoried(SyncedInventory, counted', samples')
                                    ELSE SyncedInventory
      /\ renamed' = FALSE
      /\ accepted' = (A = Topics)
      /\ UNCHANGED calm

\* The poller leaves the slot as it is, or forgets the module.
PassAfterSync(A) == (UNCHANGED feedVars \/ (~calm /\ Forget)) /\ Pass(results, A)

PassAfterLearn(n, A) == (calm => ~counted) /\ Learn(n) /\ Pass(results, A)

PassAfterProbe(k, presence, A) == Probe(k, presence) /\ Pass(results, A)

PassAfterRead(k, reading, A) == Read(k, reading) /\ Pass(results, A)

\* The poller answers a requested read.
PassAfterAnswer(k, reading, A) ==
  /\ ~calm
  /\ Read(k, reading)
  /\ Pass(Pushed([input |-> k, answer |-> reading]), A)

\* It gives a requested read up, for an input that may not be there.
PassAfterFailure(k, A) ==
  /\ ~calm
  /\ UNCHANGED feedVars
  /\ Pass(Pushed([input |-> k, answer |-> "Failed"]), A)

\* _handleConnectedQuery
Request ==
  /\ ~calm
  /\ inventory' = [inventory EXCEPT !.pending = TRUE]
  /\ accepted' = FALSE
  /\ UNCHANGED <<feedVars, results, held, published, renamed, calm>>

\* The console gives the device another id: another set of topics.
Rename ==
  /\ ~calm
  /\ renamed' = TRUE
  /\ accepted' = FALSE
  /\ UNCHANGED <<feedVars, results, held, published, inventory, calm>>

ControllerReset ==
  /\ ~calm
  /\ Forget
  /\ results' = << >> /\ held' = << >>
  /\ published' = [k \in Inputs |-> Forgotten]
  /\ inventory' = NoInventory
  /\ renamed' = FALSE /\ accepted' = FALSE
  /\ UNCHANGED calm

CalmDown ==
  /\ ~calm
  /\ calm' = TRUE
  /\ accepted' = FALSE
  /\ UNCHANGED <<feedVars, bridgeVars>>

BridgeInit ==
  /\ Init
  /\ results = << >> /\ held = << >>
  /\ published = [k \in Inputs |-> Forgotten]
  /\ inventory = NoInventory
  /\ renamed = FALSE /\ accepted = FALSE /\ calm = FALSE

BridgeNext ==
  \/ \E A \in IF calm THEN {Topics} ELSE SUBSET Topics :
       \/ PassAfterSync(A)
       \/ \E n \in Counts : PassAfterLearn(n, A)
       \/ \E k \in Inputs, presence \in {"Yes", "No"} : PassAfterProbe(k, presence, A)
       \/ \E k \in Inputs, reading \in Readings : PassAfterRead(k, reading, A)
       \/ \E k \in Inputs, reading \in Readings : PassAfterAnswer(k, reading, A)
       \/ \E k \in Inputs : PassAfterFailure(k, A)
  \/ Request \/ Rename \/ ControllerReset \/ CalmDown

\* The loop runs for ever, and the poller reads every input of a module that
\* answers again and again (its periodic cycle).
BridgeSpec ==
  /\ BridgeInit /\ [][BridgeNext]_vars
  /\ \A k \in Inputs :
       WF_vars(calm /\ \E reading \in Readings : PassAfterRead(k, reading, Topics))

-----------------------------------------------------------------------------
(* Correctness                                                             *)

SensorBridgeTypeOK ==
  /\ counted \in BOOLEAN
  /\ samples \in UNION {[1 .. n -> SampleRecords] : n \in 0 .. MaxInputs}
  /\ results \in UNION {[1 .. n -> Answers] : n \in 0 .. QueueDepth}
  /\ held \in {<< >>} \cup {<<a>> : a \in Answers}
  /\ published \in [Inputs -> [ok : BOOLEAN, revision : 0 .. RevisionModulus - 1, text : Texts]]
  /\ inventory \in [pending : BOOLEAN, ok : BOOLEAN, payload : Payloads]
  /\ renamed \in BOOLEAN /\ accepted \in BOOLEAN /\ calm \in BOOLEAN

\* GoneInputsHidden: after a pass of which nothing was refused, no subscriber
\* reads a value of an input that is not there or that the present module has
\* not reported, not even from an answer that was held while the module left
\* (_publishSnapshots runs after _publishDemand).
GoneInputsHidden ==
  accepted => \A k \in Inputs :
    ~Readable(samples, k) => published[k].text \in {"None", "Unavailable"}

\* InputListFollowsModule: after a pass of which nothing was refused, the list
\* is that of the present module, or there is none (_publishInventories).
InputListFollowsModule ==
  accepted =>
    inventory.payload = IF Listed(counted, samples) THEN Payload(samples) ELSE NoPayload

\* The presence of input k agrees with its last reading.
Settled(ss, k) ==
  Readable(ss, k) /\ ss[k].reading # "None" /\ ss[k].present = PresenceOf(ss[k].reading)

\* ReadingsReachBroker: once disturbances are over, what is published of an
\* input is its last reading, whatever was refused, held or renamed before.  A
\* presence that contradicts the last reading is waiting for the next one.
ReadingsReachBroker ==
  \A k \in Inputs :
    calm ~> [](Settled(samples, k) => published[k].text = Text(samples[k]))
=============================================================================
