--------------------------- MODULE SolenoidBridge ---------------------------
(***************************************************************************)
(* The MQTT bridge of one slot (SolenoidMqttBridge.cpp) over the feed that *)
(* the solenoid poller promises.  SolenoidModule::update() runs the poller *)
(* and then the bridge, so both share one step.  The bridge treats every   *)
(* slot alike and keeps nothing in common for them but the topic           *)
(* generation.  Each publish of a pass may be refused on its own.          *)
(***************************************************************************)
EXTENDS SolenoidFeed

CONSTANTS Counts,     \* the numbers of outputs a module may report
          Reported    \* the states it may report

ASSUME BridgeAssumption ==
  /\ MaxOutputs \in Nat
  /\ RevisionModulus \in Nat \ {0, 1}
  /\ Counts \subseteq 0 .. MaxOutputs
  /\ Reported \subseteq OutputStates

VARIABLES
  published,  \* _publishedOk, _publishedRevision and _published per output
  inventory,  \* _inventoryPending, _inventoryOk and _inventoryPayload
  renamed,    \* the topic layout has a generation the bridge has not seen
  asked,      \* history: a request for the list that no publish has answered
  accepted,   \* history: the last step was a pass of which nothing was refused
  calm        \* no more requests, refusals or changes of the module

bridgeVars == <<published, inventory, renamed>>
vars == <<feedVars, bridgeVars, asked, accepted, calm>>

Outputs == 1 .. MaxOutputs

\* The topic of the inventory, beside those of the outputs.
List == 0
Topics == {List} \cup Outputs

Forgotten == [ok |-> FALSE, revision |-> 0, text |-> "None"]

\* The connected-output list: a count and the outputs that are connected.
NoPayload == [count |-> -1, connected |-> {}]
Payloads == {NoPayload} \cup [count : 0 .. MaxOutputs, connected : SUBSET Outputs]

NoInventory == [pending |-> FALSE, ok |-> FALSE, payload |-> NoPayload]

-----------------------------------------------------------------------------
(* _publishSnapshots for one output                                        *)

\* _formatState: an output within the count of which a state is stored.
Readable(os, k) == k \in DOMAIN os /\ os[k].state # "Unknown"

\* Whether output k has something to publish: b is what was published of it
\* last, os the outputs of the feed.
Goes(b, os, k) == b.ok /\ b.text # "Unavailable" /\ ~Readable(os, k)

\* Faulty variant: the revision of an output never seen is not published.
FreshLater(b, os, k) == Readable(os, k) /\ os[k].revision > b.revision

Fresh(b, os, k) == Readable(os, k) /\ os[k].revision \notin {0, b.revision}

\* Faulty variant: an output that goes keeps its text.
PublishedFresh(b, os, k) ==
  IF Fresh(b, os, k) THEN [ok |-> TRUE, revision |-> os[k].revision, text |-> os[k].state]
  ELSE b

\* What _publish of output k leaves when it is accepted.
Published(b, os, k) ==
  IF Goes(b, os, k) THEN [b EXCEPT !.text = "Unavailable"]
  ELSE IF Fresh(b, os, k) THEN [ok |-> TRUE, revision |-> os[k].revision, text |-> os[k].state]
  ELSE b

-----------------------------------------------------------------------------
(* _publishInventories                                                     *)

\* _formatInventory succeeds: the count and every state are known.
Listed(c, os) == c /\ \A k \in DOMAIN os : Readable(os, k)

Payload(os) ==
  [count |-> Len(os), connected |-> {k \in DOMAIN os : os[k].state # "Disconnected"}]

ListDue(v, c, os) ==
  IF Listed(c, os) THEN v.pending \/ ~v.ok \/ v.payload # Payload(os) ELSE v.ok

\* Faulty variant: a request is over as soon as a pass has seen it.
InventoryOnce(v, c, os, accepts) ==
  IF ~(accepts /\ ListDue(v, c, os)) THEN [v EXCEPT !.pending = FALSE]
  ELSE IF Listed(c, os) THEN [pending |-> FALSE, ok |-> TRUE, payload |-> Payload(os)]
  ELSE NoInventory

\* Faulty variant: the list is published once for each module.
InventoryFirst(v, c, os, accepts) ==
  IF ~accepts \/ (Listed(c, os) /\ v.ok /\ ~v.pending) \/ ~ListDue(v, c, os) THEN v
  ELSE IF Listed(c, os) THEN [pending |-> FALSE, ok |-> TRUE, payload |-> Payload(os)]
  ELSE NoInventory

\* The inventory after the pass: the list, or "unavailable" and nothing.
Inventoried(v, c, os, accepts) ==
  IF ~(accepts /\ ListDue(v, c, os)) THEN v
  ELSE IF Listed(c, os) THEN [pending |-> FALSE, ok |-> TRUE, payload |-> Payload(os)]
  ELSE NoInventory

-----------------------------------------------------------------------------
\* _syncTopicGeneration
SyncedStates == IF renamed THEN [k \in Outputs |-> Forgotten] ELSE published
SyncedInventory ==
  IF renamed THEN [inventory EXCEPT !.ok = FALSE, !.payload = NoPayload] ELSE inventory

\* SolenoidModule::update() around a step of the poller, when the broker takes
\* what is published to the topics of A.
Pass(A) ==
  /\ published' = [k \in Outputs |-> IF k \in A THEN Published(SyncedStates[k], outputs', k)
                                                ELSE SyncedStates[k]]
  /\ inventory' = Inventoried(SyncedInventory, counted', outputs', List \in A)
  /\ asked' = (asked /\ ~(List \in A /\ ListDue(SyncedInventory, counted', outputs')))
  /\ renamed' = FALSE
  /\ accepted' = (A = Topics)
  /\ UNCHANGED calm

\* The poller leaves the slot as it is, or forgets the module.
PassAfterSync(A) == (UNCHANGED feedVars \/ (~calm /\ Forget)) /\ Pass(A)

PassAfterLearn(n, A) == (calm => ~counted) /\ Learn(n) /\ Pass(A)

PassAfterStore(k, state, A) == Store(k, state) /\ Pass(A)

\* _handleConnectedQuery
Request ==
  /\ ~calm
  /\ inventory' = [inventory EXCEPT !.pending = TRUE]
  /\ asked' = TRUE
  /\ accepted' = FALSE
  /\ UNCHANGED <<feedVars, published, renamed, calm>>

\* The console gives the device another id: another set of topics.
Rename ==
  /\ ~calm
  /\ renamed' = TRUE
  /\ accepted' = FALSE
  /\ UNCHANGED <<feedVars, published, inventory, asked, calm>>

ControllerReset ==
  /\ ~calm
  /\ Forget
  /\ published' = [k \in Outputs |-> Forgotten]
  /\ inventory' = NoInventory
  /\ renamed' = FALSE /\ asked' = FALSE /\ accepted' = FALSE
  /\ UNCHANGED calm

CalmDown ==
  /\ ~calm
  /\ calm' = TRUE
  /\ accepted' = FALSE
  /\ UNCHANGED <<feedVars, bridgeVars, asked>>

BridgeInit ==
  /\ Init
  /\ published = [k \in Outputs |-> Forgotten]
  /\ inventory = NoInventory
  /\ renamed = FALSE /\ asked = FALSE /\ accepted = FALSE /\ calm = FALSE

BridgeNext ==
  \/ \E A \in IF calm THEN {Topics} ELSE SUBSET Topics :
       \/ PassAfterSync(A)
       \/ \E n \in Counts : PassAfterLearn(n, A)
       \/ \E k \in Outputs, state \in Reported : PassAfterStore(k, state, A)
  \/ Request \/ Rename \/ ControllerReset \/ CalmDown

\* The loop runs for ever, and the poller reads every output of a module that
\* answers again and again (its periodic cycle).
BridgeSpec ==
  /\ BridgeInit /\ [][BridgeNext]_vars
  /\ \A k \in Outputs :
       WF_vars(calm /\ \E state \in Reported : PassAfterStore(k, state, Topics))

-----------------------------------------------------------------------------
(* Correctness                                                             *)

SolenoidBridgeTypeOK ==
  /\ counted \in BOOLEAN
  /\ outputs \in UNION {[1 .. n -> OutputRecords] : n \in 0 .. MaxOutputs}
  /\ published \in [Outputs -> [ok : BOOLEAN, revision : 0 .. RevisionModulus - 1,
                                text : OutputStates \cup {"None", "Unavailable"}]]
  /\ inventory \in [pending : BOOLEAN, ok : BOOLEAN, payload : Payloads]
  /\ renamed \in BOOLEAN /\ asked \in BOOLEAN /\ calm \in BOOLEAN /\ accepted \in BOOLEAN

\* GoneOutputsHidden: after a pass of which nothing was refused, no subscriber
\* reads the state of an output that is not there or that the present module has
\* not reported (_publishSnapshots).
GoneOutputsHidden ==
  accepted => \A k \in Outputs :
    ~Readable(outputs, k) => published[k].text \in {"None", "Unavailable"}

\* ListFollowsModule: after a pass of which nothing was refused, the list is
\* that of the present module, or there is none (_publishInventories).
ListFollowsModule ==
  accepted =>
    inventory.payload = IF Listed(counted, outputs) THEN Payload(outputs) ELSE NoPayload

\* OutputStatesReachBroker: once disturbances are over, what is published of an
\* output is what the poller stores, whatever was refused before and however
\* often the module and the topics changed.
OutputStatesReachBroker ==
  \A k \in Outputs :
    calm ~> [](Readable(outputs, k) => published[k].text = outputs[k].state)

\* RequestAnswered: a request for the list of a module that answers is answered,
\* also when publishes were refused or the topics changed meanwhile
\* (_inventoryPending).
RequestAnswered == (calm /\ asked /\ Listed(counted, outputs)) ~> ~asked
=============================================================================
