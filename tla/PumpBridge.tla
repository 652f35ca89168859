----------------------------- MODULE PumpBridge -----------------------------
(***************************************************************************)
(* The pump poller with the MQTT bridge that publishes what it stores      *)
(* (PumpMqttBridge.cpp).  PumpModule::update() runs the poller and then    *)
(* the bridge, so both share one step; a publish may be refused.           *)
(***************************************************************************)
EXTENDS PumpPoller

VARIABLES
  published,  \* _publishedOk, _publishedRevision and _published of every slot
  renamed,    \* the topic layout has a generation the bridge has not seen
  accepted    \* history: slots whose publish was accepted in the last pass

bridgeVars == <<published, renamed, accepted>>

Forgotten == [ok |-> FALSE, revision |-> 0, text |-> "None"]

PublishedRecords == [ok : BOOLEAN, revision : 0 .. RevisionModulus - 1,
                     text : PumpStates \cup {"None", "Unavailable"}]

\* _syncTopicGeneration
SyncTopicGeneration == IF renamed THEN [i \in Slots |-> Forgotten] ELSE published

\* Faulty variant: no new revision, nothing to publish.
PublishRevisions(b, p, accepts) ==
  IF p.revision \in {0, b.revision} \/ ~accepts THEN b
  ELSE [ok |-> TRUE, revision |-> p.revision, text |-> p.state]

\* _publishSnapshots for one slot: b is what was published, p what is stored.
PublishSnapshot(b, p, accepts) ==
  IF ~p.known
  THEN IF b.ok /\ accepts THEN [b EXCEPT !.text = "Unavailable"] ELSE b
  ELSE IF p.revision \in {0, b.revision} \/ ~accepts THEN b
  ELSE [ok |-> TRUE, revision |-> p.revision, text |-> p.state]

\* PumpModule::update()
ModuleUpdate(E, elapsed) ==
  /\ Update(E, elapsed)
  /\ \E A \in IF calm THEN {Slots} ELSE SUBSET Slots :
       /\ published' = [i \in Slots |->
                          PublishSnapshot(SyncTopicGeneration[i], pumps'[i], i \in A)]
       /\ accepted' = A
  /\ renamed' = FALSE

\* The console gives the device another id: another set of topics.
Rename ==
  /\ ~calm
  /\ renamed' = TRUE
  /\ accepted' = {}
  /\ UNCHANGED <<vars, published>>

BridgeReset ==
  /\ ControllerReset
  /\ published' = [i \in Slots |-> Forgotten]
  /\ renamed' = FALSE
  /\ accepted' = {}

\* What happens between two passes.
Between ==
  \/ \E i \in Slots, state \in {"On", "Off"} : CommandState(i, state)
  \/ \E i \in Slots : CommandReset(i)
  \/ \E i \in Slots : HostChanges(i)
  \/ \E i \in Slots : MotorChanges(i)
  \/ CalmDown

BridgeInit ==
  /\ Init
  /\ published = [i \in Slots |-> Forgotten]
  /\ renamed = FALSE
  /\ accepted = {}

BridgeNext ==
  \/ \E E \in SUBSET Stored, elapsed \in {FALSE, silence = "Open"} : ModuleUpdate(E, elapsed)
  \/ Between /\ UNCHANGED bridgeVars
  \/ Rename
  \/ BridgeReset

\* As PassFor in PumpPoller.
ModulePassFor(i) ==
  /\ calm
  /\ \E elapsed \in {FALSE, silence = "Open"} :
       ModuleUpdate({t \in Stored : t[1] = i}, elapsed)

BridgeSpec == BridgeInit /\ [][BridgeNext]_<<vars, bridgeVars>>

-----------------------------------------------------------------------------
(* Correctness                                                             *)

BridgeTypeOK ==
  /\ TypeOK
  /\ published \in [Slots -> PublishedRecords]
  /\ renamed \in BOOLEAN
  /\ accepted \subseteq Slots

\* GoneIsShown: after a pass whose publishes were accepted, no subscriber reads
\* the state of a pump that is not there any more, or whose successor has not
\* been read (_publishSnapshots against clearCache in _syncSessions).
GoneIsShown ==
  \A i \in accepted :
    ~pumps[i].known => published[i].text \in {"None", "Unavailable"}

\* StateReachesBroker: once disturbances are over, what is published of a
\* pump is what the controller knows of it, whatever was refused before and
\* however often the module and the topics changed.
StateReachesBroker ==
  \A i \in Slots \ Broken :
    calm ~> [](pumps[i].known => published[i].text = pumps[i].state)
=============================================================================
