------------------------ MODULE SolenoidBridgeProofs ------------------------
(***************************************************************************)
(* What the solenoid bridge publishes of a module that leaves or changes,  *)
(* for every number of outputs and every pattern of refused publishes.     *)
(*                                                                         *)
(* BridgeInv adds to the types what the two checks of a pass rely on: an   *)
(* output that was never published shows nothing, and a list that was not  *)
(* accepted is not remembered.  Without it a pass could skip a topic that  *)
(* still shows an old module (Goes and ListDue ask for ok).                *)
(***************************************************************************)
EXTENDS SolenoidBridge, TLAPS

OutputSequences == UNION {[1 .. n -> OutputRecords] : n \in 0 .. MaxOutputs}

Records == [ok : BOOLEAN, revision : 0 .. RevisionModulus - 1,
            text : OutputStates \cup {"None", "Unavailable"}]

Inventories == [pending : BOOLEAN, ok : BOOLEAN, payload : Payloads]

ShownOnlyIfPublished ==
  /\ \A k \in Outputs : published[k].ok \/ published[k].text = "None"
  /\ inventory.ok \/ inventory.payload = NoPayload

BridgeInv ==
  /\ SolenoidBridgeTypeOK
  /\ ShownOnlyIfPublished
  /\ GoneOutputsHidden
  /\ ListFollowsModule

-----------------------------------------------------------------------------
(* The feed                                                                *)

\* The outputs of a feed are as many as a module may have, each a record.
LEMMA OutputSequence ==
  ASSUME NEW os \in OutputSequences
  PROVE  /\ Len(os) \in 0 .. MaxOutputs
         /\ DOMAIN os = 1 .. Len(os)
         /\ \A k \in DOMAIN os : k \in Outputs /\ os[k] \in OutputRecords
<1>1. PICK n \in 0 .. MaxOutputs : os \in [1 .. n -> OutputRecords]
  BY DEF OutputSequences
<1>2. Len(os) = n /\ DOMAIN os = 1 .. n
  BY <1>1, BridgeAssumption
<1>3. QED
  BY <1>1, <1>2, BridgeAssumption DEF Outputs

\* Every step of the feed keeps its type.
LEMMA FeedKeeps ==
  ASSUME counted \in BOOLEAN, outputs \in OutputSequences,
         \/ UNCHANGED feedVars
         \/ Forget
         \/ \E n \in Counts : Learn(n)
         \/ \E k \in Outputs, state \in Reported : Store(k, state)
  PROVE  counted' \in BOOLEAN /\ outputs' \in OutputSequences
<1>1. CASE UNCHANGED feedVars
  BY <1>1 DEF feedVars
<1>2. CASE Forget
  <2>1. 0 \in 0 .. MaxOutputs /\ << >> \in [1 .. 0 -> OutputRecords]
    BY BridgeAssumption
  <2>2. << >> \in OutputSequences
    BY <2>1, Zenon DEF OutputSequences
  <2>3. QED
    BY <1>2, <2>2 DEF Forget
<1>3. ASSUME NEW n \in Counts, Learn(n)
      PROVE  counted' \in BOOLEAN /\ outputs' \in OutputSequences
  <2>1. n \in 0 .. MaxOutputs /\ Unread \in OutputRecords
    BY BridgeAssumption DEF OutputRecords
  <2>2. [k \in 1 .. n |-> Unread] \in [1 .. n -> OutputRecords]
    BY <2>1
  <2>3. QED
    BY <1>3, <2>1, <2>2 DEF Learn, OutputSequences
<1>4. ASSUME NEW k \in Outputs, NEW state \in Reported, Store(k, state)
      PROVE  counted' \in BOOLEAN /\ outputs' \in OutputSequences
  <2>1. PICK n \in 0 .. MaxOutputs : outputs \in [1 .. n -> OutputRecords]
    BY DEF OutputSequences
  <2>2. k \in 1 .. n /\ outputs[k] \in OutputRecords
    BY <1>4, <2>1 DEF Store
  <2>3. outputs[k].revision \in 0 .. RevisionModulus - 1
    BY <2>2, BridgeAssumption DEF OutputRecords, Unread
  <2>4. NextRevision(outputs[k].revision) \in 1 .. RevisionModulus - 1
    BY <2>3, BridgeAssumption DEF NextRevision
  <2>5. Stored(outputs[k], state) \in OutputRecords
    BY <2>4, BridgeAssumption DEF Stored, OutputRecords
  <2>6. outputs' \in [1 .. n -> OutputRecords]
    BY <1>4, <2>1, <2>5 DEF Store
  <2>7. QED
    BY <1>4, <2>6 DEF Store, OutputSequences
<1>5. QED
  BY <1>1, <1>2, <1>3, <1>4
-----------------------------------------------------------------------------
(* One topic                                                               *)

LEMMA ForgottenIsRecord == Forgotten \in Records /\ Forgotten.text = "None"
BY BridgeAssumption DEF Forgotten, Records

\* A publish of an output that is accepted leaves no text of a state that the
\* feed does not hold.
LEMMA PublishedKeeps ==
  ASSUME NEW b \in Records, b.ok \/ b.text = "None",
         NEW os \in OutputSequences, NEW k \in Outputs
  PROVE  LET t == Published(b, os, k)
         IN  /\ t \in Records
             /\ t.ok \/ t.text = "None"
             /\ ~Readable(os, k) => t.text \in {"None", "Unavailable"}
<1>1. CASE ~Readable(os, k)
  <2>1. ~Fresh(b, os, k)
    BY <1>1 DEF Fresh
  <2>2. CASE Goes(b, os, k)
    BY <2>2 DEF Published, Goes, Records
  <2>3. CASE ~Goes(b, os, k)
    BY <1>1, <2>1, <2>3 DEF Published, Goes
  <2>4. QED
    BY <2>2, <2>3
<1>2. CASE Readable(os, k)
  <2>1. os[k] \in [state : OutputStates, revision : 1 .. RevisionModulus - 1]
    BY <1>2, OutputSequence DEF Readable, OutputRecords, Unread
  <2>2. [ok |-> TRUE, revision |-> os[k].revision, text |-> os[k].state] \in Records
    BY <2>1, BridgeAssumption DEF Records
  <2>3. QED
    BY <1>2, <2>2 DEF Published, Goes
<1>3. QED
  BY <1>1, <1>2

LEMMA PayloadIsOne ==
  ASSUME NEW os \in OutputSequences
  PROVE  Payload(os) \in Payloads
BY OutputSequence DEF Payload, Payloads

\* The list after a pass that published it, or had nothing to publish.
LEMMA InventoriedKeeps ==
  ASSUME NEW v \in Inventories, v.ok \/ v.payload = NoPayload,
         NEW c \in BOOLEAN, NEW os \in OutputSequences, NEW accepts \in BOOLEAN
  PROVE  LET w == Inventoried(v, c, os, accepts)
         IN  /\ w \in Inventories
             /\ w.ok \/ w.payload = NoPayload
             /\ accepts => w.payload = IF Listed(c, os) THEN Payload(os) ELSE NoPayload
<1>1. NoInventory \in Inventories
  BY DEF NoInventory, Inventories, Payloads
<1>2. [pending |-> FALSE, ok |-> TRUE, payload |-> Payload(os)] \in Inventories
  BY PayloadIsOne DEF Inventories
<1>3. CASE ~(accepts /\ ListDue(v, c, os))
  <2>1. Inventoried(v, c, os, accepts) = v
    BY <1>3 DEF Inventoried
  <2>2. accepts /\ Listed(c, os) => v.payload = Payload(os)
    BY <1>3 DEF ListDue
  <2>3. accepts /\ ~Listed(c, os) => ~v.ok
    BY <1>3 DEF ListDue
  <2>4. QED
    BY <2>1, <2>2, <2>3
<1>4. CASE accepts /\ ListDue(v, c, os) /\ Listed(c, os)
  BY <1>2, <1>4 DEF Inventoried
<1>5. CASE accepts /\ ListDue(v, c, os) /\ ~Listed(c, os)
  BY <1>1, <1>5 DEF Inventoried, NoInventory
<1>6. QED
  BY <1>3, <1>4, <1>5

-----------------------------------------------------------------------------
(* The steps                                                               *)

LEMMA InitGood == BridgeInit => BridgeInv
<1> SUFFICES ASSUME BridgeInit PROVE BridgeInv
  OBVIOUS
<1>1. 0 \in 0 .. MaxOutputs /\ << >> \in [1 .. 0 -> OutputRecords]
  BY BridgeAssumption
<1>2. outputs \in UNION {[1 .. n -> OutputRecords] : n \in 0 .. MaxOutputs}
  BY <1>1, Zenon DEF BridgeInit, Init
<1>3. published \in [Outputs -> Records] /\ \A k \in Outputs : published[k].text = "None"
  BY ForgottenIsRecord DEF BridgeInit
<1>4. inventory \in Inventories /\ inventory.payload = NoPayload
  BY DEF BridgeInit, NoInventory, Inventories, Payloads
<1>5. SolenoidBridgeTypeOK
  BY <1>2, <1>3, <1>4 DEF BridgeInit, Init, SolenoidBridgeTypeOK, Records, Inventories
<1>6. ShownOnlyIfPublished
  BY <1>3, <1>4 DEF ShownOnlyIfPublished
<1>7. QED
  BY <1>5, <1>6 DEF BridgeInv, BridgeInit, GoneOutputsHidden, ListFollowsModule

\* A pass after any step of the feed.
LEMMA PassKeeps ==
  ASSUME BridgeInv, NEW A \in SUBSET Topics, Pass(A),
         counted' \in BOOLEAN, outputs' \in OutputSequences
  PROVE  BridgeInv'
<1> DEFINE old == SyncedStates
           list == SyncedInventory
<1>1. /\ old \in [Outputs -> Records]
      /\ \A k \in Outputs : old[k].ok \/ old[k].text = "None"
  BY ForgottenIsRecord DEF BridgeInv, ShownOnlyIfPublished, SolenoidBridgeTypeOK,
     SyncedStates, Records
<1>2. list \in Inventories /\ (list.ok \/ list.payload = NoPayload)
  BY DEF BridgeInv, ShownOnlyIfPublished, SolenoidBridgeTypeOK, SyncedInventory,
     Inventories, Payloads
<1>3. published' = [k \in Outputs |-> IF k \in A THEN Published(old[k], outputs', k) ELSE old[k]]
  BY DEF Pass
<1>4. inventory' = Inventoried(list, counted', outputs', List \in A)
  BY DEF Pass
<1> HIDE DEF old, list
<1>5. ASSUME NEW k \in Outputs
      PROVE  /\ published'[k] \in Records
             /\ published'[k].ok \/ published'[k].text = "None"
             /\ k \in A /\ ~Readable(outputs', k)
                  => published'[k].text \in {"None", "Unavailable"}
  <2>1. old[k] \in Records /\ (old[k].ok \/ old[k].text = "None")
    BY <1>1
  <2>2. CASE k \in A
    <3>1. published'[k] = Published(old[k], outputs', k)
      BY <1>3, <2>2
    <3>2. QED
      BY <2>1, <3>1, PublishedKeeps
  <2>3. CASE k \notin A
    BY <1>3, <2>1, <2>3
  <2>4. QED
    BY <2>2, <2>3
<1>6. published' \in [Outputs -> Records]
  BY <1>3, <1>5
<1>7. /\ inventory' \in Inventories
      /\ inventory'.ok \/ inventory'.payload = NoPayload
      /\ List \in A => inventory'.payload = IF Listed(counted', outputs')
                                            THEN Payload(outputs') ELSE NoPayload
  <2>1. (List \in A) \in BOOLEAN
    OBVIOUS
  <2>2. QED
    BY <1>2, <1>4, <2>1, InventoriedKeeps
<1>8. SolenoidBridgeTypeOK'
  BY <1>6, <1>7 DEF Pass, BridgeInv, SolenoidBridgeTypeOK, Records, Inventories, OutputSequences
<1>9. ShownOnlyIfPublished'
  BY <1>5, <1>7 DEF ShownOnlyIfPublished
<1>10. accepted' => A = Topics
  BY DEF Pass
<1>11. GoneOutputsHidden'
  BY <1>5, <1>10 DEF GoneOutputsHidden, Topics
<1>12. ListFollowsModule'
  BY <1>7, <1>10 DEF ListFollowsModule, Topics
<1>13. QED
  BY <1>8, <1>9, <1>11, <1>12 DEF BridgeInv

LEMMA NextKeeps == BridgeInv /\ [BridgeNext]_vars => BridgeInv'
<1> SUFFICES ASSUME BridgeInv, [BridgeNext]_vars PROVE BridgeInv'
  OBVIOUS
<1>1. ASSUME NEW A \in SUBSET Topics,
             \/ PassAfterSync(A)
             \/ \E n \in Counts : PassAfterLearn(n, A)
             \/ \E k \in Outputs, state \in Reported : PassAfterStore(k, state, A)
      PROVE  BridgeInv'
  <2>1. counted \in BOOLEAN /\ outputs \in OutputSequences
    BY DEF BridgeInv, SolenoidBridgeTypeOK, OutputSequences
  <2>2. \/ UNCHANGED feedVars
        \/ Forget
        \/ \E n \in Counts : Learn(n)
        \/ \E k \in Outputs, state \in Reported : Store(k, state)
    BY <1>1 DEF PassAfterSync, PassAfterLearn, PassAfterStore
  <2>3. Pass(A)
    BY <1>1 DEF PassAfterSync, PassAfterLearn, PassAfterStore
  <2>4. QED
    BY <2>1, <2>2, <2>3, FeedKeeps, PassKeeps
<1>2. CASE Request
  BY <1>2 DEF Request, feedVars, BridgeInv, SolenoidBridgeTypeOK, ShownOnlyIfPublished,
     GoneOutputsHidden, ListFollowsModule
<1>3. CASE Rename
  BY <1>3 DEF Rename, feedVars, BridgeInv, SolenoidBridgeTypeOK, ShownOnlyIfPublished,
     GoneOutputsHidden, ListFollowsModule
<1>4. CASE ControllerReset
  <2>1. counted' = FALSE /\ outputs' = << >> /\ outputs' \in OutputSequences
    <3>1. 0 \in 0 .. MaxOutputs /\ << >> \in [1 .. 0 -> OutputRecords]
      BY BridgeAssumption
    <3>2. QED
      BY <1>4, <3>1, Zenon DEF ControllerReset, Forget, OutputSequences
  <2>2. published' \in [Outputs -> Records] /\ \A k \in Outputs : published'[k].text = "None"
    BY <1>4, ForgottenIsRecord DEF ControllerReset
  <2>3. inventory' \in Inventories /\ inventory'.payload = NoPayload
    BY <1>4 DEF ControllerReset, NoInventory, Inventories, Payloads
  <2>4. SolenoidBridgeTypeOK'
    BY <1>4, <2>1, <2>2, <2>3 DEF ControllerReset, BridgeInv, SolenoidBridgeTypeOK, Records,
       Inventories, OutputSequences
  <2>5. QED
    BY <1>4, <2>2, <2>3, <2>4 DEF ControllerReset, BridgeInv, ShownOnlyIfPublished,
       GoneOutputsHidden, ListFollowsModule
<1>5. CASE CalmDown
  BY <1>5 DEF CalmDown, feedVars, bridgeVars, BridgeInv, SolenoidBridgeTypeOK,
     ShownOnlyIfPublished, GoneOutputsHidden, ListFollowsModule
<1>6. CASE UNCHANGED vars
  BY <1>6 DEF vars, feedVars, bridgeVars, BridgeInv, SolenoidBridgeTypeOK,
     ShownOnlyIfPublished, GoneOutputsHidden, ListFollowsModule, Listed, Payload, Readable
<1>7. QED
  BY <1>1, <1>2, <1>3, <1>4, <1>5, <1>6 DEF BridgeNext

\* BridgeInvariance: in every state reached the bridge remembers of a topic only
\* what was accepted on it, which the two theorems below rest on.
THEOREM BridgeInvariance == BridgeSpec => []BridgeInv
<1>1. BridgeInit => BridgeInv
  BY InitGood
<1>2. BridgeInv /\ [BridgeNext]_vars => BridgeInv'
  BY NextKeeps
<1>3. QED
  BY <1>1, <1>2, PTL DEF BridgeSpec

\* GoneOutputsAreHidden: after a pass of which nothing was refused no subscriber
\* reads the state of an output the present module does not report
\* (_publishSnapshots), whatever was refused, renamed or swapped before.
THEOREM GoneOutputsAreHidden == BridgeSpec => []GoneOutputsHidden
BY BridgeInvariance, PTL DEF BridgeInv

\* ListIsOfTheModule: after such a pass the connected-output list is that of the
\* present module or there is none (_publishInventories).
THEOREM ListIsOfTheModule == BridgeSpec => []ListFollowsModule
BY BridgeInvariance, PTL DEF BridgeInv

\* SolenoidBridgeTypeCorrect: every record of the bridge stays in its type.
THEOREM SolenoidBridgeTypeCorrect == BridgeSpec => []SolenoidBridgeTypeOK
BY BridgeInvariance, PTL DEF BridgeInv
=============================================================================
