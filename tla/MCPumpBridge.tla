---------------------------- MODULE MCPumpBridge ----------------------------
(***************************************************************************)
(* The bridge of one pump without reset and off commands: a reset is to    *)
(* the bridge one more query that stores a state, and the window of        *)
(* command absence sends the off.  The pump does not move by itself: a set *)
(* that it does not follow shows the bridge every state as well.           *)
(***************************************************************************)
EXTENDS PumpBridge

MCNext ==
  \/ \E E \in SUBSET Stored, elapsed \in {FALSE, silence = "Open"} : ModuleUpdate(E, elapsed)
  \/ /\ \/ \E i \in Slots : CommandState(i, "On")
        \/ \E i \in Slots : HostChanges(i)
        \/ CalmDown
     /\ UNCHANGED bridgeVars
  \/ Rename
  \/ BridgeReset

MCSpec ==
  /\ BridgeInit
  /\ [][MCNext]_<<vars, bridgeVars>>
  /\ \A i \in Slots : SF_<<vars, bridgeVars>>(ModulePassFor(i))
=============================================================================
