---------------------------- MODULE SolenoidFeed ----------------------------
(***************************************************************************)
(* What the solenoid poller promises the readers of one slot (the MQTT     *)
(* bridge and the status lines): how many outputs the module has, the last *)
(* state read of each, and a revision per output.                          *)
(*                                                                         *)
(* A state that is stored always moves the revision of its output; the     *)
(* revisions start again with every module that is identified, so equal    *)
(* revisions only mean equal states while the count stays known.           *)
(***************************************************************************)
EXTENDS Integers, Sequences

CONSTANTS MaxOutputs,        \* kMaxSolenoidsPerModule
          RevisionModulus    \* 2^32: revision is a uint32_t

VARIABLES counted,  \* countKnown
          outputs   \* the outputs, as many as the module reported

feedVars == <<counted, outputs>>

OutputStates == {"Off", "On", "Disconnected"}

\* An output of which no state is stored.
Unread == [state |-> "Unknown", revision |-> 0]

OutputRecords ==
  {Unread} \cup [state : OutputStates, revision : 1 .. RevisionModulus - 1]

\* The generation skips 0, which stands for no state.
NextRevision(r) == IF r + 1 = RevisionModulus THEN 1 ELSE r + 1

Stored(output, state) == [state |-> state, revision |-> NextRevision(output.revision)]

Init == counted = FALSE /\ outputs = << >>

\* The module left, is identified anew or the controller restarted.
Forget == counted' = FALSE /\ outputs' = << >>

\* A module answers how many outputs it has.
Learn(n) == counted' = TRUE /\ outputs' = [k \in 1 .. n |-> Unread]

\* It reports the state of output k.
Store(k, state) ==
  /\ counted /\ k \in DOMAIN outputs
  /\ outputs' = [outputs EXCEPT ![k] = Stored(@, state)]
  /\ UNCHANGED counted

Next ==
  \/ Forget
  \/ \E n \in 0 .. MaxOutputs : Learn(n)
  \/ \E k \in 1 .. MaxOutputs, state \in OutputStates : Store(k, state)

Spec == Init /\ [][Next]_feedVars
=============================================================================
