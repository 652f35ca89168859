----------------------------- MODULE ConfigStore -----------------------------
(***************************************************************************)
(* The network configuration: the keys in flash that NetworkConfigRecord   *)
(* reads and writes one by one, the active record of NetworkRuntime, and   *)
(* the fields the console has staged for the next "apply".                 *)
(*                                                                         *)
(* A field is a name and a value is one of a few; what the fields do to    *)
(* the network is the subject of NetworkLink.  Two fields are special: the *)
(* client id, which is written back when it is missing, and the status     *)
(* flag, of which the console's reporter keeps a copy.  A value that the   *)
(* console refuses changes nothing and is not listed.                      *)
(***************************************************************************)
EXTENDS Naturals

CONSTANTS
  Fields,    \* the fields, Client and Status among them
  Values,    \* what a field may be set to
  Default,   \* the value of a key that is not stored, per field
  Client,    \* mqttClientId
  Status     \* statusReporting

Absent == "Absent"   \* no such key, or a field that is not staged

ASSUME ConfigAssumption ==
  /\ {Client, Status} \subseteq Fields
  /\ Default \in [Fields -> Values]
  /\ Absent \notin Values

VARIABLES
  stored,     \* the preference store: survives a reset
  active,     \* NetworkRuntime::_config, Absent before it is loaded
  staged,     \* the console's staged value of each field in its mask
  reporting,  \* SerialStatusReporter::_reportingEnabled
  begun       \* NetworkRuntime::begin has run

configVars == <<stored, active, staged, reporting, begun>>

Nowhere == [f \in Fields |-> Absent]
Staged == {f \in Fields : staged[f] # Absent}

\* What a start would make of the keys.
Loaded(keys) == [f \in Fields |-> IF keys[f] = Absent THEN Default[f] ELSE keys[f]]

ConfigInit ==
  /\ stored = Nowhere /\ active = Nowhere /\ staged = Nowhere
  /\ reporting = Default[Status] /\ begun = FALSE

\* A reset leaves the keys.
ConfigReset ==
  /\ active' = Nowhere /\ staged' = Nowhere
  /\ reporting' = Default[Status] /\ begun' = FALSE

\* begin() of the network and of the console.  A client id that is missing
\* beside other keys is written back; "writes": the store takes it.
ConfigBegin(writes) ==
  LET missing == stored # Nowhere /\ stored[Client] = Absent
  IN  /\ active' = Loaded(stored)
      /\ stored' = IF missing /\ writes THEN [stored EXCEPT ![Client] = Default[Client]]
                                        ELSE stored
      /\ reporting' = Loaded(stored)[Status]
      /\ begun' = TRUE
      /\ UNCHANGED staged

\* "set <key> <value>"
Set(f, v) ==
  /\ staged' = [staged EXCEPT ![f] = v]
  /\ UNCHANGED <<stored, active, reporting, begun>>

\* save(): the keys in "written" are taken, the others keep their value.
Saved(written) == [f \in Fields |-> IF f \in written THEN staged[f] ELSE stored[f]]

\* Faulty variant: a failed save drops what was staged.
AppliedForgetful(written) ==
  IF written = Staged
  THEN /\ active' = [f \in Fields |-> IF f \in Staged THEN staged[f] ELSE active[f]]
       /\ reporting' = IF Status \in Staged THEN staged[Status] ELSE reporting
       /\ staged' = Nowhere
  ELSE UNCHANGED <<active, reporting>> /\ staged' = Nowhere

\* The active record and the reporter follow when every write was taken; else
\* the fields stay staged.
Applied(written) ==
  IF written = Staged
  THEN /\ active' = [f \in Fields |-> IF f \in Staged THEN staged[f] ELSE active[f]]
       /\ reporting' = IF Status \in Staged THEN staged[Status] ELSE reporting
       /\ staged' = Nowhere
  ELSE UNCHANGED <<active, reporting, staged>>

\* "apply"
Apply ==
  \E written \in SUBSET Staged :
    /\ stored' = Saved(written)
    /\ Applied(written)
    /\ UNCHANGED begun

\* A reset in the middle of save().
ApplyCutShort ==
  \E written \in SUBSET Staged :
    /\ stored' = Saved(written)
    /\ ConfigReset

-----------------------------------------------------------------------------
\* A controller that has begun runs what it would load again after a reset,
\* except for fields that are still staged: a save that fails half way hides
\* nothing, and the retry it leaves in place makes up for it.  The reporter
\* follows the active record, not the staged one.
StoreAgrees ==
  begun =>
    /\ \A f \in Fields : active[f] # Loaded(stored)[f] => f \in Staged
    /\ reporting = active[Status]

=============================================================================
