----------------------------- MODULE SensorFeed -----------------------------
(***************************************************************************)
(* What the sensor poller promises the readers of one slot: how many       *)
(* inputs the module has, whether each is connected, the last reading and  *)
(* a revision of it.                                                       *)
(*                                                                         *)
(* A presence that is stored leaves the reading and its revision alone; a  *)
(* reading brings its own presence and always moves the revision.          *)
(***************************************************************************)
EXTENDS Integers, Sequences

CONSTANTS MaxInputs,         \* kMaxSensorsPerModule
          RevisionModulus,   \* 2^32: revision is a uint32_t
          Values             \* what an input may read, beside "Absent"

VARIABLES counted,  \* countKnown
          samples   \* the inputs, as many as the module reported

feedVars == <<counted, samples>>

Readings == {"Absent"} \cup Values

\* connectedKnown and connected are present; valueKnown and value are reading.
Unread == [present |-> "Unknown", reading |-> "None", revision |-> 0]

SampleRecords ==
  [present : {"Unknown", "Yes", "No"}, reading : {"None"} \cup Readings,
   revision : 0 .. RevisionModulus - 1]

\* The generation skips 0, which stands for no reading.
NextRevision(r) == IF r + 1 = RevisionModulus THEN 1 ELSE r + 1

PresenceOf(reading) == IF reading = "Absent" THEN "No" ELSE "Yes"

WithReading(sample, reading) ==
  [present |-> PresenceOf(reading), reading |-> reading,
   revision |-> NextRevision(sample.revision)]

Init == counted = FALSE /\ samples = << >>

\* The module left, is identified anew or the controller restarted.
Forget == counted' = FALSE /\ samples' = << >>

\* A module answers how many inputs it has.
Learn(n) == counted' = TRUE /\ samples' = [k \in 1 .. n |-> Unread]

\* It reports whether something is connected to input k.
Probe(k, presence) ==
  /\ counted /\ k \in DOMAIN samples
  /\ samples' = [samples EXCEPT ![k].present = presence]
  /\ UNCHANGED counted

\* It reports a reading of input k.
Read(k, reading) ==
  /\ counted /\ k \in DOMAIN samples
  /\ samples' = [samples EXCEPT ![k] = WithReading(@, reading)]
  /\ UNCHANGED counted

Next ==
  \/ Forget
  \/ \E n \in 0 .. MaxInputs : Learn(n)
  \/ \E k \in 1 .. MaxInputs, presence \in {"Yes", "No"} : Probe(k, presence)
  \/ \E k \in 1 .. MaxInputs, reading \in Readings : Read(k, reading)

Spec == Init /\ [][Next]_feedVars
=============================================================================
