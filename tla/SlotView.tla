------------------------------ MODULE SlotView ------------------------------
(***************************************************************************)
(* What the bus promises the readers of one slot (the type pollers, the    *)
(* slot publisher and the status lines read nothing else): the public      *)
(* state, the type, the address and the identity epoch, and how they may   *)
(* change together.                                                        *)
(*                                                                         *)
(* A reader may keep what it learnt from a module for as long as the epoch *)
(* stays the same: only Recall makes a slot readable again under an old    *)
(* epoch, and it does so with the identity that epoch stands for.          *)
(***************************************************************************)
EXTENDS Integers

CONSTANTS EpochModulus, ModuleTypes, KnownTypes, NoType,
          NoAddress, Address      \* the address of this slot

VARIABLES state, type, address, epoch

vars == <<state, type, address, epoch>>

Readable(t) == IF t \in KnownTypes THEN "Online" ELSE "Unsupported"

Init == state = "Empty" /\ type = NoType /\ address = NoAddress /\ epoch = 0

Nothing == type' = NoType /\ address' = NoAddress

Seat == state = "Empty" /\ state' = "Debouncing" /\ UNCHANGED <<type, address, epoch>>

\* The module is gone, or never stayed.
Unseat == state # "Empty" /\ state' = "Empty" /\ Nothing /\ UNCHANGED epoch

StartEnumerating ==
  /\ state \in {"Debouncing", "Fault", "Online", "Unsupported"}
  /\ state' = "Enumerating"
  /\ UNCHANGED <<type, address, epoch>>

\* A module answered at the address of the slot.
Assign ==
  /\ state = "Enumerating"
  /\ address' = Address
  /\ UNCHANGED <<state, type, epoch>>

Identify(t) ==
  /\ state = "Enumerating" /\ address = Address
  /\ state' = Readable(t) /\ type' = t
  /\ epoch' = (epoch + 1) % EpochModulus
  /\ UNCHANGED address

\* The module that stopped answering for a while is the one identified last.
Recall ==
  /\ state = "Enumerating" /\ address = Address /\ type # NoType
  /\ state' = Readable(type)
  /\ UNCHANGED <<type, address, epoch>>

\* A module without an address sits in the slot: nothing is known of it.
Forget == state = "Enumerating" /\ Nothing /\ UNCHANGED <<state, epoch>>

GiveUp == state = "Enumerating" /\ state' = "Fault" /\ UNCHANGED <<type, address, epoch>>

\* The controller rebooted.
Reboot == state' = "Empty" /\ Nothing /\ epoch' = 0

\* What one pass of the host may do to the slot.
PassStep ==
  \/ Seat \/ Unseat \/ StartEnumerating \/ Assign \/ Recall \/ Forget \/ GiveUp
  \/ \E t \in ModuleTypes : Identify(t)

Next == PassStep \/ Reboot

Spec == Init /\ [][Next]_vars
=============================================================================
