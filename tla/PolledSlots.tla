---------------------------- MODULE PolledSlots ----------------------------
(***************************************************************************)
(* The module slots as a type poller meets them (PumpPoller,               *)
(* SolenoidPoller and SensorPoller).  Module ModuleHost runs before the    *)
(* pollers in every turn of the loop and changes a slot by at most one     *)
(* step of SlotView, so a poller misses no change.                         *)
(***************************************************************************)
EXTENDS Integers

CONSTANTS
  NumSlots,         \* 4 on the board
  EpochModulus,     \* 2^32: the identity epoch of a slot
  ModuleTypes, KnownTypes, NoType,   \* as in SlotController
  Broken            \* slots whose queries may always fail

Slots == 0 .. NumSlots - 1

ASSUME SlotsAssumption ==
  /\ NumSlots \in Nat \ {0}
  /\ EpochModulus \in Nat \ {0}
  /\ KnownTypes \subseteq ModuleTypes
  /\ NoType \notin KnownTypes
  /\ Broken \subseteq Slots

VARIABLES
  view,     \* the slots as the host shows them
  changed,  \* slots the host has changed since the poller last ran
  calm      \* no more commands, losses, faults or changes of the slots

NoAddress == 0
SlotAddress(i) == 16 + i

ViewRecords(i) ==
  [state : {"Empty", "Debouncing", "Enumerating", "Online", "Unsupported", "Fault"},
   type : ModuleTypes \cup {NoType}, address : {NoAddress, SlotAddress(i)},
   epoch : 0 .. EpochModulus - 1]

View(i) == INSTANCE SlotView WITH
  state <- view[i].state, type <- view[i].type, epoch <- view[i].epoch,
  address <- view[i].address, Address <- SlotAddress(i)

EmptySlot == [state |-> "Empty", type |-> NoType, address |-> NoAddress, epoch |-> 0]

\* A slot in which a module of type t answers.
Holds(v, t) == v.state = "Online" /\ v.type = t

\* A slot that will not hold one without being seated anew: Debouncing and
\* Enumerating may still end in any type.
CannotHold(v, t) ==
  \/ v.state \in {"Empty", "Fault", "Unsupported"}
  \/ v.state = "Online" /\ v.type # t

\* A query to slot i may be lost, ignored or answered with garbage.
Lossy(i) == ~calm \/ i \in Broken

\* The pollers go over the slots, and over what a module has, in ascending order.
Lowest(S) == {i \in S : \A j \in S : i <= j}

UpTo(n, S) == UNION {[1 .. m -> S] : m \in 0 .. n}

\* The host pass before the next poller pass changes slot i.
HostMoves(i) ==
  /\ ~calm
  /\ i \notin changed
  /\ \E v \in ViewRecords(i) :
       /\ view' = [view EXCEPT ![i] = v]
       /\ View(i)!PassStep
  /\ changed' = changed \cup {i}

SlotsInit ==
  /\ view = [i \in Slots |-> EmptySlot]
  /\ changed = {}

\* The host after a reset of the controller.
SlotsReboot ==
  /\ view' = [i \in Slots |-> EmptySlot]
  /\ changed' = {}

SlotsTypeOK ==
  /\ view = [i \in Slots |-> view[i]]
  /\ \A i \in Slots : view[i] \in ViewRecords(i)
  /\ changed \subseteq Slots
  /\ calm \in BOOLEAN
=============================================================================
