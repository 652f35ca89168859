---------------------------- MODULE MCProgramming ----------------------------
(***************************************************************************)
(* Small instance: two flash pages of four bytes, two EEPROM pages of two,  *)
(* and an image in which some bytes are also protocol bytes.                *)
(***************************************************************************)
EXTENDS Programming

MCImage ==
  [c \in Cells |->
     CASE c \in Flash -> <<11, 32, 48, 12, 80, 27, 14, 15>>[c + 1]
       [] c \in Eeprom -> <<21, 32, 14, 22>>[c - EepromAt + 1]
       [] OTHER -> 7]

Op(kind, at, n) == [kind |-> kind, at |-> at, n |-> n]

MCIspOps ==
  {Command(k) : k \in {"Sync", "Setup", "Leave", "UniversalErase", "Sign", "Name",
                       "OddRead", "Oversize", "Strange"}}
  \union {Op("Write", 6, 2), Op("Write", 102, 2),
          Op("Read", 4, 4), Op("Read", 102, 2)}

MCUpdiOps ==
  {Command(k) : k \in {"Sync", "SignOn", "Voltage", "Enter", "Leave", "Go",
                       "SignOff", "Erase", "Strange"}}
  \union {Op("Baud", 0, 1), Op("Setup", 0, PageBytes), Op("ErasePage", 4, 4),
          Op("Write", 2, 4), Op("Write", 101, 2), Op("Write", 201, 1),
          Op("Read", 0, 8)}
=============================================================================
