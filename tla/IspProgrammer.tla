--------------------------- MODULE IspProgrammer ---------------------------
(***************************************************************************)
(* The STK500v1 programmer (lib/Logic/Programming/IspProgrammer) and, as    *)
(* its environment, the AVR it programs over SPI.  A programmer is a record *)
(* s; every handler of the class is an operator from records to records.    *)
(*                                                                          *)
(* Bytes are numbers with the protocol's values.  Payloads are cut to the   *)
(* fields the handlers use: SetDevice carries the page size, LoadAddress the *)
(* word address, Universal its first two bytes, and the length of a page is *)
(* one number.  Data bytes stay bytes: a value that is also a protocol byte *)
(* is part of what the parser must cope with.                               *)
(***************************************************************************)
EXTENDS Integers, Sequences, Folds

CONSTANTS MaxPageBytes,  \* kMaxPageBytes: the longest page body accepted
          PageBytes,     \* the target's flash page
          FlashBytes,    \* the target's flash
          EepromBytes    \* the target's EEPROM

Ok == 16
Failed == 17
Unknown == 18
Insync == 20
Nosync == 21
Eop == 32
GetSync == 48
GetSignOn == 49
SetParameter == 64
GetParameter == 65
SetDevice == 66
SetDeviceExt == 69
EnterProgmode == 80
LeaveProgmode == 81
ChipErase == 82
CheckAutoinc == 83
LoadAddress == 85
Universal == 86
ProgFlash == 96
ProgData == 97
ProgPage == 100
ReadPage == 116
ReadSign == 117
MemFlash == 70
MemEeprom == 69

\* First bytes of the SPI instructions.
InstrErase == 172
InstrLoadLow == 64
InstrLoadHigh == 72
InstrCommit == 76
InstrReadLow == 32
InstrReadHigh == 40
InstrWriteEeprom == 192
InstrReadEeprom == 160
InstrSignature == 48

Filler == 0
Erased == 255
ProgrammingTries == 3

(***************************************************************************)
(* The target.  It obeys while it is held in reset and has answered         *)
(* programming enable.  Flash can only be cleared bit by bit, so a second   *)
(* write over a written byte leaves neither value.                          *)
(***************************************************************************)
Spoilt == 1

Target(data, spare) ==
  [enabled |-> FALSE, flash |-> data,
   buffer |-> [i \in 0..(PageBytes - 1) |-> Erased], eeprom |-> spare]

Burn(old, new) ==
  IF new \in {Erased, old} THEN old ELSE IF old = Erased THEN new ELSE Spoilt

Commit(b, address) ==
  LET first == PageBytes * (((2 * address) % FlashBytes) \div PageBytes)
      InPage(i) == i \in first..(first + PageBytes - 1)
  IN [b EXCEPT !.flash = [i \in 0..(FlashBytes - 1) |->
                            IF InPage(i) THEN Burn(@[i], b.buffer[i - first])
                                         ELSE @[i]],
               !.buffer = [i \in 0..(PageBytes - 1) |-> Erased]]

EraseAll(b) ==
  [b EXCEPT !.flash = [i \in 0..(FlashBytes - 1) |-> Erased],
            !.buffer = [i \in 0..(PageBytes - 1) |-> Erased],
            !.eeprom = [i \in 0..(EepromBytes - 1) |-> Erased]]

\* What one four-byte instruction does to the target.
Obey(b, instr, address, data) ==
  CASE ~b.enabled -> b
    [] instr = InstrErase /\ address = 128 -> EraseAll(b)
    [] instr = InstrLoadLow ->
         [b EXCEPT !.buffer[(2 * address) % PageBytes] = data]
    [] instr = InstrLoadHigh ->
         [b EXCEPT !.buffer[(2 * address + 1) % PageBytes] = data]
    [] instr = InstrCommit -> Commit(b, address)
    [] instr = InstrWriteEeprom ->
         [b EXCEPT !.eeprom[address % EepromBytes] = data]
    [] OTHER -> b

\* What it shifts out in the last byte of the instruction.
Shifted(b, instr, address) ==
  CASE ~b.enabled -> Filler
    [] instr = InstrReadLow -> b.flash[(2 * address) % FlashBytes]
    [] instr = InstrReadHigh -> b.flash[(2 * address + 1) % FlashBytes]
    [] instr = InstrReadEeprom -> b.eeprom[address % EepromBytes]
    [] OTHER -> Filler

Transfer4(s, instr, address, data) ==
  [s EXCEPT !.board = Obey(@, instr, address, data)]

(***************************************************************************)
(* State, start and shutdown.                                               *)
(***************************************************************************)
Programmer(board) ==
  [phase |-> "Command", cmd |-> Eop, fixed |-> <<>>, header |-> <<>>,
   page |-> <<>>, oversize |-> FALSE, left |-> 0,
   after |-> "None", spi |-> FALSE, reset |-> "Pullup",
   programming |-> FALSE, address |-> 0, pageSize |-> 0, eepromNext |-> 0,
   attempts |-> 0, out |-> <<>>, board |-> board]

Waiting(s) == s.after # "None"

\* The target leaves programming mode as soon as its reset line is let up.
DriveReset(s, level) ==
  [s EXCEPT !.reset = level,
            !.board.enabled = @ /\ level = "Low"]

Start(s) == DriveReset(s, "High")

\* The parser's counters are dead once the phase is Command: _accept clears
\* them with the next command byte.
Idle(s) ==
  [s EXCEPT !.phase = "Command", !.cmd = Eop, !.fixed = <<>>, !.header = <<>>,
            !.page = <<>>, !.oversize = FALSE, !.left = 0, !.eepromNext = 0,
            !.attempts = 0]

Shutdown(s) ==
  [Idle(DriveReset(s, "Pullup")) EXCEPT !.spi = FALSE,
                                        !.programming = FALSE,
                                        !.after = "None"]

Write(s, bytes) == [s EXCEPT !.out = @ \o bytes]
ReplyOk(s) == Idle(Write(s, <<Insync, Ok>>))
ReplyFailed(s) == Idle(Write(s, <<Insync, Failed>>))
ReplyNosync(s) == Idle(Write(s, <<Nosync>>))
Defer(s, next) == [s EXCEPT !.after = next]

(***************************************************************************)
(* The commands.                                                            *)
(***************************************************************************)
PageLen(s) == s.header[1]
MemType(s) == s.header[2]
PageIsRead(s) == s.cmd = ReadPage

BeginProgramming(s) ==
  IF s.programming
    THEN ReplyOk(s)
    ELSE Defer([DriveReset([s EXCEPT !.spi = TRUE], "Low")
                  EXCEPT !.attempts = 0], "ProgrammingEnable")

\* "hears" is the target's answer to programming enable.
TryProgrammingEnable(s, hears) ==
  LET missed == [DriveReset(s, "High") EXCEPT !.attempts = @ + 1]
  IN IF hears
       THEN ReplyOk([s EXCEPT !.programming = TRUE, !.board.enabled = TRUE])
       ELSE IF missed.attempts >= ProgrammingTries
         THEN ReplyFailed([missed EXCEPT !.programming = FALSE])
         ELSE Defer(DriveReset(missed, "Low"), "ProgrammingEnable")

LeaveProgramming(s) ==
  ReplyOk([DriveReset([s EXCEPT !.spi = FALSE], "High")
             EXCEPT !.programming = FALSE])

\* Word k of the page goes to the target t at its address.
LoadWord(s, t, k) ==
  LET low == Obey(t.board, InstrLoadLow, t.address, s.page[2 * k - 1])
  IN [board |-> Obey(low, InstrLoadHigh, t.address, s.page[2 * k]),
      address |-> (t.address + 1) % 65536]

LoadedWords(s) ==
  LET words == PageLen(s) \div 2
      loaded[k \in 0..words] ==
        IF k = 0 THEN [board |-> s.board, address |-> s.address]
                 ELSE LoadWord(s, loaded[k - 1], k)
  IN loaded[words]

LoadPage(s) ==
  [s EXCEPT !.board = LoadedWords(s).board, !.address = LoadedWords(s).address]

Bits(n) == {k \in 0..15 : (n \div 2^k) % 2 = 1}
BitAnd(m, n) == MapThenFoldSet(+, 0, LAMBDA k : 2^k, LAMBDA S : CHOOSE k \in S : TRUE,
                               Bits(m) \intersect Bits(n))

\* The page that is committed is the one the first word lies in.
CommitAt(s) ==
  IF s.pageSize >= 2 THEN BitAnd(s.address, 65536 - s.pageSize \div 2)
                     ELSE s.address

ProgramFlash(s) ==
  Defer(Transfer4(LoadPage(s), InstrCommit, CommitAt(s), Filler), "ReplyOk")

\* eepromNext is _eepromIndex; the start address, word address * 2, does not
\* change while the bytes are written.
ProgramNextEepromByte(s) ==
  IF s.eepromNext >= PageLen(s)
    THEN ReplyOk(s)
    ELSE Defer([Transfer4(s, InstrWriteEeprom, 2 * s.address + s.eepromNext,
                          s.page[s.eepromNext + 1])
                  EXCEPT !.eepromNext = @ + 1], "EepromNext")

ProgramEeprom(s) == ProgramNextEepromByte([s EXCEPT !.eepromNext = 0])

ReadCells(s) ==
  LET word == (PageLen(s) \div 2)
      Flash(i) == IF i % 2 = 1
                    THEN Shifted(s.board, InstrReadLow, s.address + (i - 1) \div 2)
                    ELSE Shifted(s.board, InstrReadHigh, s.address + (i - 1) \div 2)
      Eeprom(i) == Shifted(s.board, InstrReadEeprom, 2 * s.address + i - 1)
      next == IF MemType(s) = MemFlash THEN (s.address + word) % 65536
                                       ELSE s.address
      cells == [i \in 1..PageLen(s) |->
                  IF MemType(s) = MemFlash THEN Flash(i) ELSE Eeprom(i)]
  IN Idle([Write(s, <<Insync>> \o cells \o <<Ok>>) EXCEPT !.address = next])

\* One byte stands for the name or the parameter.
Tell(s) == Write(s, <<Insync, Filler, Ok>>)

\* Both ways to erase the chip wait before they answer.
RunUniversal(s) ==
  LET done == Transfer4(s, s.fixed[1], s.fixed[2], Filler)
      rx == Shifted(s.board, s.fixed[1], s.fixed[2])
  IN IF s.fixed[1] = InstrErase /\ s.fixed[2] = 128
       THEN Defer(done, "ReplyEraseByte")
       ELSE Idle(Write(done, <<Insync, rx, Ok>>))

DispatchFixed(s) ==
  CASE s.cmd \in {GetSignOn, GetParameter} -> Idle(Tell(s))
    [] s.cmd = SetDevice -> ReplyOk([s EXCEPT !.pageSize = s.fixed[1]])
    [] s.cmd = LoadAddress -> ReplyOk([s EXCEPT !.address = s.fixed[1]])
    [] s.cmd = EnterProgmode -> BeginProgramming(s)
    [] s.cmd = LeaveProgmode -> LeaveProgramming(s)
    [] s.cmd = ChipErase -> Defer(Transfer4(s, InstrErase, 128, Filler), "ReplyOk")
    [] s.cmd = Universal -> RunUniversal(s)
    [] s.cmd = ReadSign ->
         Idle(Write(s, <<Insync>> \o
                [i \in 1..3 |-> Shifted(s.board, InstrSignature, i - 1)] \o <<Ok>>))
    [] OTHER -> ReplyOk(s)

DispatchPage(s) ==
  LET refused == \/ s.oversize
                 \/ MemType(s) \notin {MemFlash, MemEeprom}
                 \/ MemType(s) = MemFlash /\ PageLen(s) % 2 # 0
  IN CASE refused -> ReplyFailed(s)
       [] ~refused /\ PageIsRead(s) -> ReadCells(s)
       [] ~refused /\ ~PageIsRead(s) /\ PageLen(s) = 0 -> ReplyOk(s)
       [] ~refused /\ ~PageIsRead(s) /\ PageLen(s) # 0 /\ MemType(s) = MemFlash ->
            ProgramFlash(s)
       [] OTHER -> ProgramEeprom(s)

(***************************************************************************)
(* The parser: one byte of the stream.                                      *)
(***************************************************************************)
PayloadLen(cmd) ==
  CASE cmd \in {GetSync, GetSignOn, EnterProgmode, LeaveProgmode, ChipErase,
               CheckAutoinc, ReadSign} -> 0
    [] cmd \in {GetParameter, ProgData, SetDevice, LoadAddress} -> 1
    [] cmd \in {SetParameter, ProgFlash, Universal} -> 2
    [] cmd = SetDeviceExt -> 5
    [] OTHER -> -1

TakeCommand(s, byte) ==
  CASE byte = Eop -> ReplyNosync(s)
    [] byte \in {ProgPage, ReadPage} ->
         [s EXCEPT !.cmd = byte, !.phase = "PageHeader"]
    [] byte \notin {Eop, ProgPage, ReadPage} /\ PayloadLen(byte) < 0 ->
         [s EXCEPT !.phase = "UnknownEop"]
    [] OTHER -> [s EXCEPT !.cmd = byte, !.phase = "Fixed"]

\* The last of the expected bytes must be the end marker.
TakeFixed(s, byte) ==
  LET full == Len(s.fixed) = PayloadLen(s.cmd)
      taken == [s EXCEPT !.fixed = Append(@, byte)]
  IN CASE ~full -> taken
       [] full /\ byte # Eop -> ReplyNosync(s)
       [] full /\ byte = Eop -> DispatchFixed([taken EXCEPT !.phase = "Command"])

TakeHeader(s, byte) ==
  LET taken == [s EXCEPT !.header = Append(@, byte)]
      over == PageLen(taken) > MaxPageBytes
  IN CASE Len(taken.header) < 2 -> taken
       [] Len(taken.header) = 2 /\ over /\ PageIsRead(s) ->
            [taken EXCEPT !.oversize = TRUE, !.phase = "Eop"]
       [] Len(taken.header) = 2 /\ over /\ ~PageIsRead(s) ->
            [taken EXCEPT !.oversize = TRUE, !.phase = "Discard",
                          !.left = PageLen(taken)]
       [] Len(taken.header) = 2 /\ ~over /\ (PageIsRead(s) \/ PageLen(taken) = 0) ->
            [taken EXCEPT !.phase = "Eop"]
       [] OTHER -> [taken EXCEPT !.phase = "PageBody"]

TakeBody(s, byte) ==
  LET taken == [s EXCEPT !.page = Append(@, byte)]
  IN IF Len(taken.page) < PageLen(s) THEN taken
                                     ELSE [taken EXCEPT !.phase = "Eop"]

\* Mutant: one byte more is thrown away.
DiscardOneMore(s) ==
  IF s.left > 0 THEN [s EXCEPT !.left = @ - 1]
                ELSE [s EXCEPT !.phase = "Eop"]

Discard(s) ==
  IF s.left > 1 THEN [s EXCEPT !.left = @ - 1]
                ELSE [s EXCEPT !.left = 0, !.phase = "Eop"]

Accept(s, byte) ==
  CASE s.phase = "Command" -> TakeCommand(s, byte)
    [] s.phase = "UnknownEop" ->
         IF byte = Eop THEN Idle(Write(s, <<Unknown>>)) ELSE ReplyNosync(s)
    [] s.phase = "Fixed" -> TakeFixed(s, byte)
    [] s.phase = "PageHeader" -> TakeHeader(s, byte)
    [] s.phase = "PageBody" -> TakeBody(s, byte)
    [] s.phase = "Discard" -> Discard(s)
    [] s.phase = "Eop" ->
         IF byte = Eop THEN DispatchPage([s EXCEPT !.phase = "Command"])
                       ELSE ReplyNosync(s)

(***************************************************************************)
(* update(): the wait that has run out, then the bytes at hand until one of *)
(* them starts a new wait.                                                  *)
(***************************************************************************)
Continue(s, hears) ==
  LET woken == [s EXCEPT !.after = "None"]
  IN CASE s.after = "None" -> s
       [] s.after = "ProgrammingEnable" -> TryProgrammingEnable(woken, hears)
       [] s.after = "ReplyOk" -> ReplyOk(woken)
       [] s.after = "ReplyEraseByte" -> Idle(Write(woken, <<Insync, Filler, Ok>>))
       [] s.after = "EepromNext" -> ProgramNextEepromByte(woken)

ReadByte(a, byte) ==
  IF Waiting(a.s) THEN [a EXCEPT !.rest = Append(@, byte)]
                  ELSE [a EXCEPT !.s = Accept(a.s, byte)]

Update(s, input, hears) ==
  LET read[k \in 0..Len(input)] ==
        IF k = 0 THEN [s |-> Continue(s, hears), rest |-> <<>>]
                 ELSE ReadByte(read[k - 1], input[k])
  IN read[Len(input)]

=============================================================================
