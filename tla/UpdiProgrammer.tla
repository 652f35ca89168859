--------------------------- MODULE UpdiProgrammer ---------------------------
(***************************************************************************)
(* The jtag2updi programmer (lib/Logic/Programming/UpdiProgrammer) and, as  *)
(* its environment, the tinyAVR behind its single wire.  As in              *)
(* IspProgrammer, a programmer is a record s and a handler an operator.     *)
(*                                                                          *)
(* A frame is one number per field: start marker, sequence, length, token,  *)
(* the body and the checksum.  A body is its command and the arguments the  *)
(* handler uses.  An answer is the record [seq, status, data]; the encoding *)
(* of frames on the way back is left out.                                   *)
(***************************************************************************)
EXTENDS Integers, Sequences

CONSTANTS MaxBody,       \* kMaxBody
          FlashPage,     \* the target's flash page, from the descriptor
          FlashBytes,
          EepromPage,
          EepromBytes

StartMark == 27
Token == 14

CmdSignOff == 0
CmdSignOn == 1
CmdSetParameter == 2
CmdGetParameter == 3
CmdWriteMemory == 4
CmdReadMemory == 5
CmdGo == 8
CmdReset == 11
CmdSetDescriptor == 12
CmdGetSync == 15
CmdEnter == 20
CmdLeave == 21
CmdErase == 52
ParHw == 1
ParFw == 2
ParEmu == 3
ParBaud == 5
ParVtarget == 6
MemFuse == 178
MemFlash == 192
MemEeprom == 34
EraseChip == 0
EraseAppPage == 4
EraseEepromPage == 6

\* The first body byte of an answer.
RspOk == 128
RspParameter == 129
RspMemory == 130
RspSignOn == 134
RspFailed == 160
RspIllegalParameter == 161
RspIllegalMemory == 162
RspIllegalState == 165
RspIllegalCommand == 170
RspNoPower == 171

\* Any function that tells the frames of one instance apart will do.
Checksum(raw) ==
  LET sum[k \in 0..Len(raw)] ==
        IF k = 0 THEN 7 ELSE (31 * sum[k - 1] + raw[k] + 1) % 65521
  IN sum[Len(raw)]

Frame(seq, body) ==
  LET raw == <<StartMark, seq, Len(body), Token>> \o body
  IN Append(raw, Checksum(raw))

(***************************************************************************)
(* The target.  "deaf" says until when it ignores the wire: an error on the *)
(* wire lasts until the next break, a disabled UPDI pin until the target is  *)
(* reset.  A reset while a key is held enters programming or erases.        *)
(***************************************************************************)
Erased == 255
Spoilt == 1
EepromAt == 100   \* data address of the first EEPROM byte
NvmStatus == 200  \* and of the controller's registers
NvmData == 201

Target(flash, eeprom, lock) ==
  [mode |-> "Run", locked |-> lock, key |-> "None", deaf |-> "No",
   held |-> FALSE, flash |-> flash, eeprom |-> eeprom, fuse |-> Erased,
   data |-> Erased, buffer |-> <<>>, pointer |-> 0]

\* ASI_SYS_STATUS.
Status(b) ==
  CASE b.held -> IF b.locked THEN 33 ELSE 162
    [] ~b.held /\ b.mode = "Prog" -> 8
    [] OTHER -> IF b.locked THEN 131 ELSE 130

ResetTarget(b) ==
  LET started == [b EXCEPT !.mode = "Run", !.key = "None", !.held = FALSE,
                           !.buffer = <<>>, !.pointer = 0]
  IN CASE b.key = "Erase" ->
            [started EXCEPT !.flash = [i \in 0..(FlashBytes - 1) |-> Erased],
                            !.eeprom = [i \in 0..(EepromBytes - 1) |-> Erased],
                            !.locked = FALSE]
       [] b.key = "Nvm" /\ ~b.locked -> [started EXCEPT !.mode = "Prog"]
       [] OTHER -> started

\* A power cycle or reset of the target by hand.
PowerTarget(b) == ResetTarget([b EXCEPT !.key = "None", !.deaf = "No"])

Burn(old, new) ==
  IF new \in {Erased, old} THEN old ELSE IF old = Erased THEN new ELSE Spoilt

\* Stores to memory gather in the buffer as <<address, byte>>; the last one
\* selects the page the controller works on, and the buffer holds offsets in
\* that page.
StoreByte(b, byte) ==
  IF b.pointer = NvmData
    THEN [b EXCEPT !.data = byte, !.pointer = @ + 1]
    ELSE [b EXCEPT !.buffer = Append(@, <<b.pointer, byte>>), !.pointer = @ + 1]

Buffered(b, offset, size, otherwise) ==
  LET hits == {k \in DOMAIN b.buffer : b.buffer[k][1] % size = offset}
      last == CHOOSE k \in hits : \A j \in hits : j <= k
  IN IF hits = {} THEN otherwise ELSE b.buffer[last][2]

CommandNvm(b, command) ==
  LET last == b.buffer[Len(b.buffer)][1]
      InFlashPage(i) == i \div FlashPage = last \div FlashPage
      InEepromPage(i) == (EepromAt + i) \div EepromPage = last \div EepromPage
      emptied == [b EXCEPT !.buffer = <<>>]
  IN CASE command = "Fuse" -> [b EXCEPT !.fuse = b.data]
       [] command # "Fuse" /\ (b.buffer = <<>> \/ command = "Clear") -> emptied
       [] b.buffer # <<>> /\ command = "Write" ->
            [emptied EXCEPT !.flash = [i \in DOMAIN @ |->
               IF InFlashPage(i)
                 THEN Burn(@[i], Buffered(b, i % FlashPage, FlashPage, Erased))
                 ELSE @[i]]]
       [] b.buffer # <<>> /\ command = "Erase" ->
            [emptied EXCEPT !.flash = [i \in DOMAIN @ |->
               IF InFlashPage(i) THEN Erased ELSE @[i]]]
       [] b.buffer # <<>> /\ command = "EraseWrite" ->
            [emptied EXCEPT !.eeprom = [i \in DOMAIN @ |->
               IF InEepromPage(i)
                 THEN Buffered(b, (EepromAt + i) % EepromPage, EepromPage, @[i])
                 ELSE @[i]]]

Mapped(b, address) ==
  IF address < EepromAt THEN b.flash[address % FlashBytes]
                        ELSE b.eeprom[(address - EepromAt) % EepromBytes]

(***************************************************************************)
(* State, start, shutdown and the answers.                                  *)
(***************************************************************************)
NoFault == [at |-> 0, kind |-> "None"]

Programmer(board) ==
  [rx |-> "Start", raw |-> <<>>, brk |-> "Idle", pending |-> "None",
   connected |-> FALSE, inProg |-> FALSE, installed |-> FALSE,
   attached |-> FALSE, checking |-> FALSE,
   line |-> "Input", nvmVersion |-> 1, flashPage |-> 64, eepromPage |-> 32,
   out |-> <<>>, board |-> board, fault |-> NoFault]

Start(s) == [s EXCEPT !.line = "Pullup"]

\* Mutant: a check that is cut off leaves its flag.
ShutdownChecking(s) ==
  [s EXCEPT !.installed = FALSE, !.attached = FALSE, !.line = "Input",
            !.brk = "Idle", !.pending = "None", !.connected = FALSE,
            !.inProg = FALSE, !.rx = "Start", !.raw = <<>>]

Shutdown(s) ==
  [s EXCEPT !.installed = FALSE, !.attached = FALSE, !.line = "Input",
            !.brk = "Idle", !.pending = "None", !.connected = FALSE,
            !.inProg = FALSE, !.checking = FALSE, !.rx = "Start",
            !.raw = <<>>]

\* The frame's bytes are dead once it is answered.
Answer(s, status, data) ==
  [s EXCEPT !.out = Append(@, [seq |-> s.raw[2], status |-> status, data |-> data]),
            !.raw = <<>>]
Reply(s, status) == Answer(s, status, <<>>)
ReplyOk(s) == Reply(s, RspOk)
ReplyNoPower(s) == Reply(s, RspNoPower)

Body(s) == SubSeq(s.raw, 5, Len(s.raw))

(***************************************************************************)
(* The wire.  A conversation w holds the target, whether the last step went  *)
(* well, _linkOk, and the bytes last read.  One fault may hit the n-th step: *)
(* an echo that differs, a target that loses the wire, an answer that is     *)
(* lost on the way back, a controller or target that stays busy.            *)
(***************************************************************************)
Conversation(s) ==
  [b |-> s.board, good |-> s.attached, ok |-> s.attached, got |-> 0, n |-> 1,
   fault |-> s.fault]

Hit(w, kind) == w.fault.kind = kind /\ w.fault.at = w.n
Fail(w) == [w EXCEPT !.good = FALSE]
Broken(w) == [w EXCEPT !.good = FALSE, !.ok = FALSE]
Step(w) == [w EXCEPT !.n = @ + 1]
Deafen(w) == IF Hit(w, "Deaf") /\ w.b.deaf = "No"
               THEN [w EXCEPT !.b.deaf = "Break"] ELSE w
Listens(w) == w.b.deaf = "No" /\ ~Hit(w, "Deaf")

\* A store nobody acknowledges: all the programmer sees is its echo.
Tell(w, next) ==
  CASE ~w.good \/ ~w.ok -> Fail(w)
    [] w.good /\ w.ok /\ Hit(w, "Echo") -> Broken(Step(w))
    [] OTHER -> IF Listens(w) THEN Step([w EXCEPT !.b = next]) ELSE Step(Deafen(w))

\* An instruction the target answers with "value".
Ask(w, next, value) ==
  CASE ~w.good \/ ~w.ok -> Fail(w)
    [] w.good /\ w.ok /\ (Hit(w, "Echo") \/ ~Listens(w)) -> Broken(Step(Deafen(w)))
    [] w.good /\ w.ok /\ Hit(w, "Mute") -> Broken(Step([w EXCEPT !.b = next]))
    [] OTHER -> Step([w EXCEPT !.b = next, !.got = value])

\* A status that is read again until "done" or the time is up; a missing byte
\* is asked for again.
Poll(w, done) ==
  CASE ~w.good \/ ~w.ok -> Fail(w)
    [] w.good /\ w.ok /\ Hit(w, "Echo") -> Broken(Step(w))
    [] w.good /\ w.ok /\ ~Hit(w, "Echo") /\ (Hit(w, "Stuck") \/ ~Listens(w) \/ ~done) ->
         Fail(Step(Deafen(w)))
    [] OTHER -> Step(w)

StoreReset(w, on) == Tell(w, IF on THEN [w.b EXCEPT !.held = TRUE]
                                   ELSE IF w.b.held THEN ResetTarget(w.b) ELSE w.b)
Pulse(w) == StoreReset(StoreReset(w, TRUE), FALSE)
CpuReset(w) == LET p == Pulse(w) IN Poll(p, Status(p.b) # 33)
WriteKey(w, key) == Tell(w, [w.b EXCEPT !.key = key])
Ldcs(w) == Ask(w, w.b, Status(w.b))
Stptr(w, address) == Ask(w, [w.b EXCEPT !.pointer = address], 0)
Ldptr(w) == Ask(w, w.b, w.b.pointer)
Stinc(w, byte) == Ask(w, StoreByte(w.b, byte), 0)
Rep(w) == Tell(w, w.b)

\* Direct stores and loads leave their own address in the pointer.
Restore(w, preserve, pointer) == IF preserve THEN Stptr(w, pointer) ELSE w

NvmCommand(w, preserve, command) ==
  LET Sent(kept) == Ask(kept, [CommandNvm(kept.b, command) EXCEPT !.pointer = NvmStatus], 0)
      Restored(kept) == Restore(Sent(kept), preserve, kept.got)
  IN Restored(IF preserve THEN Ldptr(w) ELSE w)

\* The status must be idle before the time is up; a missing byte ends the wait.
NvmWait(w, preserve) ==
  LET Read(kept) == Ask(kept, [kept.b EXCEPT !.pointer = NvmStatus], 0)
      Idle(kept) == IF Hit(kept, "Stuck") THEN Fail(Read(kept)) ELSE Read(kept)
      Restored(kept) == Restore(Idle(kept), preserve, kept.got)
  IN Restored(IF preserve THEN Ldptr(w) ELSE w)

SendBlock(w, data) ==
  LET sent[k \in 0..Len(data)] ==
        IF k = 0 THEN Rep(NvmWait(w, TRUE)) ELSE Stinc(sent[k - 1], data[k])
  IN sent[Len(data)]

\* Up to the next page boundary first, then page by page.
Pieces(address, data, page) ==
  LET free == (-address) % page
      cut == IF free > Len(data) THEN Len(data) ELSE free
      rest == SubSeq(data, cut + 1, Len(data))
      End(k) == IF k * page > Len(rest) THEN Len(rest) ELSE k * page
      first == IF cut = 0 THEN <<>> ELSE <<SubSeq(data, 1, cut)>>
  IN first \o [k \in 1..((Len(rest) + page - 1) \div page) |->
                 SubSeq(rest, (k - 1) * page + 1, End(k))]

BufferedWrite(w, address, data, page, command) ==
  LET pieces == Pieces(address, data, page)
      written[k \in 0..Len(pieces)] ==
        IF k = 0 THEN Stptr(w, address)
                 ELSE NvmCommand(SendBlock(written[k - 1], pieces[k]), TRUE, command)
  IN written[Len(pieces)]

WriteFuse(w, byte) ==
  NvmCommand(Stinc(Stptr(w, NvmData), byte), FALSE, "Fuse")

(***************************************************************************)
(* The commands.  Each ends its conversation by keeping the target as it    *)
(* has become; its pointer and the data register are dead, a command sets   *)
(* them before it uses them.                                                *)
(***************************************************************************)
Keep(s, w) == [s EXCEPT !.board = [w.b EXCEPT !.pointer = 0, !.data = Erased]]
Conclude(s, w) == IF w.good THEN ReplyOk(Keep(s, w)) ELSE ReplyNoPower(Keep(s, w))

StartBreak(s, pending) ==
  [s EXCEPT !.pending = pending, !.installed = TRUE, !.attached = FALSE,
            !.connected = FALSE, !.line = "Low", !.brk = "Low1"]

SetDescriptor(s) ==
  LET flash == IF Body(s)[2] = 0 THEN 64 ELSE Body(s)[2]
      eeprom == IF Body(s)[3] = 0 THEN 32 ELSE Body(s)[3]
  IN IF Len(Body(s)) < 3
       THEN Reply(s, RspFailed)
       ELSE StartBreak([s EXCEPT !.flashPage = flash, !.eepromPage = eeprom,
                                 !.nvmVersion = IF flash >= 256 THEN 2 ELSE 1],
                       "Descriptor")

FinishDescriptor(s) ==
  LET w == Tell(Conversation(s), s.board)
  IN Conclude([s EXCEPT !.connected = @ \/ w.good], w)

\* Mutant: what a failed write left in the page buffer stays there.
KeepPageBuffer(s, w) == w

ClearPageBuffer(s, w) ==
  IF s.nvmVersion = 1
    THEN Ask(w, [CommandNvm(w.b, "Clear") EXCEPT !.pointer = NvmStatus], 0)
    ELSE w

\* A running target is reset with the programming key, one that is already
\* in programming mode is taken as it is but for its page buffer.
EnterProgmode(s) ==
  LET Guarded(w) == Tell(w, w.b)
      Entered(w) == Conclude([s EXCEPT !.inProg = @ \/ w.good], w)
      Ready(w) == Entered(Guarded(ClearPageBuffer(s, w)))
      Probed(w) ==
        CASE ~w.good -> ReplyNoPower(Keep(s, w))
          [] w.good /\ w.got % 2 = 1 -> Reply(Keep(s, w), RspIllegalState)
          [] OTHER -> Ready(CpuReset(WriteKey(w, "Nvm")))
      Found(w) ==
        CASE ~w.good -> ReplyNoPower(Keep(s, w))
          [] w.good /\ w.got \in {33, 162, 130} -> Probed(Ldcs(CpuReset(w)))
          [] w.good /\ w.got = 8 -> Ready(w)
          [] OTHER -> Reply(Keep(s, w), RspIllegalState)
  IN Found(Ldcs(Conversation(s)))

BeginEnter(s) ==
  IF s.connected THEN EnterProgmode(s) ELSE StartBreak(s, "Enter")

\* Once the wait has gone well the target counts as left, however the reset ends.
LeaveTarget(s, w) ==
  LET Left(waited) == [w |-> CpuReset(waited), inProg |-> s.inProg /\ ~waited.good]
  IN Left(IF s.nvmVersion = 1 THEN NvmWait(w, FALSE) ELSE w)

LeaveProgmode(s) ==
  LET Gone(left) == Conclude([s EXCEPT !.inProg = left.inProg], left.w)
      Found(w) ==
        CASE ~w.good -> ReplyNoPower(Keep(s, w))
          [] w.good /\ w.got = 8 -> Gone(LeaveTarget(s, w))
          [] w.good /\ w.got = 130 -> ReplyNoPower(Keep(s, w))
          [] OTHER -> Reply(Keep(s, w), RspIllegalState)
  IN Found(Ldcs(Conversation(s)))

DisableUpdi(s, w) ==
  LET Sent(v) == IF v.good THEN [Keep(s, v) EXCEPT !.connected = FALSE, !.inProg = FALSE]
                           ELSE Keep(s, v)
  IN Sent(Tell(w, [w.b EXCEPT !.deaf = "Reset"]))

Go(s) ==
  LET done == DisableUpdi(s, Conversation(s))
  IN CASE ~s.connected \/ ~s.inProg -> ReplyOk(s)
       [] s.connected /\ s.inProg /\ ~done.connected -> ReplyOk(done)
       [] OTHER -> ReplyNoPower(done)

\* Sign-off leaves and disables; the failure of the first does not stop the
\* second, unless the link is down.
SignOff(s) ==
  LET Disabled(left) == DisableUpdi([s EXCEPT !.inProg = left.inProg],
                                    [left.w EXCEPT !.good = left.w.ok])
      Told(done) == IF done.connected THEN ReplyNoPower(done) ELSE ReplyOk(done)
  IN Told(IF s.connected /\ s.inProg THEN Disabled(LeaveTarget(s, Conversation(s)))
                                     ELSE [s EXCEPT !.connected = FALSE])

EraseChipNow(s) ==
  LET Keyed(w) == Ask(w, w.b, w.b.key)
      Waited(pulsed) == Conclude([s EXCEPT !.inProg = @ /\ ~pulsed.good],
                                 Poll(pulsed, ~pulsed.b.locked))
      Asked(w) == IF w.good /\ w.got = "Erase" THEN Waited(Pulse(w))
                                               ELSE ReplyNoPower(Keep(s, w))
  IN Asked(Keyed(WriteKey(Conversation(s), "Erase")))

ErasePage(s) ==
  LET waited == NvmWait(Conversation(s), FALSE)
      stored == Ask(waited, StoreByte([waited.b EXCEPT !.pointer = Body(s)[3]], Erased), 0)
  IN Conclude(s, NvmCommand(stored, FALSE, "Erase"))

Erase(s) ==
  LET kind == Body(s)[2]
      refused == \/ Len(Body(s)) < 2
                 \/ kind \notin {EraseChip, EraseAppPage, EraseEepromPage}
                 \/ kind = EraseAppPage /\ (s.nvmVersion # 1 \/ Len(Body(s)) < 3)
  IN CASE refused -> Reply(s, RspFailed)
       [] ~refused /\ kind = EraseChip -> EraseChipNow(s)
       [] ~refused /\ kind = EraseEepromPage -> ReplyOk(s)
       [] ~refused /\ kind = EraseAppPage -> ErasePage(s)

BeginErase(s) == IF s.connected THEN Erase(s) ELSE StartBreak(s, "Erase")

\* What both memory commands check before they touch the target.
Refusal(s, w) ==
  CASE ~w.good -> RspNoPower
    [] w.good /\ w.got # 8 -> RspIllegalState
    [] w.good /\ w.got = 8 /\ (Len(Body(s)) < 4 \/ s.nvmVersion # 1) -> RspFailed
    [] OTHER -> RspOk

\* body: command, memory, count, address
ReadMemory(s) ==
  LET w == Ldcs(Conversation(s))
      count == Body(s)[3]
      address == Body(s)[4]
      set == Rep(Stptr(w, address))
      read == Ask(set, [set.b EXCEPT !.pointer = @ + count],
                  [i \in 1..count |-> Mapped(set.b, address + i - 1)])
  IN CASE Refusal(s, w) # RspOk -> Reply(Keep(s, w), Refusal(s, w))
       [] Refusal(s, w) = RspOk /\ (count = 0 \/ count > MaxBody - 1) ->
            Reply(Keep(s, w), RspFailed)
       [] OTHER -> IF read.good THEN Answer(Keep(s, read), RspMemory, read.got)
                                ELSE ReplyNoPower(Keep(s, read))

\* body: command, memory, count, address, the data
WriteMemory(s) ==
  LET w == Ldcs(Conversation(s))
      memory == Body(s)[2]
      data == SubSeq(Body(s), 5, 4 + Body(s)[3])
      wrote == CASE memory = MemFuse ->
                      IF data = <<>> THEN Fail(w) ELSE WriteFuse(w, data[1])
                 [] memory = MemFlash ->
                      BufferedWrite(w, Body(s)[4], data, s.flashPage, "Write")
                 [] memory = MemEeprom ->
                      BufferedWrite(w, Body(s)[4], data, s.eepromPage, "EraseWrite")
  IN CASE Refusal(s, w) # RspOk -> Reply(Keep(s, w), Refusal(s, w))
       [] Refusal(s, w) = RspOk /\ Len(Body(s)) < 4 + Body(s)[3] ->
            Reply(Keep(s, w), RspFailed)
       [] /\ Refusal(s, w) = RspOk
          /\ Len(Body(s)) >= 4 + Body(s)[3]
          /\ memory \notin {MemFuse, MemFlash, MemEeprom} ->
            Reply(Keep(s, w), RspIllegalMemory)
       [] OTHER -> Conclude(s, wrote)

SetParameter(s) ==
  LET accepted == /\ Len(Body(s)) >= 3
                  /\ \/ Body(s)[2] = ParEmu
                     \/ Body(s)[2] = ParBaud /\ Body(s)[3] \in 1..28
  IN IF accepted THEN ReplyOk(s) ELSE Reply(s, RspIllegalParameter)

\* The values do not matter to a target.
GetParameter(s) ==
  LET known == /\ Len(Body(s)) >= 2
               /\ Body(s)[2] \in {ParHw, ParFw, ParEmu, ParBaud, ParVtarget}
  IN Reply(s, IF known THEN RspParameter ELSE RspIllegalParameter)

Dispatch(s) ==
  LET command == Body(s)[1]
  IN CASE command = CmdSignOn -> Reply(s, RspSignOn)
       [] command \in {CmdGetSync, CmdReset} -> ReplyOk(s)
       [] command = CmdSignOff -> SignOff(s)
       [] command = CmdSetParameter -> SetParameter(s)
       [] command = CmdGetParameter -> GetParameter(s)
       [] command = CmdSetDescriptor -> SetDescriptor(s)
       [] command = CmdEnter -> BeginEnter(s)
       [] command = CmdLeave -> LeaveProgmode(s)
       [] command = CmdGo -> Go(s)
       [] command = CmdErase -> BeginErase(s)
       [] command = CmdReadMemory -> ReadMemory(s)
       [] command = CmdWriteMemory -> WriteMemory(s)
       [] OTHER -> Reply(s, RspIllegalCommand)

(***************************************************************************)
(* The parser: one byte of the stream.                                      *)
(***************************************************************************)
OnFrame(s, crc) ==
  IF crc # Checksum(s.raw) \/ Body(s) = <<>> THEN Reply(s, RspFailed) ELSE Dispatch(s)

BodyLen(s) == s.raw[3]
Restart(s) == [s EXCEPT !.rx = "Start", !.raw = <<>>]

AcceptByte(s, byte) ==
  LET taken == [s EXCEPT !.raw = Append(@, byte)]
  IN CASE s.rx = "Start" ->
            IF byte = StartMark THEN [taken EXCEPT !.rx = "Seq"] ELSE s
       [] s.rx = "Seq" -> [taken EXCEPT !.rx = "Size"]
       [] s.rx = "Size" ->
            IF byte > MaxBody THEN Restart(s) ELSE [taken EXCEPT !.rx = "Token"]
       [] s.rx = "Token" ->
            (CASE byte = Token ->
                    [taken EXCEPT !.rx = IF BodyLen(s) = 0 THEN "Crc" ELSE "Body"]
               [] byte = StartMark -> [s EXCEPT !.rx = "Seq", !.raw = <<byte>>]
               [] OTHER -> Restart(s))
       [] s.rx = "Body" ->
            IF Len(taken.raw) = 4 + BodyLen(s) THEN [taken EXCEPT !.rx = "Crc"]
                                               ELSE taken
       [] s.rx = "Crc" -> OnFrame([s EXCEPT !.rx = "Start"], byte)

(***************************************************************************)
(* The break, the link check and update().                                  *)
(***************************************************************************)
\* One elapsed phase of the double break.  The last releases the line to the
\* UART and wakes a target that an error had silenced.
AdvanceBreak(s) ==
  CASE s.brk = "Low1" -> [s EXCEPT !.line = "Pullup", !.brk = "High"]
    [] s.brk = "High" -> [s EXCEPT !.line = "Low", !.brk = "Low2"]
    [] s.brk = "Low2" ->
         [s EXCEPT !.line = "Uart", !.attached = TRUE, !.connected = TRUE,
                   !.brk = "Idle",
                   !.board.deaf = IF @ = "Break" THEN "No" ELSE @]

RunPending(s) ==
  LET taken == [s EXCEPT !.pending = "None"]
  IN CASE s.pending = "Descriptor" -> FinishDescriptor(taken)
       [] s.pending = "Enter" -> EnterProgmode(taken)
       [] s.pending = "Erase" -> Erase(taken)
       [] s.pending = "None" -> taken

BeginLinkCheck(s) ==
  [StartBreak(s, "None") EXCEPT !.checking = TRUE]

FinishLinkCheck(s) ==
  Shutdown(Keep(s, Ask(Conversation(s), s.board, 0)))

\* pollLinkCheck() at the end of a phase of its break.
PollLinkCheck(s, fault) ==
  LET moved == [AdvanceBreak(s) EXCEPT !.fault = fault]
      done == IF moved.brk = "Idle" THEN FinishLinkCheck(moved) ELSE moved
  IN [done EXCEPT !.fault = NoFault]

\* The end of a break runs the command that asked for it.
Woken(s) ==
  LET moved == AdvanceBreak(s)
  IN IF s.brk = "Idle" THEN s
     ELSE IF moved.brk = "Idle" THEN RunPending(moved) ELSE moved

\* Bytes are read while no break is running.
ReadByte(a, byte) ==
  IF a.s.brk = "Idle" THEN [a EXCEPT !.s = AcceptByte(a.s, byte)]
                      ELSE [a EXCEPT !.rest = Append(@, byte)]

\* update() once the phase it waits for is over.
Update(s, input, fault) ==
  LET read[k \in 0..Len(input)] ==
        IF k = 0 THEN [s |-> Woken([s EXCEPT !.fault = fault]), rest |-> <<>>]
                 ELSE ReadByte(read[k - 1], input[k])
  IN IF s.checking THEN [s |-> s, rest |-> input]
                   ELSE [read[Len(input)] EXCEPT !.s.fault = NoFault]

=============================================================================
