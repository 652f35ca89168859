----------------------------- MODULE Programming -----------------------------
(***************************************************************************)
(* The programming facade (lib/Logic/Programming/Programming): its two      *)
(* programmers, the session that runs one of them, the link check that      *)
(* borrows the UPDI programmer, and, as their environment, the host at the  *)
(* other end of the USB stream and the target on the wires.  How long a     *)
(* session lasts is the subject of MainLoop; here it may end between any    *)
(* two passes.                                                              *)
(*                                                                          *)
(* The host follows the tools' protocol: it looks for the programmer with   *)
(* sync requests, then sends a command and waits for its answer.  It can be *)
(* interrupted in the middle of a command and be started again.  It keeps   *)
(* what the answers told it about each memory cell: what it has been told   *)
(* must be true of the target.                                              *)
(***************************************************************************)
EXTENDS Integers, Sequences

CONSTANTS PageBytes, EepromPageBytes, FlashBytes, EepromBytes,
          MaxPage,     \* longest page or body accepted from the host
          Image,       \* what the host writes: a function of the cell
          IspOps, UpdiOps,  \* commands the host sends
          FaultSteps,  \* steps of a conversation a fault may hit
          MaxTrouble   \* bound on interruptions, faults and resets

VARIABLES programmer,  \* the programmer the session runs, or "None"
          checkActive, \* Programming::_checkActive
          isp, updi,
          input,       \* bytes at the port
          jumpered,    \* the kind of target on the wires
          host,
          trouble      \* number of interruptions, faults and resets so far

programmingVars == <<programmer, checkActive, isp, updi, input, jumpered, host, trouble>>

I == INSTANCE IspProgrammer WITH MaxPageBytes <- MaxPage
U == INSTANCE UpdiProgrammer WITH MaxBody <- MaxPage, FlashPage <- PageBytes,
                                  EepromPage <- EepromPageBytes

EepromAt == U!EepromAt
Fuse == U!NvmData
Flash == 0..(FlashBytes - 1)
Eeprom == EepromAt..(EepromAt + EepromBytes - 1)
Cells == Flash \union Eeprom \union {Fuse}

(***************************************************************************)
(* The host.  A command is [kind, at, n]: n cells from "at" on.             *)
(***************************************************************************)
IspKinds ==
  {"Sync", "Setup", "Leave", "Erase", "UniversalErase", "Sign", "Name", "Write", "Read",
   "Oversize", "OddRead", "Strange"}
UpdiKinds ==
  {"Sync", "SignOn", "Voltage", "Baud", "Setup", "Enter", "Leave", "Go", "SignOff",
   "Erase", "ErasePage", "Write", "Read", "Strange"}

ASSUME HostAssumption ==
  /\ IspOps \subseteq [kind : IspKinds, at : Nat, n : Nat]
  /\ UpdiOps \subseteq [kind : UpdiKinds, at : Nat, n : Nat]
  /\ MaxPage \in Nat

\* What goes over the port are bytes: sizes, and the image at the cells the
\* commands name.
ASSUME ByteAssumption ==
  /\ PageBytes \in Nat /\ EepromPageBytes \in Nat
  /\ FlashBytes \in Nat /\ EepromBytes \in Nat
  /\ \A op \in IspOps :
       /\ op.kind \in {"Write", "Read"} => op.at \in Flash \union Eeprom
       /\ op.kind = "Write" => \A i \in 1..op.n : Image[op.at + i - 1] \in Nat
  /\ \A op \in UpdiOps : op.kind = "Write" => \A i \in 1..op.n : Image[op.at + i - 1] \in Nat

NoOp == [kind |-> "None", at |-> 0, n |-> 0]
Command(kind) == [kind |-> kind, at |-> 0, n |-> 0]
Sync == Command("Sync")

Span(op) == [i \in 1..op.n |-> op.at + i - 1]
Data(op) == [i \in 1..op.n |-> Image[op.at + i - 1]]

\* Cells a command may change.
Touched(op) ==
  CASE op.kind \in {"Write", "ErasePage"} -> {Span(op)[i] : i \in 1..op.n}
    [] op.kind \in {"Erase", "UniversalErase"} -> Flash \union Eeprom
    [] OTHER -> {}

IspFrame(op) ==
  LET inFlash == op.at \in Flash
      word == (IF inFlash THEN op.at ELSE op.at - EepromAt) \div 2
      memory == IF inFlash THEN I!MemFlash ELSE I!MemEeprom
      located == <<I!LoadAddress, word, I!Eop>>
  IN CASE op.kind = "Sync" -> <<I!GetSync, I!Eop>>
       [] op.kind = "Setup" ->
            <<I!SetDevice, PageBytes, I!Eop, I!EnterProgmode, I!Eop>>
       [] op.kind = "Leave" -> <<I!LeaveProgmode, I!Eop>>
       [] op.kind = "Erase" -> <<I!ChipErase, I!Eop>>
       [] op.kind = "UniversalErase" -> <<I!Universal, I!InstrErase, 128, I!Eop>>
       [] op.kind = "Sign" -> <<I!ReadSign, I!Eop>>
       [] op.kind = "Name" -> <<I!GetSignOn, I!Eop>>
       [] op.kind = "Write" ->
            located \o <<I!ProgPage, op.n, memory>> \o Data(op) \o <<I!Eop>>
       [] op.kind = "Read" -> located \o <<I!ReadPage, op.n, memory, I!Eop>>
       [] op.kind = "Oversize" ->
            <<I!ProgPage, MaxPage + 1, I!MemFlash>> \o
              [i \in 1..(MaxPage + 1) |-> I!Eop] \o <<I!Eop>>
       [] op.kind = "OddRead" -> <<I!ReadPage, 1, I!MemFlash, I!Eop>>
       [] op.kind = "Strange" -> <<1, I!Eop>>

UpdiBody(op) ==
  LET memory == CASE op.at \in Flash -> U!MemFlash
                  [] op.at \in Eeprom -> U!MemEeprom
                  [] OTHER -> U!MemFuse
  IN CASE op.kind = "Sync" -> <<U!CmdGetSync>>
       [] op.kind = "SignOn" -> <<U!CmdSignOn>>
       [] op.kind = "Voltage" -> <<U!CmdGetParameter, U!ParVtarget>>
       [] op.kind = "Baud" -> <<U!CmdSetParameter, U!ParBaud, op.n>>
       [] op.kind = "Setup" -> <<U!CmdSetDescriptor, op.n, EepromPageBytes>>
       [] op.kind = "Enter" -> <<U!CmdEnter>>
       [] op.kind = "Leave" -> <<U!CmdLeave>>
       [] op.kind = "Go" -> <<U!CmdGo>>
       [] op.kind = "SignOff" -> <<U!CmdSignOff>>
       [] op.kind = "Erase" -> <<U!CmdErase, U!EraseChip>>
       [] op.kind = "ErasePage" -> <<U!CmdErase, U!EraseAppPage, op.at>>
       [] op.kind = "Write" ->
            <<U!CmdWriteMemory, memory, op.n, op.at>> \o Data(op)
       [] op.kind = "Read" -> <<U!CmdReadMemory, memory, op.n, op.at>>
       [] op.kind = "Strange" -> <<99>>

\* The tools ask for what the programmers have room for, for whole words of
\* flash, and for a baud rate of the table.
ASSUME ToolAssumption ==
  /\ \A op \in IspOps : op.kind \in {"Write", "Read"} =>
       op.n <= MaxPage /\ (op.at \in Flash => op.n % 2 = 0)
  /\ \A op \in UpdiOps :
       /\ Len(UpdiBody(op)) <= MaxPage
       /\ op.kind = "Baud" => op.n <= 28

Frame(op) ==
  IF programmer = "Isp" THEN IspFrame(op) ELSE U!Frame(host.seq, UpdiBody(op))

NewRun(sure) ==
  [op |-> NoOp, seq |-> 0, sync |-> FALSE, entered |-> FALSE, ready |-> FALSE,
   wary |-> FALSE, sure |-> sure]

Unsure == [c \in Cells |-> "Unknown"]
Mark(sure, cells, what) == [c \in Cells |-> IF c \in cells THEN what ELSE sure[c]]

\* What is left of the host's knowledge when nobody hears the answer.  A chip
\* erase that was not confirmed may have left its key with the target, to be
\* carried out by whatever resets it next: the host is wary of this target until
\* an erase is confirmed.
Abandoned ==
  [NewRun(Mark(host.sure, Touched(host.op), "Unknown"))
     EXCEPT !.wary = host.wary \/ (programmer = "Updi" /\ host.op.kind = "Erase")]

\* Commands the host has a reason to send: it asks about the programmer before
\* it sets it up, enters before it programs, writes where it knows the flash to be
\* blank, and reads what it knows.  A bound: it writes the flash and EEPROM of a
\* target whose fuse it knows, and of another one it writes the fuse.
May(op) ==
  /\ host.op = NoOp
  /\ op \in IF programmer = "Isp" THEN IspOps ELSE UpdiOps
  /\ op.kind = "Sync" <=> ~host.sync
  /\ op.kind \in {"SignOn", "Voltage", "Baud", "Name", "Strange"} => ~host.ready
  /\ op.kind = "Enter" => host.ready
  /\ op.kind = "Erase" => IF programmer = "Isp" THEN host.entered ELSE host.ready
  /\ op.kind \in {"UniversalErase", "Sign", "Write", "Read", "ErasePage", "Go"} =>
       host.entered
  /\ op.kind = "Write" =>
       \A c \in Touched(op) \intersect Flash : host.sure[c] = "Blank"
  /\ op.kind = "Read" => \A i \in 1..op.n : host.sure[Span(op)[i]] # "Unknown"
  /\ programmer = "Updi" /\ op.kind \in {"Write", "ErasePage"} =>
       (host.sure[Fuse] = "Blank" <=> Fuse \notin Touched(op))

(***************************************************************************)
(* The answers a command may have.                                          *)
(***************************************************************************)
Known(op) == [i \in 1..op.n |-> IF host.sure[Span(op)[i]] = "Blank"
                                  THEN I!Erased ELSE Image[Span(op)[i]]]

\* What a UPDI target may hold in a cell the answers spoke of.
MayHold(c, value) ==
  \/ host.sure[c] = "Written" /\ value = Image[c]
  \/ host.sure[c] = "Blank" /\ value = U!Erased
  \/ host.wary /\ c # Fuse /\ value = U!Erased

ReadFits(op, data) ==
  Len(data) = op.n /\ \A i \in 1..op.n : MayHold(Span(op)[i], data[i])

IspGood(op, out) ==
  CASE op.kind = "Setup" -> out = <<I!Insync, I!Ok, I!Insync, I!Ok>>
    [] op.kind = "Write" -> out = <<I!Insync, I!Ok, I!Insync, I!Ok>>
    [] op.kind = "Read" ->
         out = <<I!Insync, I!Ok, I!Insync>> \o Known(op) \o <<I!Ok>>
    [] op.kind \in {"UniversalErase", "Name"} ->
         Len(out) = 3 /\ out[1] = I!Insync /\ out[3] = I!Ok
    [] op.kind = "Sign" -> Len(out) = 5 /\ out[1] = I!Insync /\ out[5] = I!Ok
    [] op.kind \in {"Oversize", "OddRead"} -> out = <<I!Insync, I!Failed>>
    [] op.kind = "Strange" -> out = <<I!Unknown>>
    [] OTHER -> out = <<I!Insync, I!Ok>>

IspFits(op, out) ==
  \/ IspGood(op, out)
  \/ op.kind = "Setup" /\ out = <<I!Insync, I!Ok, I!Insync, I!Failed>>

\* Setup and the memory commands are two commands each; the answer to the
\* first is there while the second makes the programmer wait.
Early(op) == IF programmer = "Isp" /\ op.kind \in {"Setup", "Write"}
               THEN <<I!Insync, I!Ok>> ELSE <<>>

UpdiGood(op, a) ==
  CASE op.kind = "Read" -> a.status = U!RspMemory /\ ReadFits(op, a.data)
    [] op.kind = "SignOn" -> a.status = U!RspSignOn
    [] op.kind = "Voltage" -> a.status = U!RspParameter
    [] op.kind = "Baud" -> a.status = IF op.n = 0 THEN U!RspIllegalParameter ELSE U!RspOk
    [] op.kind = "Strange" -> a.status = U!RspIllegalCommand
    [] OTHER -> a.status = U!RspOk

UpdiFits(op, a) ==
  /\ a.seq = host.seq
  /\ \/ UpdiGood(op, a)
     \/ /\ op.kind \notin {"Sync", "SignOn", "Voltage", "Baud", "Strange"}
        /\ a.status \in {U!RspNoPower, U!RspIllegalState, U!RspFailed}

Out == IF programmer = "Isp" THEN isp.out ELSE updi.out
Busy == IF programmer = "Isp" THEN I!Waiting(isp) ELSE updi.brk # "Idle"
Quiet == programmer # "None" /\ input = <<>> /\ ~Busy

Good(op) ==
  IF programmer = "Isp" THEN IspGood(op, Out)
                     ELSE \E k \in DOMAIN Out : Out[k].seq = host.seq /\ UpdiGood(op, Out[k])

\* What the host makes of the answer.  It gives a run up at the first refusal
\* it did not provoke, and begins again.
Learned(op) ==
  LET next == [host EXCEPT !.op = NoOp, !.seq = IF programmer = "Updi" THEN 1 - @ ELSE @]
      sure == CASE op.kind \in {"Erase", "UniversalErase", "ErasePage"} ->
                     Mark(host.sure, Touched(op), "Blank")
                [] op.kind = "Write" -> Mark(host.sure, Touched(op), "Written")
                [] OTHER -> host.sure
  IN CASE ~Good(op) /\ op.kind = "Sync" -> next
       [] ~Good(op) /\ op.kind # "Sync" -> Abandoned
       [] OTHER ->
            [next EXCEPT !.sync = TRUE, !.sure = sure,
                         !.wary = @ /\ op.kind # "Erase",
                         !.ready = @ \/ op.kind = "Setup",
                         !.entered = \/ op.kind = "Enter"
                                     \/ op.kind = "Setup" /\ programmer = "Isp"
                                     \/ @ /\ op.kind \notin {"Setup", "Leave", "Go", "SignOff"}
                                          /\ ~(op.kind = "Erase" /\ programmer = "Updi")]

(***************************************************************************)
(* Programming::begin, the end of a session, and the link check.            *)
(***************************************************************************)
IspTarget == I!Target([i \in Flash |-> I!Spoilt], [i \in 0..(EepromBytes - 1) |-> I!Spoilt])
UpdiTarget(lock) ==
  U!Target([i \in Flash |-> U!Spoilt], [i \in 0..(EepromBytes - 1) |-> U!Spoilt], lock)

\* A bound: the kind of target is not changed once the ISP programmer has kept
\* a page size or an address, which would only multiply the states of the other.
Unused == isp.pageSize = 0 /\ isp.address = 0

\* The fuse of a new UPDI target is known to be as it left the factory, or not.
FuseKnown(method) == IF method = "Isp" THEN {"Unknown"} ELSE {"Unknown", "Blank"}

\* Mutant: the running check is left to itself.
BeginBesideCheck(method, lock) ==
  LET released == updi
      swapped == jumpered # method
      ispHere == IF swapped THEN [isp EXCEPT !.board = IspTarget] ELSE isp
      updiHere == IF swapped THEN [released EXCEPT !.board = UpdiTarget(lock)]
                             ELSE released
  IN /\ programmer = "None"
     /\ lock => swapped /\ method = "Updi"
     /\ swapped => Unused
     /\ programmer' = method /\ jumpered' = method /\ checkActive' = FALSE
     /\ isp' = IF method = "Isp" THEN I!Start(ispHere) ELSE ispHere
     /\ updi' = IF method = "Updi" THEN U!Start(updiHere) ELSE updiHere
     /\ \E fuse \in FuseKnown(method) :
          host' = IF swapped THEN NewRun(Mark(Unsure, {Fuse}, fuse))
                             ELSE [NewRun(host.sure) EXCEPT !.wary = host.wary]
     /\ input' = <<>>
     /\ UNCHANGED trouble

\* A running check is cancelled whatever the method.  The user jumpers the
\* target that goes with it, a new one when the kind changes.
Begin(method, lock) ==
  LET released == IF checkActive THEN U!Shutdown(updi) ELSE updi
      swapped == jumpered # method
      ispHere == IF swapped THEN [isp EXCEPT !.board = IspTarget] ELSE isp
      updiHere == IF swapped THEN [released EXCEPT !.board = UpdiTarget(lock)]
                             ELSE released
  IN /\ programmer = "None"
     /\ lock => swapped /\ method = "Updi"
     /\ swapped => Unused
     /\ programmer' = method /\ jumpered' = method /\ checkActive' = FALSE
     /\ isp' = IF method = "Isp" THEN I!Start(ispHere) ELSE ispHere
     /\ updi' = IF method = "Updi" THEN U!Start(updiHere) ELSE updiHere
     /\ \E fuse \in FuseKnown(method) :
          host' = IF swapped THEN NewRun(Mark(Unsure, {Fuse}, fuse))
                             ELSE [NewRun(host.sure) EXCEPT !.wary = host.wary]
     /\ input' = <<>>
     /\ UNCHANGED trouble

\* Bytes that are still at the port are the console's.
End ==
  /\ programmer # "None"
  /\ programmer' = "None"
  /\ isp' = IF programmer = "Isp" THEN [I!Shutdown(isp) EXCEPT !.out = <<>>] ELSE isp
  /\ updi' = IF programmer = "Updi" THEN [U!Shutdown(updi) EXCEPT !.out = <<>>] ELSE updi
  /\ input' = <<>>
  /\ host' = Abandoned
  /\ UNCHANGED <<checkActive, jumpered, trouble>>

StartUpdiCheck ==
  /\ ~checkActive /\ programmer = "None"
  /\ checkActive' = TRUE
  /\ updi' = U!BeginLinkCheck(updi)
  /\ UNCHANGED <<programmer, isp, input, jumpered, host, trouble>>

\* A conversation goes well or, while trouble lasts, one step of it does not.
Faulty(fault) ==
  \/ fault = U!NoFault /\ UNCHANGED trouble
  \/ /\ trouble < MaxTrouble /\ trouble' = trouble + 1
     /\ fault \in [at : FaultSteps, kind : {"Echo", "Deaf", "Mute", "Stuck"}]

Faults == {U!NoFault} \union
          [at : FaultSteps, kind : {"Echo", "Deaf", "Mute", "Stuck"}]

PollUpdiCheck ==
  /\ checkActive
  /\ \E fault \in Faults :
       /\ Faulty(fault)
       /\ updi' = U!PollLinkCheck(updi, fault)
  /\ checkActive' = (updi'.brk # "Idle")
  /\ UNCHANGED <<programmer, isp, input, jumpered, host>>

(***************************************************************************)
(* Programming::update: the programmer of the session.                      *)
(***************************************************************************)
IspDue == programmer = "Isp" /\ (input # <<>> \/ I!Waiting(isp))
UpdiDue == /\ programmer = "Updi" /\ ~updi.checking
           /\ input # <<>> \/ updi.brk # "Idle"

IspUpdate ==
  /\ IspDue
  /\ \E hears \in BOOLEAN : \E read \in {I!Update(isp, input, hears)} :
       isp' = read.s /\ input' = read.rest
  /\ UNCHANGED <<programmer, checkActive, updi, jumpered, host, trouble>>

UpdiUpdate ==
  /\ UpdiDue
  /\ \E fault \in Faults :
       /\ Faulty(fault)
       /\ \E read \in {U!Update(updi, input, fault)} :
            updi' = read.s /\ input' = read.rest
  /\ UNCHANGED <<programmer, checkActive, isp, jumpered, host>>

(***************************************************************************)
(* The host's steps, and what happens to the boards.                        *)
(***************************************************************************)
Send(op) ==
  /\ Quiet /\ Out = <<>> /\ May(op)
  /\ input' = Frame(op)
  /\ host' = [host EXCEPT !.op = op]
  /\ UNCHANGED <<programmer, checkActive, isp, updi, jumpered, trouble>>

\* Where a command may be cut short: in its middle, for an STK500 one also before
\* its end mark.  A jtagice frame has a length: what is short of it is counted and
\* not looked at.
Cuts(n) == IF programmer = "Isp" THEN {n \div 2, n - 1} ELSE {n \div 2}

\* The tool dies with a part of the command sent, and is run again.  What the
\* rest of an STK500 command will be made of is anyone's guess; a jtagice
\* frame carries a checksum.
Interrupt(op) ==
  /\ Quiet /\ Out = <<>> /\ May(op) /\ trouble < MaxTrouble
  /\ trouble' = trouble + 1
  /\ \E k \in Cuts(Len(Frame(op))) : input' = SubSeq(Frame(op), 1, k)
  /\ host' = [NewRun(IF programmer = "Isp" THEN Unsure ELSE host.sure)
                EXCEPT !.wary = host.wary]
  /\ UNCHANGED <<programmer, checkActive, isp, updi, jumpered>>

\* The answer is read, or the host stops waiting for one.
Take ==
  /\ Quiet /\ host.op # NoOp
  /\ host' = Learned(host.op)
  /\ isp' = [isp EXCEPT !.out = <<>>]
  /\ updi' = [updi EXCEPT !.out = <<>>]
  /\ UNCHANGED <<programmer, checkActive, input, jumpered, trouble>>

\* What the interrupted run left behind is dropped by the next one.
Drain ==
  /\ Quiet /\ host.op = NoOp /\ Out # <<>>
  /\ isp' = [isp EXCEPT !.out = <<>>]
  /\ updi' = [updi EXCEPT !.out = <<>>]
  /\ UNCHANGED <<programmer, checkActive, input, jumpered, host, trouble>>

\* The user resets the target; the tool is run again.
ResetTarget ==
  /\ jumpered = "Updi"
  /\ host.op = NoOp /\ input = <<>> /\ ~checkActive
  /\ updi' = [updi EXCEPT !.board = U!PowerTarget(@)]
  /\ updi' # updi
  /\ host' = [NewRun(host.sure) EXCEPT !.wary = host.wary]
  /\ UNCHANGED <<programmer, checkActive, isp, input, jumpered, trouble>>

\* The controller restarts and takes up the session its latch records.
ResetController ==
  /\ trouble < MaxTrouble /\ trouble' = trouble + 1
  /\ isp' = IF programmer = "Isp"
              THEN I!Start(I!Programmer(I!Shutdown(isp).board))
              ELSE I!Programmer(isp.board)
  /\ updi' = IF programmer = "Updi" THEN U!Start(U!Programmer(updi.board))
                                 ELSE U!Programmer(updi.board)
  /\ checkActive' = FALSE /\ input' = <<>>
  /\ host' = Abandoned
  /\ UNCHANGED <<programmer, jumpered>>

ProgrammingInit ==
  /\ programmer = "None" /\ checkActive = FALSE /\ input = <<>> /\ jumpered = "None"
  /\ isp = I!Programmer(IspTarget)
  /\ updi = U!Programmer(UpdiTarget(FALSE))
  /\ host = NewRun(Unsure)
  /\ trouble = 0

HostNext ==
  \/ \E op \in IspOps \union UpdiOps : Send(op) \/ Interrupt(op)
  \/ Take
  \/ Drain

ProgrammingNext ==
  \/ \E method \in {"Isp", "Updi"}, lock \in BOOLEAN : Begin(method, lock)
  \/ End
  \/ StartUpdiCheck
  \/ PollUpdiCheck
  \/ IspUpdate
  \/ UpdiUpdate
  \/ HostNext
  \/ ResetTarget
  \/ ResetController

ProgrammingSpec == ProgrammingInit /\ [][ProgrammingNext]_programmingVars

\* The loop runs for ever, waits run out, and a tool that is running asks for
\* sync and reads what it is answered.  The fairness of the two passes is
\* spelled out: each is enabled just when it is due.
ProgrammingFairness ==
  /\ []<>(~IspDue) \/ []<><<IspDue /\ UNCHANGED <<programmer, host>>>>_<<isp, input>>
  /\ []<>(~UpdiDue) \/ []<><<UpdiDue /\ UNCHANGED <<programmer, host>>>>_<<updi, input>>
  /\ WF_programmingVars(Take)
  /\ WF_programmingVars(Drain)
  /\ WF_programmingVars(Send(Sync))

FairProgramming == ProgrammingSpec /\ ProgrammingFairness

(***************************************************************************)
(* Properties.                                                              *)
(***************************************************************************)
\* Every cell the answers declared erased or written holds just that, after
\* whatever was cut short or failed before: pages are committed where they were
\* loaded, word and byte addresses are not mixed up, a write that fails in the
\* middle of a page or between two is never confirmed, and what it left in the
\* page buffer reaches no other page.  One thing the code does not undo: after a
\* UPDI chip erase that was refused, its key may stay with the target, and
\* flash and EEPROM may be blank instead until the erase is repeated.
TargetHoldsWhatWasConfirmed ==
  LET Held(c) == CASE jumpered = "Isp" ->
                        IF c \in Flash THEN isp.board.flash[c]
                                       ELSE isp.board.eeprom[c - EepromAt]
                   [] OTHER -> IF c \in Flash THEN updi.board.flash[c]
                                 ELSE IF c \in Eeprom THEN updi.board.eeprom[c - EepromAt]
                                                      ELSE updi.board.fuse
  IN \A c \in Cells \ Touched(host.op) :
       host.sure[c] # "Unknown" => MayHold(c, Held(c))

\* Once the host is in step, a command has exactly one answer, of its own form
\* and sequence number, with the data the host may expect, and nothing comes
\* that was not asked for: neither wait nor break nor an earlier run shifts
\* the answers against the commands.
AnswersFit ==
  host.sync =>
    /\ host.op = NoOp => Out = <<>>
    /\ ~Quiet => Out \in {<<>>, Early(host.op)}
    /\ host.op # NoOp /\ Quiet =>
         IF programmer = "Isp" THEN IspFits(host.op, Out)
                            ELSE Len(Out) = 1 /\ UpdiFits(host.op, Out[1])

\* SPI and UART, which share the MOSI net, are never both on it; reset is low
\* only while SPI is on; and a programmer leaves its lines when its session or
\* its check is over, however it ended.
WiresReleased ==
  /\ ~(isp.spi /\ updi.installed)
  /\ isp.reset = "Low" => isp.spi
  /\ programmer # "Isp" => ~isp.spi /\ isp.reset = "Pullup" /\ ~I!Waiting(isp)
  /\ programmer # "Updi" /\ ~checkActive =>
       ~updi.installed /\ updi.line = "Input" /\ updi.brk = "Idle"
  /\ programmer = "Updi" => ~updi.checking /\ updi.line # "Input"

\* Whatever an interrupted tool, a fault on the wire, a cancelled check or a
\* restart leaves behind, a tool that keeps asking gets in step again, and its
\* commands are answered.
HostIsAnswered ==
  []<>(programmer = "None" \/ (host.sync /\ host.op = NoOp))

=============================================================================
