------------------------------- MODULE MainLoop -------------------------------
(***************************************************************************)
(* setup() and loop() of main.cpp: who gets the USB stream and the bus in a *)
(* pass, the record in RTC memory that takes a programming session across a *)
(* restart, the rule by which ProgrammingSession ends one, and the console  *)
(* commands, configuration included.                                        *)
(*                                                                          *)
(* A pass is cut where a reset may fall between two of its effects.  What a *)
(* session and a link check do on the wires is the subject of Programming;  *)
(* here a session takes bytes and a check runs for some passes.             *)
(***************************************************************************)
EXTENDS ConfigStore

CONSTANTS
  Requests,       \* slot and method of the accepted program commands
  IdleTimeout,    \* ticks without a byte that end a session
  UnplugTimeout   \* ticks without the link that end a session

None == "None"

ASSUME LoopAssumption ==
  /\ IdleTimeout \in Nat \ {0} /\ UnplugTimeout \in Nat \ {0}
  /\ None \notin Requests

VARIABLES
  pc,          \* the next part of the pass
  attempted,   \* startupAttempted
  latch,       \* programmingLatch
  request,     \* _programmingRequest while _programmingRequested
  queued,      \* _checkRequested
  check,       \* Programming::_checkActive
  session,     \* what the active session was begun with
  timer,       \* ProgrammingSession: seen, timing, gone, idle
  quiesced,    \* ModuleHost::_quiesced
  plugged,     \* the USB link
  bytes,       \* the port holds bytes for the programmer
  noticed,     \* a pass of the session has seen the link as it is
  since,       \* in truth: ticks since the last byte and the last change of
               \* the link, and whether it was there during this session
  calm         \* nothing comes from outside any more

loopVars == <<attempted, latch, request, queued, check>>
sessionVars == <<session, timer, quiesced>>
linkVars == <<plugged, bytes, noticed, since>>
vars == <<configVars, pc, loopVars, sessionVars, linkVars, calm>>

UpTo(bound, n) == IF n < bound THEN n + 1 ELSE n

-----------------------------------------------------------------------------
(* ProgrammingSession                                                      *)

NoTimer == [seen |-> FALSE, timing |-> FALSE, gone |-> 0, idle |-> 0]

\* Faulty variant: begin() leaves what the session before has seen.
FreshTimerSeen == [timer EXCEPT !.timing = FALSE, !.gone = 0, !.idle = 0]

FreshTimer == NoTimer

NoTruth == [byte |-> 0, link |-> 0, here |-> FALSE]

\* begin() of Programming and of its session; a running check is released.
BeginSession(r) ==
  /\ session' = r /\ timer' = FreshTimer /\ quiesced' = TRUE
  /\ bytes' = FALSE /\ noticed' = TRUE
  /\ since' = [NoTruth EXCEPT !.here = plugged]

\* What update() makes of the link.
Watched ==
  [timer EXCEPT !.seen = @ \/ plugged,
                !.timing = ~plugged /\ timer.seen,
                !.gone = IF timer.timing /\ ~plugged THEN @ ELSE 0]

\* Faulty variant: only time with the link there counts.
RestedPlugged(t) == [t EXCEPT !.idle = IF bytes \/ ~plugged THEN 0 ELSE @]

\* ... and of the bytes, if the link does not end the session.
Rested(t) == [t EXCEPT !.idle = IF bytes THEN 0 ELSE @]

\* The times are dead when the session is over.
Finished(t) == [NoTimer EXCEPT !.seen = t.seen]

Unplugged(t) == t.timing /\ t.gone >= UnplugTimeout

SessionPass ==
  /\ pc = "Top" /\ session # None
  /\ LET ends == Unplugged(Watched) \/ Rested(Watched).idle >= IdleTimeout
     IN  IF ends THEN /\ session' = None /\ quiesced' = FALSE /\ pc' = "Ended"
                      /\ timer' = Finished(Watched) /\ since' = NoTruth
                 ELSE /\ timer' = Rested(Watched)
                      /\ UNCHANGED <<pc, session, quiesced, since>>
  /\ bytes' = FALSE /\ noticed' = TRUE
  /\ UNCHANGED <<configVars, loopVars, plugged, calm>>

-----------------------------------------------------------------------------
(* The pass                                                                *)

NoSession ==
  /\ pc = "Top" /\ session = None
  /\ pc' = "Console"
  /\ UNCHANGED <<configVars, loopVars, sessionVars, linkVars, calm>>

\* A session has ended: its record goes, and a start that it delayed follows.
SessionEnded ==
  /\ pc = "Ended"
  /\ latch' = None
  /\ pc' = IF attempted THEN "Console" ELSE "Startup"
  /\ UNCHANGED <<configVars, attempted, request, queued, check, sessionVars, linkVars, calm>>

\* startController(); without PSRAM neither network nor console begins.
StartController ==
  /\ pc = "Startup"
  /\ pc' = "Console" /\ attempted' = TRUE
  /\ \/ \E writes \in BOOLEAN : ConfigBegin(writes)
     \/ UNCHANGED configVars
  /\ UNCHANGED <<latch, request, queued, check, sessionVars, linkVars, calm>>

\* A complete line; several may be read in one pass.
Line ==
  /\ pc = "Console" /\ plugged /\ ~calm
  /\ UNCHANGED <<pc, attempted, latch, check, sessionVars, linkVars, calm>>

SetLine ==
  /\ Line
  /\ \E f \in Fields, v \in Values : Set(f, v)
  /\ UNCHANGED <<request, queued>>

ApplyLine == Line /\ Apply /\ UNCHANGED <<request, queued>>

ProgramLine ==
  /\ Line
  /\ request' \in Requests
  /\ UNCHANGED <<configVars, queued>>

CheckLine ==
  /\ Line
  /\ queued' = TRUE
  /\ UNCHANGED <<configVars, request>>

EndOfInput ==
  /\ pc = "Console"
  /\ pc' = IF request = None THEN "Check" ELSE "Request"
  /\ UNCHANGED <<configVars, loopVars, sessionVars, linkVars, calm>>

\* Faulty variant: a check of the same read is kept.
TakenKept == queued

Taken == FALSE

\* The record is stored before the session begins.
TakeRequest ==
  /\ pc = "Request"
  /\ queued' = Taken
  /\ latch' = request
  /\ pc' = "Begin"
  /\ UNCHANGED <<configVars, attempted, request, check, sessionVars, linkVars, calm>>

BeginProgramming ==
  /\ pc = "Begin"
  /\ BeginSession(request)
  /\ request' = None /\ check' = FALSE
  /\ pc' = "Top"
  /\ UNCHANGED <<configVars, attempted, latch, queued, plugged, calm>>

\* A queued check starts unless one is running; it is polled in the same pass.
CheckPass ==
  /\ pc = "Check"
  /\ queued' = FALSE
  /\ \/ ~(check \/ queued) /\ check' = FALSE /\ pc' = "Modules"
     \/ (check \/ queued) /\ check' = TRUE /\ pc' = "Top"
     \/ check /\ check' = FALSE /\ pc' = "Top"
  /\ UNCHANGED <<configVars, attempted, latch, request, sessionVars, linkVars, calm>>

\* Bus, modules and status lines.
Modules ==
  /\ pc = "Modules"
  /\ pc' = "Top"
  /\ UNCHANGED <<configVars, loopVars, sessionVars, linkVars, calm>>

-----------------------------------------------------------------------------
(* The environment                                                         *)

Tick ==
  /\ session # None /\ pc = "Top"
  /\ timer' = [timer EXCEPT !.idle = UpTo(IdleTimeout, @),
                            !.gone = IF timer.timing THEN UpTo(UnplugTimeout, @) ELSE @]
  /\ since' = [since EXCEPT !.byte = UpTo(IdleTimeout, @),
                            !.link = UpTo(UnplugTimeout, @)]
  /\ UNCHANGED <<configVars, pc, loopVars, session, quiesced, plugged, bytes, noticed, calm>>

\* Bytes for the programmer; in a check or without a session the port is the
\* console's.
BytesArrive ==
  /\ ~calm /\ session # None /\ plugged
  /\ bytes' = TRUE /\ since' = [since EXCEPT !.byte = 0]
  /\ UNCHANGED <<configVars, pc, loopVars, sessionVars, plugged, noticed, calm>>

\* The link comes or goes; each change lasts until a pass has seen it.
LinkChanges ==
  /\ ~calm /\ noticed
  /\ plugged' = ~plugged
  /\ noticed' = (session = None)
  /\ since' = IF session = None THEN since
              ELSE [since EXCEPT !.link = 0, !.here = @ \/ ~plugged]
  /\ UNCHANGED <<configVars, pc, loopVars, sessionVars, bytes, calm>>

\* A restart that setup() follows: with a record it goes straight to the
\* session.
Boot(record) ==
  /\ latch' = record /\ attempted' = FALSE
  /\ request' = None /\ queued' = FALSE /\ check' = FALSE
  /\ IF record # None
     THEN BeginSession(record) /\ pc' = "Top"
     ELSE /\ session' = None /\ timer' = NoTimer /\ quiesced' = FALSE
          /\ bytes' = FALSE /\ noticed' = TRUE /\ since' = NoTruth
          /\ pc' = "Startup"
  /\ UNCHANGED <<plugged, calm>>

\* Opening the USB port restarts the controller; RTC memory is kept.
Restart ==
  /\ ~calm
  /\ Boot(latch) /\ ConfigReset /\ UNCHANGED stored

\* The same in the middle of an apply.
RestartInApply ==
  /\ ~calm /\ pc = "Console"
  /\ Boot(latch) /\ ApplyCutShort

\* Power and reset button: RTC memory is lost.
PowerCycle ==
  /\ ~calm
  /\ Boot(None) /\ ConfigReset /\ UNCHANGED stored

CalmDown ==
  /\ ~calm /\ calm' = TRUE
  /\ UNCHANGED <<configVars, pc, loopVars, sessionVars, linkVars>>

-----------------------------------------------------------------------------
Init ==
  /\ ConfigInit
  /\ pc = "Startup" /\ attempted = FALSE
  /\ latch = None /\ request = None /\ queued = FALSE /\ check = FALSE
  /\ session = None /\ timer = NoTimer /\ quiesced = FALSE
  /\ plugged \in BOOLEAN /\ bytes = FALSE /\ noticed = TRUE
  /\ since = NoTruth
  /\ calm = FALSE

Pass ==
  \/ SessionPass \/ NoSession \/ SessionEnded \/ StartController
  \/ EndOfInput \/ TakeRequest \/ BeginProgramming \/ CheckPass \/ Modules

Lines == SetLine \/ ApplyLine \/ ProgramLine \/ CheckLine

Next ==
  \/ Pass \/ Lines \/ Tick
  \/ BytesArrive \/ LinkChanges \/ Restart \/ RestartInApply \/ PowerCycle \/ CalmDown

Spec == Init /\ [][Next]_vars

\* The loop runs, time passes, and the phases of a check run out.
FairSpec ==
  /\ Spec
  /\ WF_vars(calm /\ Pass)
  /\ WF_vars(calm /\ Tick)
  /\ SF_vars(calm /\ CheckPass /\ ~check')

-----------------------------------------------------------------------------
\* While a session owns the bus and the stream, its own record is what a
\* restart would find, and neither a check nor a second request waits behind
\* it; a pass that reaches the modules has no session, no record and no check.
SessionIsExclusive ==
  /\ session # None => /\ latch = session /\ quiesced
                       /\ ~check /\ ~queued /\ request = None
  /\ session = None => ~quiesced
  /\ pc = "Modules" => session = None /\ latch = None /\ ~check

\* A session ends only after the idle time without a byte, or when the link it
\* has had has been gone for the unplug time: a link that was never there, as
\* after a restart, does not end it, and neither does a link that comes back.
EndsOnlyInSilence ==
  [][session # None /\ pc' = "Ended" =>
       \/ since.byte >= IdleTimeout
       \/ since.here /\ ~plugged /\ since.link >= UnplugTimeout]_vars

\* Whatever sessions, checks and restarts came before, once nothing comes from
\* outside the controller is started and keeps serving its modules.
ControllerRuns == calm ~> (pc = "Modules" /\ attempted)

=============================================================================
