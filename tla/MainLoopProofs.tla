--------------------------- MODULE MainLoopProofs ---------------------------
(***************************************************************************)
(* For every number of fields, values and requests: a controller that has  *)
(* begun runs what it would load again, except for what is still staged,   *)
(* a programming session is alone with the bus and the USB stream, and ends *)
(* by itself only in silence.  And, for every size of the target's memories *)
(* and everything a host may send: the programmers of such sessions leave   *)
(* the wires they share as they found them, act on whole pages and frames   *)
(* only, and answer each command of a tool that does not go away in the     *)
(* middle of one.                                                           *)
(***************************************************************************)
EXTENDS MainLoop, Programming, SequenceTheorems, WellFoundedInduction, TLAPS

-----------------------------------------------------------------------------
(* The configuration                                                       *)

Keys == [Fields -> Values \union {Absent}]

ConfigTypeOK ==
  /\ stored \in Keys /\ active \in Keys /\ staged \in Keys
  /\ begun \in BOOLEAN

ConfigInv == ConfigTypeOK /\ StoreAgrees

\* A field that is not staged keeps its key whatever save() wrote.
LEMMA SavedKeeps ==
  ASSUME ConfigTypeOK, NEW written \in SUBSET Staged
  PROVE  /\ Saved(written) \in Keys
         /\ \A f \in Fields \ written : Saved(written)[f] = stored[f]
         /\ \A f \in written : Saved(written)[f] = staged[f] /\ staged[f] # Absent
  BY DEF ConfigTypeOK, Keys, Saved, Staged

\* Writing the missing client id back changes nothing of what a start makes of
\* the keys.
LEMMA WriteBackLoadsTheSame ==
  ASSUME NEW keys \in Keys, keys[Client] = Absent
  PROVE  /\ [keys EXCEPT ![Client] = Default[Client]] \in Keys
         /\ Loaded([keys EXCEPT ![Client] = Default[Client]]) = Loaded(keys)
  BY ConfigAssumption DEF Keys, Loaded

LEMMA LoadedIsTyped ==
  ASSUME NEW keys \in Keys
  PROVE  Loaded(keys) \in Keys
  BY ConfigAssumption DEF Keys, Loaded

LEMMA ConfigInitially == Init => ConfigInv
  BY ConfigAssumption
  DEF Init, ConfigInit, ConfigInv, ConfigTypeOK, StoreAgrees, Keys, Nowhere

LEMMA BeginKeeps ==
  ASSUME ConfigInv, NEW writes \in BOOLEAN, ConfigBegin(writes)
  PROVE  ConfigInv'
  <1>1. stored \in Keys /\ staged \in Keys
    BY DEF ConfigInv, ConfigTypeOK
  <1>2. stored' \in Keys /\ Loaded(stored') = Loaded(stored)
    BY <1>1, WriteBackLoadsTheSame DEF ConfigBegin
  <1>3. active' = Loaded(stored) /\ active' \in Keys
    BY <1>1, LoadedIsTyped DEF ConfigBegin
  <1>4. ConfigTypeOK'
    BY <1>1, <1>2, <1>3 DEF ConfigTypeOK, ConfigBegin
  <1>5. StoreAgrees'
    BY <1>2, <1>3 DEF StoreAgrees, ConfigBegin
  <1> QED
    BY <1>4, <1>5 DEF ConfigInv

LEMMA SetKeeps ==
  ASSUME ConfigInv, NEW f \in Fields, NEW v \in Values, Set(f, v)
  PROVE  ConfigInv'
  BY ConfigAssumption
  DEF ConfigInv, ConfigTypeOK, StoreAgrees, Keys, Set, Staged, Loaded

LEMMA ApplyKeeps ==
  ASSUME ConfigInv, Apply
  PROVE  ConfigInv'
  <1> PICK written \in SUBSET Staged : /\ stored' = Saved(written)
                                       /\ Applied(written)
                                       /\ UNCHANGED begun
    BY DEF Apply
  <1>1. ConfigTypeOK /\ StoreAgrees
    BY DEF ConfigInv
  <1>2. /\ stored' \in Keys
        /\ \A f \in Fields \ written : stored'[f] = stored[f]
        /\ \A f \in written : stored'[f] = staged[f] /\ staged[f] # Absent
    BY <1>1, SavedKeeps
  <1>3. CASE written = Staged
    <2>1. /\ active' = [f \in Fields |-> IF f \in Staged THEN staged[f] ELSE active[f]]
          /\ reporting' = IF Status \in Staged THEN staged[Status] ELSE reporting
          /\ staged' = Nowhere
      BY <1>3 DEF Applied
    <2>2. active' \in Keys /\ staged' \in Keys
      BY <1>1, <2>1 DEF ConfigTypeOK, Keys, Nowhere
    <2>3. ASSUME begun, NEW f \in Fields
          PROVE  active'[f] = Loaded(stored')[f]
      <3>1. CASE f \in Staged
        BY <1>2, <1>3, <2>1, <3>1 DEF Loaded
      <3>2. CASE f \notin Staged
        BY <1>1, <1>2, <1>3, <2>1, <2>3, <3>2 DEF Loaded, StoreAgrees
      <3> QED BY <3>1, <3>2
    <2>4. begun => reporting' = active'[Status]
      BY <1>1, <2>1, ConfigAssumption DEF StoreAgrees
    <2> QED
      BY <1>1, <1>2, <2>2, <2>3, <2>4 DEF ConfigInv, ConfigTypeOK, StoreAgrees
  <1>4. CASE written # Staged
    <2>1. UNCHANGED <<active, reporting, staged, begun>>
      BY <1>4 DEF Applied
    <2>2. ASSUME begun, NEW f \in Fields, f \notin Staged
          PROVE  active'[f] = Loaded(stored')[f]
      BY <1>1, <1>2, <2>1, <2>2 DEF Loaded, StoreAgrees
    <2>3. Staged' = Staged
      BY <2>1 DEF Staged
    <2> QED
      BY <1>1, <1>2, <2>1, <2>2, <2>3 DEF ConfigInv, ConfigTypeOK, StoreAgrees
  <1> QED
    BY <1>3, <1>4

\* Before a start nothing is claimed, whatever the keys have become.
LEMMA ResetKeeps ==
  ASSUME ConfigReset, stored' \in Keys
  PROVE  ConfigInv'
  BY DEF ConfigReset, ConfigInv, ConfigTypeOK, StoreAgrees, Keys, Nowhere

LEMMA ConfigNext ==
  ASSUME ConfigInv, [Next]_vars
  PROVE  ConfigInv'
  <1>1. ASSUME UNCHANGED configVars PROVE ConfigInv'
    BY <1>1 DEF configVars, ConfigInv, ConfigTypeOK, StoreAgrees, Loaded, Staged
  <1>2. CASE StartController
    BY <1>1, <1>2, BeginKeeps DEF StartController
  <1>3. CASE SetLine
    BY <1>3, SetKeeps DEF SetLine
  <1>4. CASE ApplyLine
    BY <1>4, ApplyKeeps DEF ApplyLine
  <1>5. CASE RestartInApply
    <2> PICK written \in SUBSET Staged : stored' = Saved(written) /\ ConfigReset
      BY <1>5 DEF RestartInApply, ApplyCutShort
    <2> QED
      BY SavedKeeps, ResetKeeps DEF ConfigInv
  <1>6. CASE Restart \/ PowerCycle
    BY <1>6, ResetKeeps DEF Restart, PowerCycle, ConfigInv, ConfigTypeOK
  <1>7. CASE \/ SessionPass \/ NoSession \/ SessionEnded \/ EndOfInput
             \/ TakeRequest \/ BeginProgramming \/ CheckPass \/ Modules
             \/ ProgramLine \/ CheckLine \/ Tick \/ BytesArrive \/ LinkChanges
             \/ CalmDown \/ UNCHANGED vars
    <2>1. UNCHANGED configVars
      BY <1>7 DEF SessionPass, NoSession, SessionEnded, EndOfInput, TakeRequest,
                  BeginProgramming, CheckPass, Modules, ProgramLine, CheckLine,
                  Tick, BytesArrive, LinkChanges, CalmDown, vars
    <2> QED
      BY <1>1, <2>1
  <1> QED
    BY <1>2, <1>3, <1>4, <1>5, <1>6, <1>7 DEF Next, Pass, Lines

\* What the controller runs is what a reset would give it back, except for
\* fields whose retry the console still holds.
THEOREM StoreIsAgreedWith == Spec => []StoreAgrees
  <1>1. ConfigInv /\ [Next]_vars => ConfigInv'
    BY ConfigNext
  <1>2. ConfigInv => StoreAgrees
    BY DEF ConfigInv
  <1> QED
    BY ConfigInitially, <1>1, <1>2, PTL DEF Spec

-----------------------------------------------------------------------------
(* The session                                                             *)

\* Where the record may be set without a session, and where the request and the
\* queued check are spent: what SessionIsExclusive needs from the rest of a pass.
SessionInv ==
  /\ check \in BOOLEAN /\ queued \in BOOLEAN /\ quiesced \in BOOLEAN
  /\ request \in Requests \union {None}
  /\ session # None => /\ pc = "Top" /\ latch = session /\ quiesced
                       /\ ~check /\ ~queued /\ request = None
  /\ session = None => ~quiesced /\ (latch # None => pc \in {"Ended", "Begin"})
  /\ pc = "Ended" => ~check /\ ~queued /\ request = None
  /\ pc = "Request" => request # None
  /\ pc = "Begin" => latch = request /\ request # None /\ ~queued
  /\ pc \in {"Check", "Modules"} => request = None
  /\ pc = "Modules" => ~check

LEMMA SessionInitially == Init => SessionInv
  BY DEF Init, SessionInv

\* A start leads to the session of the record, or to none.
LEMMA BootKeeps ==
  ASSUME NEW record, Boot(record)
  PROVE  SessionInv'
  BY DEF Boot, BeginSession, SessionInv

LEMMA SessionNext ==
  ASSUME SessionInv, [Next]_vars
  PROVE  SessionInv'
  <1> USE LoopAssumption DEF SessionInv
  <1>1. CASE SessionPass
    BY <1>1 DEF SessionPass, loopVars
  <1>2. CASE NoSession
    BY <1>2 DEF NoSession, loopVars, sessionVars
  <1>3. CASE SessionEnded
    BY <1>3 DEF SessionEnded, sessionVars
  <1>4. CASE StartController
    BY <1>4 DEF StartController, sessionVars
  <1>5. CASE EndOfInput
    BY <1>5 DEF EndOfInput, loopVars, sessionVars
  <1>6. CASE TakeRequest
    BY <1>6 DEF TakeRequest, Taken, sessionVars
  <1>7. CASE BeginProgramming
    BY <1>7 DEF BeginProgramming, BeginSession
  <1>8. CASE CheckPass
    BY <1>8 DEF CheckPass, sessionVars
  <1>9. CASE Modules
    BY <1>9 DEF Modules, loopVars, sessionVars
  <1>10. CASE Lines
    <2>1. /\ pc = "Console" /\ UNCHANGED <<pc, latch, check, session, quiesced>>
          /\ request' \in Requests \union {None} /\ queued' \in BOOLEAN
      BY <1>10 DEF Lines, SetLine, ApplyLine, ProgramLine, CheckLine, Line, sessionVars
    <2> QED
      BY <2>1
  <1>11. CASE Tick \/ BytesArrive \/ LinkChanges \/ CalmDown \/ UNCHANGED vars
    BY <1>11 DEF Tick, BytesArrive, LinkChanges, CalmDown, vars, loopVars, sessionVars
  <1>12. CASE Restart \/ RestartInApply \/ PowerCycle
    BY <1>12, BootKeeps DEF Restart, RestartInApply, PowerCycle
  <1> QED
    BY <1>1, <1>2, <1>3, <1>4, <1>5, <1>6, <1>7, <1>8, <1>9, <1>10, <1>11, <1>12
    DEF Next, Pass

\* The session that owns the bus is the one a restart would find, nothing waits
\* behind it, and the modules are served without any.
THEOREM SessionsAreExclusive == Spec => []SessionIsExclusive
  <1>1. SessionInv /\ [Next]_vars => SessionInv'
    BY SessionNext
  <1>2. SessionInv => SessionIsExclusive
    BY DEF SessionInv, SessionIsExclusive
  <1> QED
    BY SessionInitially, <1>1, <1>2, PTL DEF Spec

-----------------------------------------------------------------------------
(* The end of a session                                                    *)

Timers == [seen : BOOLEAN, timing : BOOLEAN,
           gone : 0..UnplugTimeout, idle : 0..IdleTimeout]

Truths == [byte : 0..IdleTimeout, link : 0..UnplugTimeout, here : BOOLEAN]

TimerTypeOK ==
  /\ timer \in Timers /\ since \in Truths
  /\ plugged \in BOOLEAN /\ bytes \in BOOLEAN /\ noticed \in BOOLEAN

\* What the timer of a session says of the line, between two of its passes.  It
\* runs ahead of the truth in two places only, and a pass resets it in both: when
\* bytes wait, and when the link has come back and no pass has seen it.
TimerAgrees ==
  /\ timer.seen \/ plugged => since.here
  /\ timer.timing => timer.seen /\ (noticed <=> ~plugged)
  /\ ~bytes => timer.idle <= since.byte
  /\ timer.timing /\ ~plugged => timer.gone <= since.link

TimerInv == TimerTypeOK /\ (session # None => TimerAgrees)

LEMMA Ranges ==
  /\ IdleTimeout \in Nat /\ IdleTimeout > 0 /\ 0 \in 0..IdleTimeout
  /\ UnplugTimeout \in Nat /\ UnplugTimeout > 0 /\ 0 \in 0..UnplugTimeout
  BY LoopAssumption

\* What a session starts from, and what is left of one.
LEMMA FreshIsTyped ==
  /\ NoTimer \in Timers /\ NoTruth \in Truths
  /\ \A t \in Timers : Finished(t) \in Timers /\ Rested(t) \in Timers
  <1>1. NoTimer \in Timers
    BY Ranges DEF NoTimer, Timers
  <1>2. NoTruth \in Truths
    BY Ranges DEF NoTruth, Truths
  <1>3. ASSUME NEW t \in Timers PROVE Finished(t) \in Timers
    BY Ranges DEF Finished, NoTimer, Timers
  <1>4. ASSUME NEW t \in Timers PROVE Rested(t) \in Timers
    BY Ranges DEF Rested, Timers
  <1> QED
    BY <1>1, <1>2, <1>3, <1>4

LEMMA TimerInitially == Init => TimerInv
  BY FreshIsTyped DEF Init, TimerInv, TimerTypeOK

\* A session begins with nothing seen and nothing measured.
LEMMA BeginIsFresh ==
  ASSUME TimerInv, NEW r, BeginSession(r), UNCHANGED plugged
  PROVE  TimerInv'
  <1>1. /\ session' = r /\ timer' = NoTimer /\ bytes' = FALSE /\ noticed' = TRUE
        /\ since' = [NoTruth EXCEPT !.here = plugged] /\ plugged' = plugged
    BY DEF BeginSession, FreshTimer
  <1>2. plugged \in BOOLEAN
    BY DEF TimerInv, TimerTypeOK
  <1>3. since' \in Truths /\ since'.here = plugged /\ since'.byte = 0
    BY <1>1, <1>2, Ranges DEF Truths, NoTruth
  <1>4. ~timer'.seen /\ ~timer'.timing /\ timer'.idle = 0
    BY <1>1 DEF NoTimer
  <1>5. TimerTypeOK'
    BY <1>1, <1>2, <1>3, FreshIsTyped DEF TimerTypeOK
  <1>6. TimerAgrees'
    BY <1>1, <1>3, <1>4 DEF TimerAgrees
  <1> QED
    BY <1>5, <1>6 DEF TimerInv

LEMMA BootIsFresh ==
  ASSUME TimerInv, NEW record, Boot(record)
  PROVE  TimerInv'
  <1>1. CASE record # None
    BY <1>1, BeginIsFresh DEF Boot
  <1>2. CASE record = None
    BY <1>2, FreshIsTyped DEF Boot, TimerInv, TimerTypeOK
  <1> QED
    BY <1>1, <1>2

\* A pass believes the link it sees, and keeps only an absence it saw before.
LEMMA WatchedAgrees ==
  ASSUME TimerInv, session # None
  PROVE  /\ Watched \in Timers
         /\ Watched.seen => since.here
         /\ Watched.timing => Watched.seen /\ ~plugged
         /\ Watched.idle = timer.idle
         /\ Watched.gone <= since.link
  <1>1. TimerTypeOK /\ TimerAgrees
    BY DEF TimerInv
  <1>2. /\ Watched \in Timers
        /\ Watched.seen = (timer.seen \/ plugged)
        /\ Watched.timing = (~plugged /\ timer.seen)
        /\ Watched.gone = IF timer.timing /\ ~plugged THEN timer.gone ELSE 0
        /\ Watched.idle = timer.idle
    BY <1>1, Ranges DEF Watched, TimerTypeOK, Timers
  <1>3. since.link \in 0..UnplugTimeout
    BY <1>1 DEF TimerTypeOK, Truths
  <1>4. Watched.gone <= since.link
    BY <1>1, <1>2, <1>3, Ranges DEF TimerAgrees
  <1>5. Watched.seen => since.here
    BY <1>1, <1>2 DEF TimerAgrees
  <1> QED
    BY <1>2, <1>4, <1>5

LEMMA SessionPassKeeps ==
  ASSUME TimerInv, SessionPass
  PROVE  TimerInv'
  <1> DEFINE w == Watched
  <1>1. session # None
    BY DEF SessionPass
  <1>2. /\ w \in Timers
        /\ w.seen => since.here
        /\ w.timing => w.seen /\ ~plugged
        /\ w.idle = timer.idle
        /\ w.gone <= since.link
    BY <1>1, WatchedAgrees
  <1>3. /\ plugged' = plugged /\ bytes' = FALSE /\ noticed' = TRUE
        /\ \/ session' = None /\ timer' = Finished(w) /\ since' = NoTruth
           \/ session' = session /\ timer' = Rested(w) /\ since' = since
    BY DEF SessionPass
  <1> HIDE DEF w
  <1>4. CASE session' = None /\ timer' = Finished(w) /\ since' = NoTruth
    BY <1>2, <1>3, <1>4, FreshIsTyped DEF TimerInv, TimerTypeOK
  <1>5. CASE session' = session /\ timer' = Rested(w) /\ since' = since
    <2>1. TimerTypeOK /\ TimerAgrees
      BY <1>1 DEF TimerInv
    <2>2. /\ timer'.seen = w.seen /\ timer'.timing = w.timing /\ timer'.gone = w.gone
          /\ timer'.idle = IF bytes THEN 0 ELSE w.idle
      BY <1>2, <1>5 DEF Rested, Timers
    <2>3. timer'.idle <= since'.byte
      BY <1>2, <1>5, <2>1, <2>2 DEF TimerTypeOK, TimerAgrees, Truths
    <2>4. TimerTypeOK'
      BY <1>2, <1>3, <1>5, <2>1, FreshIsTyped DEF TimerTypeOK
    <2>5. TimerAgrees'
      BY <1>2, <1>3, <1>5, <2>1, <2>2, <2>3 DEF TimerAgrees
    <2> QED
      BY <2>4, <2>5 DEF TimerInv
  <1> QED
    BY <1>3, <1>4, <1>5

LEMMA TickKeeps ==
  ASSUME TimerInv, Tick
  PROVE  TimerInv'
  <1>1. \A n \in 0..IdleTimeout : /\ UpTo(IdleTimeout, n) \in 0..IdleTimeout
                                 /\ \A m \in 0..n : UpTo(IdleTimeout, m) <= UpTo(IdleTimeout, n)
    BY LoopAssumption DEF UpTo
  <1>2. \A n \in 0..UnplugTimeout : /\ UpTo(UnplugTimeout, n) \in 0..UnplugTimeout
                                   /\ \A m \in 0..n : UpTo(UnplugTimeout, m) <= UpTo(UnplugTimeout, n)
    BY LoopAssumption DEF UpTo
  <1>3. /\ timer'.seen = timer.seen /\ timer'.timing = timer.timing
        /\ timer'.idle = UpTo(IdleTimeout, timer.idle)
        /\ timer'.gone = IF timer.timing THEN UpTo(UnplugTimeout, timer.gone) ELSE timer.gone
        /\ timer' \in Timers
    BY <1>1, <1>2 DEF Tick, TimerInv, TimerTypeOK, Timers, Truths
  <1>4. /\ since'.byte = UpTo(IdleTimeout, since.byte)
        /\ since'.link = UpTo(UnplugTimeout, since.link)
        /\ since'.here = since.here
        /\ since' \in Truths
    BY <1>1, <1>2 DEF Tick, TimerInv, TimerTypeOK, Timers, Truths
  <1>5. UNCHANGED <<session, plugged, bytes, noticed>> /\ session # None
    BY DEF Tick
  <1>6. TimerTypeOK /\ TimerAgrees
    BY <1>5 DEF TimerInv
  <1>7. timer.idle <= since.byte => timer'.idle <= since'.byte
    BY <1>1, <1>3, <1>4, <1>6 DEF TimerTypeOK, Timers, Truths
  <1>8. timer.timing /\ timer.gone <= since.link => timer'.gone <= since'.link
    BY <1>2, <1>3, <1>4, <1>6 DEF TimerTypeOK, Timers, Truths
  <1> QED
    BY <1>3, <1>4, <1>5, <1>6, <1>7, <1>8 DEF TimerInv, TimerTypeOK, TimerAgrees

LEMMA TimerNext ==
  ASSUME TimerInv, [Next]_vars
  PROVE  TimerInv'
  <1>1. CASE SessionPass
    BY <1>1, SessionPassKeeps
  <1>2. CASE Tick
    BY <1>2, TickKeeps
  <1>3. CASE BeginProgramming
    BY <1>3, BeginIsFresh DEF BeginProgramming
  <1>4. CASE Restart \/ RestartInApply \/ PowerCycle
    BY <1>4, BootIsFresh DEF Restart, RestartInApply, PowerCycle
  <1>5. CASE BytesArrive
    <2>1. /\ bytes' = TRUE /\ since' = [since EXCEPT !.byte = 0]
          /\ UNCHANGED <<session, timer, plugged, noticed>>
      BY <1>5 DEF BytesArrive, sessionVars
    <2>2. since \in Truths
      BY DEF TimerInv, TimerTypeOK
    <2>3. since' \in Truths /\ since'.here = since.here /\ since'.link = since.link
      BY <2>1, <2>2, Ranges DEF Truths
    <2> QED
      BY <2>1, <2>3 DEF TimerInv, TimerTypeOK, TimerAgrees
  <1>6. CASE LinkChanges
    <2>1. /\ plugged' = ~plugged /\ noticed /\ noticed' = (session = None)
          /\ UNCHANGED <<session, timer, bytes>>
      BY <1>6 DEF LinkChanges, sessionVars
    <2>2. TimerTypeOK
      BY DEF TimerInv
    <2>3. CASE session = None
      <3>1. since' = since
        BY <1>6, <2>3 DEF LinkChanges
      <3> QED
        BY <2>1, <2>2, <2>3, <3>1 DEF TimerInv, TimerTypeOK
    <2>4. CASE session # None
      <3>1. since' = [since EXCEPT !.link = 0, !.here = @ \/ ~plugged]
        BY <1>6, <2>4 DEF LinkChanges
      <3>2. since' \in Truths /\ since'.here = (since.here \/ ~plugged)
            /\ since'.byte = since.byte /\ since'.link = 0
        BY <2>2, <3>1, Ranges DEF TimerTypeOK, Truths
      <3>3. TimerAgrees
        BY <2>4 DEF TimerInv
      <3>4. timer.timing => ~plugged
        BY <2>1, <3>3 DEF TimerAgrees
      <3>5. TimerTypeOK'
        BY <2>1, <2>2, <3>2 DEF TimerTypeOK
      <3>6. TimerAgrees'
        BY <2>1, <2>4, <3>2, <3>3, <3>4 DEF TimerAgrees
      <3> QED
        BY <3>5, <3>6 DEF TimerInv
    <2> QED
      BY <2>3, <2>4
  <1>7. CASE \/ NoSession \/ SessionEnded \/ StartController \/ EndOfInput
             \/ TakeRequest \/ CheckPass \/ Modules \/ Lines \/ CalmDown
             \/ UNCHANGED vars
    <2>1. UNCHANGED <<sessionVars, linkVars>>
      BY <1>7 DEF NoSession, SessionEnded, StartController, EndOfInput, TakeRequest,
                  CheckPass, Modules, Lines, SetLine, ApplyLine, ProgramLine,
                  CheckLine, Line, CalmDown, vars
    <2> QED
      BY <2>1 DEF sessionVars, linkVars, TimerInv, TimerTypeOK, TimerAgrees
  <1> QED
    BY <1>1, <1>2, <1>3, <1>4, <1>5, <1>6, <1>7 DEF Next, Pass

\* Only a pass of the session ends it, and what it measured has passed.
LEMMA EndIsSilent ==
  ASSUME SessionInv, TimerInv, [Next]_vars, session # None, pc' = "Ended"
  PROVE  \/ since.byte >= IdleTimeout
         \/ since.here /\ ~plugged /\ since.link >= UnplugTimeout
  <1> DEFINE w == Watched
  <1>1. pc = "Top"
    BY DEF SessionInv
  <1>2. SessionPass
    BY <1>1 DEF Next, Pass, NoSession, SessionEnded, StartController, EndOfInput,
      TakeRequest, BeginProgramming, CheckPass, Modules, Lines, SetLine, ApplyLine,
      ProgramLine, CheckLine, Line, Tick, BytesArrive, LinkChanges, Restart,
      RestartInApply, PowerCycle, Boot, CalmDown, vars
  <1>3. /\ w \in Timers
        /\ w.seen => since.here
        /\ w.timing => w.seen /\ ~plugged
        /\ w.idle = timer.idle
        /\ w.gone <= since.link
    BY WatchedAgrees
  <1>4. Unplugged(w) \/ Rested(w).idle >= IdleTimeout
    BY <1>1, <1>2 DEF SessionPass
  <1>5. TimerTypeOK /\ TimerAgrees
    BY DEF TimerInv
  <1> HIDE DEF w
  <1>6. CASE Unplugged(w)
    BY <1>3, <1>5, <1>6, Ranges DEF Unplugged, TimerTypeOK, Timers, Truths
  <1>7. CASE Rested(w).idle >= IdleTimeout
    <2>1. Rested(w).idle = IF bytes THEN 0 ELSE timer.idle
      BY <1>3 DEF Rested, Timers
    <2> QED
      BY <1>5, <1>7, <2>1, Ranges DEF TimerTypeOK, TimerAgrees, Timers, Truths
  <1> QED
    BY <1>4, <1>6, <1>7

\* A session ends only when no byte has come for the idle time, or when the link
\* it has had has been gone for the unplug time.
THEOREM SessionsEndInSilence == Spec => EndsOnlyInSilence
  <1>1. TimerInv /\ [Next]_vars => TimerInv'
    BY TimerNext
  <1>2. SessionInv /\ [Next]_vars => SessionInv'
    BY SessionNext
  <1>3. SessionInv /\ TimerInv /\ [Next]_vars
          => [session # None /\ pc' = "Ended" =>
                \/ since.byte >= IdleTimeout
                \/ since.here /\ ~plugged /\ since.link >= UnplugTimeout]_vars
    BY EndIsSilent
  <1> QED
    BY SessionInitially, TimerInitially, <1>1, <1>2, <1>3, PTL
    DEF Spec, EndsOnlyInSilence

-----------------------------------------------------------------------------
(* Induction.  A pass of a programmer reads the bytes one after the other; *)
(* what holds after each of them is proved along their number.             *)

Less == {pair \in Nat \X Nat : pair[1] < pair[2]}

LEMMA LessIsWellFounded == IsWellFoundedOn(Less, Nat)
  BY NatLessThanWellFounded, Zenon DEF OpToRel, Less

LEMMA LeastOfASet ==
  ASSUME NEW S \in SUBSET Nat, S # {}
  PROVE  \E least \in S : \A n \in S : ~(n < least)
  <1>1. \E least \in S : \A n \in S : <<n, least>> \notin Less
    BY LessIsWellFounded, WFMin
  <1> QED
    BY <1>1 DEF Less

LEMMA InductionOnSets ==
  ASSUME NEW S \in SUBSET Nat, 0 \in S, \A n \in S : n + 1 \in S
  PROVE  S = Nat
  <1>1. SUFFICES ASSUME Nat \ S # {} PROVE FALSE
    OBVIOUS
  <1>2. PICK least \in Nat \ S : \A n \in Nat \ S : ~(n < least)
    BY <1>1, LeastOfASet
  <1>3. least - 1 \in Nat /\ least - 1 \notin Nat \ S
    BY <1>2
  <1> QED
    BY <1>2, <1>3

-----------------------------------------------------------------------------
(* The ISP programmer: reset is low only with SPI on, and only then a       *)
(* further try of programming enable is waited for.                        *)

IspFields ==
  {"phase", "cmd", "fixed", "header", "page", "oversize", "left", "after", "spi",
   "reset", "programming", "address", "pageSize", "eepromNext", "attempts", "out",
   "board"}

IspPhases ==
  {"Command", "UnknownEop", "Fixed", "PageHeader", "PageBody", "Discard", "Eop"}

IspWaits == {"None", "ProgrammingEnable", "ReplyOk", "ReplyEraseByte", "EepromNext"}

IspForm(s) ==
  /\ DOMAIN s = IspFields /\ s = [f \in IspFields |-> s[f]]
  /\ s.phase \in IspPhases /\ s.after \in IspWaits /\ s.spi \in BOOLEAN
  /\ s.reset = "Low" \/ s.after = "ProgrammingEnable" => s.spi

LEMMA IspStarts ==
  ASSUME NEW board
  PROVE  /\ IspForm(I!Programmer(board))
         /\ ~I!Programmer(board).spi /\ I!Programmer(board).reset = "Pullup"
         /\ I!Programmer(board).after = "None"
  BY DEF I!Programmer, IspForm, IspFields, IspPhases, IspWaits

\* What the answers and waits are made of.
LEMMA IspParts ==
  ASSUME NEW s, IspForm(s)
  PROVE  /\ IspForm(I!Idle(s)) /\ I!Idle(s).spi = s.spi
         /\ I!Idle(s).reset = s.reset /\ I!Idle(s).after = s.after
         /\ \A answer : IspForm(I!Write(s, answer))
         /\ \A instr, address, data : IspForm(I!Transfer4(s, instr, address, data))
         /\ \A next \in IspWaits :
              (next = "ProgrammingEnable" => s.spi) => IspForm(I!Defer(s, next))
         /\ \A level \in {"Low", "High", "Pullup"} :
              /\ (level = "Low" => s.spi) => IspForm(I!DriveReset(s, level))
              /\ I!DriveReset(s, level).spi = s.spi
              /\ I!DriveReset(s, level).reset = level
              /\ I!DriveReset(s, level).after = s.after
  <1>1. /\ IspForm(I!Idle(s)) /\ I!Idle(s).spi = s.spi
        /\ I!Idle(s).reset = s.reset /\ I!Idle(s).after = s.after
    BY DEF I!Idle, IspForm, IspFields, IspPhases
  <1>2. \A answer : IspForm(I!Write(s, answer))
    BY DEF I!Write, IspForm, IspFields
  <1>3. \A instr, address, data : IspForm(I!Transfer4(s, instr, address, data))
    BY DEF I!Transfer4, IspForm, IspFields
  <1>4. \A next \in IspWaits :
          (next = "ProgrammingEnable" => s.spi) => IspForm(I!Defer(s, next))
    BY DEF I!Defer, IspForm, IspFields
  <1>5. ASSUME NEW level \in {"Low", "High", "Pullup"}
        PROVE  /\ (level = "Low" => s.spi) => IspForm(I!DriveReset(s, level))
               /\ I!DriveReset(s, level).spi = s.spi
               /\ I!DriveReset(s, level).reset = level
               /\ I!DriveReset(s, level).after = s.after
    BY DEF I!DriveReset, IspForm, IspFields
  <1> QED
    BY <1>1, <1>2, <1>3, <1>4, <1>5

-----------------------------------------------------------------------------
(* The port holds a sequence of bytes, whatever the host sends and wherever *)
(* it is cut.                                                              *)

IsSequence(q) == Len(q) \in Nat /\ q \in [1..Len(q) -> {q[k] : k \in 1..Len(q)}]

LEMMA SequenceForm ==
  /\ \A X : \A q \in Seq(X) : IsSequence(q)
  /\ \A q : IsSequence(q) => q \in Seq({q[k] : k \in 1..Len(q)})
  BY DEF IsSequence

LEMMA SequenceParts ==
  /\ IsSequence(<<>>)
  /\ \A q, x : IsSequence(q) => IsSequence(Append(q, x))
  /\ \A p, q : IsSequence(p) /\ IsSequence(q) => IsSequence(p \o q)
  /\ \A q, n : IsSequence(q) /\ n \in Int /\ n <= Len(q) => IsSequence(SubSeq(q, 1, n))
  <1>1. IsSequence(<<>>)
    BY DEF IsSequence
  <1>2. ASSUME NEW q, NEW x, IsSequence(q) PROVE IsSequence(Append(q, x))
    <2>1. PICK X : q \in Seq(X)
      BY <1>2, SequenceForm
    <2>2. Append(q, x) \in Seq(X \union {x})
      <3>1. q \in Seq(X \union {x})
        BY <2>1
      <3> QED
        BY <3>1
    <2> QED
      BY <2>2, SequenceForm
  <1>3. ASSUME NEW p, NEW q, IsSequence(p), IsSequence(q) PROVE IsSequence(p \o q)
    <2>1. PICK X : p \in Seq(X)
      BY <1>3, SequenceForm
    <2>2. PICK Y : q \in Seq(Y)
      BY <1>3, SequenceForm
    <2>3. p \in Seq(X \union Y) /\ q \in Seq(X \union Y)
      BY <2>1, <2>2
    <2>4. p \o q \in Seq(X \union Y)
      BY <2>3
    <2> QED
      BY <2>4, SequenceForm
  <1>4. ASSUME NEW q, NEW n \in Int, IsSequence(q), n <= Len(q)
        PROVE  IsSequence(SubSeq(q, 1, n))
    <2>1. PICK X : q \in Seq(X)
      BY <1>4, SequenceForm
    <2>2. \A k \in 1..n : q[k] \in X
      BY <1>4, <2>1
    <2>3. SubSeq(q, 1, n) \in Seq(X)
      BY <2>2, SubSeqProperties
    <2> QED
      BY <2>3, SequenceForm
  <1> QED
    BY <1>1, <1>2, <1>3, <1>4

LEMMA TuplesAreSequences ==
  /\ \A a : IsSequence(<<a>>)
  /\ \A a, b : IsSequence(<<a, b>>)
  /\ \A a, b, c : IsSequence(<<a, b, c>>)
  /\ \A a, b, c, d : IsSequence(<<a, b, c, d>>)
  /\ \A a, b, c, d, e : IsSequence(<<a, b, c, d, e>>)
  <1>1. \A a : <<a>> \in Seq({a})
    OBVIOUS
  <1>2. \A a, b : <<a, b>> \in Seq({a, b})
    OBVIOUS
  <1>3. \A a, b, c : <<a, b, c>> \in Seq({a, b, c})
    OBVIOUS
  <1>4. \A a, b, c, d : <<a, b, c, d>> \in Seq({a, b, c, d})
    OBVIOUS
  <1>5. \A a, b, c, d, e : <<a, b, c, d, e>> \in Seq({a, b, c, d, e})
    OBVIOUS
  <1> QED
    BY <1>1, <1>2, <1>3, <1>4, <1>5, SequenceForm

LEMMA FramesAreSequences ==
  ASSUME NEW op \in IF programmer = "Isp" THEN IspOps ELSE UpdiOps
  PROVE  IsSequence(Frame(op))
  <1> USE HostAssumption
  <1>1. op.n \in Nat
    OBVIOUS
  <1>2. IsSequence(Data(op))
    <2> DEFINE n == op.n
               X == {Image[op.at + i - 1] : i \in 1..n}
    <2>1. Data(op) = [i \in 1..n |-> Image[op.at + i - 1]] /\ n \in Nat
      BY <1>1 DEF Data
    <2> HIDE DEF n
    <2>2. Data(op) \in [1..n -> X] /\ n \in Nat
      BY <2>1
    <2> HIDE DEF X
    <2>3. Data(op) \in Seq(X)
      BY <2>2
    <2> QED
      BY <2>3, SequenceForm
  <1>3. CASE programmer = "Isp"
    <2>1. op.kind \in IspKinds
      BY <1>3
    <2>2. IsSequence([i \in 1..(MaxPage + 1) |-> I!Eop])
      <3> DEFINE m == MaxPage + 1
      <3>1. m \in Nat
        OBVIOUS
      <3> HIDE DEF m
      <3>2. [i \in 1..m |-> I!Eop] \in Seq({I!Eop})
        BY <3>1
      <3>3. IsSequence([i \in 1..m |-> I!Eop])
        BY <3>2, SequenceForm
      <3> QED
        BY <3>3 DEF m
    <2>3. \A p : IsSequence(p) =>
                 /\ \A a : IsSequence(p \o <<a>>)
                 /\ \A a, b, c : IsSequence(p \o <<a, b, c>>)
                 /\ \A a, b, c, d : IsSequence(p \o <<a, b, c, d>>)
      BY SequenceParts, TuplesAreSequences
    <2>4. IsSequence(<<I!ProgPage, MaxPage + 1, I!MemFlash>> \o
                     [i \in 1..(MaxPage + 1) |-> I!Eop] \o <<I!Eop>>)
      BY <2>2, <2>3, SequenceParts, TuplesAreSequences
    <2>5. \A p : IsSequence(p) => IsSequence(p \o Data(op) \o <<I!Eop>>)
      BY <1>2, <2>3, SequenceParts
    <2>6. IsSequence(IspFrame(op))
      BY <2>1, <2>3, <2>4, <2>5, TuplesAreSequences DEF IspFrame, IspKinds
    <2> QED
      BY <1>3, <2>6 DEF Frame
  <1>4. CASE programmer # "Isp"
    <2>1. op.kind \in UpdiKinds
      BY <1>4
    <2>2. \A a, b, c, d : IsSequence(<<a, b, c, d>> \o Data(op))
      BY <1>2, SequenceParts, TuplesAreSequences
    <2>3. IsSequence(UpdiBody(op))
      BY <2>1, <2>2, TuplesAreSequences DEF UpdiBody, UpdiKinds
    <2>4. \A body : IsSequence(body) => IsSequence(U!Frame(host.seq, body))
      BY SequenceParts, TuplesAreSequences DEF U!Frame
    <2> QED
      BY <1>4, <2>3, <2>4 DEF Frame
  <1> QED
    BY <1>3, <1>4

LEMMA IspReplies ==
  ASSUME NEW s, IspForm(s)
  PROVE  /\ IspForm(I!ReplyOk(s)) /\ IspForm(I!ReplyFailed(s))
         /\ IspForm(I!ReplyNosync(s)) /\ IspForm(I!Tell(s))
         /\ \A answer : IspForm(I!Idle(I!Write(s, answer)))
  BY IspParts DEF I!ReplyOk, I!ReplyFailed, I!ReplyNosync, I!Tell

LEMMA IspEnters ==
  ASSUME NEW s, IspForm(s)
  PROVE  IspForm(I!BeginProgramming(s))
  <1> DEFINE on == [s EXCEPT !.spi = TRUE]
             low == I!DriveReset(on, "Low")
  <1>1. IspForm(on) /\ on.spi
    BY DEF IspForm, IspFields
  <1> HIDE DEF on
  <1>2. IspForm(low) /\ low.spi
    BY <1>1, IspParts
  <1> HIDE DEF low
  <1>3. IspForm([low EXCEPT !.attempts = 0]) /\ [low EXCEPT !.attempts = 0].spi
    BY <1>2 DEF IspForm, IspFields
  <1>4. IspForm(I!Defer([low EXCEPT !.attempts = 0], "ProgrammingEnable"))
    BY <1>3, IspParts DEF IspWaits
  <1> QED
    BY <1>4, IspReplies DEF I!BeginProgramming, low, on

\* Every try of programming enable is made with SPI on.
LEMMA IspTries ==
  ASSUME NEW s, IspForm(s), s.spi, NEW hears
  PROVE  IspForm(I!TryProgrammingEnable(s, hears))
  <1> DEFINE high == I!DriveReset(s, "High")
             missed == [high EXCEPT !.attempts = @ + 1]
             entered == [s EXCEPT !.programming = TRUE, !.board.enabled = TRUE]
             failed == [missed EXCEPT !.programming = FALSE]
  <1>1. IspForm(high) /\ high.spi
    BY IspParts
  <1> HIDE DEF high
  <1>2. IspForm(missed) /\ missed.spi
    BY <1>1 DEF IspForm, IspFields
  <1> HIDE DEF missed
  <1>3. IspForm(failed)
    BY <1>2 DEF IspForm, IspFields
  <1>4. IspForm(entered)
    BY DEF IspForm, IspFields
  <1> HIDE DEF failed, entered
  <1>5. IspForm(I!DriveReset(missed, "Low")) /\ I!DriveReset(missed, "Low").spi
    BY <1>2, IspParts
  <1>6. IspForm(I!Defer(I!DriveReset(missed, "Low"), "ProgrammingEnable"))
    BY <1>5, IspParts DEF IspWaits
  <1>7. IspForm(I!ReplyOk(entered)) /\ IspForm(I!ReplyFailed(failed))
    BY <1>3, <1>4, IspReplies
  <1> QED
    BY <1>6, <1>7 DEF I!TryProgrammingEnable, high, missed, entered, failed

LEMMA IspLeaves ==
  ASSUME NEW s, IspForm(s), s.after = "None"
  PROVE  IspForm(I!LeaveProgramming(s))
  <1> DEFINE off == [s EXCEPT !.spi = FALSE]
             high == I!DriveReset(off, "High")
  <1>1. high = [s EXCEPT !.spi = FALSE, !.reset = "High",
                         !.board = [@ EXCEPT !.enabled = @ /\ FALSE]]
    BY DEF I!DriveReset, IspForm, IspFields
  <1>2. IspForm([high EXCEPT !.programming = FALSE])
    BY <1>1, ZenonT(30) DEF IspForm, IspFields
  <1> QED
    BY <1>2, IspReplies DEF I!LeaveProgramming

LEMMA IspPrograms ==
  ASSUME NEW s, IspForm(s)
  PROVE  /\ IspForm(I!ProgramFlash(s)) /\ IspForm(I!ProgramEeprom(s))
         /\ IspForm(I!ProgramNextEepromByte(s)) /\ IspForm(I!ReadCells(s))
         /\ IspForm(I!RunUniversal(s))
  <1>1. IspForm(I!LoadPage(s))
    BY DEF I!LoadPage, IspForm, IspFields
  <1>2. IspForm(I!ProgramFlash(s))
    BY <1>1, IspParts DEF I!ProgramFlash, IspWaits
  <1>3. ASSUME NEW t, IspForm(t) PROVE IspForm(I!ProgramNextEepromByte(t))
    <2> DEFINE sent == I!Transfer4(t, I!InstrWriteEeprom, 2 * t.address + t.eepromNext,
                                   t.page[t.eepromNext + 1])
    <2>1. IspForm(sent)
      BY <1>3, IspParts
    <2> HIDE DEF sent
    <2>2. IspForm([sent EXCEPT !.eepromNext = @ + 1])
      BY <2>1 DEF IspForm, IspFields
    <2>3. IspForm(I!Defer([sent EXCEPT !.eepromNext = @ + 1], "EepromNext"))
      BY <2>2, IspParts DEF IspWaits
    <2> QED
      BY <1>3, <2>3, IspReplies DEF I!ProgramNextEepromByte, sent
  <1>4. IspForm([s EXCEPT !.eepromNext = 0])
    BY DEF IspForm, IspFields
  <1>5. IspForm(I!ProgramEeprom(s))
    BY <1>3, <1>4 DEF I!ProgramEeprom
  <1>6. ASSUME NEW answer, NEW next
        PROVE  IspForm(I!Idle([I!Write(s, answer) EXCEPT !.address = next]))
    <2>1. IspForm(I!Write(s, answer))
      BY IspParts
    <2>2. IspForm([I!Write(s, answer) EXCEPT !.address = next])
      BY <2>1 DEF IspForm, IspFields
    <2> QED
      BY <2>2, IspParts
  <1>7. IspForm(I!ReadCells(s))
    <2> DEFINE InFlash(i) ==
                 IF i % 2 = 1
                   THEN I!Shifted(s.board, I!InstrReadLow, s.address + (i - 1) \div 2)
                   ELSE I!Shifted(s.board, I!InstrReadHigh, s.address + (i - 1) \div 2)
               InEeprom(i) ==
                 I!Shifted(s.board, I!InstrReadEeprom, 2 * s.address + i - 1)
               cells == [i \in 1..I!PageLen(s) |->
                           IF I!MemType(s) = I!MemFlash THEN InFlash(i) ELSE InEeprom(i)]
               next == IF I!MemType(s) = I!MemFlash
                         THEN (s.address + I!PageLen(s) \div 2) % 65536 ELSE s.address
               answer == <<I!Insync>> \o cells \o <<I!Ok>>
    <2>1. I!ReadCells(s) = I!Idle([I!Write(s, answer) EXCEPT !.address = next])
      BY DEF I!ReadCells
    <2> HIDE DEF answer, next
    <2> QED
      BY <1>6, <2>1
  <1>8. IspForm(I!RunUniversal(s))
    BY IspParts, IspReplies DEF I!RunUniversal, IspWaits
  <1> QED
    BY <1>2, <1>3, <1>5, <1>7, <1>8

\* A command that is complete, with nothing waited for.
LEMMA IspDispatches ==
  ASSUME NEW s, IspForm(s), s.after = "None"
  PROVE  IspForm(I!DispatchFixed(s)) /\ IspForm(I!DispatchPage(s))
  <1>1. /\ \A n : IspForm([s EXCEPT !.pageSize = n])
        /\ \A n : IspForm([s EXCEPT !.address = n])
    BY DEF IspForm, IspFields
  <1>2. IspForm(I!Defer(I!Transfer4(s, I!InstrErase, 128, I!Filler), "ReplyOk"))
    BY IspParts DEF IspWaits
  <1>3. IspForm(I!Idle(I!Tell(s)))
    BY IspParts, IspReplies
  <1>4. IspForm(I!DispatchFixed(s))
    BY <1>1, <1>2, <1>3, IspReplies, IspEnters, IspLeaves, IspPrograms
    DEF I!DispatchFixed
  <1>5. IspForm(I!DispatchPage(s))
    BY IspReplies, IspPrograms DEF I!DispatchPage
  <1> QED
    BY <1>4, <1>5

\* One byte of the stream, read while nothing is waited for.
LEMMA IspAccepts ==
  ASSUME NEW s, IspForm(s), s.after = "None", NEW byte
  PROVE  IspForm(I!Accept(s, byte))
  <1>1. IspForm(I!TakeCommand(s, byte))
    <2>1. /\ \A c : IspForm([s EXCEPT !.cmd = c, !.phase = "PageHeader"])
          /\ \A c : IspForm([s EXCEPT !.cmd = c, !.phase = "Fixed"])
          /\ IspForm([s EXCEPT !.phase = "UnknownEop"])
      BY ZenonT(30) DEF IspForm, IspFields, IspPhases
    <2> QED
      BY <2>1, IspReplies DEF I!TakeCommand
  <1>2. IspForm(I!TakeFixed(s, byte))
    <2> DEFINE taken == [s EXCEPT !.fixed = Append(@, byte)]
    <2>1. IspForm(taken) /\ taken.after = "None"
      BY DEF IspForm, IspFields
    <2> HIDE DEF taken
    <2>2. IspForm([taken EXCEPT !.phase = "Command"])
          /\ [taken EXCEPT !.phase = "Command"].after = "None"
      BY <2>1 DEF IspForm, IspFields, IspPhases
    <2>3. IspForm(I!DispatchFixed([taken EXCEPT !.phase = "Command"]))
      BY <2>2, IspDispatches
    <2> QED
      BY <2>1, <2>3, IspReplies DEF I!TakeFixed, taken
  <1>3. IspForm(I!TakeHeader(s, byte))
    <2> DEFINE taken == [s EXCEPT !.header = Append(@, byte)]
    <2>1. IspForm(taken)
      BY DEF IspForm, IspFields
    <2> HIDE DEF taken
    <2>2. /\ IspForm([taken EXCEPT !.oversize = TRUE, !.phase = "Eop"])
          /\ \A n : IspForm([taken EXCEPT !.oversize = TRUE, !.phase = "Discard", !.left = n])
          /\ IspForm([taken EXCEPT !.phase = "Eop"])
          /\ IspForm([taken EXCEPT !.phase = "PageBody"])
      BY <2>1, ZenonT(30) DEF IspForm, IspFields, IspPhases
    <2> QED
      BY <2>1, <2>2 DEF I!TakeHeader, taken
  <1>4. IspForm(I!TakeBody(s, byte))
    <2> DEFINE taken == [s EXCEPT !.page = Append(@, byte)]
    <2>1. IspForm(taken)
      BY DEF IspForm, IspFields
    <2> HIDE DEF taken
    <2>2. IspForm([taken EXCEPT !.phase = "Eop"])
      BY <2>1 DEF IspForm, IspFields, IspPhases
    <2> QED
      BY <2>1, <2>2 DEF I!TakeBody, taken
  <1>5. IspForm(I!Discard(s))
    BY DEF I!Discard, IspForm, IspFields, IspPhases
  <1>6. IspForm(I!DispatchPage([s EXCEPT !.phase = "Command"]))
    <2>1. IspForm([s EXCEPT !.phase = "Command"])
          /\ [s EXCEPT !.phase = "Command"].after = "None"
      BY DEF IspForm, IspFields, IspPhases
    <2> QED
      BY <2>1, IspDispatches
  <1>7. s.phase \in IspPhases
    BY DEF IspForm
  <1> QED
    BY <1>1, <1>2, <1>3, <1>4, <1>5, <1>6, <1>7, IspReplies DEF I!Accept, IspPhases

LEMMA IspContinues ==
  ASSUME NEW s, IspForm(s), NEW hears
  PROVE  IspForm(I!Continue(s, hears))
  <1> DEFINE woken == [s EXCEPT !.after = "None"]
  <1>1. IspForm(woken) /\ woken.spi = s.spi
    BY DEF IspForm, IspFields, IspWaits
  <1>2. s.after = "ProgrammingEnable" => s.spi
    BY DEF IspForm
  <1> HIDE DEF woken
  <1>3. s.after = "ProgrammingEnable" => IspForm(I!TryProgrammingEnable(woken, hears))
    BY <1>1, <1>2, IspTries
  <1>4. s.after \in IspWaits
    BY DEF IspForm
  <1>5. IspForm(I!ProgramNextEepromByte(woken))
    BY <1>1, IspPrograms
  <1> QED
    BY <1>1, <1>3, <1>4, <1>5, IspReplies DEF I!Continue, IspWaits, woken

\* What has become of the programmer and of the bytes it has not taken.
IspRead(a) ==
  DOMAIN a = {"s", "rest"} /\ IspForm(a.s) /\ IsSequence(a.rest)

LEMMA IspReadsAByte ==
  ASSUME NEW a, IspRead(a), NEW byte
  PROVE  IspRead(I!ReadByte(a, byte))
  <1>1. CASE I!Waiting(a.s)
    BY <1>1, SequenceParts DEF I!ReadByte, IspRead
  <1>2. CASE ~I!Waiting(a.s)
    <2>1. IspForm(I!Accept(a.s, byte))
      BY <1>2, IspAccepts DEF I!Waiting, IspRead
    <2> QED
      BY <1>2, <2>1 DEF I!ReadByte, IspRead
  <1> QED
    BY <1>1, <1>2

\* A recursive definition along the port has a value: the results of the bytes
\* read so far are extended by the next.
IspReads(read, first, stream, n) ==
  read = [k \in 0..n |-> IF k = 0 THEN first
                         ELSE I!ReadByte(read[k - 1], stream[k])]

LEMMA IspReadingExists ==
  ASSUME NEW first, NEW stream
  PROVE  \A n \in Nat : \E read : IspReads(read, first, stream, n)
  <1> DEFINE Reads(read, n) ==
               read = [k \in 0..n |-> IF k = 0 THEN first
                                      ELSE I!ReadByte(read[k - 1], stream[k])]
             S == {n \in Nat : \E read : Reads(read, n)}
  <1>1. 0 \in S
    <2>1. Reads([k \in 0..0 |-> first], 0)
      OBVIOUS
    <2> QED
      BY <2>1
  <1>2. ASSUME NEW n \in S PROVE n + 1 \in S
    <2>1. PICK read : Reads(read, n)
      OBVIOUS
    <2>2. n \in Nat
      OBVIOUS
    <2> DEFINE longer == [k \in 0..(n + 1) |-> IF k = n + 1 THEN I!ReadByte(read[n], stream[n + 1])
                                               ELSE read[k]]
    <2>3. ASSUME NEW k \in 0..(n + 1)
          PROVE  longer[k] = IF k = 0 THEN first ELSE I!ReadByte(longer[k - 1], stream[k])
      <3>1. CASE k = n + 1
        BY <2>2, <3>1
      <3>2. CASE k = 0
        BY <2>1, <2>2, <3>2
      <3>3. CASE k \in 1..n
        <4>1. longer[k] = read[k] /\ longer[k - 1] = read[k - 1]
          BY <2>2, <3>3
        <4>2. read[k] = I!ReadByte(read[k - 1], stream[k])
          BY <2>1, <2>2, <3>3
        <4> QED
          BY <3>3, <4>1, <4>2
      <3> QED
        BY <2>2, <3>1, <3>2, <3>3
    <2>4. Reads(longer, n + 1)
      BY <2>3
    <2> HIDE DEF longer
    <2>5. \E r : Reads(r, n + 1)
      BY <2>4, Zenon
    <2> HIDE DEF Reads
    <2> QED
      BY <2>2, <2>5
  <1>3. S = Nat
    BY <1>1, <1>2, InductionOnSets
  <1> QED
    BY <1>3 DEF IspReads

LEMMA IspUpdates ==
  ASSUME NEW s, IspForm(s), NEW stream, Len(stream) \in Nat, NEW hears
  PROVE  IspForm(I!Update(s, stream, hears).s) /\ IsSequence(I!Update(s, stream, hears).rest)
  <1> DEFINE first == [s |-> I!Continue(s, hears), rest |-> <<>>]
             read == CHOOSE g : IspReads(g, first, stream, Len(stream))
             S == {n \in Nat : n \in 0..Len(stream) => IspRead(read[n])}
  <1>1. I!Update(s, stream, hears) = read[Len(stream)]
    BY DEF I!Update, IspReads
  <1>2. \E g : IspReads(g, first, stream, Len(stream))
    BY IspReadingExists
  <1>3. IspReads(read, first, stream, Len(stream))
    BY <1>2
  <1>4. IspRead(first)
    BY IspContinues, SequenceParts DEF IspRead
  <1> HIDE DEF read, first
  <1>5. 0 \in S
    BY <1>3, <1>4 DEF IspReads
  <1>6. ASSUME NEW n \in S PROVE n + 1 \in S
    <2>1. CASE n + 1 \in 0..Len(stream)
      <3>1. read[n + 1] = I!ReadByte(read[n], stream[n + 1])
        BY <1>3, <2>1 DEF IspReads
      <3>2. IspRead(read[n])
        BY <2>1
      <3> QED
        BY <3>1, <3>2, IspReadsAByte
    <2> QED
      BY <2>1
  <1>7. S = Nat
    BY <1>5, <1>6, InductionOnSets, ZenonT(30)
  <1> QED
    BY <1>1, <1>7 DEF IspRead

-----------------------------------------------------------------------------
(* The UPDI programmer in a session.  What a conversation does to the       *)
(* target is of no matter here: whatever it was, the programmer keeps its   *)
(* line, and no command but the break changes it.                          *)

UpdiFields ==
  {"rx", "raw", "brk", "pending", "connected", "inProg", "installed", "attached",
   "checking", "line", "nvmVersion", "flashPage", "eepromPage", "out", "board", "fault"}

UpdiPhases == {"Start", "Seq", "Size", "Token", "Body", "Crc"}
UpdiBreaks == {"Idle", "Low1", "High", "Low2"}
UpdiPendings == {"None", "Descriptor", "Enter", "Erase"}

UpdiForm(s) ==
  /\ DOMAIN s = UpdiFields /\ s = [f \in UpdiFields |-> s[f]]
  /\ s.rx \in UpdiPhases /\ s.brk \in UpdiBreaks /\ s.pending \in UpdiPendings

OnTheWire(s) ==
  /\ UpdiForm(s)
  /\ s.checking = FALSE
  /\ s.line \in {"Low", "Pullup", "Uart"}

UpdiFree == UpdiFields \ {"rx", "brk", "pending", "checking", "line"}

\* What a handler may change without touching the line.
LEMMA UpdiChanges ==
  ASSUME NEW s, OnTheWire(s)
  PROVE  /\ \A x : OnTheWire([s EXCEPT !.board = x])
         /\ \A x : OnTheWire([s EXCEPT !.raw = x])
         /\ \A x : OnTheWire([s EXCEPT !.fault = x])
         /\ \A x : OnTheWire([s EXCEPT !.connected = x])
         /\ \A x : OnTheWire([s EXCEPT !.inProg = x])
         /\ \A x, y : OnTheWire([s EXCEPT !.connected = x, !.inProg = y])
         /\ \A x, y : OnTheWire([s EXCEPT !.out = x, !.raw = y])
         /\ \A x, y, z :
              OnTheWire([s EXCEPT !.flashPage = x, !.eepromPage = y, !.nvmVersion = z])
         /\ \A p \in UpdiPhases : \A x : OnTheWire([s EXCEPT !.rx = p, !.raw = x])
         /\ \A p \in UpdiPhases : OnTheWire([s EXCEPT !.rx = p])
         /\ OnTheWire([s EXCEPT !.pending = "None"])
  <1>1. ASSUME NEW t, OnTheWire(t), NEW f \in UpdiFree, NEW x
        PROVE  OnTheWire([t EXCEPT ![f] = x])
    <2> DEFINE u == [t EXCEPT ![f] = x]
    <2>1. DOMAIN u = UpdiFields /\ u = [g \in UpdiFields |-> u[g]]
      BY <1>1 DEF OnTheWire, UpdiForm
    <2>2. /\ u.rx = t.rx /\ u.brk = t.brk /\ u.pending = t.pending
          /\ u.checking = t.checking /\ u.line = t.line
      BY <1>1 DEF OnTheWire, UpdiForm, UpdiFields, UpdiFree
    <2> HIDE DEF u
    <2>3. OnTheWire(u)
      BY <1>1, <2>1, <2>2 DEF OnTheWire, UpdiForm
    <2> QED
      BY <2>3 DEF u
  <1>2. ASSUME NEW t, OnTheWire(t), NEW p \in UpdiPhases
        PROVE  OnTheWire([t EXCEPT !.rx = p])
    <2> DEFINE u == [t EXCEPT !.rx = p]
    <2>1. DOMAIN u = UpdiFields /\ u = [g \in UpdiFields |-> u[g]]
      BY <1>2 DEF OnTheWire, UpdiForm
    <2>2. /\ u.rx = p /\ u.brk = t.brk /\ u.pending = t.pending
          /\ u.checking = t.checking /\ u.line = t.line
      BY <1>2 DEF OnTheWire, UpdiForm, UpdiFields
    <2> HIDE DEF u
    <2>3. OnTheWire(u)
      BY <1>2, <2>1, <2>2 DEF OnTheWire, UpdiForm
    <2> QED
      BY <2>3 DEF u
  <1>3. OnTheWire([s EXCEPT !.pending = "None"])
    <2> DEFINE u == [s EXCEPT !.pending = "None"]
    <2>1. DOMAIN u = UpdiFields /\ u = [g \in UpdiFields |-> u[g]]
      BY DEF OnTheWire, UpdiForm
    <2>2. /\ u.rx = s.rx /\ u.brk = s.brk /\ u.pending \in UpdiPendings
          /\ u.checking = s.checking /\ u.line = s.line
      BY DEF OnTheWire, UpdiForm, UpdiFields, UpdiPendings
    <2> HIDE DEF u
    <2>3. OnTheWire(u)
      BY <2>1, <2>2 DEF OnTheWire, UpdiForm
    <2> QED
      BY <2>3 DEF u
  <1>4. \A x : /\ OnTheWire([s EXCEPT !.board = x]) /\ OnTheWire([s EXCEPT !.raw = x])
               /\ OnTheWire([s EXCEPT !.fault = x])
               /\ OnTheWire([s EXCEPT !.connected = x])
               /\ OnTheWire([s EXCEPT !.inProg = x])
    BY <1>1 DEF UpdiFree, UpdiFields
  <1>5. \A x, y : /\ OnTheWire([[s EXCEPT !.connected = x] EXCEPT !.inProg = y])
                  /\ OnTheWire([[s EXCEPT !.out = x] EXCEPT !.raw = y])
    BY <1>1 DEF UpdiFree, UpdiFields
  <1>6. \A x, y, z : OnTheWire([[[s EXCEPT !.flashPage = x] EXCEPT !.eepromPage = y]
                                                            EXCEPT !.nvmVersion = z])
    BY <1>1 DEF UpdiFree, UpdiFields
  <1>7. \A p \in UpdiPhases : \A x : OnTheWire([[s EXCEPT !.rx = p] EXCEPT !.raw = x])
    BY <1>1, <1>2 DEF UpdiFree, UpdiFields
  <1> QED
    BY <1>2, <1>3, <1>4, <1>5, <1>6, <1>7

LEMMA UpdiAnswers ==
  ASSUME NEW s, OnTheWire(s)
  PROVE  /\ \A status, data : OnTheWire(U!Answer(s, status, data))
         /\ \A status : OnTheWire(U!Reply(s, status))
         /\ OnTheWire(U!ReplyOk(s)) /\ OnTheWire(U!ReplyNoPower(s))
  <1>1. \A status, data : OnTheWire(U!Answer(s, status, data))
    BY UpdiChanges DEF U!Answer
  <1> QED
    BY <1>1 DEF U!Reply, U!ReplyOk, U!ReplyNoPower

LEMMA UpdiKeeps ==
  ASSUME NEW s, OnTheWire(s), NEW w
  PROVE  /\ OnTheWire(U!Keep(s, w)) /\ OnTheWire(U!Conclude(s, w))
         /\ \A status : OnTheWire(U!Reply(U!Keep(s, w), status))
         /\ \A status, data : OnTheWire(U!Answer(U!Keep(s, w), status, data))
         /\ OnTheWire(U!ReplyNoPower(U!Keep(s, w)))
  <1>1. OnTheWire(U!Keep(s, w))
    BY UpdiChanges DEF U!Keep
  <1> QED
    BY <1>1, UpdiAnswers DEF U!Conclude

LEMMA UpdiBreaksOff ==
  ASSUME NEW s, OnTheWire(s), NEW pending \in UpdiPendings
  PROVE  OnTheWire(U!StartBreak(s, pending))
  BY DEF U!StartBreak, OnTheWire, UpdiForm, UpdiFields, UpdiBreaks

LEMMA UpdiSets ==
  ASSUME NEW s, OnTheWire(s)
  PROVE  /\ OnTheWire(U!SetDescriptor(s)) /\ OnTheWire(U!FinishDescriptor(s))
         /\ OnTheWire(U!SetParameter(s)) /\ OnTheWire(U!GetParameter(s))
  <1>1. OnTheWire(U!SetDescriptor(s))
    <2> DEFINE flash == IF U!Body(s)[2] = 0 THEN 64 ELSE U!Body(s)[2]
               eeprom == IF U!Body(s)[3] = 0 THEN 32 ELSE U!Body(s)[3]
               nvm == IF flash >= 256 THEN 2 ELSE 1
               sized == [s EXCEPT !.flashPage = flash, !.eepromPage = eeprom,
                                  !.nvmVersion = nvm]
    <2>1. U!SetDescriptor(s) \in {U!Reply(s, U!RspFailed), U!StartBreak(sized, "Descriptor")}
      BY DEF U!SetDescriptor
    <2> HIDE DEF flash, eeprom, nvm
    <2>2. OnTheWire(sized)
      BY UpdiChanges
    <2> HIDE DEF sized
    <2>3. OnTheWire(U!StartBreak(sized, "Descriptor"))
      BY <2>2, UpdiBreaksOff DEF UpdiPendings
    <2> QED
      BY <2>1, <2>3, UpdiAnswers
  <1>2. OnTheWire(U!FinishDescriptor(s))
    <2>1. \A x, w : OnTheWire(U!Conclude([s EXCEPT !.connected = x], w))
      BY UpdiChanges, UpdiKeeps
    <2> QED
      BY <2>1 DEF U!FinishDescriptor
  <1>3. OnTheWire(U!SetParameter(s)) /\ OnTheWire(U!GetParameter(s))
    BY UpdiAnswers DEF U!SetParameter, U!GetParameter
  <1> QED
    BY <1>1, <1>2, <1>3

LEMMA UpdiEnters ==
  ASSUME NEW s, OnTheWire(s)
  PROVE  OnTheWire(U!EnterProgmode(s)) /\ OnTheWire(U!BeginEnter(s))
  <1>1. \A w : OnTheWire(U!Conclude([s EXCEPT !.inProg = s.inProg \/ w.good], w))
    BY UpdiChanges, UpdiKeeps
  <1>2. OnTheWire(U!EnterProgmode(s))
    <2>1. \A w : /\ OnTheWire(U!ReplyNoPower(U!Keep(s, w)))
                 /\ OnTheWire(U!Reply(U!Keep(s, w), U!RspIllegalState))
      BY UpdiKeeps
    <2> QED
      BY <1>1, <2>1, SMT DEF U!EnterProgmode
  <1> QED
    BY <1>2, UpdiBreaksOff DEF U!BeginEnter, UpdiPendings

LEMMA UpdiLeaves ==
  ASSUME NEW s, OnTheWire(s)
  PROVE  /\ OnTheWire(U!LeaveProgmode(s)) /\ OnTheWire(U!Go(s))
         /\ OnTheWire(U!SignOff(s))
  <1>1. \A x, w : OnTheWire(U!Conclude([s EXCEPT !.inProg = x], w))
    BY UpdiChanges, UpdiKeeps
  <1>2. OnTheWire(U!LeaveProgmode(s))
    BY <1>1, UpdiKeeps DEF U!LeaveProgmode
  <1>3. ASSUME NEW t, OnTheWire(t), NEW w PROVE OnTheWire(U!DisableUpdi(t, w))
    <2>1. \A v : /\ OnTheWire(U!Keep(t, v))
                 /\ OnTheWire([U!Keep(t, v) EXCEPT !.connected = FALSE, !.inProg = FALSE])
      BY <1>3, UpdiKeeps, UpdiChanges
    <2> QED
      BY <2>1 DEF U!DisableUpdi
  <1>4. OnTheWire(U!Go(s))
    BY <1>3, UpdiAnswers DEF U!Go
  <1>5. \A x, w : OnTheWire(U!DisableUpdi([s EXCEPT !.inProg = x], w))
    BY <1>3, UpdiChanges
  <1>6. OnTheWire(U!SignOff(s))
    <2>1. ASSUME NEW t, OnTheWire(t)
          PROVE  OnTheWire(U!ReplyNoPower(t)) /\ OnTheWire(U!ReplyOk(t))
      BY <2>1, UpdiAnswers
    <2>2. OnTheWire([s EXCEPT !.connected = FALSE])
      BY UpdiChanges
    <2> QED
      BY <1>5, <2>1, <2>2 DEF U!SignOff
  <1> QED
    BY <1>2, <1>4, <1>6

LEMMA UpdiErases ==
  ASSUME NEW s, OnTheWire(s)
  PROVE  OnTheWire(U!Erase(s)) /\ OnTheWire(U!BeginErase(s))
  <1>1. \A x, w : OnTheWire(U!Conclude([s EXCEPT !.inProg = x], w))
    BY UpdiChanges, UpdiKeeps
  <1>2. OnTheWire(U!EraseChipNow(s))
    BY <1>1, UpdiKeeps DEF U!EraseChipNow
  <1>3. OnTheWire(U!ErasePage(s))
    BY UpdiKeeps DEF U!ErasePage
  <1>4. OnTheWire(U!Erase(s))
    BY <1>2, <1>3, UpdiAnswers DEF U!Erase
  <1> QED
    BY <1>4, UpdiBreaksOff DEF U!BeginErase, UpdiPendings

LEMMA UpdiMemory ==
  ASSUME NEW s, OnTheWire(s)
  PROVE  OnTheWire(U!ReadMemory(s)) /\ OnTheWire(U!WriteMemory(s))
  <1>1. OnTheWire(U!ReadMemory(s))
    BY UpdiKeeps DEF U!ReadMemory
  <1>2. OnTheWire(U!WriteMemory(s))
    BY UpdiKeeps DEF U!WriteMemory
  <1> QED
    BY <1>1, <1>2

LEMMA UpdiAccepts ==
  ASSUME NEW s, OnTheWire(s), NEW byte
  PROVE  OnTheWire(U!AcceptByte(s, byte))
  <1>1. ASSUME NEW t, OnTheWire(t) PROVE OnTheWire(U!Dispatch(t))
    BY <1>1, UpdiAnswers, UpdiSets, UpdiEnters, UpdiLeaves, UpdiErases, UpdiMemory
    DEF U!Dispatch
  <1>2. OnTheWire(U!OnFrame([s EXCEPT !.rx = "Start"], byte))
    <2> DEFINE t == [s EXCEPT !.rx = "Start"]
    <2>1. OnTheWire(t)
      BY UpdiChanges DEF UpdiPhases
    <2> HIDE DEF t
    <2>2. OnTheWire(U!OnFrame(t, byte))
      BY <1>1, <2>1, UpdiAnswers DEF U!OnFrame
    <2> QED
      BY <2>2 DEF t
  <1>3. \A p \in UpdiPhases : \A x : OnTheWire([[s EXCEPT !.raw = x] EXCEPT !.rx = p])
    BY UpdiChanges, ZenonT(30)
  <1>4. OnTheWire(U!Restart(s))
    BY UpdiChanges, ZenonT(30) DEF U!Restart, UpdiPhases
  <1>5. /\ \A x : OnTheWire([s EXCEPT !.raw = x])
        /\ \A x : OnTheWire([s EXCEPT !.rx = "Seq", !.raw = x])
    BY UpdiChanges DEF UpdiPhases
  <1>6. s.rx \in UpdiPhases
    BY DEF OnTheWire, UpdiForm
  <1> QED
    BY <1>2, <1>3, <1>4, <1>5, <1>6 DEF U!AcceptByte, UpdiPhases

LEMMA UpdiBreaksOn ==
  ASSUME NEW s, UpdiForm(s), s.brk # "Idle"
  PROVE  /\ UpdiForm(U!AdvanceBreak(s)) /\ U!AdvanceBreak(s).out = s.out
         /\ U!AdvanceBreak(s).checking = s.checking
         /\ U!AdvanceBreak(s).line \in {"Low", "Pullup", "Uart"}
  <1> DEFINE t == U!AdvanceBreak(s)
  <1>1. ASSUME s.brk = "Low1"
        PROVE  /\ UpdiForm(t) /\ t.out = s.out /\ t.checking = s.checking
               /\ t.line \in {"Low", "Pullup", "Uart"}
    <2>1. t = [s EXCEPT !.line = "Pullup", !.brk = "High"]
      BY <1>1 DEF U!AdvanceBreak
    <2> HIDE DEF t
    <2> QED
      BY <2>1 DEF UpdiForm, UpdiFields, UpdiBreaks
  <1>2. ASSUME s.brk = "High"
        PROVE  /\ UpdiForm(t) /\ t.out = s.out /\ t.checking = s.checking
               /\ t.line \in {"Low", "Pullup", "Uart"}
    <2>1. t = [s EXCEPT !.line = "Low", !.brk = "Low2"]
      BY <1>2 DEF U!AdvanceBreak
    <2> HIDE DEF t
    <2> QED
      BY <2>1 DEF UpdiForm, UpdiFields, UpdiBreaks
  <1>3. ASSUME s.brk = "Low2"
        PROVE  /\ UpdiForm(t) /\ t.out = s.out /\ t.checking = s.checking
               /\ t.line \in {"Low", "Pullup", "Uart"}
    <2>1. t = [s EXCEPT !.line = "Uart", !.attached = TRUE, !.connected = TRUE,
                        !.brk = "Idle",
                        !.board.deaf = IF @ = "Break" THEN "No" ELSE @]
      BY <1>3 DEF U!AdvanceBreak
    <2> HIDE DEF t
    <2> QED
      BY <2>1 DEF UpdiForm, UpdiFields, UpdiBreaks
  <1> QED
    BY <1>1, <1>2, <1>3 DEF UpdiForm, UpdiBreaks

LEMMA UpdiAdvances ==
  ASSUME NEW s, OnTheWire(s), s.brk # "Idle"
  PROVE  OnTheWire(U!AdvanceBreak(s))
  BY UpdiBreaksOn DEF OnTheWire

LEMMA UpdiWakes ==
  ASSUME NEW s, OnTheWire(s)
  PROVE  OnTheWire(U!Woken(s))
  <1>1. ASSUME NEW t, OnTheWire(t) PROVE OnTheWire(U!RunPending(t))
    <2>1. OnTheWire([t EXCEPT !.pending = "None"])
      BY <1>1, UpdiChanges
    <2>2. t.pending \in UpdiPendings
      BY <1>1 DEF OnTheWire, UpdiForm
    <2> QED
      BY <2>1, <2>2, UpdiSets, UpdiEnters, UpdiErases DEF U!RunPending, UpdiPendings
  <1> QED
    BY <1>1, UpdiAdvances DEF U!Woken

\* What has become of the programmer and of the bytes it has not taken.
UpdiRead(a) ==
  DOMAIN a = {"s", "rest"} /\ OnTheWire(a.s) /\ IsSequence(a.rest)

LEMMA UpdiReadsAByte ==
  ASSUME NEW a, UpdiRead(a), NEW byte
  PROVE  UpdiRead(U!ReadByte(a, byte))
  <1>1. OnTheWire(U!AcceptByte(a.s, byte))
    BY UpdiAccepts DEF UpdiRead
  <1> QED
    BY <1>1, SequenceParts DEF U!ReadByte, UpdiRead

UpdiReads(read, first, stream, n) ==
  read = [k \in 0..n |-> IF k = 0 THEN first
                         ELSE U!ReadByte(read[k - 1], stream[k])]

LEMMA UpdiReadingExists ==
  ASSUME NEW first, NEW stream
  PROVE  \A n \in Nat : \E read : UpdiReads(read, first, stream, n)
  <1> DEFINE Reads(read, n) ==
               read = [k \in 0..n |-> IF k = 0 THEN first
                                      ELSE U!ReadByte(read[k - 1], stream[k])]
             S == {n \in Nat : \E read : Reads(read, n)}
  <1>1. 0 \in S
    <2>1. Reads([k \in 0..0 |-> first], 0)
      OBVIOUS
    <2> QED
      BY <2>1
  <1>2. ASSUME NEW n \in S PROVE n + 1 \in S
    <2>1. PICK read : Reads(read, n)
      OBVIOUS
    <2>2. n \in Nat
      OBVIOUS
    <2> DEFINE longer == [k \in 0..(n + 1) |-> IF k = n + 1 THEN U!ReadByte(read[n], stream[n + 1])
                                               ELSE read[k]]
    <2>3. ASSUME NEW k \in 0..(n + 1)
          PROVE  longer[k] = IF k = 0 THEN first ELSE U!ReadByte(longer[k - 1], stream[k])
      <3>1. CASE k = n + 1
        BY <2>2, <3>1
      <3>2. CASE k = 0
        BY <2>1, <2>2, <3>2
      <3>3. CASE k \in 1..n
        <4>1. longer[k] = read[k] /\ longer[k - 1] = read[k - 1]
          BY <2>2, <3>3
        <4>2. read[k] = U!ReadByte(read[k - 1], stream[k])
          BY <2>1, <2>2, <3>3
        <4> QED
          BY <3>3, <4>1, <4>2
      <3> QED
        BY <2>2, <3>1, <3>2, <3>3
    <2>4. Reads(longer, n + 1)
      BY <2>3
    <2> HIDE DEF longer
    <2>5. \E r : Reads(r, n + 1)
      BY <2>4, Zenon
    <2> HIDE DEF Reads
    <2> QED
      BY <2>2, <2>5
  <1>3. S = Nat
    BY <1>1, <1>2, InductionOnSets
  <1> QED
    BY <1>3 DEF UpdiReads

LEMMA UpdiUpdates ==
  ASSUME NEW s, OnTheWire(s), NEW stream, Len(stream) \in Nat, NEW fault
  PROVE  OnTheWire(U!Update(s, stream, fault).s) /\ IsSequence(U!Update(s, stream, fault).rest)
  <1> DEFINE first == [s |-> U!Woken([s EXCEPT !.fault = fault]), rest |-> <<>>]
             read == CHOOSE g : UpdiReads(g, first, stream, Len(stream))
             S == {n \in Nat : n \in 0..Len(stream) => UpdiRead(read[n])}
  <1>1. U!Update(s, stream, fault) = [read[Len(stream)] EXCEPT !.s.fault = U!NoFault]
    BY DEF U!Update, UpdiReads, OnTheWire
  <1>2. \E g : UpdiReads(g, first, stream, Len(stream))
    BY UpdiReadingExists
  <1>3. UpdiReads(read, first, stream, Len(stream))
    BY <1>2
  <1>4. UpdiRead(first)
    BY UpdiChanges, UpdiWakes, SequenceParts DEF UpdiRead
  <1> HIDE DEF read, first
  <1>5. 0 \in S
    BY <1>3, <1>4 DEF UpdiReads
  <1>6. ASSUME NEW n \in S PROVE n + 1 \in S
    <2>1. CASE n + 1 \in 0..Len(stream)
      <3>1. read[n + 1] = U!ReadByte(read[n], stream[n + 1])
        BY <1>3, <2>1 DEF UpdiReads
      <3>2. UpdiRead(read[n])
        BY <2>1
      <3> QED
        BY <3>1, <3>2, UpdiReadsAByte
    <2> QED
      BY <2>1
  <1>7. S = Nat
    BY <1>5, <1>6, InductionOnSets
  <1> DEFINE last == read[Len(stream)]
  <1>8. DOMAIN last = {"s", "rest"} /\ OnTheWire(last.s) /\ IsSequence(last.rest)
    BY <1>7 DEF UpdiRead
  <1> HIDE DEF S, last
  <1>9. /\ [last EXCEPT !.s.fault = U!NoFault].s = [last.s EXCEPT !.fault = U!NoFault]
        /\ [last EXCEPT !.s.fault = U!NoFault].rest = last.rest
    BY <1>8
  <1>10. OnTheWire([last.s EXCEPT !.fault = U!NoFault])
    BY <1>8, UpdiChanges
  <1> QED
    BY <1>1, <1>8, <1>9, <1>10 DEF last

-----------------------------------------------------------------------------
(* Start, shutdown and the link check of the two programmers.              *)

IspReleased(s) ==
  IspForm(s) /\ ~s.spi /\ s.reset = "Pullup" /\ s.after = "None"

LEMMA IspRests ==
  ASSUME NEW s, IspForm(s)
  PROVE  /\ \A board : IspReleased(I!Programmer(board))
         /\ IspReleased(I!Shutdown(s))
         /\ IspForm(I!Start(s))
         /\ IspReleased(s) => \A x : /\ IspReleased([s EXCEPT !.board = x])
                                     /\ IspReleased([s EXCEPT !.out = x])
         /\ \A f \in {"board", "out"} : \A x :
              /\ IspForm([s EXCEPT ![f] = x]) /\ [s EXCEPT ![f] = x].spi = s.spi
              /\ [s EXCEPT ![f] = x].reset = s.reset
              /\ [s EXCEPT ![f] = x].after = s.after
  <1>1. IspForm(I!Start(s))
    BY IspParts DEF I!Start
  <1>2. IspReleased(I!Shutdown(s))
    <2> DEFINE t == I!Idle(I!DriveReset(s, "Pullup"))
    <2>1. IspForm(t) /\ t.reset = "Pullup"
      BY IspParts
    <2> HIDE DEF t
    <2> DEFINE u == [t EXCEPT !.spi = FALSE, !.programming = FALSE, !.after = "None"]
    <2>2. IspReleased(u)
      BY <2>1 DEF IspReleased, IspForm, IspFields, IspWaits
    <2>3. I!Shutdown(s) = u
      BY DEF I!Shutdown, t
    <2> QED
      BY <2>2, <2>3
  <1>3. ASSUME NEW f \in {"board", "out"}, NEW x
        PROVE  /\ IspForm([s EXCEPT ![f] = x]) /\ [s EXCEPT ![f] = x].spi = s.spi
               /\ [s EXCEPT ![f] = x].reset = s.reset
               /\ [s EXCEPT ![f] = x].after = s.after
    BY DEF IspForm, IspFields
  <1>4. \A x : /\ IspForm([s EXCEPT !.board = x]) /\ [s EXCEPT !.board = x].spi = s.spi
               /\ [s EXCEPT !.board = x].reset = s.reset
               /\ [s EXCEPT !.board = x].after = s.after
    BY <1>3
  <1>5. \A x : /\ IspForm([s EXCEPT !.out = x]) /\ [s EXCEPT !.out = x].spi = s.spi
               /\ [s EXCEPT !.out = x].reset = s.reset
               /\ [s EXCEPT !.out = x].after = s.after
    BY <1>3
  <1>6. IspReleased(s) => \A x : /\ IspReleased([s EXCEPT !.board = x])
                                /\ IspReleased([s EXCEPT !.out = x])
    BY <1>4, <1>5 DEF IspReleased
  <1>7. \A board : IspReleased(I!Programmer(board))
    BY IspStarts DEF IspReleased
  <1> QED
    BY <1>1, <1>2, <1>3, <1>6, <1>7

\* What the wire is like when the UPDI programmer has nothing to do with it.
UpdiReleased(s) ==
  /\ UpdiForm(s) /\ s.checking = FALSE /\ ~s.installed
  /\ s.line = "Input" /\ s.brk = "Idle"

LEMMA UpdiRests ==
  ASSUME NEW s, UpdiForm(s)
  PROVE  /\ UpdiReleased(U!Shutdown(s))
         /\ s.checking = FALSE => OnTheWire(U!Start(s))
         /\ \A f \in {"board", "out", "fault"} : \A x :
              /\ UpdiForm([s EXCEPT ![f] = x])
              /\ [s EXCEPT ![f] = x].checking = s.checking
              /\ [s EXCEPT ![f] = x].installed = s.installed
              /\ [s EXCEPT ![f] = x].line = s.line /\ [s EXCEPT ![f] = x].brk = s.brk
  <1>1. UpdiReleased(U!Shutdown(s))
    BY DEF U!Shutdown, UpdiReleased, UpdiForm, UpdiFields, UpdiPhases, UpdiBreaks,
           UpdiPendings
  <1>2. s.checking = FALSE => OnTheWire(U!Start(s))
    BY DEF U!Start, OnTheWire, UpdiForm, UpdiFields
  <1>3. ASSUME NEW f \in {"board", "out", "fault"}, NEW x
        PROVE  /\ UpdiForm([s EXCEPT ![f] = x])
               /\ [s EXCEPT ![f] = x].checking = s.checking
               /\ [s EXCEPT ![f] = x].installed = s.installed
               /\ [s EXCEPT ![f] = x].line = s.line /\ [s EXCEPT ![f] = x].brk = s.brk
    BY DEF UpdiForm, UpdiFields
  <1> QED
    BY <1>1, <1>2, <1>3

LEMMA UpdiStaysReleased ==
  ASSUME NEW s, UpdiReleased(s)
  PROVE  \A x : /\ UpdiReleased([s EXCEPT !.board = x])
                /\ UpdiReleased([s EXCEPT !.out = x])
                /\ UpdiReleased([s EXCEPT !.fault = x])
  <1>1. UpdiForm(s)
    BY DEF UpdiReleased
  <1>2. ASSUME NEW f \in {"board", "out", "fault"}, NEW x
        PROVE  UpdiReleased([s EXCEPT ![f] = x])
    <2> DEFINE t == [s EXCEPT ![f] = x]
    <2>1. UpdiForm(t)
      BY <1>1, UpdiRests
    <2>2. /\ t.checking = s.checking /\ t.installed = s.installed
          /\ t.line = s.line /\ t.brk = s.brk
      BY <1>1 DEF UpdiForm, UpdiFields
    <2> HIDE DEF t
    <2>3. UpdiReleased(t)
      BY <2>1, <2>2 DEF UpdiReleased
    <2> QED
      BY <2>3 DEF t
  <1> QED
    BY <1>2

LEMMA UpdiStarts ==
  ASSUME NEW board
  PROVE  /\ UpdiReleased(U!Programmer(board))
         /\ OnTheWire(U!Start(U!Programmer(board)))
  <1>1. UpdiReleased(U!Programmer(board))
    BY DEF U!Programmer, UpdiReleased, UpdiForm, UpdiFields, UpdiPhases, UpdiBreaks,
           UpdiPendings
  <1>2. UpdiForm(U!Programmer(board)) /\ U!Programmer(board).checking = FALSE
    BY <1>1 DEF UpdiReleased
  <1> QED
    BY <1>1, <1>2, UpdiRests

\* A check that is over, however its conversation went, has shut down.
LEMMA UpdiChecks ==
  ASSUME NEW s, UpdiForm(s)
  PROVE  /\ UpdiForm(U!BeginLinkCheck(s)) /\ U!BeginLinkCheck(s).brk # "Idle"
         /\ s.brk # "Idle" => \A fault :
              /\ UpdiForm(U!PollLinkCheck(s, fault))
              /\ U!PollLinkCheck(s, fault).brk = "Idle"
                   => UpdiReleased(U!PollLinkCheck(s, fault))
  <1>1. UpdiForm(U!BeginLinkCheck(s)) /\ U!BeginLinkCheck(s).brk # "Idle"
    BY DEF U!BeginLinkCheck, U!StartBreak, UpdiForm, UpdiFields, UpdiBreaks, UpdiPendings
  <1>2. ASSUME s.brk # "Idle", NEW fault
        PROVE  /\ UpdiForm(U!PollLinkCheck(s, fault))
               /\ U!PollLinkCheck(s, fault).brk = "Idle"
                    => UpdiReleased(U!PollLinkCheck(s, fault))
    <2> DEFINE advanced == U!AdvanceBreak(s)
               moved == [advanced EXCEPT !.fault = fault]
               over == U!FinishLinkCheck(moved)
               done == IF moved.brk = "Idle" THEN over ELSE moved
    <2>1. UpdiForm(advanced)
      BY <1>2, UpdiBreaksOn
    <2> HIDE DEF advanced
    <2>2. UpdiForm(moved)
      BY <2>1, UpdiRests
    <2> HIDE DEF moved
    <2>3. UpdiReleased(over)
      <3>1. \A w : UpdiForm(U!Keep(moved, w))
        BY <2>2, UpdiRests DEF U!Keep
      <3> QED
        BY <3>1, UpdiRests DEF U!FinishLinkCheck
    <2> HIDE DEF over
    <2>4. UpdiForm(done) /\ (done.brk = "Idle" => UpdiReleased(done))
      BY <2>2, <2>3 DEF UpdiReleased
    <2> HIDE DEF done
    <2>5. [done EXCEPT !.fault = U!NoFault].brk = done.brk
      BY <2>4 DEF UpdiForm, UpdiFields
    <2>6. done.brk = "Idle" => UpdiReleased([done EXCEPT !.fault = U!NoFault])
      BY <2>4, UpdiStaysReleased
    <2>7. /\ UpdiForm([done EXCEPT !.fault = U!NoFault])
          /\ [done EXCEPT !.fault = U!NoFault].brk = "Idle"
               => UpdiReleased([done EXCEPT !.fault = U!NoFault])
      BY <2>4, <2>5, <2>6, UpdiRests
    <2> QED
      BY <2>7 DEF U!PollLinkCheck, done, over, moved, advanced
  <1> QED
    BY <1>1, <1>2

-----------------------------------------------------------------------------
(* The wires between the programmers and the target                        *)

WiresInv ==
  /\ programmer \in {"None", "Isp", "Updi"} /\ checkActive \in BOOLEAN
  /\ IsSequence(input) /\ IspForm(isp) /\ UpdiForm(updi)
  /\ checkActive => programmer = "None" /\ updi.brk # "Idle"
  /\ ~checkActive => updi.checking = FALSE
  /\ programmer # "Isp" => IspReleased(isp)
  /\ programmer = "Updi" => OnTheWire(updi)
  /\ programmer # "Updi" /\ ~checkActive => UpdiReleased(updi)

LEMMA WiresInitially == ProgrammingInit => WiresInv
  BY IspStarts, UpdiStarts, SequenceParts
  DEF ProgrammingInit, WiresInv, UpdiReleased, IspReleased

LEMMA BeginKeepsWires ==
  ASSUME WiresInv, NEW method \in {"Isp", "Updi"}, NEW lock \in BOOLEAN,
         Begin(method, lock)
  PROVE  WiresInv'
  <1> DEFINE released == IF checkActive THEN U!Shutdown(updi) ELSE updi
             swapped == jumpered # method
             ispHere == IF swapped THEN [isp EXCEPT !.board = IspTarget] ELSE isp
             updiHere == IF swapped THEN [released EXCEPT !.board = UpdiTarget(lock)]
                                    ELSE released
  <1>1. UpdiReleased(released)
    BY UpdiRests DEF WiresInv, Begin
  <1> HIDE DEF released
  <1>2. UpdiReleased(updiHere)
    BY <1>1, UpdiStaysReleased
  <1>3. IspReleased(ispHere)
    BY IspRests DEF WiresInv, Begin
  <1>4. /\ programmer' = method /\ checkActive' = FALSE /\ input' = <<>>
        /\ isp' = IF method = "Isp" THEN I!Start(ispHere) ELSE ispHere
        /\ updi' = IF method = "Updi" THEN U!Start(updiHere) ELSE updiHere
    BY DEF Begin, released
  <1> HIDE DEF ispHere, updiHere
  <1>5. IspForm(isp') /\ (method # "Isp" => IspReleased(isp'))
    BY <1>3, <1>4, IspRests DEF IspReleased
  <1>6. /\ method = "Updi" => OnTheWire(updi')
        /\ method # "Updi" => UpdiReleased(updi')
    BY <1>2, <1>4, UpdiRests DEF UpdiReleased
  <1> QED
    BY <1>4, <1>5, <1>6, SequenceParts DEF WiresInv, OnTheWire, UpdiReleased

LEMMA EndKeepsWires == WiresInv /\ End => WiresInv'
  <1> SUFFICES ASSUME WiresInv, End PROVE WiresInv'
    OBVIOUS
  <1> DEFINE ispShut == I!Shutdown(isp)
             updiShut == U!Shutdown(updi)
  <1>1. programmer' = "None" /\ checkActive' = FALSE /\ checkActive = FALSE /\ input' = <<>>
    BY DEF End, WiresInv
  <1>2. IspReleased(isp')
    <2>1. IspReleased(ispShut)
      BY IspRests DEF WiresInv
    <2>2. isp' = IF programmer = "Isp" THEN [ispShut EXCEPT !.out = <<>>] ELSE isp
      BY DEF End
    <2> HIDE DEF ispShut
    <2>3. IspReleased([ispShut EXCEPT !.out = <<>>])
      BY <2>1, IspRests, ZenonT(30) DEF IspReleased
    <2> QED
      BY <2>2, <2>3 DEF WiresInv
  <1>3. UpdiReleased(updi')
    <2>1. UpdiReleased(updiShut)
      BY UpdiRests DEF WiresInv
    <2>2. updi' = IF programmer = "Updi" THEN [updiShut EXCEPT !.out = <<>>] ELSE updi
      BY DEF End
    <2> HIDE DEF updiShut
    <2>3. UpdiReleased([updiShut EXCEPT !.out = <<>>])
      BY <2>1, UpdiStaysReleased
    <2> QED
      BY <1>1, <2>2, <2>3 DEF WiresInv
  <1> QED
    BY <1>1, <1>2, <1>3, SequenceParts DEF WiresInv, IspReleased, UpdiReleased

LEMMA CheckKeepsWires == WiresInv /\ (StartUpdiCheck \/ PollUpdiCheck) => WiresInv'
  <1>1. ASSUME WiresInv, StartUpdiCheck PROVE WiresInv'
    BY <1>1, UpdiChecks DEF WiresInv, StartUpdiCheck
  <1>2. ASSUME WiresInv, PollUpdiCheck PROVE WiresInv'
    <2>1. PICK fault \in Faults : updi' = U!PollLinkCheck(updi, fault)
      BY <1>2 DEF PollUpdiCheck
    <2>2. UpdiForm(updi') /\ (updi'.brk = "Idle" => UpdiReleased(updi'))
      BY <1>2, <2>1, UpdiChecks DEF WiresInv, PollUpdiCheck
    <2>3. /\ checkActive' = (updi'.brk # "Idle") /\ programmer = "None"
          /\ UNCHANGED <<programmer, isp, input>>
      BY <1>2 DEF PollUpdiCheck, WiresInv
    <2> QED
      BY <1>2, <2>2, <2>3 DEF WiresInv, UpdiReleased
  <1> QED
    BY <1>1, <1>2

LEMMA UpdatesKeepWires == WiresInv /\ (IspUpdate \/ UpdiUpdate) => WiresInv'
  <1>1. ASSUME WiresInv, IspUpdate PROVE WiresInv'
    <2>1. PICK hears \in BOOLEAN : /\ isp' = I!Update(isp, input, hears).s
                                   /\ input' = I!Update(isp, input, hears).rest
      BY <1>1 DEF IspUpdate
    <2>2. IspForm(isp') /\ IsSequence(input')
      BY <1>1, <2>1, IspUpdates DEF WiresInv, IsSequence
    <2> QED
      BY <1>1, <2>2 DEF WiresInv, IspUpdate, IspDue
  <1>2. ASSUME WiresInv, UpdiUpdate PROVE WiresInv'
    <2>1. PICK fault \in Faults : /\ updi' = U!Update(updi, input, fault).s
                                  /\ input' = U!Update(updi, input, fault).rest
      BY <1>2 DEF UpdiUpdate
    <2>2. OnTheWire(updi) /\ Len(input) \in Nat
      BY <1>2 DEF WiresInv, UpdiUpdate, UpdiDue, IsSequence
    <2>3. OnTheWire(updi') /\ IsSequence(input')
      BY <2>1, <2>2, UpdiUpdates
    <2> QED
      BY <1>2, <2>3 DEF WiresInv, UpdiUpdate, UpdiDue, OnTheWire
  <1> QED
    BY <1>1, <1>2

LEMMA HostKeepsWires == WiresInv /\ HostNext => WiresInv'
  <1>1. ASSUME WiresInv, NEW op \in IspOps \union UpdiOps, May(op)
        PROVE  IsSequence(Frame(op))
    BY <1>1, FramesAreSequences DEF May
  <1>2. ASSUME WiresInv, NEW op \in IspOps \union UpdiOps, Send(op) PROVE WiresInv'
    <2>1. IsSequence(input')
      BY <1>1, <1>2 DEF Send
    <2> QED
      BY <1>2, <2>1 DEF Send, WiresInv
  <1>3. ASSUME WiresInv, NEW op \in IspOps \union UpdiOps, Interrupt(op) PROVE WiresInv'
    <2>1. IsSequence(Frame(op))
      BY <1>1, <1>3 DEF Interrupt
    <2>2. PICK k \in Cuts(Len(Frame(op))) : input' = SubSeq(Frame(op), 1, k)
      BY <1>3 DEF Interrupt
    <2>3. k \in Int /\ k <= Len(Frame(op))
      BY <2>1, <2>2 DEF Cuts, IsSequence
    <2>4. IsSequence(input')
      BY <2>1, <2>2, <2>3, SequenceParts
    <2> QED
      BY <1>3, <2>4 DEF Interrupt, WiresInv
  <1>4. ASSUME WiresInv, isp' = [isp EXCEPT !.out = <<>>], updi' = [updi EXCEPT !.out = <<>>],
               UNCHANGED <<programmer, checkActive, input>>
        PROVE  WiresInv'
    <2>1. /\ IspForm(isp') /\ isp'.spi = isp.spi /\ isp'.reset = isp.reset
          /\ isp'.after = isp.after
      BY <1>4, IspRests DEF WiresInv
    <2>2. /\ UpdiForm(updi') /\ updi'.checking = updi.checking
          /\ updi'.installed = updi.installed /\ updi'.line = updi.line
          /\ updi'.brk = updi.brk
      BY <1>4, UpdiRests DEF WiresInv
    <2> QED
      BY <1>4, <2>1, <2>2 DEF WiresInv, OnTheWire, IspReleased, UpdiReleased
  <1> QED
    BY <1>2, <1>3, <1>4 DEF HostNext, Take, Drain

LEMMA ResetsKeepWires == WiresInv /\ (ResetTarget \/ ResetController) => WiresInv'
  <1>1. ASSUME WiresInv, ResetTarget PROVE WiresInv'
    <2>1. /\ UpdiForm(updi') /\ updi'.checking = updi.checking
          /\ updi'.installed = updi.installed /\ updi'.line = updi.line
          /\ updi'.brk = updi.brk
      BY <1>1, UpdiRests DEF WiresInv, ResetTarget
    <2> QED
      BY <1>1, <2>1 DEF WiresInv, OnTheWire, UpdiReleased, ResetTarget
  <1>2. ASSUME WiresInv, ResetController PROVE WiresInv'
    <2>1. \A board : /\ IspReleased(I!Programmer(board))
                     /\ IspForm(I!Start(I!Programmer(board)))
      BY <1>2, IspRests DEF WiresInv, IspReleased
    <2>2. \A board : /\ UpdiReleased(U!Programmer(board))
                     /\ OnTheWire(U!Start(U!Programmer(board)))
      BY UpdiStarts
    <2>3. checkActive' = FALSE /\ input' = <<>> /\ programmer' = programmer
      BY <1>2 DEF ResetController
    <2>4. /\ IspForm(isp')
          /\ programmer # "Isp" => IspReleased(isp')
      BY <1>2, <2>1 DEF ResetController, IspReleased
    <2>5. /\ programmer = "Updi" => OnTheWire(updi')
          /\ programmer # "Updi" => UpdiReleased(updi')
      BY <1>2, <2>2 DEF ResetController
    <2> QED
      BY <1>2, <2>3, <2>4, <2>5, SequenceParts DEF WiresInv, OnTheWire, UpdiReleased
  <1> QED
    BY <1>1, <1>2

LEMMA WiresNext == WiresInv /\ [ProgrammingNext]_programmingVars => WiresInv'
  <1>1. WiresInv /\ UNCHANGED programmingVars => WiresInv'
    BY DEF WiresInv, programmingVars
  <1> QED
    BY <1>1, BeginKeepsWires, EndKeepsWires, CheckKeepsWires, UpdatesKeepWires,
       HostKeepsWires, ResetsKeepWires
    DEF ProgrammingNext

LEMMA WiresInvariant == ProgrammingSpec => []WiresInv
  BY WiresInitially, WiresNext, PTL DEF ProgrammingSpec

\* SPI and UART, which share the MOSI net, are never both on it; reset is low
\* only while SPI is on; and a programmer has left its lines when its session or
\* its check is over: whatever bytes the host sends or stops sending, whatever
\* the target answers, and whenever a session or the controller ends
\* (WiresReleased; Programming::begin, end and pollUpdiLinkCheck).
THEOREM WiresAreReleased == ProgrammingSpec => []WiresReleased
  <1>1. WiresInv => WiresReleased
    BY DEF WiresInv, WiresReleased, IspForm, OnTheWire, IspReleased, UpdiReleased, I!Waiting
  <1> QED
    BY <1>1, WiresInvariant, PTL

-----------------------------------------------------------------------------
(* The buffers of the ISP programmer: nothing is stored beyond them, and    *)
(* what is written of a page has been received as a whole.                  *)

Cleared(s) == s.fixed = <<>> /\ s.header = <<>> /\ s.page = <<>> /\ s.oversize = FALSE

Capacity(s) ==
  /\ s.fixed \in Seq(Nat) /\ Len(s.fixed) <= 6
  /\ s.header \in Seq(Nat) /\ Len(s.header) <= 2
  /\ s.page \in Seq(Nat) /\ Len(s.page) <= MaxPage

WholePage(s) == Len(s.header) = 2 /\ Len(s.page) = I!PageLen(s)

\* What each phase of the parser has taken so far.
Parsed(s) ==
  /\ s.phase \in {"Command", "UnknownEop"} => Cleared(s)
  /\ s.phase = "Fixed" => /\ s.header = <<>> /\ s.page = <<>> /\ s.oversize = FALSE
                          /\ Len(s.fixed) <= I!PayloadLen(s.cmd)
  /\ s.phase = "PageHeader" => Len(s.header) < 2 /\ s.page = <<>> /\ s.oversize = FALSE
  /\ s.phase = "PageBody" => /\ Len(s.header) = 2 /\ I!PageLen(s) <= MaxPage
                             /\ Len(s.page) < I!PageLen(s)
  /\ s.phase = "Discard" => Len(s.header) = 2 /\ s.oversize
  /\ s.phase = "Eop" => /\ Len(s.header) = 2
                        /\ s.oversize \/ s.cmd = I!ReadPage \/ WholePage(s)

\* A command that is carried out, before it answers or waits.
Accepted(s) ==
  /\ IspForm(s) /\ Capacity(s) /\ s.after = "None" /\ s.phase = "Command"
  /\ s.cmd = I!ProgPage => WholePage(s)

\* While one waits its bytes stay where they are.
Suspended(s) ==
  /\ s.phase = "Command"
  /\ s.cmd = I!ProgPage => WholePage(s)
  /\ s.after = "EepromNext" => WholePage(s) /\ s.eepromNext \in 0..I!PageLen(s)

Buffered(s) ==
  /\ IspForm(s) /\ Capacity(s)
  /\ IF s.after = "None" THEN Parsed(s) ELSE Suspended(s)

LEMMA EmptyFits == <<>> \in Seq(Nat) /\ Len(<<>>) = 0 /\ Len(<<>>) <= MaxPage
  BY HostAssumption

LEMMA PayloadLens ==
  /\ \A cmd : I!PayloadLen(cmd) \in -1..5
  /\ I!PayloadLen(I!ProgPage) = -1
  BY DEF I!PayloadLen, I!GetSync, I!GetSignOn, I!EnterProgmode, I!LeaveProgmode,
         I!ChipErase, I!CheckAutoinc, I!ReadSign, I!GetParameter, I!ProgData, I!SetDevice,
         I!LoadAddress, I!SetParameter, I!ProgFlash, I!Universal, I!SetDeviceExt, I!ProgPage

\* An answer ends a command whatever the parser holds.
LEMMA IdleIsBuffered ==
  ASSUME NEW s, IspForm(s), s.after = "None"
  PROVE  /\ Buffered(I!Idle(s)) /\ \A answer : Buffered(I!Idle(I!Write(s, answer)))
         /\ Buffered(I!ReplyOk(s)) /\ Buffered(I!ReplyFailed(s))
         /\ Buffered(I!ReplyNosync(s))
  <1>1. ASSUME NEW t, IspForm(t), t.after = "None" PROVE Buffered(I!Idle(t))
    <2> DEFINE u == I!Idle(t)
    <2>1. IspForm(u) /\ u.after = "None"
      BY <1>1, IspParts
    <2>2. /\ u.fixed = <<>> /\ u.header = <<>> /\ u.page = <<>> /\ u.oversize = FALSE
          /\ u.phase = "Command"
      BY <1>1 DEF I!Idle, IspForm, IspFields
    <2> HIDE DEF u
    <2>3. Capacity(u) /\ Parsed(u)
      BY <2>2, HostAssumption DEF Capacity, Parsed, Cleared
    <2> QED
      BY <2>1, <2>3 DEF Buffered, u
  <1>2. \A answer : IspForm(I!Write(s, answer))
    BY IspParts
  <1>3. \A answer : I!Write(s, answer).after = "None"
    BY DEF I!Write, IspForm, IspFields
  <1> QED
    BY <1>1, <1>2, <1>3 DEF I!ReplyOk, I!ReplyFailed, I!ReplyNosync

IspBeside == {"spi", "reset", "programming", "address", "pageSize", "attempts", "out",
              "board", "eepromNext", "left"}

\* The fields outside the parser.
LEMMA AcceptedStays ==
  ASSUME NEW s, Accepted(s), NEW t, IspForm(t),
         \A f \in IspFields \ IspBeside : t[f] = s[f]
  PROVE  Accepted(t)
  <1>1. /\ t.fixed = s.fixed /\ t.header = s.header /\ t.page = s.page /\ t.phase = s.phase
        /\ t.cmd = s.cmd /\ t.after = s.after
    BY DEF IspFields, IspBeside
  <1> QED
    BY <1>1 DEF Accepted, Capacity, WholePage, I!PageLen

LEMMA AcceptedKeeps ==
  ASSUME NEW s, Accepted(s)
  PROVE  /\ \A answer : Accepted(I!Write(s, answer))
         /\ \A instr, address, data :
              /\ Accepted(I!Transfer4(s, instr, address, data))
              /\ I!Transfer4(s, instr, address, data).eepromNext = s.eepromNext
              /\ I!Transfer4(s, instr, address, data).header = s.header
              /\ I!Transfer4(s, instr, address, data).page = s.page
         /\ \A level \in {"Low", "High", "Pullup"} :
              (level = "Low" => s.spi) => /\ Accepted(I!DriveReset(s, level))
                                          /\ I!DriveReset(s, level).spi = s.spi
         /\ Accepted(I!LoadPage(s))
  <1> USE DEF IspFields, IspBeside
  <1>1. IspForm(s)
    BY DEF Accepted
  <1>2. \A answer : Accepted(I!Write(s, answer))
    <2>1. ASSUME NEW answer PROVE Accepted(I!Write(s, answer))
      <3>1. IspForm(I!Write(s, answer))
        BY <1>1, IspParts
      <3>2. \A f \in IspFields \ IspBeside : I!Write(s, answer)[f] = s[f]
        BY <1>1 DEF I!Write, IspForm
      <3> QED
        BY <3>1, <3>2, AcceptedStays
    <2> QED
      BY <2>1
  <1>3. ASSUME NEW instr, NEW address, NEW data
        PROVE  /\ Accepted(I!Transfer4(s, instr, address, data))
               /\ I!Transfer4(s, instr, address, data).eepromNext = s.eepromNext
               /\ I!Transfer4(s, instr, address, data).header = s.header
               /\ I!Transfer4(s, instr, address, data).page = s.page
    <2> DEFINE t == I!Transfer4(s, instr, address, data)
    <2>1. IspForm(t)
      BY <1>1, IspParts
    <2>2. \A f \in IspFields \ {"board"} : t[f] = s[f]
      BY <1>1 DEF I!Transfer4, IspForm
    <2> HIDE DEF t
    <2>3. Accepted(t)
      BY <2>1, <2>2, AcceptedStays
    <2>4. t.eepromNext = s.eepromNext /\ t.header = s.header /\ t.page = s.page
      BY <2>2
    <2> QED
      BY <2>3, <2>4 DEF t
  <1>4. ASSUME NEW level \in {"Low", "High", "Pullup"}, level = "Low" => s.spi
        PROVE  Accepted(I!DriveReset(s, level)) /\ I!DriveReset(s, level).spi = s.spi
    <2>1. IspForm(I!DriveReset(s, level)) /\ I!DriveReset(s, level).spi = s.spi
      BY <1>1, <1>4, IspParts
    <2>2. \A f \in IspFields \ IspBeside : I!DriveReset(s, level)[f] = s[f]
      BY <1>1, ZenonT(30) DEF I!DriveReset, IspForm
    <2> QED
      BY <2>1, <2>2, AcceptedStays
  <1>5. Accepted(I!LoadPage(s))
    <2>1. IspForm(I!LoadPage(s))
      BY <1>1 DEF I!LoadPage, IspForm
    <2>2. \A f \in IspFields \ IspBeside : I!LoadPage(s)[f] = s[f]
      BY <1>1 DEF I!LoadPage, IspForm
    <2> QED
      BY <2>1, <2>2, AcceptedStays
  <1> QED
    BY <1>2, <1>3, <1>4, <1>5

\* A wait begins with what the command has taken.
LEMMA WaitIsBuffered ==
  ASSUME NEW s, Accepted(s), NEW next \in IspWaits \ {"None"},
         next = "ProgrammingEnable" => s.spi,
         next = "EepromNext" => WholePage(s) /\ s.eepromNext \in 0..I!PageLen(s)
  PROVE  Buffered(I!Defer(s, next))
  <1> DEFINE t == I!Defer(s, next)
  <1>1. IspForm(s)
    BY DEF Accepted
  <1>2. IspForm(t)
    BY <1>1, IspParts
  <1>3. /\ t.after = next
        /\ t.fixed = s.fixed /\ t.header = s.header /\ t.page = s.page /\ t.phase = s.phase
        /\ t.cmd = s.cmd /\ t.eepromNext = s.eepromNext
    BY <1>1 DEF I!Defer, IspForm, IspFields
  <1> HIDE DEF t
  <1>4. Capacity(t) /\ Suspended(t)
    BY <1>3 DEF Accepted, Capacity, Suspended, WholePage, I!PageLen
  <1> QED
    BY <1>2, <1>3, <1>4 DEF Buffered, t

\* One byte of the page is written, and the next one is waited for.
LEMMA NextEepromByte ==
  ASSUME NEW s, Accepted(s), WholePage(s), s.eepromNext \in 0..I!PageLen(s)
  PROVE  Buffered(I!ProgramNextEepromByte(s))
  <1> DEFINE at == 2 * s.address + s.eepromNext
             data == s.page[s.eepromNext + 1]
             sent == I!Transfer4(s, I!InstrWriteEeprom, at, data)
             next == [sent EXCEPT !.eepromNext = @ + 1]
  <1> HIDE DEF at, data
  <1>1. /\ Accepted(sent) /\ sent.eepromNext = s.eepromNext
        /\ sent.header = s.header /\ sent.page = s.page
    <2>1. \A instr, address, x :
            /\ Accepted(I!Transfer4(s, instr, address, x))
            /\ I!Transfer4(s, instr, address, x).eepromNext = s.eepromNext
            /\ I!Transfer4(s, instr, address, x).header = s.header
            /\ I!Transfer4(s, instr, address, x).page = s.page
      BY AcceptedKeeps
    <2> QED
      BY <2>1
  <1>2. I!ProgramNextEepromByte(s) = IF s.eepromNext >= I!PageLen(s) THEN I!ReplyOk(s)
                                     ELSE I!Defer(next, "EepromNext")
    BY DEF I!ProgramNextEepromByte, at, data
  <1> HIDE DEF sent
  <1>3. /\ IspForm(next) /\ next.eepromNext = s.eepromNext + 1
        /\ next.header = s.header /\ next.page = s.page
        /\ \A f \in IspFields \ IspBeside : next[f] = sent[f]
    BY <1>1 DEF Accepted, IspForm, IspFields, IspBeside
  <1> HIDE DEF next
  <1>4. Accepted(next)
    BY <1>1, <1>3, AcceptedStays
  <1>5. I!PageLen(s) \in Nat
    BY DEF Accepted, Capacity, WholePage, I!PageLen
  <1>6. CASE s.eepromNext >= I!PageLen(s)
    BY <1>2, <1>6, IdleIsBuffered DEF Accepted
  <1>7. CASE ~(s.eepromNext >= I!PageLen(s))
    <2>1. WholePage(next) /\ I!PageLen(next) = I!PageLen(s)
      BY <1>3 DEF WholePage, I!PageLen
    <2>2. next.eepromNext \in 0..I!PageLen(next)
      BY <1>3, <1>5, <1>7, <2>1
    <2> QED
      BY <1>2, <1>4, <1>7, <2>1, <2>2, WaitIsBuffered DEF IspWaits
  <1> QED
    BY <1>6, <1>7

LEMMA AcceptedCommands ==
  ASSUME NEW s, Accepted(s)
  PROVE  /\ Buffered(I!BeginProgramming(s)) /\ Buffered(I!LeaveProgramming(s))
         /\ Buffered(I!RunUniversal(s)) /\ Buffered(I!ReadCells(s))
         /\ WholePage(s) => Buffered(I!ProgramFlash(s)) /\ Buffered(I!ProgramEeprom(s))
  <1> USE DEF IspFields, IspBeside
  <1>1. IspForm(s) /\ s.after = "None"
    BY DEF Accepted
  <1>2. Buffered(I!BeginProgramming(s))
    <2> DEFINE on == [s EXCEPT !.spi = TRUE]
               low == I!DriveReset(on, "Low")
               again == [low EXCEPT !.attempts = 0]
    <2>1. IspForm(on) /\ on.spi /\ \A f \in IspFields \ IspBeside : on[f] = s[f]
      BY <1>1 DEF IspForm
    <2> HIDE DEF on
    <2>2. Accepted(on)
      BY <2>1, AcceptedStays
    <2>3. Accepted(low) /\ low.spi
      BY <2>1, <2>2, AcceptedKeeps
    <2> HIDE DEF low
    <2>4. IspForm(again) /\ again.spi /\ \A f \in IspFields \ IspBeside : again[f] = low[f]
      BY <2>3 DEF IspForm, Accepted
    <2> HIDE DEF again
    <2>5. Accepted(again)
      BY <2>3, <2>4, AcceptedStays
    <2>6. Buffered(I!Defer(again, "ProgrammingEnable"))
      BY <2>4, <2>5, WaitIsBuffered DEF IspWaits
    <2> QED
      BY <1>1, <2>6, IdleIsBuffered DEF I!BeginProgramming, again, low, on
  <1>3. Buffered(I!LeaveProgramming(s))
    <2> DEFINE off == [s EXCEPT !.spi = FALSE]
               high == I!DriveReset(off, "High")
               left == [high EXCEPT !.programming = FALSE]
    <2>1. high = [s EXCEPT !.spi = FALSE, !.reset = "High",
                           !.board = [@ EXCEPT !.enabled = @ /\ FALSE]]
      BY <1>1 DEF I!DriveReset, IspForm
    <2>2. IspForm(left) /\ left.after = "None"
      BY <1>1, <2>1, ZenonT(30) DEF IspForm
    <2> HIDE DEF left
    <2> QED
      BY <2>2, IdleIsBuffered DEF I!LeaveProgramming, left
  <1>4. Buffered(I!RunUniversal(s))
    <2> DEFINE done == I!Transfer4(s, s.fixed[1], s.fixed[2], I!Filler)
    <2>1. Accepted(done)
      BY AcceptedKeeps
    <2>2. I!RunUniversal(s) =
            IF s.fixed[1] = I!InstrErase /\ s.fixed[2] = 128
              THEN I!Defer(done, "ReplyEraseByte")
              ELSE I!Idle(I!Write(done, <<I!Insync, I!Shifted(s.board, s.fixed[1], s.fixed[2]),
                                          I!Ok>>))
      BY DEF I!RunUniversal
    <2> HIDE DEF done
    <2>3. Buffered(I!Defer(done, "ReplyEraseByte"))
      BY <2>1, WaitIsBuffered DEF IspWaits
    <2>4. \A answer : Buffered(I!Idle(I!Write(done, answer)))
      BY <2>1, IdleIsBuffered DEF Accepted
    <2> QED
      BY <2>2, <2>3, <2>4
  <1>5. Buffered(I!ReadCells(s))
    <2>1. ASSUME NEW answer, NEW next
          PROVE  Buffered(I!Idle([I!Write(s, answer) EXCEPT !.address = next]))
      <3>1. IspForm(I!Write(s, answer)) /\ I!Write(s, answer).after = "None"
        BY AcceptedKeeps DEF Accepted
      <3>2. /\ IspForm([I!Write(s, answer) EXCEPT !.address = next])
            /\ [I!Write(s, answer) EXCEPT !.address = next].after = "None"
        BY <3>1 DEF IspForm
      <3> QED
        BY <3>2, IdleIsBuffered
    <2> DEFINE InFlash(i) ==
                 IF i % 2 = 1
                   THEN I!Shifted(s.board, I!InstrReadLow, s.address + (i - 1) \div 2)
                   ELSE I!Shifted(s.board, I!InstrReadHigh, s.address + (i - 1) \div 2)
               InEeprom(i) ==
                 I!Shifted(s.board, I!InstrReadEeprom, 2 * s.address + i - 1)
               cells == [i \in 1..I!PageLen(s) |->
                           IF I!MemType(s) = I!MemFlash THEN InFlash(i) ELSE InEeprom(i)]
               next == IF I!MemType(s) = I!MemFlash
                         THEN (s.address + I!PageLen(s) \div 2) % 65536 ELSE s.address
               answer == <<I!Insync>> \o cells \o <<I!Ok>>
    <2>2. I!ReadCells(s) = I!Idle([I!Write(s, answer) EXCEPT !.address = next])
      BY DEF I!ReadCells
    <2> HIDE DEF answer, next
    <2> QED
      BY <2>1, <2>2
  <1>6. ASSUME WholePage(s) PROVE Buffered(I!ProgramFlash(s))
    <2>1. \A t : Accepted(t) => \A instr, address, data :
            Buffered(I!Defer(I!Transfer4(t, instr, address, data), "ReplyOk"))
      BY AcceptedKeeps, WaitIsBuffered DEF IspWaits
    <2> QED
      BY <2>1, AcceptedKeeps DEF I!ProgramFlash
  <1>7. ASSUME WholePage(s) PROVE Buffered(I!ProgramEeprom(s))
    <2> DEFINE t == [s EXCEPT !.eepromNext = 0]
    <2>1. /\ IspForm(t) /\ t.eepromNext = 0 /\ t.header = s.header /\ t.page = s.page
          /\ \A f \in IspFields \ IspBeside : t[f] = s[f]
      BY <1>1 DEF IspForm
    <2> HIDE DEF t
    <2>2. Accepted(t) /\ WholePage(t) /\ t.eepromNext \in 0..I!PageLen(t)
      <3>1. Accepted(t) /\ WholePage(t)
        BY <1>7, <2>1, AcceptedStays DEF WholePage, I!PageLen
      <3>2. I!PageLen(t) \in Nat
        BY <3>1 DEF Accepted, Capacity, WholePage, I!PageLen
      <3> QED
        BY <2>1, <3>1, <3>2
    <2>3. Buffered(I!ProgramNextEepromByte(t))
      BY <2>2, NextEepromByte
    <2> QED
      BY <2>3 DEF I!ProgramEeprom, t
  <1> QED
    BY <1>2, <1>3, <1>4, <1>5, <1>6, <1>7

LEMMA AcceptedTries ==
  ASSUME NEW s, Accepted(s), s.spi, NEW hears
  PROVE  Buffered(I!TryProgrammingEnable(s, hears))
  <1> USE DEF IspFields, IspBeside
  <1> DEFINE high == I!DriveReset(s, "High")
             missed == [high EXCEPT !.attempts = @ + 1]
             low == I!DriveReset(missed, "Low")
             entered == [s EXCEPT !.programming = TRUE, !.board.enabled = TRUE]
             failed == [missed EXCEPT !.programming = FALSE]
  <1>1. Accepted(high) /\ high.spi
    BY AcceptedKeeps
  <1> HIDE DEF high
  <1>2. IspForm(missed) /\ missed.spi /\ \A f \in IspFields \ IspBeside : missed[f] = high[f]
    BY <1>1 DEF IspForm, Accepted
  <1> HIDE DEF missed
  <1>3. Accepted(missed)
    BY <1>1, <1>2, AcceptedStays
  <1>4. IspForm(failed) /\ failed.after = "None"
    BY <1>3 DEF IspForm, Accepted
  <1>5. IspForm(entered) /\ entered.after = "None"
    BY DEF IspForm, Accepted
  <1>6. Accepted(low) /\ low.spi
    BY <1>2, <1>3, AcceptedKeeps
  <1> HIDE DEF failed, entered, low
  <1>7. Buffered(I!Defer(low, "ProgrammingEnable"))
    BY <1>6, WaitIsBuffered DEF IspWaits
  <1>8. Buffered(I!ReplyOk(entered)) /\ Buffered(I!ReplyFailed(failed))
    BY <1>4, <1>5, IdleIsBuffered
  <1> QED
    BY <1>7, <1>8 DEF I!TryProgrammingEnable, high, missed, low, entered, failed

\* A command that is complete: with its end mark, or with its header and all
\* of its page.
LEMMA BufferedDispatch ==
  ASSUME NEW s, IspForm(s), Capacity(s), s.after = "None", s.phase = "Command"
  PROVE  /\ s.cmd # I!ProgPage => Buffered(I!DispatchFixed(s))
         /\ Len(s.header) = 2 /\ (s.oversize \/ s.cmd = I!ReadPage \/ WholePage(s)) =>
              Buffered(I!DispatchPage(s))
  <1>1. ASSUME s.cmd # I!ProgPage PROVE Buffered(I!DispatchFixed(s))
    <2>1. Accepted(s)
      BY <1>1 DEF Accepted
    <2>2. /\ \A n : IspForm([s EXCEPT !.pageSize = n]) /\ [s EXCEPT !.pageSize = n].after = "None"
          /\ \A n : IspForm([s EXCEPT !.address = n]) /\ [s EXCEPT !.address = n].after = "None"
      BY DEF IspForm, IspFields
    <2>3. /\ \A n : Buffered(I!ReplyOk([s EXCEPT !.pageSize = n]))
          /\ \A n : Buffered(I!ReplyOk([s EXCEPT !.address = n]))
      BY <2>2, IdleIsBuffered
    <2>4. Buffered(I!Defer(I!Transfer4(s, I!InstrErase, 128, I!Filler), "ReplyOk"))
      <3>1. Accepted(I!Transfer4(s, I!InstrErase, 128, I!Filler))
        BY <2>1, AcceptedKeeps
      <3> QED
        BY <3>1, WaitIsBuffered DEF IspWaits
    <2>5. Buffered(I!Idle(I!Tell(s)))
      BY IdleIsBuffered DEF I!Tell
    <2>6. \A answer : Buffered(I!Idle(I!Write(s, answer)))
      BY IdleIsBuffered
    <2>7. Buffered(I!ReplyOk(s))
      BY IdleIsBuffered
    <2> QED
      BY <2>1, <2>3, <2>4, <2>5, <2>6, <2>7, AcceptedCommands DEF I!DispatchFixed
  <1>2. ASSUME Len(s.header) = 2, s.oversize \/ s.cmd = I!ReadPage \/ WholePage(s)
        PROVE  Buffered(I!DispatchPage(s))
    <2>1. Buffered(I!ReplyOk(s)) /\ Buffered(I!ReplyFailed(s))
      BY IdleIsBuffered
    <2>2. s.cmd = I!ReadPage => Accepted(s)
      BY DEF Accepted, I!ReadPage, I!ProgPage
    <2>3. WholePage(s) => Accepted(s)
      BY DEF Accepted
    <2> QED
      BY <1>2, <2>1, <2>2, <2>3, AcceptedCommands DEF I!DispatchPage, I!PageIsRead
  <1> QED
    BY <1>1, <1>2

LEMMA BufferedFixed ==
  ASSUME NEW s, Buffered(s), s.after = "None", s.phase = "Fixed", NEW byte \in Nat
  PROVE  Buffered(I!TakeFixed(s, byte))
  <1> DEFINE taken == [s EXCEPT !.fixed = Append(@, byte)]
             command == [taken EXCEPT !.phase = "Command"]
             full == Len(s.fixed) = I!PayloadLen(s.cmd)
  <1>1. /\ IspForm(s) /\ Capacity(s) /\ s.header = <<>> /\ s.page = <<>>
        /\ s.oversize = FALSE /\ Len(s.fixed) <= I!PayloadLen(s.cmd)
    BY DEF Buffered, Parsed
  <1>2. I!PayloadLen(s.cmd) \in 0..5 /\ s.cmd # I!ProgPage /\ Len(s.fixed) \in Nat
    BY <1>1, PayloadLens DEF Capacity
  <1>3. /\ IspForm(taken) /\ taken.after = "None" /\ taken.phase = "Fixed"
        /\ taken.cmd = s.cmd /\ taken.header = <<>> /\ taken.page = <<>>
        /\ taken.oversize = FALSE /\ taken.fixed = Append(s.fixed, byte)
    BY <1>1 DEF IspForm, IspFields
  <1>4. Append(s.fixed, byte) \in Seq(Nat) /\ Len(Append(s.fixed, byte)) = Len(s.fixed) + 1
    BY <1>1 DEF Capacity
  <1>5. I!TakeFixed(s, byte) =
          CASE ~full -> taken
            [] full /\ byte # I!Eop -> I!ReplyNosync(s)
            [] full /\ byte = I!Eop -> I!DispatchFixed(command)
    BY DEF I!TakeFixed
  <1> HIDE DEF taken
  <1>6. /\ IspForm(command) /\ command.after = "None" /\ command.phase = "Command"
        /\ command.cmd = s.cmd /\ command.header = <<>> /\ command.page = <<>>
        /\ command.fixed = Append(s.fixed, byte)
    BY <1>3 DEF IspForm, IspFields, IspPhases
  <1> HIDE DEF command
  <1>7. Capacity(taken) /\ Capacity(command)
    BY <1>1, <1>2, <1>3, <1>4, <1>6 DEF Capacity
  <1>8. ~full => Buffered(taken)
    BY <1>2, <1>3, <1>4, <1>7 DEF Buffered, Parsed
  <1>9. Buffered(I!ReplyNosync(s)) /\ Buffered(I!DispatchFixed(command))
    BY <1>1, <1>2, <1>6, <1>7, IdleIsBuffered, BufferedDispatch
  <1> QED
    BY <1>5, <1>8, <1>9

LEMMA BufferedHeader ==
  ASSUME NEW s, Buffered(s), s.after = "None", s.phase = "PageHeader", NEW byte \in Nat
  PROVE  Buffered(I!TakeHeader(s, byte))
  <1> DEFINE taken == [s EXCEPT !.header = Append(@, byte)]
             Goes(over, p) == [taken EXCEPT !.oversize = over, !.phase = p]
  <1> USE DEF IspFields, IspPhases
  <1>1. /\ IspForm(s) /\ Capacity(s) /\ Len(s.header) < 2 /\ s.page = <<>>
        /\ s.oversize = FALSE
    BY DEF Buffered, Parsed
  <1>2. /\ IspForm(taken) /\ taken.after = "None" /\ taken.phase = "PageHeader"
        /\ taken.cmd = s.cmd /\ taken.header = Append(s.header, byte) /\ taken.page = <<>>
        /\ taken.oversize = FALSE /\ taken.fixed = s.fixed
    BY <1>1 DEF IspForm
  <1>3. taken.header \in Seq(Nat) /\ Len(taken.header) = Len(s.header) + 1
    BY <1>1, <1>2 DEF Capacity
  <1>4. I!TakeHeader(s, byte) =
          LET over == I!PageLen(taken) > MaxPage
          IN CASE Len(taken.header) < 2 -> taken
               [] Len(taken.header) = 2 /\ over /\ I!PageIsRead(s) ->
                    [taken EXCEPT !.oversize = TRUE, !.phase = "Eop"]
               [] Len(taken.header) = 2 /\ over /\ ~I!PageIsRead(s) ->
                    [taken EXCEPT !.oversize = TRUE, !.phase = "Discard",
                                  !.left = I!PageLen(taken)]
               [] Len(taken.header) = 2 /\ ~over /\ (I!PageIsRead(s) \/ I!PageLen(taken) = 0) ->
                    [taken EXCEPT !.phase = "Eop"]
               [] OTHER -> [taken EXCEPT !.phase = "PageBody"]
    BY DEF I!TakeHeader
  <1>5. Capacity(taken)
    <2>1. Len(taken.header) <= 2
      BY <1>1, <1>3 DEF Capacity
    <2>2. taken.page \in Seq(Nat) /\ Len(taken.page) <= MaxPage
      <3>1. taken.page = <<>>
        BY <1>2
      <3> QED
        BY <3>1, EmptyFits
    <2> QED
      BY <1>1, <1>2, <1>3, <2>1, <2>2 DEF Capacity
  <1> HIDE DEF taken
  <1>6. ASSUME Len(taken.header) < 2 PROVE Buffered(taken)
    BY <1>2, <1>5, <1>6 DEF Buffered, Parsed
  <1>7. ASSUME NEW t, IspForm(t), t.after = "None",
               t.fixed = taken.fixed, t.header = taken.header, t.page = taken.page,
               t.cmd = s.cmd, Len(taken.header) = 2,
               \/ t.phase = "Eop" /\ (t.oversize \/ I!PageIsRead(s) \/ I!PageLen(taken) = 0)
               \/ t.phase = "Discard" /\ t.oversize
               \/ /\ t.phase = "PageBody" /\ I!PageLen(taken) # 0
                  /\ ~(I!PageLen(taken) > MaxPage)
        PROVE  Buffered(t)
    <2>1. Capacity(t)
      BY <1>5, <1>7 DEF Capacity
    <2>2. I!PageLen(t) = I!PageLen(taken) /\ I!PageLen(t) \in Nat /\ Len(t.page) = 0
      BY <1>2, <1>3, <1>7 DEF I!PageLen
    <2>3. Parsed(t)
      BY <1>7, <2>2, HostAssumption DEF Parsed, WholePage, I!PageIsRead
    <2> QED
      BY <1>7, <2>1, <2>3 DEF Buffered
  <1>8. ASSUME Len(taken.header) = 2
        PROVE  Buffered([taken EXCEPT !.oversize = TRUE, !.phase = "Eop"])
    <2> DEFINE t == [taken EXCEPT !.oversize = TRUE, !.phase = "Eop"]
    <2>1. /\ IspForm(t) /\ t.after = "None" /\ t.fixed = taken.fixed
          /\ t.header = taken.header /\ t.page = taken.page /\ t.cmd = s.cmd
          /\ t.phase = "Eop" /\ t.oversize
      BY <1>2 DEF IspForm
    <2> HIDE DEF t
    <2>2. Buffered(t)
      BY <1>7, <1>8, <2>1
    <2> QED
      BY <2>2 DEF t
  <1>9. ASSUME Len(taken.header) = 2
        PROVE  Buffered([taken EXCEPT !.oversize = TRUE, !.phase = "Discard",
                                      !.left = I!PageLen(taken)])
    <2> DEFINE t == [taken EXCEPT !.oversize = TRUE, !.phase = "Discard",
                                  !.left = I!PageLen(taken)]
    <2>1. /\ IspForm(t) /\ t.after = "None" /\ t.fixed = taken.fixed
          /\ t.header = taken.header /\ t.page = taken.page /\ t.cmd = s.cmd
          /\ t.phase = "Discard" /\ t.oversize
      BY <1>2 DEF IspForm
    <2> HIDE DEF t
    <2>2. Buffered(t)
      BY <1>7, <1>9, <2>1
    <2> QED
      BY <2>2 DEF t
  <1>10. ASSUME Len(taken.header) = 2, I!PageIsRead(s) \/ I!PageLen(taken) = 0
         PROVE  Buffered([taken EXCEPT !.phase = "Eop"])
    <2> DEFINE t == [taken EXCEPT !.phase = "Eop"]
    <2>1. /\ IspForm(t) /\ t.after = "None" /\ t.fixed = taken.fixed
          /\ t.header = taken.header /\ t.page = taken.page /\ t.cmd = s.cmd
          /\ t.phase = "Eop"
      BY <1>2 DEF IspForm
    <2> HIDE DEF t
    <2>2. Buffered(t)
      BY <1>7, <1>10, <2>1
    <2> QED
      BY <2>2 DEF t
  <1>11. ASSUME Len(taken.header) = 2, I!PageLen(taken) # 0, ~(I!PageLen(taken) > MaxPage)
         PROVE  Buffered([taken EXCEPT !.phase = "PageBody"])
    <2> DEFINE t == [taken EXCEPT !.phase = "PageBody"]
    <2>1. /\ IspForm(t) /\ t.after = "None" /\ t.fixed = taken.fixed
          /\ t.header = taken.header /\ t.page = taken.page /\ t.cmd = s.cmd
          /\ t.phase = "PageBody"
      BY <1>2 DEF IspForm
    <2> HIDE DEF t
    <2>2. Buffered(t)
      BY <1>7, <1>11, <2>1
    <2> QED
      BY <2>2 DEF t
  <1>12. Len(taken.header) < 2 \/ Len(taken.header) = 2
    BY <1>1, <1>3 DEF Capacity
  <1> QED
    BY <1>4, <1>6, <1>8, <1>9, <1>10, <1>11, <1>12

LEMMA BufferedBody ==
  ASSUME NEW s, Buffered(s), s.after = "None", s.phase \in {"PageBody", "Discard"},
         NEW byte \in Nat
  PROVE  /\ s.phase = "PageBody" => Buffered(I!TakeBody(s, byte))
         /\ s.phase = "Discard" => Buffered(I!Discard(s))
  <1> USE DEF IspFields, IspPhases
  <1>1. ASSUME s.phase = "PageBody" PROVE Buffered(I!TakeBody(s, byte))
    <2> DEFINE taken == [s EXCEPT !.page = Append(@, byte)]
               whole == [taken EXCEPT !.phase = "Eop"]
    <2>1. /\ IspForm(s) /\ Capacity(s) /\ Len(s.header) = 2 /\ I!PageLen(s) <= MaxPage
          /\ Len(s.page) < I!PageLen(s)
      BY <1>1 DEF Buffered, Parsed
    <2>2. I!PageLen(s) \in Nat /\ Len(s.page) \in Nat
      BY <2>1 DEF Capacity, I!PageLen
    <2>3. /\ IspForm(taken) /\ taken.after = "None" /\ taken.phase = "PageBody"
          /\ taken.cmd = s.cmd /\ taken.header = s.header /\ taken.fixed = s.fixed
          /\ taken.page = Append(s.page, byte)
      BY <1>1, <2>1 DEF IspForm
    <2>4. taken.page \in Seq(Nat) /\ Len(taken.page) = Len(s.page) + 1
      BY <2>1, <2>3 DEF Capacity
    <2>5. I!TakeBody(s, byte) = IF Len(taken.page) < I!PageLen(s) THEN taken ELSE whole
      BY DEF I!TakeBody
    <2> HIDE DEF taken
    <2>6. /\ IspForm(whole) /\ whole.after = "None" /\ whole.phase = "Eop"
          /\ whole.header = s.header /\ whole.fixed = s.fixed /\ whole.page = taken.page
      BY <2>3 DEF IspForm
    <2> HIDE DEF whole
    <2>7. Capacity(taken) /\ Capacity(whole)
      <3>1. Len(taken.page) <= MaxPage
        BY <2>1, <2>2, <2>4, HostAssumption
      <3> QED
        BY <2>1, <2>3, <2>4, <2>6, <3>1 DEF Capacity
    <2>8. I!PageLen(taken) = I!PageLen(s) /\ I!PageLen(whole) = I!PageLen(s)
      BY <2>3, <2>6 DEF I!PageLen
    <2>9. CASE Len(taken.page) < I!PageLen(s)
      BY <2>1, <2>3, <2>5, <2>7, <2>8, <2>9 DEF Buffered, Parsed
    <2>10. CASE ~(Len(taken.page) < I!PageLen(s))
      <3>1. Len(whole.page) = I!PageLen(whole)
        BY <2>1, <2>2, <2>4, <2>6, <2>8, <2>10
      <3> QED
        BY <2>1, <2>5, <2>6, <2>7, <2>10, <3>1 DEF Buffered, Parsed, WholePage
    <2> QED
      BY <2>9, <2>10
  <1>2. ASSUME s.phase = "Discard" PROVE Buffered(I!Discard(s))
    <2> DEFINE less == [s EXCEPT !.left = @ - 1]
               over == [s EXCEPT !.left = 0, !.phase = "Eop"]
    <2>1. IspForm(s) /\ Capacity(s) /\ Len(s.header) = 2 /\ s.oversize
      BY <1>2 DEF Buffered, Parsed
    <2>2. /\ IspForm(less) /\ less.after = "None" /\ less.phase = "Discard"
          /\ less.header = s.header /\ less.fixed = s.fixed /\ less.page = s.page
          /\ less.oversize = s.oversize
      BY <1>2, <2>1 DEF IspForm
    <2>3. /\ IspForm(over) /\ over.after = "None" /\ over.phase = "Eop"
          /\ over.header = s.header /\ over.fixed = s.fixed /\ over.page = s.page
          /\ over.oversize = s.oversize
      BY <1>2, <2>1 DEF IspForm
    <2>4. I!Discard(s) = less \/ I!Discard(s) = over
      BY DEF I!Discard
    <2> HIDE DEF less, over
    <2>5. Buffered(less)
      BY <2>1, <2>2 DEF Buffered, Capacity, Parsed
    <2>6. Buffered(over)
      BY <2>1, <2>3 DEF Buffered, Capacity, Parsed
    <2> QED
      BY <2>4, <2>5, <2>6
  <1> QED
    BY <1>1, <1>2

LEMMA BufferedCommand ==
  ASSUME NEW s, Buffered(s), s.after = "None", s.phase = "Command", NEW byte \in Nat
  PROVE  Buffered(I!TakeCommand(s, byte))
  <1> USE DEF IspFields, IspPhases
  <1>1. IspForm(s) /\ Capacity(s) /\ Cleared(s)
    BY DEF Buffered, Parsed
  <1>2. Buffered(I!ReplyNosync(s))
    BY <1>1, IdleIsBuffered
  <1>3. Buffered([s EXCEPT !.cmd = byte, !.phase = "PageHeader"])
    <2> DEFINE t == [s EXCEPT !.cmd = byte, !.phase = "PageHeader"]
    <2>1. /\ IspForm(t) /\ t.after = "None" /\ t.phase = "PageHeader"
          /\ t.header = s.header /\ t.fixed = s.fixed /\ t.page = s.page
          /\ t.oversize = s.oversize
      BY <1>1 DEF IspForm
    <2> HIDE DEF t
    <2>2. Buffered(t)
      BY <1>1, <2>1 DEF Buffered, Capacity, Parsed, Cleared
    <2> QED
      BY <2>2 DEF t
  <1>4. ASSUME ~(I!PayloadLen(byte) < 0)
        PROVE  Buffered([s EXCEPT !.cmd = byte, !.phase = "Fixed"])
    <2> DEFINE t == [s EXCEPT !.cmd = byte, !.phase = "Fixed"]
    <2>1. /\ IspForm(t) /\ t.after = "None" /\ t.phase = "Fixed" /\ t.cmd = byte
          /\ t.header = s.header /\ t.fixed = s.fixed /\ t.page = s.page
          /\ t.oversize = s.oversize
      BY <1>1 DEF IspForm
    <2> HIDE DEF t
    <2>2. Len(t.fixed) <= I!PayloadLen(t.cmd)
      BY <1>1, <1>4, <2>1, PayloadLens DEF Cleared
    <2>3. Buffered(t)
      BY <1>1, <2>1, <2>2 DEF Buffered, Capacity, Parsed, Cleared
    <2> QED
      BY <2>3 DEF t
  <1>5. Buffered([s EXCEPT !.phase = "UnknownEop"])
    <2> DEFINE t == [s EXCEPT !.phase = "UnknownEop"]
    <2>1. /\ IspForm(t) /\ t.after = "None" /\ t.phase = "UnknownEop"
          /\ t.header = s.header /\ t.fixed = s.fixed /\ t.page = s.page
          /\ t.oversize = s.oversize
      BY <1>1 DEF IspForm
    <2> HIDE DEF t
    <2>2. Buffered(t)
      BY <1>1, <2>1 DEF Buffered, Capacity, Parsed, Cleared
    <2> QED
      BY <2>2 DEF t
  <1> QED
    BY <1>2, <1>3, <1>4, <1>5 DEF I!TakeCommand

LEMMA BufferedAccept ==
  ASSUME NEW s, Buffered(s), s.after = "None", NEW byte \in Nat
  PROVE  Buffered(I!Accept(s, byte))
  <1>1. IspForm(s) /\ Capacity(s) /\ Parsed(s) /\ s.phase \in IspPhases
    BY DEF Buffered, IspForm
  <1>2. CASE s.phase = "Command"
    BY <1>2, BufferedCommand DEF I!Accept
  <1>3. CASE s.phase = "UnknownEop"
    BY <1>1, <1>3, IdleIsBuffered DEF I!Accept
  <1>4. CASE s.phase = "Fixed"
    BY <1>4, BufferedFixed DEF I!Accept
  <1>5. CASE s.phase = "PageHeader"
    BY <1>5, BufferedHeader DEF I!Accept
  <1>6. CASE s.phase \in {"PageBody", "Discard"}
    BY <1>6, BufferedBody DEF I!Accept
  <1>7. CASE s.phase = "Eop"
    <2> DEFINE t == [s EXCEPT !.phase = "Command"]
    <2>1. /\ IspForm(t) /\ t.after = "None" /\ t.phase = "Command" /\ t.cmd = s.cmd
          /\ t.header = s.header /\ t.fixed = s.fixed /\ t.page = s.page
          /\ t.oversize = s.oversize
      BY <1>1 DEF IspForm, IspFields, IspPhases
    <2>2. I!Accept(s, byte) = IF byte = I!Eop THEN I!DispatchPage(t) ELSE I!ReplyNosync(s)
      BY <1>7 DEF I!Accept
    <2> HIDE DEF t
    <2>3. /\ Capacity(t) /\ Len(t.header) = 2
          /\ t.oversize \/ t.cmd = I!ReadPage \/ WholePage(t)
      BY <1>1, <1>7, <2>1 DEF Capacity, Parsed, WholePage, I!PageLen
    <2>4. Buffered(I!DispatchPage(t)) /\ Buffered(I!ReplyNosync(s))
      BY <1>1, <2>1, <2>3, BufferedDispatch, IdleIsBuffered
    <2> QED
      BY <2>2, <2>4
  <1> QED
    BY <1>1, <1>2, <1>3, <1>4, <1>5, <1>6, <1>7 DEF IspPhases

\* A wait that is over goes on with what was kept for it.
LEMMA BufferedContinue ==
  ASSUME NEW s, Buffered(s), NEW hears
  PROVE  Buffered(I!Continue(s, hears))
  <1>1. CASE s.after = "None"
    BY <1>1 DEF I!Continue
  <1>2. CASE s.after # "None"
    <2> DEFINE woken == [s EXCEPT !.after = "None"]
    <2>1. IspForm(s) /\ Capacity(s) /\ Suspended(s)
      BY <1>2 DEF Buffered
    <2>2. /\ IspForm(woken) /\ woken.after = "None" /\ woken.phase = s.phase
          /\ woken.cmd = s.cmd /\ woken.header = s.header /\ woken.fixed = s.fixed
          /\ woken.page = s.page /\ woken.eepromNext = s.eepromNext /\ woken.spi = s.spi
      BY <2>1 DEF IspForm, IspFields, IspWaits
    <2>3. I!Continue(s, hears) =
            CASE s.after = "ProgrammingEnable" -> I!TryProgrammingEnable(woken, hears)
              [] s.after = "ReplyOk" -> I!ReplyOk(woken)
              [] s.after = "ReplyEraseByte" ->
                   I!Idle(I!Write(woken, <<I!Insync, I!Filler, I!Ok>>))
              [] s.after = "EepromNext" -> I!ProgramNextEepromByte(woken)
      <3>1. s.after \in IspWaits \ {"None"}
        BY <1>2, <2>1 DEF IspForm
      <3> QED
        BY <3>1 DEF I!Continue, IspWaits
    <2> HIDE DEF woken
    <2>4. Accepted(woken)
      BY <2>1, <2>2 DEF Accepted, Capacity, Suspended, WholePage, I!PageLen
    <2>5. s.after = "EepromNext" => WholePage(woken) /\ woken.eepromNext \in 0..I!PageLen(woken)
      BY <2>1, <2>2 DEF Suspended, WholePage, I!PageLen
    <2>6. s.after = "ProgrammingEnable" => woken.spi
      BY <2>1, <2>2 DEF IspForm
    <2>7. s.after = "ProgrammingEnable" => Buffered(I!TryProgrammingEnable(woken, hears))
      BY <2>4, <2>6, AcceptedTries
    <2>8. s.after = "EepromNext" => Buffered(I!ProgramNextEepromByte(woken))
      BY <2>4, <2>5, NextEepromByte
    <2>9. /\ Buffered(I!ReplyOk(woken))
          /\ Buffered(I!Idle(I!Write(woken, <<I!Insync, I!Filler, I!Ok>>)))
      BY <2>2, IdleIsBuffered
    <2>10. s.after \in IspWaits \ {"None"}
      BY <1>2, <2>1 DEF IspForm
    <2> QED
      BY <2>3, <2>7, <2>8, <2>9, <2>10 DEF IspWaits
  <1> QED
    BY <1>1, <1>2

BufferedRead(a) == DOMAIN a = {"s", "rest"} /\ Buffered(a.s) /\ a.rest \in Seq(Nat)

LEMMA BufferedUpdate ==
  ASSUME NEW s, Buffered(s), NEW stream \in Seq(Nat), NEW hears
  PROVE  Buffered(I!Update(s, stream, hears).s) /\ I!Update(s, stream, hears).rest \in Seq(Nat)
  <1> DEFINE first == [s |-> I!Continue(s, hears), rest |-> <<>>]
             read == CHOOSE g : IspReads(g, first, stream, Len(stream))
             S == {n \in Nat : n \in 0..Len(stream) => BufferedRead(read[n])}
  <1>1. I!Update(s, stream, hears) = read[Len(stream)]
    BY DEF I!Update, IspReads
  <1>2. \E g : IspReads(g, first, stream, Len(stream))
    <2>1. Len(stream) \in Nat
      OBVIOUS
    <2> QED
      BY <2>1, IspReadingExists
  <1>3. IspReads(read, first, stream, Len(stream))
    BY <1>2
  <1>4. BufferedRead(first)
    BY BufferedContinue DEF BufferedRead
  <1> HIDE DEF read, first
  <1>5. 0 \in S
    BY <1>3, <1>4 DEF IspReads
  <1>6. ASSUME NEW n \in S PROVE n + 1 \in S
    <2>1. CASE n + 1 \in 0..Len(stream)
      <3>1. read[n + 1] = I!ReadByte(read[n], stream[n + 1]) /\ stream[n + 1] \in Nat
        BY <1>3, <2>1 DEF IspReads
      <3> DEFINE a == read[n]
                 byte == stream[n + 1]
      <3>2. BufferedRead(a) /\ byte \in Nat
        BY <2>1, <3>1
      <3> HIDE DEF a, byte
      <3>3. ASSUME I!Waiting(a.s) PROVE BufferedRead(I!ReadByte(a, byte))
        <4>1. Append(a.rest, byte) \in Seq(Nat)
          BY <3>2 DEF BufferedRead
        <4>2. I!ReadByte(a, byte) = [a EXCEPT !.rest = Append(@, byte)]
          BY <3>3 DEF I!ReadByte
        <4>3. BufferedRead([a EXCEPT !.rest = Append(@, byte)])
          BY <3>2, <4>1 DEF BufferedRead
        <4> QED
          BY <4>2, <4>3
      <3>4. ASSUME ~I!Waiting(a.s) PROVE BufferedRead(I!ReadByte(a, byte))
        <4>1. Buffered(I!Accept(a.s, byte))
          BY <3>2, <3>4, BufferedAccept DEF I!Waiting, BufferedRead
        <4>2. I!ReadByte(a, byte) = [a EXCEPT !.s = I!Accept(a.s, byte)]
          BY <3>4 DEF I!ReadByte
        <4>3. BufferedRead([a EXCEPT !.s = I!Accept(a.s, byte)])
          BY <3>2, <4>1 DEF BufferedRead
        <4> QED
          BY <4>2, <4>3
      <3>5. BufferedRead(I!ReadByte(a, byte))
        BY <3>3, <3>4
      <3> QED
        BY <3>1, <3>5 DEF a, byte
    <2> QED
      BY <2>1
  <1>7. S = Nat
    BY <1>5, <1>6, InductionOnSets
  <1> QED
    BY <1>1, <1>7 DEF BufferedRead

-----------------------------------------------------------------------------
(* What is at the port of the ISP programmer are bytes.                    *)

LEMMA ByteTuples ==
  /\ <<>> \in Seq(Nat)
  /\ \A a, b \in Nat : <<a, b>> \in Seq(Nat)
  /\ \A a, b, c \in Nat : <<a, b, c>> \in Seq(Nat)
  /\ \A a, b, c, d \in Nat : <<a, b, c, d>> \in Seq(Nat)
  /\ \A a, b, c, d, e \in Nat : <<a, b, c, d, e>> \in Seq(Nat)
  /\ \A p, q \in Seq(Nat) : p \o q \in Seq(Nat)
  OBVIOUS

LEMMA FramesAreBytes ==
  ASSUME programmer = "Isp", NEW op \in IspOps
  PROVE  Frame(op) \in Seq(Nat)
  <1> USE HostAssumption, ByteAssumption
  <1> USE DEF I!Eop, I!GetSync, I!SetDevice, I!EnterProgmode, I!LeaveProgmode, I!ChipErase,
              I!Universal, I!InstrErase, I!ReadSign, I!GetSignOn, I!LoadAddress, I!ProgPage,
              I!ReadPage, I!MemFlash, I!MemEeprom
  <1> DEFINE word == (IF op.at \in Flash THEN op.at ELSE op.at - EepromAt) \div 2
             memory == IF op.at \in Flash THEN I!MemFlash ELSE I!MemEeprom
             located == <<I!LoadAddress, word, I!Eop>>
  <1>1. op.kind \in IspKinds /\ op.n \in Nat /\ op.at \in Nat
    OBVIOUS
  <1>2. op.kind \in {"Write", "Read"} => located \in Seq(Nat)
    <2>1. op.kind \in {"Write", "Read"} => word \in Nat
      BY DEF Flash, Eeprom, EepromAt, U!EepromAt
    <2> HIDE DEF word
    <2> QED
      BY <2>1, ByteTuples
  <1>3. memory \in Nat
    OBVIOUS
  <1> HIDE DEF located, memory
  <1>4. op.kind = "Write" => Data(op) \in Seq(Nat)
    <2> DEFINE n == op.n
    <2>1. Data(op) = [i \in 1..n |-> Image[op.at + i - 1]] /\ n \in Nat
      BY <1>1 DEF Data
    <2>2. op.kind = "Write" => \A i \in 1..n : Image[op.at + i - 1] \in Nat
      OBVIOUS
    <2> HIDE DEF n
    <2>3. op.kind = "Write" => Data(op) \in [1..n -> Nat] /\ n \in Nat
      BY <2>1, <2>2
    <2> QED
      BY <2>3
  <1>5. [i \in 1..(MaxPage + 1) |-> I!Eop] \in Seq(Nat)
    <2> DEFINE m == MaxPage + 1
    <2>1. m \in Nat
      OBVIOUS
    <2> HIDE DEF m
    <2>2. [i \in 1..m |-> I!Eop] \in Seq(Nat)
      BY <2>1
    <2> QED
      BY <2>2 DEF m
  <1>6. op.kind = "Write" =>
          located \o <<I!ProgPage, op.n, memory>> \o Data(op) \o <<I!Eop>> \in Seq(Nat)
    <2>1. <<I!ProgPage, op.n, memory>> \in Seq(Nat) /\ <<I!Eop>> \in Seq(Nat)
      BY <1>1, <1>3
    <2> QED
      BY <1>2, <1>4, <2>1, ByteTuples
  <1>7. op.kind = "Read" => located \o <<I!ReadPage, op.n, memory, I!Eop>> \in Seq(Nat)
    <2>1. <<I!ReadPage, op.n, memory, I!Eop>> \in Seq(Nat)
      BY <1>1, <1>3
    <2> QED
      BY <1>2, <2>1, ByteTuples
  <1>8. <<I!ProgPage, MaxPage + 1, I!MemFlash>> \o [i \in 1..(MaxPage + 1) |-> I!Eop] \o <<I!Eop>>
          \in Seq(Nat)
    <2>1. <<I!ProgPage, MaxPage + 1, I!MemFlash>> \in Seq(Nat) /\ <<I!Eop>> \in Seq(Nat)
      OBVIOUS
    <2> QED
      BY <1>5, <2>1, ByteTuples
  <1>9. /\ <<I!GetSync, I!Eop>> \in Seq(Nat)
        /\ <<I!SetDevice, PageBytes, I!Eop, I!EnterProgmode, I!Eop>> \in Seq(Nat)
        /\ <<I!LeaveProgmode, I!Eop>> \in Seq(Nat) /\ <<I!ChipErase, I!Eop>> \in Seq(Nat)
        /\ <<I!Universal, I!InstrErase, 128, I!Eop>> \in Seq(Nat)
        /\ <<I!ReadSign, I!Eop>> \in Seq(Nat) /\ <<I!GetSignOn, I!Eop>> \in Seq(Nat)
        /\ <<I!ReadPage, 1, I!MemFlash, I!Eop>> \in Seq(Nat) /\ <<1, I!Eop>> \in Seq(Nat)
    BY ByteTuples
  <1>10. IspFrame(op) \in Seq(Nat)
    <2> DEFINE frame ==
          CASE op.kind = "Sync" -> <<I!GetSync, I!Eop>>
            [] op.kind = "Setup" -> <<I!SetDevice, PageBytes, I!Eop, I!EnterProgmode, I!Eop>>
            [] op.kind = "Leave" -> <<I!LeaveProgmode, I!Eop>>
            [] op.kind = "Erase" -> <<I!ChipErase, I!Eop>>
            [] op.kind = "UniversalErase" -> <<I!Universal, I!InstrErase, 128, I!Eop>>
            [] op.kind = "Sign" -> <<I!ReadSign, I!Eop>>
            [] op.kind = "Name" -> <<I!GetSignOn, I!Eop>>
            [] op.kind = "Write" ->
                 located \o <<I!ProgPage, op.n, memory>> \o Data(op) \o <<I!Eop>>
            [] op.kind = "Read" -> located \o <<I!ReadPage, op.n, memory, I!Eop>>
            [] op.kind = "Oversize" ->
                 <<I!ProgPage, MaxPage + 1, I!MemFlash>> \o
                   [i \in 1..(MaxPage + 1) |-> I!Eop] \o <<I!Eop>>
            [] op.kind = "OddRead" -> <<I!ReadPage, 1, I!MemFlash, I!Eop>>
            [] op.kind = "Strange" -> <<1, I!Eop>>
    <2>1. IspFrame(op) = frame
      BY DEF IspFrame, located, memory
    <2>2. frame \in Seq(Nat)
      BY <1>1, <1>6, <1>7, <1>8, <1>9 DEF IspKinds
    <2> QED
      BY <2>1, <2>2
  <1> QED
    BY <1>10 DEF Frame

-----------------------------------------------------------------------------
(* The buffers of the ISP programmer over a whole behaviour                *)

BuffersInv ==
  /\ WiresInv
  /\ Buffered(isp)
  /\ programmer = "Isp" => input \in Seq(Nat)

LEMMA BufferedProgrammer == \A board : Buffered(I!Programmer(board))
  <1> SUFFICES ASSUME NEW board PROVE Buffered(I!Programmer(board))
    OBVIOUS
  <1> DEFINE u == I!Programmer(board)
  <1>1. /\ IspForm(u) /\ u.after = "None" /\ u.phase = "Command"
        /\ u.fixed = <<>> /\ u.header = <<>> /\ u.page = <<>> /\ u.oversize = FALSE
    BY IspStarts DEF I!Programmer
  <1> HIDE DEF u
  <1>2. Capacity(u) /\ Parsed(u)
    BY <1>1, HostAssumption DEF Capacity, Parsed, Cleared
  <1>3. Buffered(u)
    BY <1>1, <1>2 DEF Buffered
  <1> QED
    BY <1>3 DEF u

LEMMA BufferedRests ==
  ASSUME NEW s, Buffered(s)
  PROVE  /\ Buffered(I!Shutdown(s)) /\ Buffered(I!Start(s))
         /\ \A x : Buffered([s EXCEPT !.board = x]) /\ Buffered([s EXCEPT !.out = x])
  <1> USE DEF IspFields
  <1>1. ASSUME NEW t, Buffered(t), NEW u, IspForm(u),
               u.fixed = t.fixed, u.header = t.header, u.page = t.page, u.phase = t.phase,
               u.cmd = t.cmd, u.after = t.after, u.eepromNext = t.eepromNext,
               u.oversize = t.oversize
        PROVE  Buffered(u)
    <2>1. I!PageLen(u) = I!PageLen(t)
      BY <1>1 DEF I!PageLen
    <2>2. Capacity(u)
      BY <1>1 DEF Buffered, Capacity
    <2>3. CASE t.after = "None"
      BY <1>1, <2>1, <2>2, <2>3 DEF Buffered, Parsed, Cleared, WholePage
    <2>4. CASE t.after # "None"
      BY <1>1, <2>1, <2>2, <2>4 DEF Buffered, Suspended, WholePage
    <2> QED
      BY <2>3, <2>4
  <1>2. IspForm(s)
    BY DEF Buffered
  <1>3. ASSUME NEW t, Buffered(t), NEW level \in {"High", "Pullup"}
        PROVE  Buffered(I!DriveReset(t, level))
    <2> DEFINE u == I!DriveReset(t, level)
    <2>1. IspForm(t)
      BY <1>3 DEF Buffered
    <2>2. IspForm(u)
      BY <1>3, <2>1, IspParts
    <2>3. /\ u.fixed = t.fixed /\ u.header = t.header /\ u.page = t.page
          /\ u.phase = t.phase /\ u.cmd = t.cmd /\ u.after = t.after
          /\ u.eepromNext = t.eepromNext /\ u.oversize = t.oversize
      BY <2>1 DEF I!DriveReset, IspForm
    <2> HIDE DEF u
    <2>4. Buffered(u)
      BY <1>1, <1>3, <2>2, <2>3
    <2> QED
      BY <2>4 DEF u
  <1>5. Buffered(I!Shutdown(s))
    <2> DEFINE t == I!Idle(I!DriveReset(s, "Pullup"))
               u == [t EXCEPT !.spi = FALSE, !.programming = FALSE, !.after = "None"]
               v == I!DriveReset(s, "Pullup")
    <2>1. IspForm(v)
      BY <1>2, IspParts
    <2>2. /\ t.fixed = <<>> /\ t.header = <<>> /\ t.page = <<>> /\ t.oversize = FALSE
          /\ t.phase = "Command"
      <3> HIDE DEF v
      <3>1. t = I!Idle(v)
        BY DEF v
      <3> HIDE DEF t
      <3> QED
        BY <2>1, <3>1 DEF I!Idle, IspForm
    <2>3. IspForm(t)
      BY <2>1, IspParts
    <2> HIDE DEF t
    <2>4. /\ u.fixed = <<>> /\ u.header = <<>> /\ u.page = <<>> /\ u.oversize = FALSE
          /\ u.phase = "Command" /\ u.after = "None"
      BY <2>2, <2>3 DEF IspForm
    <2>5. I!Shutdown(s) = u
      BY DEF I!Shutdown, t
    <2>6. IspForm(u)
      BY <1>2, <2>5, IspRests DEF IspReleased
    <2> HIDE DEF u
    <2>7. Capacity(u) /\ Parsed(u)
      BY <2>4, HostAssumption DEF Capacity, Parsed, Cleared
    <2>8. Buffered(u)
      BY <2>4, <2>6, <2>7 DEF Buffered
    <2> QED
      BY <2>5, <2>8
  <1>6. ASSUME NEW f \in {"board", "out"}, NEW x PROVE Buffered([s EXCEPT ![f] = x])
    <2> DEFINE u == [s EXCEPT ![f] = x]
    <2>1. IspForm(u)
      BY <1>2, IspRests
    <2>2. /\ u.fixed = s.fixed /\ u.header = s.header /\ u.page = s.page
          /\ u.phase = s.phase /\ u.cmd = s.cmd /\ u.after = s.after
          /\ u.eepromNext = s.eepromNext /\ u.oversize = s.oversize
      BY <1>2 DEF IspForm
    <2> HIDE DEF u
    <2>3. Buffered(u)
      BY <1>1, <2>1, <2>2
    <2> QED
      BY <2>3 DEF u
  <1>7. \A x : Buffered([s EXCEPT !.board = x]) /\ Buffered([s EXCEPT !.out = x])
    BY <1>6
  <1> QED
    BY <1>3, <1>5, <1>7 DEF I!Start

LEMMA BuffersInitially == ProgrammingInit => BuffersInv
  <1>1. ProgrammingInit => Buffered(isp)
    <2>1. Buffered(I!Programmer(IspTarget))
      BY BufferedProgrammer
    <2> QED
      BY <2>1 DEF ProgrammingInit
  <1> QED
    BY <1>1, WiresInitially DEF BuffersInv, ProgrammingInit

LEMMA SessionKeepsBuffers ==
  ASSUME BuffersInv,
         \/ \E method \in {"Isp", "Updi"}, lock \in BOOLEAN : Begin(method, lock)
         \/ End
  PROVE  Buffered(isp') /\ input' \in Seq(Nat)
  <1>1. ASSUME NEW method \in {"Isp", "Updi"}, NEW lock \in BOOLEAN, Begin(method, lock)
        PROVE  Buffered(isp') /\ input' \in Seq(Nat)
    <2> DEFINE ispHere == IF jumpered # method THEN [isp EXCEPT !.board = IspTarget] ELSE isp
    <2>1. Buffered(ispHere)
      BY BufferedRests DEF BuffersInv
    <2>2. /\ isp' = IF method = "Isp" THEN I!Start(ispHere) ELSE ispHere
          /\ input' = <<>>
      BY <1>1 DEF Begin
    <2> HIDE DEF ispHere
    <2> QED
      BY <2>1, <2>2, BufferedRests, EmptyFits
  <1>2. ASSUME End PROVE Buffered(isp') /\ input' \in Seq(Nat)
    <2>1. Buffered(I!Shutdown(isp)) /\ Buffered(isp)
      BY BufferedRests DEF BuffersInv
    <2>2. Buffered([I!Shutdown(isp) EXCEPT !.out = <<>>])
      BY <2>1, BufferedRests
    <2> QED
      BY <1>2, <2>1, <2>2, EmptyFits DEF End
  <1> QED
    BY <1>1, <1>2

LEMMA HostKeepsBuffers ==
  ASSUME BuffersInv, HostNext
  PROVE  Buffered(isp') /\ (programmer' = "Isp" => input' \in Seq(Nat))
  <1>1. ASSUME NEW op, May(op), programmer = "Isp"
        PROVE  Frame(op) \in Seq(Nat)
    BY <1>1, FramesAreBytes DEF May
  <1>2. ASSUME NEW op, Send(op)
        PROVE  Buffered(isp') /\ (programmer' = "Isp" => input' \in Seq(Nat))
    BY <1>1, <1>2 DEF Send, BuffersInv
  <1>3. ASSUME NEW op, Interrupt(op)
        PROVE  Buffered(isp') /\ (programmer' = "Isp" => input' \in Seq(Nat))
    <2>1. programmer = "Isp" => input' \in Seq(Nat)
      <3>1. SUFFICES ASSUME programmer = "Isp" PROVE input' \in Seq(Nat)
        OBVIOUS
      <3>2. Frame(op) \in Seq(Nat)
        BY <1>1, <1>3, <3>1 DEF Interrupt
      <3>3. PICK k \in Cuts(Len(Frame(op))) : input' = SubSeq(Frame(op), 1, k)
        BY <1>3 DEF Interrupt
      <3> DEFINE frame == Frame(op)
      <3>4. frame \in Seq(Nat) /\ Len(frame) \in Nat
        BY <3>2
      <3> HIDE DEF frame
      <3>5. k \in Int /\ k <= Len(frame)
        BY <3>3, <3>4 DEF Cuts, frame
      <3>6. SubSeq(frame, 1, k) \in Seq(Nat)
        <4>1. \A j \in 1..k : frame[j] \in Nat
          BY <3>4, <3>5
        <4> QED
          BY <3>4, <3>5, <4>1, SubSeqProperties
      <3> QED
        BY <3>3, <3>6 DEF frame
    <2> QED
      BY <1>3, <2>1 DEF Interrupt, BuffersInv
  <1>4. ASSUME Take \/ Drain
        PROVE  Buffered(isp') /\ (programmer' = "Isp" => input' \in Seq(Nat))
    <2>1. isp' = [isp EXCEPT !.out = <<>>] /\ UNCHANGED <<programmer, input>>
      BY <1>4 DEF Take, Drain
    <2> QED
      BY <2>1, BufferedRests DEF BuffersInv
  <1> QED
    BY <1>2, <1>3, <1>4 DEF HostNext

LEMMA BuffersNext == BuffersInv /\ [ProgrammingNext]_programmingVars => BuffersInv'
  <1> SUFFICES ASSUME BuffersInv, [ProgrammingNext]_programmingVars PROVE BuffersInv'
    OBVIOUS
  <1>1. WiresInv'
    BY WiresNext DEF BuffersInv
  <1>2. Buffered(isp') /\ (programmer' = "Isp" => input' \in Seq(Nat))
    <2>1. CASE \/ \E method \in {"Isp", "Updi"}, lock \in BOOLEAN : Begin(method, lock)
               \/ End
      BY <2>1, SessionKeepsBuffers
    <2>2. CASE StartUpdiCheck \/ PollUpdiCheck \/ UNCHANGED programmingVars
      BY <2>2 DEF StartUpdiCheck, PollUpdiCheck, programmingVars, BuffersInv
    <2>3. CASE IspUpdate
      <3>1. programmer = "Isp" /\ input \in Seq(Nat) /\ Buffered(isp)
        BY <2>3 DEF IspUpdate, IspDue, BuffersInv
      <3>2. PICK hears \in BOOLEAN : /\ isp' = I!Update(isp, input, hears).s
                                     /\ input' = I!Update(isp, input, hears).rest
        BY <2>3 DEF IspUpdate
      <3> QED
        BY <3>1, <3>2, BufferedUpdate
    <2>4. CASE UpdiUpdate
      BY <2>4 DEF UpdiUpdate, UpdiDue, BuffersInv
    <2>5. CASE HostNext
      BY <2>5, HostKeepsBuffers
    <2>6. CASE ResetTarget
      BY <2>6 DEF ResetTarget, BuffersInv
    <2>7. CASE ResetController
      <3>1. \A board : Buffered(I!Programmer(board)) /\ Buffered(I!Start(I!Programmer(board)))
        BY BufferedRests, BufferedProgrammer
      <3> QED
        BY <2>7, <3>1, EmptyFits DEF ResetController
    <2> QED
      BY <2>1, <2>2, <2>3, <2>4, <2>5, <2>6, <2>7 DEF ProgrammingNext
  <1> QED
    BY <1>1, <1>2 DEF BuffersInv

\* A page on its way to the target is all there, and whatever is read from the
\* host meanwhile or next finds room in the parser's buffers.
PagesAreWhole ==
  /\ Len(isp.fixed) <= 6 /\ Len(isp.header) <= 2 /\ Len(isp.page) <= MaxPage
  /\ isp.after # "None" /\ isp.cmd = I!ProgPage =>
       Len(isp.header) = 2 /\ Len(isp.page) = I!PageLen(isp)
  /\ isp.after = "EepromNext" => isp.eepromNext <= Len(isp.page)

\* For every stream of bytes, cut off or out of step as it may be: nothing is
\* stored beyond the parser's buffers, and while flash or EEPROM is written and
\* its wait runs, the page is complete, with the cursor of the EEPROM bytes
\* within it (IspProgrammer::_accept, _programFlash and _programNextEepromByte).
THEOREM IspPagesAreWhole == ProgrammingSpec => []PagesAreWhole
  <1>1. BuffersInv => PagesAreWhole
    <2>1. Buffered(isp) => /\ Capacity(isp)
                           /\ isp.after # "None" => Suspended(isp)
      BY DEF Buffered
    <2>2. Capacity(isp) /\ WholePage(isp) => I!PageLen(isp) \in Nat
      BY DEF Capacity, WholePage, I!PageLen
    <2> QED
      BY <2>1, <2>2 DEF BuffersInv, PagesAreWhole, Capacity, Suspended, WholePage
  <1>2. ProgrammingSpec => []BuffersInv
    BY BuffersInitially, BuffersNext, PTL DEF ProgrammingSpec
  <1> QED
    BY <1>1, <1>2, PTL

-----------------------------------------------------------------------------
(* The buffer of the UPDI programmer: a frame is stored within it, and one  *)
(* whose command waits for a break is all there.                            *)

WholeFrame(raw) == Len(raw) >= 5 /\ Len(raw) = 4 + raw[3]

\* What each phase of the parser has taken so far.
Framed(s) ==
  /\ OnTheWire(s)
  /\ s.raw \in Seq(Nat) /\ Len(s.raw) <= 4 + MaxPage
  /\ s.brk # "Idle" => s.rx = "Start" /\ s.pending # "None" /\ WholeFrame(s.raw)
  /\ s.rx = "Start" /\ s.brk = "Idle" => s.raw = <<>>
  /\ s.rx = "Seq" => Len(s.raw) = 1
  /\ s.rx = "Size" => Len(s.raw) = 2
  /\ s.rx = "Token" => Len(s.raw) = 3
  /\ s.rx \in {"Token", "Body", "Crc"} => s.raw[3] \in 0..MaxPage
  /\ s.rx = "Body" => 4 <= Len(s.raw) /\ Len(s.raw) < 4 + s.raw[3]
  /\ s.rx = "Crc" => Len(s.raw) = 4 + s.raw[3]

\* A frame is being answered.
AtHand(s) == OnTheWire(s) /\ s.rx = "Start" /\ s.brk = "Idle"

\* It has been, or its command waits for a break with the frame kept.
Answered(s) == AtHand(s) /\ s.raw = <<>>
Awaiting(s, raw) ==
  OnTheWire(s) /\ s.rx = "Start" /\ s.brk # "Idle" /\ s.pending # "None" /\ s.raw = raw

LEMMA HandChanges ==
  ASSUME NEW s, AtHand(s)
  PROVE  /\ \A x : AtHand([s EXCEPT !.board = x])
         /\ \A x : AtHand([s EXCEPT !.connected = x])
         /\ \A x : AtHand([s EXCEPT !.inProg = x])
         /\ \A x, y : AtHand([s EXCEPT !.connected = x, !.inProg = y])
         /\ AtHand([s EXCEPT !.pending = "None"])
  <1> USE DEF UpdiFields
  <1>1. OnTheWire(s) /\ UpdiForm(s) /\ s.rx = "Start" /\ s.brk = "Idle"
    BY DEF AtHand, OnTheWire
  <1>2. /\ \A x : OnTheWire([s EXCEPT !.board = x])
        /\ \A x : OnTheWire([s EXCEPT !.connected = x])
        /\ \A x : OnTheWire([s EXCEPT !.inProg = x])
        /\ \A x, y : OnTheWire([s EXCEPT !.connected = x, !.inProg = y])
        /\ OnTheWire([s EXCEPT !.pending = "None"])
    BY <1>1, UpdiChanges
  <1>3. /\ \A x : [s EXCEPT !.board = x].rx = "Start" /\ [s EXCEPT !.board = x].brk = "Idle"
        /\ \A x : /\ [s EXCEPT !.connected = x].rx = "Start"
                  /\ [s EXCEPT !.connected = x].brk = "Idle"
        /\ \A x : /\ [s EXCEPT !.inProg = x].rx = "Start"
                  /\ [s EXCEPT !.inProg = x].brk = "Idle"
        /\ \A x, y : /\ [s EXCEPT !.connected = x, !.inProg = y].rx = "Start"
                     /\ [s EXCEPT !.connected = x, !.inProg = y].brk = "Idle"
        /\ [s EXCEPT !.pending = "None"].rx = "Start"
        /\ [s EXCEPT !.pending = "None"].brk = "Idle"
    BY <1>1 DEF UpdiForm
  <1>4. /\ \A x : AtHand([s EXCEPT !.board = x])
        /\ \A x : AtHand([s EXCEPT !.connected = x])
        /\ \A x : AtHand([s EXCEPT !.inProg = x])
    BY <1>2, <1>3, Zenon DEF AtHand
  <1>5. ASSUME NEW x, NEW y
        PROVE  AtHand([s EXCEPT !.connected = x, !.inProg = y])
    <2> DEFINE t == [s EXCEPT !.connected = x, !.inProg = y]
    <2>1. OnTheWire(t)
      BY <1>1, UpdiChanges
    <2>2. t.rx = "Start" /\ t.brk = "Idle"
      BY <1>1 DEF UpdiForm
    <2> HIDE DEF t
    <2>3. AtHand(t)
      BY <2>1, <2>2 DEF AtHand
    <2> QED
      BY <2>3 DEF t
  <1>6. AtHand([s EXCEPT !.pending = "None"])
    BY <1>2, <1>3, Zenon DEF AtHand
  <1> QED
    BY <1>4, <1>5, <1>6

LEMMA HandAnswers ==
  ASSUME NEW s, AtHand(s)
  PROVE  /\ \A status, data : Answered(U!Answer(s, status, data))
         /\ \A status : Answered(U!Reply(s, status))
         /\ Answered(U!ReplyOk(s)) /\ Answered(U!ReplyNoPower(s))
  <1>1. ASSUME NEW status, NEW data PROVE Answered(U!Answer(s, status, data))
    <2> DEFINE t == U!Answer(s, status, data)
    <2>1. OnTheWire(t)
      BY UpdiAnswers DEF AtHand
    <2>2. t.rx = "Start" /\ t.brk = "Idle" /\ t.raw = <<>>
      BY DEF U!Answer, AtHand, OnTheWire, UpdiForm, UpdiFields
    <2> HIDE DEF t
    <2>3. Answered(t)
      BY <2>1, <2>2 DEF Answered, AtHand
    <2> QED
      BY <2>3 DEF t
  <1> QED
    BY <1>1 DEF U!Reply, U!ReplyOk, U!ReplyNoPower

LEMMA HandKeeps ==
  ASSUME NEW s, AtHand(s), NEW w
  PROVE  /\ AtHand(U!Keep(s, w)) /\ Answered(U!Conclude(s, w))
         /\ \A status : Answered(U!Reply(U!Keep(s, w), status))
         /\ \A status, data : Answered(U!Answer(U!Keep(s, w), status, data))
         /\ Answered(U!ReplyNoPower(U!Keep(s, w)))
  <1>1. AtHand(U!Keep(s, w))
    BY HandChanges DEF U!Keep
  <1> QED
    BY <1>1, HandAnswers DEF U!Conclude

LEMMA HandBreaksOff ==
  ASSUME NEW s, AtHand(s), NEW pending \in UpdiPendings \ {"None"}
  PROVE  Awaiting(U!StartBreak(s, pending), s.raw)
  <1> DEFINE t == U!StartBreak(s, pending)
  <1>1. OnTheWire(t)
    BY UpdiBreaksOff DEF AtHand
  <1>2. t.rx = "Start" /\ t.brk # "Idle" /\ t.pending = pending /\ t.raw = s.raw
    BY DEF U!StartBreak, AtHand, OnTheWire, UpdiForm, UpdiFields
  <1> HIDE DEF t
  <1>3. Awaiting(t, s.raw)
    BY <1>1, <1>2 DEF Awaiting
  <1> QED
    BY <1>3 DEF t

\* The commands that are answered at once.
LEMMA HandCommands ==
  ASSUME NEW s, AtHand(s)
  PROVE  /\ Answered(U!FinishDescriptor(s)) /\ Answered(U!SetParameter(s))
         /\ Answered(U!GetParameter(s)) /\ Answered(U!EnterProgmode(s))
         /\ Answered(U!LeaveProgmode(s)) /\ Answered(U!Go(s)) /\ Answered(U!SignOff(s))
         /\ Answered(U!Erase(s)) /\ Answered(U!ReadMemory(s)) /\ Answered(U!WriteMemory(s))
  <1>1. \A x, w : /\ Answered(U!Conclude([s EXCEPT !.inProg = x], w))
                  /\ Answered(U!Conclude([s EXCEPT !.connected = x], w))
    BY HandChanges, HandKeeps
  <1>2. Answered(U!FinishDescriptor(s))
    BY <1>1 DEF U!FinishDescriptor
  <1>3. Answered(U!SetParameter(s)) /\ Answered(U!GetParameter(s))
    BY HandAnswers DEF U!SetParameter, U!GetParameter
  <1>4. Answered(U!EnterProgmode(s))
    <2>1. \A w : /\ Answered(U!ReplyNoPower(U!Keep(s, w)))
                 /\ Answered(U!Reply(U!Keep(s, w), U!RspIllegalState))
      BY HandKeeps
    <2>2. \A w : Answered(U!Conclude([s EXCEPT !.inProg = s.inProg \/ w.good], w))
      BY <1>1
    <2> QED
      BY <2>1, <2>2, SMT DEF U!EnterProgmode
  <1>5. Answered(U!LeaveProgmode(s))
    BY <1>1, HandKeeps DEF U!LeaveProgmode
  <1>6. ASSUME NEW t, AtHand(t), NEW w PROVE AtHand(U!DisableUpdi(t, w))
    <2>1. \A v : /\ AtHand(U!Keep(t, v))
                 /\ AtHand([U!Keep(t, v) EXCEPT !.connected = FALSE, !.inProg = FALSE])
      BY <1>6, HandKeeps, HandChanges
    <2> QED
      BY <2>1 DEF U!DisableUpdi
  <1>7. Answered(U!Go(s))
    BY <1>6, HandAnswers DEF U!Go
  <1>8. Answered(U!SignOff(s))
    <2>1. \A x, w : AtHand(U!DisableUpdi([s EXCEPT !.inProg = x], w))
      BY <1>6, HandChanges
    <2>2. ASSUME NEW t, AtHand(t)
          PROVE  Answered(U!ReplyNoPower(t)) /\ Answered(U!ReplyOk(t))
      BY <2>2, HandAnswers
    <2>3. AtHand([s EXCEPT !.connected = FALSE])
      BY HandChanges
    <2> QED
      BY <2>1, <2>2, <2>3 DEF U!SignOff
  <1>9. Answered(U!EraseChipNow(s))
    BY <1>1, HandKeeps DEF U!EraseChipNow
  <1>10. Answered(U!ErasePage(s))
    BY HandKeeps DEF U!ErasePage
  <1>11. Answered(U!Erase(s))
    BY <1>9, <1>10, HandAnswers DEF U!Erase
  <1>12. Answered(U!ReadMemory(s))
    BY HandKeeps DEF U!ReadMemory
  <1>13. Answered(U!WriteMemory(s))
    BY HandKeeps DEF U!WriteMemory
  <1> QED
    BY <1>2, <1>3, <1>4, <1>5, <1>7, <1>8, <1>11, <1>12, <1>13

LEMMA HandDispatches ==
  ASSUME NEW s, AtHand(s)
  PROVE  Answered(U!Dispatch(s)) \/ Awaiting(U!Dispatch(s), s.raw)
  <1>1. Answered(U!SetDescriptor(s)) \/ Awaiting(U!SetDescriptor(s), s.raw)
    <2>1. ASSUME NEW x, NEW y, NEW z
          PROVE  Awaiting(U!StartBreak([s EXCEPT !.flashPage = x, !.eepromPage = y,
                                                 !.nvmVersion = z], "Descriptor"), s.raw)
      <3> DEFINE t == [s EXCEPT !.flashPage = x, !.eepromPage = y, !.nvmVersion = z]
      <3>1. OnTheWire(t)
        BY UpdiChanges DEF AtHand
      <3>2. t.rx = "Start" /\ t.brk = "Idle" /\ t.raw = s.raw
        BY DEF AtHand, OnTheWire, UpdiForm, UpdiFields
      <3> HIDE DEF t
      <3>3. Awaiting(U!StartBreak(t, "Descriptor"), t.raw)
        BY <3>1, <3>2, HandBreaksOff DEF AtHand, UpdiPendings
      <3> QED
        BY <3>2, <3>3 DEF t
    <2> DEFINE flash == IF U!Body(s)[2] = 0 THEN 64 ELSE U!Body(s)[2]
               eeprom == IF U!Body(s)[3] = 0 THEN 32 ELSE U!Body(s)[3]
               version == IF flash >= 256 THEN 2 ELSE 1
    <2>2. U!SetDescriptor(s) =
            IF Len(U!Body(s)) < 3 THEN U!Reply(s, U!RspFailed)
            ELSE U!StartBreak([s EXCEPT !.flashPage = flash, !.eepromPage = eeprom,
                                        !.nvmVersion = version], "Descriptor")
      BY DEF U!SetDescriptor
    <2> HIDE DEF flash, eeprom, version
    <2>3. Awaiting(U!StartBreak([s EXCEPT !.flashPage = flash, !.eepromPage = eeprom,
                                          !.nvmVersion = version], "Descriptor"), s.raw)
      BY <2>1
    <2>4. Answered(U!Reply(s, U!RspFailed))
      BY HandAnswers
    <2> QED
      BY <2>2, <2>3, <2>4
  <1>2. Answered(U!BeginEnter(s)) \/ Awaiting(U!BeginEnter(s), s.raw)
    BY HandCommands, HandBreaksOff DEF U!BeginEnter, UpdiPendings
  <1>3. Answered(U!BeginErase(s)) \/ Awaiting(U!BeginErase(s), s.raw)
    BY HandCommands, HandBreaksOff DEF U!BeginErase, UpdiPendings
  <1>4. \A status : Answered(U!Reply(s, status)) /\ Answered(U!ReplyOk(s))
    BY HandAnswers
  <1> QED
    BY <1>1, <1>2, <1>3, <1>4, HandCommands DEF U!Dispatch

\* A byte of the stream, read while no break is running.
LEMMA FramedAccepts ==
  ASSUME NEW s, Framed(s), s.brk = "Idle", NEW byte \in Nat
  PROVE  Framed(U!AcceptByte(s, byte))
  <1> DEFINE taken == [s EXCEPT !.raw = Append(@, byte)]
             Goes(p) == [taken EXCEPT !.rx = p]
  <1> USE HostAssumption DEF UpdiFields, UpdiPhases
  <1>1. /\ OnTheWire(s) /\ UpdiForm(s) /\ s.raw \in Seq(Nat) /\ Len(s.raw) \in Nat
        /\ s.rx \in UpdiPhases
    BY DEF Framed, OnTheWire, UpdiForm
  <1>2. /\ OnTheWire(taken) /\ taken.raw = Append(s.raw, byte) /\ taken.brk = "Idle"
        /\ taken.rx = s.rx
    BY <1>1, UpdiChanges DEF UpdiForm
  <1>3. /\ taken.raw \in Seq(Nat) /\ Len(taken.raw) = Len(s.raw) + 1
        /\ \A k \in 1..Len(s.raw) : taken.raw[k] = s.raw[k]
        /\ taken.raw[Len(s.raw) + 1] = byte
    BY <1>1, <1>2
  <1>4. ASSUME NEW p \in UpdiPhases \ {"Start"}
        PROVE  OnTheWire(Goes(p)) /\ Goes(p).rx = p /\ Goes(p).raw = taken.raw
               /\ Goes(p).brk = "Idle"
    <2> HIDE DEF taken
    <2>1. OnTheWire(Goes(p))
      BY <1>2, UpdiChanges, ZenonT(30)
    <2> QED
      BY <1>2, <2>1 DEF OnTheWire, UpdiForm
  <1>5. /\ OnTheWire(U!Restart(s)) /\ U!Restart(s).rx = "Start" /\ U!Restart(s).raw = <<>>
        /\ U!Restart(s).brk = "Idle"
    BY <1>1, UpdiChanges DEF U!Restart, UpdiForm
  <1>6. Framed(U!Restart(s))
    <2> DEFINE t == U!Restart(s)
    <2>1. OnTheWire(t) /\ t.rx = "Start" /\ t.raw = <<>> /\ t.brk = "Idle"
      BY <1>5
    <2> HIDE DEF t
    <2>2. t.raw \in Seq(Nat) /\ Len(t.raw) <= 4 + MaxPage
      BY <2>1
    <2>3. Framed(t)
      BY <2>1, <2>2 DEF Framed
    <2> QED
      BY <2>3 DEF t
  <1>7. CASE s.rx = "Start"
    <2>1. U!AcceptByte(s, byte) = IF byte = U!StartMark THEN Goes("Seq") ELSE s
      BY <1>7 DEF U!AcceptByte
    <2>2. s.raw = <<>>
      BY <1>7 DEF Framed
    <2>3. Framed(Goes("Seq"))
      <3> DEFINE t == Goes("Seq")
      <3>1. OnTheWire(t) /\ t.rx = "Seq" /\ t.raw = taken.raw /\ t.brk = "Idle"
        BY <1>4
      <3> HIDE DEF t, taken, Goes
      <3>2. Len(t.raw) = 1 /\ t.raw \in Seq(Nat)
        BY <1>3, <2>2, <3>1
      <3>3. Framed(t)
        BY <3>1, <3>2 DEF Framed
      <3> QED
        BY <3>3 DEF t
    <2> QED
      BY <2>1, <2>3
  <1>8. CASE s.rx = "Seq"
    <2>1. U!AcceptByte(s, byte) = Goes("Size")
      BY <1>8 DEF U!AcceptByte
    <2>2. Len(s.raw) = 1
      BY <1>8 DEF Framed
    <2> DEFINE t == Goes("Size")
    <2>3. OnTheWire(t) /\ t.rx = "Size" /\ t.raw = taken.raw /\ t.brk = "Idle"
      BY <1>4
    <2> HIDE DEF t, taken, Goes
    <2>4. Len(t.raw) = 2 /\ t.raw \in Seq(Nat)
      BY <1>3, <2>2, <2>3
    <2>5. Framed(t)
      BY <2>3, <2>4 DEF Framed
    <2> QED
      BY <2>1, <2>5 DEF t
  <1>9. CASE s.rx = "Size"
    <2>1. U!AcceptByte(s, byte) = IF byte > MaxPage THEN U!Restart(s) ELSE Goes("Token")
      BY <1>9 DEF U!AcceptByte
    <2>2. Len(s.raw) = 2
      BY <1>9 DEF Framed
    <2> DEFINE t == Goes("Token")
    <2>3. OnTheWire(t) /\ t.rx = "Token" /\ t.raw = taken.raw /\ t.brk = "Idle"
      BY <1>4
    <2> HIDE DEF t, taken, Goes
    <2>4. Len(t.raw) = 3 /\ t.raw \in Seq(Nat) /\ t.raw[3] = byte
      BY <1>3, <2>2, <2>3
    <2>5. ~(byte > MaxPage) => Framed(t)
      BY <2>3, <2>4 DEF Framed
    <2> QED
      BY <1>6, <2>1, <2>5 DEF t
  <1>10. CASE s.rx = "Token"
    <2>1. Len(s.raw) = 3 /\ s.raw[3] <= MaxPage /\ s.raw[3] \in Nat
      BY <1>1, <1>10 DEF Framed
    <2> DEFINE again == [s EXCEPT !.rx = "Seq", !.raw = <<byte>>]
    <2>2. U!AcceptByte(s, byte) =
            CASE byte = U!Token -> Goes(IF s.raw[3] = 0 THEN "Crc" ELSE "Body")
              [] byte = U!StartMark -> again
              [] OTHER -> U!Restart(s)
      BY <1>10 DEF U!AcceptByte, U!BodyLen
    <2>3. OnTheWire(again) /\ again.rx = "Seq" /\ again.raw = <<byte>> /\ again.brk = "Idle"
      BY <1>1, UpdiChanges DEF UpdiForm
    <2> HIDE DEF again
    <2>4. Framed(again)
      <3>1. <<byte>> \in Seq(Nat) /\ Len(<<byte>>) = 1
        OBVIOUS
      <3> QED
        BY <2>3, <3>1 DEF Framed
    <2>5. ASSUME NEW p \in {"Crc", "Body"}, p = "Crc" <=> s.raw[3] = 0
          PROVE  Framed(Goes(p))
      <3> DEFINE t == Goes(p)
      <3>1. OnTheWire(t) /\ t.rx = p /\ t.raw = taken.raw /\ t.brk = "Idle"
        BY <1>4, <2>5
      <3> HIDE DEF t, taken, Goes
      <3>2. Len(t.raw) = 4 /\ t.raw \in Seq(Nat) /\ t.raw[3] = s.raw[3]
        BY <1>3, <2>1, <3>1
      <3>3. Framed(t)
        BY <2>1, <2>5, <3>1, <3>2 DEF Framed
      <3> QED
        BY <3>3 DEF t
    <2>6. Framed(Goes(IF s.raw[3] = 0 THEN "Crc" ELSE "Body"))
      BY <2>5
    <2> QED
      BY <1>6, <2>2, <2>4, <2>6
  <1>11. CASE s.rx = "Body"
    <2>1. /\ 4 <= Len(s.raw) /\ Len(s.raw) < 4 + s.raw[3] /\ s.raw[3] <= MaxPage
          /\ s.raw[3] \in Nat
      BY <1>1, <1>11 DEF Framed
    <2>2. U!AcceptByte(s, byte) =
            IF Len(taken.raw) = 4 + s.raw[3] THEN Goes("Crc") ELSE taken
      BY <1>11 DEF U!AcceptByte, U!BodyLen
    <2>3. ASSUME Len(taken.raw) = 4 + s.raw[3] PROVE Framed(Goes("Crc"))
      <3> DEFINE t == Goes("Crc")
      <3>1. OnTheWire(t) /\ t.rx = "Crc" /\ t.raw = taken.raw /\ t.brk = "Idle"
        BY <1>4
      <3> HIDE DEF t, taken, Goes
      <3>2. t.raw[3] = s.raw[3] /\ t.raw \in Seq(Nat) /\ Len(t.raw) = 4 + s.raw[3]
        BY <1>3, <2>1, <2>3, <3>1
      <3>3. Framed(t)
        BY <2>1, <3>1, <3>2, SMTT(30) DEF Framed
      <3> QED
        BY <3>3 DEF t
    <2>4. ASSUME Len(taken.raw) # 4 + s.raw[3] PROVE Framed(taken)
      <3> HIDE DEF taken
      <3>1. taken.raw[3] = s.raw[3]
        BY <1>3, <2>1
      <3>2. OnTheWire(taken) /\ taken.rx = "Body" /\ taken.brk = "Idle"
        BY <1>2, <1>11
      <3> DEFINE m == Len(taken.raw)
                 n == s.raw[3]
      <3>3. taken.raw \in Seq(Nat) /\ m = Len(s.raw) + 1 /\ Len(s.raw) \in Nat
        BY <1>1, <1>3
      <3>4. 4 <= Len(s.raw) /\ Len(s.raw) < 4 + n /\ n <= MaxPage /\ n \in Nat /\ m # 4 + n
        BY <2>1, <2>4
      <3> HIDE DEF m, n
      <3>5. 4 <= m /\ m < 4 + n /\ m <= 4 + MaxPage /\ n \in 0..MaxPage
        BY <3>3, <3>4
      <3> QED
        BY <3>1, <3>2, <3>3, <3>5 DEF Framed, m, n
    <2> QED
      BY <2>2, <2>3, <2>4
  <1>12. CASE s.rx = "Crc"
    <2> DEFINE t == [s EXCEPT !.rx = "Start"]
    <2>1. /\ Len(s.raw) = 4 + s.raw[3] /\ s.raw[3] <= MaxPage /\ Len(s.raw) <= 4 + MaxPage
      BY <1>12 DEF Framed
    <2>2. U!AcceptByte(s, byte) = U!OnFrame(t, byte)
      BY <1>12 DEF U!AcceptByte
    <2>3. AtHand(t) /\ t.raw = s.raw
      BY <1>1, UpdiChanges DEF AtHand, UpdiForm
    <2> HIDE DEF t
    <2>4. \/ Answered(U!OnFrame(t, byte))
          \/ U!Body(t) # <<>> /\ Awaiting(U!OnFrame(t, byte), s.raw)
      BY <2>3, HandAnswers, HandDispatches DEF U!OnFrame
    <2>5. Len(s.raw) = 4 => U!Body(t) = <<>>
      BY <1>1, <2>3 DEF U!Body
    <2>6. U!Body(t) # <<>> => WholeFrame(s.raw)
      <3>1. s.raw[3] \in Nat
        BY <1>12 DEF Framed
      <3> QED
        BY <1>1, <2>1, <2>5, <3>1 DEF WholeFrame
    <2> DEFINE u == U!OnFrame(t, byte)
    <2>7. \/ Answered(u)
          \/ Awaiting(u, s.raw) /\ WholeFrame(s.raw)
      BY <2>4, <2>6
    <2> HIDE DEF u
    <2>8. Framed(u)
      <3>1. CASE Answered(u)
        BY <3>1, EmptyFits DEF Answered, AtHand, Framed
      <3>2. CASE Awaiting(u, s.raw) /\ WholeFrame(s.raw)
        BY <1>1, <2>1, <3>2 DEF Awaiting, Framed
      <3> QED
        BY <2>7, <3>1, <3>2
    <2> QED
      BY <2>2, <2>8 DEF u
  <1> QED
    BY <1>1, <1>7, <1>8, <1>9, <1>10, <1>11, <1>12

\* A phase of a break, and the command that has waited for its end.
LEMMA FramedWakes ==
  ASSUME NEW s, Framed(s)
  PROVE  Framed(U!Woken(s))
  <1>1. CASE s.brk = "Idle"
    BY <1>1 DEF U!Woken
  <1>2. CASE s.brk # "Idle"
    <2> DEFINE moved == U!AdvanceBreak(s)
               taken == [moved EXCEPT !.pending = "None"]
    <2>1. /\ OnTheWire(s) /\ UpdiForm(s) /\ s.rx = "Start"
          /\ s.raw \in Seq(Nat) /\ Len(s.raw) <= 4 + MaxPage
          /\ s.pending # "None" /\ WholeFrame(s.raw)
      BY <1>2 DEF Framed, OnTheWire
    <2>2. OnTheWire(moved)
      BY <1>2, <2>1, UpdiAdvances
    <2>3. moved.rx = "Start" /\ moved.raw = s.raw /\ moved.pending = s.pending
      BY <1>2, <2>1 DEF U!AdvanceBreak, UpdiForm, UpdiFields, UpdiBreaks
    <2>4. U!Woken(s) = IF moved.brk = "Idle" THEN U!RunPending(moved) ELSE moved
      BY <1>2 DEF U!Woken
    <2> HIDE DEF moved
    <2>5. moved.brk # "Idle" => Framed(moved)
      BY <2>1, <2>2, <2>3 DEF Framed
    <2>6. ASSUME moved.brk = "Idle" PROVE Framed(U!RunPending(moved))
      <3>1. AtHand(moved)
        BY <2>2, <2>3, <2>6 DEF AtHand
      <3>2. AtHand(taken) /\ taken.raw = s.raw
        BY <2>2, <2>3, <3>1, HandChanges DEF OnTheWire, UpdiForm, UpdiFields
      <3>3. moved.pending \in UpdiPendings \ {"None"}
        BY <2>1, <2>2, <2>3 DEF OnTheWire, UpdiForm
      <3>4. U!RunPending(moved) =
              CASE moved.pending = "Descriptor" -> U!FinishDescriptor(taken)
                [] moved.pending = "Enter" -> U!EnterProgmode(taken)
                [] moved.pending = "Erase" -> U!Erase(taken)
                [] moved.pending = "None" -> taken
        BY DEF U!RunPending
      <3> HIDE DEF taken
      <3> DEFINE done == U!RunPending(moved)
      <3>5. Answered(done)
        <4>1. /\ Answered(U!FinishDescriptor(taken)) /\ Answered(U!EnterProgmode(taken))
              /\ Answered(U!Erase(taken))
          BY <3>2, HandCommands
        <4> QED
          BY <3>3, <3>4, <4>1 DEF UpdiPendings
      <3> HIDE DEF done
      <3>6. Framed(done)
        BY <3>5, EmptyFits, HostAssumption DEF Answered, AtHand, Framed
      <3> QED
        BY <3>6 DEF done
    <2> QED
      BY <2>4, <2>5, <2>6
  <1> QED
    BY <1>1, <1>2

FramedRead(a) == DOMAIN a = {"s", "rest"} /\ Framed(a.s) /\ a.rest \in Seq(Nat)

LEMMA FramedRests ==
  ASSUME NEW s, Framed(s), NEW f \in {"board", "out", "fault"}, NEW x
  PROVE  Framed([s EXCEPT ![f] = x])
  <1> DEFINE t == [s EXCEPT ![f] = x]
  <1>1. OnTheWire(s) /\ UpdiForm(s)
    BY DEF Framed, OnTheWire
  <1>2. UpdiForm(t)
    BY <1>1, UpdiRests
  <1>3. /\ t.rx = s.rx /\ t.raw = s.raw /\ t.pending = s.pending
        /\ t.checking = s.checking /\ t.line = s.line /\ t.brk = s.brk
    BY <1>1 DEF UpdiForm, UpdiFields
  <1> HIDE DEF t
  <1>4. OnTheWire(t)
    BY <1>1, <1>2, <1>3 DEF OnTheWire
  <1>5. Framed(t)
    BY <1>2, <1>3, <1>4 DEF Framed
  <1> QED
    BY <1>5 DEF t

LEMMA FramedUpdate ==
  ASSUME NEW s, Framed(s), NEW stream \in Seq(Nat), NEW fault
  PROVE  Framed(U!Update(s, stream, fault).s) /\ U!Update(s, stream, fault).rest \in Seq(Nat)
  <1> DEFINE first == [s |-> U!Woken([s EXCEPT !.fault = fault]), rest |-> <<>>]
             read == CHOOSE g : UpdiReads(g, first, stream, Len(stream))
             S == {n \in Nat : n \in 0..Len(stream) => FramedRead(read[n])}
  <1>1. U!Update(s, stream, fault) = [read[Len(stream)] EXCEPT !.s.fault = U!NoFault]
    BY DEF U!Update, UpdiReads, OnTheWire, Framed
  <1>2. \E g : UpdiReads(g, first, stream, Len(stream))
    <2>1. Len(stream) \in Nat
      OBVIOUS
    <2> QED
      BY <2>1, UpdiReadingExists
  <1>3. UpdiReads(read, first, stream, Len(stream))
    BY <1>2
  <1>4. FramedRead(first)
    <2>1. Framed([s EXCEPT !.fault = fault])
      BY FramedRests
    <2> QED
      BY <2>1, FramedWakes, EmptyFits DEF FramedRead
  <1> HIDE DEF read, first
  <1>5. 0 \in S
    BY <1>3, <1>4 DEF UpdiReads
  <1>6. ASSUME NEW n \in S PROVE n + 1 \in S
    <2>1. CASE n + 1 \in 0..Len(stream)
      <3>1. read[n + 1] = U!ReadByte(read[n], stream[n + 1]) /\ stream[n + 1] \in Nat
        BY <1>3, <2>1 DEF UpdiReads
      <3> DEFINE a == read[n]
                 byte == stream[n + 1]
      <3>2. FramedRead(a) /\ byte \in Nat
        BY <2>1, <3>1
      <3> HIDE DEF a, byte
      <3>3. ASSUME a.s.brk # "Idle" PROVE FramedRead(U!ReadByte(a, byte))
        <4>1. Append(a.rest, byte) \in Seq(Nat)
          BY <3>2 DEF FramedRead
        <4>2. U!ReadByte(a, byte) = [a EXCEPT !.rest = Append(@, byte)]
          BY <3>3 DEF U!ReadByte
        <4>3. FramedRead([a EXCEPT !.rest = Append(@, byte)])
          BY <3>2, <4>1 DEF FramedRead
        <4> QED
          BY <4>2, <4>3
      <3>4. ASSUME a.s.brk = "Idle" PROVE FramedRead(U!ReadByte(a, byte))
        <4>1. Framed(U!AcceptByte(a.s, byte))
          BY <3>2, <3>4, FramedAccepts DEF FramedRead
        <4>2. U!ReadByte(a, byte) = [a EXCEPT !.s = U!AcceptByte(a.s, byte)]
          BY <3>4 DEF U!ReadByte
        <4>3. FramedRead([a EXCEPT !.s = U!AcceptByte(a.s, byte)])
          BY <3>2, <4>1 DEF FramedRead
        <4> QED
          BY <4>2, <4>3
      <3>5. FramedRead(U!ReadByte(a, byte))
        BY <3>3, <3>4
      <3> QED
        BY <3>1, <3>5 DEF a, byte
    <2> QED
      BY <2>1
  <1>7. S = Nat
    BY <1>5, <1>6, InductionOnSets
  <1> DEFINE last == read[Len(stream)]
  <1>8. DOMAIN last = {"s", "rest"} /\ Framed(last.s) /\ last.rest \in Seq(Nat)
    BY <1>7 DEF FramedRead
  <1> HIDE DEF S, last
  <1>9. /\ [last EXCEPT !.s.fault = U!NoFault].s = [last.s EXCEPT !.fault = U!NoFault]
        /\ [last EXCEPT !.s.fault = U!NoFault].rest = last.rest
    BY <1>8
  <1>10. Framed([last.s EXCEPT !.fault = U!NoFault])
    BY <1>8, FramedRests
  <1> QED
    BY <1>1, <1>8, <1>9, <1>10 DEF last

-----------------------------------------------------------------------------
(* What is at the port of the UPDI programmer are bytes, the checksum       *)
(* included.                                                               *)

Summed(sum, raw, n) ==
  sum = [k \in 0..n |-> IF k = 0 THEN 7 ELSE (31 * sum[k - 1] + raw[k] + 1) % 65521]

LEMMA SumExists == \A raw : \A n \in Nat : \E sum : Summed(sum, raw, n)
  <1> SUFFICES ASSUME NEW raw PROVE \A n \in Nat : \E sum : Summed(sum, raw, n)
    OBVIOUS
  <1> DEFINE S == {n \in Nat : \E sum : Summed(sum, raw, n)}
  <1>1. 0 \in S
    <2>1. Summed([k \in 0..0 |-> 7], raw, 0)
      BY DEF Summed
    <2> QED
      BY <2>1
  <1>2. ASSUME NEW n \in S PROVE n + 1 \in S
    <2>1. PICK sum : Summed(sum, raw, n)
      OBVIOUS
    <2>2. n \in Nat
      OBVIOUS
    <2> DEFINE next == (31 * sum[n] + raw[n + 1] + 1) % 65521
               longer == [k \in 0..(n + 1) |-> IF k = n + 1 THEN next ELSE sum[k]]
    <2>3. ASSUME NEW k \in 0..(n + 1)
          PROVE  longer[k] = IF k = 0 THEN 7
                             ELSE (31 * longer[k - 1] + raw[k] + 1) % 65521
      <3>1. CASE k = n + 1
        <4>1. longer[k] = next /\ longer[k - 1] = sum[n] /\ k # 0
          BY <2>2, <3>1
        <4> HIDE DEF longer
        <4> QED
          BY <3>1, <4>1
      <3>2. CASE k = 0
        <4>1. longer[k] = 7
          BY <2>1, <2>2, <3>2 DEF Summed
        <4> QED
          BY <3>2, <4>1
      <3>3. CASE k \in 1..n
        <4>1. longer[k] = sum[k] /\ longer[k - 1] = sum[k - 1] /\ k # 0
          BY <2>2, <3>3
        <4>2. sum[k] = (31 * sum[k - 1] + raw[k] + 1) % 65521
          BY <2>1, <2>2, <3>3 DEF Summed
        <4> HIDE DEF longer
        <4> QED
          BY <4>1, <4>2
      <3> QED
        BY <2>2, <3>1, <3>2, <3>3
    <2> HIDE DEF next
    <2>4. Summed(longer, raw, n + 1)
      BY <2>3 DEF Summed
    <2> HIDE DEF longer
    <2>5. \E g : Summed(g, raw, n + 1)
      BY <2>4
    <2> QED
      BY <2>2, <2>5
  <1> HIDE DEF S
  <1>3. S = Nat
    <2>1. S \in SUBSET Nat
      BY DEF S
    <2> QED
      BY <1>1, <1>2, <2>1, InductionOnSets
  <1> QED
    BY <1>3 DEF S

LEMMA ChecksumIsAByte ==
  ASSUME NEW raw \in Seq(Nat)
  PROVE  U!Checksum(raw) \in Nat
  <1> DEFINE n == Len(raw)
             sum == CHOOSE g : Summed(g, raw, n)
  <1>1. n \in Nat
    OBVIOUS
  <1>2. \E g : Summed(g, raw, n)
    BY <1>1, SumExists
  <1>3. Summed(sum, raw, n)
    BY <1>2
  <1>4. U!Checksum(raw) = sum[n]
    BY DEF U!Checksum, Summed
  <1> HIDE DEF sum
  <1>5. \A k \in 1..n : raw[k] \in Nat
    OBVIOUS
  <1> HIDE DEF n
  <1> DEFINE T == {k \in Nat : k <= n => sum[k] \in Nat}
  <1>6. 0 \in T
    BY <1>1, <1>3 DEF Summed
  <1>7. ASSUME NEW k \in T PROVE k + 1 \in T
    <2>1. CASE k + 1 <= n
      <3>1. sum[k + 1] = (31 * sum[k] + raw[k + 1] + 1) % 65521
        BY <1>1, <1>3, <2>1 DEF Summed
      <3>2. sum[k] \in Nat
        BY <1>1, <2>1
      <3>3. raw[k + 1] \in Nat
        BY <1>5, <2>1
      <3>4. sum[k + 1] \in Nat
        <4> DEFINE a == sum[k]
                   b == raw[k + 1]
        <4>1. a \in Nat /\ b \in Nat
          BY <3>2, <3>3
        <4> HIDE DEF a, b
        <4>2. (31 * a + b + 1) % 65521 \in Nat
          BY <4>1
        <4> QED
          BY <3>1, <4>2 DEF a, b
      <3> QED
        BY <3>4
    <2> QED
      BY <2>1
  <1> HIDE DEF T
  <1>8. T = Nat
    <2>1. T \in SUBSET Nat
      BY DEF T
    <2> QED
      BY <1>6, <1>7, <2>1, InductionOnSets
  <1> QED
    BY <1>1, <1>4, <1>8 DEF T

LEMMA UpdiBodiesAreBytes ==
  ASSUME NEW op \in UpdiOps
  PROVE  /\ UpdiBody(op) \in Seq(Nat)
         /\ op.kind = "Write" => Data(op) \in Seq(Nat)
  <1> USE HostAssumption, ByteAssumption
  <1> USE DEF U!CmdSignOff, U!CmdSignOn, U!CmdSetParameter, U!CmdGetParameter,
              U!CmdWriteMemory, U!CmdReadMemory, U!CmdGo, U!CmdSetDescriptor, U!CmdGetSync,
              U!CmdEnter, U!CmdLeave, U!CmdErase, U!ParBaud, U!ParVtarget, U!MemFuse,
              U!MemFlash, U!MemEeprom, U!EraseChip, U!EraseAppPage
  <1> DEFINE memory == CASE op.at \in Flash -> U!MemFlash
                         [] op.at \in Eeprom -> U!MemEeprom
                         [] OTHER -> U!MemFuse
  <1>1. op.kind \in UpdiKinds /\ op.n \in Nat /\ op.at \in Nat
    OBVIOUS
  <1>2. memory \in Nat
    OBVIOUS
  <1> HIDE DEF memory
  <1>3. op.kind = "Write" => Data(op) \in Seq(Nat)
    <2> DEFINE n == op.n
    <2>1. Data(op) = [i \in 1..n |-> Image[op.at + i - 1]] /\ n \in Nat
      BY <1>1 DEF Data
    <2>2. op.kind = "Write" => \A i \in 1..n : Image[op.at + i - 1] \in Nat
      OBVIOUS
    <2> HIDE DEF n
    <2>3. op.kind = "Write" => Data(op) \in [1..n -> Nat] /\ n \in Nat
      BY <2>1, <2>2
    <2> QED
      BY <2>3
  <1>4. <<U!CmdReadMemory, memory, op.n, op.at>> \in Seq(Nat)
    BY <1>1, <1>2
  <1>5. op.kind = "Write" =>
          <<U!CmdWriteMemory, memory, op.n, op.at>> \o Data(op) \in Seq(Nat)
    <2>1. <<U!CmdWriteMemory, memory, op.n, op.at>> \in Seq(Nat)
      BY <1>1, <1>2
    <2> QED
      BY <1>3, <2>1, ByteTuples
  <1>6. /\ <<U!CmdGetSync>> \in Seq(Nat) /\ <<U!CmdSignOn>> \in Seq(Nat)
        /\ <<U!CmdGetParameter, U!ParVtarget>> \in Seq(Nat)
        /\ <<U!CmdSetParameter, U!ParBaud, op.n>> \in Seq(Nat)
        /\ <<U!CmdSetDescriptor, op.n, EepromPageBytes>> \in Seq(Nat)
        /\ <<U!CmdEnter>> \in Seq(Nat) /\ <<U!CmdLeave>> \in Seq(Nat)
        /\ <<U!CmdGo>> \in Seq(Nat) /\ <<U!CmdSignOff>> \in Seq(Nat)
        /\ <<U!CmdErase, U!EraseChip>> \in Seq(Nat)
        /\ <<U!CmdErase, U!EraseAppPage, op.at>> \in Seq(Nat) /\ <<99>> \in Seq(Nat)
    BY <1>1, ByteTuples
  <1>7. UpdiBody(op) \in Seq(Nat)
    <2> DEFINE body ==
          CASE op.kind = "Sync" -> <<U!CmdGetSync>>
            [] op.kind = "SignOn" -> <<U!CmdSignOn>>
            [] op.kind = "Voltage" -> <<U!CmdGetParameter, U!ParVtarget>>
            [] op.kind = "Baud" -> <<U!CmdSetParameter, U!ParBaud, op.n>>
            [] op.kind = "Setup" -> <<U!CmdSetDescriptor, op.n, EepromPageBytes>>
            [] op.kind = "Enter" -> <<U!CmdEnter>>
            [] op.kind = "Leave" -> <<U!CmdLeave>>
            [] op.kind = "Go" -> <<U!CmdGo>>
            [] op.kind = "SignOff" -> <<U!CmdSignOff>>
            [] op.kind = "Erase" -> <<U!CmdErase, U!EraseChip>>
            [] op.kind = "ErasePage" -> <<U!CmdErase, U!EraseAppPage, op.at>>
            [] op.kind = "Write" ->
                 <<U!CmdWriteMemory, memory, op.n, op.at>> \o Data(op)
            [] op.kind = "Read" -> <<U!CmdReadMemory, memory, op.n, op.at>>
            [] op.kind = "Strange" -> <<99>>
    <2>1. UpdiBody(op) = body
      BY DEF UpdiBody, memory
    <2>2. body \in Seq(Nat)
      BY <1>1, <1>4, <1>5, <1>6 DEF UpdiKinds
    <2> QED
      BY <2>1, <2>2
  <1> QED
    BY <1>3, <1>7

LEMMA UpdiFramesAreBytes ==
  ASSUME programmer # "Isp", host.seq \in Nat, NEW op \in UpdiOps
  PROVE  Frame(op) \in Seq(Nat)
  <1>1. U!Frame(host.seq, UpdiBody(op)) \in Seq(Nat)
    <2> DEFINE body == UpdiBody(op)
               raw == <<U!StartMark, host.seq, Len(body), U!Token>> \o body
    <2>1. body \in Seq(Nat)
      BY UpdiBodiesAreBytes
    <2> HIDE DEF body
    <2>2. <<U!StartMark, host.seq, Len(body), U!Token>> \in Seq(Nat)
      BY <2>1 DEF U!StartMark, U!Token
    <2>3. raw \in Seq(Nat)
      BY <2>1, <2>2
    <2> HIDE DEF raw
    <2>4. Append(raw, U!Checksum(raw)) \in Seq(Nat)
      BY <2>3, ChecksumIsAByte
    <2> QED
      BY <2>4 DEF U!Frame, raw, body
  <1> QED
    BY <1>1 DEF Frame

-----------------------------------------------------------------------------
(* The buffer of the UPDI programmer over a whole behaviour                *)

HostFields == {"op", "seq", "sync", "entered", "ready", "wary", "sure"}
HostForm(h) == DOMAIN h = HostFields /\ h = [f \in HostFields |-> h[f]] /\ h.seq \in 0..1

Empty(s) == s.rx = "Start" /\ s.raw = <<>>

FramesInv ==
  /\ WiresInv
  /\ HostForm(host)
  /\ programmer = "Updi" => Framed(updi) /\ input \in Seq(Nat)
  /\ programmer # "Updi" => Empty(updi)

LEMMA HostForms ==
  /\ \A sure : HostForm(NewRun(sure))
  /\ \A sure, wary : HostForm([NewRun(sure) EXCEPT !.wary = wary])
  /\ HostForm(Abandoned)
  /\ \A h, op : HostForm(h) => HostForm([h EXCEPT !.op = op])
  <1>1. \A sure : HostForm(NewRun(sure))
    BY DEF NewRun, HostForm, HostFields
  <1>2. ASSUME NEW h, HostForm(h), NEW x
        PROVE  HostForm([h EXCEPT !.op = x]) /\ HostForm([h EXCEPT !.wary = x])
    BY <1>2 DEF HostForm, HostFields
  <1>3. \A sure, wary : HostForm([NewRun(sure) EXCEPT !.wary = wary])
    BY <1>1, <1>2
  <1>4. HostForm(Abandoned)
    BY <1>3 DEF Abandoned
  <1> QED
    BY <1>1, <1>2, <1>3, <1>4

LEMMA LearnedForm == HostForm(host) => \A op : HostForm(Learned(op))
  <1> SUFFICES ASSUME HostForm(host), NEW op PROVE HostForm(Learned(op))
    OBVIOUS
  <1> DEFINE seq == IF programmer = "Updi" THEN 1 - host.seq ELSE host.seq
             told == [host EXCEPT !.op = NoOp, !.seq = seq]
             sure == CASE op.kind \in {"Erase", "UniversalErase", "ErasePage"} ->
                            Mark(host.sure, Touched(op), "Blank")
                       [] op.kind = "Write" -> Mark(host.sure, Touched(op), "Written")
                       [] OTHER -> host.sure
             wary == told.wary /\ op.kind # "Erase"
             ready == told.ready \/ op.kind = "Setup"
             entered == \/ op.kind = "Enter"
                        \/ op.kind = "Setup" /\ programmer = "Isp"
                        \/ told.entered /\ op.kind \notin {"Setup", "Leave", "Go", "SignOff"}
                             /\ ~(op.kind = "Erase" /\ programmer = "Updi")
  <1>1. seq \in 0..1
    BY DEF HostForm
  <1>2. told = [host EXCEPT !.op = NoOp, !.seq = IF programmer = "Updi" THEN 1 - @ ELSE @]
    BY DEF HostForm, HostFields
  <1> HIDE DEF seq
  <1>3. HostForm(told)
    BY <1>1 DEF HostForm, HostFields
  <1>4. Learned(op) =
          CASE ~Good(op) /\ op.kind = "Sync" -> told
            [] ~Good(op) /\ op.kind # "Sync" -> Abandoned
            [] OTHER -> [told EXCEPT !.sync = TRUE, !.sure = sure, !.wary = wary,
                                     !.ready = ready, !.entered = entered]
    BY <1>2, <1>3 DEF Learned, HostForm, HostFields
  <1> HIDE DEF told, sure, wary, ready, entered
  <1>5. HostForm([told EXCEPT !.sync = TRUE, !.sure = sure, !.wary = wary,
                              !.ready = ready, !.entered = entered])
    BY <1>3 DEF HostForm, HostFields
  <1> QED
    BY <1>3, <1>4, <1>5, HostForms

LEMMA EmptyIsFramed ==
  ASSUME NEW s, OnTheWire(s), Empty(s), s.brk = "Idle"
  PROVE  Framed(s)
  BY EmptyFits, HostAssumption DEF Empty, Framed

LEMMA EmptyRests ==
  ASSUME NEW s, UpdiForm(s)
  PROVE  /\ Empty(U!Shutdown(s))
         /\ Empty(s) => /\ Empty(U!Start(s)) /\ Empty(U!BeginLinkCheck(s))
                        /\ \A f \in {"board", "out", "fault"} : \A x :
                             Empty([s EXCEPT ![f] = x])
         /\ U!Start(s).brk = s.brk
  <1> USE DEF UpdiForm, UpdiFields
  <1>1. Empty(U!Shutdown(s))
    BY DEF U!Shutdown, Empty
  <1>2. Empty(s) => Empty(U!Start(s)) /\ Empty(U!BeginLinkCheck(s))
    BY DEF U!Start, U!BeginLinkCheck, U!StartBreak, Empty
  <1>3. ASSUME Empty(s), NEW f \in {"board", "out", "fault"}, NEW x
        PROVE  Empty([s EXCEPT ![f] = x])
    BY <1>3 DEF Empty
  <1>4. U!Start(s).brk = s.brk
    BY DEF U!Start
  <1> QED
    BY <1>1, <1>2, <1>3, <1>4

LEMMA EmptyChecks ==
  ASSUME NEW s, UpdiForm(s), Empty(s), s.brk # "Idle", NEW fault
  PROVE  Empty(U!PollLinkCheck(s, fault))
  <1> DEFINE advanced == U!AdvanceBreak(s)
             moved == [advanced EXCEPT !.fault = fault]
             over == U!FinishLinkCheck(moved)
             done == IF moved.brk = "Idle" THEN over ELSE moved
  <1>1. UpdiForm(advanced)
    BY UpdiBreaksOn
  <1>2. Empty(advanced)
    BY DEF U!AdvanceBreak, UpdiForm, UpdiFields, UpdiBreaks, Empty
  <1> HIDE DEF advanced
  <1>3. UpdiForm(moved) /\ Empty(moved)
    BY <1>1, <1>2, UpdiRests, EmptyRests
  <1> HIDE DEF moved
  <1>4. UpdiForm(over) /\ Empty(over)
    <2>1. \A w : UpdiForm(U!Keep(moved, w))
      BY <1>3, UpdiRests DEF U!Keep
    <2>2. \A w : /\ UpdiForm(U!Shutdown(U!Keep(moved, w)))
                 /\ Empty(U!Shutdown(U!Keep(moved, w)))
      BY <2>1, UpdiRests, EmptyRests DEF UpdiReleased
    <2> QED
      BY <2>2 DEF U!FinishLinkCheck
  <1> HIDE DEF over
  <1>5. UpdiForm(done) /\ Empty(done)
    BY <1>3, <1>4
  <1> HIDE DEF done
  <1>6. Empty([done EXCEPT !.fault = U!NoFault])
    BY <1>5, EmptyRests
  <1> QED
    BY <1>6 DEF U!PollLinkCheck, done, over, moved, advanced

LEMMA FreshFrames ==
  \A board : Empty(U!Programmer(board)) /\ Framed(U!Start(U!Programmer(board)))
  <1> SUFFICES ASSUME NEW board
               PROVE  Empty(U!Programmer(board)) /\ Framed(U!Start(U!Programmer(board)))
    OBVIOUS
  <1> DEFINE s == U!Programmer(board)
  <1>1. Empty(s)
    BY DEF Empty, U!Programmer
  <1>2. UpdiReleased(s) /\ OnTheWire(U!Start(s))
    BY UpdiStarts
  <1> HIDE DEF s
  <1>3. Empty(U!Start(s)) /\ U!Start(s).brk = "Idle"
    BY <1>1, <1>2, EmptyRests DEF UpdiReleased
  <1>4. Framed(U!Start(s))
    BY <1>2, <1>3, EmptyIsFramed
  <1> QED
    BY <1>1, <1>4 DEF s

LEMMA FramesInitially == ProgrammingInit => FramesInv
  <1>1. Empty(U!Programmer(UpdiTarget(FALSE))) /\ HostForm(NewRun(Unsure))
    BY FreshFrames, HostForms
  <1> QED
    BY <1>1, WiresInitially DEF FramesInv, ProgrammingInit

LEMMA BeginKeepsFrames ==
  ASSUME FramesInv, WiresInv', NEW method \in {"Isp", "Updi"}, NEW lock \in BOOLEAN,
         Begin(method, lock)
  PROVE  FramesInv'
  <1> DEFINE released == IF checkActive THEN U!Shutdown(updi) ELSE updi
             swapped == jumpered # method
             updiHere == IF swapped THEN [released EXCEPT !.board = UpdiTarget(lock)]
                                    ELSE released
  <1>1. UpdiReleased(released) /\ Empty(released)
    BY UpdiRests, EmptyRests DEF FramesInv, WiresInv, Begin
  <1> HIDE DEF released
  <1>2. UpdiReleased(updiHere) /\ Empty(updiHere)
    <2>1. UpdiForm(released)
      BY <1>1 DEF UpdiReleased
    <2>2. \A x : /\ UpdiReleased([released EXCEPT !.board = x])
                 /\ Empty([released EXCEPT !.board = x])
      BY <1>1, <2>1, UpdiStaysReleased, EmptyRests
    <2> QED
      BY <1>1, <2>2
  <1>3. /\ programmer' = method /\ input' = <<>>
        /\ updi' = IF method = "Updi" THEN U!Start(updiHere) ELSE updiHere
    BY DEF Begin, released
  <1>4. HostForm(host')
    <2>1. \E fuse : host' = IF swapped THEN NewRun(Mark(Unsure, {Fuse}, fuse))
                                       ELSE [NewRun(host.sure) EXCEPT !.wary = host.wary]
      BY DEF Begin
    <2> HIDE DEF swapped
    <2> QED
      BY <2>1, HostForms
  <1> HIDE DEF updiHere
  <1>5. ASSUME method = "Updi" PROVE Framed(updi')
    <2>1. Empty(U!Start(updiHere)) /\ U!Start(updiHere).brk = "Idle"
      BY <1>2, EmptyRests DEF UpdiReleased
    <2>2. OnTheWire(updi')
      BY <1>3, <1>5 DEF WiresInv
    <2> QED
      BY <1>3, <1>5, <2>1, <2>2, EmptyIsFramed
  <1> QED
    BY <1>2, <1>3, <1>4, <1>5, EmptyFits DEF FramesInv

LEMMA EndKeepsFrames == FramesInv /\ WiresInv' /\ End => FramesInv'
  <1> SUFFICES ASSUME FramesInv, WiresInv', End PROVE FramesInv'
    OBVIOUS
  <1>1. UpdiForm(U!Shutdown(updi)) /\ Empty(U!Shutdown(updi))
    BY UpdiRests, EmptyRests DEF FramesInv, WiresInv, UpdiReleased
  <1>2. Empty([U!Shutdown(updi) EXCEPT !.out = <<>>])
    BY <1>1, EmptyRests
  <1>3. Empty(updi') /\ programmer' = "None"
    BY <1>2 DEF End, FramesInv
  <1>4. HostForm(host')
    BY HostForms DEF End
  <1> QED
    BY <1>3, <1>4 DEF FramesInv

LEMMA CheckKeepsFrames ==
  FramesInv /\ WiresInv' /\ (StartUpdiCheck \/ PollUpdiCheck) => FramesInv'
  <1>1. ASSUME FramesInv, WiresInv', StartUpdiCheck PROVE FramesInv'
    BY <1>1, EmptyRests DEF FramesInv, WiresInv, StartUpdiCheck
  <1>2. ASSUME FramesInv, WiresInv', PollUpdiCheck PROVE FramesInv'
    <2>1. PICK fault \in Faults : updi' = U!PollLinkCheck(updi, fault)
      BY <1>2 DEF PollUpdiCheck
    <2>2. Empty(updi')
      BY <1>2, <2>1, EmptyChecks DEF FramesInv, WiresInv, PollUpdiCheck
    <2> QED
      BY <1>2, <2>2 DEF FramesInv, WiresInv, PollUpdiCheck
  <1> QED
    BY <1>1, <1>2

LEMMA HostKeepsFrames == FramesInv /\ WiresInv' /\ HostNext => FramesInv'
  <1>1. ASSUME FramesInv, NEW op, May(op), programmer = "Updi"
        PROVE  Frame(op) \in Seq(Nat)
    <2>1. op \in UpdiOps /\ host.seq \in Nat
      BY <1>1 DEF May, FramesInv, HostForm
    <2> QED
      BY <1>1, <2>1, UpdiFramesAreBytes
  <1>2. ASSUME FramesInv, WiresInv', NEW op, Send(op) PROVE FramesInv'
    <2>1. HostForm(host')
      BY <1>2, HostForms DEF Send, FramesInv
    <2> QED
      BY <1>1, <1>2, <2>1 DEF Send, FramesInv
  <1>3. ASSUME FramesInv, WiresInv', NEW op, Interrupt(op) PROVE FramesInv'
    <2>1. ASSUME programmer = "Updi" PROVE input' \in Seq(Nat)
      <3>1. PICK k \in Cuts(Len(Frame(op))) : input' = SubSeq(Frame(op), 1, k)
        BY <1>3 DEF Interrupt
      <3> DEFINE frame == Frame(op)
      <3>2. frame \in Seq(Nat) /\ Len(frame) \in Nat
        BY <1>1, <1>3, <2>1 DEF Interrupt
      <3> HIDE DEF frame
      <3>3. k \in Int /\ k <= Len(frame)
        BY <3>1, <3>2 DEF Cuts, frame
      <3>4. SubSeq(frame, 1, k) \in Seq(Nat)
        <4>1. \A j \in 1..k : frame[j] \in Nat
          BY <3>2, <3>3
        <4> QED
          BY <3>2, <3>3, <4>1, SubSeqProperties
      <3> QED
        BY <3>1, <3>4 DEF frame
    <2>2. HostForm(host')
      BY <1>3, HostForms DEF Interrupt
    <2> QED
      BY <1>3, <2>1, <2>2 DEF Interrupt, FramesInv
  <1>4. ASSUME FramesInv, WiresInv', Take \/ Drain PROVE FramesInv'
    <2>1. /\ updi' = [updi EXCEPT !.out = <<>>] /\ UNCHANGED <<programmer, input>>
          /\ host' = Learned(host.op) \/ UNCHANGED host
      BY <1>4 DEF Take, Drain
    <2>2. HostForm(host')
      BY <1>4, <2>1, LearnedForm DEF FramesInv
    <2>3. /\ programmer = "Updi" => Framed(updi')
          /\ programmer # "Updi" => Empty(updi')
      BY <1>4, <2>1, FramedRests, EmptyRests DEF FramesInv, WiresInv
    <2> QED
      BY <1>4, <2>1, <2>2, <2>3 DEF FramesInv
  <1> QED
    BY <1>2, <1>3, <1>4 DEF HostNext

LEMMA ResetsKeepFrames ==
  FramesInv /\ WiresInv' /\ (ResetTarget \/ ResetController) => FramesInv'
  <1>1. ASSUME FramesInv, WiresInv', ResetTarget PROVE FramesInv'
    <2>1. /\ programmer = "Updi" => Framed(updi')
          /\ programmer # "Updi" => Empty(updi')
      BY <1>1, FramedRests, EmptyRests DEF ResetTarget, FramesInv, WiresInv
    <2>2. HostForm(host')
      BY <1>1, HostForms DEF ResetTarget
    <2> QED
      BY <1>1, <2>1, <2>2 DEF ResetTarget, FramesInv
  <1>2. ASSUME FramesInv, WiresInv', ResetController PROVE FramesInv'
    <2>1. HostForm(host')
      BY <1>2, HostForms DEF ResetController
    <2> QED
      BY <1>2, <2>1, FreshFrames, EmptyFits DEF ResetController, FramesInv
  <1> QED
    BY <1>1, <1>2

LEMMA FramesNext == FramesInv /\ [ProgrammingNext]_programmingVars => FramesInv'
  <1> SUFFICES ASSUME FramesInv, [ProgrammingNext]_programmingVars PROVE FramesInv'
    OBVIOUS
  <1>1. WiresInv'
    BY WiresNext DEF FramesInv
  <1>2. CASE \E method \in {"Isp", "Updi"}, lock \in BOOLEAN : Begin(method, lock)
    BY <1>1, <1>2, BeginKeepsFrames
  <1>3. CASE End
    BY <1>1, <1>3, EndKeepsFrames
  <1>4. CASE StartUpdiCheck \/ PollUpdiCheck
    BY <1>1, <1>4, CheckKeepsFrames
  <1>5. CASE IspUpdate
    BY <1>1, <1>5 DEF IspUpdate, IspDue, FramesInv
  <1>6. CASE UpdiUpdate
    <2>1. PICK fault \in Faults : /\ updi' = U!Update(updi, input, fault).s
                                  /\ input' = U!Update(updi, input, fault).rest
      BY <1>6 DEF UpdiUpdate
    <2>2. Framed(updi') /\ input' \in Seq(Nat)
      BY <1>6, <2>1, FramedUpdate DEF UpdiUpdate, UpdiDue, FramesInv
    <2> QED
      BY <1>1, <1>6, <2>2 DEF UpdiUpdate, UpdiDue, FramesInv
  <1>7. CASE HostNext
    BY <1>1, <1>7, HostKeepsFrames
  <1>8. CASE ResetTarget \/ ResetController
    BY <1>1, <1>8, ResetsKeepFrames
  <1>9. CASE UNCHANGED programmingVars
    BY <1>1, <1>9 DEF programmingVars, FramesInv
  <1> QED
    BY <1>2, <1>3, <1>4, <1>5, <1>6, <1>7, <1>8, <1>9 DEF ProgrammingNext

\* Nothing is left of a frame outside a session, and within one it finds room;
\* a frame whose command waits for a break is all there.
FramesAreWhole ==
  /\ Len(updi.raw) <= 4 + MaxPage
  /\ programmer # "Updi" => updi.raw = <<>>
  /\ programmer = "Updi" /\ updi.brk # "Idle" =>
       updi.pending # "None" /\ WholeFrame(updi.raw)

\* For every stream of bytes, cut off or out of step as it may be, and whatever
\* checks, interrupted tools and restarts come between: a frame of the host never
\* exceeds the parser's buffer, the command a break has put off finds its frame
\* complete when the break is over, and no part of a frame outlives its session
\* (UpdiProgrammer::_acceptByte, _startBreak, _runPending and shutdown).
THEOREM UpdiFramesAreWhole == ProgrammingSpec => []FramesAreWhole
  <1>1. FramesInv => FramesAreWhole
    BY EmptyFits, HostAssumption DEF FramesInv, FramesAreWhole, Framed, Empty
  <1>2. ProgrammingSpec => []FramesInv
    BY FramesInitially, FramesNext, PTL DEF ProgrammingSpec
  <1> QED
    BY <1>1, <1>2, PTL


-----------------------------------------------------------------------------
(* The answer of a jtagice frame: one, with the frame's number, and of a    *)
(* status its command may have.                                            *)

Refusals == {U!RspNoPower, U!RspIllegalState, U!RspFailed}
Usual == Refusals \union {U!RspOk}

\* A frame is at hand and nothing has been answered; its answer is out.
Holding(s, raw) == AtHand(s) /\ s.raw = raw /\ s.out = <<>>
Told(t, raw, X) ==
  Answered(t) /\ Len(t.out) = 1 /\ t.out[1].seq = raw[2] /\ t.out[1].status \in X

\* The command waits for a break.
Deferred(t, raw, pending) == Awaiting(t, raw) /\ t.pending = pending /\ t.out = <<>>

LEMMA HoldingChanges ==
  ASSUME NEW s, NEW raw, Holding(s, raw)
  PROVE  /\ \A x : Holding([s EXCEPT !.board = x], raw)
         /\ \A x : Holding([s EXCEPT !.connected = x], raw)
         /\ \A x : Holding([s EXCEPT !.inProg = x], raw)
         /\ \A x, y : Holding([s EXCEPT !.connected = x, !.inProg = y], raw)
         /\ Holding([s EXCEPT !.pending = "None"], raw)
  <1>1. AtHand(s) /\ UpdiForm(s) /\ s.raw = raw /\ s.out = <<>>
    BY DEF Holding, AtHand, OnTheWire
  <1>2. ASSUME NEW f \in {"board", "connected", "inProg", "pending"}, NEW x
        PROVE  [s EXCEPT ![f] = x].raw = raw /\ [s EXCEPT ![f] = x].out = <<>>
    BY <1>1 DEF UpdiForm, UpdiFields
  <1>3. ASSUME NEW x, NEW y
        PROVE  /\ [s EXCEPT !.connected = x, !.inProg = y].raw = raw
               /\ [s EXCEPT !.connected = x, !.inProg = y].out = <<>>
    BY <1>1 DEF UpdiForm, UpdiFields
  <1>4. /\ \A x : AtHand([s EXCEPT !.board = x])
        /\ \A x : AtHand([s EXCEPT !.connected = x])
        /\ \A x : AtHand([s EXCEPT !.inProg = x])
        /\ \A x, y : AtHand([s EXCEPT !.connected = x, !.inProg = y])
        /\ AtHand([s EXCEPT !.pending = "None"])
    BY <1>1, HandChanges
  <1> QED
    BY <1>2, <1>3, <1>4, ZenonT(30) DEF Holding

LEMMA HoldingAnswers ==
  ASSUME NEW s, NEW raw, Holding(s, raw), NEW X
  PROVE  /\ \A status \in X : \A data : Told(U!Answer(s, status, data), raw, X)
         /\ \A status \in X : Told(U!Reply(s, status), raw, X)
         /\ U!RspOk \in X => Told(U!ReplyOk(s), raw, X)
         /\ U!RspNoPower \in X => Told(U!ReplyNoPower(s), raw, X)
  <1>1. ASSUME NEW status \in X, NEW data PROVE Told(U!Answer(s, status, data), raw, X)
    <2> DEFINE t == U!Answer(s, status, data)
               a == [seq |-> raw[2], status |-> status, data |-> data]
    <2>1. Answered(t)
      BY HandAnswers DEF Holding
    <2>2. t.out = Append(<<>>, a)
      BY DEF U!Answer, Holding, AtHand, OnTheWire, UpdiForm, UpdiFields
    <2>3. a.seq = raw[2] /\ a.status = status
      OBVIOUS
    <2> HIDE DEF t, a
    <2>4. t.out = <<a>>
      BY <2>2
    <2>5. Told(t, raw, X)
      BY <2>1, <2>3, <2>4 DEF Told
    <2> QED
      BY <2>5 DEF t
  <1> QED
    BY <1>1 DEF U!Reply, U!ReplyOk, U!ReplyNoPower

LEMMA HoldingKeeps ==
  ASSUME NEW s, NEW raw, Holding(s, raw), NEW w, NEW X
  PROVE  /\ Holding(U!Keep(s, w), raw)
         /\ {U!RspOk, U!RspNoPower} \subseteq X => Told(U!Conclude(s, w), raw, X)
         /\ \A status \in X : Told(U!Reply(U!Keep(s, w), status), raw, X)
         /\ \A status \in X : \A data : Told(U!Answer(U!Keep(s, w), status, data), raw, X)
         /\ U!RspNoPower \in X => Told(U!ReplyNoPower(U!Keep(s, w)), raw, X)
  <1>1. Holding(U!Keep(s, w), raw)
    BY HoldingChanges DEF U!Keep
  <1> QED
    BY <1>1, HoldingAnswers DEF U!Conclude

LEMMA HoldingBreaksOff ==
  ASSUME NEW s, NEW raw, Holding(s, raw), NEW pending \in UpdiPendings \ {"None"}
  PROVE  Deferred(U!StartBreak(s, pending), raw, pending)
  <1> DEFINE t == U!StartBreak(s, pending)
  <1>1. Awaiting(t, raw)
    BY HandBreaksOff DEF Holding
  <1>2. t.pending = pending /\ t.out = <<>>
    BY DEF U!StartBreak, Holding, AtHand, OnTheWire, UpdiForm, UpdiFields
  <1> HIDE DEF t
  <1>3. Deferred(t, raw, pending)
    BY <1>1, <1>2 DEF Deferred
  <1> QED
    BY <1>3 DEF t

\* The commands that are answered at once.
LEMMA HoldingCommands ==
  ASSUME NEW s, NEW raw, Holding(s, raw)
  PROVE  /\ Told(U!FinishDescriptor(s), raw, Usual) /\ Told(U!EnterProgmode(s), raw, Usual)
         /\ Told(U!LeaveProgmode(s), raw, Usual) /\ Told(U!Go(s), raw, Usual)
         /\ Told(U!SignOff(s), raw, Usual) /\ Told(U!Erase(s), raw, Usual)
         /\ Told(U!ReadMemory(s), raw, Refusals \union {U!RspMemory})
         /\ U!Body(s)[2] \in {U!MemFuse, U!MemFlash, U!MemEeprom} =>
              Told(U!WriteMemory(s), raw, Usual)
  <1> USE DEF Usual, Refusals
  <1>1. \A x, w : /\ Told(U!Conclude([s EXCEPT !.inProg = x], w), raw, Usual)
                  /\ Told(U!Conclude([s EXCEPT !.connected = x], w), raw, Usual)
    BY HoldingChanges, HoldingKeeps
  <1>2. \A w : /\ \A status \in Usual : Told(U!Reply(U!Keep(s, w), status), raw, Usual)
               /\ Told(U!ReplyNoPower(U!Keep(s, w)), raw, Usual)
               /\ Told(U!Conclude(s, w), raw, Usual)
    BY HoldingKeeps
  <1>3. /\ Told(U!ReplyOk(s), raw, Usual)
        /\ \A status \in Usual : Told(U!Reply(s, status), raw, Usual)
    BY HoldingAnswers
  <1> HIDE DEF Usual, Refusals
  <1>4. U!RspOk \in Usual /\ U!RspNoPower \in Usual /\ U!RspFailed \in Usual
        /\ U!RspIllegalState \in Usual
    BY DEF Usual, Refusals
  <1>5. Told(U!FinishDescriptor(s), raw, Usual)
    BY <1>1 DEF U!FinishDescriptor
  <1>6. Told(U!EnterProgmode(s), raw, Usual)
    <2>1. \A w : /\ Told(U!ReplyNoPower(U!Keep(s, w)), raw, Usual)
                 /\ Told(U!Reply(U!Keep(s, w), U!RspIllegalState), raw, Usual)
      BY <1>2, <1>4
    <2>2. \A w : Told(U!Conclude([s EXCEPT !.inProg = s.inProg \/ w.good], w), raw, Usual)
      BY <1>1
    <2> QED
      BY <2>1, <2>2, SMT DEF U!EnterProgmode
  <1>7. Told(U!LeaveProgmode(s), raw, Usual)
    BY <1>1, <1>2, <1>4 DEF U!LeaveProgmode
  <1>8. ASSUME NEW t, Holding(t, raw), NEW w PROVE Holding(U!DisableUpdi(t, w), raw)
    <2>1. \A v : /\ Holding(U!Keep(t, v), raw)
                 /\ Holding([U!Keep(t, v) EXCEPT !.connected = FALSE, !.inProg = FALSE], raw)
      BY <1>8, HoldingKeeps, HoldingChanges
    <2> QED
      BY <2>1 DEF U!DisableUpdi
  <1>9. ASSUME NEW t, Holding(t, raw)
        PROVE  Told(U!ReplyNoPower(t), raw, Usual) /\ Told(U!ReplyOk(t), raw, Usual)
    BY <1>4, <1>9, HoldingAnswers
  <1>10. Told(U!Go(s), raw, Usual)
    BY <1>8, <1>9 DEF U!Go
  <1>11. Told(U!SignOff(s), raw, Usual)
    <2>1. \A x, w : Holding(U!DisableUpdi([s EXCEPT !.inProg = x], w), raw)
      BY <1>8, HoldingChanges
    <2>2. Holding([s EXCEPT !.connected = FALSE], raw)
      BY HoldingChanges
    <2> QED
      BY <1>9, <2>1, <2>2 DEF U!SignOff
  <1>12. Told(U!EraseChipNow(s), raw, Usual)
    BY <1>1, <1>2 DEF U!EraseChipNow
  <1>13. Told(U!ErasePage(s), raw, Usual)
    BY <1>2 DEF U!ErasePage
  <1>14. Told(U!Erase(s), raw, Usual)
    BY <1>3, <1>4, <1>12, <1>13 DEF U!Erase
  <1>15. \A w : U!Refusal(s, w) \in Usual
    BY <1>4 DEF U!Refusal
  <1>16. Told(U!ReadMemory(s), raw, Refusals \union {U!RspMemory})
    <2> DEFINE X == Refusals \union {U!RspMemory}
    <2>1. \A w : /\ \A status \in X : Told(U!Reply(U!Keep(s, w), status), raw, X)
                 /\ \A status \in X : \A data :
                      Told(U!Answer(U!Keep(s, w), status, data), raw, X)
                 /\ U!RspNoPower \in X => Told(U!ReplyNoPower(U!Keep(s, w)), raw, X)
      BY HoldingKeeps
    <2>2. U!RspNoPower \in X /\ U!RspFailed \in X /\ U!RspMemory \in X
      BY DEF Refusals
    <2>3. \A w : U!Refusal(s, w) \in X \union {U!RspOk}
      BY DEF U!Refusal, Refusals
    <2> HIDE DEF X
    <2>4. Told(U!ReadMemory(s), raw, X)
      BY <2>1, <2>2, <2>3 DEF U!ReadMemory
    <2> QED
      BY <2>4 DEF X
  <1>17. ASSUME U!Body(s)[2] \in {U!MemFuse, U!MemFlash, U!MemEeprom}
         PROVE  Told(U!WriteMemory(s), raw, Usual)
    BY <1>2, <1>4, <1>15, <1>17 DEF U!WriteMemory
  <1> QED
    BY <1>5, <1>6, <1>7, <1>10, <1>11, <1>14, <1>16, <1>17

Join(r, p, q, X) ==
  /\ r \in Seq(X) /\ Len(r) = Len(p) + Len(q)
  /\ \A k \in 1..Len(p) : r[k] = p[k]
  /\ \A k \in 1..Len(q) : r[Len(p) + k] = q[k]

LEMMA Joined ==
  ASSUME NEW X, NEW p \in Seq(X), NEW q \in Seq(X)
  PROVE  Join(p \o q, p, q, X)
  <1> DEFINE r == p \o q
             m == Len(p)
             n == Len(q)
  <1>1. /\ r \in Seq(X) /\ Len(r) = m + n /\ m \in Nat /\ n \in Nat
        /\ \A i \in 1..(m + n) : r[i] = IF i <= m THEN p[i] ELSE q[i - m]
    BY ConcatProperties
  <1> HIDE DEF r, m, n
  <1>2. \A k \in 1..m : r[k] = p[k]
    BY <1>1
  <1>3. ASSUME NEW k \in 1..n PROVE r[m + k] = q[k]
    <2>1. m + k \in 1..(m + n) /\ ~(m + k <= m) /\ m + k - m = k
      BY <1>1
    <2> QED
      BY <1>1, <2>1
  <1> QED
    BY <1>1, <1>2, <1>3 DEF Join, r, m, n

\* What a command may be answered with, and which wait for a break first.
Statuses(op) ==
  CASE op.kind = "Sync" -> {U!RspOk}
    [] op.kind = "SignOn" -> {U!RspSignOn}
    [] op.kind = "Voltage" -> {U!RspParameter}
    [] op.kind = "Baud" -> {IF op.n = 0 THEN U!RspIllegalParameter ELSE U!RspOk}
    [] op.kind = "Strange" -> {U!RspIllegalCommand}
    [] op.kind = "Read" -> Refusals \union {U!RspMemory}
    [] OTHER -> Usual

PendingOf(op) ==
  CASE op.kind = "Setup" -> "Descriptor"
    [] op.kind = "Enter" -> "Enter"
    [] op.kind \in {"Erase", "ErasePage"} -> "Erase"
    [] OTHER -> "None"

UpdiCommand(op) ==
  CASE op.kind = "Sync" -> U!CmdGetSync
    [] op.kind = "SignOn" -> U!CmdSignOn
    [] op.kind = "Voltage" -> U!CmdGetParameter
    [] op.kind = "Baud" -> U!CmdSetParameter
    [] op.kind = "Setup" -> U!CmdSetDescriptor
    [] op.kind = "Enter" -> U!CmdEnter
    [] op.kind = "Leave" -> U!CmdLeave
    [] op.kind = "Go" -> U!CmdGo
    [] op.kind = "SignOff" -> U!CmdSignOff
    [] op.kind \in {"Erase", "ErasePage"} -> U!CmdErase
    [] op.kind = "Write" -> U!CmdWriteMemory
    [] op.kind = "Read" -> U!CmdReadMemory
    [] op.kind = "Strange" -> 99

\* The bodies, as far as the dispatch looks into them.
LEMMA UpdiBodyForms ==
  ASSUME NEW op \in UpdiOps
  PROVE  /\ UpdiBody(op) \in Seq(Nat) /\ Len(UpdiBody(op)) >= 1
         /\ UpdiBody(op)[1] = UpdiCommand(op)
         /\ op.kind = "Voltage" => /\ Len(UpdiBody(op)) = 2
                                   /\ UpdiBody(op)[2] = U!ParVtarget
         /\ op.kind = "Baud" => /\ Len(UpdiBody(op)) = 3
                                /\ UpdiBody(op)[2] = U!ParBaud /\ UpdiBody(op)[3] = op.n
         /\ op.kind = "Setup" => Len(UpdiBody(op)) = 3
         /\ op.kind = "Write" => UpdiBody(op)[2] \in {U!MemFuse, U!MemFlash, U!MemEeprom}
  <1> DEFINE memory == CASE op.at \in Flash -> U!MemFlash
                         [] op.at \in Eeprom -> U!MemEeprom
                         [] OTHER -> U!MemFuse
             located == <<U!CmdWriteMemory, memory, op.n, op.at>>
  <1>1. op.kind \in UpdiKinds /\ op.n \in Nat /\ op.at \in Nat
    BY HostAssumption
  <1>2. UpdiBody(op) \in Seq(Nat)
    BY UpdiBodiesAreBytes
  <1>3. memory \in {U!MemFuse, U!MemFlash, U!MemEeprom} /\ memory \in Nat
    BY DEF U!MemFuse, U!MemFlash, U!MemEeprom
  <1> HIDE DEF memory
  <1>4. ASSUME op.kind = "Write"
        PROVE  /\ Len(UpdiBody(op)) >= 1 /\ UpdiBody(op)[1] = U!CmdWriteMemory
               /\ UpdiBody(op)[2] = memory
    <2>1. UpdiBody(op) = located \o Data(op)
      BY <1>4 DEF UpdiBody, memory
    <2>2. located \in Seq(Nat) /\ Len(located) = 4 /\ Data(op) \in Seq(Nat)
      BY <1>1, <1>3, <1>4, UpdiBodiesAreBytes DEF U!CmdWriteMemory
    <2>3. located[1] = U!CmdWriteMemory /\ located[2] = memory
      OBVIOUS
    <2> HIDE DEF located
    <2> DEFINE data == Data(op)
    <2>4. data \in Seq(Nat) /\ Len(data) \in Nat
      BY <2>2
    <2> HIDE DEF data
    <2>5. Len(located \o data) = 4 + Len(data) /\ (located \o data)[1] = located[1]
          /\ (located \o data)[2] = located[2]
      <3>1. Join(located \o data, located, data, Nat)
        BY <2>2, <2>4, Joined
      <3> QED
        BY <2>2, <3>1 DEF Join
    <2> QED
      BY <2>1, <2>3, <2>4, <2>5 DEF data
  <1>5. CASE op.kind = "Write"
    BY <1>2, <1>3, <1>4, <1>5 DEF UpdiCommand
  <1>6. CASE op.kind = "Read"
    <2>1. UpdiBody(op) = <<U!CmdReadMemory, memory, op.n, op.at>>
      BY <1>6 DEF UpdiBody, memory
    <2> QED
      BY <1>2, <1>6, <2>1 DEF UpdiCommand
  <1>7. CASE op.kind = "Sync"
    <2>1. UpdiBody(op) = <<U!CmdGetSync>>
      BY <1>7 DEF UpdiBody
    <2> QED
      BY <1>2, <1>7, <2>1 DEF UpdiCommand
  <1>8. CASE op.kind = "SignOn"
    <2>1. UpdiBody(op) = <<U!CmdSignOn>>
      BY <1>8 DEF UpdiBody
    <2> QED
      BY <1>2, <1>8, <2>1 DEF UpdiCommand
  <1>9. CASE op.kind = "Voltage"
    <2>1. UpdiBody(op) = <<U!CmdGetParameter, U!ParVtarget>>
      BY <1>9 DEF UpdiBody
    <2> QED
      BY <1>2, <1>9, <2>1 DEF UpdiCommand
  <1>10. CASE op.kind = "Baud"
    <2>1. UpdiBody(op) = <<U!CmdSetParameter, U!ParBaud, op.n>>
      BY <1>10 DEF UpdiBody
    <2> QED
      BY <1>2, <1>10, <2>1 DEF UpdiCommand
  <1>11. CASE op.kind = "Setup"
    <2>1. UpdiBody(op) = <<U!CmdSetDescriptor, op.n, EepromPageBytes>>
      BY <1>11 DEF UpdiBody
    <2> QED
      BY <1>2, <1>11, <2>1 DEF UpdiCommand
  <1>12. CASE op.kind = "Enter"
    <2>1. UpdiBody(op) = <<U!CmdEnter>>
      BY <1>12 DEF UpdiBody
    <2> QED
      BY <1>2, <1>12, <2>1 DEF UpdiCommand
  <1>13. CASE op.kind = "Leave"
    <2>1. UpdiBody(op) = <<U!CmdLeave>>
      BY <1>13 DEF UpdiBody
    <2> QED
      BY <1>2, <1>13, <2>1 DEF UpdiCommand
  <1>14. CASE op.kind = "Go"
    <2>1. UpdiBody(op) = <<U!CmdGo>>
      BY <1>14 DEF UpdiBody
    <2> QED
      BY <1>2, <1>14, <2>1 DEF UpdiCommand
  <1>15. CASE op.kind = "SignOff"
    <2>1. UpdiBody(op) = <<U!CmdSignOff>>
      BY <1>15 DEF UpdiBody
    <2> QED
      BY <1>2, <1>15, <2>1 DEF UpdiCommand
  <1>16. CASE op.kind = "Erase"
    <2>1. UpdiBody(op) = <<U!CmdErase, U!EraseChip>>
      BY <1>16 DEF UpdiBody
    <2> QED
      BY <1>2, <1>16, <2>1 DEF UpdiCommand
  <1>17. CASE op.kind = "ErasePage"
    <2>1. UpdiBody(op) = <<U!CmdErase, U!EraseAppPage, op.at>>
      BY <1>17 DEF UpdiBody
    <2> QED
      BY <1>2, <1>17, <2>1 DEF UpdiCommand
  <1>18. CASE op.kind = "Strange"
    <2>1. UpdiBody(op) = <<99>>
      BY <1>18 DEF UpdiBody
    <2> QED
      BY <1>2, <1>18, <2>1 DEF UpdiCommand
  <1> QED
    BY <1>1, <1>5, <1>6, <1>7, <1>8, <1>9, <1>10, <1>11, <1>12, <1>13,
       <1>14, <1>15, <1>16, <1>17, <1>18 DEF UpdiKinds

\* The frame a command is sent in.
Bare(op) == <<U!StartMark, host.seq, Len(UpdiBody(op)), U!Token>> \o UpdiBody(op)

LEMMA BareForm ==
  ASSUME host.seq \in Nat, NEW op \in UpdiOps
  PROVE  /\ Bare(op) \in Seq(Nat) /\ Len(Bare(op)) = 4 + Len(UpdiBody(op))
         /\ Bare(op)[1] = U!StartMark /\ Bare(op)[2] = host.seq
         /\ Bare(op)[3] = Len(UpdiBody(op)) /\ Bare(op)[4] = U!Token
         /\ SubSeq(Bare(op), 5, Len(Bare(op))) = UpdiBody(op)
         /\ U!Frame(host.seq, UpdiBody(op)) = Append(Bare(op), U!Checksum(Bare(op)))
  <1> DEFINE body == UpdiBody(op)
             head == <<U!StartMark, host.seq, Len(body), U!Token>>
             raw == head \o body
  <1>1. body \in Seq(Nat) /\ Len(body) \in Nat
    BY UpdiBodyForms
  <1>2. Bare(op) = raw
    BY DEF Bare
  <1>3. U!Frame(host.seq, UpdiBody(op)) = Append(raw, U!Checksum(raw))
    BY DEF U!Frame
  <1> HIDE DEF body
  <1>4. /\ head \in Seq(Nat) /\ Len(head) = 4
        /\ head[1] = U!StartMark /\ head[2] = host.seq /\ head[3] = Len(body)
        /\ head[4] = U!Token
    BY <1>1 DEF U!StartMark, U!Token
  <1> HIDE DEF head
  <1>5. /\ raw \in Seq(Nat) /\ Len(raw) = 4 + Len(body)
        /\ \A k \in 1..4 : raw[k] = head[k]
        /\ \A k \in 1..Len(body) : raw[4 + k] = body[k]
    <2>1. Join(raw, head, body, Nat)
      BY <1>1, <1>4, Joined
    <2> HIDE DEF raw
    <2> QED
      BY <1>4, <2>1 DEF Join
  <1> HIDE DEF raw
  <1>6. SubSeq(raw, 5, Len(raw)) = body
    <2>1. SubSeq(raw, 5, Len(raw)) \in Seq(Nat) /\ Len(SubSeq(raw, 5, Len(raw))) = Len(body)
      BY <1>1, <1>5, SubSeqProperties, SMTT(30)
    <2>2. ASSUME NEW k \in 1..Len(body) PROVE SubSeq(raw, 5, Len(raw))[k] = body[k]
      BY <1>1, <1>5, <2>2, SubSeqProperties
    <2> HIDE DEF raw
    <2> QED
      BY <1>1, <2>1, <2>2, SeqEqual
  <1> QED
    BY <1>2, <1>3, <1>4, <1>5, <1>6 DEF body

\* A whole frame is answered once, or its command waits for a break.
LEMMA HoldingDispatches ==
  ASSUME NEW op \in UpdiOps, NEW s, NEW raw, Holding(s, raw), U!Body(s) = UpdiBody(op)
  PROVE  \/ Told(U!Dispatch(s), raw, Statuses(op))
         \/ PendingOf(op) # "None" /\ Deferred(U!Dispatch(s), raw, PendingOf(op))
  <1> DEFINE command == U!Body(s)[1]
             t == U!Dispatch(s)
  <1>1. op.kind \in UpdiKinds /\ op.n \in Nat
    BY HostAssumption
  <1>2. t = CASE command = U!CmdSignOn -> U!Reply(s, U!RspSignOn)
              [] command \in {U!CmdGetSync, U!CmdReset} -> U!ReplyOk(s)
              [] command = U!CmdSignOff -> U!SignOff(s)
              [] command = U!CmdSetParameter -> U!SetParameter(s)
              [] command = U!CmdGetParameter -> U!GetParameter(s)
              [] command = U!CmdSetDescriptor -> U!SetDescriptor(s)
              [] command = U!CmdEnter -> U!BeginEnter(s)
              [] command = U!CmdLeave -> U!LeaveProgmode(s)
              [] command = U!CmdGo -> U!Go(s)
              [] command = U!CmdErase -> U!BeginErase(s)
              [] command = U!CmdReadMemory -> U!ReadMemory(s)
              [] command = U!CmdWriteMemory -> U!WriteMemory(s)
              [] OTHER -> U!Reply(s, U!RspIllegalCommand)
    BY DEF U!Dispatch
  <1>3. command = UpdiCommand(op)
    BY UpdiBodyForms
  <1> HIDE DEF t, command
  <1> USE DEF U!CmdSignOff, U!CmdSignOn, U!CmdSetParameter, U!CmdGetParameter,
              U!CmdWriteMemory, U!CmdReadMemory, U!CmdGo, U!CmdSetDescriptor, U!CmdGetSync,
              U!CmdEnter, U!CmdLeave, U!CmdErase, U!CmdReset
  <1>4. \A X : \A status \in X : Told(U!Reply(s, status), raw, X)
    BY HoldingAnswers
  <1>5. \A X : U!RspOk \in X => Told(U!ReplyOk(s), raw, X)
    BY HoldingAnswers
  <1>6. CASE op.kind = "Sync"
    <2>1. t = U!ReplyOk(s)
      BY <1>2, <1>3, <1>6 DEF UpdiCommand
    <2> QED
      BY <1>5, <1>6, <2>1 DEF Statuses, t
  <1>7. CASE op.kind = "SignOn"
    <2>1. t = U!Reply(s, U!RspSignOn)
      BY <1>2, <1>3, <1>7 DEF UpdiCommand
    <2> QED
      BY <1>4, <1>7, <2>1 DEF Statuses, t
  <1>8. CASE op.kind = "Voltage"
    <2>1. t = U!GetParameter(s)
      BY <1>2, <1>3, <1>8 DEF UpdiCommand
    <2>2. t = U!Reply(s, U!RspParameter)
      BY <1>8, <2>1, UpdiBodyForms DEF U!GetParameter
    <2> QED
      BY <1>4, <1>8, <2>2 DEF Statuses, t
  <1>9. CASE op.kind = "Baud"
    <2>1. t = U!SetParameter(s)
      BY <1>2, <1>3, <1>9 DEF UpdiCommand
    <2>2. op.n <= 28
      BY <1>9, ToolAssumption
    <2> DEFINE body == U!Body(s)
    <2>3. Len(body) = 3 /\ body[2] = U!ParBaud /\ body[3] = op.n
      BY <1>9, UpdiBodyForms
    <2>4. t = IF Len(body) >= 3 /\ (body[2] = U!ParEmu \/ (body[2] = U!ParBaud /\ body[3] \in 1..28))
                THEN U!ReplyOk(s) ELSE U!Reply(s, U!RspIllegalParameter)
      BY <2>1 DEF U!SetParameter
    <2> HIDE DEF body
    <2>5. t = IF op.n = 0 THEN U!Reply(s, U!RspIllegalParameter) ELSE U!ReplyOk(s)
      BY <1>1, <2>2, <2>3, <2>4 DEF U!ParBaud, U!ParEmu
    <2> QED
      BY <1>4, <1>5, <1>9, <2>5 DEF Statuses, t
  <1>10. CASE op.kind = "Strange"
    <2>1. t = U!Reply(s, U!RspIllegalCommand)
      BY <1>2, <1>3, <1>10 DEF UpdiCommand
    <2> QED
      BY <1>4, <1>10, <2>1 DEF Statuses, t
  <1>11. CASE op.kind = "Setup"
    <2> DEFINE flash == IF U!Body(s)[2] = 0 THEN 64 ELSE U!Body(s)[2]
               eeprom == IF U!Body(s)[3] = 0 THEN 32 ELSE U!Body(s)[3]
               version == IF flash >= 256 THEN 2 ELSE 1
               u == [s EXCEPT !.flashPage = flash, !.eepromPage = eeprom,
                              !.nvmVersion = version]
    <2>1. t = U!SetDescriptor(s)
      BY <1>2, <1>3, <1>11 DEF UpdiCommand
    <2>2. U!SetDescriptor(s) = IF Len(U!Body(s)) < 3 THEN U!Reply(s, U!RspFailed)
                               ELSE U!StartBreak(u, "Descriptor")
      BY DEF U!SetDescriptor
    <2>3. Len(U!Body(s)) = 3
      BY <1>11, UpdiBodyForms
    <2> HIDE DEF flash, eeprom, version
    <2>4. OnTheWire(u)
      BY UpdiChanges DEF Holding, AtHand
    <2>5. u.rx = "Start" /\ u.brk = "Idle" /\ u.raw = raw /\ u.out = <<>>
      BY DEF Holding, AtHand, OnTheWire, UpdiForm, UpdiFields
    <2> HIDE DEF u
    <2>6. Holding(u, raw)
      BY <2>4, <2>5 DEF Holding, AtHand
    <2>7. Deferred(U!StartBreak(u, "Descriptor"), raw, "Descriptor")
      BY <2>6, HoldingBreaksOff DEF UpdiPendings
    <2> QED
      BY <1>11, <2>1, <2>2, <2>3, <2>7 DEF PendingOf, t
  <1>12. CASE op.kind = "Enter"
    <2>1. t = U!BeginEnter(s)
      BY <1>2, <1>3, <1>12 DEF UpdiCommand
    <2>2. Told(t, raw, Usual) \/ Deferred(t, raw, "Enter")
      BY <2>1, HoldingCommands, HoldingBreaksOff DEF U!BeginEnter, UpdiPendings
    <2> QED
      BY <1>12, <2>2 DEF Statuses, PendingOf, t
  <1>13. CASE op.kind \in {"Erase", "ErasePage"}
    <2>1. t = U!BeginErase(s)
      BY <1>2, <1>3, <1>13 DEF UpdiCommand
    <2>2. Told(t, raw, Usual) \/ Deferred(t, raw, "Erase")
      BY <2>1, HoldingCommands, HoldingBreaksOff DEF U!BeginErase, UpdiPendings
    <2> QED
      BY <1>13, <2>2 DEF Statuses, PendingOf, t
  <1>14. CASE op.kind \in {"Leave", "Go", "SignOff"}
    <2>1. op.kind = "Leave" => t = U!LeaveProgmode(s)
      BY <1>2, <1>3 DEF UpdiCommand
    <2>2. op.kind = "Go" => t = U!Go(s)
      BY <1>2, <1>3 DEF UpdiCommand
    <2>3. op.kind = "SignOff" => t = U!SignOff(s)
      BY <1>2, <1>3 DEF UpdiCommand
    <2>4. Told(t, raw, Usual)
      BY <1>14, <2>1, <2>2, <2>3, HoldingCommands
    <2> QED
      BY <1>14, <2>4 DEF Statuses, t
  <1>15. CASE op.kind = "Read"
    <2>1. t = U!ReadMemory(s)
      BY <1>2, <1>3, <1>15 DEF UpdiCommand
    <2> QED
      BY <1>15, <2>1, HoldingCommands DEF Statuses, t
  <1>16. CASE op.kind = "Write"
    <2>1. t = U!WriteMemory(s)
      BY <1>2, <1>3, <1>16 DEF UpdiCommand
    <2> QED
      BY <1>16, <2>1, UpdiBodyForms, HoldingCommands DEF Statuses, t
  <1> QED
    BY <1>1, <1>6, <1>7, <1>8, <1>9, <1>10, <1>11, <1>12, <1>13, <1>14, <1>15, <1>16
    DEF UpdiKinds

-----------------------------------------------------------------------------
(* A whole frame is read byte by byte.                                      *)

LEMMA Longer ==
  ASSUME NEW q \in Seq(Nat), NEW k \in Nat, k < Len(q)
  PROVE  /\ Append(SubSeq(q, 1, k), q[k + 1]) = SubSeq(q, 1, k + 1)
         /\ Len(SubSeq(q, 1, k)) = k
         /\ \A i \in 1..k : SubSeq(q, 1, k)[i] = q[i]
  <1> DEFINE n == Len(q)
             short == SubSeq(q, 1, k)
             long == SubSeq(q, 1, k + 1)
             grown == Append(short, q[k + 1])
  <1>1. n \in Nat /\ k + 1 \in 1..n /\ \A i \in 1..n : q[i] \in Nat
    OBVIOUS
  <1>2. /\ short \in Seq(Nat) /\ Len(short) = k /\ \A i \in 1..k : short[i] = q[i]
    BY <1>1, SubSeqProperties
  <1>3. /\ long \in Seq(Nat) /\ Len(long) = k + 1 /\ \A i \in 1..(k + 1) : long[i] = q[i]
    BY <1>1, SubSeqProperties
  <1> HIDE DEF n, short, long
  <1>4. /\ grown \in Seq(Nat) /\ Len(grown) = k + 1
        /\ \A i \in 1..k : grown[i] = short[i]
        /\ grown[k + 1] = q[k + 1]
    BY <1>1, <1>2, AppendProperties, SMTT(30)
  <1> HIDE DEF grown
  <1>5. ASSUME NEW i \in 1..(k + 1) PROVE grown[i] = long[i]
    BY <1>2, <1>3, <1>4, SMTT(30)
  <1>6. grown = long
    BY <1>3, <1>4, <1>5, SeqEqual
  <1> QED
    BY <1>2, <1>6 DEF grown, short, long

\* What a tool sends but for the checksum, and how far it has been read.
WholeRaw(raw) ==
  /\ raw \in Seq(Nat) /\ Len(raw) >= 5
  /\ raw[1] = U!StartMark /\ raw[4] = U!Token
  /\ raw[3] = Len(raw) - 4 /\ raw[3] <= MaxPage

Parsing(s, raw, k) ==
  /\ OnTheWire(s) /\ s.brk = "Idle" /\ s.out = <<>>
  /\ s.raw = SubSeq(raw, 1, k)
  /\ s.rx = CASE k = 0 -> "Start" [] k = 1 -> "Seq" [] k = 2 -> "Size" [] k = 3 -> "Token"
              [] k = Len(raw) -> "Crc" [] OTHER -> "Body"

LEMMA ParsesAByte ==
  ASSUME NEW raw, WholeRaw(raw), NEW k \in Nat, k < Len(raw), NEW s, Parsing(s, raw, k)
  PROVE  Parsing(U!AcceptByte(s, raw[k + 1]), raw, k + 1)
  <1> DEFINE n == Len(raw)
             byte == raw[k + 1]
             more == SubSeq(raw, 1, k + 1)
             taken == [s EXCEPT !.raw = Append(@, byte)]
             Goes(p) == [taken EXCEPT !.rx = p]
             t == U!AcceptByte(s, byte)
  <1> USE HostAssumption
  <1>1. raw \in Seq(Nat) /\ n \in Nat /\ n >= 5 /\ k + 1 \in 1..n /\ byte \in Nat
        /\ raw[3] = n - 4 /\ raw[3] <= MaxPage
    BY SMTT(30) DEF WholeRaw
  <1>2. OnTheWire(s) /\ UpdiForm(s) /\ s.brk = "Idle" /\ s.out = <<>>
        /\ s.raw = SubSeq(raw, 1, k)
    BY DEF Parsing, OnTheWire
  <1>3. /\ Append(s.raw, byte) = more /\ Len(s.raw) = k
        /\ \A i \in 1..k : s.raw[i] = raw[i]
    BY <1>1, <1>2, Longer
  <1>4. s.rx = CASE k = 0 -> "Start" [] k = 1 -> "Seq" [] k = 2 -> "Size" [] k = 3 -> "Token"
                 [] k = n -> "Crc" [] OTHER -> "Body"
    BY DEF Parsing
  <1>5. /\ OnTheWire(taken) /\ UpdiForm(taken) /\ taken.raw = more /\ taken.rx = s.rx
        /\ taken.brk = "Idle" /\ taken.out = <<>>
    BY <1>2, <1>3, UpdiChanges DEF UpdiForm, UpdiFields, OnTheWire
  <1>6. Len(taken.raw) = k + 1
    <2>1. \A i \in 1..(k + 1) : raw[i] \in Nat
      BY <1>1
    <2>2. Len(more) = k + 1
      BY <1>1, <2>1, SubSeqProperties
    <2> QED
      BY <1>5, <2>2
  <1> HIDE DEF taken, byte, more, n
  <1>7. ASSUME NEW p \in UpdiPhases
        PROVE  /\ OnTheWire(Goes(p)) /\ Goes(p).rx = p /\ Goes(p).raw = more
               /\ Goes(p).brk = "Idle" /\ Goes(p).out = <<>>
    BY <1>5, UpdiChanges DEF UpdiForm, UpdiFields
  <1> DEFINE next == CASE k = 0 -> "Seq" [] k = 1 -> "Size" [] k = 2 -> "Token"
                       [] k + 1 = n -> "Crc" [] OTHER -> "Body"
  <1>8. next \in UpdiPhases
    BY DEF UpdiPhases
  <1>9. t = Goes(next) \/ (t = taken /\ next = "Body" /\ s.rx = "Body")
    <2>1. CASE k = 0
      <3>1. s.rx = "Start" /\ next = "Seq"
        BY <1>1, <1>4, <2>1
      <3>2. byte = U!StartMark
        BY <2>1 DEF WholeRaw, byte
      <3>3. t = Goes("Seq")
        BY <3>1, <3>2 DEF U!AcceptByte, taken
      <3> QED
        BY <3>1, <3>3
    <2>2. CASE k = 1
      <3>1. s.rx = "Seq" /\ next = "Size"
        BY <1>1, <1>4, <2>2
      <3>2. t = Goes("Size")
        BY <3>1 DEF U!AcceptByte, taken
      <3> QED
        BY <3>1, <3>2
    <2>3. CASE k = 2
      <3>1. s.rx = "Size" /\ next = "Token"
        BY <1>1, <1>4, <2>3
      <3>2. ~(byte > MaxPage)
        BY <1>1, <2>3 DEF byte
      <3>3. t = Goes("Token")
        BY <3>1, <3>2 DEF U!AcceptByte, taken
      <3> QED
        BY <3>1, <3>3
    <2>4. CASE k = 3
      <3>1. s.rx = "Token" /\ next = "Body"
        BY <1>1, <1>4, <2>4
      <3>2. byte = U!Token
        BY <2>4 DEF WholeRaw, byte
      <3>3. U!BodyLen(s) # 0
        BY <1>1, <1>3, <2>4 DEF U!BodyLen
      <3>4. t = CASE byte = U!Token -> Goes(IF U!BodyLen(s) = 0 THEN "Crc" ELSE "Body")
                  [] byte = U!StartMark -> [s EXCEPT !.rx = "Seq", !.raw = <<byte>>]
                  [] OTHER -> U!Restart(s)
        BY <3>1 DEF U!AcceptByte, taken
      <3> HIDE DEF t, Goes
      <3>5. t = Goes(IF U!BodyLen(s) = 0 THEN "Crc" ELSE "Body")
        BY <3>2, <3>4 DEF U!Token, U!StartMark
      <3>6. t = Goes("Body")
        BY <3>3, <3>5
      <3> QED
        BY <3>1, <3>6
    <2>5. CASE k \in 4..(n - 1)
      <3>1. s.rx = "Body"
        <4>1. k # 0 /\ k # 1 /\ k # 2 /\ k # 3 /\ k # n
          BY <1>1, <2>5
        <4> QED
          BY <1>4, <4>1
      <3>2. U!BodyLen(s) = n - 4
        BY <1>1, <1>3, <2>5 DEF U!BodyLen
      <3>3. next = IF k + 1 = n THEN "Crc" ELSE "Body"
        <4>1. k + 1 # 0 /\ k + 1 # 1 /\ k + 1 # 2 /\ k + 1 # 3
          BY <2>5
        <4> QED
          BY <4>1
      <3>4. t = IF Len(taken.raw) = 4 + U!BodyLen(s) THEN Goes("Crc") ELSE taken
        BY <3>1 DEF U!AcceptByte, taken
      <3>5. Len(taken.raw) = 4 + U!BodyLen(s) <=> k + 1 = n
        BY <1>1, <1>6, <3>2
      <3> HIDE DEF t, next, Goes
      <3> QED
        BY <3>1, <3>3, <3>4, <3>5
    <2>6. k \in {0, 1, 2, 3} \union 4..(n - 1)
      BY <1>1
    <2> QED
      BY <2>1, <2>2, <2>3, <2>4, <2>5, <2>6
  <1> HIDE DEF t, next, Goes
  <1>10. /\ OnTheWire(t) /\ t.rx = next /\ t.raw = more /\ t.brk = "Idle" /\ t.out = <<>>
    BY <1>5, <1>7, <1>8, <1>9
  <1>11. next = CASE k + 1 = 0 -> "Start" [] k + 1 = 1 -> "Seq" [] k + 1 = 2 -> "Size"
                  [] k + 1 = 3 -> "Token" [] k + 1 = n -> "Crc" [] OTHER -> "Body"
    <2>1. /\ k + 1 # 0 /\ (k + 1 = 1 <=> k = 0) /\ (k + 1 = 2 <=> k = 1)
          /\ (k + 1 = 3 <=> k = 2)
      OBVIOUS
    <2> QED
      BY <2>1 DEF next
  <1>12. Parsing(t, raw, k + 1)
    BY <1>10, <1>11 DEF Parsing, more, n
  <1> QED
    BY <1>12 DEF t, byte

\* The last byte is the checksum, and the frame is at hand.
LEMMA ParsesTheChecksum ==
  ASSUME NEW raw, WholeRaw(raw), NEW s, Parsing(s, raw, Len(raw))
  PROVE  \E t : /\ Holding(t, raw) /\ U!Body(t) = SubSeq(raw, 5, Len(raw))
                /\ U!AcceptByte(s, U!Checksum(raw)) = U!Dispatch(t)
  <1> DEFINE t == [s EXCEPT !.rx = "Start"]
             n == Len(raw)
  <1>1. raw \in Seq(Nat) /\ n \in Nat /\ n >= 5
    BY DEF WholeRaw
  <1>2. SubSeq(raw, 1, n) = raw
    <2>1. \A i \in 1..n : raw[i] \in Nat
      BY <1>1
    <2>2. /\ SubSeq(raw, 1, n) \in Seq(Nat) /\ Len(SubSeq(raw, 1, n)) = n
          /\ \A i \in 1..n : SubSeq(raw, 1, n)[i] = raw[i]
      BY <1>1, <2>1, SubSeqProperties
    <2> QED
      BY <1>1, <2>2, SeqEqual
  <1>3. OnTheWire(s) /\ UpdiForm(s) /\ s.brk = "Idle" /\ s.out = <<>> /\ s.raw = raw
        /\ s.rx = "Crc"
    BY <1>1, <1>2 DEF Parsing, OnTheWire
  <1>4. U!AcceptByte(s, U!Checksum(raw)) = U!OnFrame(t, U!Checksum(raw))
    BY <1>3 DEF U!AcceptByte
  <1>5. OnTheWire(t) /\ t.rx = "Start" /\ t.brk = "Idle" /\ t.raw = raw /\ t.out = <<>>
    BY <1>3, UpdiChanges DEF UpdiForm, UpdiFields, UpdiPhases
  <1> HIDE DEF t
  <1>6. Holding(t, raw)
    BY <1>5 DEF Holding, AtHand
  <1>7. U!Body(t) = SubSeq(raw, 5, n)
    BY <1>5 DEF U!Body
  <1>8. U!Body(t) # <<>>
    <2>1. \A i \in 5..n : raw[i] \in Nat
      BY <1>1
    <2>2. Len(SubSeq(raw, 5, n)) = n - 4
      BY <1>1, <2>1, SubSeqProperties
    <2> DEFINE part == SubSeq(raw, 5, n)
    <2>3. Len(part) # 0
      BY <1>1, <2>2
    <2> HIDE DEF part
    <2>4. part # <<>>
      BY <2>3
    <2> QED
      BY <1>7, <2>4 DEF part
  <1>9. U!OnFrame(t, U!Checksum(raw)) = U!Dispatch(t)
    BY <1>5, <1>8 DEF U!OnFrame
  <1> QED
    BY <1>4, <1>6, <1>7, <1>9

LEMMA AnswersRest ==
  ASSUME NEW s, NEW raw, NEW fault
  PROVE  /\ \A X : Told(s, raw, X) => Told([s EXCEPT !.fault = fault], raw, X)
         /\ \A pending : Deferred(s, raw, pending) =>
                           Deferred([s EXCEPT !.fault = fault], raw, pending)
  <1> DEFINE t == [s EXCEPT !.fault = fault]
  <1>1. ASSUME OnTheWire(s)
        PROVE  /\ OnTheWire(t) /\ t.rx = s.rx /\ t.brk = s.brk /\ t.raw = s.raw
               /\ t.out = s.out /\ t.pending = s.pending
    BY <1>1, UpdiChanges DEF OnTheWire, UpdiForm, UpdiFields
  <1> HIDE DEF t
  <1>2. \A X : Told(s, raw, X) => Told(t, raw, X)
    BY <1>1 DEF Told, Answered, AtHand
  <1>3. \A pending : Deferred(s, raw, pending) => Deferred(t, raw, pending)
    BY <1>1 DEF Deferred, Awaiting
  <1> QED
    BY <1>2, <1>3 DEF t

\* The pass that finds a whole frame at the port.
LEMMA FrameIsAnswered ==
  ASSUME host.seq \in Nat, NEW op \in UpdiOps, NEW s, Answered(s), s.out = <<>>, NEW fault
  PROVE  LET done == U!Update(s, U!Frame(host.seq, UpdiBody(op)), fault)
         IN /\ done.rest = <<>>
            /\ \/ Told(done.s, Bare(op), Statuses(op))
               \/ PendingOf(op) # "None" /\ Deferred(done.s, Bare(op), PendingOf(op))
  <1> DEFINE raw == Bare(op)
             n == Len(raw)
             stream == U!Frame(host.seq, UpdiBody(op))
             start == [s EXCEPT !.fault = fault]
             first == [s |-> U!Woken(start), rest |-> <<>>]
             read == CHOOSE g : UpdiReads(g, first, stream, Len(stream))
             Here(k) == DOMAIN read[k] = {"s", "rest"} /\ read[k].rest = <<>>
             S == {k \in Nat : k <= n => Here(k) /\ Parsing(read[k].s, raw, k)}
             last == read[n + 1]
  <1>1. U!Update(s, stream, fault) = [read[Len(stream)] EXCEPT !.s.fault = U!NoFault]
    BY DEF U!Update, UpdiReads, OnTheWire, Answered, AtHand
  <1>2. WholeRaw(raw) /\ SubSeq(raw, 5, n) = UpdiBody(op) /\ n \in Nat
    <2> DEFINE m == Len(UpdiBody(op))
    <2>1. m \in Nat /\ m >= 1 /\ m <= MaxPage
      BY UpdiBodyForms, ToolAssumption
    <2>2. /\ raw \in Seq(Nat) /\ n = 4 + m /\ raw[1] = U!StartMark /\ raw[3] = m
          /\ raw[4] = U!Token /\ SubSeq(raw, 5, n) = UpdiBody(op)
      BY BareForm
    <2> HIDE DEF m, raw, n
    <2>3. n >= 5 /\ n - 4 = m /\ n \in Nat
      BY <2>1, <2>2
    <2> QED
      BY <2>1, <2>2, <2>3 DEF WholeRaw, n
  <1>3. raw \in Seq(Nat) /\ n >= 5
    BY <1>2 DEF WholeRaw
  <1>4. stream = Append(raw, U!Checksum(raw))
    BY BareForm
  <1> HIDE DEF raw, n
  <1>5. /\ Len(stream) = n + 1 /\ stream[n + 1] = U!Checksum(raw)
        /\ \A k \in 1..n : stream[k] = raw[k]
    BY <1>2, <1>3, <1>4, ChecksumIsAByte, AppendProperties DEF n
  <1> HIDE DEF stream
  <1>6. UpdiReads(read, first, stream, n + 1)
    <2> HIDE DEF first
    <2>1. \E g : UpdiReads(g, first, stream, n + 1)
      <3>1. n + 1 \in Nat
        BY <1>2
      <3> QED
        BY <3>1, UpdiReadingExists
    <2> QED
      BY <1>5, <2>1
  <1>7. Parsing(U!Woken(start), raw, 0)
    <2>1. OnTheWire(s) /\ UpdiForm(s)
      BY DEF Answered, AtHand, OnTheWire
    <2>2. /\ OnTheWire(start) /\ start.brk = "Idle" /\ start.rx = "Start"
          /\ start.raw = <<>> /\ start.out = <<>>
      BY <2>1, UpdiChanges DEF Answered, AtHand, UpdiForm, UpdiFields
    <2>3. U!Woken(start) = start
      BY <2>2 DEF U!Woken
    <2>4. SubSeq(raw, 1, 0) = <<>>
      BY SubSeqEmpty
    <2> HIDE DEF start
    <2> QED
      <3>1. n # 0
        BY <1>2, <1>3
      <3>2. Parsing(start, raw, 0)
        <4>1. (CASE 0 = 0 -> "Start" [] 0 = 1 -> "Seq" [] 0 = 2 -> "Size" [] 0 = 3 -> "Token"
                 [] 0 = n -> "Crc" [] OTHER -> "Body") = "Start"
          BY <3>1
        <4> QED
          BY <2>2, <2>4, <4>1 DEF Parsing, n
      <3> QED
        BY <2>3, <3>2
  <1> HIDE DEF read, start
  <1>8. 0 \in S
    <2>1. read[0] = first
      BY <1>2, <1>6 DEF UpdiReads
    <2> QED
      BY <1>7, <2>1
  <1> HIDE DEF first
  <1>9. ASSUME NEW k \in S PROVE k + 1 \in S
    <2>1. CASE k + 1 <= n
      <3>1. k \in Nat /\ k < n /\ k + 1 \in 1..n /\ k + 1 \in 0..(n + 1) /\ k + 1 # 0
        BY <1>2, <2>1
      <3>2. Here(k) /\ Parsing(read[k].s, raw, k)
        BY <1>2, <3>1
      <3>3. read[k + 1] = U!ReadByte(read[k], raw[k + 1])
        BY <1>5, <1>6, <3>1 DEF UpdiReads
      <3> DEFINE a == read[k]
                 byte == raw[k + 1]
      <3>4. Parsing(U!AcceptByte(a.s, byte), raw, k + 1)
        BY <1>2, <3>1, <3>2, ParsesAByte DEF n
      <3>5. U!ReadByte(a, byte) = [a EXCEPT !.s = U!AcceptByte(a.s, byte)]
        BY <3>2 DEF U!ReadByte, Parsing
      <3> HIDE DEF byte
      <3>6. Here(k + 1) /\ read[k + 1].s = U!AcceptByte(a.s, byte)
        BY <3>2, <3>3, <3>5 DEF byte
      <3> QED
        BY <3>1, <3>4, <3>6
    <2> QED
      BY <2>1
  <1>10. S = Nat
    BY <1>8, <1>9, InductionOnSets
  <1>11. Here(n) /\ Parsing(read[n].s, raw, n)
    BY <1>2, <1>10
  <1> HIDE DEF S
  <1>12. last = U!ReadByte(read[n], U!Checksum(raw))
    BY <1>2, <1>5, <1>6 DEF UpdiReads
  <1>13. PICK t : /\ Holding(t, raw) /\ U!Body(t) = UpdiBody(op)
                  /\ U!AcceptByte(read[n].s, U!Checksum(raw)) = U!Dispatch(t)
    BY <1>2, <1>11, ParsesTheChecksum DEF n
  <1>14. DOMAIN last = {"s", "rest"} /\ last.rest = <<>> /\ last.s = U!Dispatch(t)
    BY <1>11, <1>12, <1>13 DEF U!ReadByte, Parsing
  <1>15. \/ Told(U!Dispatch(t), raw, Statuses(op))
         \/ PendingOf(op) # "None" /\ Deferred(U!Dispatch(t), raw, PendingOf(op))
    BY <1>13, HoldingDispatches
  <1> DEFINE final == [last EXCEPT !.s.fault = U!NoFault]
  <1> HIDE DEF last
  <1>16. final.s = [last.s EXCEPT !.fault = U!NoFault] /\ final.rest = <<>>
    BY <1>14
  <1>17. U!Update(s, stream, fault) = final
    BY <1>1, <1>5 DEF last
  <1> HIDE DEF final
  <1>18. \/ Told(final.s, raw, Statuses(op))
         \/ PendingOf(op) # "None" /\ Deferred(final.s, raw, PendingOf(op))
    <2> DEFINE u == U!Dispatch(t)
    <2>1. final.s = [u EXCEPT !.fault = U!NoFault]
      BY <1>14, <1>16
    <2> HIDE DEF u
    <2>2. /\ \A X : Told(u, raw, X) => Told(final.s, raw, X)
          /\ \A pending : Deferred(u, raw, pending) => Deferred(final.s, raw, pending)
      <3>1. LET v == [u EXCEPT !.fault = U!NoFault]
            IN /\ \A X : Told(u, raw, X) => Told(v, raw, X)
               /\ \A pending : Deferred(u, raw, pending) => Deferred(v, raw, pending)
        BY AnswersRest
      <3> QED
        BY <2>1, <3>1
    <2> QED
      BY <1>15, <2>2 DEF u
  <1> QED
    BY <1>16, <1>17, <1>18 DEF raw, stream

\* A pass while the command waits, and the one that ends the break.
LEMMA BreakIsAnswered ==
  ASSUME NEW op \in UpdiOps, NEW raw, NEW s, Deferred(s, raw, PendingOf(op)), NEW fault
  PROVE  LET done == U!Update(s, <<>>, fault)
         IN /\ done.rest = <<>>
            /\ \/ Told(done.s, raw, Statuses(op))
               \/ Deferred(done.s, raw, PendingOf(op))
  <1> DEFINE start == [s EXCEPT !.fault = fault]
             woken == U!Woken(start)
             moved == U!AdvanceBreak(start)
             taken == [moved EXCEPT !.pending = "None"]
  <1>1. /\ OnTheWire(start) /\ UpdiForm(start) /\ start.rx = "Start" /\ start.brk # "Idle"
        /\ start.raw = raw /\ start.pending = PendingOf(op) /\ start.out = <<>>
        /\ start.pending # "None"
    <2>1. Deferred(start, raw, PendingOf(op))
      BY AnswersRest
    <2> HIDE DEF start
    <2> QED
      BY <2>1 DEF Deferred, Awaiting, OnTheWire
  <1> HIDE DEF start
  <1>2. OnTheWire(moved) /\ UpdiForm(moved)
    BY <1>1, UpdiAdvances DEF OnTheWire
  <1>3. /\ moved.rx = "Start" /\ moved.raw = raw /\ moved.pending = PendingOf(op)
        /\ moved.out = <<>>
    BY <1>1 DEF U!AdvanceBreak, UpdiForm, UpdiFields, UpdiBreaks
  <1>4. woken = IF moved.brk = "Idle" THEN U!RunPending(moved) ELSE moved
    BY <1>1 DEF U!Woken
  <1> HIDE DEF moved
  <1>5. moved.brk # "Idle" => Deferred(woken, raw, PendingOf(op))
    BY <1>1, <1>2, <1>3, <1>4 DEF Deferred, Awaiting
  <1>6. ASSUME moved.brk = "Idle" PROVE Told(woken, raw, Statuses(op))
    <2>1. Holding(moved, raw)
      BY <1>2, <1>3, <1>6 DEF Holding, AtHand
    <2>2. Holding(taken, raw)
      BY <2>1, HoldingChanges
    <2>3. woken = CASE moved.pending = "Descriptor" -> U!FinishDescriptor(taken)
                    [] moved.pending = "Enter" -> U!EnterProgmode(taken)
                    [] moved.pending = "Erase" -> U!Erase(taken)
                    [] moved.pending = "None" -> taken
      BY <1>4, <1>6 DEF U!RunPending
    <2> HIDE DEF taken, woken
    <2>4. moved.pending \in {"Descriptor", "Enter", "Erase"}
      BY <1>1, <1>3 DEF PendingOf
    <2>5. Told(woken, raw, Usual)
      BY <2>2, <2>3, <2>4, HoldingCommands
    <2>6. Statuses(op) = Usual
      BY <1>1, <1>3, <2>4 DEF PendingOf, Statuses
    <2> QED
      BY <2>5, <2>6
  <1> DEFINE first == [s |-> woken, rest |-> <<>>]
             done == [first EXCEPT !.s.fault = U!NoFault]
  <1>7. U!Update(s, <<>>, fault) = done
    <2> DEFINE read == CHOOSE g : UpdiReads(g, first, <<>>, 0)
    <2>1. U!Update(s, <<>>, fault) = [read[0] EXCEPT !.s.fault = U!NoFault]
      BY EmptyFits DEF U!Update, UpdiReads, Deferred, Awaiting, OnTheWire, start
    <2>2. UpdiReads(read, first, <<>>, 0)
      <3>1. \E g : UpdiReads(g, first, <<>>, 0)
        BY UpdiReadingExists
      <3> QED
        BY <3>1
    <2> HIDE DEF read
    <2>3. read[0] = first
      BY <2>2 DEF UpdiReads
    <2> QED
      BY <2>1, <2>3
  <1> HIDE DEF woken
  <1>8. done.s = [woken EXCEPT !.fault = U!NoFault] /\ done.rest = <<>>
    OBVIOUS
  <1> HIDE DEF done
  <1>9. Told(done.s, raw, Statuses(op)) \/ Deferred(done.s, raw, PendingOf(op))
    <2>1. /\ \A X : Told(woken, raw, X) => Told(done.s, raw, X)
          /\ \A pending : Deferred(woken, raw, pending) => Deferred(done.s, raw, pending)
      <3>1. LET v == [woken EXCEPT !.fault = U!NoFault]
            IN /\ \A X : Told(woken, raw, X) => Told(v, raw, X)
               /\ \A pending : Deferred(woken, raw, pending) => Deferred(v, raw, pending)
        BY AnswersRest
      <3> QED
        BY <1>8, <3>1
    <2> QED
      BY <1>5, <1>6, <2>1
  <1> QED
    BY <1>7, <1>8, <1>9

-----------------------------------------------------------------------------
(* The answers of an STK500 command: what is written, and what is waited    *)
(* for before it is.                                                       *)

\* Between two commands, while one is carried out, and while it waits.
Ready(s, o) ==
  /\ IspForm(s) /\ s.after = "None" /\ s.out = o
  /\ s.phase = "Command" /\ Cleared(s)
Given(s, o) == IspForm(s) /\ s.after = "None" /\ s.out = o
Halted(s, next, o) == IspForm(s) /\ s.after = next /\ s.out = o

Positive == <<I!Insync, I!Ok>>

LEMMA GivenReplies ==
  ASSUME NEW s, NEW o, Given(s, o)
  PROVE  /\ \A a : Ready(I!Idle(I!Write(s, a)), o \o a)
         /\ \A a, x : Ready(I!Idle([I!Write(s, a) EXCEPT !.address = x]), o \o a)
         /\ Ready(I!ReplyOk(s), o \o Positive)
         /\ Ready(I!ReplyFailed(s), o \o <<I!Insync, I!Failed>>)
         /\ Ready(I!Idle(I!Tell(s)), o \o <<I!Insync, I!Filler, I!Ok>>)
  <1>1. ASSUME NEW t, Given(t, o), NEW a
        PROVE  Given(I!Write(t, a), o \o a)
    <2> DEFINE u == I!Write(t, a)
    <2>1. IspForm(u)
      BY <1>1, IspParts DEF Given
    <2>2. u.after = "None" /\ u.out = o \o a
      BY <1>1 DEF I!Write, Given, IspForm, IspFields
    <2> HIDE DEF u
    <2>3. Given(u, o \o a)
      BY <2>1, <2>2 DEF Given
    <2> QED
      BY <2>3 DEF u
  <1>2. ASSUME NEW t, NEW p, Given(t, p)
        PROVE  Ready(I!Idle(t), p)
    <2> DEFINE u == I!Idle(t)
    <2>1. IspForm(u) /\ u.after = "None"
      BY <1>2, IspParts DEF Given
    <2>2. u.out = p /\ u.phase = "Command" /\ Cleared(u)
      BY <1>2 DEF I!Idle, Given, IspForm, IspFields, Cleared
    <2> HIDE DEF u
    <2>3. Ready(u, p)
      BY <2>1, <2>2 DEF Ready
    <2> QED
      BY <2>3 DEF u
  <1>3. ASSUME NEW t, NEW p, Given(t, p), NEW x
        PROVE  Given([t EXCEPT !.address = x], p)
    BY <1>3 DEF Given, IspForm, IspFields
  <1>4. \A a : Ready(I!Idle(I!Write(s, a)), o \o a)
    BY <1>1, <1>2
  <1>5. \A a, x : Ready(I!Idle([I!Write(s, a) EXCEPT !.address = x]), o \o a)
    BY <1>1, <1>2, <1>3
  <1> QED
    BY <1>4, <1>5 DEF I!ReplyOk, I!ReplyFailed, I!Tell, Positive

LEMMA GivenWaits ==
  ASSUME NEW s, NEW o, Given(s, o), NEW next \in IspWaits \ {"ProgrammingEnable"}
  PROVE  /\ Halted(I!Defer(s, next), next, o)
         /\ \A instr, address, data :
              /\ Given(I!Transfer4(s, instr, address, data), o)
              /\ Halted(I!Defer(I!Transfer4(s, instr, address, data), next), next, o)
  <1>1. ASSUME NEW t, Given(t, o) PROVE Halted(I!Defer(t, next), next, o)
    <2> DEFINE u == I!Defer(t, next)
    <2>1. IspForm(u)
      BY <1>1, IspParts DEF Given
    <2>2. u.after = next /\ u.out = o
      BY <1>1 DEF I!Defer, Given, IspForm, IspFields
    <2> HIDE DEF u
    <2>3. Halted(u, next, o)
      BY <2>1, <2>2 DEF Halted
    <2> QED
      BY <2>3 DEF u
  <1>2. ASSUME NEW instr, NEW address, NEW data
        PROVE  Given(I!Transfer4(s, instr, address, data), o)
    <2> DEFINE u == I!Transfer4(s, instr, address, data)
    <2>1. IspForm(u)
      BY IspParts DEF Given
    <2>2. u.after = "None" /\ u.out = o
      BY DEF I!Transfer4, Given, IspForm, IspFields
    <2> HIDE DEF u
    <2>3. Given(u, o)
      BY <2>1, <2>2 DEF Given
    <2> QED
      BY <2>3 DEF u
  <1> QED
    BY <1>1, <1>2

\* Entering: at once, or after a wait, with as many tries as it takes.
LEMMA GivenEnters ==
  ASSUME NEW s, NEW o, Given(s, o)
  PROVE  \/ Ready(I!BeginProgramming(s), o \o Positive)
         \/ Halted(I!BeginProgramming(s), "ProgrammingEnable", o)
  <1>1. IspForm(I!BeginProgramming(s))
    BY IspEnters DEF Given
  <1>2. CASE s.programming
    BY <1>2, GivenReplies DEF I!BeginProgramming
  <1>3. CASE ~s.programming
    <2> DEFINE u == I!BeginProgramming(s)
    <2>1. u = I!Defer([I!DriveReset([s EXCEPT !.spi = TRUE], "Low") EXCEPT !.attempts = 0],
                      "ProgrammingEnable")
      BY <1>3 DEF I!BeginProgramming
    <2>2. u.after = "ProgrammingEnable" /\ u.out = o
      BY <2>1 DEF I!Defer, I!DriveReset, Given, IspForm, IspFields
    <2> HIDE DEF u
    <2>3. IspForm(u) => Halted(u, "ProgrammingEnable", o)
      BY <2>2 DEF Halted
    <2> QED
      BY <1>1, <2>3 DEF u
  <1> QED
    BY <1>2, <1>3

LEMMA GivenTries ==
  ASSUME NEW s, NEW o, Given(s, o), s.spi, NEW hears
  PROVE  \/ Ready(I!TryProgrammingEnable(s, hears), o \o Positive)
         \/ Ready(I!TryProgrammingEnable(s, hears), o \o <<I!Insync, I!Failed>>)
         \/ Halted(I!TryProgrammingEnable(s, hears), "ProgrammingEnable", o)
  <1> DEFINE high == I!DriveReset(s, "High")
             missed == [high EXCEPT !.attempts = @ + 1]
             low == I!DriveReset(missed, "Low")
             entered == [s EXCEPT !.programming = TRUE, !.board.enabled = TRUE]
             failed == [missed EXCEPT !.programming = FALSE]
             u == I!TryProgrammingEnable(s, hears)
  <1>1. IspForm(u)
    BY IspTries DEF Given
  <1>2. Given(high, o) /\ high.spi
    <2>1. IspForm(high) /\ high.spi /\ high.after = "None"
      BY IspParts DEF Given
    <2>2. high.out = o
      BY DEF I!DriveReset, Given, IspForm, IspFields
    <2> HIDE DEF high
    <2> QED
      BY <2>1, <2>2 DEF Given
  <1>3. Given(entered, o)
    BY DEF Given, IspForm, IspFields
  <1> HIDE DEF high, entered
  <1>4. Given(missed, o) /\ missed.spi
    BY <1>2 DEF Given, IspForm, IspFields
  <1> HIDE DEF missed
  <1>5. Given(failed, o)
    BY <1>4 DEF Given, IspForm, IspFields
  <1>6. low.out = o /\ IspForm(low)
    BY <1>4, IspParts DEF I!DriveReset, Given, IspForm, IspFields
  <1> HIDE DEF failed, low
  <1>7. I!Defer(low, "ProgrammingEnable").after = "ProgrammingEnable"
        /\ I!Defer(low, "ProgrammingEnable").out = o
    BY <1>6 DEF I!Defer, IspForm, IspFields
  <1>8. u = IF hears THEN I!ReplyOk(entered)
            ELSE IF missed.attempts >= I!ProgrammingTries THEN I!ReplyFailed(failed)
                 ELSE I!Defer(low, "ProgrammingEnable")
    BY DEF I!TryProgrammingEnable, high, missed, low, entered, failed
  <1>9. Ready(I!ReplyOk(entered), o \o Positive)
    BY <1>3, GivenReplies
  <1>10. Ready(I!ReplyFailed(failed), o \o <<I!Insync, I!Failed>>)
    BY <1>5, GivenReplies
  <1> HIDE DEF u
  <1>11. u = I!Defer(low, "ProgrammingEnable") => Halted(u, "ProgrammingEnable", o)
    BY <1>1, <1>7 DEF Halted
  <1>12. \/ u = I!ReplyOk(entered) \/ u = I!ReplyFailed(failed)
         \/ u = I!Defer(low, "ProgrammingEnable")
    BY <1>8
  <1>13. \/ Ready(u, o \o Positive) \/ Ready(u, o \o <<I!Insync, I!Failed>>)
         \/ Halted(u, "ProgrammingEnable", o)
    BY <1>9, <1>10, <1>11, <1>12
  <1> QED
    BY <1>13 DEF u

\* The next byte of an EEPROM page, or the answer after the last.
LEMMA GivenNextByte ==
  ASSUME NEW s, NEW o, Given(s, o)
  PROVE  /\ \/ Ready(I!ProgramNextEepromByte(s), o \o Positive)
            \/ Halted(I!ProgramNextEepromByte(s), "EepromNext", o)
         /\ \/ Ready(I!ProgramEeprom(s), o \o Positive)
            \/ Halted(I!ProgramEeprom(s), "EepromNext", o)
         /\ Halted(I!ProgramFlash(s), "ReplyOk", o)
  <1>1. ASSUME NEW t, Given(t, o)
        PROVE  \/ Ready(I!ProgramNextEepromByte(t), o \o Positive)
               \/ Halted(I!ProgramNextEepromByte(t), "EepromNext", o)
    <2> DEFINE sent == I!Transfer4(t, I!InstrWriteEeprom, 2 * t.address + t.eepromNext,
                                   t.page[t.eepromNext + 1])
               counted == [sent EXCEPT !.eepromNext = @ + 1]
    <2>1. Given(sent, o)
      BY <1>1, GivenWaits DEF IspWaits
    <2> HIDE DEF sent
    <2>2. Given(counted, o)
      BY <2>1 DEF Given, IspForm, IspFields
    <2> HIDE DEF counted
    <2>3. Halted(I!Defer(counted, "EepromNext"), "EepromNext", o)
      BY <2>2, GivenWaits DEF IspWaits
    <2>4. Ready(I!ReplyOk(t), o \o Positive)
      BY <1>1, GivenReplies
    <2>5. I!ProgramNextEepromByte(t) = IF t.eepromNext >= I!PageLen(t) THEN I!ReplyOk(t)
                                       ELSE I!Defer(counted, "EepromNext")
      BY DEF I!ProgramNextEepromByte, counted, sent
    <2> QED
      BY <2>3, <2>4, <2>5
  <1>2. Given([s EXCEPT !.eepromNext = 0], o)
    BY DEF Given, IspForm, IspFields
  <1>3. Halted(I!ProgramFlash(s), "ReplyOk", o)
    <2> DEFINE loaded == I!LoadPage(s)
    <2>1. Given(loaded, o)
      BY DEF I!LoadPage, Given, IspForm, IspFields
    <2> HIDE DEF loaded
    <2>2. \A instr, address, data :
            Halted(I!Defer(I!Transfer4(loaded, instr, address, data), "ReplyOk"), "ReplyOk", o)
      BY <2>1, GivenWaits DEF IspWaits
    <2> QED
      BY <2>2 DEF I!ProgramFlash, loaded
  <1> QED
    BY <1>1, <1>2, <1>3 DEF I!ProgramEeprom

\* An answer with cells in it.
LEMMA Enclosed ==
  ASSUME NEW n \in Nat, NEW c, c = [i \in 1..n |-> c[i]]
  PROVE  LET a == <<I!Insync>> \o c \o <<I!Ok>>
             p == Positive \o a
         IN /\ Len(a) = n + 2 /\ a[1] = I!Insync /\ a[n + 2] = I!Ok
            /\ Len(p) = n + 4 /\ p[1] = I!Insync /\ p[2] = I!Ok /\ p[3] = I!Insync
            /\ p[n + 4] = I!Ok
  <1> DEFINE X == {c[i] : i \in 1..n} \union {I!Insync, I!Ok}
             h == <<I!Insync>>
             e == <<I!Ok>>
             g == Positive
             b == h \o c
             a == b \o e
             p == g \o a
  <1>1. c \in Seq(X) /\ Len(c) = n
    <2>1. \A i \in 1..n : c[i] \in X
      OBVIOUS
    <2> HIDE DEF X
    <2>2. c \in [1..n -> X]
      BY <2>1
    <2> QED
      BY <2>2
  <1>2. I!Insync \in X /\ I!Ok \in X
    OBVIOUS
  <1> HIDE DEF X
  <1>3. h \in Seq(X) /\ Len(h) = 1 /\ h[1] = I!Insync
    BY <1>2
  <1>4. e \in Seq(X) /\ Len(e) = 1 /\ e[1] = I!Ok
    BY <1>2
  <1>5. g \in Seq(X) /\ Len(g) = 2 /\ g[1] = I!Insync /\ g[2] = I!Ok
    BY <1>2 DEF Positive
  <1> HIDE DEF h, e, g
  <1>6. b \in Seq(X) /\ Len(b) = n + 1 /\ b[1] = I!Insync
    <2>1. Join(b, h, c, X)
      BY <1>1, <1>3, Joined
    <2> HIDE DEF b
    <2> QED
      BY <1>1, <1>3, <2>1 DEF Join
  <1> HIDE DEF b
  <1>7. a \in Seq(X) /\ Len(a) = n + 2 /\ a[1] = I!Insync /\ a[n + 2] = I!Ok
    <2>1. Join(a, b, e, X)
      BY <1>4, <1>6, Joined
    <2> HIDE DEF a
    <2>2. 1 \in 1..Len(b) /\ 1 \in 1..Len(e) /\ Len(b) + 1 = n + 2 /\ Len(b) + Len(e) = n + 2
      BY <1>4, <1>6
    <2> QED
      BY <1>4, <1>6, <2>1, <2>2 DEF Join
  <1> HIDE DEF a
  <1>8. /\ Len(p) = n + 4 /\ p[1] = I!Insync /\ p[2] = I!Ok /\ p[3] = I!Insync
        /\ p[n + 4] = I!Ok
    <2>1. Join(p, g, a, X)
      BY <1>5, <1>7, Joined
    <2> HIDE DEF p
    <2>2. /\ 1 \in 1..Len(g) /\ 2 \in 1..Len(g) /\ 1 \in 1..Len(a)
          /\ n + 2 \in 1..Len(a) /\ Len(g) + 1 = 3 /\ Len(g) + (n + 2) = n + 4
          /\ Len(g) + Len(a) = n + 4
      BY <1>5, <1>7
    <2> QED
      BY <1>5, <1>7, <2>1, <2>2 DEF Join
  <1> QED
    BY <1>7, <1>8 DEF p, a, b, h, e, g

\* A command without a page, complete.
LEMMA GivenFixed ==
  ASSUME NEW s, NEW o, Given(s, o)
  PROVE  /\ s.cmd \in {I!GetSync, I!SetDevice, I!LoadAddress, I!LeaveProgmode} =>
              Ready(I!DispatchFixed(s), o \o Positive)
         /\ s.cmd = I!GetSignOn =>
              Ready(I!DispatchFixed(s), o \o <<I!Insync, I!Filler, I!Ok>>)
         /\ s.cmd = I!ReadSign =>
              \E c : c = [i \in 1..3 |-> c[i]]
                     /\ Ready(I!DispatchFixed(s), o \o (<<I!Insync>> \o c \o <<I!Ok>>))
         /\ s.cmd = I!EnterProgmode =>
              \/ Ready(I!DispatchFixed(s), o \o Positive)
              \/ Halted(I!DispatchFixed(s), "ProgrammingEnable", o)
         /\ s.cmd = I!ChipErase => Halted(I!DispatchFixed(s), "ReplyOk", o)
         /\ s.cmd = I!Universal /\ s.fixed[1] = I!InstrErase /\ s.fixed[2] = 128 =>
              Halted(I!DispatchFixed(s), "ReplyEraseByte", o)
  <1> DEFINE cells == [i \in 1..3 |-> I!Shifted(s.board, I!InstrSignature, i - 1)]
             t == I!DispatchFixed(s)
  <1> USE DEF I!GetSync, I!SetDevice, I!LoadAddress, I!LeaveProgmode, I!GetSignOn,
              I!ReadSign, I!EnterProgmode, I!ChipErase, I!Universal, I!GetParameter
  <1>1. t = CASE s.cmd \in {I!GetSignOn, I!GetParameter} -> I!Idle(I!Tell(s))
              [] s.cmd = I!SetDevice -> I!ReplyOk([s EXCEPT !.pageSize = s.fixed[1]])
              [] s.cmd = I!LoadAddress -> I!ReplyOk([s EXCEPT !.address = s.fixed[1]])
              [] s.cmd = I!EnterProgmode -> I!BeginProgramming(s)
              [] s.cmd = I!LeaveProgmode -> I!LeaveProgramming(s)
              [] s.cmd = I!ChipErase ->
                   I!Defer(I!Transfer4(s, I!InstrErase, 128, I!Filler), "ReplyOk")
              [] s.cmd = I!Universal -> I!RunUniversal(s)
              [] s.cmd = I!ReadSign ->
                   I!Idle(I!Write(s, <<I!Insync>> \o cells \o <<I!Ok>>))
              [] OTHER -> I!ReplyOk(s)
    BY DEF I!DispatchFixed
  <1> HIDE DEF t
  <1>2. \A x : /\ Given([s EXCEPT !.pageSize = x], o) /\ Given([s EXCEPT !.address = x], o)
    BY DEF Given, IspForm, IspFields
  <1>3. Ready(I!LeaveProgramming(s), o \o Positive)
    <2> DEFINE off == [s EXCEPT !.spi = FALSE]
               high == I!DriveReset(off, "High")
               left == [high EXCEPT !.programming = FALSE]
    <2>1. high = [s EXCEPT !.spi = FALSE, !.reset = "High",
                           !.board = [@ EXCEPT !.enabled = @ /\ FALSE]]
      BY DEF I!DriveReset, Given, IspForm, IspFields
    <2>2. Given(left, o)
      BY <2>1, ZenonT(30) DEF Given, IspForm, IspFields
    <2> HIDE DEF left
    <2>3. Ready(I!ReplyOk(left), o \o Positive)
      BY <2>2, GivenReplies
    <2> QED
      BY <2>3 DEF I!LeaveProgramming, left, high, off
  <1>4. ASSUME s.cmd \in {I!GetSync, I!SetDevice, I!LoadAddress, I!LeaveProgmode}
        PROVE  Ready(t, o \o Positive)
    <2>1. CASE s.cmd = I!GetSync
      <3>1. t = I!ReplyOk(s)
        BY <1>1, <2>1
      <3> QED
        BY <3>1, GivenReplies
    <2>2. CASE s.cmd = I!SetDevice
      <3> DEFINE u == [s EXCEPT !.pageSize = s.fixed[1]]
      <3>1. t = I!ReplyOk(u)
        BY <1>1, <2>2
      <3>2. Given(u, o)
        BY <1>2
      <3> HIDE DEF u
      <3> QED
        BY <3>1, <3>2, GivenReplies
    <2>3. CASE s.cmd = I!LoadAddress
      <3> DEFINE u == [s EXCEPT !.address = s.fixed[1]]
      <3>1. t = I!ReplyOk(u)
        BY <1>1, <2>3
      <3>2. Given(u, o)
        BY <1>2
      <3> HIDE DEF u
      <3> QED
        BY <3>1, <3>2, GivenReplies
    <2>4. CASE s.cmd = I!LeaveProgmode
      <3>1. t = I!LeaveProgramming(s)
        BY <1>1, <2>4
      <3> QED
        BY <1>3, <3>1
    <2> QED
      BY <1>4, <2>1, <2>2, <2>3, <2>4
  <1>5. ASSUME s.cmd = I!GetSignOn PROVE Ready(t, o \o <<I!Insync, I!Filler, I!Ok>>)
    <2>1. t = I!Idle(I!Tell(s))
      BY <1>1, <1>5
    <2> QED
      BY <2>1, GivenReplies
  <1>6. ASSUME s.cmd = I!ReadSign
        PROVE  \E c : c = [i \in 1..3 |-> c[i]]
                      /\ Ready(t, o \o (<<I!Insync>> \o c \o <<I!Ok>>))
    <2>1. t = I!Idle(I!Write(s, <<I!Insync>> \o cells \o <<I!Ok>>))
      BY <1>1, <1>6
    <2>2. cells = [i \in 1..3 |-> cells[i]]
      OBVIOUS
    <2> HIDE DEF cells
    <2>3. Ready(t, o \o (<<I!Insync>> \o cells \o <<I!Ok>>))
      BY <2>1, GivenReplies
    <2> QED
      BY <2>2, <2>3
  <1>7. ASSUME s.cmd = I!EnterProgmode
        PROVE  Ready(t, o \o Positive) \/ Halted(t, "ProgrammingEnable", o)
    <2>1. t = I!BeginProgramming(s)
      BY <1>1, <1>7
    <2> QED
      BY <2>1, GivenEnters
  <1>8. ASSUME s.cmd = I!ChipErase PROVE Halted(t, "ReplyOk", o)
    <2>1. t = I!Defer(I!Transfer4(s, I!InstrErase, 128, I!Filler), "ReplyOk")
      BY <1>1, <1>8
    <2> QED
      BY <2>1, GivenWaits DEF IspWaits
  <1>9. ASSUME s.cmd = I!Universal, s.fixed[1] = I!InstrErase, s.fixed[2] = 128
        PROVE  Halted(t, "ReplyEraseByte", o)
    <2>1. t = I!RunUniversal(s)
      BY <1>1, <1>9
    <2>2. t = I!Defer(I!Transfer4(s, s.fixed[1], s.fixed[2], I!Filler), "ReplyEraseByte")
      BY <1>9, <2>1 DEF I!RunUniversal
    <2> QED
      BY <2>2, GivenWaits DEF IspWaits
  <1> QED
    BY <1>4, <1>5, <1>6, <1>7, <1>8, <1>9 DEF t

\* A page command, complete.
LEMMA GivenPage ==
  ASSUME NEW s, NEW o, Given(s, o), NEW n \in Nat, NEW memory, s.header = <<n, memory>>,
         s.cmd \in {I!ProgPage, I!ReadPage}
  PROVE  LET t == I!DispatchPage(s)
             refused == \/ s.oversize \/ memory \notin {I!MemFlash, I!MemEeprom}
                        \/ memory = I!MemFlash /\ n % 2 # 0
         IN /\ refused => Ready(t, o \o <<I!Insync, I!Failed>>)
            /\ ~refused /\ s.cmd = I!ReadPage =>
                 \E c : c = [i \in 1..n |-> c[i]]
                        /\ Ready(t, o \o (<<I!Insync>> \o c \o <<I!Ok>>))
            /\ ~refused /\ s.cmd = I!ProgPage =>
                 \/ Ready(t, o \o Positive)
                 \/ memory = I!MemFlash /\ Halted(t, "ReplyOk", o)
                 \/ memory = I!MemEeprom /\ Halted(t, "EepromNext", o)
  <1> DEFINE t == I!DispatchPage(s)
             refused == \/ s.oversize \/ memory \notin {I!MemFlash, I!MemEeprom}
                        \/ memory = I!MemFlash /\ n % 2 # 0
  <1>1. I!PageLen(s) = n /\ I!MemType(s) = memory
    BY DEF I!PageLen, I!MemType
  <1>2. t = CASE refused -> I!ReplyFailed(s)
              [] ~refused /\ I!PageIsRead(s) -> I!ReadCells(s)
              [] ~refused /\ ~I!PageIsRead(s) /\ n = 0 -> I!ReplyOk(s)
              [] ~refused /\ ~I!PageIsRead(s) /\ n # 0 /\ memory = I!MemFlash ->
                   I!ProgramFlash(s)
              [] OTHER -> I!ProgramEeprom(s)
    BY <1>1 DEF I!DispatchPage
  <1>3. ~refused => memory \in {I!MemFlash, I!MemEeprom}
    OBVIOUS
  <1> HIDE DEF t, refused
  <1>4. refused => Ready(t, o \o <<I!Insync, I!Failed>>)
    BY <1>2, GivenReplies
  <1>5. ASSUME ~refused, s.cmd = I!ReadPage
        PROVE  \E c : c = [i \in 1..n |-> c[i]]
                      /\ Ready(t, o \o (<<I!Insync>> \o c \o <<I!Ok>>))
    <2> DEFINE InFlash(i) ==
                 IF i % 2 = 1
                   THEN I!Shifted(s.board, I!InstrReadLow, s.address + (i - 1) \div 2)
                   ELSE I!Shifted(s.board, I!InstrReadHigh, s.address + (i - 1) \div 2)
               InEeprom(i) ==
                 I!Shifted(s.board, I!InstrReadEeprom, 2 * s.address + i - 1)
               cells == [i \in 1..n |-> IF memory = I!MemFlash THEN InFlash(i)
                                                               ELSE InEeprom(i)]
               next == IF memory = I!MemFlash
                         THEN (s.address + n \div 2) % 65536 ELSE s.address
               answer == <<I!Insync>> \o cells \o <<I!Ok>>
    <2>1. t = I!ReadCells(s)
      BY <1>2, <1>5 DEF I!PageIsRead
    <2>2. I!ReadCells(s) = I!Idle([I!Write(s, answer) EXCEPT !.address = next])
      BY <1>1 DEF I!ReadCells
    <2>3. cells = [i \in 1..n |-> cells[i]]
      OBVIOUS
    <2> HIDE DEF next, cells, answer
    <2>4. Ready(I!Idle([I!Write(s, answer) EXCEPT !.address = next]), o \o answer)
      BY GivenReplies
    <2>5. Ready(t, o \o answer)
      BY <2>1, <2>2, <2>4
    <2> QED
      BY <2>3, <2>5 DEF answer
  <1>6. ASSUME ~refused, s.cmd = I!ProgPage
        PROVE  \/ Ready(t, o \o Positive)
               \/ memory = I!MemFlash /\ Halted(t, "ReplyOk", o)
               \/ memory = I!MemEeprom /\ Halted(t, "EepromNext", o)
    <2>1. ~I!PageIsRead(s)
      BY <1>6 DEF I!PageIsRead, I!ProgPage, I!ReadPage
    <2>2. \/ t = I!ReplyOk(s)
          \/ memory = I!MemFlash /\ t = I!ProgramFlash(s)
          \/ memory = I!MemEeprom /\ t = I!ProgramEeprom(s)
      BY <1>2, <1>3, <1>6, <2>1
    <2> QED
      BY <2>2, GivenReplies, GivenNextByte
  <1> QED
    BY <1>4, <1>5, <1>6 DEF t, refused

-----------------------------------------------------------------------------
(* A command at the port, byte by byte.                                    *)

\* Every byte so far has been taken.
Fresh(a) == DOMAIN a = {"s", "rest"} /\ a.rest = <<>>

LEMMA TakesAByte ==
  ASSUME NEW read, NEW first, NEW stream, NEW n \in Nat, IspReads(read, first, stream, n),
         NEW k \in Nat, k < n, Fresh(read[k]), read[k].s.after = "None"
  PROVE  Fresh(read[k + 1]) /\ read[k + 1].s = I!Accept(read[k].s, stream[k + 1])
  <1> DEFINE a == read[k]
             byte == stream[k + 1]
  <1>1. read[k + 1] = I!ReadByte(a, byte)
    BY DEF IspReads
  <1> HIDE DEF byte
  <1>2. I!ReadByte(a, byte) = [a EXCEPT !.s = I!Accept(a.s, byte)]
    BY DEF I!ReadByte, I!Waiting
  <1>3. /\ [a EXCEPT !.s = I!Accept(a.s, byte)].s = I!Accept(a.s, byte)
        /\ Fresh([a EXCEPT !.s = I!Accept(a.s, byte)])
    BY DEF Fresh
  <1> QED
    BY <1>1, <1>2, <1>3 DEF byte

\* Inside a command without a page.
FixedPart(s, cmd, f, o) == Given(s, o) /\ s.phase = "Fixed" /\ s.cmd = cmd /\ s.fixed = f

LEMMA FixedStarts ==
  ASSUME NEW s, NEW o, Ready(s, o), NEW cmd, I!PayloadLen(cmd) >= 0, cmd # I!Eop
  PROVE  FixedPart(I!Accept(s, cmd), cmd, <<>>, o)
  <1> DEFINE t == [s EXCEPT !.cmd = cmd, !.phase = "Fixed"]
  <1>1. cmd \notin {I!ProgPage, I!ReadPage}
    BY DEF I!PayloadLen, I!GetSync, I!GetSignOn, I!EnterProgmode, I!LeaveProgmode,
           I!ChipErase, I!CheckAutoinc, I!ReadSign, I!GetParameter, I!ProgData, I!SetDevice,
           I!LoadAddress, I!SetParameter, I!ProgFlash, I!Universal, I!SetDeviceExt,
           I!ProgPage, I!ReadPage
  <1>2. I!Accept(s, cmd) = t
    <2>1. I!PayloadLen(cmd) \in Int /\ ~(I!PayloadLen(cmd) < 0)
      BY PayloadLens
    <2> QED
      BY <1>1, <2>1 DEF I!Accept, I!TakeCommand, Ready
  <1>3. /\ IspForm(t) /\ t.after = "None" /\ t.out = o /\ t.phase = "Fixed" /\ t.cmd = cmd
        /\ t.fixed = <<>>
    BY DEF Ready, IspForm, IspFields, IspPhases, Cleared
  <1> HIDE DEF t
  <1> QED
    BY <1>2, <1>3 DEF FixedPart, Given

LEMMA FixedGoesOn ==
  ASSUME NEW s, NEW o, NEW cmd, NEW f, FixedPart(s, cmd, f, o),
         Len(f) # I!PayloadLen(cmd), NEW byte
  PROVE  FixedPart(I!Accept(s, byte), cmd, Append(f, byte), o)
  <1> DEFINE t == [s EXCEPT !.fixed = Append(@, byte)]
  <1>1. I!Accept(s, byte) = t
    BY DEF I!Accept, I!TakeFixed, FixedPart
  <1>2. /\ IspForm(t) /\ t.after = "None" /\ t.out = o /\ t.phase = "Fixed" /\ t.cmd = cmd
        /\ t.fixed = Append(f, byte)
    BY DEF FixedPart, Given, IspForm, IspFields
  <1> HIDE DEF t
  <1> QED
    BY <1>1, <1>2 DEF FixedPart, Given

\* A command that is complete: what is dispatched.
Complete(u, cmd, f, o) == Given(u, o) /\ u.cmd = cmd /\ u.fixed = f

LEMMA FixedEnds ==
  ASSUME NEW s, NEW o, NEW cmd, NEW f, FixedPart(s, cmd, f, o), Len(f) = I!PayloadLen(cmd)
  PROVE  \E u : Complete(u, cmd, Append(f, I!Eop), o)
                /\ I!Accept(s, I!Eop) = I!DispatchFixed(u)
  <1> DEFINE taken == [s EXCEPT !.fixed = Append(@, I!Eop)]
             t == [taken EXCEPT !.phase = "Command"]
  <1>1. I!Accept(s, I!Eop) = I!DispatchFixed(t)
    BY DEF I!Accept, I!TakeFixed, FixedPart
  <1>2. /\ IspForm(taken) /\ taken.after = "None" /\ taken.out = o /\ taken.cmd = cmd
        /\ taken.fixed = Append(f, I!Eop)
    BY DEF FixedPart, Given, IspForm, IspFields
  <1> HIDE DEF taken
  <1>3. /\ IspForm(t) /\ t.after = "None" /\ t.out = o /\ t.cmd = cmd
        /\ t.fixed = Append(f, I!Eop)
    BY <1>2 DEF IspForm, IspFields, IspPhases
  <1> HIDE DEF t
  <1>4. Complete(t, cmd, Append(f, I!Eop), o)
    BY <1>3 DEF Complete, Given
  <1> QED
    BY <1>1, <1>4

\* The stream from byte k + 1 on: a command, its payload and the end mark.
Holds(stream, k, cmd, f) ==
  /\ stream[k + 1] = cmd /\ stream[k + 2 + Len(f)] = I!Eop
  /\ \A i \in 1..Len(f) : stream[k + 1 + i] = f[i]

LEMMA TakesFixed ==
  ASSUME NEW read, NEW first, NEW stream, NEW n \in Nat, IspReads(read, first, stream, n),
         NEW k \in Nat, NEW cmd, cmd # I!Eop, NEW f \in Seq(Nat), Len(f) <= 2,
         I!PayloadLen(cmd) = Len(f), k + 2 + Len(f) <= n, Holds(stream, k, cmd, f),
         NEW o, Fresh(read[k]), Ready(read[k].s, o)
  PROVE  \E u : /\ Complete(u, cmd, Append(f, I!Eop), o)
                /\ Fresh(read[k + 2 + Len(f)])
                /\ read[k + 2 + Len(f)].s = I!DispatchFixed(u)
  <1> DEFINE Part(i) == Fresh(read[k + 1 + i])
                        /\ FixedPart(read[k + 1 + i].s, cmd, SubSeq(f, 1, i), o)
             m == Len(f)
  <1>0. m \in Nat /\ m <= 2 /\ k + 2 + m <= n
    OBVIOUS
  <1>1. SubSeq(f, 1, 0) = <<>> /\ SubSeq(f, 1, m) = f
        /\ \A i \in Nat : i < m => SubSeq(f, 1, i + 1) = Append(SubSeq(f, 1, i), f[i + 1])
                                   /\ Len(SubSeq(f, 1, i)) = i
    <2>1. \A i \in Nat : i < m => SubSeq(f, 1, i + 1) = Append(SubSeq(f, 1, i), f[i + 1])
      BY Longer
    <2>2. SubSeq(f, 1, 0) = <<>> /\ SubSeq(f, 1, m) = f
      BY SubSeqEmpty, SubSeqFull
    <2>3. \A i \in Nat : i < m => Len(SubSeq(f, 1, i)) = i
      BY SubSeqProperties
    <2> QED
      BY <2>1, <2>2, <2>3
  <1>2. /\ stream[k + 1] = cmd /\ stream[k + 2 + m] = I!Eop
        /\ \A i \in 1..m : stream[k + 1 + i] = f[i]
    BY DEF Holds
  <1>3. I!PayloadLen(cmd) = m
    OBVIOUS
  <1>4. Part(0)
    <2>1. Fresh(read[k + 1]) /\ read[k + 1].s = I!Accept(read[k].s, cmd)
      <3>1. k < n /\ read[k].s.after = "None"
        BY <1>0 DEF Ready
      <3> QED
        BY <1>2, <3>1, TakesAByte
    <2>2. FixedPart(read[k + 1].s, cmd, <<>>, o)
      BY <1>0, <1>3, <2>1, FixedStarts
    <2>3. k + 1 + 0 = k + 1
      OBVIOUS
    <2> QED
      BY <1>1, <2>1, <2>2, <2>3
  <1> HIDE DEF m
  <1>5. ASSUME NEW i \in Nat, i < m, Part(i) PROVE Part(i + 1)
    <2> DEFINE j == k + 1 + i
    <2>1. j \in Nat /\ j < n /\ j + 1 = k + 1 + (i + 1) /\ i + 1 \in 1..m
      BY <1>0, <1>5
    <2>2. stream[j + 1] = f[i + 1]
      BY <1>2, <2>1
    <2>3. Fresh(read[j]) /\ FixedPart(read[j].s, cmd, SubSeq(f, 1, i), o)
      BY <1>5
    <2>4. Fresh(read[k + 1 + (i + 1)])
          /\ read[k + 1 + (i + 1)].s = I!Accept(read[j].s, f[i + 1])
      <3> HIDE DEF j
      <3>1. Fresh(read[j + 1]) /\ read[j + 1].s = I!Accept(read[j].s, stream[j + 1])
        BY <2>1, <2>3, TakesAByte DEF FixedPart, Given
      <3> QED
        BY <2>1, <2>2, <3>1
    <2>5. FixedPart(I!Accept(read[j].s, f[i + 1]), cmd, Append(SubSeq(f, 1, i), f[i + 1]), o)
      <3>1. Len(SubSeq(f, 1, i)) # I!PayloadLen(cmd)
        BY <1>1, <1>3, <1>5, <1>0
      <3> QED
        BY <2>3, <3>1, FixedGoesOn
    <2> QED
      BY <1>1, <1>5, <2>4, <2>5
  <1>6. Part(m)
    <2>1. m = 0 \/ m = 1 \/ m = 2
      BY <1>0
    <2>2. m # 0 => Part(1)
      <3>1. m # 0 => 0 < m
        BY <1>0
      <3>2. 0 + 1 = 1
        OBVIOUS
      <3> HIDE DEF Part
      <3> QED
        BY <1>4, <1>5, <3>1, <3>2
    <2>3. m = 2 => Part(2)
      <3>1. m = 2 => 1 < m /\ m # 0
        OBVIOUS
      <3>2. 1 + 1 = 2
        OBVIOUS
      <3> HIDE DEF Part
      <3> QED
        BY <1>5, <2>2, <3>1, <3>2
    <2> HIDE DEF Part
    <2> QED
      BY <1>4, <2>1, <2>2, <2>3
  <1>7. FixedPart(read[k + 1 + m].s, cmd, f, o) /\ Fresh(read[k + 1 + m])
    BY <1>1, <1>6
  <1>8. PICK u : Complete(u, cmd, Append(f, I!Eop), o)
                 /\ I!Accept(read[k + 1 + m].s, I!Eop) = I!DispatchFixed(u)
    <2>1. Len(f) = I!PayloadLen(cmd)
      BY <1>3 DEF m
    <2> QED
      BY <1>7, <2>1, FixedEnds
  <1>9. Fresh(read[k + 2 + m]) /\ read[k + 2 + m].s = I!DispatchFixed(u)
    <2> DEFINE j == k + 1 + m
    <2>1. j \in Nat /\ j < n /\ j + 1 = k + 2 + m
      BY <1>0
    <2> HIDE DEF j
    <2>2. Fresh(read[j + 1]) /\ read[j + 1].s = I!Accept(read[j].s, stream[j + 1])
      BY <1>7, <2>1, TakesAByte DEF FixedPart, Given, j
    <2> QED
      BY <1>2, <1>8, <2>1, <2>2 DEF j
  <1> QED
    BY <1>8, <1>9 DEF m

\* Inside a page command: its header, and what is done with the page.
HeaderPart(s, cmd, header, o) ==
  /\ Given(s, o) /\ s.phase = "PageHeader" /\ s.cmd = cmd /\ s.header = header
  /\ s.page = <<>> /\ s.oversize = FALSE
PagePart(s, cmd, n, memory, o) ==
  /\ Given(s, o) /\ s.cmd = cmd /\ s.header = <<n, memory>>
  /\ (s.oversize <=> n > MaxPage)
BodyPart(s, n, memory, o, page) ==
  /\ PagePart(s, I!ProgPage, n, memory, o) /\ s.phase = "PageBody" /\ s.page = page
DiscardPart(s, n, memory, o, left) ==
  /\ PagePart(s, I!ProgPage, n, memory, o) /\ s.phase = "Discard" /\ s.left = left
EndPart(s, cmd, n, memory, o) == PagePart(s, cmd, n, memory, o) /\ s.phase = "Eop"

LEMMA HeaderStarts ==
  ASSUME NEW s, NEW o, Ready(s, o), NEW cmd \in {I!ProgPage, I!ReadPage}
  PROVE  HeaderPart(I!Accept(s, cmd), cmd, <<>>, o)
  <1> DEFINE t == [s EXCEPT !.cmd = cmd, !.phase = "PageHeader"]
  <1>1. I!Accept(s, cmd) = t
    <2>1. cmd # I!Eop
      BY DEF I!Eop, I!ProgPage, I!ReadPage
    <2> QED
      BY <2>1 DEF I!Accept, I!TakeCommand, Ready
  <1>2. /\ IspForm(t) /\ t.after = "None" /\ t.out = o /\ t.phase = "PageHeader" /\ t.cmd = cmd
        /\ t.header = <<>> /\ t.page = <<>> /\ t.oversize = FALSE
    BY DEF Ready, IspForm, IspFields, IspPhases, Cleared
  <1> HIDE DEF t
  <1> QED
    BY <1>1, <1>2 DEF HeaderPart, Given

LEMMA HeaderGoesOn ==
  ASSUME NEW s, NEW o, NEW cmd, HeaderPart(s, cmd, <<>>, o), NEW n \in Nat
  PROVE  HeaderPart(I!Accept(s, n), cmd, <<n>>, o)
  <1> DEFINE t == [s EXCEPT !.header = Append(@, n)]
  <1>1. /\ IspForm(t) /\ t.after = "None" /\ t.out = o /\ t.phase = "PageHeader" /\ t.cmd = cmd
        /\ t.header = Append(<<>>, n) /\ t.page = <<>> /\ t.oversize = FALSE
    BY DEF HeaderPart, Given, IspForm, IspFields
  <1>2. Append(<<>>, n) = <<n>> /\ Len(<<n>>) < 2
    OBVIOUS
  <1>3. I!Accept(s, n) = t
    <2>1. I!Accept(s, n) = I!TakeHeader(s, n)
      BY DEF I!Accept, HeaderPart
    <2>2. Len(t.header) < 2
      BY <1>1, <1>2
    <2> QED
      BY <2>1, <2>2 DEF I!TakeHeader
  <1> HIDE DEF t
  <1> QED
    BY <1>1, <1>2, <1>3 DEF HeaderPart, Given

LEMMA HeaderEnds ==
  ASSUME NEW s, NEW o, NEW cmd \in {I!ProgPage, I!ReadPage}, NEW n \in Nat,
         HeaderPart(s, cmd, <<n>>, o), NEW memory \in Nat
  PROVE  LET t == I!Accept(s, memory)
         IN IF cmd = I!ReadPage \/ n = 0 THEN EndPart(t, cmd, n, memory, o)
            ELSE IF n > MaxPage THEN DiscardPart(t, n, memory, o, n)
            ELSE BodyPart(t, n, memory, o, <<>>)
  <1> DEFINE t == I!Accept(s, memory)
             taken == [s EXCEPT !.header = Append(@, memory)]
             over == n > MaxPage
  <1> USE HostAssumption
  <1>1. /\ IspForm(taken) /\ taken.after = "None" /\ taken.out = o
        /\ taken.phase = "PageHeader" /\ taken.cmd = cmd
        /\ taken.header = Append(<<n>>, memory) /\ taken.page = <<>> /\ taken.oversize = FALSE
    BY DEF HeaderPart, Given, IspForm, IspFields
  <1>2. Append(<<n>>, memory) = <<n, memory>> /\ Len(<<n, memory>>) = 2
    <2> DEFINE q == Append(<<n>>, memory)
    <2>1. <<n>> \in Seq(Nat) /\ Len(<<n>>) = 1 /\ <<n>>[1] = n
      OBVIOUS
    <2>2. q \in Seq(Nat) /\ Len(q) = 2 /\ q[1] = n /\ q[2] = memory
      BY <2>1, AppendProperties
    <2> HIDE DEF q
    <2>3. q = <<n, memory>>
      BY <2>2
    <2> QED
      BY <2>2, <2>3 DEF q
  <1> HIDE DEF taken
  <1>3. taken.header = <<n, memory>> /\ Len(taken.header) = 2 /\ I!PageLen(taken) = n
    BY <1>1, <1>2 DEF I!PageLen
  <1>4. t = CASE Len(taken.header) < 2 -> taken
              [] Len(taken.header) = 2 /\ over /\ cmd = I!ReadPage ->
                   [taken EXCEPT !.oversize = TRUE, !.phase = "Eop"]
              [] Len(taken.header) = 2 /\ over /\ cmd # I!ReadPage ->
                   [taken EXCEPT !.oversize = TRUE, !.phase = "Discard", !.left = n]
              [] Len(taken.header) = 2 /\ ~over /\ (cmd = I!ReadPage \/ n = 0) ->
                   [taken EXCEPT !.phase = "Eop"]
              [] OTHER -> [taken EXCEPT !.phase = "PageBody"]
    <2>1. t = I!TakeHeader(s, memory)
      BY DEF I!Accept, HeaderPart
    <2>2. s.cmd = cmd
      BY DEF HeaderPart
    <2> HIDE DEF t
    <2> QED
      BY <1>3, <2>1, <2>2 DEF I!TakeHeader, I!PageIsRead, taken
  <1> HIDE DEF t
  <1>5. ~(Len(taken.header) < 2) /\ over \in BOOLEAN
    BY <1>3
  <1>6. ASSUME over, cmd = I!ReadPage PROVE EndPart(t, cmd, n, memory, o)
    <2> DEFINE u == [taken EXCEPT !.oversize = TRUE, !.phase = "Eop"]
    <2>1. t = u
      BY <1>3, <1>4, <1>6
    <2>2. /\ IspForm(u) /\ u.after = "None" /\ u.out = o /\ u.phase = "Eop" /\ u.cmd = cmd
          /\ u.header = <<n, memory>> /\ u.oversize = TRUE
      BY <1>1, <1>3 DEF IspForm, IspFields, IspPhases
    <2> HIDE DEF u
    <2> QED
      BY <1>6, <2>1, <2>2 DEF EndPart, PagePart, Given
  <1>7. ASSUME over, cmd # I!ReadPage PROVE DiscardPart(t, n, memory, o, n)
    <2> DEFINE u == [taken EXCEPT !.oversize = TRUE, !.phase = "Discard", !.left = n]
    <2>1. t = u
      BY <1>3, <1>4, <1>7
    <2>2. /\ IspForm(u) /\ u.after = "None" /\ u.out = o /\ u.phase = "Discard" /\ u.cmd = cmd
          /\ u.header = <<n, memory>> /\ u.oversize = TRUE /\ u.left = n
      BY <1>1, <1>3 DEF IspForm, IspFields, IspPhases
    <2> HIDE DEF u
    <2> QED
      BY <1>7, <2>1, <2>2 DEF DiscardPart, PagePart, Given
  <1>8. ASSUME ~over, cmd = I!ReadPage \/ n = 0 PROVE EndPart(t, cmd, n, memory, o)
    <2> DEFINE u == [taken EXCEPT !.phase = "Eop"]
    <2>1. t = u
      BY <1>3, <1>4, <1>8
    <2>2. /\ IspForm(u) /\ u.after = "None" /\ u.out = o /\ u.phase = "Eop" /\ u.cmd = cmd
          /\ u.header = <<n, memory>> /\ u.oversize = FALSE
      BY <1>1, <1>3 DEF IspForm, IspFields, IspPhases
    <2> HIDE DEF u
    <2>3. (u.oversize <=> n > MaxPage)
      BY <1>8, <2>2
    <2> QED
      BY <1>8, <2>1, <2>2, <2>3 DEF EndPart, PagePart, Given
  <1>9. ASSUME ~over, cmd # I!ReadPage, n # 0 PROVE BodyPart(t, n, memory, o, <<>>)
    <2> DEFINE u == [taken EXCEPT !.phase = "PageBody"]
    <2>1. t = u
      BY <1>3, <1>4, <1>9
    <2>2. /\ IspForm(u) /\ u.after = "None" /\ u.out = o /\ u.phase = "PageBody" /\ u.cmd = cmd
          /\ u.header = <<n, memory>> /\ u.oversize = FALSE /\ u.page = <<>>
      BY <1>1, <1>3 DEF IspForm, IspFields, IspPhases
    <2> HIDE DEF u
    <2>3. (u.oversize <=> n > MaxPage)
      BY <1>9, <2>2
    <2> QED
      BY <1>9, <2>1, <2>2, <2>3 DEF BodyPart, PagePart, Given
  <1>10. over => n # 0
    OBVIOUS
  <1> QED
    BY <1>6, <1>7, <1>8, <1>9, <1>10 DEF t

LEMMA BodyGoesOn ==
  ASSUME NEW s, NEW o, NEW n \in Nat, NEW memory, NEW page \in Seq(Nat),
         BodyPart(s, n, memory, o, page), NEW byte \in Nat
  PROVE  LET t == I!Accept(s, byte)
         IN IF Len(page) + 1 < n THEN BodyPart(t, n, memory, o, Append(page, byte))
            ELSE EndPart(t, I!ProgPage, n, memory, o)
  <1> DEFINE t == I!Accept(s, byte)
             taken == [s EXCEPT !.page = Append(@, byte)]
             u == [taken EXCEPT !.phase = "Eop"]
  <1>1. /\ IspForm(taken) /\ taken.after = "None" /\ taken.out = o
        /\ taken.phase = "PageBody" /\ taken.cmd = I!ProgPage
        /\ taken.header = <<n, memory>> /\ taken.page = Append(page, byte)
        /\ (taken.oversize <=> n > MaxPage)
    BY DEF BodyPart, PagePart, Given, IspForm, IspFields
  <1>2. Len(Append(page, byte)) = Len(page) + 1
    OBVIOUS
  <1>3. t = IF Len(page) + 1 < n THEN taken ELSE u
    <2>1. t = I!TakeBody(s, byte) /\ I!PageLen(s) = n
      BY DEF I!Accept, BodyPart, PagePart, I!PageLen
    <2> HIDE DEF t
    <2> QED
      BY <1>1, <1>2, <2>1 DEF I!TakeBody
  <1> HIDE DEF t, taken
  <1>4. /\ IspForm(u) /\ u.after = "None" /\ u.out = o /\ u.phase = "Eop"
        /\ u.cmd = I!ProgPage /\ u.header = <<n, memory>> /\ (u.oversize <=> n > MaxPage)
    BY <1>1 DEF IspForm, IspFields, IspPhases
  <1> HIDE DEF u
  <1>5. EndPart(u, I!ProgPage, n, memory, o)
    BY <1>4 DEF EndPart, PagePart, Given
  <1>6. BodyPart(taken, n, memory, o, Append(page, byte))
    BY <1>1 DEF BodyPart, PagePart, Given
  <1> QED
    BY <1>3, <1>5, <1>6 DEF t

LEMMA DiscardGoesOn ==
  ASSUME NEW s, NEW o, NEW n, NEW memory, NEW left \in Nat,
         DiscardPart(s, n, memory, o, left), NEW byte
  PROVE  LET t == I!Accept(s, byte)
         IN IF left > 1 THEN DiscardPart(t, n, memory, o, left - 1)
            ELSE EndPart(t, I!ProgPage, n, memory, o)
  <1> DEFINE t == I!Accept(s, byte)
             taken == [s EXCEPT !.left = @ - 1]
             u == [s EXCEPT !.left = 0, !.phase = "Eop"]
  <1>1. /\ IspForm(taken) /\ taken.after = "None" /\ taken.out = o
        /\ taken.phase = "Discard" /\ taken.cmd = I!ProgPage
        /\ taken.header = <<n, memory>> /\ taken.left = left - 1
        /\ (taken.oversize <=> n > MaxPage)
    BY DEF DiscardPart, PagePart, Given, IspForm, IspFields
  <1>2. /\ IspForm(u) /\ u.after = "None" /\ u.out = o /\ u.phase = "Eop"
        /\ u.cmd = I!ProgPage /\ u.header = <<n, memory>> /\ (u.oversize <=> n > MaxPage)
    BY DEF DiscardPart, PagePart, Given, IspForm, IspFields, IspPhases
  <1>3. t = IF left > 1 THEN taken ELSE u
    BY DEF I!Accept, I!Discard, DiscardPart
  <1> HIDE DEF t, taken, u
  <1>4. EndPart(u, I!ProgPage, n, memory, o)
    BY <1>2 DEF EndPart, PagePart, Given
  <1>5. DiscardPart(taken, n, memory, o, left - 1)
    BY <1>1 DEF DiscardPart, PagePart, Given
  <1> QED
    BY <1>3, <1>4, <1>5 DEF t

LEMMA PageEnds ==
  ASSUME NEW s, NEW o, NEW cmd, NEW n, NEW memory, EndPart(s, cmd, n, memory, o)
  PROVE  \E u : PagePart(u, cmd, n, memory, o) /\ I!Accept(s, I!Eop) = I!DispatchPage(u)
  <1> DEFINE u == [s EXCEPT !.phase = "Command"]
  <1>1. I!Accept(s, I!Eop) = I!DispatchPage(u)
    BY DEF I!Accept, EndPart
  <1>2. /\ IspForm(u) /\ u.after = "None" /\ u.out = o
        /\ u.cmd = cmd /\ u.header = <<n, memory>> /\ (u.oversize <=> n > MaxPage)
    BY DEF EndPart, PagePart, Given, IspForm, IspFields, IspPhases
  <1> HIDE DEF u
  <1>3. PagePart(u, cmd, n, memory, o)
    BY <1>2 DEF PagePart, Given
  <1> QED
    BY <1>1, <1>3

\* Where the header of a page leads.
HeaderTaken(s, cmd, m, memory, o) ==
  IF cmd = I!ReadPage \/ m = 0 THEN EndPart(s, cmd, m, memory, o)
  ELSE IF m > MaxPage THEN DiscardPart(s, m, memory, o, m)
  ELSE BodyPart(s, m, memory, o, <<>>)
HoldsHeader(stream, k, cmd, m, memory) ==
  stream[k + 1] = cmd /\ stream[k + 2] = m /\ stream[k + 3] = memory

LEMMA TakesHeader ==
  ASSUME NEW read, NEW first, NEW stream, NEW n \in Nat, IspReads(read, first, stream, n),
         NEW k \in Nat, NEW cmd \in {I!ProgPage, I!ReadPage}, NEW m \in Nat,
         NEW memory \in Nat, k + 3 <= n,
         HoldsHeader(stream, k, cmd, m, memory), NEW o, Fresh(read[k]), Ready(read[k].s, o)
  PROVE  Fresh(read[k + 3]) /\ HeaderTaken(read[k + 3].s, cmd, m, memory, o)
  <1>1. k < n /\ k + 1 < n /\ k + 2 < n /\ k + 1 \in Nat /\ k + 2 \in Nat
        /\ (k + 1) + 1 = k + 2 /\ (k + 2) + 1 = k + 3
        /\ stream[k + 1] = cmd /\ stream[k + 2] = m /\ stream[k + 3] = memory
    BY DEF HoldsHeader
  <1>2. Fresh(read[k + 1]) /\ read[k + 1].s = I!Accept(read[k].s, cmd)
    <2>1. read[k].s.after = "None"
      BY DEF Ready
    <2> QED
      BY <1>1, <2>1, TakesAByte
  <1>3. HeaderPart(read[k + 1].s, cmd, <<>>, o)
    BY <1>2, HeaderStarts
  <1>4. Fresh(read[k + 2]) /\ read[k + 2].s = I!Accept(read[k + 1].s, m)
    <2> DEFINE j == k + 1
    <2>1. Fresh(read[j]) /\ read[j].s.after = "None" /\ j \in Nat /\ j < n
      BY <1>1, <1>2, <1>3 DEF HeaderPart, Given
    <2>2. j + 1 = k + 2
      BY <1>1
    <2> HIDE DEF j
    <2>3. Fresh(read[j + 1]) /\ read[j + 1].s = I!Accept(read[j].s, stream[j + 1])
      BY <2>1, TakesAByte
    <2> QED
      BY <1>1, <2>2, <2>3 DEF j
  <1>5. HeaderPart(read[k + 2].s, cmd, <<m>>, o)
    BY <1>3, <1>4, HeaderGoesOn
  <1>6. Fresh(read[k + 3]) /\ read[k + 3].s = I!Accept(read[k + 2].s, memory)
    <2> DEFINE j == k + 2
    <2>1. Fresh(read[j]) /\ read[j].s.after = "None" /\ j \in Nat /\ j < n
      BY <1>1, <1>4, <1>5 DEF HeaderPart, Given
    <2>2. j + 1 = k + 3
      BY <1>1
    <2> HIDE DEF j
    <2>3. Fresh(read[j + 1]) /\ read[j + 1].s = I!Accept(read[j].s, stream[j + 1])
      BY <2>1, TakesAByte
    <2> QED
      BY <1>1, <2>2, <2>3 DEF j
  <1> QED
    BY <1>5, <1>6, HeaderEnds DEF HeaderTaken

LEMMA TakesBody ==
  ASSUME NEW read, NEW first, NEW stream, NEW n \in Nat, IspReads(read, first, stream, n),
         NEW k \in Nat, NEW data \in Seq(Nat), Len(data) >= 1, k + Len(data) <= n,
         \A i \in 1..Len(data) : stream[k + i] = data[i],
         NEW o, NEW memory, Fresh(read[k]),
         BodyPart(read[k].s, Len(data), memory, o, <<>>)
  PROVE  /\ Fresh(read[k + Len(data)])
         /\ EndPart(read[k + Len(data)].s, I!ProgPage, Len(data), memory, o)
  <1> DEFINE m == Len(data)
             page(i) == SubSeq(data, 1, i)
             S == {i \in Nat : i < m => Fresh(read[k + i])
                                        /\ BodyPart(read[k + i].s, m, memory, o, page(i))}
  <1>1. /\ m \in Nat /\ m >= 1 /\ k + m <= n /\ page(0) = <<>>
        /\ \A i \in 1..m : stream[k + i] = data[i] /\ data[i] \in Nat
    BY SubSeqEmpty
  <1>2. ASSUME NEW i \in Nat, i < m
        PROVE  page(i) \in Seq(Nat) /\ Len(page(i)) = i
               /\ Append(page(i), data[i + 1]) = page(i + 1)
    <2>1. Append(page(i), data[i + 1]) = page(i + 1) /\ Len(page(i)) = i
          /\ \A j \in 1..i : page(i)[j] = data[j]
      BY <1>2, Longer
    <2>2. page(i) \in Seq(Nat)
      BY <1>2, SubSeqProperties
    <2> QED
      BY <2>1, <2>2
  <1> HIDE DEF m, page
  <1>3. 0 \in S
    <2>1. k + 0 = k
      OBVIOUS
    <2> QED
      BY <1>1, <2>1 DEF m
  <1>4. ASSUME NEW i \in Nat, i < m, Fresh(read[k + i]),
               BodyPart(read[k + i].s, m, memory, o, page(i))
        PROVE  /\ Fresh(read[k + (i + 1)])
               /\ IF i + 1 < m THEN BodyPart(read[k + (i + 1)].s, m, memory, o, page(i + 1))
                  ELSE EndPart(read[k + (i + 1)].s, I!ProgPage, m, memory, o)
    <2> DEFINE j == k + i
               byte == data[i + 1]
    <2>1. j \in Nat /\ j < n /\ j + 1 = k + (i + 1) /\ stream[j + 1] = byte /\ byte \in Nat
      <3>1. j \in Nat /\ j < n /\ j + 1 = k + (i + 1) /\ i + 1 \in 1..m
        BY <1>1, <1>4
      <3> QED
        BY <1>1, <3>1
    <2>2. Fresh(read[j]) /\ BodyPart(read[j].s, m, memory, o, page(i))
          /\ read[j].s.after = "None"
      BY <1>4 DEF BodyPart, PagePart, Given
    <2> HIDE DEF j, byte
    <2>3. Fresh(read[j + 1]) /\ read[j + 1].s = I!Accept(read[j].s, byte)
      <3>1. j \in Nat /\ j < n /\ Fresh(read[j]) /\ read[j].s.after = "None"
        BY <2>1, <2>2
      <3>2. Fresh(read[j + 1]) /\ read[j + 1].s = I!Accept(read[j].s, stream[j + 1])
        BY <3>1, TakesAByte
      <3> QED
        BY <2>1, <3>2
    <2> DEFINE t == I!Accept(read[j].s, byte)
    <2>4. IF Len(page(i)) + 1 < m THEN BodyPart(t, m, memory, o, Append(page(i), byte))
          ELSE EndPart(t, I!ProgPage, m, memory, o)
      BY <1>1, <1>2, <1>4, <2>1, <2>2, BodyGoesOn
    <2> HIDE DEF t
    <2>5. IF i + 1 < m THEN BodyPart(t, m, memory, o, page(i + 1))
          ELSE EndPart(t, I!ProgPage, m, memory, o)
      BY <1>2, <1>4, <2>4 DEF byte
    <2> QED
      BY <2>1, <2>3, <2>5 DEF t
  <1>5. ASSUME NEW i \in S PROVE i + 1 \in S
    BY <1>1, <1>4
  <1>6. S = Nat
    BY <1>3, <1>5, InductionOnSets
  <1>7. m - 1 \in Nat /\ m - 1 < m /\ (m - 1) + 1 = m
    BY <1>1
  <1> QED
    <2> DEFINE i == m - 1
    <2>1. i \in Nat /\ i < m /\ i + 1 = m /\ ~(i + 1 < m)
      BY <1>1, <1>7
    <2> HIDE DEF i
    <2>2. Fresh(read[k + i]) /\ BodyPart(read[k + i].s, m, memory, o, page(i))
      BY <1>6, <2>1
    <2>3. Fresh(read[k + (i + 1)]) /\ EndPart(read[k + (i + 1)].s, I!ProgPage, m, memory, o)
      BY <1>4, <2>1, <2>2
    <2> QED
      BY <2>1, <2>3 DEF m

LEMMA TakesDiscarded ==
  ASSUME NEW read, NEW first, NEW stream, NEW n \in Nat, IspReads(read, first, stream, n),
         NEW k \in Nat, NEW m \in Nat, m >= 1, k + m <= n,
         NEW o, NEW memory, Fresh(read[k]), DiscardPart(read[k].s, m, memory, o, m)
  PROVE  Fresh(read[k + m]) /\ EndPart(read[k + m].s, I!ProgPage, m, memory, o)
  <1> DEFINE S == {i \in Nat : i < m => Fresh(read[k + i])
                                        /\ DiscardPart(read[k + i].s, m, memory, o, m - i)}
  <1>1. 0 \in S
    <2>1. k + 0 = k /\ m - 0 = m
      OBVIOUS
    <2> QED
      BY <2>1
  <1>2. ASSUME NEW i \in Nat, i < m, Fresh(read[k + i]),
               DiscardPart(read[k + i].s, m, memory, o, m - i)
        PROVE  /\ Fresh(read[k + (i + 1)])
               /\ IF i + 1 < m
                    THEN DiscardPart(read[k + (i + 1)].s, m, memory, o, m - (i + 1))
                    ELSE EndPart(read[k + (i + 1)].s, I!ProgPage, m, memory, o)
    <2> DEFINE j == k + i
               left == m - i
    <2>1. /\ j \in Nat /\ j < n /\ j + 1 = k + (i + 1)
          /\ left \in Nat /\ left - 1 = m - (i + 1) /\ (left > 1 <=> i + 1 < m)
      BY <1>2
    <2>2. Fresh(read[j]) /\ DiscardPart(read[j].s, m, memory, o, left)
          /\ read[j].s.after = "None"
      BY <1>2 DEF DiscardPart, PagePart, Given
    <2> HIDE DEF j, left
    <2>3. Fresh(read[j + 1]) /\ read[j + 1].s = I!Accept(read[j].s, stream[j + 1])
      BY <2>1, <2>2, TakesAByte
    <2> DEFINE t == I!Accept(read[j].s, stream[j + 1])
    <2>4. IF left > 1 THEN DiscardPart(t, m, memory, o, left - 1)
          ELSE EndPart(t, I!ProgPage, m, memory, o)
      BY <2>1, <2>2, DiscardGoesOn
    <2> HIDE DEF t
    <2> QED
      BY <2>1, <2>3, <2>4 DEF t
  <1>3. ASSUME NEW i \in S PROVE i + 1 \in S
    BY <1>2
  <1>4. S = Nat
    BY <1>1, <1>3, InductionOnSets
  <1> DEFINE i == m - 1
  <1>5. i \in Nat /\ i < m /\ i + 1 = m /\ ~(i + 1 < m)
    OBVIOUS
  <1> HIDE DEF i
  <1>6. Fresh(read[k + i]) /\ DiscardPart(read[k + i].s, m, memory, o, m - i)
    BY <1>4, <1>5
  <1>7. Fresh(read[k + (i + 1)]) /\ EndPart(read[k + (i + 1)].s, I!ProgPage, m, memory, o)
    BY <1>2, <1>5, <1>6
  <1> QED
    BY <1>5, <1>7

\* The stream from byte k + 1 on: a page command, its page and the end mark.
HoldsPage(stream, k, cmd, m, memory, data) ==
  /\ HoldsHeader(stream, k, cmd, m, memory)
  /\ \A i \in 1..Len(data) : stream[k + 3 + i] = data[i]
  /\ stream[k + 4 + Len(data)] = I!Eop

PageTaken(a, cmd, m, memory, o) ==
  \E u : PagePart(u, cmd, m, memory, o) /\ Fresh(a) /\ a.s = I!DispatchPage(u)

LEMMA TakesPage ==
  ASSUME NEW read, NEW first, NEW stream, NEW n \in Nat, IspReads(read, first, stream, n),
         NEW k \in Nat, NEW cmd \in {I!ProgPage, I!ReadPage}, NEW m \in Nat,
         NEW memory \in Nat, NEW data \in Seq(Nat),
         Len(data) = IF cmd = I!ReadPage THEN 0 ELSE m, k + 4 + Len(data) <= n,
         HoldsPage(stream, k, cmd, m, memory, data),
         NEW o, Fresh(read[k]), Ready(read[k].s, o)
  PROVE  PageTaken(read[k + 4 + Len(data)], cmd, m, memory, o)
  <1> DEFINE p == Len(data)
             h == k + 3
             j == h + p
  <1>1. /\ HoldsHeader(stream, k, cmd, m, memory)
        /\ \A i \in 1..p : stream[h + i] = data[i]
        /\ stream[k + 4 + p] = I!Eop
    BY DEF HoldsPage
  <1>2. /\ p \in Nat /\ p = (IF cmd = I!ReadPage THEN 0 ELSE m)
        /\ h \in Nat /\ k + 3 <= n
        /\ j \in Nat /\ j < n /\ j + 1 = k + 4 + p /\ h + p <= n /\ h + 0 = h
    OBVIOUS
  <1>3. Fresh(read[h]) /\ HeaderTaken(read[h].s, cmd, m, memory, o)
    <2>1. HoldsHeader(stream, k, cmd, m, memory) /\ k + 3 <= n
      BY <1>1, <1>2
    <2> HIDE DEF j, p, h
    <2>2. Fresh(read[k + 3]) /\ HeaderTaken(read[k + 3].s, cmd, m, memory, o)
      BY <2>1, TakesHeader
    <2> QED
      BY <2>2 DEF h
  <1>4. cmd # I!ReadPage => cmd = I!ProgPage
    OBVIOUS
  <1> HIDE DEF h
  <1>5. Fresh(read[j]) /\ EndPart(read[j].s, cmd, m, memory, o)
    <2>1. CASE cmd = I!ReadPage \/ m = 0
      BY <1>2, <1>3, <2>1 DEF HeaderTaken
    <2>2. CASE ~(cmd = I!ReadPage \/ m = 0) /\ m > MaxPage
      <3>1. p = m /\ m >= 1 /\ h + m <= n /\ j = h + m
        BY <1>2, <2>2
      <3>2. Fresh(read[h + m]) /\ EndPart(read[h + m].s, I!ProgPage, m, memory, o)
        <4>1. DiscardPart(read[h].s, m, memory, o, m)
          BY <1>3, <2>2 DEF HeaderTaken
        <4> QED
          BY <1>2, <1>3, <3>1, <4>1, TakesDiscarded
      <3> QED
        BY <1>4, <2>2, <3>1, <3>2
    <2>3. CASE ~(cmd = I!ReadPage \/ m = 0) /\ ~(m > MaxPage)
      <3>1. p = m /\ p >= 1
        BY <1>2, <2>3
      <3>2. BodyPart(read[h].s, Len(data), memory, o, <<>>)
        BY <1>3, <2>3, <3>1 DEF HeaderTaken
      <3>3. Fresh(read[h + Len(data)])
            /\ EndPart(read[h + Len(data)].s, I!ProgPage, Len(data), memory, o)
        <4>1. h \in Nat /\ Len(data) >= 1 /\ h + Len(data) <= n /\ Fresh(read[h])
              /\ \A i \in 1..Len(data) : stream[h + i] = data[i]
          BY <1>1, <1>2, <1>3, <3>1
        <4> QED
          BY <3>2, <4>1, TakesBody
      <3> QED
        BY <1>4, <2>3, <3>1, <3>3
    <2> QED
      BY <2>1, <2>2, <2>3
  <1> HIDE DEF j
  <1>6. PICK u : PagePart(u, cmd, m, memory, o)
                 /\ I!Accept(read[j].s, I!Eop) = I!DispatchPage(u)
    BY <1>5, PageEnds
  <1>7. Fresh(read[j + 1]) /\ read[j + 1].s = I!DispatchPage(u)
    <2>1. read[j].s.after = "None"
      BY <1>5 DEF EndPart, PagePart, Given
    <2>2. Fresh(read[j + 1]) /\ read[j + 1].s = I!Accept(read[j].s, stream[j + 1])
      BY <1>2, <1>5, <2>1, TakesAByte
    <2> QED
      BY <1>1, <1>2, <1>6, <2>2
  <1> QED
    BY <1>2, <1>6, <1>7 DEF PageTaken

-----------------------------------------------------------------------------
(* The host's commands to the ISP programmer, and what each may end in.    *)

LEMMA CommandLens ==
  /\ \A cmd \in {I!GetSync, I!GetSignOn, I!EnterProgmode, I!LeaveProgmode, I!ChipErase,
                 I!ReadSign} : I!PayloadLen(cmd) = 0 /\ cmd # I!Eop
  /\ \A cmd \in {I!SetDevice, I!LoadAddress} : I!PayloadLen(cmd) = 1 /\ cmd # I!Eop
  /\ I!PayloadLen(I!Universal) = 2 /\ I!Universal # I!Eop
  BY DEF I!PayloadLen, I!GetSync, I!GetSignOn, I!EnterProgmode, I!LeaveProgmode,
         I!ChipErase, I!CheckAutoinc, I!ReadSign, I!GetParameter, I!ProgData, I!SetDevice,
         I!LoadAddress, I!SetParameter, I!ProgFlash, I!Universal, I!SetDeviceExt, I!Eop

Wrap(r, p, c, e) ==
  /\ r \in Seq(Nat) /\ Len(r) = Len(p) + Len(c) + 1
  /\ \A i \in 1..Len(p) : r[i] = p[i]
  /\ \A i \in 1..Len(c) : r[Len(p) + i] = c[i]
  /\ r[Len(p) + Len(c) + 1] = e

LEMMA Wrapped ==
  ASSUME NEW p \in Seq(Nat), NEW c \in Seq(Nat), NEW e \in Nat
  PROVE  Wrap(p \o c \o <<e>>, p, c, e)
  <1> DEFINE b == p \o c
             last == <<e>>
             r == b \o last
  <1>1. Join(b, p, c, Nat)
    BY Joined
  <1>2. last \in Seq(Nat) /\ Len(last) = 1 /\ last[1] = e
    OBVIOUS
  <1> HIDE DEF last
  <1>3. b \in Seq(Nat) /\ Len(b) = Len(p) + Len(c)
    BY <1>1 DEF Join
  <1> HIDE DEF b
  <1>4. Join(r, b, last, Nat)
    BY <1>2, <1>3, Joined
  <1> HIDE DEF r
  <1>5. r \in Seq(Nat) /\ Len(r) = Len(p) + Len(c) + 1
    BY <1>2, <1>3, <1>4 DEF Join
  <1>6. \A i \in 1..Len(p) : r[i] = p[i]
    <2>1. \A i \in 1..Len(p) : i \in 1..Len(b)
      BY <1>3
    <2> QED
      BY <1>1, <1>4, <2>1 DEF Join
  <1>7. \A i \in 1..Len(c) : r[Len(p) + i] = c[i]
    <2>1. \A i \in 1..Len(c) : Len(p) + i \in 1..Len(b)
      BY <1>3
    <2> QED
      BY <1>1, <1>4, <2>1 DEF Join
  <1>8. r[Len(p) + Len(c) + 1] = e
    <2>1. r[Len(b) + 1] = last[1]
      BY <1>2, <1>4 DEF Join
    <2> QED
      BY <1>2, <1>3, <2>1
  <1> QED
    BY <1>5, <1>6, <1>7, <1>8 DEF Wrap, r, b, last

\* The frames of the two memory commands.
WordOf(op) == (IF op.at \in Flash THEN op.at ELSE op.at - EepromAt) \div 2
MemoryOf(op) == IF op.at \in Flash THEN I!MemFlash ELSE I!MemEeprom

LEMMA WriteFrame ==
  ASSUME NEW op \in IspOps, op.kind = "Write"
  PROVE  LET stream == IspFrame(op)
         IN /\ Len(stream) = op.n + 7 /\ Data(op) \in Seq(Nat) /\ Len(Data(op)) = op.n
            /\ WordOf(op) \in Nat /\ MemoryOf(op) \in Nat
            /\ Holds(stream, 0, I!LoadAddress, <<WordOf(op)>>)
            /\ HoldsPage(stream, 3, I!ProgPage, op.n, MemoryOf(op), Data(op))
  <1> DEFINE located == <<I!LoadAddress, WordOf(op), I!Eop>>
             header == <<I!ProgPage, op.n, MemoryOf(op)>>
             p == located \o header
             data == Data(op)
             r == p \o data \o <<I!Eop>>
             n == op.n
  <1> USE DEF I!Eop, I!LoadAddress, I!ProgPage, I!MemFlash, I!MemEeprom
  <1>1. n \in Nat /\ op.at \in Nat
    BY HostAssumption
  <1>2. WordOf(op) \in Nat /\ MemoryOf(op) \in Nat
    <2>1. op.at \in Flash \union Eeprom
      BY ByteAssumption
    <2> QED
      BY <1>1, <2>1, ByteAssumption DEF WordOf, MemoryOf, Flash, Eeprom, EepromAt, U!EepromAt
  <1>3. data \in Seq(Nat) /\ Len(data) = n
    <2>1. data = [i \in 1..n |-> Image[op.at + i - 1]]
      BY DEF Data
    <2>2. \A i \in 1..n : Image[op.at + i - 1] \in Nat
      BY ByteAssumption
    <2> HIDE DEF n, data
    <2>3. data \in [1..n -> Nat]
      BY <2>1, <2>2
    <2> QED
      BY <1>1, <2>3
  <1>4. IspFrame(op) = r
    BY DEF IspFrame, WordOf, MemoryOf
  <1> DEFINE w == WordOf(op)
             memory == MemoryOf(op)
  <1> HIDE DEF n, data, w, memory
  <1>5. /\ located \in Seq(Nat) /\ Len(located) = 3
        /\ located[1] = I!LoadAddress /\ located[2] = w /\ located[3] = I!Eop
    BY <1>2 DEF w
  <1>6. /\ header \in Seq(Nat) /\ Len(header) = 3
        /\ header[1] = I!ProgPage /\ header[2] = n /\ header[3] = memory
    BY <1>1, <1>2 DEF n, memory
  <1> HIDE DEF located, header
  <1>7. /\ p \in Seq(Nat) /\ Len(p) = 6
        /\ p[1] = I!LoadAddress /\ p[2] = w /\ p[3] = I!Eop
        /\ p[4] = I!ProgPage /\ p[5] = n /\ p[6] = memory
    <2>1. Join(p, located, header, Nat)
      BY <1>5, <1>6, Joined
    <2> HIDE DEF p
    <2>2. p \in Seq(Nat) /\ Len(p) = 6
      BY <1>5, <1>6, <2>1 DEF Join
    <2>3. p[1] = located[1] /\ p[2] = located[2] /\ p[3] = located[3]
      BY <1>5, <2>1 DEF Join
    <2>4. p[3 + 1] = header[1] /\ p[3 + 2] = header[2] /\ p[3 + 3] = header[3]
      BY <1>5, <1>6, <2>1 DEF Join
    <2> QED
      BY <1>5, <1>6, <2>2, <2>3, <2>4
  <1> HIDE DEF p
  <1>8. /\ r \in Seq(Nat) /\ Len(r) = Len(p) + Len(data) + 1
        /\ \A i \in 1..Len(p) : r[i] = p[i]
        /\ \A i \in 1..Len(data) : r[Len(p) + i] = data[i]
        /\ r[Len(p) + Len(data) + 1] = I!Eop
    <2>1. I!Eop \in Nat
      OBVIOUS
    <2> HIDE DEF r
    <2>2. Wrap(p \o data \o <<I!Eop>>, p, data, I!Eop)
      BY <1>3, <1>7, <2>1, Wrapped
    <2> QED
      BY <2>2 DEF Wrap, r
  <1> HIDE DEF r
  <1>9. /\ Len(r) = n + 7 /\ r[1] = I!LoadAddress /\ r[2] = w /\ r[3] = I!Eop
        /\ r[4] = I!ProgPage /\ r[5] = n /\ r[6] = memory
        /\ \A i \in 1..n : r[6 + i] = data[i]
        /\ r[n + 7] = I!Eop
    <2>1. Len(p) + Len(data) + 1 = n + 7
      BY <1>1, <1>3, <1>7 DEF n
    <2>2. 1 \in 1..Len(p) /\ 2 \in 1..Len(p) /\ 3 \in 1..Len(p) /\ 4 \in 1..Len(p)
          /\ 5 \in 1..Len(p) /\ 6 \in 1..Len(p)
      BY <1>7
    <2>3. /\ r[1] = p[1] /\ r[2] = p[2] /\ r[3] = p[3] /\ r[4] = p[4] /\ r[5] = p[5]
          /\ r[6] = p[6]
      BY <1>8, <2>2
    <2>4. \A i \in 1..n : r[6 + i] = data[i]
      BY <1>3, <1>7, <1>8
    <2>5. Len(r) = n + 7 /\ r[n + 7] = I!Eop
      BY <1>8, <2>1
    <2> QED
      BY <1>7, <2>3, <2>4, <2>5
  <1>10. Holds(r, 0, I!LoadAddress, <<w>>)
    BY <1>9 DEF Holds
  <1>11. HoldsPage(r, 3, I!ProgPage, n, memory, data)
    <2>1. 3 + 4 + Len(data) = n + 7
      BY <1>1, <1>3 DEF n
    <2> QED
      BY <1>3, <1>9, <2>1 DEF HoldsPage, HoldsHeader
  <1> QED
    BY <1>2, <1>3, <1>4, <1>9, <1>10, <1>11 DEF n, data, w, memory

LEMMA ReadFrame ==
  ASSUME NEW op \in IspOps, op.kind = "Read"
  PROVE  LET stream == IspFrame(op)
         IN /\ Len(stream) = 7 /\ op.n \in Nat
            /\ WordOf(op) \in Nat /\ MemoryOf(op) \in Nat
            /\ Holds(stream, 0, I!LoadAddress, <<WordOf(op)>>)
            /\ HoldsPage(stream, 3, I!ReadPage, op.n, MemoryOf(op), <<>>)
  <1> DEFINE located == <<I!LoadAddress, WordOf(op), I!Eop>>
             header == <<I!ReadPage, op.n, MemoryOf(op), I!Eop>>
             r == located \o header
             n == op.n
             w == WordOf(op)
             memory == MemoryOf(op)
  <1> USE DEF I!Eop, I!LoadAddress, I!ReadPage, I!MemFlash, I!MemEeprom
  <1>1. n \in Nat /\ op.at \in Nat
    BY HostAssumption
  <1>2. w \in Nat /\ memory \in Nat
    <2>1. op.at \in Flash \union Eeprom
      BY ByteAssumption
    <2> QED
      BY <1>1, <2>1, ByteAssumption DEF WordOf, MemoryOf, Flash, Eeprom, EepromAt, U!EepromAt
  <1>3. IspFrame(op) = r
    BY DEF IspFrame, WordOf, MemoryOf
  <1> HIDE DEF n, w, memory
  <1>4. /\ located \in Seq(Nat) /\ Len(located) = 3
        /\ located[1] = I!LoadAddress /\ located[2] = w /\ located[3] = I!Eop
    BY <1>2 DEF w
  <1>5. /\ header \in Seq(Nat) /\ Len(header) = 4
        /\ header[1] = I!ReadPage /\ header[2] = n /\ header[3] = memory /\ header[4] = I!Eop
    BY <1>1, <1>2 DEF n, memory
  <1> HIDE DEF located, header
  <1>6. /\ Len(r) = 7
        /\ r[1] = I!LoadAddress /\ r[2] = w /\ r[3] = I!Eop
        /\ r[4] = I!ReadPage /\ r[5] = n /\ r[6] = memory /\ r[7] = I!Eop
    <2>1. Join(r, located, header, Nat)
      BY <1>4, <1>5, Joined
    <2> HIDE DEF r
    <2>2. Len(r) = 7
      BY <1>4, <1>5, <2>1 DEF Join
    <2>3. r[1] = located[1] /\ r[2] = located[2] /\ r[3] = located[3]
      BY <1>4, <2>1 DEF Join
    <2>4. /\ r[3 + 1] = header[1] /\ r[3 + 2] = header[2] /\ r[3 + 3] = header[3]
          /\ r[3 + 4] = header[4]
      BY <1>4, <1>5, <2>1 DEF Join
    <2> QED
      BY <1>4, <1>5, <2>2, <2>3, <2>4
  <1> HIDE DEF r
  <1>7. Holds(r, 0, I!LoadAddress, <<w>>)
    BY <1>6 DEF Holds
  <1>8. HoldsPage(r, 3, I!ReadPage, n, memory, <<>>)
    BY <1>6 DEF HoldsPage, HoldsHeader
  <1> QED
    BY <1>1, <1>2, <1>3, <1>6, <1>7, <1>8 DEF n, w, memory

\* A page longer than the programmer has room for.
LEMMA OversizeFrame ==
  ASSUME NEW op \in IspOps, op.kind = "Oversize"
  PROVE  \E data \in Seq(Nat) :
           /\ Len(data) = MaxPage + 1 /\ Len(IspFrame(op)) = MaxPage + 5
           /\ HoldsPage(IspFrame(op), 0, I!ProgPage, MaxPage + 1, I!MemFlash, data)
  <1> DEFINE m == MaxPage + 1
             data == [i \in 1..m |-> I!Eop]
             header == <<I!ProgPage, m, I!MemFlash>>
             r == header \o data \o <<I!Eop>>
  <1> USE DEF I!Eop, I!ProgPage, I!MemFlash
  <1>1. m \in Nat /\ MaxPage + 5 = m + 4
    BY HostAssumption
  <1>2. IspFrame(op) = r
    BY DEF IspFrame
  <1> HIDE DEF m
  <1>3. data \in Seq(Nat) /\ Len(data) = m
    BY <1>1
  <1>4. header \in Seq(Nat) /\ Len(header) = 3 /\ header[1] = I!ProgPage /\ header[2] = m
        /\ header[3] = I!MemFlash
    BY <1>1
  <1> HIDE DEF data, header
  <1>5. /\ Len(r) = Len(header) + Len(data) + 1
        /\ \A i \in 1..Len(header) : r[i] = header[i]
        /\ \A i \in 1..Len(data) : r[Len(header) + i] = data[i]
        /\ r[Len(header) + Len(data) + 1] = I!Eop
    <2>1. I!Eop \in Nat
      OBVIOUS
    <2> HIDE DEF r
    <2>2. Wrap(header \o data \o <<I!Eop>>, header, data, I!Eop)
      BY <1>3, <1>4, <2>1, Wrapped
    <2> QED
      BY <2>2 DEF Wrap, r
  <1> HIDE DEF r
  <1>6. /\ Len(r) = m + 4 /\ r[1] = I!ProgPage /\ r[2] = m /\ r[3] = I!MemFlash
        /\ \A i \in 1..Len(data) : r[0 + 3 + i] = data[i]
        /\ r[0 + 4 + Len(data)] = I!Eop
    <2>1. Len(header) + Len(data) + 1 = m + 4 /\ 0 + 4 + Len(data) = m + 4
      BY <1>1, <1>3, <1>4
    <2> QED
      BY <1>4, <1>5, <2>1
  <1>7. HoldsPage(r, 0, I!ProgPage, m, I!MemFlash, data)
    BY <1>6 DEF HoldsPage, HoldsHeader
  <1> QED
    BY <1>1, <1>2, <1>3, <1>6, <1>7 DEF m

\* What a command without a page ends in.
FixedOutcome(t, cmd, f, o) ==
  /\ cmd \in {I!GetSync, I!SetDevice, I!LoadAddress, I!LeaveProgmode} =>
       Ready(t, o \o Positive)
  /\ cmd = I!GetSignOn => Ready(t, o \o <<I!Insync, I!Filler, I!Ok>>)
  /\ cmd = I!ReadSign =>
       \E c : c = [i \in 1..3 |-> c[i]] /\ Ready(t, o \o (<<I!Insync>> \o c \o <<I!Ok>>))
  /\ cmd = I!EnterProgmode =>
       Ready(t, o \o Positive) \/ Halted(t, "ProgrammingEnable", o)
  /\ cmd = I!ChipErase => Halted(t, "ReplyOk", o)
  /\ cmd = I!Universal /\ f = <<I!InstrErase, 128>> => Halted(t, "ReplyEraseByte", o)

LEMMA FixedCommand ==
  ASSUME NEW read, NEW first, NEW stream, NEW n \in Nat, IspReads(read, first, stream, n),
         NEW k \in Nat, NEW cmd, cmd # I!Eop, NEW f \in Seq(Nat), Len(f) <= 2,
         I!PayloadLen(cmd) = Len(f), k + 2 + Len(f) <= n, Holds(stream, k, cmd, f),
         NEW o, Fresh(read[k]), Ready(read[k].s, o)
  PROVE  /\ Fresh(read[k + 2 + Len(f)])
         /\ FixedOutcome(read[k + 2 + Len(f)].s, cmd, f, o)
  <1> DEFINE j == k + 2 + Len(f)
  <1>1. PICK u : /\ Complete(u, cmd, Append(f, I!Eop), o)
                 /\ Fresh(read[j]) /\ read[j].s = I!DispatchFixed(u)
    BY TakesFixed
  <1> HIDE DEF j
  <1>2. Given(u, o) /\ u.cmd = cmd /\ u.fixed = Append(f, I!Eop)
    BY <1>1 DEF Complete
  <1>3. ASSUME f = <<I!InstrErase, 128>>
        PROVE  u.fixed[1] = I!InstrErase /\ u.fixed[2] = 128
    <2>1. f[1] = I!InstrErase /\ f[2] = 128 /\ Len(f) = 2
      BY <1>3
    <2>2. I!Eop \in Nat /\ 1 \in 1..Len(f) /\ 2 \in 1..Len(f)
      BY <2>1 DEF I!Eop
    <2>3. \A i \in 1..Len(f) : Append(f, I!Eop)[i] = f[i]
      BY <2>2, AppendProperties
    <2> QED
      BY <1>2, <2>1, <2>2, <2>3
  <1>4. FixedOutcome(I!DispatchFixed(u), cmd, f, o)
    <2> DEFINE t == I!DispatchFixed(u)
    <2>1. /\ cmd \in {I!GetSync, I!SetDevice, I!LoadAddress, I!LeaveProgmode} =>
               Ready(t, o \o Positive)
          /\ cmd = I!GetSignOn => Ready(t, o \o <<I!Insync, I!Filler, I!Ok>>)
      BY <1>2, GivenFixed
    <2>2. cmd = I!ReadSign =>
            \E c : c = [i \in 1..3 |-> c[i]]
                   /\ Ready(t, o \o (<<I!Insync>> \o c \o <<I!Ok>>))
      BY <1>2, GivenFixed
    <2>3. /\ cmd = I!EnterProgmode =>
               Ready(t, o \o Positive) \/ Halted(t, "ProgrammingEnable", o)
          /\ cmd = I!ChipErase => Halted(t, "ReplyOk", o)
      BY <1>2, GivenFixed
    <2>4. cmd = I!Universal /\ u.fixed[1] = I!InstrErase /\ u.fixed[2] = 128 =>
            Halted(t, "ReplyEraseByte", o)
      BY <1>2, GivenFixed, ZenonT(30)
    <2> HIDE DEF t
    <2> QED
      BY <1>3, <2>1, <2>2, <2>3, <2>4 DEF FixedOutcome, t
  <1> QED
    BY <1>1, <1>4 DEF j

\* What a command with a page ends in.
PageOutcome(t, cmd, m, memory, o) ==
  IF \/ m > MaxPage \/ memory \notin {I!MemFlash, I!MemEeprom}
     \/ memory = I!MemFlash /\ m % 2 # 0
    THEN Ready(t, o \o <<I!Insync, I!Failed>>)
  ELSE IF cmd = I!ReadPage
    THEN \E c : c = [i \in 1..m |-> c[i]] /\ Ready(t, o \o (<<I!Insync>> \o c \o <<I!Ok>>))
    ELSE \/ Ready(t, o \o Positive)
         \/ memory = I!MemFlash /\ Halted(t, "ReplyOk", o)
         \/ memory = I!MemEeprom /\ Halted(t, "EepromNext", o)

LEMMA PageCommand ==
  ASSUME NEW read, NEW first, NEW stream, NEW n \in Nat, IspReads(read, first, stream, n),
         NEW k \in Nat, NEW cmd \in {I!ProgPage, I!ReadPage}, NEW m \in Nat,
         NEW memory \in Nat, NEW data \in Seq(Nat),
         Len(data) = IF cmd = I!ReadPage THEN 0 ELSE m, k + 4 + Len(data) <= n,
         HoldsPage(stream, k, cmd, m, memory, data),
         NEW o, Fresh(read[k]), Ready(read[k].s, o)
  PROVE  /\ Fresh(read[k + 4 + Len(data)])
         /\ PageOutcome(read[k + 4 + Len(data)].s, cmd, m, memory, o)
  <1> DEFINE j == k + 4 + Len(data)
             refused == \/ m > MaxPage \/ memory \notin {I!MemFlash, I!MemEeprom}
                        \/ memory = I!MemFlash /\ m % 2 # 0
  <1> HIDE DEF j, refused
  <1>0. PageTaken(read[k + 4 + Len(data)], cmd, m, memory, o)
    BY TakesPage, ZenonT(30)
  <1>1. PICK u : /\ PagePart(u, cmd, m, memory, o)
                 /\ Fresh(read[j]) /\ read[j].s = I!DispatchPage(u)
    BY <1>0 DEF j, PageTaken
  <1>2. /\ Given(u, o) /\ u.cmd = cmd /\ u.header = <<m, memory>>
        /\ (u.oversize <=> m > MaxPage)
    BY <1>1 DEF PagePart
  <1> DEFINE t == I!DispatchPage(u)
             turned == \/ u.oversize \/ memory \notin {I!MemFlash, I!MemEeprom}
                       \/ memory = I!MemFlash /\ m % 2 # 0
  <1>3. /\ turned => Ready(t, o \o <<I!Insync, I!Failed>>)
        /\ ~turned /\ cmd = I!ReadPage =>
             \E c : c = [i \in 1..m |-> c[i]]
                    /\ Ready(t, o \o (<<I!Insync>> \o c \o <<I!Ok>>))
        /\ ~turned /\ cmd = I!ProgPage =>
             \/ Ready(t, o \o Positive)
             \/ memory = I!MemFlash /\ Halted(t, "ReplyOk", o)
             \/ memory = I!MemEeprom /\ Halted(t, "EepromNext", o)
    BY <1>2, GivenPage
  <1>4. turned <=> refused
    BY <1>2 DEF refused
  <1> HIDE DEF t, turned
  <1>5. PageOutcome(t, cmd, m, memory, o)
    BY <1>3, <1>4 DEF PageOutcome, refused
  <1> QED
    BY <1>1, <1>5 DEF j, t

\* What a command waits for, what has been answered by then, and the form of
\* its whole answer: of a read, everything but the data.
WaitsFor(op) ==
  CASE op.kind = "Setup" -> "ProgrammingEnable"
    [] op.kind = "Erase" -> "ReplyOk"
    [] op.kind = "UniversalErase" -> "ReplyEraseByte"
    [] op.kind = "Write" -> IF op.at \in Flash THEN "ReplyOk" ELSE "EepromNext"
    [] OTHER -> "None"

AnsweredBefore(op) == IF op.kind \in {"Setup", "Write"} THEN Positive ELSE <<>>

IspFormFits(op, out) ==
  IF op.kind = "Read"
    THEN /\ Len(out) = op.n + 4 /\ out[1] = I!Insync /\ out[2] = I!Ok
         /\ out[3] = I!Insync /\ out[op.n + 4] = I!Ok
    ELSE IspFits(op, out)

IspOutcome(t, op) ==
  \/ Ready(t, t.out) /\ IspFormFits(op, t.out)
  \/ WaitsFor(op) # "None" /\ Halted(t, WaitsFor(op), AnsweredBefore(op))

LEMMA Joins ==
  /\ <<>> \o Positive = Positive /\ Positive \in Seq(Nat)
  /\ Positive \o Positive = <<I!Insync, I!Ok, I!Insync, I!Ok>>
  /\ Positive \o <<I!Insync, I!Failed>> = <<I!Insync, I!Ok, I!Insync, I!Failed>>
  /\ <<>> \o <<I!Insync, I!Failed>> = <<I!Insync, I!Failed>>
  /\ <<>> \o <<I!Insync, I!Filler, I!Ok>> = <<I!Insync, I!Filler, I!Ok>>
  <1> USE DEF Positive, I!Insync, I!Ok, I!Failed, I!Filler
  <1>1. Positive \in Seq(Nat)
    OBVIOUS
  <1>2. <<>> \o Positive = Positive
    OBVIOUS
  <1>3. <<>> \o <<I!Insync, I!Failed>> = <<I!Insync, I!Failed>>
    OBVIOUS
  <1>4. <<>> \o <<I!Insync, I!Filler, I!Ok>> = <<I!Insync, I!Filler, I!Ok>>
    OBVIOUS
  <1>5. Positive \o Positive = <<I!Insync, I!Ok, I!Insync, I!Ok>>
    <2> DEFINE p == Positive
               q == Positive
               r == p \o q
    <2>1. /\ p \in Seq(Nat) /\ Len(p) = 2 /\ p[1] = I!Insync /\ p[2] = I!Ok
          /\ q \in Seq(Nat) /\ Len(q) = 2 /\ q[1] = I!Insync /\ q[2] = I!Ok
      OBVIOUS
    <2> HIDE DEF p, q
    <2>2. Join(r, p, q, Nat)
      BY <2>1, Joined
    <2> HIDE DEF r
    <2>3. /\ r \in Seq(Nat) /\ Len(r) = 4
          /\ r[1] = p[1] /\ r[2] = p[2] /\ r[2 + 1] = q[1] /\ r[2 + 2] = q[2]
      BY <2>1, <2>2 DEF Join
    <2>4. r = <<I!Insync, I!Ok, I!Insync, I!Ok>>
      BY <2>1, <2>3
    <2> QED
      BY <2>4 DEF r, p, q
  <1>6. Positive \o <<I!Insync, I!Failed>> = <<I!Insync, I!Ok, I!Insync, I!Failed>>
    <2> DEFINE p == Positive
               q == <<I!Insync, I!Failed>>
               r == p \o q
    <2>1. /\ p \in Seq(Nat) /\ Len(p) = 2 /\ p[1] = I!Insync /\ p[2] = I!Ok
          /\ q \in Seq(Nat) /\ Len(q) = 2 /\ q[1] = I!Insync /\ q[2] = I!Failed
      OBVIOUS
    <2> HIDE DEF p, q
    <2>2. Join(r, p, q, Nat)
      BY <2>1, Joined
    <2> HIDE DEF r
    <2>3. /\ r \in Seq(Nat) /\ Len(r) = 4
          /\ r[1] = p[1] /\ r[2] = p[2] /\ r[2 + 1] = q[1] /\ r[2 + 2] = q[2]
      BY <2>1, <2>2 DEF Join
    <2>4. r = <<I!Insync, I!Ok, I!Insync, I!Failed>>
      BY <2>1, <2>3
    <2> QED
      BY <2>4 DEF r, p, q
  <1> QED
    BY <1>1, <1>2, <1>3, <1>4, <1>5, <1>6

LEMMA FitsOnceReady ==
  ASSUME NEW t, NEW op, NEW o, Ready(t, o), IspFormFits(op, o)
  PROVE  IspOutcome(t, op)
  BY DEF IspOutcome, Ready

LEMMA FormsThatFit ==
  ASSUME NEW op
  PROVE  /\ op.kind \in {"Sync", "Leave", "Erase"} => IspFormFits(op, <<>> \o Positive)
         /\ op.kind \in {"Setup", "Write"} => IspFormFits(op, Positive \o Positive)
         /\ op.kind = "Setup" => IspFormFits(op, Positive \o <<I!Insync, I!Failed>>)
         /\ op.kind \in {"UniversalErase", "Name"} =>
              IspFormFits(op, <<>> \o <<I!Insync, I!Filler, I!Ok>>)
         /\ op.kind \in {"Oversize", "OddRead"} =>
              IspFormFits(op, <<>> \o <<I!Insync, I!Failed>>)
         /\ op.kind = "Sign" => \A c : c = [i \in 1..3 |-> c[i]] =>
              IspFormFits(op, <<>> \o (<<I!Insync>> \o c \o <<I!Ok>>))
         /\ op.kind = "Read" /\ op.n \in Nat => \A c : c = [i \in 1..op.n |-> c[i]] =>
              IspFormFits(op, Positive \o (<<I!Insync>> \o c \o <<I!Ok>>))
  <1>1. /\ op.kind \in {"Sync", "Leave", "Erase"} => IspFormFits(op, <<>> \o Positive)
        /\ op.kind \in {"Setup", "Write"} => IspFormFits(op, Positive \o Positive)
        /\ op.kind = "Setup" => IspFormFits(op, Positive \o <<I!Insync, I!Failed>>)
    BY Joins DEF IspFormFits, IspFits, IspGood, Positive
  <1>2. op.kind \in {"Oversize", "OddRead"} =>
          IspFormFits(op, <<>> \o <<I!Insync, I!Failed>>)
    BY Joins DEF IspFormFits, IspFits, IspGood
  <1>3. op.kind \in {"UniversalErase", "Name"} =>
          IspFormFits(op, <<>> \o <<I!Insync, I!Filler, I!Ok>>)
    <2> DEFINE a == <<I!Insync, I!Filler, I!Ok>>
    <2>1. Len(a) = 3 /\ a[1] = I!Insync /\ a[3] = I!Ok
      OBVIOUS
    <2>2. <<>> \o a = a
      BY Joins
    <2> HIDE DEF a
    <2>3. op.kind \in {"UniversalErase", "Name"} => IspFormFits(op, a)
      BY <2>1 DEF IspFormFits, IspFits, IspGood
    <2> QED
      BY <2>2, <2>3 DEF a
  <1>4. ASSUME op.kind = "Sign", NEW c, c = [i \in 1..3 |-> c[i]]
        PROVE  IspFormFits(op, <<>> \o (<<I!Insync>> \o c \o <<I!Ok>>))
    <2> DEFINE a == <<I!Insync>> \o c \o <<I!Ok>>
               r == <<>> \o a
    <2>1. /\ Len(a) = 3 + 2 /\ a[1] = I!Insync /\ a[3 + 2] = I!Ok
      BY <1>4, Enclosed
    <2>2. r = a
      OBVIOUS
    <2> HIDE DEF r, a
    <2>3. Len(r) = 5 /\ r[1] = I!Insync /\ r[5] = I!Ok
      BY <2>1, <2>2
    <2>4. IspFormFits(op, r)
      BY <1>4, <2>3 DEF IspFormFits, IspFits, IspGood
    <2> QED
      BY <2>4 DEF r, a
  <1>5. ASSUME op.kind = "Read", op.n \in Nat, NEW c, c = [i \in 1..op.n |-> c[i]]
        PROVE  IspFormFits(op, Positive \o (<<I!Insync>> \o c \o <<I!Ok>>))
    <2> DEFINE p == Positive \o (<<I!Insync>> \o c \o <<I!Ok>>)
    <2>1. /\ Len(p) = op.n + 4 /\ p[1] = I!Insync /\ p[2] = I!Ok /\ p[3] = I!Insync
          /\ p[op.n + 4] = I!Ok
      BY <1>5, Enclosed
    <2> HIDE DEF p
    <2>2. IspFormFits(op, p)
      BY <1>5, <2>1 DEF IspFormFits
    <2> QED
      BY <2>2 DEF p
  <1> QED
    BY <1>1, <1>2, <1>3, <1>4, <1>5

\* The bytes of a command, read one after the other from between two commands.
LEMMA CommandIsRead ==
  ASSUME NEW op \in IspOps, NEW stream, stream = IspFrame(op), NEW read, NEW first,
         NEW n \in Nat, n = Len(stream), IspReads(read, first, stream, n),
         Fresh(read[0]), Ready(read[0].s, <<>>)
  PROVE  Fresh(read[n]) /\ IspOutcome(read[n].s, op)
  <1>1. op.kind \in IspKinds /\ op.n \in Nat /\ op.at \in Nat
    BY HostAssumption
  <1>2. <<>> \in Seq(Nat) /\ Len(<<>>) = 0
    OBVIOUS
  <1>3. ASSUME NEW cmd, cmd # I!Eop, I!PayloadLen(cmd) = 0, stream = <<cmd, I!Eop>>
        PROVE  n = 2 /\ Fresh(read[2]) /\ FixedOutcome(read[2].s, cmd, <<>>, <<>>)
    <2>1. n = 2 /\ stream[1] = cmd /\ stream[2] = I!Eop
      BY <1>3
    <2>2. Holds(stream, 0, cmd, <<>>)
      BY <2>1 DEF Holds
    <2> DEFINE j == 0 + 2 + Len(<<>>)
    <2>3. j = 2 /\ 0 \in Nat /\ Len(<<>>) <= 2 /\ j <= n /\ I!PayloadLen(cmd) = Len(<<>>)
      BY <1>2, <1>3, <2>1
    <2>4. Fresh(read[j]) /\ FixedOutcome(read[j].s, cmd, <<>>, <<>>)
      BY <1>2, <1>3, <2>2, <2>3, FixedCommand
    <2> HIDE DEF j
    <2> QED
      BY <2>1, <2>3, <2>4
  <1>4. CASE op.kind = "Sync"
    <2>1. stream = <<I!GetSync, I!Eop>>
      BY <1>4 DEF IspFrame
    <2>2. n = 2 /\ Fresh(read[2]) /\ FixedOutcome(read[2].s, I!GetSync, <<>>, <<>>)
      BY <1>3, <2>1, CommandLens
    <2>3. Ready(read[2].s, <<>> \o Positive)
      BY <2>2 DEF FixedOutcome
    <2> QED
      BY <1>4, <2>2, <2>3, FormsThatFit, FitsOnceReady
  <1>5. CASE op.kind = "Leave"
    <2>1. stream = <<I!LeaveProgmode, I!Eop>>
      BY <1>5 DEF IspFrame
    <2>2. n = 2 /\ Fresh(read[2]) /\ FixedOutcome(read[2].s, I!LeaveProgmode, <<>>, <<>>)
      BY <1>3, <2>1, CommandLens
    <2>3. Ready(read[2].s, <<>> \o Positive)
      BY <2>2 DEF FixedOutcome
    <2> QED
      BY <1>5, <2>2, <2>3, FormsThatFit, FitsOnceReady
  <1>6. CASE op.kind = "Erase"
    <2>1. stream = <<I!ChipErase, I!Eop>>
      BY <1>6 DEF IspFrame
    <2>2. n = 2 /\ Fresh(read[2]) /\ FixedOutcome(read[2].s, I!ChipErase, <<>>, <<>>)
      BY <1>3, <2>1, CommandLens
    <2>3. Halted(read[2].s, "ReplyOk", <<>>)
      BY <2>2 DEF FixedOutcome
    <2>4. WaitsFor(op) = "ReplyOk" /\ AnsweredBefore(op) = <<>>
      BY <1>6 DEF WaitsFor, AnsweredBefore
    <2> QED
      BY <2>2, <2>3, <2>4 DEF IspOutcome
  <1>7. CASE op.kind = "Sign"
    <2>1. stream = <<I!ReadSign, I!Eop>>
      BY <1>7 DEF IspFrame
    <2>2. n = 2 /\ Fresh(read[2]) /\ FixedOutcome(read[2].s, I!ReadSign, <<>>, <<>>)
      BY <1>3, <2>1, CommandLens
    <2>3. PICK c : /\ c = [i \in 1..3 |-> c[i]]
                   /\ Ready(read[2].s, <<>> \o (<<I!Insync>> \o c \o <<I!Ok>>))
      BY <2>2 DEF FixedOutcome
    <2>4. IspFormFits(op, <<>> \o (<<I!Insync>> \o c \o <<I!Ok>>))
      BY <1>7, <2>3, FormsThatFit
    <2> QED
      BY <2>2, <2>3, <2>4, FitsOnceReady
  <1>8. CASE op.kind = "Name"
    <2>1. stream = <<I!GetSignOn, I!Eop>>
      BY <1>8 DEF IspFrame
    <2>2. n = 2 /\ Fresh(read[2]) /\ FixedOutcome(read[2].s, I!GetSignOn, <<>>, <<>>)
      BY <1>3, <2>1, CommandLens
    <2>3. Ready(read[2].s, <<>> \o <<I!Insync, I!Filler, I!Ok>>)
      BY <2>2 DEF FixedOutcome
    <2>4. IspFormFits(op, <<>> \o <<I!Insync, I!Filler, I!Ok>>)
      BY <1>8, FormsThatFit
    <2> QED
      BY <2>2, <2>3, <2>4, FitsOnceReady
  <1>90. ASSUME NEW cmd, NEW f \in Seq(Nat), cmd # I!Eop, Len(f) = 2,
                I!PayloadLen(cmd) = 2, Holds(stream, 0, cmd, f), n = 4
         PROVE  Fresh(read[4]) /\ FixedOutcome(read[4].s, cmd, f, <<>>)
    <2> DEFINE j == 0 + 2 + Len(f)
    <2>1. j = 4 /\ 0 \in Nat /\ Len(f) <= 2 /\ j <= n /\ I!PayloadLen(cmd) = Len(f)
      BY <1>90
    <2>2. Fresh(read[j]) /\ FixedOutcome(read[j].s, cmd, f, <<>>)
      BY <1>90, <2>1, FixedCommand
    <2> HIDE DEF j
    <2> QED
      BY <2>1, <2>2
  <1>9. CASE op.kind = "UniversalErase"
    <2> DEFINE f == <<I!InstrErase, 128>>
               cmd == I!Universal
    <2>1. stream = <<I!Universal, I!InstrErase, 128, I!Eop>>
      BY <1>9 DEF IspFrame
    <2>2. f \in Seq(Nat) /\ Len(f) = 2 /\ f[1] = I!InstrErase /\ f[2] = 128
      BY DEF I!InstrErase
    <2>3. /\ n = 4 /\ stream[1] = I!Universal /\ stream[2] = I!InstrErase
          /\ stream[3] = 128 /\ stream[4] = I!Eop
      BY <2>1
    <2> HIDE DEF f
    <2>4. Holds(stream, 0, cmd, f)
      BY <2>2, <2>3 DEF Holds
    <2>5. I!PayloadLen(cmd) = 2 /\ cmd # I!Eop
      BY CommandLens
    <2> HIDE DEF cmd
    <2>6. Fresh(read[4]) /\ FixedOutcome(read[4].s, cmd, f, <<>>)
      BY <1>90, <2>2, <2>3, <2>4, <2>5
    <2>7. Halted(read[4].s, "ReplyEraseByte", <<>>)
      BY <2>6 DEF FixedOutcome, f, cmd
    <2>8. WaitsFor(op) = "ReplyEraseByte" /\ AnsweredBefore(op) = <<>>
      BY <1>9 DEF WaitsFor, AnsweredBefore
    <2> QED
      BY <2>3, <2>6, <2>7, <2>8 DEF IspOutcome
  <1>10. ASSUME NEW cmd \in {I!SetDevice, I!LoadAddress}, NEW x \in Nat,
                Holds(stream, 0, cmd, <<x>>), n >= 3
         PROVE  Fresh(read[3]) /\ Ready(read[3].s, Positive)
    <2> DEFINE f == <<x>>
               j == 0 + 2 + Len(f)
    <2>1. f \in Seq(Nat) /\ Len(f) = 1
      OBVIOUS
    <2>2. Holds(stream, 0, cmd, f)
      BY <1>10
    <2> HIDE DEF f
    <2>3. j = 3 /\ 0 \in Nat /\ Len(f) <= 2 /\ j <= n /\ I!PayloadLen(cmd) = Len(f)
      BY <1>10, <2>1, CommandLens
    <2>4. Fresh(read[j]) /\ FixedOutcome(read[j].s, cmd, f, <<>>)
      BY <1>10, <2>1, <2>2, <2>3, CommandLens, FixedCommand
    <2> HIDE DEF j
    <2>5. Ready(read[j].s, <<>> \o Positive)
      BY <1>10, <2>4 DEF FixedOutcome
    <2> QED
      BY <2>3, <2>4, <2>5, Joins
  <1>11. CASE op.kind = "Setup"
    <2>1. stream = <<I!SetDevice, PageBytes, I!Eop, I!EnterProgmode, I!Eop>>
      BY <1>11 DEF IspFrame
    <2>2. /\ n = 5 /\ stream[1] = I!SetDevice /\ stream[2] = PageBytes /\ stream[3] = I!Eop
          /\ stream[4] = I!EnterProgmode /\ stream[5] = I!Eop
      BY <2>1
    <2>3. Holds(stream, 0, I!SetDevice, <<PageBytes>>)
      BY <2>2 DEF Holds
    <2>4. Fresh(read[3]) /\ Ready(read[3].s, Positive)
      BY <1>10, <2>2, <2>3, ByteAssumption
    <2>5. Holds(stream, 3, I!EnterProgmode, <<>>)
      BY <2>2 DEF Holds
    <2> DEFINE j == 3 + 2 + Len(<<>>)
    <2>6. j = 5 /\ 3 \in Nat /\ Len(<<>>) <= 2 /\ j <= n
          /\ I!PayloadLen(I!EnterProgmode) = Len(<<>>)
      BY <1>2, <2>2, CommandLens
    <2>7. Fresh(read[j]) /\ FixedOutcome(read[j].s, I!EnterProgmode, <<>>, Positive)
      BY <1>2, <2>4, <2>5, <2>6, CommandLens, FixedCommand
    <2> HIDE DEF j
    <2>8. Ready(read[j].s, Positive \o Positive)
          \/ Halted(read[j].s, "ProgrammingEnable", Positive)
      BY <2>7 DEF FixedOutcome
    <2>9. WaitsFor(op) = "ProgrammingEnable" /\ AnsweredBefore(op) = Positive
      BY <1>11 DEF WaitsFor, AnsweredBefore
    <2>10. IspOutcome(read[j].s, op)
      <3>1. IspFormFits(op, Positive \o Positive)
        BY <1>11, FormsThatFit
      <3> QED
        BY <2>8, <2>9, <3>1, FitsOnceReady DEF IspOutcome
    <2> QED
      BY <2>2, <2>6, <2>7, <2>10
  <1>12. CASE op.kind = "Write"
    <2> DEFINE memory == MemoryOf(op)
               data == Data(op)
               j == 3 + 4 + Len(data)
    <2>1. /\ n = op.n + 7 /\ data \in Seq(Nat) /\ Len(data) = op.n
          /\ WordOf(op) \in Nat /\ memory \in Nat
          /\ Holds(stream, 0, I!LoadAddress, <<WordOf(op)>>)
          /\ HoldsPage(stream, 3, I!ProgPage, op.n, memory, data)
      BY <1>12, WriteFrame
    <2> HIDE DEF data
    <2>2. j = n /\ n >= 3 /\ 3 \in Nat /\ j <= n
      BY <1>1, <2>1
    <2>3. Fresh(read[3]) /\ Ready(read[3].s, Positive)
      BY <1>10, <2>1, <2>2
    <2>4. I!ProgPage # I!ReadPage
      BY DEF I!ProgPage, I!ReadPage
    <2>5. Len(data) = IF I!ProgPage = I!ReadPage THEN 0 ELSE op.n
      BY <2>1, <2>4
    <2> HIDE DEF memory
    <2>6. Fresh(read[j]) /\ PageOutcome(read[j].s, I!ProgPage, op.n, memory, Positive)
      BY <1>1, <2>1, <2>2, <2>3, <2>5, PageCommand
    <2>7. /\ memory \in {I!MemFlash, I!MemEeprom} /\ I!MemFlash # I!MemEeprom
          /\ op.n <= MaxPage
          /\ memory = I!MemFlash => op.n % 2 = 0 /\ op.at \in Flash
          /\ memory = I!MemEeprom => op.at \notin Flash
      <3>1. op.n <= MaxPage /\ (op.at \in Flash => op.n % 2 = 0)
        BY <1>12, ToolAssumption
      <3> QED
        BY <3>1 DEF memory, MemoryOf, I!MemFlash, I!MemEeprom
    <2> HIDE DEF j
    <2>8. \/ Ready(read[j].s, Positive \o Positive)
          \/ op.at \in Flash /\ Halted(read[j].s, "ReplyOk", Positive)
          \/ op.at \notin Flash /\ Halted(read[j].s, "EepromNext", Positive)
      <3>1. ~(\/ op.n > MaxPage \/ memory \notin {I!MemFlash, I!MemEeprom}
              \/ memory = I!MemFlash /\ op.n % 2 # 0)
        BY <1>1, <2>7, HostAssumption
      <3> QED
        BY <2>4, <2>6, <2>7, <3>1 DEF PageOutcome
    <2>9. /\ AnsweredBefore(op) = Positive
          /\ WaitsFor(op) = IF op.at \in Flash THEN "ReplyOk" ELSE "EepromNext"
      BY <1>12 DEF WaitsFor, AnsweredBefore
    <2>10. IspOutcome(read[j].s, op)
      <3>1. IspFormFits(op, Positive \o Positive)
        BY <1>12, FormsThatFit
      <3>2. Ready(read[j].s, Positive \o Positive) => IspOutcome(read[j].s, op)
        BY <3>1, FitsOnceReady
      <3> QED
        BY <2>8, <2>9, <3>2 DEF IspOutcome
    <2> QED
      BY <2>2, <2>6, <2>10
  <1>13. CASE op.kind = "Read"
    <2> DEFINE memory == MemoryOf(op)
               j == 3 + 4 + Len(<<>>)
    <2>1. /\ n = 7 /\ WordOf(op) \in Nat /\ memory \in Nat
          /\ Holds(stream, 0, I!LoadAddress, <<WordOf(op)>>)
          /\ HoldsPage(stream, 3, I!ReadPage, op.n, memory, <<>>)
      BY <1>13, ReadFrame
    <2>2. j = n /\ n >= 3 /\ 3 \in Nat /\ j <= n
      BY <1>2, <2>1
    <2>3. Fresh(read[3]) /\ Ready(read[3].s, Positive)
      BY <1>10, <2>1, <2>2
    <2>4. Len(<<>>) = IF I!ReadPage = I!ReadPage THEN 0 ELSE op.n
      BY <1>2
    <2> HIDE DEF memory
    <2>5. Fresh(read[j]) /\ PageOutcome(read[j].s, I!ReadPage, op.n, memory, Positive)
      BY <1>1, <1>2, <2>1, <2>2, <2>3, <2>4, PageCommand
    <2>6. ~(\/ op.n > MaxPage \/ memory \notin {I!MemFlash, I!MemEeprom}
            \/ memory = I!MemFlash /\ op.n % 2 # 0)
      <3>1. op.n <= MaxPage /\ (op.at \in Flash => op.n % 2 = 0)
        BY <1>13, ToolAssumption
      <3> QED
        BY <1>1, <3>1, HostAssumption DEF memory, MemoryOf, I!MemFlash, I!MemEeprom
    <2> HIDE DEF j
    <2>7. PICK c : /\ c = [i \in 1..op.n |-> c[i]]
                   /\ Ready(read[j].s, Positive \o (<<I!Insync>> \o c \o <<I!Ok>>))
      BY <2>5, <2>6 DEF PageOutcome
    <2>8. IspFormFits(op, Positive \o (<<I!Insync>> \o c \o <<I!Ok>>))
      BY <1>1, <1>13, <2>7, FormsThatFit
    <2>9. IspOutcome(read[j].s, op)
      BY <2>7, <2>8, FitsOnceReady
    <2> QED
      BY <2>2, <2>5, <2>9
  <1>14. CASE op.kind = "Oversize"
    <2> DEFINE m == MaxPage + 1
    <2>1. PICK data \in Seq(Nat) :
            /\ Len(data) = MaxPage + 1 /\ Len(IspFrame(op)) = MaxPage + 5
            /\ HoldsPage(IspFrame(op), 0, I!ProgPage, MaxPage + 1, I!MemFlash, data)
      BY <1>14, OversizeFrame
    <2> DEFINE j == 0 + 4 + Len(data)
    <2>2. j = n /\ m \in Nat /\ m > MaxPage /\ 0 \in Nat /\ j <= n
      BY <2>1, HostAssumption
    <2>3. I!ProgPage # I!ReadPage /\ I!MemFlash \in Nat
      BY DEF I!ProgPage, I!ReadPage, I!MemFlash
    <2>4. Len(data) = IF I!ProgPage = I!ReadPage THEN 0 ELSE m
      BY <2>1, <2>3
    <2>5. HoldsPage(stream, 0, I!ProgPage, m, I!MemFlash, data)
      BY <2>1
    <2> HIDE DEF m
    <2>6. Fresh(read[j]) /\ PageOutcome(read[j].s, I!ProgPage, m, I!MemFlash, <<>>)
      BY <2>2, <2>3, <2>4, <2>5, PageCommand
    <2> HIDE DEF j
    <2>7. Ready(read[j].s, <<>> \o <<I!Insync, I!Failed>>)
      BY <2>2, <2>6 DEF PageOutcome
    <2>8. IspFormFits(op, <<>> \o <<I!Insync, I!Failed>>)
      BY <1>14, FormsThatFit
    <2> QED
      BY <2>2, <2>6, <2>7, <2>8, FitsOnceReady
  <1>15. CASE op.kind = "OddRead"
    <2> DEFINE j == 0 + 4 + Len(<<>>)
    <2>1. stream = <<I!ReadPage, 1, I!MemFlash, I!Eop>>
      BY <1>15 DEF IspFrame
    <2>2. /\ n = 4 /\ stream[1] = I!ReadPage /\ stream[2] = 1 /\ stream[3] = I!MemFlash
          /\ stream[4] = I!Eop
      BY <2>1
    <2>3. HoldsPage(stream, 0, I!ReadPage, 1, I!MemFlash, <<>>)
      BY <2>2 DEF HoldsPage, HoldsHeader
    <2>4. j = n /\ 0 \in Nat /\ j <= n /\ I!MemFlash \in Nat /\ 1 \in Nat
      BY <1>2, <2>2 DEF I!MemFlash
    <2>5. Len(<<>>) = IF I!ReadPage = I!ReadPage THEN 0 ELSE 1
      BY <1>2
    <2>6. Fresh(read[j]) /\ PageOutcome(read[j].s, I!ReadPage, 1, I!MemFlash, <<>>)
      BY <1>2, <2>3, <2>4, <2>5, PageCommand
    <2> HIDE DEF j
    <2>7. Ready(read[j].s, <<>> \o <<I!Insync, I!Failed>>)
      <3>1. 1 % 2 # 0
        OBVIOUS
      <3> QED
        BY <2>6, <3>1 DEF PageOutcome
    <2>8. IspFormFits(op, <<>> \o <<I!Insync, I!Failed>>)
      BY <1>15, FormsThatFit
    <2> QED
      BY <2>4, <2>6, <2>7, <2>8, FitsOnceReady
  <1>16. CASE op.kind = "Strange"
    <2>1. stream = <<1, I!Eop>>
      BY <1>16 DEF IspFrame
    <2>2. n = 2 /\ stream[1] = 1 /\ stream[2] = I!Eop
      BY <2>1
    <2> DEFINE s == read[0].s
               t == [s EXCEPT !.phase = "UnknownEop"]
    <2>3. Fresh(read[0 + 1]) /\ read[0 + 1].s = I!Accept(s, stream[0 + 1])
      <3>1. 0 \in Nat /\ 0 < n /\ s.after = "None"
        BY <2>2 DEF Ready
      <3> QED
        BY <3>1, TakesAByte
    <2>4. I!Accept(s, 1) = t
      <3>1. I!PayloadLen(1) < 0 /\ 1 \notin {I!Eop, I!ProgPage, I!ReadPage}
        BY DEF I!PayloadLen, I!GetSync, I!GetSignOn, I!EnterProgmode, I!LeaveProgmode,
               I!ChipErase, I!CheckAutoinc, I!ReadSign, I!GetParameter, I!ProgData,
               I!SetDevice, I!LoadAddress, I!SetParameter, I!ProgFlash, I!Universal,
               I!SetDeviceExt, I!ProgPage, I!ReadPage, I!Eop
      <3> QED
        BY <3>1 DEF I!Accept, I!TakeCommand, Ready
    <2>5. IspForm(t) /\ t.after = "None" /\ t.out = <<>> /\ t.phase = "UnknownEop"
      BY DEF Ready, IspForm, IspFields, IspPhases
    <2> HIDE DEF t
    <2>6. Fresh(read[1]) /\ read[1].s = t
      BY <2>2, <2>3, <2>4
    <2>7. Fresh(read[1 + 1]) /\ read[1 + 1].s = I!Accept(t, stream[1 + 1])
      <3>1. 1 \in Nat /\ 1 < n /\ read[1].s.after = "None"
        BY <2>2, <2>5, <2>6
      <3> QED
        BY <2>6, <3>1, TakesAByte
    <2>8. Fresh(read[2]) /\ read[2].s = I!Idle(I!Write(t, <<I!Unknown>>))
      BY <2>2, <2>5, <2>7 DEF I!Accept
    <2>9. Ready(read[2].s, <<>> \o <<I!Unknown>>)
      <3>1. Given(t, <<>>)
        BY <2>5 DEF Given
      <3> QED
        BY <2>8, <3>1, GivenReplies
    <2>10. IspFormFits(op, <<>> \o <<I!Unknown>>)
      <3>1. <<>> \o <<I!Unknown>> = <<I!Unknown>>
        BY DEF I!Unknown
      <3> QED
        BY <1>16, <3>1 DEF IspFormFits, IspFits, IspGood
    <2> QED
      BY <2>2, <2>8, <2>9, <2>10, FitsOnceReady
  <1> QED
    BY <1>1, <1>4, <1>5, <1>6, <1>7, <1>8, <1>9, <1>11, <1>12, <1>13, <1>14, <1>15, <1>16
    DEF IspKinds

\* A wait that is over: it is answered, or there is another of the same kind.
LEMMA WaitIsOver ==
  ASSUME NEW op, NEW s, WaitsFor(op) # "None",
         Halted(s, WaitsFor(op), AnsweredBefore(op)), NEW hears
  PROVE  IspOutcome(I!Continue(s, hears), op)
  <1> DEFINE woken == [s EXCEPT !.after = "None"]
             o == AnsweredBefore(op)
             t == I!Continue(s, hears)
  <1>1. Given(woken, o) /\ (s.after = "ProgrammingEnable" => woken.spi)
    BY DEF Halted, Given, IspForm, IspFields, IspWaits
  <1>2. t = CASE s.after = "None" -> s
              [] s.after = "ProgrammingEnable" -> I!TryProgrammingEnable(woken, hears)
              [] s.after = "ReplyOk" -> I!ReplyOk(woken)
              [] s.after = "ReplyEraseByte" ->
                   I!Idle(I!Write(woken, <<I!Insync, I!Filler, I!Ok>>))
              [] s.after = "EepromNext" -> I!ProgramNextEepromByte(woken)
    BY DEF I!Continue
  <1>3. s.after = WaitsFor(op)
    BY DEF Halted
  <1> HIDE DEF woken, o, t
  <1>4. ASSUME op.kind = "Setup" PROVE IspOutcome(t, op)
    <2>1. WaitsFor(op) = "ProgrammingEnable" /\ o = Positive
      BY <1>4 DEF WaitsFor, AnsweredBefore, o
    <2>2. t = I!TryProgrammingEnable(woken, hears)
      BY <1>2, <1>3, <2>1
    <2>3. \/ Ready(t, Positive \o Positive)
          \/ Ready(t, Positive \o <<I!Insync, I!Failed>>)
          \/ Halted(t, "ProgrammingEnable", Positive)
      BY <1>1, <1>3, <2>1, <2>2, GivenTries
    <2>4. /\ IspFormFits(op, Positive \o Positive)
          /\ IspFormFits(op, Positive \o <<I!Insync, I!Failed>>)
      BY <1>4, FormsThatFit
    <2>5. \A p : Ready(t, p) /\ IspFormFits(op, p) => IspOutcome(t, op)
      BY FitsOnceReady
    <2>6. CASE Halted(t, "ProgrammingEnable", Positive)
      BY <2>1, <2>6 DEF IspOutcome, o
    <2> QED
      BY <2>3, <2>4, <2>5, <2>6
  <1>5. ASSUME op.kind = "Erase" PROVE IspOutcome(t, op)
    <2>1. WaitsFor(op) = "ReplyOk" /\ o = <<>>
      BY <1>5 DEF WaitsFor, AnsweredBefore, o
    <2>2. t = I!ReplyOk(woken)
      BY <1>2, <1>3, <2>1
    <2>3. Ready(t, <<>> \o Positive)
      BY <1>1, <2>1, <2>2, GivenReplies
    <2> QED
      BY <1>5, <2>3, FormsThatFit, FitsOnceReady
  <1>6. ASSUME op.kind = "UniversalErase" PROVE IspOutcome(t, op)
    <2>1. WaitsFor(op) = "ReplyEraseByte" /\ o = <<>>
      BY <1>6 DEF WaitsFor, AnsweredBefore, o
    <2> DEFINE a == <<I!Insync, I!Filler, I!Ok>>
    <2>2. t = I!Idle(I!Write(woken, a))
      BY <1>2, <1>3, <2>1
    <2>3. IspFormFits(op, <<>> \o a)
      BY <1>6, FormsThatFit
    <2> HIDE DEF a
    <2>4. Ready(t, <<>> \o a)
      BY <1>1, <2>1, <2>2, GivenReplies
    <2> QED
      BY <2>3, <2>4, FitsOnceReady
  <1>7. ASSUME op.kind = "Write", op.at \in Flash PROVE IspOutcome(t, op)
    <2>1. WaitsFor(op) = "ReplyOk" /\ o = Positive
      BY <1>7 DEF WaitsFor, AnsweredBefore, o
    <2>2. t = I!ReplyOk(woken)
      BY <1>2, <1>3, <2>1
    <2>3. Ready(t, Positive \o Positive)
      BY <1>1, <2>1, <2>2, GivenReplies
    <2>4. IspFormFits(op, Positive \o Positive)
      BY <1>7, FormsThatFit
    <2> QED
      BY <2>3, <2>4, FitsOnceReady
  <1>8. ASSUME op.kind = "Write", op.at \notin Flash PROVE IspOutcome(t, op)
    <2>1. WaitsFor(op) = "EepromNext" /\ o = Positive
      BY <1>8 DEF WaitsFor, AnsweredBefore, o
    <2>2. t = I!ProgramNextEepromByte(woken)
      BY <1>2, <1>3, <2>1
    <2>3. Ready(t, Positive \o Positive) \/ Halted(t, "EepromNext", Positive)
      BY <1>1, <2>1, <2>2, GivenNextByte
    <2>4. IspFormFits(op, Positive \o Positive)
      BY <1>8, FormsThatFit
    <2>5. \A p : Ready(t, p) /\ IspFormFits(op, p) => IspOutcome(t, op)
      BY FitsOnceReady
    <2>6. CASE Halted(t, "EepromNext", Positive)
      BY <2>1, <2>6 DEF IspOutcome, o
    <2> QED
      BY <2>3, <2>4, <2>5, <2>6
  <1>9. op.kind \in {"Setup", "Erase", "UniversalErase", "Write"}
    BY DEF WaitsFor
  <1>10. IspOutcome(t, op)
    BY <1>4, <1>5, <1>6, <1>7, <1>8, <1>9
  <1> QED
    BY <1>10 DEF t

\* The two passes of IspProgrammer::update that matter: the one that finds a
\* command at the port, and the one that finds a wait run out and an empty port.
LEMMA CommandIsAnswered ==
  ASSUME programmer = "Isp", NEW op \in IspOps, NEW s, Ready(s, <<>>), NEW hears
  PROVE  LET done == I!Update(s, IspFrame(op), hears)
         IN done.rest = <<>> /\ IspOutcome(done.s, op)
  <1> DEFINE stream == IspFrame(op)
             n == Len(stream)
             first == [s |-> I!Continue(s, hears), rest |-> <<>>]
             read == CHOOSE g : IspReads(g, first, stream, n)
  <1>1. I!Update(s, stream, hears) = read[n]
    BY DEF I!Update, IspReads
  <1>2. n \in Nat
    <2>1. IspFrame(op) \in Seq(Nat)
      BY FramesAreBytes DEF Frame
    <2> QED
      BY <2>1
  <1>3. IspReads(read, first, stream, n)
    BY <1>2, IspReadingExists
  <1>4. I!Continue(s, hears) = s
    BY DEF I!Continue, Ready
  <1>5. Fresh(first) /\ first.s = s
    BY <1>4 DEF Fresh
  <1> HIDE DEF first, read, stream, n
  <1>6. read[0] = first
    BY <1>2, <1>3 DEF IspReads
  <1>7. Fresh(read[0]) /\ Ready(read[0].s, <<>>) /\ stream = IspFrame(op) /\ n = Len(stream)
    BY <1>5, <1>6 DEF stream, n
  <1>8. Fresh(read[n]) /\ IspOutcome(read[n].s, op)
    BY <1>2, <1>3, <1>7, CommandIsRead
  <1> QED
    BY <1>1, <1>8 DEF Fresh, stream

LEMMA WaitIsAnswered ==
  ASSUME NEW op, NEW s, WaitsFor(op) # "None",
         Halted(s, WaitsFor(op), AnsweredBefore(op)), NEW hears
  PROVE  LET done == I!Update(s, <<>>, hears)
         IN done.rest = <<>> /\ IspOutcome(done.s, op)
  <1> DEFINE first == [s |-> I!Continue(s, hears), rest |-> <<>>]
             read == CHOOSE g : IspReads(g, first, <<>>, 0)
  <1>1. I!Update(s, <<>>, hears) = read[0]
    <2>1. Len(<<>>) = 0
      OBVIOUS
    <2> QED
      BY <2>1 DEF I!Update, IspReads
  <1>2. IspReads(read, first, <<>>, 0)
    <2>1. 0 \in Nat
      OBVIOUS
    <2> QED
      BY <2>1, IspReadingExists
  <1> HIDE DEF read
  <1>3. read[0] = first
    BY <1>2 DEF IspReads
  <1> QED
    BY <1>1, <1>3, WaitIsOver

-----------------------------------------------------------------------------
(* Host and programmer in step.  Between two sessions nothing of a command  *)
(* or of an answer is left, so that a session starts in step; and within    *)
(* one they stay so for as long as no tool is cut short in the middle of a  *)
(* command.                                                                *)

RawOf(seq, op) == <<U!StartMark, seq, Len(UpdiBody(op)), U!Token>> \o UpdiBody(op)

\* What is at the port, and in the programmer, for the command the host waits
\* for: the command is still to be read, or it has been and is being answered.
IspStep(op, stream, s) ==
  IF op = NoOp
    THEN stream = <<>> /\ Ready(s, <<>>)
    ELSE /\ op \in IspOps
         /\ \/ stream = IspFrame(op) /\ stream # <<>> /\ Ready(s, <<>>)
            \/ stream = <<>> /\ IspOutcome(s, op)

UpdiStep(op, seq, stream, s) ==
  IF op = NoOp
    THEN stream = <<>> /\ Answered(s) /\ s.out = <<>>
    ELSE /\ op \in UpdiOps
         /\ \/ /\ stream = U!Frame(seq, UpdiBody(op)) /\ stream # <<>>
               /\ Answered(s) /\ s.out = <<>>
            \/ stream = <<>> /\ Told(s, RawOf(seq, op), Statuses(op))
            \/ /\ stream = <<>> /\ PendingOf(op) # "None"
               /\ Deferred(s, RawOf(seq, op), PendingOf(op))

InStep ==
  /\ programmer = "Isp" => IspStep(host.op, input, isp)
  /\ programmer = "Updi" => UpdiStep(host.op, host.seq, input, updi)

\* A programmer that is not in a session has nothing to say and nothing to read.
RestsInv ==
  /\ BuffersInv /\ FramesInv
  /\ programmer # "Isp" => Ready(isp, <<>>)
  /\ programmer # "Updi" => updi.out = <<>>
  /\ programmer = "None" => host.op = NoOp

LEMMA IspStaysReady ==
  /\ \A board : Ready(I!Programmer(board), <<>>)
  /\ \A s : IspForm(s) => Ready([I!Shutdown(s) EXCEPT !.out = <<>>], <<>>)
  /\ \A s, o : Ready(s, o) =>
       /\ Ready(I!Start(s), o)
       /\ \A x : Ready([s EXCEPT !.board = x], o)
       /\ Ready([s EXCEPT !.out = <<>>], <<>>)
  <1>1. ASSUME NEW board PROVE Ready(I!Programmer(board), <<>>)
    <2> DEFINE t == I!Programmer(board)
    <2>1. IspForm(t)
      BY IspStarts
    <2>2. t.after = "None" /\ t.out = <<>> /\ t.phase = "Command" /\ Cleared(t)
      BY DEF I!Programmer, Cleared
    <2> HIDE DEF t
    <2>3. Ready(t, <<>>)
      BY <2>1, <2>2 DEF Ready
    <2> QED
      BY <2>3 DEF t
  <1>2. ASSUME NEW s, IspForm(s)
        PROVE  Ready([I!Shutdown(s) EXCEPT !.out = <<>>], <<>>)
    <2> DEFINE low == I!DriveReset(s, "Pullup")
               t == I!Idle(low)
               u == I!Shutdown(s)
               v == [u EXCEPT !.out = <<>>]
    <2>1. IspForm(low)
      BY <1>2, IspParts
    <2> HIDE DEF low
    <2>2. IspForm(t) /\ t.phase = "Command" /\ Cleared(t)
      <3>1. IspForm(t)
        BY <2>1, IspParts
      <3>2. t.phase = "Command" /\ Cleared(t)
        BY <2>1 DEF I!Idle, IspForm, IspFields, Cleared
      <3> QED
        BY <3>1, <3>2
    <2>3. u = [t EXCEPT !.spi = FALSE, !.programming = FALSE, !.after = "None"]
      BY DEF I!Shutdown, low
    <2>4. IspForm(u) /\ u.after = "None"
      BY <1>2, IspRests DEF IspReleased
    <2> HIDE DEF t, u
    <2>5. u.phase = "Command" /\ Cleared(u)
      BY <2>2, <2>3 DEF IspForm, IspFields, Cleared
    <2>6. IspForm(v) /\ v.after = "None" /\ v.out = <<>> /\ v.phase = "Command" /\ Cleared(v)
      BY <2>4, <2>5 DEF IspForm, IspFields, Cleared
    <2> HIDE DEF v
    <2>7. Ready(v, <<>>)
      BY <2>6 DEF Ready
    <2> QED
      BY <2>7 DEF v, u
  <1>3. ASSUME NEW s, NEW o, Ready(s, o), NEW x
        PROVE  /\ Ready([s EXCEPT !.board = x], o)
               /\ Ready([s EXCEPT !.out = <<>>], <<>>)
    BY <1>3 DEF Ready, IspForm, IspFields, Cleared
  <1>4. ASSUME NEW s, NEW o, Ready(s, o) PROVE Ready(I!Start(s), o)
    <2> DEFINE t == I!DriveReset(s, "High")
    <2>1. IspForm(t) /\ t.after = "None"
      BY <1>4, IspParts DEF Ready
    <2>2. t.out = o /\ t.phase = "Command" /\ Cleared(t)
      BY <1>4 DEF I!DriveReset, Ready, IspForm, IspFields, Cleared
    <2> HIDE DEF t
    <2>3. Ready(t, o)
      BY <2>1, <2>2 DEF Ready
    <2> QED
      BY <2>3 DEF I!Start, t
  <1> QED
    BY <1>1, <1>2, <1>3, <1>4

LEMMA UpdiStaysSilent ==
  /\ \A board : U!Programmer(board).out = <<>>
  /\ \A s : UpdiForm(s) =>
       /\ U!Shutdown(s).out = s.out /\ U!Start(s).out = s.out
       /\ U!BeginLinkCheck(s).out = s.out
       /\ \A x : [s EXCEPT !.board = x].out = s.out
       /\ [s EXCEPT !.out = <<>>].out = <<>>
       /\ s.brk # "Idle" => \A fault : U!PollLinkCheck(s, fault).out = s.out
  <1>1. \A board : U!Programmer(board).out = <<>>
    BY DEF U!Programmer
  <1>2. ASSUME NEW s, UpdiForm(s)
        PROVE  /\ U!Shutdown(s).out = s.out /\ U!Start(s).out = s.out
               /\ \A x : [s EXCEPT !.board = x].out = s.out
               /\ [s EXCEPT !.out = <<>>].out = <<>>
    BY <1>2 DEF U!Shutdown, U!Start, UpdiForm, UpdiFields
  <1>3. ASSUME NEW s, UpdiForm(s) PROVE U!BeginLinkCheck(s).out = s.out
    BY <1>3 DEF U!BeginLinkCheck, U!StartBreak, UpdiForm, UpdiFields
  <1>4. ASSUME NEW s, UpdiForm(s), s.brk # "Idle", NEW fault
        PROVE  U!PollLinkCheck(s, fault).out = s.out
    <2> DEFINE advanced == U!AdvanceBreak(s)
               moved == [advanced EXCEPT !.fault = fault]
               over == U!FinishLinkCheck(moved)
               done == IF moved.brk = "Idle" THEN over ELSE moved
    <2>1. UpdiForm(advanced) /\ advanced.out = s.out
      BY <1>4, UpdiBreaksOn
    <2> HIDE DEF advanced
    <2>2. UpdiForm(moved) /\ moved.out = s.out
      BY <2>1, UpdiRests DEF UpdiForm, UpdiFields
    <2> HIDE DEF moved
    <2>3. UpdiForm(over) /\ over.out = s.out
      <3>1. \A w : UpdiForm(U!Keep(moved, w)) /\ U!Keep(moved, w).out = moved.out
        BY <2>2, UpdiRests DEF U!Keep, UpdiForm, UpdiFields
      <3>2. ASSUME NEW w
            PROVE  /\ UpdiForm(U!Shutdown(U!Keep(moved, w)))
                   /\ U!Shutdown(U!Keep(moved, w)).out = moved.out
        <4> DEFINE kept == U!Keep(moved, w)
        <4>1. UpdiForm(kept) /\ kept.out = moved.out
          BY <3>1
        <4> HIDE DEF kept
        <4>2. UpdiForm(U!Shutdown(kept))
          BY <4>1, UpdiRests DEF UpdiReleased
        <4>3. U!Shutdown(kept).out = kept.out
          BY <1>2, <4>1
        <4> QED
          BY <4>1, <4>2, <4>3 DEF kept
      <3> QED
        BY <2>2, <3>2 DEF U!FinishLinkCheck
    <2> HIDE DEF over
    <2>4. UpdiForm(done) /\ done.out = s.out
      BY <2>2, <2>3
    <2> HIDE DEF done
    <2>5. [done EXCEPT !.fault = U!NoFault].out = done.out
      BY <2>4 DEF UpdiForm, UpdiFields
    <2> QED
      BY <2>4, <2>5 DEF U!PollLinkCheck, done, over, moved, advanced
  <1> QED
    BY <1>1, <1>2, <1>3, <1>4

LEMMA HostForgets ==
  /\ \A sure : NewRun(sure).op = NoOp
  /\ \A sure, wary : [NewRun(sure) EXCEPT !.wary = wary].op = NoOp
  /\ Abandoned.op = NoOp
  /\ HostForm(host) => \A op : Learned(op).op = NoOp
  <1>1. \A sure : NewRun(sure).op = NoOp /\ HostForm(NewRun(sure))
    BY HostForms DEF NewRun
  <1>2. \A h, x : HostForm(h) => [h EXCEPT !.wary = x].op = h.op
    BY DEF HostForm, HostFields
  <1>3. \A sure, wary : [NewRun(sure) EXCEPT !.wary = wary].op = NoOp
    BY <1>1, <1>2
  <1>4. Abandoned.op = NoOp
    BY <1>3 DEF Abandoned
  <1>5. ASSUME HostForm(host), NEW op PROVE Learned(op).op = NoOp
    <2>1. \A h, a, b, c, d, e :
            HostForm(h) => [h EXCEPT !.sync = a, !.sure = b, !.wary = c, !.ready = d,
                                     !.entered = e].op = h.op
      BY DEF HostForm, HostFields
    <2> DEFINE seq == IF programmer = "Updi" THEN 1 - host.seq ELSE host.seq
               told == [host EXCEPT !.op = NoOp, !.seq = seq]
    <2>0. seq \in 0..1
      BY <1>5 DEF HostForm
    <2>1a. told = [host EXCEPT !.op = NoOp, !.seq = IF programmer = "Updi" THEN 1 - @ ELSE @]
      BY <1>5 DEF HostForm, HostFields
    <2> HIDE DEF seq
    <2>2. HostForm(told) /\ told.op = NoOp
      BY <1>5, <2>0 DEF HostForm, HostFields
    <2> DEFINE sure == CASE op.kind \in {"Erase", "UniversalErase", "ErasePage"} ->
                              Mark(host.sure, Touched(op), "Blank")
                         [] op.kind = "Write" -> Mark(host.sure, Touched(op), "Written")
                         [] OTHER -> host.sure
               wary == told.wary /\ op.kind # "Erase"
               ready == told.ready \/ op.kind = "Setup"
               entered == \/ op.kind = "Enter"
                          \/ op.kind = "Setup" /\ programmer = "Isp"
                          \/ told.entered
                               /\ op.kind \notin {"Setup", "Leave", "Go", "SignOff"}
                               /\ ~(op.kind = "Erase" /\ programmer = "Updi")
               good == [told EXCEPT !.sync = TRUE, !.sure = sure, !.wary = wary,
                                    !.ready = ready, !.entered = entered]
    <2>3. Learned(op) = CASE ~Good(op) /\ op.kind = "Sync" -> told
                          [] ~Good(op) /\ op.kind # "Sync" -> Abandoned
                          [] OTHER -> good
      BY <2>1a, <2>2 DEF Learned, HostForm, HostFields
    <2> HIDE DEF told, sure, wary, ready, entered
    <2>4. good.op = NoOp
      BY <2>1, <2>2
    <2> HIDE DEF good
    <2>5. Learned(op) \in {told, Abandoned, good}
      BY <2>3
    <2> QED
      BY <1>4, <2>2, <2>4, <2>5
  <1> QED
    BY <1>1, <1>3, <1>4, <1>5

LEMMA RestsInitially == ProgrammingInit => RestsInv
  <1>1. Ready(I!Programmer(IspTarget), <<>>)
    BY IspStaysReady
  <1>2. U!Programmer(UpdiTarget(FALSE)).out = <<>>
    BY UpdiStaysSilent
  <1>3. NewRun(Unsure).op = NoOp
    BY HostForgets
  <1>4. ProgrammingInit => Ready(isp, <<>>) /\ updi.out = <<>> /\ host.op = NoOp
    BY <1>1, <1>2, <1>3 DEF ProgrammingInit
  <1> QED
    BY <1>4, BuffersInitially, FramesInitially DEF RestsInv

\* A new session finds both programmers at rest.
LEMMA BeginKeepsRest ==
  ASSUME RestsInv, FramesInv', NEW method \in {"Isp", "Updi"}, NEW lock \in BOOLEAN,
         Begin(method, lock)
  PROVE  /\ Ready(isp', <<>>) /\ updi'.out = <<>>
         /\ programmer' = method /\ input' = <<>> /\ host'.op = NoOp
         /\ method = "Updi" => Answered(updi')
  <1> DEFINE released == IF checkActive THEN U!Shutdown(updi) ELSE updi
             swapped == jumpered # method
             ispHere == IF swapped THEN [isp EXCEPT !.board = IspTarget] ELSE isp
             updiHere == IF swapped THEN [released EXCEPT !.board = UpdiTarget(lock)]
                                    ELSE released
  <1>1. /\ programmer = "None" /\ Ready(isp, <<>>) /\ updi.out = <<>>
        /\ UpdiForm(updi) /\ Empty(updi)
    BY DEF RestsInv, FramesInv, WiresInv, Begin
  <1>2. Ready(ispHere, <<>>)
    BY <1>1, IspStaysReady
  <1>3. UpdiReleased(released) /\ released.out = <<>> /\ Empty(released)
    BY <1>1, UpdiRests, UpdiStaysSilent, EmptyRests DEF RestsInv, FramesInv, WiresInv, Begin
  <1>4. UpdiForm(released)
    BY <1>3 DEF UpdiReleased
  <1> HIDE DEF released
  <1>5. UpdiReleased(updiHere) /\ updiHere.out = <<>> /\ Empty(updiHere)
    <2>1. \A x : /\ UpdiReleased([released EXCEPT !.board = x])
                 /\ [released EXCEPT !.board = x].out = released.out
                 /\ Empty([released EXCEPT !.board = x])
      BY <1>3, <1>4, UpdiStaysReleased, UpdiStaysSilent, EmptyRests
    <2> QED
      BY <1>3, <2>1
  <1>6. /\ programmer' = method /\ input' = <<>>
        /\ isp' = IF method = "Isp" THEN I!Start(ispHere) ELSE ispHere
        /\ updi' = IF method = "Updi" THEN U!Start(updiHere) ELSE updiHere
    BY DEF Begin, released
  <1>7. host'.op = NoOp
    BY HostForgets DEF Begin
  <1> HIDE DEF ispHere, updiHere
  <1>8. Ready(isp', <<>>)
    BY <1>2, <1>6, IspStaysReady
  <1>9. UpdiForm(updiHere)
    BY <1>5 DEF UpdiReleased
  <1>10. updi'.out = <<>>
    BY <1>5, <1>6, <1>9, UpdiStaysSilent
  <1>11. ASSUME method = "Updi" PROVE Answered(updi')
    <2>1. Empty(updi') /\ updi'.brk = "Idle"
      BY <1>5, <1>6, <1>9, <1>11, EmptyRests DEF UpdiReleased
    <2>2. OnTheWire(updi')
      BY <1>6, <1>11 DEF FramesInv, WiresInv
    <2> QED
      BY <2>1, <2>2 DEF Answered, AtHand, Empty
  <1> QED
    BY <1>6, <1>7, <1>8, <1>10, <1>11

LEMMA EndKeepsRest ==
  ASSUME RestsInv, End
  PROVE  Ready(isp', <<>>) /\ updi'.out = <<>> /\ host'.op = NoOp /\ programmer' = "None"
  <1>1. Ready([I!Shutdown(isp) EXCEPT !.out = <<>>], <<>>)
    BY IspStaysReady DEF RestsInv, BuffersInv, WiresInv
  <1>2. [U!Shutdown(updi) EXCEPT !.out = <<>>].out = <<>>
    <2>1. UpdiForm(U!Shutdown(updi))
      BY UpdiRests DEF RestsInv, BuffersInv, WiresInv, UpdiReleased
    <2> QED
      BY <2>1, UpdiStaysSilent
  <1> QED
    BY <1>1, <1>2, HostForgets DEF End, RestsInv

LEMMA ResetKeepsRest ==
  ASSUME RestsInv, FramesInv', ResetController
  PROVE  /\ Ready(isp', <<>>) /\ updi'.out = <<>> /\ input' = <<>> /\ host'.op = NoOp
         /\ programmer' = programmer
         /\ programmer = "Updi" => Answered(updi')
  <1>1. \A board : Ready(I!Programmer(board), <<>>) /\ Ready(I!Start(I!Programmer(board)), <<>>)
    BY IspStaysReady
  <1>2. ASSUME NEW board
        PROVE  /\ U!Programmer(board).out = <<>> /\ U!Start(U!Programmer(board)).out = <<>>
               /\ Answered(U!Start(U!Programmer(board)))
    <2> DEFINE s == U!Programmer(board)
    <2>1. UpdiReleased(s) /\ UpdiForm(s) /\ s.out = <<>> /\ Empty(s) /\ OnTheWire(U!Start(s))
      BY UpdiStarts, UpdiStaysSilent, FreshFrames DEF UpdiReleased
    <2> HIDE DEF s
    <2>2. /\ U!Start(s).out = <<>> /\ Empty(U!Start(s)) /\ U!Start(s).brk = "Idle"
      BY <2>1, UpdiStaysSilent, EmptyRests DEF UpdiReleased
    <2>3. Answered(U!Start(s))
      BY <2>1, <2>2 DEF Answered, AtHand, Empty
    <2> QED
      BY <2>1, <2>2, <2>3 DEF s
  <1>3. /\ input' = <<>> /\ host'.op = NoOp /\ programmer' = programmer
    BY HostForgets DEF ResetController
  <1> QED
    BY <1>1, <1>2, <1>3 DEF ResetController

LEMMA RestsNext == RestsInv /\ [ProgrammingNext]_programmingVars => RestsInv'
  <1> SUFFICES ASSUME RestsInv, [ProgrammingNext]_programmingVars PROVE RestsInv'
    OBVIOUS
  <1>1. BuffersInv' /\ FramesInv'
    BY BuffersNext, FramesNext DEF RestsInv
  <1> SUFFICES /\ programmer' # "Isp" => Ready(isp', <<>>)
               /\ programmer' # "Updi" => updi'.out = <<>>
               /\ programmer' = "None" => host'.op = NoOp
    BY <1>1 DEF RestsInv
  <1>2. CASE \E method \in {"Isp", "Updi"}, lock \in BOOLEAN : Begin(method, lock)
    BY <1>1, <1>2, BeginKeepsRest
  <1>3. CASE End
    BY <1>3, EndKeepsRest
  <1>4. CASE ResetController
    BY <1>1, <1>4, ResetKeepsRest DEF RestsInv
  <1>5. CASE StartUpdiCheck
    BY <1>5, UpdiStaysSilent DEF StartUpdiCheck, RestsInv, FramesInv, WiresInv
  <1>6. CASE PollUpdiCheck
    <2>1. PICK fault \in Faults : updi' = U!PollLinkCheck(updi, fault)
      BY <1>6 DEF PollUpdiCheck
    <2>2. updi'.out = updi.out
      BY <1>6, <2>1, UpdiStaysSilent DEF PollUpdiCheck, RestsInv, FramesInv, WiresInv
    <2> QED
      BY <1>6, <2>2 DEF PollUpdiCheck, RestsInv
  <1>7. CASE IspUpdate
    BY <1>7 DEF IspUpdate, IspDue, RestsInv
  <1>8. CASE UpdiUpdate
    BY <1>8 DEF UpdiUpdate, UpdiDue, RestsInv
  <1>9. CASE HostNext
    <2>1. programmer # "None" /\ programmer' = programmer
      BY <1>9 DEF HostNext, Send, Interrupt, Take, Drain, Quiet
    <2>2. \/ isp' = isp /\ updi' = updi
          \/ isp' = [isp EXCEPT !.out = <<>>] /\ updi' = [updi EXCEPT !.out = <<>>]
      BY <1>9 DEF HostNext, Send, Interrupt, Take, Drain
    <2>3. UpdiForm(updi)
      BY DEF RestsInv, FramesInv, WiresInv
    <2> QED
      BY <2>1, <2>2, <2>3, IspStaysReady, UpdiStaysSilent DEF RestsInv
  <1>10. CASE ResetTarget
    <2>1. UpdiForm(updi)
      BY DEF RestsInv, FramesInv, WiresInv
    <2>2. updi'.out = updi.out /\ host'.op = NoOp /\ UNCHANGED <<programmer, isp>>
      BY <1>10, <2>1, UpdiStaysSilent, HostForgets DEF ResetTarget
    <2> QED
      BY <2>2 DEF RestsInv
  <1>11. CASE UNCHANGED programmingVars
    BY <1>11 DEF programmingVars, RestsInv
  <1> QED
    BY <1>2, <1>3, <1>4, <1>5, <1>6, <1>7, <1>8, <1>9, <1>10, <1>11 DEF ProgrammingNext

\* The tool is cut short in the middle of a command.
CutShort == \E op \in IspOps \union UpdiOps : Interrupt(op)

LEMMA FramesHaveBytes ==
  /\ \A op \in IspOps : op # NoOp /\ IspFrame(op) # <<>>
  /\ host.seq \in Nat => \A op \in UpdiOps :
       op # NoOp /\ U!Frame(host.seq, UpdiBody(op)) # <<>>
  <1>1. ASSUME NEW op \in IspOps PROVE op # NoOp
    BY HostAssumption DEF NoOp, IspKinds
  <1>2. ASSUME NEW op \in UpdiOps PROVE op # NoOp
    BY HostAssumption DEF NoOp, UpdiKinds
  <1>3. ASSUME NEW op \in IspOps PROVE IspFrame(op) # <<>>
    <2>1. op.kind \in IspKinds /\ op.n \in Nat /\ MaxPage \in Nat
      BY HostAssumption
    <2>2. ASSUME op.kind \notin {"Write", "Read", "Oversize"} PROVE IspFrame(op) # <<>>
      BY <2>1, <2>2 DEF IspFrame, IspKinds
    <2>3. ASSUME op.kind = "Write" PROVE IspFrame(op) # <<>>
      <3>1. Len(IspFrame(op)) = op.n + 7
        BY <2>3, WriteFrame
      <3>2. Len(<<>>) = 0 /\ op.n + 7 # 0
        BY <2>1
      <3> QED
        BY <3>1, <3>2
    <2>4. ASSUME op.kind = "Read" PROVE IspFrame(op) # <<>>
      <3>1. Len(IspFrame(op)) = 7
        BY <2>4, ReadFrame
      <3>2. Len(<<>>) = 0
        OBVIOUS
      <3> QED
        BY <3>1, <3>2
    <2>5. ASSUME op.kind = "Oversize" PROVE IspFrame(op) # <<>>
      <3>1. Len(IspFrame(op)) = MaxPage + 5
        BY <2>5, OversizeFrame
      <3>2. Len(<<>>) = 0 /\ MaxPage + 5 # 0
        BY <2>1
      <3> QED
        BY <3>1, <3>2
    <2> QED
      BY <2>2, <2>3, <2>4, <2>5
  <1>4. ASSUME host.seq \in Nat, NEW op \in UpdiOps
        PROVE  U!Frame(host.seq, UpdiBody(op)) # <<>>
    <2> DEFINE raw == Bare(op)
               crc == U!Checksum(raw)
    <2>1. raw \in Seq(Nat) /\ U!Frame(host.seq, UpdiBody(op)) = Append(raw, crc)
      BY <1>4, BareForm
    <2>2. crc \in Nat
      BY <2>1, ChecksumIsAByte
    <2> DEFINE long == Append(raw, crc)
    <2> HIDE DEF raw, crc
    <2>3. Len(long) = Len(raw) + 1
      BY <2>1, <2>2, AppendProperties
    <2> HIDE DEF long
    <2>4. Len(raw) \in Nat /\ Len(<<>>) = 0
      BY <2>1
    <2>5. long # <<>>
      BY <2>3, <2>4
    <2> QED
      BY <2>1, <2>5 DEF long
  <1> QED
    BY <1>1, <1>2, <1>3, <1>4

LEMMA IspUpdateKeepsStep ==
  ASSUME RestsInv, InStep, IspUpdate
  PROVE  IspStep(host.op, input', isp') /\ programmer = "Isp"
  <1>1. /\ programmer = "Isp" /\ IspStep(host.op, input, isp)
        /\ input # <<>> \/ isp.after # "None"
    BY DEF IspUpdate, IspDue, InStep, I!Waiting
  <1>2. PICK hears \in BOOLEAN : /\ isp' = I!Update(isp, input, hears).s
                                 /\ input' = I!Update(isp, input, hears).rest
    BY DEF IspUpdate
  <1> DEFINE op == host.op
  <1>3. op # NoOp /\ op \in IspOps
    BY <1>1 DEF IspStep, Ready
  <1> HIDE DEF op
  <1>4. CASE input = IspFrame(op) /\ Ready(isp, <<>>)
    <2>1. LET done == I!Update(isp, IspFrame(op), hears)
          IN done.rest = <<>> /\ IspOutcome(done.s, op)
      BY <1>1, <1>3, <1>4, CommandIsAnswered
    <2>2. input' = <<>> /\ IspOutcome(isp', op)
      BY <1>2, <1>4, <2>1
    <2> QED
      BY <1>1, <1>3, <2>2 DEF IspStep, op
  <1>5. CASE input = <<>> /\ IspOutcome(isp, op)
    <2>1. WaitsFor(op) # "None" /\ Halted(isp, WaitsFor(op), AnsweredBefore(op))
      BY <1>1, <1>5 DEF IspOutcome, Ready
    <2>2. LET done == I!Update(isp, <<>>, hears)
          IN done.rest = <<>> /\ IspOutcome(done.s, op)
      BY <2>1, WaitIsAnswered
    <2>3. input' = <<>> /\ IspOutcome(isp', op)
      BY <1>2, <1>5, <2>2
    <2> QED
      BY <1>1, <1>3, <2>3 DEF IspStep, op
  <1> QED
    BY <1>1, <1>3, <1>4, <1>5 DEF IspStep, op

LEMMA UpdiUpdateKeepsStep ==
  ASSUME RestsInv, InStep, UpdiUpdate
  PROVE  UpdiStep(host.op, host.seq, input', updi') /\ programmer = "Updi"
  <1>1. /\ programmer = "Updi" /\ UpdiStep(host.op, host.seq, input, updi)
        /\ input # <<>> \/ updi.brk # "Idle"
    BY DEF UpdiUpdate, UpdiDue, InStep
  <1>2. PICK fault \in Faults : /\ updi' = U!Update(updi, input, fault).s
                                /\ input' = U!Update(updi, input, fault).rest
    BY DEF UpdiUpdate
  <1>3. host.seq \in Nat
    BY DEF RestsInv, FramesInv, HostForm
  <1> DEFINE op == host.op
             raw == Bare(op)
  <1>4. op # NoOp /\ op \in UpdiOps
    BY <1>1 DEF UpdiStep, Answered, AtHand
  <1>5. raw = RawOf(host.seq, op)
    BY DEF RawOf, Bare
  <1> HIDE DEF op, raw
  <1>6. CASE input = U!Frame(host.seq, UpdiBody(op)) /\ Answered(updi) /\ updi.out = <<>>
    <2>1. LET done == U!Update(updi, U!Frame(host.seq, UpdiBody(op)), fault)
          IN /\ done.rest = <<>>
             /\ \/ Told(done.s, Bare(op), Statuses(op))
                \/ PendingOf(op) # "None" /\ Deferred(done.s, Bare(op), PendingOf(op))
      BY <1>3, <1>4, <1>6, FrameIsAnswered
    <2>2. /\ input' = <<>>
          /\ \/ Told(updi', raw, Statuses(op))
             \/ PendingOf(op) # "None" /\ Deferred(updi', raw, PendingOf(op))
      BY <1>2, <1>6, <2>1 DEF raw
    <2> QED
      BY <1>1, <1>4, <1>5, <2>2 DEF UpdiStep, op
  <1>7. CASE input = <<>> /\ PendingOf(op) # "None" /\ Deferred(updi, raw, PendingOf(op))
    <2>1. LET done == U!Update(updi, <<>>, fault)
          IN /\ done.rest = <<>>
             /\ \/ Told(done.s, raw, Statuses(op))
                \/ Deferred(done.s, raw, PendingOf(op))
      BY <1>4, <1>7, BreakIsAnswered
    <2>2. /\ input' = <<>>
          /\ \/ Told(updi', raw, Statuses(op))
             \/ Deferred(updi', raw, PendingOf(op))
      BY <1>2, <1>7, <2>1
    <2> QED
      BY <1>1, <1>4, <1>5, <1>7, <2>2 DEF UpdiStep, op
  <1>8. ~(input = <<>> /\ Told(updi, raw, Statuses(op)))
    BY <1>1 DEF Told, Answered, AtHand
  <1> QED
    BY <1>1, <1>4, <1>5, <1>6, <1>7, <1>8 DEF UpdiStep, op

\* What fits is a matter of what the host knows.
LEMMA StepStays ==
  ASSUME UNCHANGED <<host, programmer>>,
         programmer = "Isp" => IspStep(host.op, input', isp'),
         programmer = "Updi" => UpdiStep(host.op, host.seq, input', updi')
  PROVE  InStep'
  BY DEF InStep, IspStep, IspOutcome, IspFormFits, IspFits, IspGood, Known

LEMMA SendKeepsStep ==
  ASSUME RestsInv, InStep, NEW op, Send(op)
  PROVE  InStep'
  <1>1. /\ May(op) /\ programmer' = programmer /\ programmer # "None"
        /\ input' = Frame(op) /\ host' = [host EXCEPT !.op = op]
        /\ isp' = isp /\ updi' = updi /\ host.op = NoOp
    BY DEF Send, Quiet, May
  <1>2. host'.op = op /\ host'.seq = host.seq /\ host.seq \in Nat
    BY <1>1 DEF RestsInv, FramesInv, HostForm, HostFields
  <1>3. ASSUME programmer = "Isp"
        PROVE  /\ op \in IspOps /\ op # NoOp
               /\ input' = IspFrame(op) /\ input' # <<>> /\ Ready(isp', <<>>)
    <2>1. op \in IspOps /\ input' = IspFrame(op) /\ Ready(isp, <<>>)
      BY <1>1, <1>3 DEF May, Frame, InStep, IspStep
    <2> QED
      BY <1>1, <2>1, FramesHaveBytes
  <1>4. ASSUME programmer = "Updi" PROVE UpdiStep(op, host.seq, input', updi')
    <2>1. /\ op \in UpdiOps /\ input' = U!Frame(host.seq, UpdiBody(op))
          /\ Answered(updi) /\ updi.out = <<>>
      BY <1>1, <1>4 DEF May, Frame, InStep, UpdiStep
    <2> QED
      BY <1>1, <1>2, <2>1, FramesHaveBytes DEF UpdiStep
  <1> QED
    BY <1>1, <1>2, <1>3, <1>4 DEF InStep, IspStep

LEMMA TakeKeepsStep ==
  ASSUME RestsInv, InStep, Take
  PROVE  InStep'
  <1>1. /\ programmer' = programmer /\ input = <<>> /\ input' = <<>> /\ host.op # NoOp
        /\ programmer = "Isp" => isp.after = "None"
        /\ programmer = "Updi" => updi.brk = "Idle"
        /\ isp' = [isp EXCEPT !.out = <<>>] /\ updi' = [updi EXCEPT !.out = <<>>]
        /\ host' = Learned(host.op)
    BY DEF Take, Quiet, Busy, I!Waiting
  <1>2. host'.op = NoOp
    BY <1>1, HostForgets DEF RestsInv, FramesInv
  <1>3. ASSUME programmer = "Isp" PROVE Ready(isp', <<>>)
    <2>1. Ready(isp, isp.out)
      BY <1>1, <1>3 DEF InStep, IspStep, IspOutcome, Halted
    <2> QED
      BY <1>1, <2>1, IspStaysReady
  <1>4. ASSUME programmer = "Updi" PROVE Answered(updi') /\ updi'.out = <<>>
    <2>1. Answered(updi) /\ UpdiForm(updi)
      BY <1>1, <1>4 DEF InStep, UpdiStep, Deferred, Awaiting, Told, Answered, AtHand, OnTheWire
    <2>2. /\ Empty(updi') /\ UpdiForm(updi') /\ updi'.checking = updi.checking
          /\ updi'.line = updi.line /\ updi'.brk = updi.brk
      <3>1. Empty(updi)
        BY <2>1 DEF Answered, AtHand, Empty
      <3> QED
        BY <1>1, <2>1, <3>1, UpdiRests, EmptyRests, ZenonT(30)
    <2>3. updi'.out = <<>>
      BY <1>1, <2>1, UpdiStaysSilent
    <2> QED
      BY <2>1, <2>2, <2>3 DEF Answered, AtHand, OnTheWire, Empty
  <1> QED
    BY <1>1, <1>2, <1>3, <1>4 DEF InStep, IspStep, UpdiStep

LEMMA StepNext ==
  RestsInv /\ InStep /\ [ProgrammingNext]_programmingVars /\ ~CutShort => InStep'
  <1> SUFFICES ASSUME RestsInv, InStep, [ProgrammingNext]_programmingVars, ~CutShort
               PROVE  InStep'
    OBVIOUS
  <1>1. FramesInv'
    BY FramesNext DEF RestsInv
  <1>2. CASE \E method \in {"Isp", "Updi"}, lock \in BOOLEAN : Begin(method, lock)
    <2>1. PICK method \in {"Isp", "Updi"}, lock \in BOOLEAN : Begin(method, lock)
      BY <1>2
    <2> QED
      BY <1>1, <2>1, BeginKeepsRest DEF InStep, IspStep, UpdiStep
  <1>3. CASE End
    BY <1>3, EndKeepsRest DEF InStep
  <1>4. CASE ResetController
    BY <1>1, <1>4, ResetKeepsRest DEF InStep, IspStep, UpdiStep
  <1>5. CASE StartUpdiCheck \/ PollUpdiCheck
    <2>1. programmer' = "None"
      BY <1>5 DEF StartUpdiCheck, PollUpdiCheck, RestsInv, FramesInv, WiresInv
    <2> QED
      BY <2>1 DEF InStep
  <1>6. CASE IspUpdate
    <2>1. IspStep(host.op, input', isp') /\ programmer = "Isp"
      BY <1>6, IspUpdateKeepsStep
    <2>2. host' = host /\ programmer' = programmer
      BY <1>6 DEF IspUpdate
    <2> QED
      BY <2>1, <2>2, StepStays
  <1>7. CASE UpdiUpdate
    <2>1. UpdiStep(host.op, host.seq, input', updi') /\ programmer = "Updi"
      BY <1>7, UpdiUpdateKeepsStep
    <2>2. host' = host /\ programmer' = programmer
      BY <1>7 DEF UpdiUpdate
    <2> QED
      BY <2>1, <2>2, StepStays
  <1>8. CASE HostNext
    <2>1. \/ \E op \in IspOps \union UpdiOps : Send(op)
          \/ Take \/ Drain
      BY <1>8 DEF HostNext, CutShort
    <2>2. ASSUME Drain PROVE FALSE
      <3>1. /\ host.op = NoOp /\ programmer # "None"
            /\ (IF programmer = "Isp" THEN isp.out ELSE updi.out) # <<>>
        BY <2>2 DEF Drain, Quiet, Out
      <3>2. programmer \in {"None", "Isp", "Updi"}
        BY DEF RestsInv, FramesInv, WiresInv
      <3> QED
        BY <3>1, <3>2 DEF InStep, IspStep, UpdiStep, Ready
    <2> QED
      BY <2>1, <2>2, SendKeepsStep, TakeKeepsStep
  <1>9. CASE ResetTarget
    <2>1. /\ host.op = NoOp /\ host'.op = NoOp /\ input' = input /\ isp' = isp
          /\ programmer' = programmer
          /\ updi' = [updi EXCEPT !.board = U!PowerTarget(@)]
      BY <1>9, HostForgets DEF ResetTarget
    <2>2. ASSUME programmer = "Updi"
          PROVE  input = <<>> /\ Answered(updi') /\ updi'.out = <<>>
      <3>1. input = <<>> /\ Answered(updi) /\ updi.out = <<>> /\ UpdiForm(updi) /\ Empty(updi)
        BY <2>1, <2>2 DEF InStep, UpdiStep, Answered, AtHand, OnTheWire, Empty
      <3> DEFINE x == U!PowerTarget(updi.board)
      <3>2. updi' = [updi EXCEPT !.board = x]
        BY <2>1
      <3> HIDE DEF x
      <3>3. /\ Empty(updi') /\ UpdiForm(updi') /\ updi'.checking = updi.checking
            /\ updi'.line = updi.line /\ updi'.brk = updi.brk
        BY <3>1, <3>2, UpdiRests, EmptyRests
      <3>4. updi'.out = <<>>
        BY <3>1, <3>2, UpdiStaysSilent
      <3> QED
        BY <3>1, <3>3, <3>4 DEF Answered, AtHand, OnTheWire, Empty
    <2> QED
      BY <2>1, <2>2 DEF InStep, IspStep, UpdiStep
  <1>10. CASE UNCHANGED programmingVars
    <2>1. /\ programmer = "Isp" => IspStep(host.op, input', isp')
          /\ programmer = "Updi" => UpdiStep(host.op, host.seq, input', updi')
      BY <1>10 DEF programmingVars, InStep
    <2> QED
      BY <1>10, <2>1, StepStays DEF programmingVars
  <1> QED
    BY <1>2, <1>3, <1>4, <1>5, <1>6, <1>7, <1>8, <1>9, <1>10 DEF ProgrammingNext

\* AnswersFit but for the data of a read, and of a host that has just begun to
\* listen too.
UpdiFormFits(op, a) ==
  IF op.kind = "Read"
    THEN a.seq = host.seq /\ a.status \in Refusals \union {U!RspMemory}
    ELSE UpdiFits(op, a)

AnswersInForm ==
  /\ host.op = NoOp => Out = <<>>
  /\ ~Quiet => Out \in {<<>>, Early(host.op)}
  /\ host.op # NoOp /\ Quiet =>
       IF programmer = "Isp" THEN IspFormFits(host.op, Out)
                          ELSE Len(Out) = 1 /\ UpdiFormFits(host.op, Out[1])

LEMMA FormIsFit == AnswersInForm /\ host.op.kind # "Read" => AnswersFit
  BY DEF AnswersInForm, AnswersFit, UpdiFormFits, IspFormFits

LEMMA IspStepFits ==
  ASSUME RestsInv, InStep, programmer = "Isp"
  PROVE  AnswersInForm
  <1>1. /\ IspStep(host.op, input, isp) /\ Out = isp.out
        /\ Quiet <=> (input = <<>> /\ isp.after = "None")
    BY DEF InStep, Out, Quiet, Busy, I!Waiting
  <1>2. ASSUME host.op = NoOp PROVE Out = <<>> /\ Quiet
    BY <1>1, <1>2 DEF IspStep, Ready
  <1>3. ASSUME host.op # NoOp, Quiet PROVE IspFormFits(host.op, Out)
    BY <1>1, <1>3 DEF IspStep, IspOutcome, Halted
  <1>4. ASSUME host.op # NoOp, ~Quiet PROVE Out \in {<<>>, Early(host.op)}
    BY <1>1, <1>4 DEF IspStep, IspOutcome, Ready, Halted, AnsweredBefore, Positive, Early
  <1> QED
    BY <1>2, <1>3, <1>4 DEF AnswersInForm

LEMMA StatusesFit ==
  ASSUME host.seq \in Nat, NEW op \in UpdiOps, NEW a, a.seq = host.seq, a.status \in Statuses(op)
  PROVE  UpdiFormFits(op, a)
  <1>1. ASSUME op.kind \in {"Sync", "SignOn", "Voltage", "Baud", "Strange"}
        PROVE  UpdiGood(op, a)
    BY <1>1 DEF Statuses, UpdiGood
  <1>2. ASSUME op.kind \notin {"Sync", "SignOn", "Voltage", "Baud", "Strange", "Read"}
        PROVE  UpdiGood(op, a) \/ a.status \in Refusals
    BY <1>2 DEF Statuses, UpdiGood, Usual
  <1>3. ASSUME op.kind = "Read" PROVE a.status \in Refusals \union {U!RspMemory}
    BY <1>3 DEF Statuses
  <1> QED
    BY <1>1, <1>2, <1>3 DEF UpdiFormFits, UpdiFits, Refusals

LEMMA UpdiStepFits ==
  ASSUME RestsInv, InStep, programmer = "Updi"
  PROVE  AnswersInForm
  <1>1. /\ UpdiStep(host.op, host.seq, input, updi) /\ Out = updi.out
        /\ Quiet <=> (input = <<>> /\ updi.brk = "Idle")
        /\ host.seq \in Nat
    BY DEF InStep, Out, Quiet, Busy, RestsInv, FramesInv, HostForm
  <1>2. ASSUME host.op = NoOp PROVE Out = <<>> /\ Quiet
    BY <1>1, <1>2 DEF UpdiStep, Answered, AtHand
  <1>3. ASSUME host.op # NoOp, input # <<>> PROVE Out = <<>> /\ ~Quiet
    BY <1>1, <1>3 DEF UpdiStep
  <1>4. ASSUME host.op # NoOp, Deferred(updi, RawOf(host.seq, host.op), PendingOf(host.op))
        PROVE  Out = <<>> /\ ~Quiet
    BY <1>1, <1>4 DEF Deferred, Awaiting
  <1>5. ASSUME host.op # NoOp, input = <<>>,
               Told(updi, RawOf(host.seq, host.op), Statuses(host.op))
        PROVE  Quiet /\ Len(Out) = 1 /\ UpdiFormFits(host.op, Out[1])
    <2> DEFINE raw == RawOf(host.seq, host.op)
    <2>1. host.op \in UpdiOps
      BY <1>1, <1>5 DEF UpdiStep
    <2>2. raw[2] = host.seq
      BY <1>1, <2>1, BareForm DEF Bare, RawOf
    <2> HIDE DEF raw
    <2>3. Told(updi, raw, Statuses(host.op))
      BY <1>5 DEF raw
    <2>4. /\ Len(Out) = 1 /\ Out[1].seq = host.seq /\ Out[1].status \in Statuses(host.op)
          /\ updi.brk = "Idle"
      BY <1>1, <2>2, <2>3 DEF Told, Answered, AtHand
    <2> QED
      BY <1>1, <1>5, <2>1, <2>4, StatusesFit
  <1>6. host.op # NoOp =>
          \/ input # <<>>
          \/ Deferred(updi, RawOf(host.seq, host.op), PendingOf(host.op))
          \/ input = <<>> /\ Told(updi, RawOf(host.seq, host.op), Statuses(host.op))
    BY <1>1 DEF UpdiStep
  <1> QED
    BY <1>2, <1>3, <1>4, <1>5, <1>6 DEF AnswersInForm

LEMMA StepFits == RestsInv /\ InStep => AnswersInForm
  <1> SUFFICES ASSUME RestsInv, InStep PROVE AnswersInForm
    OBVIOUS
  <1>1. CASE programmer = "None"
    BY <1>1 DEF RestsInv, AnswersInForm, Out, Quiet
  <1> QED
    <2>1. programmer \in {"None", "Isp", "Updi"}
      BY DEF RestsInv, FramesInv, WiresInv
    <2> QED
      BY <1>1, <2>1, IspStepFits, UpdiStepFits

\* Whatever happened in earlier sessions -- an upload given up, a tool cut
\* short, a controller or a target restarted -- nothing of it is left when a
\* session ends, and a session that begins is in step: begin and end of both
\* programmers empty their parsers, and beginModuleProgramming drains the port.
\* From there every command, wait, break and restart keeps host and programmer
\* in step, but for a tool that goes away in the middle of a command; and in
\* step, an answer has the form and the number of the command it is for.
THEOREM SessionsStayInStep ==
  ProgrammingSpec => /\ [](programmer = "None" => InStep)
                     /\ [][InStep /\ ~CutShort => InStep']_programmingVars
                     /\ [](InStep => AnswersInForm)
  <1>1. ProgrammingInit => RestsInv
    BY RestsInitially
  <1>2. RestsInv /\ [ProgrammingNext]_programmingVars => RestsInv'
    BY RestsNext
  <1>3. RestsInv /\ [ProgrammingNext]_programmingVars =>
          [InStep /\ ~CutShort => InStep']_programmingVars
    BY StepNext
  <1>4. RestsInv => /\ programmer = "None" => InStep
                    /\ InStep => AnswersInForm
    BY StepFits DEF InStep
  <1> QED
    BY <1>1, <1>2, <1>3, <1>4, PTL DEF ProgrammingSpec

\* As long as no tool goes away in the middle of a command, every command has
\* exactly one answer, of its own form and number, before the host sends the
\* next one, and nothing comes unasked: what IspProgrammer::update reads and
\* puts off until a wait is over, and what UpdiProgrammer::update parses and
\* runs after a break, never falls behind or ahead of the host.  AnswersFit
\* says so; of a read's answer the data is left to its runs.
THEOREM UninterruptedToolIsAnswered ==
  ProgrammingSpec /\ [][~CutShort]_programmingVars =>
    [](AnswersInForm /\ (host.op.kind # "Read" => AnswersFit))
  <1>1. ProgrammingInit => RestsInv /\ InStep
    <2>1. ProgrammingInit => programmer = "None"
      BY DEF ProgrammingInit
    <2> QED
      BY <2>1, RestsInitially DEF InStep
  <1>2. RestsInv /\ InStep /\ [ProgrammingNext]_programmingVars /\ [~CutShort]_programmingVars
          => RestsInv' /\ InStep'
    <2> SUFFICES ASSUME RestsInv, InStep, [ProgrammingNext]_programmingVars,
                        [~CutShort]_programmingVars
                 PROVE  RestsInv' /\ InStep'
      OBVIOUS
    <2>1. RestsInv'
      BY RestsNext
    <2>2. CASE ~CutShort
      BY <2>1, <2>2, StepNext
    <2>3. CASE UNCHANGED programmingVars
      <3>1. /\ host' = host /\ programmer' = programmer
            /\ input' = input /\ isp' = isp /\ updi' = updi
        BY <2>3 DEF programmingVars
      <3> QED
        BY <2>1, <3>1, StepStays DEF InStep
    <2> QED
      BY <2>2, <2>3
  <1>3. RestsInv /\ InStep => AnswersInForm /\ (host.op.kind # "Read" => AnswersFit)
    BY StepFits, FormIsFit
  <1> QED
    BY <1>1, <1>2, <1>3, PTL DEF ProgrammingSpec
=============================================================================
