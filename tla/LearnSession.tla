----------------------------- MODULE LearnSession -----------------------------
(***************************************************************************)
(* The learn handoff between the web server task and the loop task         *)
(* (src/web_config_api.cpp) and the receivers it holds (src/learn.cpp).    *)
(*                                                                         *)
(* The httpd handlers only write g_learnPhase, each inside one             *)
(* g_learnLock section, so each is one step.  The loop task reads the      *)
(* phase under the lock, drives the receivers outside it and takes the     *)
(* lock again to publish: a request may arrive between any two of its      *)
(* steps.  The RMT interrupt marks a frame ready while a band is armed.    *)
(*                                                                         *)
(* What the bursts contain, and so whether a poll captures or fails, is    *)
(* the subject of module LearnMachine; here it is a nondeterministic       *)
(* choice among the outcomes pollLearn can produce.                        *)
(*                                                                         *)
(* An operator named Bug... is a plausible mistake in the definition that  *)
(* follows it, kept to show that the properties reject it.                 *)
(***************************************************************************)
EXTENDS Naturals

CONSTANTS
  Bands,       (* the receivers one learn arms: IR, 315 MHz, 433 MHz        *)
  Ir,          (* the IR band, exempt from the rolling-code verdict         *)
  Window,      (* kWindowMs, in clock units                                 *)
  ClockMod,    (* millis() is a 32-bit counter: it wraps to 0 at ClockMod   *)
  MaxStarts,   (* bound on /api/learn/start requests                        *)
  MaxCancels   (* bound on /api/learn/cancel requests                       *)

ASSUME SessionAssumption ==
  /\ Ir \in Bands
  /\ Window \in Nat \ {0}
  /\ ClockMod \in Nat \ {0}
  /\ MaxStarts \in Nat
  /\ MaxCancels \in Nat

VARIABLES
  phase,       (* g_learnPhase, guarded by g_learnLock                      *)
  learnCode,   (* g_learnCode: the session whose capture it holds, 0: none  *)
  learnReason, (* g_learnReason: the session whose failure it is, 0: none   *)
  pc,          (* where the loop task is inside pollLearnApi                *)
  taken,       (* the local `code` between takeLearnedCode and the publish  *)
  mach,        (* LearnMachine::state_                                      *)
  deadline,    (* LearnMachine::deadline_                                   *)
  active,      (* g_active                                                  *)
  armed,       (* bands whose RX channel is held (s_rxEnabled, RfBand::rx)  *)
  ready,       (* bands with frameReady set                                 *)
  heardIn,     (* history: the sessions during which the waiting frames came *)
  clock,       (* millis() as the current loop pass reads it                *)
  session,     (* history: how many times startLearn has run                *)
  asked,       (* history: the latest request, "none" before the first      *)
  starts,      (* history: start requests so far, for the bound             *)
  cancels      (* history: cancel requests so far, for the bound            *)

api     == <<phase, learnCode, learnReason>>
machine == <<mach, deadline>>
radios  == <<active, armed, ready, heardIn>>
history == <<asked, starts, cancels>>
vars    == <<api, pc, taken, machine, radios, clock, session, history>>

Phases     == {"Idle", "StartReq", "Listening", "Captured", "Failed", "CancelReq"}
MachStates == {"Idle", "Listening", "Captured", "Failed"}
Places     == {"home", "arm", "publishArm", "disarm", "publishCancel",
               "listen", "publishCode", "publishFail"}

RfBands == Bands \ {Ir}

Init ==
  /\ phase = "Idle" /\ learnCode = 0 /\ learnReason = 0
  /\ pc = "home" /\ taken = 0
  /\ mach = "Idle" /\ deadline = 0
  /\ active = FALSE /\ armed = {} /\ ready = {} /\ heardIn = {}
  /\ clock \in 0 .. ClockMod - 1
  /\ session = 0 /\ asked = "none" /\ starts = 0 /\ cancels = 0

-------------------------------------------------------------------------------
(* The httpd task. *)

handleLearnStart ==
  /\ starts < MaxStarts
  /\ phase' = "StartReq"
  /\ asked' = "start" /\ starts' = starts + 1
  /\ UNCHANGED <<learnCode, learnReason, pc, taken, machine, radios, clock,
                 session, cancels>>

handleLearnCancel ==
  /\ cancels < MaxCancels
  /\ phase' = "CancelReq"
  /\ asked' = "cancel" /\ cancels' = cancels + 1
  /\ UNCHANGED <<learnCode, learnReason, pc, taken, machine, radios, clock,
                 session, starts>>

-------------------------------------------------------------------------------
(* The RMT receive-done interrupt: only an armed band has a receive pending. *)

rxDone(b) ==
  /\ b \in armed
  /\ ready' = ready \cup {b} /\ heardIn' = heardIn \cup {session}
  /\ UNCHANGED <<api, pc, taken, machine, active, armed, clock, session, history>>

-------------------------------------------------------------------------------
(* The loop task: one pollLearnApi call per pass of loop(). *)

\* The locked read of the phase that opens pollLearnApi.  A failed try-lock skips
\* the whole pass, which is a stuttering step.  Between two passes the clock moves
\* by d units, at most one: a pass is far shorter than a unit of the 30 s window.
readPhase(d) ==
  /\ pc = "home"
  /\ clock' = (clock + d) % ClockMod
  /\ pc' = CASE phase = "StartReq"  -> "arm"
             [] phase = "CancelReq" -> "disarm"
             [] phase = "Listening" -> "listen"
             [] OTHER               -> "home"
  /\ UNCHANGED <<api, taken, machine, radios, session, history>>

BugWindowBefore == mach' = "Listening" /\ deadline' = clock - Window

\* LearnMachine::begin.
begin == mach' = "Listening" /\ deadline' = clock + Window

BugFlagsKept ==
  /\ \E ok \in SUBSET Bands : armed' = armed \cup ok
  /\ UNCHANGED <<ready, heardIn>>

\* startIRRx and startRFRx of every band.  Each may fail to arm, silently; one already
\* armed by the session being restarted stays armed and has its frame flag cleared.
armBands ==
  /\ \E ok \in SUBSET Bands : armed' = armed \cup ok
  /\ ready' = {} /\ heardIn' = {}

\* stopIRRx and stopRFRx of every band.
disarmBands == armed' = {} /\ ready' = {} /\ heardIn' = {}

startLearn ==
  /\ pc = "arm"
  /\ begin
  /\ armBands
  /\ active' = TRUE
  /\ session' = session + 1
  /\ pc' = "publishArm"
  /\ UNCHANGED <<api, taken, clock, history>>

BugArmUnchecked ==
  /\ pc = "publishArm"
  /\ phase' = "Listening"
  /\ pc' = "home"
  /\ UNCHANGED <<learnCode, learnReason, taken, machine, radios, clock, session, history>>

publishArm ==
  /\ pc = "publishArm"
  /\ phase' = IF phase = "StartReq" THEN "Listening" ELSE phase
  /\ pc' = "home"
  /\ UNCHANGED <<learnCode, learnReason, taken, machine, radios, clock, session, history>>

cancelLearn ==
  /\ pc = "disarm"
  /\ mach' = "Idle" /\ deadline' = 0
  /\ active' = FALSE /\ disarmBands
  /\ pc' = "publishCancel"
  /\ UNCHANGED <<api, taken, clock, session, history>>

publishCancel ==
  /\ pc = "publishCancel"
  /\ phase' = "Idle"
  /\ pc' = "home"
  /\ UNCHANGED <<learnCode, learnReason, taken, machine, radios, clock, session, history>>

BugTickOnlyInSilence ==
  IF ~active THEN {mach}
  ELSE {st \in MachStates :
          \/ st = "Captured"  /\ ready # {}
          \/ st = "Failed"    /\ (ready \cap RfBands # {} \/ clock >= deadline)
          \/ st = "Listening" /\ (clock < deadline \/ ready # {})}

\* The machine states one pollLearn call can end in: a ready frame may complete a
\* capture, a ready RF frame may complete the rolling-code verdict, and otherwise
\* tick() applies the deadline.  Unarmed, pollLearn returns at once.
PollResults ==
  IF ~active THEN {mach}
  ELSE {st \in MachStates :
          \/ st = "Captured"  /\ ready # {}
          \/ st = "Failed"    /\ (ready \cap RfBands # {} \/ clock >= deadline)
          \/ st = "Listening" /\ clock < deadline}

\* pollLearn, then learnState() and, on a capture, takeLearnedCode(), which resets
\* the machine.  Any state but Listening stops every receiver.
pollLearn ==
  /\ pc = "listen"
  /\ \E st \in PollResults :
       /\ IF active /\ st # "Listening"
          THEN active' = FALSE /\ disarmBands
          ELSE ready' = {} /\ heardIn' = {} /\ UNCHANGED <<active, armed>>
       /\ mach'     = IF st = "Captured" THEN "Idle" ELSE st
       /\ deadline' = IF st = "Captured" THEN 0 ELSE deadline
       /\ taken'    = IF st = "Captured" THEN session ELSE taken
       /\ pc'       = CASE st = "Captured" -> "publishCode"
                        [] st = "Failed"   -> "publishFail"
                        [] OTHER           -> "home"
  /\ UNCHANGED <<api, clock, session, history>>

BugCodeUnchecked ==
  /\ pc = "publishCode"
  /\ phase' = "Captured" /\ learnCode' = taken
  /\ taken' = 0
  /\ pc' = "home"
  /\ UNCHANGED <<learnReason, machine, radios, clock, session, history>>

publishCode ==
  /\ pc = "publishCode"
  /\ IF phase = "Listening"
     THEN phase' = "Captured" /\ learnCode' = taken
     ELSE UNCHANGED <<phase, learnCode>>
  /\ taken' = 0
  /\ pc' = "home"
  /\ UNCHANGED <<learnReason, machine, radios, clock, session, history>>

BugReasonDropped ==
  /\ pc = "publishFail"
  /\ phase' = IF phase = "Listening" THEN "Failed" ELSE phase
  /\ pc' = "home"
  /\ UNCHANGED <<learnCode, learnReason, taken, machine, radios, clock, session, history>>

publishFail ==
  /\ pc = "publishFail"
  /\ IF phase = "Listening"
     THEN phase' = "Failed" /\ learnReason' = session
     ELSE UNCHANGED <<phase, learnReason>>
  /\ pc' = "home"
  /\ UNCHANGED <<learnCode, taken, machine, radios, clock, session, history>>

-------------------------------------------------------------------------------
LoopStep ==
  \/ \E d \in {0, 1} : readPhase(d)
  \/ startLearn  \/ publishArm
  \/ cancelLearn \/ publishCancel
  \/ pollLearn   \/ publishCode \/ publishFail

Next ==
  \/ handleLearnStart
  \/ handleLearnCancel
  \/ \E b \in Bands : rxDone(b)
  \/ LoopStep

\* loop() runs for ever and real time advances between its passes.  Nothing makes a
\* client send a request, nor a remote send a frame.
Fairness == WF_vars(LoopStep) /\ SF_vars(readPhase(1))

Spec     == Init /\ [][Next]_vars
FairSpec == Spec /\ Fairness

-------------------------------------------------------------------------------
TypeOK ==
  /\ phase \in Phases
  /\ learnCode \in Nat /\ learnReason \in Nat
  /\ pc \in Places /\ taken \in Nat
  /\ mach \in MachStates /\ deadline \in Nat
  /\ active \in BOOLEAN /\ armed \subseteq Bands /\ ready \subseteq Bands
  /\ heardIn \subseteq Nat
  /\ clock \in 0 .. ClockMod - 1
  /\ session \in Nat
  /\ asked \in {"none", "start", "cancel"}
  /\ starts \in Nat /\ cancels \in Nat

\* What a poll reports belongs to the session armed last: a code or a failure of an
\* earlier session is never published under the phase of a later one, although both
\* are computed outside the lock (web_config_api.cpp:391-411).
ResultIsCurrent ==
  /\ phase = "Captured" => learnCode = session
  /\ phase = "Failed"   => learnReason = session

\* A cancel that raced the arm, the poll or the publish is honoured: once the latest
\* request is a cancel the device never again listens for, or answers, the session
\* it cancelled (web_config_api.cpp:381,397,405).
CancelHonoured ==
  phase \in {"Listening", "Captured", "Failed"} => asked = "start"

\* The receivers are held by a live session and by nothing else: when the loop task is
\* back home with no session under way every RX channel is released (sendIR and
\* sendRFCode refuse to transmit on a band whose RX is held), and while the
\* API says it is listening the machine really is.  A frame that waits to be read was
\* heard in the session that will read it, not before a restart of it (radios.cpp:247,264).
RadiosFollowSession ==
  /\ armed # {} => active
  /\ ready \subseteq armed /\ heardIn \subseteq {session}
  /\ pc = "home" /\ phase \in {"Idle", "Captured", "Failed"} => ~active
  /\ pc = "home" /\ phase = "Listening" => active /\ mach = "Listening"

\* Every capture window that closes before the clock wraps really closes: whatever the
\* remotes and the clients do, the session ends, even when no band could be armed, and
\* with it (RadiosFollowSession) its receivers are released.
WindowClosesBeforeWrap ==
  \A s \in 1 .. MaxStarts :
    (active /\ session = s /\ deadline < ClockMod) ~> (~active \/ session # s)

\* The learn API as LearnService describes it.  The phase is the device's own; a
\* session begun and not announced yet is the one between startLearn() and its
\* publish; each outcome carries the number of its session.
Service == INSTANCE LearnService WITH
  fresh    <- pc = "publishArm",
  answered <- IF learnCode > learnReason THEN learnCode ELSE learnReason

\* Every step of the handlers, the interrupt and the loop task is a step of the learn
\* service or invisible to it: requests are served in the order they stand, sessions
\* are announced and answered once, and no request stays unserved (web_config_api.cpp:369-416).
ServiceIsImplemented == Service!ServiceFairSpec
===============================================================================
