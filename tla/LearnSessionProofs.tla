-------------------------- MODULE LearnSessionProofs --------------------------
(***************************************************************************)
(* Proofs about LearnSession, for every set of bands, window and clock     *)
(* width, and without the bounds on requests that TLC needs.               *)
(*                                                                         *)
(* The argument: outside the lock the loop task is at a place that tells    *)
(* which phases it may find when it takes the lock again, because between   *)
(* its two critical sections only the handlers run and they write nothing   *)
(* but the two requests.  Joined with what each place tells of the driver,  *)
(* that is inductive.                                                       *)
(***************************************************************************)
EXTENDS LearnSession, TLAPS

Requests == {"StartReq", "CancelReq"}

\* The phases the handlers may have left while the loop task is at each place.
PhaseFitsPlace ==
  /\ pc \in {"arm", "publishArm", "disarm", "publishCancel"} => phase \in Requests
  /\ pc \in {"listen", "publishCode", "publishFail"} => phase \in Requests \cup {"Listening"}

\* A request still in the phase is the latest one made, and so is the start that any
\* session under way or answered came from.
PhaseFitsRequest ==
  /\ phase = "StartReq"  => asked = "start"
  /\ phase = "CancelReq" => asked = "cancel"
  /\ CancelHonoured

\* What the driver is doing at each place.
DriverFitsPlace ==
  /\ pc \in {"publishArm", "listen"} => active /\ mach = "Listening"
  /\ pc \in {"publishCancel", "publishCode", "publishFail"} => ~active
  /\ pc = "publishCode" => taken = session

IInv ==
  /\ TypeOK
  /\ PhaseFitsPlace
  /\ PhaseFitsRequest
  /\ DriverFitsPlace
  /\ RadiosFollowSession
  /\ ResultIsCurrent

-------------------------------------------------------------------------------
\* The clock stays within its width: the only arithmetic that needs a lemma.
LEMMA ClockWraps ==
  ASSUME NEW c \in Nat
  PROVE  c % ClockMod \in 0 .. ClockMod - 1
BY SessionAssumption

\* Every step keeps every variable in its type, whatever the handlers, the receivers
\* and the loop task do in between.
LEMMA TypeStep == TypeOK /\ [Next]_vars => TypeOK'
<1> SUFFICES ASSUME TypeOK, [Next]_vars PROVE TypeOK'
  OBVIOUS
<1> USE SessionAssumption DEF TypeOK, api, machine, radios, history
<1>1. CASE handleLearnStart
  BY <1>1 DEF handleLearnStart, Phases
<1>2. CASE handleLearnCancel
  BY <1>2 DEF handleLearnCancel, Phases
<1>3. ASSUME NEW b \in Bands, rxDone(b) PROVE TypeOK'
  BY <1>3 DEF rxDone
<1>4. ASSUME NEW d \in {0, 1}, readPhase(d) PROVE TypeOK'
  <2>1. clock' \in 0 .. ClockMod - 1
    <3>1. clock + d \in Nat
      OBVIOUS
    <3> QED
      BY <1>4, <3>1, ClockWraps DEF readPhase
  <2>2. pc' \in Places
    BY <1>4 DEF readPhase, Places
  <2> QED
    BY <1>4, <2>1, <2>2 DEF readPhase
<1>5. CASE startLearn
  <2>1. armed' \subseteq Bands
    BY <1>5 DEF startLearn, armBands
  <2>2. mach' \in MachStates /\ deadline' \in Nat /\ session' \in Nat /\ pc' \in Places
    BY <1>5 DEF startLearn, armBands, begin, MachStates, Places
  <2> QED
    BY <1>5, <2>1, <2>2 DEF startLearn, armBands
<1>6. CASE publishArm
  BY <1>6 DEF publishArm, Phases, Places
<1>7. CASE cancelLearn
  BY <1>7 DEF cancelLearn, disarmBands, MachStates, Places
<1>8. CASE publishCancel
  BY <1>8 DEF publishCancel, Phases, Places
<1>9. CASE pollLearn
  <2> PICK st \in PollResults :
        /\ IF active /\ st # "Listening"
           THEN active' = FALSE /\ armed' = {} /\ ready' = {} /\ heardIn' = {}
           ELSE ready' = {} /\ heardIn' = {} /\ UNCHANGED <<active, armed>>
        /\ mach'     = IF st = "Captured" THEN "Idle" ELSE st
        /\ deadline' = IF st = "Captured" THEN 0 ELSE deadline
        /\ taken'    = IF st = "Captured" THEN session ELSE taken
        /\ pc'       = CASE st = "Captured" -> "publishCode"
                         [] st = "Failed"   -> "publishFail"
                         [] OTHER           -> "home"
    BY <1>9 DEF pollLearn, disarmBands
  <2>1. st \in MachStates
    BY DEF PollResults
  <2>2. pc' \in Places
    BY DEF Places
  <2>3. /\ active' \in BOOLEAN /\ armed' \subseteq Bands /\ ready' \subseteq Bands
        /\ heardIn' \subseteq Nat
    OBVIOUS
  <2>4. mach' \in MachStates /\ deadline' \in Nat /\ taken' \in Nat
    BY <2>1 DEF MachStates
  <2> QED
    BY <1>9, <2>2, <2>3, <2>4 DEF pollLearn, disarmBands
<1>10. CASE publishCode
  BY <1>10 DEF publishCode, Phases, Places
<1>11. CASE publishFail
  BY <1>11 DEF publishFail, Phases, Places
<1>12. CASE UNCHANGED vars
  BY <1>12 DEF vars
<1> QED
  BY <1>1, <1>2, <1>3, <1>4, <1>5, <1>6, <1>7, <1>8, <1>9, <1>10, <1>11, <1>12
     DEF Next, LoopStep

LEMMA InitTypeOK == Init => TypeOK
<1> SUFFICES ASSUME Init PROVE TypeOK
  OBVIOUS
<1>1. active \in BOOLEAN /\ armed \subseteq Bands /\ ready \subseteq Bands
  BY DEF Init
<1>2. /\ phase \in Phases /\ pc \in Places /\ mach \in MachStates
      /\ asked \in {"none", "start", "cancel"}
  BY DEF Init, Phases, Places, MachStates
<1> QED
  BY <1>1, <1>2 DEF Init, TypeOK

\* Every variable keeps its type; the clock never leaves its width.
THEOREM TypeCorrect == Spec => []TypeOK
BY InitTypeOK, TypeStep, PTL DEF Spec

-------------------------------------------------------------------------------
(* The inductive invariant, one lemma per part of it that a step can disturb. *)

LEMMA InitIInv == Init => IInv
<1> SUFFICES ASSUME Init PROVE IInv
  OBVIOUS
<1>1. TypeOK
  BY InitTypeOK
<1>2. PhaseFitsPlace /\ PhaseFitsRequest /\ DriverFitsPlace /\ ResultIsCurrent
  BY DEF Init, PhaseFitsPlace, PhaseFitsRequest, CancelHonoured, DriverFitsPlace,
         ResultIsCurrent
<1>3. RadiosFollowSession
  BY DEF Init, RadiosFollowSession
<1> QED
  BY <1>1, <1>2, <1>3 DEF IInv

\* The handlers only write a request, which every place admits and which no part of
\* the invariant but the record of the latest request looks at.
LEMMA HandlerStep ==
  ASSUME IInv, handleLearnStart \/ handleLearnCancel
  PROVE  /\ PhaseFitsPlace' /\ PhaseFitsRequest' /\ DriverFitsPlace'
         /\ RadiosFollowSession' /\ ResultIsCurrent'
<1> USE DEF IInv, TypeOK, machine, radios
<1>1. /\ phase' \in Requests
      /\ phase' = "StartReq"  => asked' = "start"
      /\ phase' = "CancelReq" => asked' = "cancel"
      /\ UNCHANGED <<pc, taken, session, active, armed, ready, heardIn, mach>>
  BY DEF handleLearnStart, handleLearnCancel, Requests
<1>2. PhaseFitsPlace'
  BY <1>1 DEF PhaseFitsPlace
<1>3. PhaseFitsRequest'
  BY <1>1 DEF PhaseFitsRequest, CancelHonoured, Requests
<1>4. DriverFitsPlace'
  BY <1>1 DEF DriverFitsPlace
<1>5. RadiosFollowSession' /\ ResultIsCurrent'
  BY <1>1 DEF RadiosFollowSession, ResultIsCurrent, Requests
<1> QED
  BY <1>2, <1>3, <1>4, <1>5

\* The loop task's own steps while it holds no result: the read of the phase, the arm
\* and the disarm.
LEMMA ArmStep ==
  ASSUME IInv,
         \/ \E d \in {0, 1} : readPhase(d)
         \/ startLearn \/ publishArm \/ cancelLearn \/ publishCancel
  PROVE  /\ PhaseFitsPlace' /\ PhaseFitsRequest' /\ DriverFitsPlace'
         /\ RadiosFollowSession' /\ ResultIsCurrent'
<1> USE DEF IInv, TypeOK, PhaseFitsPlace, PhaseFitsRequest, CancelHonoured, DriverFitsPlace,
            RadiosFollowSession, ResultIsCurrent, Requests, api, machine, radios, history
<1>1. ASSUME NEW d \in {0, 1}, readPhase(d)
      PROVE  /\ PhaseFitsPlace' /\ PhaseFitsRequest' /\ DriverFitsPlace'
             /\ RadiosFollowSession' /\ ResultIsCurrent'
  <2>1. UNCHANGED <<phase, asked, taken, session, active, armed, ready, heardIn, mach,
                    learnCode, learnReason>>
    BY <1>1 DEF readPhase
  <2>2. \/ phase = "StartReq"  /\ pc' = "arm"
        \/ phase = "CancelReq" /\ pc' = "disarm"
        \/ phase = "Listening" /\ pc' = "listen"
        \/ phase \in {"Idle", "Captured", "Failed"} /\ pc' = "home"
    BY <1>1 DEF readPhase, Phases
  <2>3. pc = "home"
    BY <1>1 DEF readPhase
  <2> QED
    BY <2>1, <2>2, <2>3
<1>2. CASE startLearn
  <2>1. /\ pc = "arm" /\ pc' = "publishArm" /\ active' /\ mach' = "Listening"
        /\ ready' = {} /\ heardIn' = {}
        /\ UNCHANGED <<phase, asked, learnCode, learnReason>>
    BY <1>2 DEF startLearn, armBands, begin
  <2> QED
    BY <2>1
<1>3. CASE publishArm
  BY <1>3 DEF publishArm
<1>4. CASE cancelLearn
  BY <1>4 DEF cancelLearn, disarmBands
<1>5. CASE publishCancel
  BY <1>5 DEF publishCancel
<1> QED
  BY <1>1, <1>2, <1>3, <1>4, <1>5

\* The poll of a session under way, and the two ways its end is published.
LEMMA PollStep ==
  ASSUME IInv, pollLearn \/ publishCode \/ publishFail
  PROVE  /\ PhaseFitsPlace' /\ PhaseFitsRequest' /\ DriverFitsPlace'
         /\ RadiosFollowSession' /\ ResultIsCurrent'
<1> USE DEF IInv, TypeOK, PhaseFitsPlace, PhaseFitsRequest, CancelHonoured, DriverFitsPlace,
            RadiosFollowSession, ResultIsCurrent, Requests, api, machine, radios, history
<1>1. CASE pollLearn
  <2>1. /\ pc = "listen" /\ active /\ mach = "Listening"
        /\ UNCHANGED <<phase, asked, session, learnCode, learnReason>>
    BY <1>1 DEF pollLearn, disarmBands
  <2>2. \/ /\ pc' = "home" /\ UNCHANGED <<active, armed>> /\ ready' = {} /\ heardIn' = {}
           /\ mach' = "Listening"
        \/ /\ pc' \in {"publishCode", "publishFail"}
           /\ ~active' /\ armed' = {} /\ ready' = {} /\ heardIn' = {}
           /\ pc' = "publishCode" => taken' = session
    <3> PICK st \in PollResults :
          /\ IF active /\ st # "Listening"
             THEN active' = FALSE /\ armed' = {} /\ ready' = {} /\ heardIn' = {}
             ELSE ready' = {} /\ heardIn' = {} /\ UNCHANGED <<active, armed>>
          /\ mach'     = IF st = "Captured" THEN "Idle" ELSE st
          /\ deadline' = IF st = "Captured" THEN 0 ELSE deadline
          /\ taken'    = IF st = "Captured" THEN session ELSE taken
          /\ pc'       = CASE st = "Captured" -> "publishCode"
                           [] st = "Failed"   -> "publishFail"
                           [] OTHER           -> "home"
      BY <1>1 DEF pollLearn, disarmBands
    <3>1. st \in {"Captured", "Failed", "Listening"}
      BY <2>1 DEF PollResults
    <3> QED
      BY <2>1, <3>1
  <2> QED
    BY <2>1, <2>2
<1>2. CASE publishCode
  BY <1>2 DEF publishCode
<1>3. CASE publishFail
  BY <1>3 DEF publishFail
<1> QED
  BY <1>1, <1>2, <1>3

LEMMA NextIInv == IInv /\ [Next]_vars => IInv'
<1> SUFFICES ASSUME IInv, [Next]_vars PROVE IInv'
  OBVIOUS
<1>1. TypeOK'
  BY TypeStep DEF IInv
<1>2. /\ PhaseFitsPlace' /\ PhaseFitsRequest' /\ DriverFitsPlace'
      /\ RadiosFollowSession' /\ ResultIsCurrent'
  <2>1. CASE handleLearnStart \/ handleLearnCancel
    BY <2>1, HandlerStep
  <2>2. ASSUME NEW b \in Bands, rxDone(b)
        PROVE  /\ PhaseFitsPlace' /\ PhaseFitsRequest' /\ DriverFitsPlace'
               /\ RadiosFollowSession' /\ ResultIsCurrent'
    <3>1. /\ b \in armed /\ ready' = ready \cup {b} /\ heardIn' = heardIn \cup {session}
          /\ UNCHANGED <<phase, learnCode, learnReason, pc, taken, mach, active, armed,
                        session, asked>>
      BY <2>2 DEF rxDone, api, machine, history
    <3> QED
      BY <3>1 DEF IInv, PhaseFitsPlace, PhaseFitsRequest, CancelHonoured, DriverFitsPlace,
                  RadiosFollowSession, ResultIsCurrent
  <2>3. CASE LoopStep
    BY <2>3, ArmStep, PollStep DEF LoopStep
  <2>4. CASE UNCHANGED vars
    BY <2>4 DEF vars, IInv, PhaseFitsPlace, PhaseFitsRequest, CancelHonoured,
                DriverFitsPlace, RadiosFollowSession, ResultIsCurrent, api, machine, radios,
                history
  <2> QED
    BY <2>1, <2>2, <2>3, <2>4 DEF Next
<1> QED
  BY <1>1, <1>2 DEF IInv

LEMMA Inductive == Spec => []IInv
BY InitIInv, NextIInv, PTL DEF Spec

\* A poll never reports the outcome of an earlier session, although outcomes are
\* computed outside the lock (web_config_api.cpp:391-411).
THEOREM ResultsCorrect == Spec => []ResultIsCurrent
<1>1. IInv => ResultIsCurrent
  BY DEF IInv
<1> QED
  BY <1>1, Inductive, PTL

\* A session whose latest request is a cancel neither listens nor answers again
\* (web_config_api.cpp:381,397,405).
THEOREM CancelCorrect == Spec => []CancelHonoured
<1>1. IInv => CancelHonoured
  BY DEF IInv, PhaseFitsRequest
<1> QED
  BY <1>1, Inductive, PTL

\* The receivers are held exactly as the session under way needs them, so that the
\* transmitters are never locked out by a session that is over (learn.cpp:25-62).
THEOREM RadiosCorrect == Spec => []RadiosFollowSession
<1>1. IInv => RadiosFollowSession
  BY DEF IInv
<1> QED
  BY <1>1, Inductive, PTL

-------------------------------------------------------------------------------
(* LearnSession implements LearnService, but for the fairness, which stays with TLC.    *)

\* A start request the loop task has not taken yet is one of which no session has come;
\* no outcome carries the number of a session to come.
StartsCovered ==
  /\ session <= starts
  /\ phase = "StartReq" /\ pc # "publishArm" => session < starts
  /\ pc = "arm" => session < starts
  /\ learnCode <= session /\ learnReason <= session

LEMMA StartsStep == IInv /\ StartsCovered /\ [Next]_vars => StartsCovered'
<1> SUFFICES ASSUME IInv, StartsCovered, [Next]_vars PROVE StartsCovered'
  OBVIOUS
<1> USE DEF IInv, TypeOK, StartsCovered, api, machine, radios, history
<1>1. CASE handleLearnStart
  BY <1>1 DEF handleLearnStart
<1>2. CASE handleLearnCancel
  BY <1>2 DEF handleLearnCancel
<1>3. ASSUME NEW b \in Bands, rxDone(b) PROVE StartsCovered'
  BY <1>3 DEF rxDone
<1>4. ASSUME NEW d \in {0, 1}, readPhase(d) PROVE StartsCovered'
  BY <1>4 DEF readPhase
<1>5. CASE startLearn
  BY <1>5 DEF startLearn
<1>6. CASE publishArm
  BY <1>6 DEF publishArm, PhaseFitsPlace, Requests
<1>7. CASE cancelLearn \/ publishCancel
  BY <1>7 DEF cancelLearn, publishCancel
<1>8. CASE pollLearn
  BY <1>8 DEF pollLearn
<1>9. CASE publishCode
  BY <1>9 DEF publishCode, DriverFitsPlace
<1>10. CASE publishFail
  BY <1>10 DEF publishFail
<1>11. CASE UNCHANGED vars
  BY <1>11 DEF vars
<1> QED
  BY <1>1, <1>2, <1>3, <1>4, <1>5, <1>6, <1>7, <1>8, <1>9, <1>10, <1>11 DEF Next, LoopStep

\* Each step of the handlers is a request, each step of the loop task that writes the
\* phase or begins a session is the service's, and the others do not show.
LEMMA ServiceStep ==
  ASSUME IInv, StartsCovered, [Next]_vars
  PROVE  [Service!ServiceNext]_(Service!serviceVars)
<1> USE DEF api, machine, radios, history, Service!serviceVars
<1>1. CASE handleLearnStart
  <2>1. Service!start
    BY <1>1 DEF handleLearnStart, Service!start
  <2> QED
    BY <2>1 DEF Service!ServiceNext
<1>2. CASE handleLearnCancel
  <2>1. Service!cancel
    BY <1>2 DEF handleLearnCancel, Service!cancel
  <2> QED
    BY <2>1 DEF Service!ServiceNext
<1>3. ASSUME NEW b \in Bands, rxDone(b) PROVE UNCHANGED Service!serviceVars
  BY <1>3 DEF rxDone
<1>4. ASSUME NEW d \in {0, 1}, readPhase(d) PROVE UNCHANGED Service!serviceVars
  <2>1. pc # "publishArm" /\ pc' # "publishArm"
    BY <1>4 DEF readPhase
  <2> QED
    BY <1>4, <2>1 DEF readPhase
<1>5. CASE startLearn
  <2>1. Service!begin
    BY <1>5 DEF startLearn, Service!begin, Service!Requests, IInv, PhaseFitsPlace, Requests,
                StartsCovered
  <2> QED
    BY <2>1 DEF Service!ServiceNext, Service!Serve
<1>6. CASE publishArm
  <2>1. phase \in {"StartReq", "CancelReq"}
    BY <1>6 DEF publishArm, IInv, PhaseFitsPlace, Requests
  <2>2. Service!listen \/ Service!abandon
    BY <1>6, <2>1 DEF publishArm, Service!listen, Service!abandon
  <2> QED
    BY <2>2 DEF Service!ServiceNext, Service!Serve
<1>7. CASE cancelLearn
  BY <1>7 DEF cancelLearn
<1>8. CASE publishCancel
  <2>1. Service!idle
    BY <1>8 DEF publishCancel, Service!idle, Service!Requests, IInv, PhaseFitsPlace, Requests
  <2> QED
    BY <2>1 DEF Service!ServiceNext, Service!Serve
<1>9. CASE pollLearn
  <2>1. pc = "listen" /\ pc' # "publishArm" /\ UNCHANGED <<api, session, history>>
    BY <1>9 DEF pollLearn
  <2> QED
    BY <2>1
<1>10. CASE publishCode
  <2>1. phase # "Listening" => UNCHANGED Service!serviceVars
    BY <1>10 DEF publishCode
  <2>2. phase = "Listening" => Service!answer
    BY <1>10 DEF publishCode, Service!answer, Service!Outcomes, IInv, TypeOK, DriverFitsPlace,
                 StartsCovered
  <2> QED
    BY <2>1, <2>2 DEF Service!ServiceNext, Service!Serve
<1>11. CASE publishFail
  <2>1. phase # "Listening" => UNCHANGED Service!serviceVars
    BY <1>11 DEF publishFail
  <2>2. phase = "Listening" => Service!answer
    BY <1>11 DEF publishFail, Service!answer, Service!Outcomes, IInv, TypeOK, StartsCovered
  <2> QED
    BY <2>1, <2>2 DEF Service!ServiceNext, Service!Serve
<1>12. CASE UNCHANGED vars
  BY <1>12 DEF vars
<1> QED
  BY <1>1, <1>2, <1>3, <1>4, <1>5, <1>6, <1>7, <1>8, <1>9, <1>10, <1>11, <1>12
     DEF Next, LoopStep

\* The handlers, the interrupt and the loop task together keep to the abstract learn
\* service: the phase a page polls moves as LearnService says, a session is announced
\* only when it was begun for a request, and each outcome is of the session announced
\* (web_config_api.cpp:369-416).
THEOREM ImplementsService == Spec => Service!ServiceSpec
<1>1. Init => Service!ServiceInit
  BY DEF Init, Service!ServiceInit
<1>2. Init => StartsCovered
  BY DEF Init, StartsCovered
<1>3. Spec => []StartsCovered
  BY <1>2, StartsStep, Inductive, PTL DEF Spec
<1> QED
  BY <1>1, <1>3, Inductive, ServiceStep, PTL DEF Spec, Service!ServiceSpec
===============================================================================
