----------------------------- MODULE LearnUiProofs -----------------------------
(***************************************************************************)
(* Proofs about LearnService and LearnUi for any number of dialogs, other  *)
(* tabs and failed fetches: no session is answered twice, and no dialog    *)
(* shows an outcome from before it asked.                                  *)
(***************************************************************************)
EXTENDS LearnUi, TLAPS

-------------------------------------------------------------------------------
(* The learn service. *)

\* A session that has begun and is not announced was asked for by a request that waits.
ServiceInv ==
  /\ ServiceTypeOK /\ AnswersAreNew
  /\ answered <= session
  /\ fresh => phase \in Requests

LEMMA ServiceInitInv == ServiceInit => ServiceInv
<1> SUFFICES ASSUME ServiceInit PROVE ServiceInv
  OBVIOUS
<1>1. phase = "Idle" /\ session = 0 /\ answered = 0 /\ starts = 0 /\ fresh = FALSE
  BY DEF ServiceInit
<1>2. ServiceTypeOK
  BY <1>1 DEF ServiceTypeOK, Phases
<1>3. AnswersAreNew /\ answered <= session /\ (fresh => phase \in Requests)
  BY <1>1 DEF AnswersAreNew
<1> QED
  BY <1>2, <1>3 DEF ServiceInv

LEMMA ServiceNextInv == ServiceInv /\ [ServiceNext]_serviceVars => ServiceInv'
<1> SUFFICES ASSUME ServiceInv, [ServiceNext]_serviceVars PROVE ServiceInv'
  OBVIOUS
<1> USE DEF ServiceInv, ServiceTypeOK, AnswersAreNew
<1>1. CASE start \/ cancel
  BY <1>1 DEF start, cancel, Phases, Requests
<1>2. CASE begin
  BY <1>2 DEF begin, Phases, Requests
<1>3. CASE listen \/ abandon
  BY <1>3 DEF listen, abandon, Phases, Requests
<1>4. CASE idle
  BY <1>4 DEF idle, Phases, Requests
<1>5. CASE answer
  BY <1>5 DEF answer, Phases, Requests, Outcomes
<1>6. CASE UNCHANGED serviceVars
  BY <1>6 DEF serviceVars
<1> QED
  BY <1>1, <1>2, <1>3, <1>4, <1>5, <1>6 DEF ServiceNext, Serve

\* No outcome of a session is published twice, whatever requests replace each other
\* while it is carried out (web_config_api.cpp:381-472).
THEOREM AnswersNew == ServiceSpec => [](ServiceTypeOK /\ AnswersAreNew)
<1>1. ServiceInv => ServiceTypeOK /\ AnswersAreNew
  BY DEF ServiceInv
<1> QED
  BY <1>1, ServiceInitInv, ServiceNextInv, PTL DEF ServiceSpec

-------------------------------------------------------------------------------
(* The inductive invariant of the dialog. *)

\* The start of the dialog's call was answered.
Served == seq # 0 /\ calls[seq].at \in {"started", "timer", "poll", "answer"}

\* An outcome the dialog can be told, and one on its way to it, is from after it asked.
OutcomeIsLater ==
  /\ dialog.asked <= answered
  /\ Served /\ phase \in Outcomes => answered > dialog.asked
  /\ Served /\ calls[seq].at = "answer" /\ calls[seq].kind # "Listening"
       => calls[seq].n > dialog.asked

Inv == TypeOK /\ ServiceInv /\ OutcomeIsLater /\ ShownWasAskedFor

\* Every step of the page is a step of the service, or leaves it alone.
LEMMA PageServes == Next => [ServiceNext]_serviceVars
<1> SUFFICES ASSUME Next PROVE [ServiceNext]_serviceVars
  OBVIOUS
<1>1. CASE UserStep
  BY <1>1 DEF UserStep, open, retry, arm, close, save, saved, leave
<1>2. CASE \E k \in Arms : CallStep(k) \/ fetchFails(k)
  BY <1>2 DEF CallStep, deliverStart, poll, handleLearnPoll, receive, fetchFails, ServiceNext
<1>3. CASE deliverCancel \/ otherTab \/ Device
  BY <1>3 DEF deliverCancel, otherTab, Device, ServiceNext
<1> QED
  BY <1>1, <1>2, <1>3 DEF Next

\* The page, its dialogs and the other tabs implement the service as seen from the API.
THEOREM PageUsesService == Spec => ServiceSpec
<1>1. Init => ServiceInit
  BY DEF Init
<1>2. [Next]_vars => [ServiceNext]_serviceVars
  BY PageServes DEF vars
<1> QED
  BY <1>1, <1>2, PTL DEF Spec, ServiceSpec

-------------------------------------------------------------------------------
LEMMA InitInv == Init => Inv
<1> SUFFICES ASSUME Init PROVE Inv
  OBVIOUS
<1>1. ServiceInv
  BY ServiceInitInv DEF Init
<1>2. TypeOK
  <2>1. NoDialog \in [step : Steps, shown : Nat, asked : Nat, alone : BOOLEAN]
        /\ NoCall \in [at : Stages, n : Nat, kind : Outcomes \cup {"Listening"}]
    BY DEF NoDialog, NoCall, Steps, Stages
  <2>2. 0 \in 0 .. MaxArms /\ 0 \in 0 .. MaxOthers /\ 0 \in 0 .. MaxFailures
    BY UiAssumption
  <2>3. "none" \in Fates
    BY DEF Fates
  <2> QED
    BY <1>1, <2>1, <2>2, <2>3 DEF Init, TypeOK, ServiceInv
<1>3. OutcomeIsLater /\ ShownWasAskedFor
  BY DEF Init, ServiceInit, NoDialog, OutcomeIsLater, Served, ShownWasAskedFor
<1> QED
  BY <1>1, <1>2, <1>3 DEF Inv

LEMMA ArmInv == Inv /\ arm => TypeOK' /\ OutcomeIsLater' /\ ShownWasAskedFor'
<1> SUFFICES ASSUME Inv, arm PROVE TypeOK' /\ OutcomeIsLater' /\ ShownWasAskedFor'
  OBVIOUS
<1>1. arms + 1 \in Arms /\ arms + 1 # 0 /\ arms + 1 \in 0 .. MaxArms
  BY UiAssumption DEF arm, Inv, TypeOK, Arms
<1>2. calls'[arms + 1].at = "start"
  BY <1>1 DEF arm, NoCall, Inv, TypeOK
<1>3. dialog'.step = "listen" /\ dialog'.asked = answered /\ dialog'.shown = 0
  BY DEF arm
<1>4. TypeOK'
  <2>1. calls' \in [Arms -> [at : Stages, n : Nat, kind : Outcomes \cup {"Listening"}]]
    BY <1>1 DEF arm, Inv, TypeOK, NoCall, Stages
  <2>2. dialog' \in [step : Steps, shown : Nat, asked : Nat, alone : BOOLEAN]
    BY DEF arm, Inv, TypeOK, ServiceTypeOK, Steps
  <2> QED
    BY <1>1, <2>1, <2>2 DEF arm, Inv, TypeOK, serviceVars, ServiceTypeOK, network
<1>5. OutcomeIsLater'
  BY <1>1, <1>2, <1>3 DEF arm, Inv, TypeOK, ServiceTypeOK, serviceVars, OutcomeIsLater, Served
<1>6. ShownWasAskedFor'
  BY <1>3 DEF ShownWasAskedFor
<1> QED
  BY <1>4, <1>5, <1>6

LEMMA CancelType ==
  ASSUME TypeOK, NEW listening, cancelLearn(listening)
  PROVE  polling' \in BOOLEAN /\ cancels' \in Nat
<1>1. CASE listening
  <2>1. polling' = FALSE /\ cancels' = cancels + 1
    BY <1>1 DEF cancelLearn
  <2>2. cancels + 1 \in Nat
    BY DEF TypeOK
  <2>3. cancels' \in Nat
    BY <2>1, <2>2
  <2> QED
    BY <2>1, <2>3
<1>2. CASE ~listening
  <2>1. polling' = polling /\ cancels' = cancels
    BY <1>2 DEF cancelLearn
  <2>2. polling \in BOOLEAN /\ cancels \in Nat
    BY DEF TypeOK
  <2> QED
    BY <2>1, <2>2
<1> QED
  BY <1>1, <1>2

\* The other things a user does orphan the dialog's call, or leave it alone.
LEMMA UserInv == Inv /\ UserStep => TypeOK' /\ OutcomeIsLater' /\ ShownWasAskedFor'
<1> SUFFICES ASSUME Inv, UserStep PROVE TypeOK' /\ OutcomeIsLater' /\ ShownWasAskedFor'
  OBVIOUS
<1> USE DEF Inv
<1>1. NoDialog \in [step : Steps, shown : Nat, asked : Nat, alone : BOOLEAN]
      /\ NoDialog.step = "none" /\ NoDialog.asked = 0 /\ 0 \in 0 .. MaxArms
  BY UiAssumption DEF NoDialog, Steps
<1>2. CASE open \/ retry
  BY <1>2, ArmInv DEF open, retry
<1>3. CASE close
  <2>1. polling' \in BOOLEAN /\ cancels' \in Nat
    BY <1>3, CancelType DEF close
  <2>2. dialog' \in [step : Steps, shown : Nat, asked : Nat, alone : BOOLEAN]
        /\ seq' \in 0 .. MaxArms /\ saving' \in Fates
    BY <1>1, <1>3 DEF close, TypeOK, Fates
  <2>3. TypeOK'
    BY <1>3, <2>1, <2>2 DEF close, TypeOK, ServiceTypeOK, serviceVars
  <2>4. OutcomeIsLater' /\ ShownWasAskedFor'
    BY <1>1, <1>3 DEF close, TypeOK, ServiceTypeOK, serviceVars, OutcomeIsLater, Served,
       ShownWasAskedFor
  <2> QED
    BY <2>3, <2>4
<1>4. CASE save
  BY <1>4 DEF save, TypeOK, ServiceTypeOK, serviceVars, network, Fates, OutcomeIsLater, Served,
     ShownWasAskedFor
<1>5. CASE saved
  <2>1. polling' \in BOOLEAN /\ cancels' \in Nat
    BY <1>5, CancelType DEF saved
  <2>2. dialog' \in [step : Steps, shown : Nat, asked : Nat, alone : BOOLEAN]
        /\ seq' \in 0 .. MaxArms /\ saving' \in Fates
    BY <1>1, <1>5 DEF saved, TypeOK, Fates
  <2>3. TypeOK'
    BY <1>5, <2>1, <2>2 DEF saved, TypeOK, ServiceTypeOK, serviceVars
  <2>4. OutcomeIsLater' /\ ShownWasAskedFor'
    BY <1>1, <1>5 DEF saved, TypeOK, ServiceTypeOK, serviceVars, OutcomeIsLater, Served,
       ShownWasAskedFor
  <2> QED
    BY <2>3, <2>4
<1>6. CASE leave
  <2>1. TypeOK'
    BY <1>1, <1>6 DEF leave, TypeOK, ServiceTypeOK, serviceVars, network, Fates, NoCall, Stages
  <2>2. OutcomeIsLater' /\ ShownWasAskedFor'
    BY <1>1, <1>6 DEF leave, TypeOK, ServiceTypeOK, serviceVars, OutcomeIsLater, Served,
       ShownWasAskedFor
  <2> QED
    BY <2>1, <2>2
<1> QED
  BY <1>2, <1>3, <1>4, <1>5, <1>6 DEF UserStep

\* A call that ends, or goes back to its timer, has no answer under way.
LEMMA CallRests ==
  ASSUME TypeOK, NEW k \in Arms, NEW c, calls' = [calls EXCEPT ![k] = c],
         c.at \in {"none", "failed"} \/ (c.at = "timer" /\ calls[k].at \in {"poll", "answer"}),
         seq' = seq
  PROVE  /\ seq # 0 /\ calls'[seq].at = "answer" => calls'[seq] = calls[seq]
         /\ Served' => Served
<1>1. k # 0 /\ calls'[k] = c /\ \A j \in Arms : j # k => calls'[j] = calls[j]
  BY DEF TypeOK, Arms
<1>2. seq # 0 => seq \in Arms
  BY UiAssumption DEF TypeOK, Arms
<1>3. CASE seq = k
  BY <1>1, <1>3 DEF Served
<1>4. CASE seq # k
  BY <1>1, <1>2, <1>4 DEF Served
<1> QED
  BY <1>3, <1>4

\* A call that makes a step keeps its type, and the outcome it is told, by a service that
\* has begun a session since the start, is later than the one before the dialog asked.
LEMMA CallInv ==
  ASSUME Inv, NEW k \in Arms, CallStep(k) \/ fetchFails(k)
  PROVE  TypeOK' /\ OutcomeIsLater' /\ ShownWasAskedFor'
<1> USE DEF Inv
<1> DEFINE Call == [at : Stages, n : Nat, kind : Outcomes \cup {"Listening"}]
<1>1. NoCall \in Call /\ NoCall.at = "none" /\ k # 0 /\ calls \in [Arms -> Call]
  BY DEF NoCall, Stages, Arms, TypeOK
<1>2. CASE deliverStart(k)
  <2>1. calls' \in [Arms -> Call]
    BY <1>1, <1>2 DEF deliverStart, become, Stages
  <2>2. phase' = "StartReq" /\ starts' \in Nat /\ UNCHANGED <<session, fresh, answered>>
    BY <1>2 DEF deliverStart, start, TypeOK, ServiceTypeOK
  <2>3. TypeOK'
    BY <1>2, <2>1, <2>2 DEF deliverStart, TypeOK, ServiceTypeOK, Phases, Requests, network
  <2>4. OutcomeIsLater'
    <3>1. seq' # 0 /\ calls'[seq'].at = "answer" => calls'[seq'] = calls[seq]
      BY <1>1, <1>2 DEF deliverStart, become, TypeOK, Arms
    <3> QED
      BY <1>2, <2>2, <3>1 DEF deliverStart, OutcomeIsLater, Served, Outcomes
  <2>5. ShownWasAskedFor'
    BY <1>2 DEF deliverStart, ShownWasAskedFor
  <2> QED
    BY <2>3, <2>4, <2>5
<1>3. CASE poll(k)
  <2>1. calls' \in [Arms -> Call]
    BY <1>1, <1>3 DEF poll, become, Stages
  <2>2. TypeOK' /\ ShownWasAskedFor'
    BY <1>3, <2>1 DEF poll, TypeOK, ServiceTypeOK, serviceVars, network, ShownWasAskedFor
  <2>3. OutcomeIsLater'
    <3>1. seq # 0 /\ calls'[seq].at = "answer" => calls'[seq] = calls[seq]
      BY <1>1, <1>3 DEF poll, become, TypeOK, Arms
    <3>2. Served' => Served
      BY <1>1, <1>3 DEF poll, become, Served, TypeOK, Arms
    <3> QED
      BY <1>3, <3>1, <3>2 DEF poll, serviceVars, OutcomeIsLater, Served
  <2> QED
    BY <2>2, <2>3
<1>4. CASE handleLearnPoll(k)
  <2>1. calls' \in [Arms -> Call]
    BY <1>1, <1>4 DEF handleLearnPoll, become, Stages, TypeOK, ServiceTypeOK
  <2>2. TypeOK' /\ ShownWasAskedFor'
    BY <1>4, <2>1 DEF handleLearnPoll, TypeOK, ServiceTypeOK, serviceVars, network,
       ShownWasAskedFor
  <2>3. OutcomeIsLater'
    <3>1. CASE seq = k
      <4>1. Served /\ calls'[k].n = answered
            /\ calls'[k].kind = IF phase \in Outcomes THEN phase ELSE "Listening"
        BY <1>1, <1>4, <3>1 DEF handleLearnPoll, become, Served
      <4> QED
        BY <1>4, <3>1, <4>1 DEF handleLearnPoll, serviceVars, OutcomeIsLater
    <3>2. CASE seq # k
      <4>1. seq # 0 => calls'[seq] = calls[seq]
        BY <1>1, <1>4, <3>2 DEF handleLearnPoll, become, TypeOK, Arms
      <4> QED
        BY <1>4, <4>1 DEF handleLearnPoll, serviceVars, OutcomeIsLater, Served
    <3> QED
      BY <3>1, <3>2
  <2> QED
    BY <2>2, <2>3
<1>5. CASE receive(k)
  <2>1. /\ calls[k].at = "answer" /\ calls[k] \in Call
        /\ \/ calls' = [calls EXCEPT ![k] = NoCall]
           \/ calls' = [calls EXCEPT ![k] = [calls[k] EXCEPT !.at = "timer"]]
        /\ UNCHANGED <<serviceVars, seq, arms, saving, network>>
    BY <1>1, <1>5 DEF receive, become
  <2>2. calls' \in [Arms -> Call]
    BY <1>1, <2>1 DEF Stages
  <2>3. \/ dialog' = dialog
        \/ /\ seq = k /\ calls[k].kind # "Listening"
           /\ dialog'.shown = calls[k].n /\ dialog'.asked = dialog.asked
           /\ dialog' \in [step : Steps, shown : Nat, asked : Nat, alone : BOOLEAN]
    BY <1>5, <2>1 DEF receive, TypeOK, Steps
  <2>4. polling' \in BOOLEAN
    BY <1>5 DEF receive, TypeOK
  <2>5. TypeOK'
    BY <2>1, <2>2, <2>3, <2>4 DEF TypeOK, ServiceTypeOK, serviceVars, network
  <2>6. dialog'.asked = dialog.asked
    BY <2>3
  <2>7. OutcomeIsLater'
    <3>1. PICK c : /\ calls' = [calls EXCEPT ![k] = c]
                   /\ \/ c.at \in {"none", "failed"}
                      \/ c.at = "timer" /\ calls[k].at \in {"poll", "answer"}
      BY <1>1, <2>1
    <3>2. /\ seq # 0 /\ calls'[seq].at = "answer" => calls'[seq] = calls[seq]
          /\ Served' => Served
      BY <2>1, <3>1, CallRests
    <3> QED
      BY <2>1, <2>6, <3>1, <3>2 DEF serviceVars, OutcomeIsLater, Served
  <2>8. ShownWasAskedFor'
    BY <1>1, <2>1, <2>3 DEF ShownWasAskedFor, OutcomeIsLater, Served
  <2> QED
    BY <2>5, <2>7, <2>8
<1>6. CASE fetchFails(k)
  <2>1. /\ \/ calls' = [calls EXCEPT ![k] = NoCall]
           \/ calls' = [calls EXCEPT ![k] = [NoCall EXCEPT !.at = "failed"]]
           \/ /\ calls[k].at \in {"poll", "answer"}
              /\ calls' = [calls EXCEPT ![k] = [calls[k] EXCEPT !.at = "timer"]]
        /\ UNCHANGED <<serviceVars, dialog, seq, polling, arms, saving, cancels, others>>
        /\ failures' \in 0 .. MaxFailures
    BY <1>6, UiAssumption DEF fetchFails, become, TypeOK
  <2>2. calls' \in [Arms -> Call]
    BY <1>1, <2>1 DEF Stages, NoCall
  <2>3. TypeOK' /\ ShownWasAskedFor'
    BY <2>1, <2>2 DEF TypeOK, ServiceTypeOK, serviceVars, ShownWasAskedFor
  <2>4. OutcomeIsLater'
    <3>1. PICK c : /\ calls' = [calls EXCEPT ![k] = c]
                   /\ \/ c.at \in {"none", "failed"}
                      \/ c.at = "timer" /\ calls[k].at \in {"poll", "answer"}
      BY <1>1, <2>1 DEF NoCall
    <3>2. /\ seq # 0 /\ calls'[seq].at = "answer" => calls'[seq] = calls[seq]
          /\ Served' => Served
      BY <2>1, <3>1, CallRests
    <3> QED
      BY <2>1, <3>1, <3>2 DEF serviceVars, OutcomeIsLater, Served
  <2> QED
    BY <2>3, <2>4
<1> QED
  BY <1>2, <1>3, <1>4, <1>5, <1>6 DEF CallStep

\* Requests of other tabs and cancels on their way replace the phase; the device moves it
\* to an outcome only at the end of a session not yet answered.
LEMMA DeviceInv ==
  Inv /\ (deliverCancel \/ otherTab \/ Device)
    => TypeOK' /\ OutcomeIsLater' /\ ShownWasAskedFor'
<1> SUFFICES ASSUME Inv, deliverCancel \/ otherTab \/ Device
             PROVE  TypeOK' /\ OutcomeIsLater' /\ ShownWasAskedFor'
  OBVIOUS
<1> USE DEF Inv
<1>1. ServiceTypeOK' /\ UNCHANGED page
  BY PageServes, ServiceNextInv
     DEF Next, ServiceInv, deliverCancel, otherTab, Device
<1>2. TypeOK'
  BY <1>1, UiAssumption DEF deliverCancel, otherTab, Device, page, network, TypeOK
<1>3. ShownWasAskedFor'
  BY <1>1 DEF page, ShownWasAskedFor
<1>4. answered' >= answered /\ (phase' \in Outcomes => phase \in Outcomes \/ answered' > answered)
      /\ (answered' = answered \/ answered' > answered)
  BY DEF deliverCancel, otherTab, Device, start, cancel, Serve, begin, listen, abandon, idle,
         answer, Requests, Outcomes, ServiceInv, ServiceTypeOK, AnswersAreNew
<1>5. OutcomeIsLater'
  BY <1>1, <1>4 DEF page, OutcomeIsLater, Served, TypeOK, ServiceTypeOK
<1> QED
  BY <1>2, <1>3, <1>5

LEMMA NextInv == Inv /\ [Next]_vars => Inv'
<1> SUFFICES ASSUME Inv, [Next]_vars PROVE Inv'
  OBVIOUS
<1>1. CASE Next
  <2>1. ServiceInv'
    BY <1>1, PageServes, ServiceNextInv DEF Inv
  <2>2. TypeOK' /\ OutcomeIsLater' /\ ShownWasAskedFor'
    BY <1>1, UserInv, CallInv, DeviceInv DEF Next
  <2> QED
    BY <2>1, <2>2 DEF Inv
<1>2. CASE UNCHANGED vars
  BY <1>2 DEF vars, serviceVars, page, network, Inv, TypeOK, ServiceInv, ServiceTypeOK,
     AnswersAreNew, OutcomeIsLater, Served, ShownWasAskedFor
<1> QED
  BY <1>1, <1>2

LEMMA Invariance == Spec => []Inv
BY InitInv, NextInv, PTL DEF Spec

-------------------------------------------------------------------------------
(* The theorems. *)

\* Every variable of the dialog and of the service keeps its type.
THEOREM TypeCorrect == Spec => []TypeOK
BY Invariance, PTL DEF Inv

\* No dialog shows an outcome published before it asked, for any number of dialogs, loops
\* still alive, requests of other tabs and failed fetches (learn.js:109-121).
THEOREM ShownAskedFor == Spec => []ShownWasAskedFor
BY Invariance, PTL DEF Inv
===============================================================================
