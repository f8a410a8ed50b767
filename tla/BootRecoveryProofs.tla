-------------------------- MODULE BootRecoveryProofs --------------------------
(***************************************************************************)
(* Proofs about BootRecovery for every threshold, all hold times and any   *)
(* spacing of the polls: its type, when safe mode is entered, what the LED *)
(* says of it, and when a factory reset has been announced.                *)
(***************************************************************************)
EXTENDS BootRecovery, TLAPS

-------------------------------------------------------------------------------
(* The inductive invariant. *)

\* The stored counter is the number of boots counted, wherever the power fails.
CountIsCounted == counted = Least(count, Threshold)

\* A device that runs, or comes from a software restart, has no safe mode due.
NothingDue ==
  pc \in {"run", "restart"} \/ (pc \in {"reset", "begin"} /\ reason = "sw")
    => counted < Threshold

\* A request that is stored was asked for, and begin() has consumed it.
RequestIsAsked == (safeReq => asked) /\ (pc = "apply" => ~safeReq)

\* The LED was driven for the state shown, and a short press leaves no state behind.
LedShowsState ==
  pc = "run" =>
    /\ led = "blue" <=> ui = "SafeMode"
    /\ ~pressed => ui = IF safeMode THEN "SafeMode" ELSE "Normal"

\* A hold that was long enough at the last poll is on the LED; nothing polls in setup().
HoldIsShown ==
  /\ pc \in {"begin", "consume", "apply"} => ~pressed
  /\ pc = "run" /\ pressed /\ held >= SafeHold + gap => led \in {"orange", "red"}

Inv ==
  /\ TypeOK
  /\ CountIsCounted /\ NothingDue /\ RequestIsAsked /\ SafeModeIsEarned
  /\ LedShowsState /\ HoldIsShown

-------------------------------------------------------------------------------
(* What the operators return. *)

LEMMA LeastType ==
  ASSUME NEW x \in Nat, NEW y \in Nat
  PROVE  Least(x, y) \in 0 .. y
BY DEF Least

\* One more boot on the counter is one more boot counted, and enters safe mode when the
\* threshold is reached.
LEMMA OneMoreBoot ==
  ASSUME NEW c \in 0 .. MaxCount
  PROVE  LET d == evaluateBoot(c) IN
         /\ d.newCount \in 0 .. MaxCount
         /\ Least(Least(c, Threshold) + 1, Threshold) = Least(d.newCount, Threshold)
         /\ d.enterSafeMode <=> Least(d.newCount, Threshold) = Threshold
         /\ d.enterSafeMode \in BOOLEAN
<1> DEFINE n == IF c < MaxCount THEN c + 1 ELSE MaxCount
<1>1. evaluateBoot(c).newCount = n /\ evaluateBoot(c).enterSafeMode = (n >= Threshold)
  BY DEF evaluateBoot
<1>2. n \in 0 .. MaxCount
  BY RecoveryAssumption
<1>3. CASE n >= Threshold
  <2>1. Least(n, Threshold) = Threshold
    BY <1>2, <1>3, RecoveryAssumption DEF Least
  <2>2. Least(c, Threshold) + 1 >= Threshold /\ Least(c, Threshold) \in Nat
    BY <1>3, RecoveryAssumption DEF Least
  <2>3. Least(Least(c, Threshold) + 1, Threshold) = Threshold
    BY <2>2, RecoveryAssumption DEF Least
  <2> HIDE DEF n
  <2> QED
    BY <1>1, <1>2, <1>3, <2>1, <2>3
<1>4. CASE ~(n >= Threshold)
  <2>1. n = c + 1 /\ c + 1 < Threshold
    BY <1>4, RecoveryAssumption
  <2>2. Least(c, Threshold) = c /\ Least(n, Threshold) = n /\ n # Threshold
    BY <2>1, RecoveryAssumption DEF Least
  <2>3. Least(Least(c, Threshold) + 1, Threshold) = Least(n, Threshold)
    BY <2>1, <2>2
  <2> HIDE DEF n
  <2>4. (n >= Threshold) = FALSE
    BY <1>4
  <2>5. evaluateBoot(c).enterSafeMode = FALSE
    BY <1>1, <2>4
  <2> QED
    BY <1>1, <1>2, <2>2, <2>3, <2>5
<1> QED
  BY <1>3, <1>4

LEMMA ColourType ==
  ASSUME NEW state \in UiStates
  PROVE  /\ colour(state) \in Colours
         /\ colour(state) = "blue" <=> state = "SafeMode"
         /\ state = "SafeModeArmed" => colour(state) = "orange"
         /\ state = "FactoryArmed" => colour(state) = "red"
BY DEF colour, Colours, UiStates

\* render() keeps the types of what it writes.
LEMMA RenderType ==
  ASSUME TypeOK, NEW state \in UiStates, render(state)
  PROVE  /\ ui' = state /\ led' = colour(state) /\ led' \in Colours
         /\ status' = status /\ lastReal' \in {"setup", "healthy"}
BY ColourType DEF render, remembered, TypeOK, Statuses

-------------------------------------------------------------------------------
LEMMA InitInv == Init => Inv
<1> SUFFICES ASSUME Init PROVE Inv
  OBVIOUS
<1>1. TypeOK
  <2>1. 0 \in 0 .. MaxCount /\ 0 \in 0 .. StableRun /\ 0 \in 0 .. FactoryHold
        /\ 0 \in 0 .. MaxGap /\ 0 \in 0 .. Threshold
    BY RecoveryAssumption
  <2> QED
    BY <2>1 DEF Init, TypeOK, Places, UiStates, Statuses, Colours
<1>2. CountIsCounted /\ NothingDue
  BY RecoveryAssumption DEF Init, CountIsCounted, NothingDue, Least
<1>3. RequestIsAsked /\ SafeModeIsEarned /\ LedShowsState /\ HoldIsShown
  BY DEF Init, RequestIsAsked, SafeModeIsEarned, LedShowsState, HoldIsShown
<1> QED
  BY <1>1, <1>2, <1>3 DEF Inv

LEMMA BootInv == Inv /\ boot => Inv'
<1> SUFFICES ASSUME Inv, boot PROVE Inv'
  OBVIOUS
<1>1. TypeOK'
  <2>1. 0 \in 0 .. StableRun /\ 0 \in 0 .. FactoryHold /\ 0 \in 0 .. MaxGap
    BY RecoveryAssumption
  <2> QED
    BY <2>1 DEF Inv, boot, fresh, TypeOK, Places, UiStates, Statuses, Colours, nvs, history
<1>2. CountIsCounted' /\ NothingDue' /\ RequestIsAsked' /\ SafeModeIsEarned'
  BY DEF Inv, boot, fresh, nvs, history,
         CountIsCounted, NothingDue, RequestIsAsked, SafeModeIsEarned, Least
<1>3. LedShowsState' /\ HoldIsShown'
  BY DEF boot, fresh, LedShowsState, HoldIsShown
<1> QED
  BY <1>1, <1>2, <1>3 DEF Inv

LEMMA BeginInv == Inv /\ begin => Inv'
<1> SUFFICES ASSUME Inv, begin PROVE Inv'
  OBVIOUS
<1> DEFINE d == evaluateBoot(count)
<1>1. /\ d.newCount \in 0 .. MaxCount
      /\ Least(Least(count, Threshold) + 1, Threshold) = Least(d.newCount, Threshold)
      /\ d.enterSafeMode <=> Least(d.newCount, Threshold) = Threshold
      /\ d.enterSafeMode \in BOOLEAN
  BY OneMoreBoot DEF Inv, TypeOK
<1>2. CASE reason = "hard"
  <2>1. /\ count' = d.newCount /\ safeMode' = (d.enterSafeMode \/ safeReq)
        /\ counted' = Least(counted + 1, Threshold)
    BY <1>2 DEF begin, countBoot
  <2> HIDE DEF d
  <2>2. counted' = Least(count', Threshold)
    BY <1>1, <2>1 DEF Inv, CountIsCounted
  <2>3. counted' \in 0 .. Threshold
    <3>1. counted + 1 \in Nat /\ Threshold \in Nat
      BY RecoveryAssumption DEF Inv, TypeOK
    <3> QED
      BY <2>1, <3>1, LeastType
  <2>4. safeMode' \in BOOLEAN /\ (counted' = Threshold => safeMode')
        /\ (safeMode' => counted' = Threshold \/ safeReq)
    BY <1>1, <2>1, <2>2 DEF Inv, TypeOK
  <2> QED
    BY <1>1, <1>2, <2>1, <2>2, <2>3, <2>4
       DEF begin, Inv, TypeOK, CountIsCounted, NothingDue, RequestIsAsked, SafeModeIsEarned,
           LedShowsState, HoldIsShown, Places, button, light
<1>3. CASE reason # "hard"
  <2>1. reason = "sw" /\ safeMode' = safeReq /\ UNCHANGED <<count, counted>>
    BY <1>3 DEF begin, countBoot, Inv, TypeOK
  <2>2. counted < Threshold /\ counted \in 0 .. Threshold
    BY <2>1 DEF Inv, TypeOK, NothingDue, begin
  <2> QED
    BY <2>1, <2>2, RecoveryAssumption
       DEF begin, Inv, TypeOK, CountIsCounted, NothingDue, RequestIsAsked, SafeModeIsEarned,
           LedShowsState, HoldIsShown, Places, button, light
<1> QED
  BY <1>2, <1>3

LEMMA ConsumeInv == Inv /\ consume => Inv'
<1> SUFFICES ASSUME Inv, consume PROVE Inv'
  OBVIOUS
<1>1. TypeOK'
  BY DEF consume, Inv, TypeOK, Places, button, light, history
<1>2. CountIsCounted' /\ NothingDue'
  BY DEF consume, Inv, CountIsCounted, NothingDue, history
<1>3. RequestIsAsked' /\ SafeModeIsEarned'
  BY DEF consume, Inv, RequestIsAsked, SafeModeIsEarned, history
<1>4. LedShowsState' /\ HoldIsShown'
  BY DEF consume, Inv, LedShowsState, HoldIsShown, button
<1> QED
  BY <1>1, <1>2, <1>3, <1>4 DEF Inv

LEMMA ApplyInv == Inv /\ apply => Inv'
<1> SUFFICES ASSUME Inv, apply PROVE Inv'
  OBVIOUS
<1> DEFINE shown == IF safeMode THEN "SafeMode" ELSE "Normal"
<1>1. shown \in UiStates /\ render(shown)
  BY DEF apply, UiStates
<1>2. /\ ui' = shown /\ led' = colour(shown) /\ led' \in Colours
      /\ status' = status /\ lastReal' \in {"setup", "healthy"}
      /\ led' = "blue" <=> shown = "SafeMode"
  BY <1>1, RenderType, ColourType DEF Inv
<1>3. /\ count' \in 0 .. MaxCount /\ counted' \in 0 .. Threshold
      /\ counted' = Least(count', Threshold) /\ counted' < Threshold
      /\ asked' \in BOOLEAN
  <2>1. CASE safeMode
    <3>1. count' = 0 /\ counted' = 0 /\ asked' = FALSE
      BY <2>1 DEF apply
    <3>2. 0 \in 0 .. MaxCount /\ 0 \in 0 .. Threshold /\ 0 < Threshold
      BY RecoveryAssumption
    <3> QED
      BY <3>1, <3>2 DEF Least
  <2>2. CASE ~safeMode
    <3>1. count' = count /\ counted' = counted /\ asked' = asked
      BY <2>2 DEF apply, history
    <3>2. counted \in 0 .. Threshold /\ counted # Threshold
      BY <2>2 DEF apply, Inv, TypeOK, SafeModeIsEarned
    <3>3. counted < Threshold
      BY <3>2, RecoveryAssumption
    <3> QED
      BY <3>1, <3>2, <3>3 DEF Inv, TypeOK, CountIsCounted
  <2> QED
    BY <2>1, <2>2
<1>4. TypeOK'
  BY <1>1, <1>2, <1>3 DEF apply, Inv, TypeOK, Places, button
<1>5. CountIsCounted' /\ NothingDue' /\ RequestIsAsked' /\ SafeModeIsEarned'
  BY <1>3 DEF apply, Inv, CountIsCounted, NothingDue, RequestIsAsked, SafeModeIsEarned
<1>6. LedShowsState'
  BY <1>2 DEF apply, LedShowsState
<1>7. HoldIsShown'
  BY DEF apply, Inv, HoldIsShown, button
<1> QED
  BY <1>4, <1>5, <1>6, <1>7 DEF Inv

LEMMA TickInv == Inv /\ tick => Inv'
<1> SUFFICES ASSUME Inv, tick PROVE Inv'
  OBVIOUS
<1>1. /\ gap' \in 0 .. MaxGap /\ gap \in 0 .. MaxGap
      /\ gap' = gap + 1 \/ gap' = MaxGap
      /\ held \in 0 .. FactoryHold
      /\ held' \in 0 .. FactoryHold /\ held' <= held + 1
      /\ uptime' \in 0 .. StableRun
  BY RecoveryAssumption DEF tick, Inv, TypeOK, Least
<1>2. TypeOK'
  BY <1>1 DEF tick, Inv, TypeOK, nvs, light, history
<1>3. CountIsCounted' /\ NothingDue' /\ RequestIsAsked' /\ SafeModeIsEarned' /\ LedShowsState'
  BY DEF tick, Inv, nvs, light, history,
         CountIsCounted, NothingDue, RequestIsAsked, SafeModeIsEarned, LedShowsState
<1>4. HoldIsShown'
  BY <1>1, RecoveryAssumption DEF tick, Inv, TypeOK, HoldIsShown, light
<1> QED
  BY <1>2, <1>3, <1>4 DEF Inv

LEMMA ToggleInv == Inv /\ toggle => Inv'
BY DEF toggle, Inv, TypeOK, CountIsCounted, NothingDue, RequestIsAsked, SafeModeIsEarned,
       LedShowsState, HoldIsShown, nvs, light, history

LEMMA StatusInv == Inv /\ statusChange => Inv'
BY DEF statusChange, Inv, TypeOK, CountIsCounted, NothingDue, RequestIsAsked,
       SafeModeIsEarned, LedShowsState, HoldIsShown, nvs, button, history

\* The counter and the boots counted are cleared together.
LEMMA ClearCount ==
  ASSUME Inv, clearCount
  PROVE  /\ count' \in 0 .. MaxCount /\ cleared' \in BOOLEAN /\ counted' \in 0 .. Threshold
         /\ counted' = Least(count', Threshold)
         /\ counted < Threshold => counted' < Threshold
<1>1. CASE ~cleared /\ uptime >= StableRun
  <2>1. count' = 0 /\ cleared' = TRUE /\ counted' = 0
    BY <1>1 DEF clearCount
  <2> QED
    BY <2>1, RecoveryAssumption DEF Least
<1>2. CASE ~(~cleared /\ uptime >= StableRun)
  <2>1. count' = count /\ cleared' = cleared /\ counted' = counted
    BY <1>2 DEF clearCount
  <2> QED
    BY <2>1 DEF Inv, TypeOK, CountIsCounted
<1> QED
  BY <1>1, <1>2

LEMMA PollInv == Inv /\ poll => Inv'
<1> SUFFICES ASSUME Inv, poll PROVE Inv'
  OBVIOUS
<1>1. /\ pc = "run" /\ counted < Threshold
      /\ pressed' = down /\ gap' = 0 /\ held' = IF pressed /\ down THEN held ELSE 0
      /\ UNCHANGED <<reason, safeMode, uptime, down>>
  BY DEF poll, Inv, NothingDue
<1>2. pressed' \in BOOLEAN /\ gap' \in 0 .. MaxGap /\ held' \in 0 .. FactoryHold
  BY <1>1, RecoveryAssumption DEF Inv, TypeOK
<1>3. ASSUME clearCount, showButton, UNCHANGED <<safeReq, asked, pc>> PROVE Inv'
  <2> DEFINE shown == IF down /\ pressed /\ held >= FactoryHold THEN "FactoryArmed"
                      ELSE IF down /\ pressed /\ held >= SafeHold THEN "SafeModeArmed"
                      ELSE IF ~down /\ pressed THEN IF safeMode THEN "SafeMode" ELSE "Normal"
                      ELSE ui
  <2>1. shown \in UiStates /\ render(shown)
    BY <1>3 DEF showButton, Inv, TypeOK, UiStates
  <2>2. /\ ui' = shown /\ led' = colour(shown) /\ led' \in Colours
        /\ status' = status /\ lastReal' \in {"setup", "healthy"}
        /\ led' = "blue" <=> shown = "SafeMode"
    BY <2>1, RenderType, ColourType DEF Inv
  <2>3. TypeOK'
    BY <1>1, <1>2, <1>3, <2>1, <2>2, ClearCount DEF Inv, TypeOK
  <2>4. CountIsCounted' /\ NothingDue' /\ RequestIsAsked' /\ SafeModeIsEarned'
    BY <1>1, <1>3, ClearCount
       DEF Inv, CountIsCounted, NothingDue, RequestIsAsked, SafeModeIsEarned
  <2>5. LedShowsState'
    BY <1>1, <2>2 DEF Inv, LedShowsState
  <2>6. HoldIsShown'
    <3> SUFFICES ASSUME pressed', held' >= SafeHold + gap' PROVE led' \in {"orange", "red"}
      BY <1>1, <1>3 DEF HoldIsShown
    <3>1. pressed /\ down /\ held >= SafeHold
      BY <1>1, RecoveryAssumption
    <3>2. shown \in {"FactoryArmed", "SafeModeArmed"}
      BY <3>1
    <3> QED
      BY <2>1, <2>2, <3>2, ColourType
  <2> QED
    BY <2>3, <2>4, <2>5, <2>6 DEF Inv
<1>4. CASE requestSafeModeReboot
  <2>1. clearCount /\ safeReq' = TRUE /\ asked' = TRUE /\ pc' = "restart" /\ UNCHANGED light
    BY <1>4 DEF requestSafeModeReboot
  <2> QED
    BY <1>1, <1>2, <2>1, ClearCount
       DEF Inv, TypeOK, CountIsCounted, NothingDue, RequestIsAsked, SafeModeIsEarned,
           LedShowsState, HoldIsShown, Places, light
<1>5. CASE factoryReset
  <2>1. /\ count' = 0 /\ safeReq' = FALSE /\ counted' = 0 /\ asked' = FALSE
        /\ pc' = "restart" /\ UNCHANGED <<cleared, light>>
    BY <1>5 DEF factoryReset
  <2>2. /\ 0 \in 0 .. MaxCount /\ 0 \in 0 .. Threshold /\ 0 < Threshold
        /\ Least(0, Threshold) = 0
    BY RecoveryAssumption DEF Least
  <2>3. TypeOK'
    BY <1>1, <1>2, <2>1, <2>2 DEF Inv, TypeOK, Places, light
  <2>4. CountIsCounted' /\ NothingDue' /\ RequestIsAsked' /\ SafeModeIsEarned'
    BY <2>1, <2>2 DEF CountIsCounted, NothingDue, RequestIsAsked, SafeModeIsEarned
  <2>5. LedShowsState' /\ HoldIsShown'
    BY <2>1 DEF LedShowsState, HoldIsShown
  <2> QED
    BY <2>3, <2>4, <2>5 DEF Inv
<1> QED
  BY <1>3, <1>4, <1>5 DEF poll

LEMMA RestartInv == Inv /\ (restart \/ hardReset) => Inv'
BY DEF restart, hardReset, Inv, TypeOK, CountIsCounted, NothingDue, RequestIsAsked,
       SafeModeIsEarned, LedShowsState, HoldIsShown, Places, nvs, button, light, history

LEMMA NextInv == Inv /\ [Next]_vars => Inv'
<1> SUFFICES ASSUME Inv, [Next]_vars PROVE Inv'
  OBVIOUS
<1>1. CASE UNCHANGED vars
  BY <1>1 DEF vars, nvs, button, light, history, Inv, TypeOK, CountIsCounted, NothingDue,
     RequestIsAsked, SafeModeIsEarned, LedShowsState, HoldIsShown
<1> QED
  BY <1>1, BootInv, BeginInv, ConsumeInv, ApplyInv, TickInv, ToggleInv, StatusInv, PollInv,
     RestartInv DEF Next

LEMMA Invariance == Spec => []Inv
BY InitInv, NextInv, PTL DEF Spec

-------------------------------------------------------------------------------
(* The theorems. *)

\* Every variable keeps its type: the counter saturates and holds are bounded
\* (recovery.cpp:27-149, ui.cpp:10-61).
THEOREM TypeCorrect == Spec => []TypeOK
BY Invariance, PTL DEF Inv

\* Safe mode is entered on the boot that reaches the threshold, and otherwise only on a
\* request, wherever the power fails in between (recovery.cpp:112-133).
THEOREM SafeModeEarned == Spec => []SafeModeIsEarned
BY Invariance, PTL DEF Inv

\* While the button is up the LED is blue exactly in safe mode (ui.cpp:28-61).
THEOREM LedTells == Spec => []LedTellsSafeMode
<1>1. Inv => LedTellsSafeMode
  BY DEF Inv, LedShowsState, LedTellsSafeMode
<1> QED
  BY <1>1, Invariance, PTL

\* A release erases the device unannounced only right after a pass of the loop that was
\* longer than the two holds are apart, whatever the passes before it were
\* (recovery.cpp:73-97).
THEOREM FactoryResetAnnounced == Spec => FactoryResetIsAnnounced
<1>1. ASSUME Inv, [Next]_vars, pc = "run", pc' = "restart", ~safeReq'
      PROVE  led \in {"orange", "red"} \/ gap > FactoryHold - SafeHold
  <2>1. CASE poll
    <3>1. factoryReset
      BY <1>1, <2>1 DEF poll, requestSafeModeReboot
    <3>2. pressed /\ held >= FactoryHold /\ held \in Nat /\ gap \in 0 .. MaxGap
      BY <1>1, <3>1, RecoveryAssumption DEF factoryReset, released, Inv, TypeOK
    <3>3. gap > FactoryHold - SafeHold \/ held >= SafeHold + gap
      BY <3>2, RecoveryAssumption
    <3> QED
      BY <1>1, <3>2, <3>3 DEF Inv, HoldIsShown
  <2>2. ~(boot \/ begin \/ consume \/ apply \/ tick \/ toggle \/ statusChange
          \/ restart \/ hardReset \/ UNCHANGED vars)
    BY <1>1 DEF boot, begin, consume, apply, tick, toggle, statusChange, restart, hardReset, vars
  <2> QED
    BY <1>1, <2>1, <2>2 DEF Next
<1>2. Inv /\ [Next]_vars =>
        [pc = "run" /\ pc' = "restart" /\ ~safeReq' =>
           led \in {"orange", "red"} \/ gap > FactoryHold - SafeHold]_vars
  BY <1>1
<1> QED
  BY <1>2, Invariance, PTL DEF Spec, FactoryResetIsAnnounced
===============================================================================
