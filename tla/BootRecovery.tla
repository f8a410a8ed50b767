----------------------------- MODULE BootRecovery -----------------------------
(***************************************************************************)
(* Boot-loop recovery, the BOOT button and the status LED                  *)
(* (src/recovery.cpp, src/lib/runtime/boot_recovery.cpp, src/ui.cpp), from *)
(* reset to reset.                                                         *)
(*                                                                         *)
(* Every NVS write commits on its own, so the power may fail between any   *)
(* two of them: begin() is one step per commit.  Time passes in units; the *)
(* loop task polls at any moment, the button moves in between, and nothing *)
(* bounds the time from one poll to the next: recovery::poll comes after   *)
(* whatever blocks loop(), and the watchdog lets it block for longer than  *)
(* any hold.                                                               *)
(*                                                                         *)
(* An operator named Bug... is a plausible mistake in the definition that  *)
(* follows it, kept to show that the properties reject it.                 *)
(***************************************************************************)
EXTENDS Integers

CONSTANTS
  Threshold,   (* kSafeModeBootThreshold                                    *)
  MaxCount,    (* kMaxBootCount, where the counter saturates                *)
  StableRun,   (* kStableRunMs, in units of time                            *)
  SafeHold,    (* kSafeHoldMs                                               *)
  FactoryHold, (* kFactoryHoldMs                                            *)
  MaxGap       (* how far the time since the last poll is counted            *)

ASSUME RecoveryAssumption ==
  /\ Threshold \in Nat \ {0} /\ MaxCount \in Nat /\ MaxCount >= Threshold
  /\ StableRun \in Nat \ {0}
  /\ SafeHold \in Nat \ {0} /\ FactoryHold \in Nat /\ SafeHold < FactoryHold
  /\ MaxGap \in Nat /\ FactoryHold < SafeHold + MaxGap

VARIABLES
  count,     (* NVS key "count", 0 when absent                              *)
  safeReq,   (* NVS key "safereq"                                           *)
  pc,        (* how far setup() or a restart has come                       *)
  reason,    (* esp_reset_reason(): a software restart or any other         *)
  safeMode,  (* g_safeMode                                                  *)
  cleared,   (* g_cleared                                                   *)
  uptime,    (* time since begin(), counted up to StableRun                 *)
  pressed,   (* pressed of pollButton                                       *)
  held,      (* now - pressStart, counted up to FactoryHold                 *)
  down,      (* the button                                                  *)
  gap,       (* time since the last poll, counted up to MaxGap              *)
  ui,        (* g_state of ui.cpp                                           *)
  status,    (* homeSpan.getStatus(), with a long-lived OTA as its own      *)
  lastReal,  (* g_lastRealStatus                                            *)
  led,       (* the colour last driven                                      *)
  counted,   (* history: boots by reset or power that reached the counter since
                the last stable run, safe mode or factory reset, up to Threshold *)
  asked      (* history: a long press asked for safe mode and no safe mode
                has run since                                               *)

nvs     == <<count, safeReq>>
button  == <<pressed, held, down, gap>>
light   == <<ui, status, lastReal, led>>
history == <<counted, asked>>
vars    == <<nvs, pc, reason, safeMode, cleared, uptime, button, light, history>>

Places   == {"reset", "begin", "consume", "apply", "run", "restart"}
UiStates == {"Normal", "SafeModeArmed", "FactoryArmed", "SafeMode"}
Statuses == {"setup", "healthy", "ota", "otaStale"}
Colours  == {"magenta", "green", "orange", "red", "blue"}

Least(x, y) == IF x < y THEN x ELSE y

Init ==
  /\ count = 0 /\ safeReq = FALSE
  /\ pc = "reset" /\ reason = "hard"
  /\ safeMode = FALSE /\ cleared = FALSE /\ uptime = 0
  /\ pressed = FALSE /\ held = 0 /\ down \in BOOLEAN /\ gap = 0
  /\ ui = "Normal" /\ status = "setup" /\ lastReal = "setup" /\ led = "magenta"
  /\ counted = 0 /\ asked = FALSE

-------------------------------------------------------------------------------
(* The status LED. *)

\* The HomeSpan status render() goes by, and the one it remembers: HomeSpan never
\* clears an OTA that failed, so one that lasts gives way to the status before it.
effective(last) == IF status = "otaStale" THEN last ELSE status
remembered(last) == IF status \in {"ota", "otaStale"} THEN last ELSE status

BugStatusFirst(state) ==
  IF status = "setup" THEN "magenta"
  ELSE CASE state = "SafeModeArmed" -> "orange"
         [] state = "FactoryArmed"  -> "red"
         [] state = "SafeMode"      -> "blue"
         [] OTHER -> IF effective(lastReal) = "healthy" THEN "green" ELSE "magenta"

\* The colour of a state; green stands for off when the user has the LED disabled.
colour(state) ==
  CASE state = "SafeModeArmed" -> "orange"
    [] state = "FactoryArmed"  -> "red"
    [] state = "SafeMode"      -> "blue"
    [] OTHER -> IF effective(lastReal) = "healthy" THEN "green" ELSE "magenta"

\* setUiState() and updateUI() draw at once.
render(state) ==
  /\ ui' = state
  /\ led' = colour(state)
  /\ lastReal' = IF state = "Normal" THEN remembered(lastReal) ELSE lastReal
  /\ UNCHANGED status

\* HomeSpan's status changes; an OTA that lasts becomes stale, and one that succeeds
\* ends in a restart.
statusChange ==
  /\ pc = "run"
  /\ status' \in Statuses \ {status}
  /\ status' = "otaStale" => status = "ota"
  /\ UNCHANGED <<nvs, pc, reason, safeMode, cleared, uptime, button, ui, lastReal, led, history>>

-------------------------------------------------------------------------------
(* setup() *)

\* RAM after a reset: initUI() sets the state Normal before recovery begins, and the
\* static variables of pollButton start again.
fresh ==
  /\ safeMode' = FALSE /\ cleared' = FALSE /\ uptime' = 0
  /\ pressed' = FALSE /\ held' = 0 /\ gap' = 0
  /\ ui' = "Normal" /\ status' = "setup" /\ lastReal' = "setup" /\ led' = "magenta"

\* setup() up to recovery::begin(); a power cut in it is a boot nobody counts.
boot ==
  /\ pc = "reset"
  /\ fresh
  /\ pc' = "begin"
  /\ UNCHANGED <<nvs, reason, down, history>>

BugCountUnbounded(c) == [newCount |-> c + 1, enterSafeMode |-> c + 1 >= Threshold]

\* evaluateBoot: the count saturates, and the third boot enters safe mode.
evaluateBoot(c) ==
  LET newCount == IF c < MaxCount THEN c + 1 ELSE MaxCount
  IN  [newCount |-> newCount, enterSafeMode |-> newCount >= Threshold]

BugCountsRestarts ==
  LET d == evaluateBoot(count)
  IN  count' = d.newCount /\ safeMode' = (d.enterSafeMode \/ safeReq)
      /\ counted' = IF reason = "hard" THEN Least(counted + 1, Threshold) ELSE counted

\* The count of a boot that was no software restart, committed.
countBoot ==
  LET d == evaluateBoot(count)
  IN  IF reason = "hard"
      THEN /\ count' = d.newCount
           /\ safeMode' = (d.enterSafeMode \/ safeReq)
           /\ counted' = Least(counted + 1, Threshold)
      ELSE /\ safeMode' = safeReq
           /\ UNCHANGED <<count, counted>>

begin ==
  /\ pc = "begin"
  /\ countBoot
  /\ pc' = "consume"
  /\ UNCHANGED <<safeReq, reason, cleared, uptime, button, light, asked>>

\* eraseKey(KEY_SAFEREQ), committed: the request is good for one boot.
consume ==
  /\ pc = "consume"
  /\ safeReq' = FALSE
  /\ pc' = "apply"
  /\ UNCHANGED <<count, reason, safeMode, cleared, uptime, button, light, history>>

\* The rest of begin(): safe mode resets the count, committed, and replaces the network
\* settings of this run; setLedEnabled() draws.
apply ==
  /\ pc = "apply"
  /\ IF safeMode
     THEN /\ count' = 0 /\ render("SafeMode")
          /\ counted' = 0 /\ asked' = FALSE
     ELSE UNCHANGED count /\ render("Normal") /\ UNCHANGED history
  /\ pc' = "run"
  /\ UNCHANGED <<safeReq, reason, safeMode, cleared, uptime, button>>

-------------------------------------------------------------------------------
(* loop() *)

\* Time passes, in a pass that blocks or between two.
tick ==
  /\ pc = "run"
  /\ gap' = Least(gap + 1, MaxGap)
  /\ uptime' = Least(uptime + 1, StableRun)
  /\ held' = IF pressed THEN Least(held + 1, FactoryHold) ELSE 0
  /\ UNCHANGED <<nvs, pc, reason, safeMode, cleared, pressed, down, light, history>>

toggle ==
  /\ down' = ~down
  /\ UNCHANGED <<nvs, pc, reason, safeMode, cleared, uptime, pressed, held, gap, light, history>>

\* shouldClearCounter: a run that has lasted clears the count, once, committed.
clearCount ==
  IF ~cleared /\ uptime >= StableRun
  THEN count' = 0 /\ cleared' = TRUE /\ counted' = 0
  ELSE UNCHANGED <<count, cleared, counted>>

BugOnlyResetShown ==
  render(IF down /\ pressed /\ held >= FactoryHold THEN "FactoryArmed"
         ELSE IF ~down /\ pressed THEN IF safeMode THEN "SafeMode" ELSE "Normal"
         ELSE ui)

\* pollButton in a poll that ends in no restart, and updateUI(): a long hold is shown,
\* a short one ends where it began.
showButton ==
  render(IF down /\ pressed /\ held >= FactoryHold THEN "FactoryArmed"
         ELSE IF down /\ pressed /\ held >= SafeHold THEN "SafeModeArmed"
         ELSE IF ~down /\ pressed THEN IF safeMode THEN "SafeMode" ELSE "Normal"
         ELSE ui)

released(hold) == ~down /\ pressed /\ held >= hold

\* writeU8(KEY_SAFEREQ, 1), committed, then a software restart.
requestSafeModeReboot ==
  /\ released(SafeHold) /\ ~released(FactoryHold)
  /\ clearCount
  /\ safeReq' = TRUE /\ asked' = TRUE
  /\ pc' = "restart"
  /\ UNCHANGED light

\* nvs_flash_erase, then a software restart.
factoryReset ==
  /\ released(FactoryHold)
  /\ count' = 0 /\ safeReq' = FALSE
  /\ counted' = 0 /\ asked' = FALSE
  /\ pc' = "restart"
  /\ UNCHANGED <<cleared, light>>

\* poll(): the counter, then the button, whose hold is timed from the poll that saw it.
poll ==
  /\ pc = "run"
  /\ \/ ~released(SafeHold) /\ clearCount /\ showButton /\ UNCHANGED <<safeReq, asked, pc>>
     \/ requestSafeModeReboot
     \/ factoryReset
  /\ pressed' = down /\ gap' = 0
  /\ held' = IF pressed /\ down THEN held ELSE 0
  /\ UNCHANGED <<reason, safeMode, uptime, down>>

-------------------------------------------------------------------------------
(* The ends of a run. *)

\* ESP.restart() of a release, or of a setting changed or erased on the web page.
restart ==
  /\ pc \in {"run", "restart"}
  /\ pc' = "reset" /\ reason' = "sw"
  /\ UNCHANGED <<nvs, safeMode, cleared, uptime, button, light, history>>

\* A power cycle, a crash, a watchdog or the reset button, at any step.
hardReset ==
  /\ pc' = "reset" /\ reason' = "hard"
  /\ UNCHANGED <<nvs, safeMode, cleared, uptime, button, light, history>>

Next ==
  \/ boot \/ begin \/ consume \/ apply
  \/ tick \/ toggle \/ poll \/ statusChange
  \/ restart \/ hardReset

Spec == Init /\ [][Next]_vars

-------------------------------------------------------------------------------
TypeOK ==
  /\ count \in 0 .. MaxCount /\ safeReq \in BOOLEAN
  /\ pc \in Places /\ reason \in {"sw", "hard"}
  /\ safeMode \in BOOLEAN /\ cleared \in BOOLEAN /\ uptime \in 0 .. StableRun
  /\ pressed \in BOOLEAN /\ held \in 0 .. FactoryHold /\ down \in BOOLEAN /\ gap \in 0 .. MaxGap
  /\ ui \in UiStates /\ status \in Statuses
  /\ lastReal \in {"setup", "healthy"} /\ led \in Colours
  /\ counted \in 0 .. Threshold /\ asked \in BOOLEAN

\* Safe mode is entered on the third counted boot since the last stable run, safe mode
\* or factory reset, at the latest, and otherwise only when a long press asked for it:
\* never by software restarts, nor once more for the boots or the press that a safe
\* mode has consumed, wherever the power fails (recovery.cpp:118-133).
SafeModeIsEarned ==
  pc \in {"consume", "apply"} =>
    /\ counted = Threshold => safeMode
    /\ safeMode => counted = Threshold \/ asked

\* A release erases the device only after the LED has announced safe mode or a factory
\* reset, unless the pass of loop() just before the release lasted longer than the two
\* holds are apart (5 s).  In such a pass a tap grows into an erase that nothing on the
\* LED announced; however long the passes before it were, nothing else does
\* (recovery.cpp:81-93, main.cpp:71-75).
FactoryResetIsAnnounced ==
  [][pc = "run" /\ pc' = "restart" /\ ~safeReq' =>
       led \in {"orange", "red"} \/ gap > FactoryHold - SafeHold]_vars

\* While nobody holds the button the LED shows safe mode if and only if the device is
\* in it, whatever HomeSpan's status does (ui.cpp:33-60, recovery.cpp:95).
LedTellsSafeMode ==
  pc = "run" /\ ~pressed => (led = "blue" <=> safeMode)
===============================================================================
