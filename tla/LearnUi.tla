-------------------------------- MODULE LearnUi --------------------------------
(***************************************************************************)
(* The learn dialog of the browser (src/web/js/learn.js) with the start,   *)
(* poll and cancel calls it makes (src/web/js/data.js), over the one learn *)
(* service of the device (module LearnService).                            *)
(*                                                                         *)
(* A page is single-threaded: a click, a timer or the arrival of an answer *)
(* is one step.  Requests and answers travel on connections of their own,  *)
(* so they overtake each other, and a fetch may fail.  Of other tabs and   *)
(* browsers only the requests they send to the device are kept.            *)
(*                                                                         *)
(* An operator named Bug... is a plausible mistake in the definition that  *)
(* follows it, kept to show that the properties reject it.                 *)
(***************************************************************************)
EXTENDS LearnService

CONSTANTS
  MaxArms,     (* bound: how often the dialogs of the page start a learn    *)
  MaxOthers,   (* bound: how many requests other tabs send                  *)
  MaxFailures  (* bound: how many fetches fail                              *)

ASSUME UiAssumption == MaxArms \in Nat /\ MaxOthers \in Nat /\ MaxFailures \in Nat

VARIABLES
  dialog,   (* the dialog shown: its step and the outcome it shows; history:
               the outcome published last when it asked, and whether its call
               was then the only one of the page                            *)
  seq,      (* seq of learn.js, as the call whose token equals it, 0: none  *)
  polling,  (* learnPolling of data.js                                      *)
  calls,    (* the startLearn() calls of the page, each with its poll loop  *)
  arms,     (* how many calls the page has made                             *)
  saving,   (* the write of a dialog: none, or what became of the dialog
               while it is under way                                        *)
  cancels,  (* cancel requests on their way                                 *)
  others,   (* requests of other tabs so far, for the bound                 *)
  failures  (* fetches that failed so far, for the bound                    *)

page    == <<dialog, seq, polling, calls, arms, saving>>
network == <<cancels, others, failures>>
vars    == <<serviceVars, page, network>>

Steps  == {"none", "listen", "captured", "fail"}
Stages == {"none", "failed", "start", "started", "timer", "poll", "answer"}
Fates  == {"none", "open", "closed", "closedListening"}
Arms   == 1 .. MaxArms

NoDialog == [step |-> "none", shown |-> 0, asked |-> 0, alone |-> TRUE]
NoCall   == [at |-> "none", kind |-> "Listening", n |-> 0]

Init ==
  /\ ServiceInit
  /\ dialog = NoDialog /\ seq = 0 /\ polling = FALSE
  /\ calls = [k \in Arms |-> NoCall] /\ arms = 0 /\ saving = "none"
  /\ cancels = 0 /\ others = 0 /\ failures = 0

-------------------------------------------------------------------------------
(* The user. *)

\* arm(): a new token, the polling flag, and a start request of its own.
arm ==
  /\ arms < MaxArms
  /\ arms' = arms + 1 /\ seq' = arms + 1
  /\ polling' = TRUE
  /\ dialog' = [step |-> "listen", shown |-> 0, asked |-> answered,
                alone |-> \A k \in Arms : calls[k].at \in {"none", "failed"}]
  /\ calls' = [calls EXCEPT ![arms + 1] = [NoCall EXCEPT !.at = "start"]]
  /\ UNCHANGED <<serviceVars, saving, network>>

open == dialog.step = "none" /\ arm

\* "Re-capture" and "Try again".
retry == dialog.step \in {"captured", "fail"} /\ arm

\* cancelLearn(), which close() calls for a dialog that is listening.
cancelLearn(listening) ==
  IF listening
  THEN polling' = FALSE /\ cancels' = cancels + 1
  ELSE UNCHANGED <<polling, cancels>>

BugCloseTakesNextToken ==
  /\ dialog.step # "none"
  /\ cancelLearn(dialog.step = "listen")
  /\ seq' = arms + 1 /\ dialog' = NoDialog
  /\ saving' = IF saving = "open" THEN "closed" ELSE saving
  /\ UNCHANGED <<serviceVars, calls, arms, others, failures>>

\* close(): a listening dialog cancels its learn; the new token orphans its call.
close ==
  /\ dialog.step # "none"
  /\ cancelLearn(dialog.step = "listen")
  /\ seq' = 0 /\ dialog' = NoDialog
  /\ saving' = CASE saving # "open"         -> saving
                 [] saving = "open" /\ dialog.step = "listen" -> "closedListening"
                 [] OTHER                   -> "closed"
  /\ UNCHANGED <<serviceVars, calls, arms, others, failures>>

\* save(), on the page where a captured code is given a command and a device ("Use this
\* code" and "Back" only turn to it and back).  One write is under way at a time.
save ==
  /\ dialog.step = "captured" /\ saving = "none"
  /\ saving' = "open"
  /\ UNCHANGED <<serviceVars, dialog, seq, polling, calls, arms, network>>

\* The write succeeds and close() runs on the dialog it was made in, also when the user
\* has closed that one already and opened another.  The page then also takes that other
\* one for closed and would open a third over it, which is left out.
saved ==
  /\ saving # "none" /\ saving' = "none"
  /\ cancelLearn(\/ saving = "closedListening"
                 \/ saving = "open" /\ dialog.step = "listen")
  /\ seq' = 0
  /\ dialog' = IF saving = "open" THEN NoDialog ELSE dialog
  /\ UNCHANGED <<serviceVars, calls, arms, others, failures>>

\* The page is left or loaded again: by the user, when a write met a conflict, or to
\* log in.  Nothing is cancelled.
leave ==
  /\ dialog' = NoDialog /\ seq' = 0 /\ polling' = FALSE
  /\ calls' = [k \in Arms |-> NoCall] /\ saving' = "none"
  /\ UNCHANGED <<serviceVars, arms, network>>

-------------------------------------------------------------------------------
(* The startLearn() calls. *)

\* Call k becomes c; NoCall when its loop ends.
become(k, c) == calls' = [calls EXCEPT ![k] = c]

deliverStart(k) ==
  /\ calls[k].at = "start"
  /\ start
  /\ become(k, [calls[k] EXCEPT !.at = "started"])
  /\ UNCHANGED <<dialog, seq, polling, arms, saving, network>>

BugPollBeforeStart(k) ==
  /\ calls[k].at \in {"start", "started", "timer"}
  /\ become(k, IF polling THEN [calls[k] EXCEPT !.at = "poll"] ELSE NoCall)
  /\ UNCHANGED <<serviceVars, dialog, seq, polling, arms, saving, network>>

\* poll(), when the start was answered and on every timer: a loop whose flag is gone ends.
poll(k) ==
  /\ calls[k].at \in {"started", "timer"}
  /\ become(k, IF polling THEN [calls[k] EXCEPT !.at = "poll"] ELSE NoCall)
  /\ UNCHANGED <<serviceVars, dialog, seq, polling, arms, saving, network>>

\* handleLearnPoll: every phase but an outcome is reported as listening, Idle too.
handleLearnPoll(k) ==
  /\ calls[k].at = "poll"
  /\ become(k, [calls[k] EXCEPT !.at = "answer", !.n = answered,
                  !.kind = IF phase \in Outcomes THEN phase ELSE "Listening"])
  /\ UNCHANGED <<serviceVars, dialog, seq, polling, arms, saving, network>>

\* An outcome ends the loop and clears the flag of all loops of the page; arm() shows
\* it if the token is still the dialog's.
receive(k) ==
  LET c == calls[k] IN
  /\ c.at = "answer"
  /\ IF polling /\ c.kind # "Listening"
     THEN /\ become(k, NoCall)
          /\ polling' = FALSE
          /\ dialog' = IF seq = k /\ dialog.step = "listen"
                       THEN [dialog EXCEPT !.shown = c.n,
                               !.step = IF c.kind = "Captured" THEN "captured" ELSE "fail"]
                       ELSE dialog
     ELSE /\ become(k, IF polling THEN [c EXCEPT !.at = "timer"] ELSE NoCall)
          /\ UNCHANGED <<polling, dialog>>
  /\ UNCHANGED <<serviceVars, seq, arms, saving, network>>

BugFailedPollEnds(k) ==
  /\ failures < MaxFailures /\ failures' = failures + 1
  /\ \/ calls[k].at \in {"start", "started"} /\ become(k, [NoCall EXCEPT !.at = "failed"])
     \/ calls[k].at \in {"poll", "answer"} /\ become(k, NoCall)
  /\ UNCHANGED <<serviceVars, dialog, seq, polling, arms, saving, cancels, others>>

\* A failed poll is tried again; a failed start ends the call without a word.
fetchFails(k) ==
  /\ failures < MaxFailures /\ failures' = failures + 1
  /\ \/ calls[k].at \in {"start", "started"} /\ become(k, [NoCall EXCEPT !.at = "failed"])
     \/ /\ calls[k].at \in {"poll", "answer"}
        /\ become(k, IF polling THEN [calls[k] EXCEPT !.at = "timer"] ELSE NoCall)
  /\ UNCHANGED <<serviceVars, dialog, seq, polling, arms, saving, cancels, others>>

deliverCancel ==
  /\ cancels > 0 /\ cancels' = cancels - 1
  /\ cancel
  /\ UNCHANGED <<page, others, failures>>

otherTab ==
  /\ others < MaxOthers /\ others' = others + 1
  /\ start \/ cancel
  /\ UNCHANGED <<page, cancels, failures>>

-------------------------------------------------------------------------------
Device == Serve /\ UNCHANGED <<page, network>>

UserStep == open \/ retry \/ close \/ save \/ saved \/ leave

CallStep(k) == deliverStart(k) \/ poll(k) \/ handleLearnPoll(k) \/ receive(k)

Next ==
  \/ UserStep
  \/ \E k \in Arms : CallStep(k) \/ fetchFails(k)
  \/ deliverCancel
  \/ otherTab
  \/ Device

\* The device serves requests and closes its capture window; requests, answers and
\* timers arrive.  Nothing makes a user act, and fetches may fail up to the bound.
Fairness ==
  /\ WF_vars((listen \/ idle) /\ UNCHANGED <<page, network>>)
  /\ WF_vars(answer /\ UNCHANGED <<page, network>>)
  /\ \A k \in Arms : WF_vars(CallStep(k))

Spec     == Init /\ [][Next]_vars
FairSpec == Spec /\ Fairness

-------------------------------------------------------------------------------
TypeOK ==
  /\ ServiceTypeOK
  /\ dialog \in [step : Steps, shown : Nat, asked : Nat, alone : BOOLEAN]
  /\ seq \in 0 .. MaxArms /\ polling \in BOOLEAN /\ arms \in 0 .. MaxArms
  /\ calls \in [Arms -> [at : Stages, n : Nat, kind : Outcomes \cup {"Listening"}]]
  /\ saving \in Fates
  /\ cancels \in Nat /\ others \in 0 .. MaxOthers /\ failures \in 0 .. MaxFailures

\* The outcome a dialog shows, and whose code it saves, was published after that dialog
\* asked for it: never one left over from an earlier learn, whichever loops of the page
\* are still alive and in which order answers arrive (learn.js:109-121, data.js:186-204).
ShownWasAskedFor ==
  dialog.step \in {"captured", "fail"} => dialog.shown > dialog.asked

\* A dialog listens, has not been orphaned by the write of an earlier one, its start
\* was answered or is on its way, and the outcome of a later session is out.
OutcomeIsReady ==
  /\ dialog.step = "listen" /\ seq # 0 /\ calls[seq].at # "failed"
  /\ phase \in Outcomes /\ answered > dialog.asked

\* A dialog that started its learn while no other loop of the page was alive does not
\* sit on a published outcome: it shows it, though polls fail, unless the user or
\* another tab moves on first (data.js:190-203).
OutcomeIsShown == (OutcomeIsReady /\ dialog.alone) ~> ~(OutcomeIsReady /\ dialog.alone)

\* data.js:184-185 says of every start that it resolves with {ok:true,code} on capture
\* and {ok:false,reason} on failure.
EveryOutcomeIsShown == OutcomeIsReady ~> ~OutcomeIsReady

===============================================================================
