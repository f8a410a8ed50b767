------------------------------ MODULE Onboarding ------------------------------
(***************************************************************************)
(* The onboarding portal (src/onboarding.cpp) with its pages               *)
(* (src/web/js/onboard.js), and the boot that follows it as far as the     *)
(* admin nonce goes (authBegin and handleSetup of src/web_auth.cpp).       *)
(*                                                                         *)
(* One httpd task serves a request at a time, and a finish request keeps   *)
(* it until the loop task is done with the job or 12 s are over.  The loop *)
(* task takes the jobs, verify and finish, from fields the next request    *)
(* overwrites.  Each NVS write is a step; the power may fail between them. *)
(*                                                                         *)
(* An operator named Bug... is a plausible mistake in the definition that  *)
(* follows it, kept to show that the properties reject it.                 *)
(***************************************************************************)
EXTENDS Naturals

CONSTANTS
  Pages,      (* browsers on the portal                                     *)
  Creds,      (* what a user may enter as network and password              *)
  Good,       (* those of them the home network accepts                     *)
  Codes,      (* HomeKit setup codes                                        *)
  None,       (* nothing entered, stored or shown                           *)
  MaxPosts,   (* bound: verify and finish requests sent                     *)
  MaxResets   (* bound: reloads of a page, power cuts and portals timed out *)

ASSUME OnboardingAssumption ==
  /\ Good \subseteq Creds
  /\ None \notin Pages \cup Creds \cup Codes
  /\ MaxPosts \in Nat /\ MaxResets \in Nat

VARIABLES
  page,       (* a page: its step, what was entered, and what it shows      *)
  httpd,      (* the page whose finish request is being served, None: free  *)
  lpc,        (* where the loop task is in run()                            *)
  fst,        (* the local fst of run()                                     *)
  job,        (* the inputs the loop task has copied                        *)
  fstate,     (* g_fstate                                                   *)
  vstate,     (* g_vstate                                                   *)
  finishIn,   (* g_ssid, g_pwd and g_code                                   *)
  finishOut,  (* g_qr, as the code it was made of, and g_nonce              *)
  verifyIn,   (* g_vssid and g_vpwd                                         *)
  gReboot,    (* g_reboot                                                   *)
  flash,      (* NVS: Wi-Fi credentials, pairing and setup code, nonce, and
                 whether a password is set                                  *)
  minted,     (* history: nonces minted so far, which numbers them          *)
  slow,       (* history: the finish being served has met a verify          *)
  late,       (* history: a finish of this portal has timed out             *)
  tested,     (* history: credentials a verify has connected with           *)
  mixed,      (* history: a verify was lost, or met one of before           *)
  posts,      (* history: requests sent, for the bound                      *)
  resets      (* history: reloads and power cuts, for the bound             *)

portal  == <<httpd, fstate, vstate, finishIn, finishOut, verifyIn, gReboot>>
loop    == <<lpc, fst, job>>
history == <<minted, slow, late, tested, mixed, posts, resets>>
vars    == <<page, portal, loop, flash, history>>

FinishStates == {"Idle", "Pending", "Done", "Failed"}
VerifyStates == {"Idle", "Testing", "Ok", "Fail"}
Steps  == {"wifi", "verify", "testing", "code", "finish", "waiting", "done"}
Places == {"top", "verify", "connect", "finish", "pair", "nonce", "setup", "publish",
           "boot", "online"}

Input  == [creds : Creds \cup {None}, code : Codes \cup {None}]
Output == [qr : Codes \cup {None}, nonce : Nat]
Job    == [creds : Creds \cup {None}, code : Codes \cup {None}, nonce : Nat, err : BOOLEAN]
Page   == [step : Steps, creds : Creds \cup {None}, code : Codes \cup {None}, shown :
           [qr : Codes \cup {None}, code : Codes \cup {None}, nonce : Nat]]

NoInput  == [creds |-> None, code |-> None]
NoOutput == [qr |-> None, nonce |-> 0]
NoJob    == [creds |-> None, code |-> None, nonce |-> 0, err |-> FALSE]
NewPage  == [step |-> "wifi", creds |-> None, code |-> None,
             shown |-> [qr |-> None, code |-> None, nonce |-> 0]]

Init ==
  /\ page = [p \in Pages |-> NewPage]
  /\ httpd = None /\ lpc = "top" /\ fst = "Idle" /\ job = NoJob
  /\ fstate = "Idle" /\ vstate = "Idle"
  /\ finishIn = NoInput /\ finishOut = NoOutput /\ verifyIn = None /\ gReboot = FALSE
  /\ flash = [wifi |-> None, pair |-> None, setup |-> None, nonce |-> 0, password |-> FALSE]
  /\ minted = 0 /\ slow = FALSE /\ late = FALSE /\ tested = {} /\ mixed = FALSE
  /\ posts = 0 /\ resets = 0

Up == lpc \notin {"boot", "online"}      \* the portal is running

-------------------------------------------------------------------------------
(* The pages. *)

\* A page is at one step and posts what its step says.
goes(p, new) == page' = [page EXCEPT ![p] = new]

\* The Wi-Fi form.
submitWifi(p, c) ==
  /\ page[p].step = "wifi" /\ posts < MaxPosts /\ posts' = posts + 1
  /\ goes(p, [page[p] EXCEPT !.step = "verify", !.creds = c])
  /\ UNCHANGED <<portal, loop, flash, minted, slow, late, tested, mixed, resets>>

\* Whose verdict a page will poll is clear while one test is asked for at a time.
Overlaps(p) == vstate = "Testing" \/ \E q \in Pages \ {p} : page[q].step = "testing"

BugVerdictStays(p) ==
  /\ page[p].step = "verify" /\ Up /\ httpd = None
  /\ verifyIn' = page[p].creds /\ vstate' = IF vstate = "Ok" THEN "Ok" ELSE "Testing"
  /\ goes(p, [page[p] EXCEPT !.step = "testing"])
  /\ mixed' = (mixed \/ Overlaps(p))
  /\ UNCHANGED <<httpd, fstate, finishIn, finishOut, gReboot, loop, flash,
                 minted, slow, late, tested, posts, resets>>

\* handleVerify: the job and its state, in one section of the lock.
handleVerify(p) ==
  /\ page[p].step = "verify" /\ Up /\ httpd = None
  /\ verifyIn' = page[p].creds /\ vstate' = "Testing"
  /\ goes(p, [page[p] EXCEPT !.step = "testing"])
  /\ mixed' = (mixed \/ Overlaps(p))
  /\ UNCHANGED <<httpd, fstate, finishIn, finishOut, gReboot, loop, flash,
                 minted, slow, late, tested, posts, resets>>

\* pollVerify: a verify request that failed is polled for as well, since the test may
\* have dropped the page.
verifyLost(p) ==
  /\ page[p].step = "verify" /\ mixed' = TRUE
  /\ goes(p, [page[p] EXCEPT !.step = "testing"])
  /\ UNCHANGED <<portal, loop, flash, minted, slow, late, tested, posts, resets>>

\* handleVerifyStatus and what the page makes of it.  A portal that has restarted or is
\* gone never answers with a verdict, and the page gives up after 40 s.
pollVerify(p) ==
  /\ page[p].step = "testing"
  /\ \/ Up /\ httpd = None /\ vstate = "Ok" /\ goes(p, [page[p] EXCEPT !.step = "code"])
     \/ Up /\ httpd = None /\ vstate = "Fail" /\ goes(p, [page[p] EXCEPT !.step = "wifi"])
     \/ (~Up \/ vstate = "Idle") /\ goes(p, [page[p] EXCEPT !.step = "wifi"])
  /\ UNCHANGED <<portal, loop, flash, history>>

\* The code form.
submitCode(p, k) ==
  /\ page[p].step = "code" /\ posts < MaxPosts /\ posts' = posts + 1
  /\ goes(p, [page[p] EXCEPT !.step = "finish", !.code = k])
  /\ UNCHANGED <<portal, loop, flash, minted, slow, late, tested, mixed, resets>>

BugFinishLeavesServer(p) ==
  /\ page[p].step = "finish" /\ Up
  /\ finishIn' = [creds |-> page[p].creds, code |-> page[p].code]
  /\ fstate' = "Pending"
  /\ httpd' = p /\ slow' = (lpc \in {"verify", "connect"})
  /\ goes(p, [page[p] EXCEPT !.step = "waiting"])
  /\ UNCHANGED <<vstate, finishOut, verifyIn, gReboot, loop, flash,
                 minted, late, tested, mixed, posts, resets>>

\* handleFinish, up to its wait, which keeps the httpd task.
handleFinish(p) ==
  /\ page[p].step = "finish" /\ Up /\ httpd = None
  /\ finishIn' = [creds |-> page[p].creds, code |-> page[p].code]
  /\ fstate' = "Pending"
  /\ httpd' = p /\ slow' = (lpc \in {"verify", "connect"})
  /\ goes(p, [page[p] EXCEPT !.step = "waiting"])
  /\ UNCHANGED <<vstate, finishOut, verifyIn, gReboot, loop, flash,
                 minted, late, tested, mixed, posts, resets>>

\* attemptFinish: a connection that breaks before the answer sends the page to its next
\* attempt; after the last one it is back at the code form.
finishDropped(p) ==
  /\ page[p].step = "waiting" /\ goes(p, [page[p] EXCEPT !.step = "finish"])
  /\ UNCHANGED <<portal, loop, flash, history>>
finishGivenUp(p) ==
  /\ page[p].step = "finish" /\ goes(p, [page[p] EXCEPT !.step = "code"])
  /\ UNCHANGED <<portal, loop, flash, history>>

\* What handleFinish answers a page that still waits.
answered(p, new) ==
  IF page[p].step = "waiting" THEN goes(p, new) ELSE UNCHANGED page

\* handleFinish, the end of its wait.  The loop task persists in 1-2 s, so only a verify
\* in between makes a finish wait for all of its 12 s.
answerFinish ==
  /\ httpd # None /\ httpd' = None
  /\ \/ /\ fstate = "Done"
        /\ answered(httpd, [page[httpd] EXCEPT !.step = "done", !.shown =
             [qr |-> finishOut.qr, code |-> finishIn.code, nonce |-> finishOut.nonce]])
        /\ UNCHANGED late
     \/ /\ fstate = "Failed" /\ answered(httpd, [page[httpd] EXCEPT !.step = "code"])
        /\ UNCHANGED late
     \/ /\ fstate = "Pending" /\ slow /\ late' = TRUE
        /\ answered(httpd, [page[httpd] EXCEPT !.step = "code"])
  /\ UNCHANGED <<fstate, vstate, finishIn, finishOut, verifyIn, gReboot, loop, flash,
                 minted, slow, tested, mixed, posts, resets>>

handleReboot(p) ==
  /\ page[p].step = "done" /\ Up /\ httpd = None
  /\ gReboot' = TRUE
  /\ UNCHANGED <<page, httpd, fstate, vstate, finishIn, finishOut, verifyIn, loop, flash, history>>

\* The browser or the phone loads the portal anew.
reload(p) ==
  /\ page[p].step # "wifi" /\ resets < MaxResets /\ resets' = resets + 1
  /\ goes(p, NewPage)
  /\ UNCHANGED <<portal, loop, flash, minted, slow, late, tested, mixed, posts>>
-------------------------------------------------------------------------------
(* The loop task. *)

\* run(): both states are read in one section of the lock, and the jobs follow from what
\* was read.
run ==
  /\ lpc = "top" /\ fst' = fstate
  /\ \/ vstate = "Testing" /\ lpc' = "verify"
     \/ vstate # "Testing" /\ fstate = "Pending" /\ lpc' = "finish"
  /\ slow' = (slow \/ (httpd # None /\ vstate = "Testing"))
  /\ UNCHANGED <<page, portal, job, flash, minted, late, tested, mixed, posts, resets>>

\* applyVerify, its copy of the inputs.
takeVerify ==
  /\ lpc = "verify" /\ lpc' = "connect" /\ job' = [job EXCEPT !.creds = verifyIn]
  /\ UNCHANGED <<page, portal, fst, flash, history>>

\* applyVerify: up to 15 s later the verdict on what was copied, for whoever asks.
applyVerify ==
  /\ lpc = "connect" /\ lpc' = IF fst = "Pending" THEN "finish" ELSE "top"
  /\ \/ /\ job.creds \in Good /\ vstate' = "Ok"
        /\ tested' = tested \cup {job.creds}
     \/ vstate' = "Fail" /\ UNCHANGED tested
  /\ UNCHANGED <<page, httpd, fstate, finishIn, finishOut, verifyIn, gReboot, fst, job, flash,
                 minted, slow, late, mixed, posts, resets>>

\* applyFinish, the copy and setWifiCredentials.
takeFinish ==
  /\ lpc = "finish" /\ lpc' = "pair"
  /\ job' = [creds |-> finishIn.creds, code |-> finishIn.code, nonce |-> 0, err |-> FALSE]
  /\ flash' = [flash EXCEPT !.wifi = finishIn.creds]
  /\ UNCHANGED <<page, portal, fst, history>>

\* applyFinish, setPairingCode, and whether the auth store opens.
storePair ==
  /\ lpc = "pair" /\ flash' = [flash EXCEPT !.pair = job.code]
  /\ \/ lpc' = "nonce" /\ UNCHANGED job
     \/ lpc' = "publish" /\ job' = [job EXCEPT !.err = TRUE]
  /\ UNCHANGED <<page, portal, fst, history>>

BugNonceMinted(n) ==
  /\ n = minted + 1 /\ flash' = [flash EXCEPT !.nonce = n] /\ minted' = n

\* The nonce of a device that has one is kept; n is the one in force.
nonceKept(n) ==
  /\ flash.nonce # 0 => n = flash.nonce /\ UNCHANGED <<flash, minted>>
  /\ flash.nonce = 0 => /\ n = minted + 1 /\ minted' = n
                        /\ flash' = [flash EXCEPT !.nonce = n]

storeNonce ==
  /\ lpc = "nonce" /\ lpc' = "setup"
  /\ \E n \in 1..minted + 1 : nonceKept(n) /\ job' = [job EXCEPT !.nonce = n]
  /\ UNCHANGED <<page, portal, fst, slow, late, tested, mixed, posts, resets>>

storeSetup ==
  /\ lpc = "setup" /\ lpc' = "publish" /\ flash' = [flash EXCEPT !.setup = job.code]
  /\ UNCHANGED <<page, portal, fst, job, history>>

\* applyFinish, the outcome.
applyFinish ==
  /\ lpc = "publish" /\ lpc' = "top"
  /\ IF job.err THEN fstate' = "Failed" /\ UNCHANGED finishOut
     ELSE /\ finishOut' = [qr |-> job.code, nonce |-> job.nonce] /\ fstate' = "Done"
  /\ UNCHANGED <<page, httpd, vstate, finishIn, verifyIn, gReboot, fst, job, flash, history>>

-------------------------------------------------------------------------------
(* Restarts, and the device on the home network. *)

\* A start of the firmware: RAM is new, a browser's open request fails, and the portal
\* comes up again unless Wi-Fi credentials are stored.
starts ==
  /\ page' = [p \in Pages |-> IF page[p].step = "waiting"
                             THEN [page[p] EXCEPT !.step = "finish"] ELSE page[p]]
  /\ httpd' = None /\ fst' = "Idle" /\ job' = NoJob
  /\ fstate' = "Idle" /\ vstate' = "Idle"
  /\ finishIn' = NoInput /\ finishOut' = NoOutput /\ verifyIn' = None /\ gReboot' = FALSE
  /\ lpc' = IF flash.wifi # None THEN "boot" ELSE "top"
  /\ slow' = FALSE /\ late' = FALSE
  /\ UNCHANGED <<flash, minted, tested, mixed, posts>>

\* The end of run(), after the reboot request or after ten minutes.
restart ==
  /\ lpc = "top"
  /\ \/ gReboot /\ UNCHANGED resets
     \/ ~gReboot /\ resets < MaxResets /\ resets' = resets + 1
  /\ starts

powerCut ==
  /\ resets < MaxResets /\ resets' = resets + 1 /\ starts

\* authBegin, once the network has let the device in: without a password it has a nonce.
authBegin ==
  /\ lpc = "boot" /\ flash.wifi \in Good /\ lpc' = "online"
  /\ IF flash.password THEN UNCHANGED <<flash, minted>>
     ELSE \E n \in 1..minted + 1 : nonceKept(n)
  /\ UNCHANGED <<page, portal, fst, job, slow, late, tested, mixed, posts, resets>>

\* handleSetup with the nonce on a page: the password is stored, and then the nonce is
\* erased.
handleSetup(p) ==
  /\ lpc = "online" /\ ~flash.password
  /\ page[p].shown.nonce # 0 /\ page[p].shown.nonce = flash.nonce
  /\ flash' = [flash EXCEPT !.password = TRUE]
  /\ UNCHANGED <<page, portal, loop, history>>
clearNonce ==
  /\ lpc = "online" /\ flash.password /\ flash.nonce # 0
  /\ flash' = [flash EXCEPT !.nonce = 0]
  /\ UNCHANGED <<page, portal, loop, history>>

Next ==
  \/ \E p \in Pages : \/ \E c \in Creds : submitWifi(p, c)
                      \/ \E k \in Codes : submitCode(p, k)
                      \/ handleVerify(p) \/ verifyLost(p) \/ pollVerify(p)
                      \/ handleFinish(p) \/ finishDropped(p) \/ finishGivenUp(p)
                      \/ handleReboot(p) \/ reload(p) \/ handleSetup(p)
  \/ answerFinish \/ run \/ takeVerify \/ applyVerify \/ takeFinish \/ storePair
  \/ storeNonce \/ storeSetup \/ applyFinish
  \/ restart \/ powerCut \/ authBegin \/ clearNonce

Spec == Init /\ [][Next]_vars

-------------------------------------------------------------------------------
(* Properties. *)

\* Every variable has its type, and a page waits only while the httpd task serves it.
TypeOK ==
  /\ page \in [Pages -> Page] /\ httpd \in Pages \cup {None}
  /\ lpc \in Places /\ fst \in FinishStates /\ job \in Job
  /\ fstate \in FinishStates /\ vstate \in VerifyStates
  /\ finishIn \in Input /\ finishOut \in Output /\ verifyIn \in Creds \cup {None}
  /\ gReboot \in BOOLEAN
  /\ flash \in [wifi : Creds \cup {None}, pair : Codes \cup {None},
                setup : Codes \cup {None}, nonce : Nat, password : BOOLEAN]
  /\ minted \in Nat /\ slow \in BOOLEAN /\ late \in BOOLEAN /\ tested \subseteq Creds /\ mixed \in BOOLEAN
  /\ posts \in 0..MaxPosts /\ resets \in 0..MaxResets
  /\ \A p \in Pages : page[p].step = "waiting" => httpd = p

\* The code, the QR code and the nonce a page is told are the ones the device has stored,
\* whatever pages, drops, retries and verifies came in between, unless a finish of this
\* portal ran into its time-out (its job is then in progress when the next one is answered);
\* and the device has connected with the credentials the page sent, unless a verify was lost
\* or met another: vstate is the verdict on whichever credentials were copied last.
Finishes(p) == page[p].step # "done" /\ page'[p].step = "done"
DoneIsTrue ==
  [][\A p \in Pages : Finishes(p) =>
       /\ ~late => /\ page'[p].shown.code = flash.pair /\ page'[p].shown.qr = flash.pair
                   /\ flash.setup = flash.pair /\ page'[p].shown.nonce = flash.nonce
       /\ ~mixed => page[p].creds \in tested]_vars

\* The nonce on a finished page opens the setup page until a password is set: no later
\* finish, restart, power cut or boot on the home network replaces it (a factory reset,
\* which erases the nonce, is in BootRecovery).
NonceStands ==
  \A p \in Pages : page[p].step = "done" =>
    flash.password \/ flash.nonce = page[p].shown.nonce
===============================================================================
