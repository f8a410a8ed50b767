--------------------------- MODULE OnboardingProofs ---------------------------
(***************************************************************************)
(* Proofs about Onboarding for any number of pages, networks, codes,       *)
(* requests, reloads and power cuts: what a finished page shows is what    *)
(* the device has stored, and its nonce is kept until a password is set.   *)
(***************************************************************************)
EXTENDS Onboarding, TLAPS

-------------------------------------------------------------------------------
(* The inductive invariant. *)

\* A password is set only on the home network, which no portal leads back from.
HomeIsHome ==
  /\ ~Up => httpd = None /\ fstate = "Idle" /\ flash.wifi # None
  /\ flash.password => ~Up

\* The loop task has a finish job, or has read that there is one.
Busy ==
  \/ lpc \in {"finish", "pair", "nonce", "setup", "publish"}
  \/ lpc \in {"verify", "connect"} /\ fst = "Pending"

\* Unless one has timed out, the finish under way is the one being served.
JobIsServed ==
  ~late => /\ Busy => fstate = "Pending"
           /\ fstate = "Pending" => httpd # None

\* It is for the code the served page sent, which is stored piece by piece.
CodeFollows ==
  ~late =>
    /\ lpc \in {"pair", "nonce", "setup", "publish"} => job.code = finishIn.code
    /\ lpc \in {"nonce", "setup", "publish"} => flash.pair = job.code
    /\ lpc = "publish" /\ ~job.err => flash.setup = job.code
    /\ httpd # None /\ fstate = "Done" =>
         /\ finishOut.qr = finishIn.code
         /\ flash.pair = finishIn.code /\ flash.setup = finishIn.code

\* A nonce that was handed out is the stored one, until there is a password.
Stands(n) == flash.password \/ (n # 0 /\ n = flash.nonce)
NonceFollows ==
  /\ lpc = "setup" \/ (lpc = "publish" /\ ~job.err) => Stands(job.nonce)
  /\ fstate = "Done" => Stands(finishOut.nonce)
  /\ \A p \in Pages : page[p].step = "done" => Stands(page[p].shown.nonce)

\* While one test is asked for at a time the verdict is on the credentials of the page
\* that polls for it, and pages behind the form were told Ok.
VerdictFollows ==
  ~mixed =>
    /\ lpc \in {"verify", "connect"} => vstate = "Testing"
    /\ lpc = "connect" => job.creds = verifyIn
    /\ vstate = "Ok" => verifyIn \in tested
    /\ \A p \in Pages :
         /\ page[p].step = "testing" /\ vstate \in {"Testing", "Ok"} => verifyIn = page[p].creds
         /\ page[p].step \in {"code", "finish", "waiting", "done"} => page[p].creds \in tested

Inv ==
  /\ TypeOK /\ HomeIsHome /\ JobIsServed
  /\ CodeFollows /\ NonceFollows /\ VerdictFollows

-------------------------------------------------------------------------------
(* Types of what the pages become. *)

LEMMA PageType ==
  ASSUME NEW y \in Page
  PROVE  /\ \A s \in Steps : [y EXCEPT !.step = s] \in Page
         /\ \A c \in Creds \cup {None} : [y EXCEPT !.creds = c] \in Page
         /\ \A k \in Codes \cup {None} : [y EXCEPT !.code = k] \in Page
         /\ \A o \in [qr : Codes \cup {None}, code : Codes \cup {None}, nonce : Nat] :
              [y EXCEPT !.shown = o] \in Page
<1>1. \A s \in Steps : [y EXCEPT !.step = s] \in Page
  BY DEF Page
<1>2. \A c \in Creds \cup {None} : [y EXCEPT !.creds = c] \in Page
  BY DEF Page
<1>3. \A k \in Codes \cup {None} : [y EXCEPT !.code = k] \in Page
  BY DEF Page
<1>4. \A o \in [qr : Codes \cup {None}, code : Codes \cup {None}, nonce : Nat] :
        [y EXCEPT !.shown = o] \in Page
  BY DEF Page
<1> QED
  BY <1>1, <1>2, <1>3, <1>4

\* A page at another step.
LEMMA AtStep ==
  ASSUME NEW y \in Page, NEW s \in Steps
  PROVE  LET x == [y EXCEPT !.step = s] IN
         x \in Page /\ x.step = s /\ x.creds = y.creds /\ x.code = y.code /\ x.shown = y.shown
BY PageType DEF Page

LEMMA NewPageType == NewPage \in Page /\ NewPage.step = "wifi"
BY DEF NewPage, Page, Steps

LEMMA OnePage ==
  ASSUME TypeOK, NEW p \in Pages, NEW x \in Page, goes(p, x)
  PROVE  /\ page' \in [Pages -> Page] /\ page'[p] = x
         /\ \A q \in Pages \ {p} : page'[q] = page[q]
BY DEF TypeOK, goes

-------------------------------------------------------------------------------
LEMMA InitInv == Init => Inv
<1> SUFFICES ASSUME Init PROVE Inv
  OBVIOUS
<1>1. page = [p \in Pages |-> NewPage]
  BY DEF Init
<1>2. \A p \in Pages : page[p].step = "wifi"
  BY <1>1, NewPageType
<1>3. TypeOK
  <2>1. page \in [Pages -> Page] /\ \A p \in Pages : page[p].step # "waiting"
    BY <1>1, <1>2, NewPageType
  <2>2. job \in Job /\ finishIn \in Input /\ finishOut \in Output
    BY DEF Init, NoJob, NoInput, NoOutput, Job, Input, Output
  <2>3. flash \in [wifi : Creds \cup {None}, pair : Codes \cup {None},
                   setup : Codes \cup {None}, nonce : Nat, password : BOOLEAN]
    BY DEF Init
  <2>4. posts \in 0..MaxPosts /\ resets \in 0..MaxResets /\ minted \in Nat
    BY OnboardingAssumption DEF Init
  <2> QED
    BY <2>1, <2>2, <2>3, <2>4 DEF Init, TypeOK, Places, FinishStates, VerifyStates
<1>4. HomeIsHome /\ JobIsServed /\ CodeFollows
  BY DEF Init, HomeIsHome, JobIsServed, CodeFollows, Busy, Up
<1>5. NonceFollows /\ VerdictFollows
  BY <1>2 DEF Init, NonceFollows, VerdictFollows
<1> QED
  BY <1>3, <1>4, <1>5 DEF Inv

\* A page moves and nothing else does.
LEMMA MoveInv ==
  ASSUME Inv, NEW p \in Pages, NEW x \in Page, goes(p, x),
         UNCHANGED <<portal, loop, flash, minted, slow, late, tested>>,
         mixed' \in BOOLEAN, mixed => mixed',
         posts' \in 0..MaxPosts, resets' \in 0..MaxResets,
         x.step \notin {"waiting", "done"},
         ~mixed' => /\ x.step = "testing" /\ vstate \in {"Testing", "Ok"} => verifyIn = x.creds
                    /\ x.step \in {"code", "finish"} => x.creds \in tested
  PROVE  Inv' /\ \A q \in Pages : ~Finishes(q)
<1>1. /\ page' \in [Pages -> Page] /\ page'[p] = x
      /\ \A q \in Pages \ {p} : page'[q] = page[q]
  BY OnePage DEF Inv
<1>2. TypeOK'
  BY <1>1 DEF Inv, TypeOK, portal, loop
<1>3. HomeIsHome' /\ JobIsServed' /\ CodeFollows'
  BY DEF Inv, HomeIsHome, JobIsServed, CodeFollows, Busy, Up, portal, loop
<1>4. NonceFollows'
  BY <1>1 DEF Inv, NonceFollows, Stands, portal, loop
<1>5. VerdictFollows'
  BY <1>1 DEF Inv, VerdictFollows, portal, loop
<1>6. \A q \in Pages : ~Finishes(q)
  BY <1>1 DEF Finishes
<1> QED
  BY <1>2, <1>3, <1>4, <1>5, <1>6 DEF Inv

LEMMA PagesInv ==
  ASSUME Inv, NEW p \in Pages,
         \/ \E c \in Creds : submitWifi(p, c)
         \/ \E k \in Codes : submitCode(p, k)
         \/ verifyLost(p) \/ pollVerify(p) \/ finishDropped(p) \/ finishGivenUp(p) \/ reload(p)
  PROVE  Inv' /\ \A q \in Pages : ~Finishes(q)
<1>1. page[p] \in Page /\ posts \in 0..MaxPosts /\ resets \in 0..MaxResets /\ mixed \in BOOLEAN
  BY DEF Inv, TypeOK
<1>2. {"verify", "testing", "code", "finish", "wifi"} \subseteq Steps
  BY DEF Steps
<1>3. CASE \E c \in Creds : submitWifi(p, c)
  <2>1. PICK c \in Creds : submitWifi(p, c)
    BY <1>3
  <2> DEFINE z == [page[p] EXCEPT !.step = "verify"]
             x == [z EXCEPT !.creds = c]
  <2>2. z \in Page /\ z.step = "verify"
    BY <1>1, <1>2, AtStep
  <2>3. goes(p, x)
    BY <2>1 DEF submitWifi
  <2> HIDE DEF z
  <2>4. x \in Page /\ x.step = "verify"
    BY <2>2, PageType DEF Page
  <2>5. posts' \in 0..MaxPosts /\ resets' \in 0..MaxResets
    <3>1. posts < MaxPosts /\ posts' = posts + 1 /\ resets' = resets
      BY <2>1 DEF submitWifi
    <3> QED
      BY <1>1, <3>1, OnboardingAssumption
  <2>6. UNCHANGED <<portal, loop, flash, minted, slow, late, tested, mixed>>
    BY <2>1 DEF submitWifi
  <2> HIDE DEF x
  <2> QED
    BY <1>1, <2>3, <2>4, <2>5, <2>6, MoveInv
<1>4. CASE \E k \in Codes : submitCode(p, k)
  <2>1. PICK k \in Codes : submitCode(p, k)
    BY <1>4
  <2> DEFINE z == [page[p] EXCEPT !.step = "finish"]
             x == [z EXCEPT !.code = k]
  <2>2. z \in Page /\ z.step = "finish" /\ z.creds = page[p].creds
    BY <1>1, <1>2, AtStep
  <2>3. goes(p, x)
    BY <2>1 DEF submitCode
  <2> HIDE DEF z
  <2>4. x \in Page /\ x.step = "finish" /\ x.creds = page[p].creds
    BY <2>2, PageType DEF Page
  <2>5. posts' \in 0..MaxPosts /\ resets' \in 0..MaxResets
    <3>1. posts < MaxPosts /\ posts' = posts + 1 /\ resets' = resets
      BY <2>1 DEF submitCode
    <3> QED
      BY <1>1, <3>1, OnboardingAssumption
  <2>6. page[p].step = "code" /\ UNCHANGED <<portal, loop, flash, minted, slow, late, tested, mixed>>
    BY <2>1 DEF submitCode
  <2>7. ~mixed => x.creds \in tested
    BY <2>4, <2>6 DEF Inv, VerdictFollows
  <2> HIDE DEF x
  <2> QED
    BY <1>1, <2>3, <2>4, <2>5, <2>6, <2>7, MoveInv
<1>5. ASSUME NEW s \in {"testing", "code", "finish", "wifi"},
             goes(p, [page[p] EXCEPT !.step = s]),
             UNCHANGED <<portal, loop, flash, minted, slow, late, tested, posts, resets>>,
             mixed' \in BOOLEAN, mixed => mixed', s = "testing" => mixed',
             s \in {"code", "finish"} =>
               \/ page[p].step \in {"waiting", "finish"}
               \/ page[p].step = "testing" /\ vstate = "Ok"
      PROVE  Inv' /\ \A q \in Pages : ~Finishes(q)
  <2> DEFINE x == [page[p] EXCEPT !.step = s]
  <2>1. x \in Page /\ x.step = s /\ x.creds = page[p].creds
    BY <1>1, <1>2, AtStep
  <2>2. goes(p, x)
    BY <1>5
  <2> HIDE DEF x
  <2>3. ~mixed /\ s \in {"code", "finish"} => x.creds \in tested
    BY <1>5, <2>1 DEF Inv, VerdictFollows
  <2> QED
    BY <1>1, <1>5, <2>1, <2>2, <2>3, MoveInv
<1>6. CASE verifyLost(p)
  BY <1>1, <1>5, <1>6 DEF verifyLost
<1>7. CASE pollVerify(p)
  <2>1. UNCHANGED <<portal, loop, flash, minted, slow, late, tested, mixed, posts, resets>>
    BY <1>7 DEF pollVerify, history
  <2>2. \/ goes(p, [page[p] EXCEPT !.step = "wifi"])
        \/ goes(p, [page[p] EXCEPT !.step = "code"]) /\ page[p].step = "testing" /\ vstate = "Ok"
    BY <1>7 DEF pollVerify
  <2> QED
    BY <1>1, <1>5, <2>1, <2>2
<1>8. CASE finishDropped(p) \/ finishGivenUp(p)
  <2>1. UNCHANGED <<portal, loop, flash, minted, slow, late, tested, mixed, posts, resets>>
    BY <1>8 DEF finishDropped, finishGivenUp, history
  <2>2. \/ goes(p, [page[p] EXCEPT !.step = "finish"]) /\ page[p].step = "waiting"
        \/ goes(p, [page[p] EXCEPT !.step = "code"]) /\ page[p].step = "finish"
    BY <1>8 DEF finishDropped, finishGivenUp
  <2> QED
    BY <1>1, <1>5, <2>1, <2>2
<1>9. CASE reload(p)
  <2>1. resets' \in 0..MaxResets
    BY <1>1, <1>9, OnboardingAssumption DEF reload
  <2> QED
    BY <1>1, <1>9, <2>1, NewPageType, MoveInv DEF reload
<1> QED
  BY <1>3, <1>4, <1>6, <1>7, <1>8, <1>9

-------------------------------------------------------------------------------
(* The handlers. *)

LEMMA VerifyInv ==
  ASSUME Inv, NEW p \in Pages, handleVerify(p) PROVE Inv' /\ \A q \in Pages : ~Finishes(q)
<1> DEFINE x == [page[p] EXCEPT !.step = "testing"]
<1>1. x \in Page /\ x.step = "testing" /\ x.creds = page[p].creds /\ goes(p, x)
      /\ page[p].creds \in Creds \cup {None}
  BY AtStep DEF handleVerify, Inv, TypeOK, Steps, Page
<1> HIDE DEF x
<1>2. /\ page' \in [Pages -> Page] /\ page'[p] = x
      /\ \A q \in Pages \ {p} : page'[q] = page[q]
  BY <1>1, OnePage DEF Inv
<1>3. /\ Up /\ httpd = None /\ verifyIn' = page[p].creds /\ vstate' = "Testing"
      /\ mixed' \in BOOLEAN /\ (~mixed' => ~mixed /\ ~Overlaps(p))
      /\ UNCHANGED <<httpd, fstate, finishIn, finishOut, gReboot, loop, flash,
                     minted, slow, late, tested, posts, resets>>
  BY DEF handleVerify
<1>4. TypeOK'
  <2>1. verifyIn' \in Creds \cup {None} /\ vstate' \in VerifyStates
    BY <1>1, <1>3 DEF VerifyStates
  <2> QED
    BY <1>1, <1>2, <1>3, <2>1 DEF Inv, TypeOK, loop
<1>5. HomeIsHome' /\ JobIsServed' /\ CodeFollows'
  BY <1>3 DEF Inv, HomeIsHome, JobIsServed, CodeFollows, Busy, Up, loop
<1>6. NonceFollows'
  BY <1>1, <1>2, <1>3 DEF Inv, NonceFollows, Stands, loop
<1>7. VerdictFollows'
  BY <1>1, <1>2, <1>3 DEF Inv, VerdictFollows, Overlaps, loop
<1>8. \A q \in Pages : ~Finishes(q)
  BY <1>1, <1>2 DEF Finishes
<1> QED
  BY <1>4, <1>5, <1>6, <1>7, <1>8 DEF Inv

LEMMA FinishInv ==
  ASSUME Inv, NEW p \in Pages, handleFinish(p) PROVE Inv' /\ \A q \in Pages : ~Finishes(q)
<1> DEFINE x == [page[p] EXCEPT !.step = "waiting"]
<1>1. x \in Page /\ x.step = "waiting" /\ x.creds = page[p].creds /\ goes(p, x)
      /\ page[p].creds \in Creds \cup {None} /\ page[p].code \in Codes \cup {None}
  BY AtStep DEF handleFinish, Inv, TypeOK, Steps, Page
<1> HIDE DEF x
<1>2. /\ page' \in [Pages -> Page] /\ page'[p] = x
      /\ \A q \in Pages \ {p} : page'[q] = page[q]
  BY <1>1, OnePage DEF Inv
<1>3. /\ page[p].step = "finish" /\ Up /\ httpd = None /\ httpd' = p /\ p # None
      /\ finishIn' = [creds |-> page[p].creds, code |-> page[p].code]
      /\ fstate' = "Pending" /\ slow' \in BOOLEAN
      /\ UNCHANGED <<vstate, finishOut, verifyIn, gReboot, loop, flash,
                     minted, late, tested, mixed, posts, resets>>
  BY OnboardingAssumption DEF handleFinish
<1>4. TypeOK'
  <2>1. finishIn' \in Input /\ fstate' \in FinishStates
    BY <1>1, <1>3 DEF Input, FinishStates
  <2>2. \A q \in Pages : page'[q].step = "waiting" => httpd' = q
    BY <1>2, <1>3, OnboardingAssumption DEF Inv, TypeOK
  <2> QED
    BY <1>2, <1>3, <2>1, <2>2 DEF Inv, TypeOK, loop
<1>5. ~late => ~Busy
  BY <1>3 DEF Inv, JobIsServed
<1>6. HomeIsHome' /\ JobIsServed' /\ CodeFollows'
  BY <1>3, <1>5 DEF Inv, HomeIsHome, JobIsServed, CodeFollows, Busy, Up, loop
<1>7. NonceFollows'
  BY <1>1, <1>2, <1>3 DEF Inv, NonceFollows, Stands, loop
<1>8. VerdictFollows'
  BY <1>1, <1>2, <1>3 DEF Inv, VerdictFollows, loop
<1>9. \A q \in Pages : ~Finishes(q)
  BY <1>1, <1>2 DEF Finishes
<1> QED
  BY <1>4, <1>6, <1>7, <1>8, <1>9 DEF Inv

\* The answer of a finish: what the page shows is the stored code and nonce.
LEMMA AnswerInv ==
  ASSUME Inv, answerFinish
  PROVE  /\ Inv'
         /\ \A q \in Pages : Finishes(q) =>
              /\ ~late => /\ page'[q].shown.code = flash.pair /\ page'[q].shown.qr = flash.pair
                          /\ flash.setup = flash.pair /\ page'[q].shown.nonce = flash.nonce
              /\ ~mixed => page[q].creds \in tested
<1> DEFINE p == httpd
           out == [qr |-> finishOut.qr, code |-> finishIn.code, nonce |-> finishOut.nonce]
           y == [page[p] EXCEPT !.step = "code"]
           z == [page[p] EXCEPT !.step = "done"]
           x == [z EXCEPT !.shown = out]
<1>1. p \in Pages /\ p # None /\ page[p] \in Page
  BY DEF answerFinish, Inv, TypeOK
<1>2. y \in Page /\ y.step = "code" /\ y.creds = page[p].creds
      /\ z \in Page /\ z.step = "done" /\ z.creds = page[p].creds
  BY <1>1, AtStep DEF Steps
<1>3. out \in [qr : Codes \cup {None}, code : Codes \cup {None}, nonce : Nat]
  BY DEF Inv, TypeOK, Input, Output
<1>4. /\ httpd' = None /\ late' \in BOOLEAN /\ (~late' => ~late /\ fstate # "Pending")
      /\ UNCHANGED <<fstate, vstate, finishIn, finishOut, verifyIn, gReboot, loop, flash,
                     minted, slow, tested, mixed, posts, resets>>
      /\ \/ page[p].step # "waiting" /\ UNCHANGED page
         \/ page[p].step = "waiting" /\ goes(p, y)
         \/ page[p].step = "waiting" /\ fstate = "Done" /\ goes(p, x)
  <2>1. x = [page[httpd] EXCEPT !.step = "done", !.shown =
              [qr |-> finishOut.qr, code |-> finishIn.code, nonce |-> finishOut.nonce]]
    OBVIOUS
  <2>2. y = [page[httpd] EXCEPT !.step = "code"]
    OBVIOUS
  <2> HIDE DEF x, y
  <2>3. /\ httpd' = None
        /\ UNCHANGED <<fstate, vstate, finishIn, finishOut, verifyIn, gReboot, loop, flash,
                       minted, slow, tested, mixed, posts, resets>>
    BY DEF answerFinish
  <2>4. \/ fstate = "Done" /\ answered(httpd, x) /\ late' = late
        \/ fstate = "Failed" /\ answered(httpd, y) /\ late' = late
        \/ answered(httpd, y) /\ late' = TRUE
    BY <2>1, <2>2 DEF answerFinish
  <2>5. late \in BOOLEAN
    BY DEF Inv, TypeOK
  <2>6. /\ answered(httpd, x) => IF page[httpd].step = "waiting" THEN goes(httpd, x)
                                 ELSE UNCHANGED page
        /\ answered(httpd, y) => IF page[httpd].step = "waiting" THEN goes(httpd, y)
                                 ELSE UNCHANGED page
    BY DEF answered
  <2>7. late' \in BOOLEAN /\ (~late' => ~late /\ fstate # "Pending")
    <3>1. CASE late' = TRUE
      BY <3>1
    <3>2. CASE late' = late /\ fstate \in {"Done", "Failed"}
      BY <2>5, <3>2
    <3> QED
      BY <2>4, <3>1, <3>2
  <2> QED
    BY <2>3, <2>4, <2>6, <2>7
<1>5. x \in Page /\ x.step = "done" /\ x.creds = page[p].creds /\ x.shown = out
  <2> HIDE DEF z, out
  <2> QED
    BY <1>2, <1>3, PageType DEF Page
<1>6. out.qr = finishOut.qr /\ out.code = finishIn.code /\ out.nonce = finishOut.nonce
  OBVIOUS
<1> HIDE DEF p, out, x, y, z
<1>7. page' \in [Pages -> Page]
      /\ (\A q \in Pages \ {p} : page'[q] = page[q])
      /\ \/ page[p].step # "waiting" /\ page'[p] = page[p]
         \/ page[p].step = "waiting" /\ page'[p] = y
         \/ page[p].step = "waiting" /\ fstate = "Done" /\ page'[p] = x
  BY <1>1, <1>2, <1>4, <1>5, OnePage DEF Inv, TypeOK
<1>8. \A q \in Pages : page'[q].step # "waiting"
  BY <1>1, <1>2, <1>5, <1>7 DEF Inv, TypeOK, p
<1>9. TypeOK'
  BY <1>4, <1>7, <1>8 DEF Inv, TypeOK, loop
<1>10. HomeIsHome' /\ JobIsServed' /\ CodeFollows'
  BY <1>4 DEF Inv, HomeIsHome, JobIsServed, CodeFollows, Busy, Up, loop
<1>11. NonceFollows'
  BY <1>1, <1>2, <1>4, <1>5, <1>6, <1>7 DEF Inv, NonceFollows, Stands, loop
<1>12. VerdictFollows'
  BY <1>1, <1>2, <1>4, <1>5, <1>7 DEF Inv, VerdictFollows, loop
<1>13. ASSUME NEW q \in Pages, Finishes(q)
       PROVE  /\ ~late => /\ page'[q].shown.code = flash.pair /\ page'[q].shown.qr = flash.pair
                          /\ flash.setup = flash.pair /\ page'[q].shown.nonce = flash.nonce
              /\ ~mixed => page[q].creds \in tested
  <2>1. q = p /\ fstate = "Done" /\ page'[q] = x /\ page[p].step = "waiting"
    BY <1>1, <1>2, <1>5, <1>7, <1>13 DEF Finishes
  <2>2. ~late => /\ finishOut.qr = finishIn.code
                 /\ flash.pair = finishIn.code /\ flash.setup = finishIn.code
    BY <1>1, <2>1 DEF Inv, CodeFollows, p
  <2>3. Up /\ ~flash.password
    BY <1>1, <2>1 DEF Inv, HomeIsHome, p
  <2>4. finishOut.nonce = flash.nonce
    BY <2>1, <2>3 DEF Inv, NonceFollows, Stands
  <2>5. ~mixed => page[p].creds \in tested
    BY <1>1, <2>1 DEF Inv, VerdictFollows
  <2> QED
    BY <1>5, <1>6, <2>1, <2>2, <2>4, <2>5
<1> QED
  BY <1>9, <1>10, <1>11, <1>12, <1>13 DEF Inv

LEMMA RebootInv ==
  ASSUME Inv, NEW p \in Pages, handleReboot(p) PROVE Inv' /\ UNCHANGED page
<1>1. TypeOK'
  BY DEF handleReboot, Inv, TypeOK, loop, history
<1>2. HomeIsHome' /\ JobIsServed' /\ CodeFollows'
  BY DEF handleReboot, Inv, HomeIsHome, JobIsServed, CodeFollows, Busy, Up, loop, history
<1>3. NonceFollows' /\ VerdictFollows'
  BY DEF handleReboot, Inv, NonceFollows, Stands, VerdictFollows, loop, history
<1> QED
  BY <1>1, <1>2, <1>3 DEF handleReboot, Inv

-------------------------------------------------------------------------------
(* The loop task. *)

LEMMA RunInv == ASSUME Inv, run PROVE Inv' /\ UNCHANGED page
<1>1. TypeOK'
  BY DEF run, Inv, TypeOK, portal, Places
<1>2. HomeIsHome' /\ JobIsServed' /\ CodeFollows'
  BY DEF run, Inv, HomeIsHome, JobIsServed, CodeFollows, Busy, Up, portal
<1>3. NonceFollows' /\ VerdictFollows'
  BY DEF run, Inv, NonceFollows, Stands, VerdictFollows, portal
<1> QED
  BY <1>1, <1>2, <1>3 DEF run, Inv

LEMMA TakeVerifyInv == ASSUME Inv, takeVerify PROVE Inv' /\ UNCHANGED page
<1>1. job' \in Job /\ job'.creds = verifyIn /\ job'.code = job.code /\ job'.err = job.err
  BY DEF takeVerify, Inv, TypeOK, Job
<1>2. TypeOK'
  BY <1>1 DEF takeVerify, Inv, TypeOK, portal, history, Places
<1>3. HomeIsHome' /\ JobIsServed' /\ CodeFollows'
  BY DEF takeVerify, Inv, HomeIsHome, JobIsServed, CodeFollows, Busy, Up, portal, history
<1>4. NonceFollows' /\ VerdictFollows'
  BY <1>1 DEF takeVerify, Inv, NonceFollows, Stands, VerdictFollows, portal, history
<1> QED
  BY <1>2, <1>3, <1>4 DEF takeVerify, Inv

LEMMA ApplyVerifyInv == ASSUME Inv, applyVerify PROVE Inv' /\ UNCHANGED page
<1>1. tested \subseteq tested' /\ tested' \subseteq Creds /\ vstate' \in {"Ok", "Fail"}
      /\ (vstate' = "Ok" => job.creds \in tested')
  BY OnboardingAssumption DEF applyVerify, Inv, TypeOK
<1>2. TypeOK'
  BY <1>1 DEF applyVerify, Inv, TypeOK, Places, VerifyStates
<1>3. HomeIsHome' /\ JobIsServed' /\ CodeFollows'
  BY DEF applyVerify, Inv, HomeIsHome, JobIsServed, CodeFollows, Busy, Up
<1>4. NonceFollows' /\ VerdictFollows'
  BY <1>1 DEF applyVerify, Inv, NonceFollows, Stands, VerdictFollows
<1> QED
  BY <1>2, <1>3, <1>4 DEF applyVerify, Inv

LEMMA TakeFinishInv == ASSUME Inv, takeFinish PROVE Inv' /\ UNCHANGED page
<1>1. /\ finishIn.creds \in Creds \cup {None} /\ finishIn.code \in Codes \cup {None}
      /\ job' \in Job /\ job'.code = finishIn.code
  BY DEF takeFinish, Inv, TypeOK, Input, Job
<1>2. /\ flash' \in [wifi : Creds \cup {None}, pair : Codes \cup {None},
                     setup : Codes \cup {None}, nonce : Nat, password : BOOLEAN]
      /\ flash'.nonce = flash.nonce /\ flash'.password = flash.password
      /\ flash'.pair = flash.pair /\ flash'.setup = flash.setup
  BY <1>1 DEF takeFinish, Inv, TypeOK
<1>3. TypeOK'
  BY <1>1, <1>2 DEF takeFinish, Inv, TypeOK, Places, portal, history
<1>4. HomeIsHome' /\ JobIsServed' /\ CodeFollows'
  BY <1>1, <1>2
     DEF takeFinish, Inv, HomeIsHome, JobIsServed, CodeFollows, Busy, Up, portal, history
<1>5. NonceFollows' /\ VerdictFollows'
  BY <1>2 DEF takeFinish, Inv, NonceFollows, Stands, VerdictFollows, portal, history
<1> QED
  BY <1>3, <1>4, <1>5 DEF takeFinish, Inv

LEMMA StorePairInv == ASSUME Inv, storePair PROVE Inv' /\ UNCHANGED page
<1>1. job' \in Job /\ job'.code = job.code /\ job.code \in Codes \cup {None}
  BY DEF storePair, Inv, TypeOK, Job
<1>2. /\ flash' \in [wifi : Creds \cup {None}, pair : Codes \cup {None},
                     setup : Codes \cup {None}, nonce : Nat, password : BOOLEAN]
      /\ flash'.nonce = flash.nonce /\ flash'.password = flash.password
      /\ flash'.pair = job.code /\ flash'.wifi = flash.wifi
  BY <1>1 DEF storePair, Inv, TypeOK
<1>3. lpc' = "nonce" \/ (lpc' = "publish" /\ job'.err = TRUE)
  BY DEF storePair, Inv, TypeOK, Job
<1>4. TypeOK'
  BY <1>1, <1>2 DEF storePair, Inv, TypeOK, Places, portal, history
<1>5. HomeIsHome' /\ JobIsServed' /\ CodeFollows'
  BY <1>1, <1>2, <1>3
     DEF storePair, Inv, HomeIsHome, JobIsServed, CodeFollows, Busy, Up, portal, history
<1>6. NonceFollows' /\ VerdictFollows'
  BY <1>2, <1>3 DEF storePair, Inv, NonceFollows, Stands, VerdictFollows, portal, history
<1> QED
  BY <1>4, <1>5, <1>6 DEF storePair, Inv

\* A nonce in force is kept, and one that is drawn is the first.
LEMMA NonceKept ==
  ASSUME TypeOK, NEW n \in 1..minted + 1, nonceKept(n)
  PROVE  /\ n \in Nat /\ n # 0 /\ minted' \in Nat
         /\ flash' \in [wifi : Creds \cup {None}, pair : Codes \cup {None},
                        setup : Codes \cup {None}, nonce : Nat, password : BOOLEAN]
         /\ flash'.nonce = n /\ flash'.password = flash.password
         /\ flash'.pair = flash.pair /\ flash'.setup = flash.setup /\ flash'.wifi = flash.wifi
         /\ \A k : Stands(k) => Stands(k)'
<1>1. minted + 1 \in Nat /\ n \in Nat /\ n # 0
  BY DEF TypeOK
<1>2. CASE flash.nonce # 0
  BY <1>1, <1>2 DEF nonceKept, TypeOK, Stands
<1>3. CASE flash.nonce = 0
  BY <1>1, <1>3 DEF nonceKept, TypeOK, Stands
<1> QED
  BY <1>2, <1>3

LEMMA StoreNonceInv == ASSUME Inv, storeNonce PROVE Inv' /\ UNCHANGED page
<1>1. PICK n \in 1..minted + 1 : nonceKept(n) /\ job' = [job EXCEPT !.nonce = n]
  BY DEF storeNonce
<1>2. /\ n \in Nat /\ n # 0 /\ minted' \in Nat
      /\ flash' \in [wifi : Creds \cup {None}, pair : Codes \cup {None},
                     setup : Codes \cup {None}, nonce : Nat, password : BOOLEAN]
      /\ flash'.nonce = n /\ flash'.password = flash.password
      /\ flash'.pair = flash.pair /\ flash'.setup = flash.setup /\ flash'.wifi = flash.wifi
      /\ \A k : Stands(k) => Stands(k)'
  BY <1>1, NonceKept DEF Inv
<1>3. job' \in Job /\ job'.nonce = n /\ job'.code = job.code
  BY <1>1, <1>2 DEF Inv, TypeOK, Job
<1>4. TypeOK'
  BY <1>2, <1>3 DEF storeNonce, Inv, TypeOK, Places, portal
<1>5. HomeIsHome' /\ JobIsServed' /\ CodeFollows'
  BY <1>2, <1>3 DEF storeNonce, Inv, HomeIsHome, JobIsServed, CodeFollows, Busy, Up, portal
<1>6. Stands(n)'
  BY <1>2 DEF Stands
<1>7. NonceFollows'
  BY <1>2, <1>3, <1>6 DEF storeNonce, Inv, NonceFollows, portal
<1>8. VerdictFollows'
  BY DEF storeNonce, Inv, VerdictFollows, portal
<1> QED
  BY <1>4, <1>5, <1>7, <1>8 DEF storeNonce, Inv

LEMMA StoreSetupInv == ASSUME Inv, storeSetup PROVE Inv' /\ UNCHANGED page
<1>1. /\ job.code \in Codes \cup {None}
      /\ flash' \in [wifi : Creds \cup {None}, pair : Codes \cup {None},
                     setup : Codes \cup {None}, nonce : Nat, password : BOOLEAN]
      /\ flash'.nonce = flash.nonce /\ flash'.password = flash.password
      /\ flash'.pair = flash.pair /\ flash'.setup = job.code /\ flash'.wifi = flash.wifi
  BY DEF storeSetup, Inv, TypeOK, Job
<1>2. TypeOK'
  BY <1>1 DEF storeSetup, Inv, TypeOK, Places, portal, history
<1>3. HomeIsHome' /\ JobIsServed' /\ CodeFollows'
  BY <1>1 DEF storeSetup, Inv, HomeIsHome, JobIsServed, CodeFollows, Busy, Up, portal, history
<1>4. NonceFollows' /\ VerdictFollows'
  BY <1>1 DEF storeSetup, Inv, NonceFollows, Stands, VerdictFollows, portal, history
<1> QED
  BY <1>2, <1>3, <1>4 DEF storeSetup, Inv

LEMMA ApplyFinishInv == ASSUME Inv, applyFinish PROVE Inv' /\ UNCHANGED page
<1>1. /\ lpc = "publish" /\ lpc' = "top" /\ job.err \in BOOLEAN
      /\ UNCHANGED <<page, httpd, vstate, finishIn, verifyIn, gReboot, fst, job, flash, history>>
  BY DEF applyFinish, Inv, TypeOK, Job
<1>2. \/ job.err /\ fstate' = "Failed" /\ finishOut' = finishOut
      \/ ~job.err /\ fstate' = "Done" /\ finishOut' = [qr |-> job.code, nonce |-> job.nonce]
  BY DEF applyFinish
<1>3. fstate' \in FinishStates /\ finishOut' \in Output
  BY <1>1, <1>2 DEF Inv, TypeOK, Job, Output, FinishStates
<1>4. TypeOK'
  BY <1>1, <1>3 DEF Inv, TypeOK, Places, history
<1>5. HomeIsHome' /\ JobIsServed' /\ CodeFollows'
  BY <1>1, <1>2 DEF Inv, HomeIsHome, JobIsServed, CodeFollows, Busy, Up, history
<1>6. NonceFollows' /\ VerdictFollows'
  BY <1>1, <1>2 DEF Inv, NonceFollows, Stands, VerdictFollows, history
<1> QED
  BY <1>1, <1>4, <1>5, <1>6 DEF Inv

-------------------------------------------------------------------------------
(* Restarts, and the home network. *)

LEMMA StartsInv ==
  ASSUME Inv, restart \/ powerCut PROVE Inv' /\ \A q \in Pages : ~Finishes(q)
<1>1. starts /\ resets' \in 0..MaxResets
  BY OnboardingAssumption DEF restart, powerCut, Inv, TypeOK
<1>2. ASSUME NEW q \in Pages
      PROVE  /\ page'[q] \in Page /\ page'[q].creds = page[q].creds /\ page'[q].shown = page[q].shown
             /\ page'[q].step # "waiting"
             /\ page'[q].step = IF page[q].step = "waiting" THEN "finish" ELSE page[q].step
  <2>1. page[q] \in Page /\ "finish" \in Steps
    BY DEF Inv, TypeOK, Steps
  <2>2. CASE page[q].step = "waiting"
    <3>1. page'[q] = [page[q] EXCEPT !.step = "finish"]
      BY <1>1, <2>2 DEF starts
    <3> QED
      BY <2>1, <2>2, <3>1, AtStep
  <2>3. CASE page[q].step # "waiting"
    BY <1>1, <2>1, <2>3 DEF starts
  <2> QED
    BY <2>2, <2>3
<1>3. page' \in [Pages -> Page]
  <2>1. page' = [q \in Pages |-> page'[q]]
    BY <1>1 DEF starts
  <2> QED
    BY <1>2, <2>1
<1>4. NoJob \in Job /\ NoInput \in Input /\ NoOutput \in Output
  BY DEF NoJob, NoInput, NoOutput, Job, Input, Output
<1>5. TypeOK'
  BY <1>1, <1>2, <1>3, <1>4 DEF starts, Inv, TypeOK, Places, FinishStates, VerifyStates
<1>6. HomeIsHome' /\ JobIsServed' /\ CodeFollows'
  BY <1>1 DEF starts, Inv, HomeIsHome, JobIsServed, CodeFollows, Busy, Up
<1>7. NonceFollows' /\ VerdictFollows'
  BY <1>1, <1>2 DEF starts, Inv, NonceFollows, Stands, VerdictFollows
<1>8. \A q \in Pages : ~Finishes(q)
  BY <1>2 DEF Finishes
<1> QED
  BY <1>5, <1>6, <1>7, <1>8 DEF Inv

LEMMA AuthBeginInv == ASSUME Inv, authBegin PROVE Inv' /\ UNCHANGED page
<1>1. /\ minted' \in Nat
      /\ flash' \in [wifi : Creds \cup {None}, pair : Codes \cup {None},
                     setup : Codes \cup {None}, nonce : Nat, password : BOOLEAN]
      /\ flash'.password = flash.password /\ flash'.wifi = flash.wifi
      /\ flash'.pair = flash.pair /\ flash'.setup = flash.setup
      /\ \A k : Stands(k) => Stands(k)'
  <2>1. CASE flash.password
    BY <2>1 DEF authBegin, Inv, TypeOK, Stands
  <2>2. CASE ~flash.password
    <3>1. PICK n \in 1..minted + 1 : nonceKept(n)
      BY <2>2 DEF authBegin
    <3> QED
      BY <3>1, NonceKept DEF Inv
  <2> QED
    BY <2>1, <2>2
<1>2. /\ lpc = "boot" /\ lpc' = "online"
      /\ UNCHANGED <<page, portal, fst, job, slow, late, tested, mixed, posts, resets>>
  BY DEF authBegin
<1>3. TypeOK'
  BY <1>1, <1>2 DEF Inv, TypeOK, Places, portal
<1>4. HomeIsHome' /\ JobIsServed' /\ CodeFollows'
  BY <1>1, <1>2 DEF Inv, HomeIsHome, JobIsServed, CodeFollows, Busy, Up, portal
<1>5. NonceFollows' /\ VerdictFollows'
  BY <1>1, <1>2 DEF Inv, NonceFollows, VerdictFollows, portal
<1> QED
  BY <1>2, <1>3, <1>4, <1>5 DEF Inv

LEMMA SetupInv ==
  ASSUME Inv, clearNonce \/ \E p \in Pages : handleSetup(p) PROVE Inv' /\ UNCHANGED page
<1>1. /\ flash' \in [wifi : Creds \cup {None}, pair : Codes \cup {None},
                     setup : Codes \cup {None}, nonce : Nat, password : BOOLEAN]
      /\ flash'.password /\ flash'.wifi = flash.wifi
      /\ flash'.pair = flash.pair /\ flash'.setup = flash.setup
  <2>1. CASE clearNonce
    BY <2>1 DEF clearNonce, Inv, TypeOK
  <2>2. CASE \E p \in Pages : handleSetup(p)
    BY <2>2 DEF handleSetup, Inv, TypeOK
  <2> QED
    BY <2>1, <2>2
<1>2. lpc = "online" /\ UNCHANGED <<page, portal, loop, history>>
  BY DEF clearNonce, handleSetup
<1>3. TypeOK'
  BY <1>1, <1>2 DEF Inv, TypeOK, portal, loop, history
<1>4. HomeIsHome' /\ JobIsServed' /\ CodeFollows'
  BY <1>1, <1>2 DEF Inv, HomeIsHome, JobIsServed, CodeFollows, Busy, Up, portal, loop, history
<1>5. NonceFollows' /\ VerdictFollows'
  BY <1>1, <1>2 DEF Inv, NonceFollows, Stands, VerdictFollows, portal, loop, history
<1> QED
  BY <1>2, <1>3, <1>4, <1>5 DEF Inv

-------------------------------------------------------------------------------
\* Every step keeps the invariant, and a page that finishes is told what is stored.
StepTells ==
  \A q \in Pages : Finishes(q) =>
    /\ ~late => /\ page'[q].shown.code = flash.pair /\ page'[q].shown.qr = flash.pair
                /\ flash.setup = flash.pair /\ page'[q].shown.nonce = flash.nonce
    /\ ~mixed => page[q].creds \in tested

LEMMA NextInv == Inv /\ [Next]_vars => Inv' /\ StepTells
<1> SUFFICES ASSUME Inv, [Next]_vars PROVE Inv' /\ StepTells
  OBVIOUS
<1>1. UNCHANGED page => StepTells
  BY DEF StepTells, Finishes
<1>2. (\A q \in Pages : ~Finishes(q)) => StepTells
  BY DEF StepTells
<1>3. CASE UNCHANGED vars
  <2>1. UNCHANGED <<page, portal, loop, flash, history>>
    BY <1>3 DEF vars
  <2>2. TypeOK' /\ HomeIsHome' /\ JobIsServed' /\ CodeFollows'
    BY <2>1 DEF portal, loop, history, Inv, TypeOK, HomeIsHome, JobIsServed, CodeFollows, Busy, Up
  <2>3. NonceFollows' /\ VerdictFollows'
    BY <2>1 DEF portal, loop, history, Inv, NonceFollows, Stands, VerdictFollows
  <2> QED
    BY <1>1, <2>1, <2>2, <2>3 DEF Inv
<1>4. CASE answerFinish
  BY <1>4, AnswerInv DEF StepTells
<1>5. CASE \E p \in Pages : handleVerify(p) \/ handleFinish(p)
  BY <1>2, <1>5, VerifyInv, FinishInv
<1>6. CASE \E p \in Pages : handleReboot(p) \/ handleSetup(p)
  BY <1>1, <1>6, RebootInv, SetupInv
<1>7. CASE run \/ takeVerify \/ applyVerify \/ takeFinish
  BY <1>1, <1>7, RunInv, TakeVerifyInv, ApplyVerifyInv, TakeFinishInv
<1>8. CASE storePair \/ storeNonce \/ storeSetup \/ applyFinish
  BY <1>1, <1>8, StorePairInv, StoreNonceInv, StoreSetupInv, ApplyFinishInv
<1>9. CASE restart \/ powerCut
  BY <1>2, <1>9, StartsInv
<1>10. CASE authBegin \/ clearNonce
  BY <1>1, <1>10, AuthBeginInv, SetupInv
<1>11. ASSUME Next, ~answerFinish,
              ~(run \/ takeVerify \/ applyVerify \/ takeFinish),
              ~(storePair \/ storeNonce \/ storeSetup \/ applyFinish),
              ~(restart \/ powerCut), ~(authBegin \/ clearNonce)
       PROVE  Inv' /\ StepTells
  <2>1. PICK p \in Pages : \/ \E c \in Creds : submitWifi(p, c)
                           \/ \E k \in Codes : submitCode(p, k)
                           \/ handleVerify(p) \/ verifyLost(p) \/ pollVerify(p)
                           \/ handleFinish(p) \/ finishDropped(p) \/ finishGivenUp(p)
                           \/ handleReboot(p) \/ reload(p) \/ handleSetup(p)
    BY <1>11 DEF Next
  <2>2. CASE handleVerify(p) \/ handleFinish(p)
    BY <1>5, <2>2
  <2>3. CASE handleReboot(p) \/ handleSetup(p)
    BY <1>6, <2>3
  <2>4. CASE ~(handleVerify(p) \/ handleFinish(p) \/ handleReboot(p) \/ handleSetup(p))
    <3>1. Inv' /\ \A q \in Pages : ~Finishes(q)
      BY <2>1, <2>4, PagesInv
    <3> QED
      BY <1>2, <3>1
  <2> QED
    BY <2>2, <2>3, <2>4
<1> QED
  BY <1>3, <1>4, <1>7, <1>8, <1>9, <1>10, <1>11

LEMMA Invariance == Spec => []Inv
<1>1. Inv /\ [Next]_vars => Inv'
  BY NextInv
<1> QED
  BY <1>1, InitInv, PTL DEF Spec

-------------------------------------------------------------------------------
(* The theorems. *)

\* Every variable keeps its type, and a page waits only while httpd serves it.
THEOREM TypeCorrect == Spec => []TypeOK
BY Invariance, PTL DEF Inv

\* The nonce a page was told is kept through later finishes, restarts, power cuts and the
\* boot on the home network, until a password is set (auth_store.cpp, onboarding.cpp).
THEOREM NonceKeepsStanding == Spec => []NonceStands
<1>1. Inv => NonceStands
  BY DEF Inv, NonceFollows, Stands, NonceStands
<1> QED
  BY <1>1, Invariance, PTL

\* A page that finishes is told the stored code and nonce, and sent credentials the device
\* has connected with, outside the two cases DoneIsTrue names (onboarding.cpp:367-416).
THEOREM DoneTellsTheTruth == Spec => DoneIsTrue
<1>1. Inv /\ [Next]_vars =>
        [\A p \in Pages : Finishes(p) =>
           /\ ~late => /\ page'[p].shown.code = flash.pair /\ page'[p].shown.qr = flash.pair
                       /\ flash.setup = flash.pair /\ page'[p].shown.nonce = flash.nonce
           /\ ~mixed => page[p].creds \in tested]_vars
  BY NextInv DEF StepTells
<1> QED
  BY <1>1, Invariance, PTL DEF Spec, DoneIsTrue
===============================================================================
