------------------------------ MODULE AuthProofs ------------------------------
(***************************************************************************)
(* Proofs about the two halves of authentication.                          *)
(*                                                                         *)
(* SignIn, for any number of tabs, page loads, tokens, sessions and boots: *)
(* the nonce buys one password, and a page used alone is never refused for *)
(* its token.                                                              *)
(*                                                                         *)
(* Throttle, for every number of clients, table size and clock width: its  *)
(* type, that lockouts are earned, and that they survive the attempts of   *)
(* other clients.                                                          *)
(***************************************************************************)
EXTENDS SignIn, Throttle, Integers, WellFoundedInduction, TLAPS

-------------------------------------------------------------------------------
(* The inductive invariant. *)

\* What is true of a tab since it was loaded, as long as nobody else touched the jar, the
\* device or the session: its form pages are those of a browser that is not signed in,
\* and its token, kept or under way, is the one the device will accept.
Undisturbed(t) ==
  /\ tabs[t].page \in {"login", "setup"} => ~hasValidSession
  /\ tabs[t].token # None =>
       /\ jar.csrf = tabs[t].token
       /\ tabs[t].token.boot = boot /\ tabs[t].token.binding = sessionBinding
  /\ tabs[t].answer # None =>
       /\ tabs[t].answer.is # "forbidden"
       /\ tabs[t].answer.is = "token" =>
            /\ tabs[t].answer.token.boot = boot
            /\ tabs[t].answer.token.binding = sessionBinding

TabInv(t) ==
  /\ tabs[t].task \in {"login", "setup"} => tabs[t].page \in {"login", "setup"}
  /\ tabs[t].answer # None => tabs[t].answer.session \in 0..opened
  /\ t \notin shared => Undisturbed(t)

\* Sessions exist only where a password does, and a password was stored once.
OncePassword ==
  /\ live # {} \/ clearing # None => password
  /\ passwords <= 1 /\ (~password => passwords = 0)

Inv == TypeOK /\ OncePassword /\ \A t \in Tabs : TabInv(t)

-------------------------------------------------------------------------------
(* What a step of one tab does to the others. *)

LEMMA OneTab ==
  ASSUME TypeOK, NEW t \in Tabs, NEW x \in Tab, becomes(t, x)
  PROVE  /\ tabs' \in [Tabs -> Tab] /\ tabs'[t] = x
         /\ \A u \in Tabs \ {t} : tabs'[u] = tabs[u]
BY DEF TypeOK, becomes

LEMMA BlankType ==
  ASSUME NEW pg \in Pages \cup {None}
  PROVE  /\ Blank(pg) \in Tab /\ Blank(pg).page = pg /\ Blank(pg).token = None
         /\ Blank(pg).task = "none" /\ Blank(pg).answer = None
BY DEF Blank, Tab, Tasks

\* A tab that does nothing is disturbed by nothing, or is marked as sharing.
LEMMA Frame ==
  ASSUME NEW u \in Tabs, TypeOK, TabInv(u), tabs'[u] = tabs[u],
         opened' \in Nat, opened' >= opened,
         u \notin shared' => /\ u \notin shared /\ jar' = jar /\ boot' = boot
                             /\ hasValidSession' <=> hasValidSession
  PROVE  TabInv(u)'
<1>1. tabs[u].answer # None => tabs[u].answer.session \in 0..opened'
  BY DEF TabInv, TypeOK
<1>2. CASE u \in shared'
  BY <1>1, <1>2 DEF TabInv
<1>3. CASE u \notin shared'
  <2>1. sessionBinding' = sessionBinding
    BY <1>3 DEF sessionBinding
  <2>2. Undisturbed(u)'
    BY <1>3, <2>1 DEF TabInv, Undisturbed
  <2> QED
    BY <1>1, <2>2 DEF TabInv
<1> QED
  BY <1>2, <1>3

\* A request is answered to its tab; the jar has not changed yet.
LEMMA AnswerInv ==
  ASSUME TypeOK, \A u \in Tabs : TabInv(u),
         NEW t \in Tabs, NEW is \in Answers, NEW tok \in Token \cup {None}, NEW sid \in 0..opened',
         answers(t, is, tok, sid), opened' \in Nat, opened' >= opened,
         jar' = jar, boot' = boot, shared' = shared, hasValidSession' <=> hasValidSession,
         t \notin shared =>
           /\ is # "forbidden"
           /\ is = "token" => tok.boot = boot /\ tok.binding = sessionBinding
  PROVE  tabs' \in [Tabs -> Tab] /\ \A u \in Tabs : TabInv(u)'
<1> DEFINE x == [tabs[t] EXCEPT !.answer = Answered(is, tok, sid)]
<1>1. tabs[t] \in Tab
  BY DEF TypeOK
<1>2. Answered(is, tok, sid) \in Answer
  BY DEF Answered, Answer
<1>3. x \in Tab /\ x.page = tabs[t].page /\ x.token = tabs[t].token /\ x.task = tabs[t].task
      /\ x.answer = Answered(is, tok, sid)
  BY <1>1, <1>2 DEF Tab
<1>4. becomes(t, x)
  BY DEF answers
<1>5. /\ tabs' \in [Tabs -> Tab] /\ tabs'[t] = x
      /\ \A u \in Tabs \ {t} : tabs'[u] = tabs[u]
  <2> HIDE DEF x
  <2> QED
    BY <1>3, <1>4, OneTab
<1>6. \A u \in Tabs \ {t} : TabInv(u)'
  BY <1>5, Frame
<1>7. x.answer.is = is /\ x.answer.token = tok /\ x.answer.session = sid
  BY <1>3 DEF Answered
<1>8. sessionBinding' = sessionBinding
  BY DEF sessionBinding
<1> HIDE DEF x
<1>9. t \notin shared => Undisturbed(t)'
  BY <1>3, <1>5, <1>7, <1>8 DEF TabInv, Undisturbed
<1>10. TabInv(t)'
  BY <1>3, <1>5, <1>7, <1>9 DEF TabInv
<1> QED
  BY <1>5, <1>6, <1>10

\* A tab goes to another page; whoever shares its jar is marked if the jar changed.
LEMMA BlankInv ==
  ASSUME TypeOK, \A u \in Tabs : TabInv(u), NEW t \in Tabs, NEW pg \in Pages \cup {None},
         becomes(t, Blank(pg)), opened' = opened,
         \A u \in Tabs \ {t} : u \notin shared' =>
            /\ u \notin shared /\ jar' = jar /\ boot' = boot
            /\ hasValidSession' <=> hasValidSession,
         pg \in {"login", "setup"} => ~hasValidSession'
  PROVE  tabs' \in [Tabs -> Tab] /\ \A u \in Tabs : TabInv(u)'
<1>1. /\ tabs' \in [Tabs -> Tab] /\ tabs'[t] = Blank(pg)
      /\ \A u \in Tabs \ {t} : tabs'[u] = tabs[u]
  BY BlankType, OneTab
<1>2. \A u \in Tabs \ {t} : TabInv(u)'
  BY <1>1, Frame DEF TypeOK
<1>3. TabInv(t)'
  BY <1>1, BlankType DEF TabInv, Undisturbed
<1> QED
  BY <1>1, <1>2, <1>3

\* A tab keeps its page and shows a message, starts a task, or drops its token.
LEMMA RestInv ==
  ASSUME TypeOK, \A u \in Tabs : TabInv(u), NEW t \in Tabs, NEW x \in Tab,
         becomes(t, x), UNCHANGED <<jar, boot, live, opened, shared>>,
         x.page = tabs[t].page, x.token \in {tabs[t].token, None}, x.answer = None,
         x.task \in {"login", "setup"} => x.page \in {"login", "setup"}
  PROVE  tabs' \in [Tabs -> Tab] /\ \A u \in Tabs : TabInv(u)'
<1>1. /\ tabs' \in [Tabs -> Tab] /\ tabs'[t] = x
      /\ \A u \in Tabs \ {t} : tabs'[u] = tabs[u]
  BY OneTab
<1>2. (hasValidSession' <=> hasValidSession) /\ sessionBinding' = sessionBinding
  BY DEF hasValidSession, sessionBinding
<1>3. \A u \in Tabs \ {t} : TabInv(u)'
  BY <1>1, <1>2, Frame DEF TypeOK
<1>4. TabInv(t)'
  BY <1>1, <1>2 DEF TabInv, Undisturbed
<1> QED
  BY <1>1, <1>3, <1>4

-------------------------------------------------------------------------------
(* The steps. *)

LEMMA InitInv == Init => Inv
<1> SUFFICES ASSUME Init PROVE Inv
  OBVIOUS
<1>1. /\ tabs = [t \in Tabs |-> Blank(None)] /\ Blank(None) \in Tab
      /\ jar = [session |-> 0, csrf |-> None]
  BY BlankType DEF Init
<1>2. 1 \in 1..MaxBoots /\ 0 \in 0..MaxMints /\ 0 \in 0..MaxLoads
  BY SignInAssumption
<1>3. TypeOK
  <2>1. tabs \in [Tabs -> Tab] /\ jar \in [session : 0..0, csrf : Token \cup {None}]
    BY <1>1
  <2>2. boot = 1 /\ live = {} /\ opened = 0 /\ minted = 0 /\ shared = {} /\ loads = 0
        /\ password = FALSE /\ nonce = TRUE /\ clearing = None /\ passwords = 0
    BY DEF Init
  <2>3. live \subseteq 1..opened /\ shared \subseteq Tabs
    BY <2>2
  <2> QED
    BY <1>2, <2>1, <2>2, <2>3 DEF TypeOK
<1>4. OncePassword
  BY DEF Init, OncePassword
<1>5. ASSUME NEW t \in Tabs PROVE TabInv(t)
  <2>1. tabs[t] = Blank(None)
    BY <1>1
  <2>2. None \notin {"login", "setup"}
    BY SignInAssumption DEF Pages
  <2> QED
    BY <2>1, <2>2, BlankType DEF TabInv, Undisturbed
<1> QED
  BY <1>3, <1>4, <1>5 DEF Inv

\* A session verifies only where a password is stored, and a new one is nobody's yet.
LEMMA SessionFacts ==
  ASSUME Inv
  PROVE  /\ hasValidSession => password
         /\ jar.session # opened + 1 /\ opened + 1 \in Nat /\ opened + 1 \in 0..opened + 1
         /\ \A s : hasValidSession <=> jar.session \in live \ {opened + 1}
BY DEF Inv, TypeOK, OncePassword, hasValidSession

LEMMA LoadInv == ASSUME Inv, NEW t \in Tabs, load(t) PROVE Inv'
<1>1. gate \in Pages \cup {None} /\ (gate \in {"login", "setup"} => ~hasValidSession)
  BY SessionFacts DEF gate, Pages
<1>2. tabs' \in [Tabs -> Tab] /\ \A u \in Tabs : TabInv(u)'
  <2>1. hasValidSession' <=> hasValidSession
    BY DEF load, device, hasValidSession
  <2> QED
    BY <1>1, <2>1, BlankInv DEF load, device, Inv
<1>3. TypeOK'
  <2>1. loads' \in 0..MaxLoads /\ shared' \subseteq Tabs
    BY SignInAssumption DEF load, Inv, TypeOK
  <2> QED
    BY <1>2, <2>1 DEF load, device, Inv, TypeOK
<1>4. OncePassword'
  BY DEF load, device, Inv, OncePassword
<1> QED
  BY <1>2, <1>3, <1>4 DEF Inv

\* A tab whose task, tries, answer or token changes is a tab.
LEMMA TabType ==
  ASSUME NEW y \in Tab
  PROVE  /\ \A task \in Tasks : [y EXCEPT !.task = task] \in Tab
         /\ \A n \in 0..2 : [y EXCEPT !.tries = n] \in Tab
         /\ [y EXCEPT !.answer = None] \in Tab
         /\ [y EXCEPT !.token = None] \in Tab
<1>1. \A task \in Tasks : [y EXCEPT !.task = task] \in Tab
  BY DEF Tab
<1>2. \A n \in 0..2 : [y EXCEPT !.tries = n] \in Tab
  BY DEF Tab
<1>3. [y EXCEPT !.answer = None] \in Tab
  BY DEF Tab
<1>4. [y EXCEPT !.token = None] \in Tab
  BY DEF Tab
<1> QED
  BY <1>1, <1>2, <1>3, <1>4

\* A tab that starts a task, shows a message, or drops its token to try again.
LEMMA StepTypes ==
  ASSUME NEW y \in Tab, NEW task \in Tasks
  PROVE  /\ [[y EXCEPT !.task = task] EXCEPT !.tries = 1] \in Tab
         /\ [[[y EXCEPT !.answer = None] EXCEPT !.task = task] EXCEPT !.tries = 0] \in Tab
         /\ [[[y EXCEPT !.answer = None] EXCEPT !.token = None] EXCEPT !.tries = 2] \in Tab
<1>1. \A n \in 0..2, z \in Tab : [z EXCEPT !.tries = n] \in Tab
  BY TabType
<1>2. \A z \in Tab : [z EXCEPT !.task = task] \in Tab
  BY TabType
<1>3. \A z \in Tab : [z EXCEPT !.token = None] \in Tab
  BY TabType
<1>4. [y EXCEPT !.answer = None] \in Tab
  BY TabType
<1>5. 0 \in 0..2 /\ 1 \in 0..2 /\ 2 \in 0..2
  OBVIOUS
<1> DEFINE b == [y EXCEPT !.task = task]
           a == [y EXCEPT !.answer = None]
           c == [a EXCEPT !.task = task]
           d == [a EXCEPT !.token = None]
<1>6. b \in Tab /\ a \in Tab
  BY <1>2, <1>4
<1> HIDE DEF a, b
<1>7. c \in Tab /\ d \in Tab
  BY <1>2, <1>3, <1>6
<1> HIDE DEF c, d
<1>8. [b EXCEPT !.tries = 1] \in Tab /\ [c EXCEPT !.tries = 0] \in Tab
      /\ [d EXCEPT !.tries = 2] \in Tab
  BY <1>1, <1>5, <1>6, <1>7
<1> QED
  BY <1>8 DEF a, b, c, d

LEMMA BeginsInv == ASSUME Inv, NEW t \in Tabs, NEW task \in Tasks, begins(t, task) PROVE Inv'
<1> DEFINE x == [tabs[t] EXCEPT !.task = task, !.tries = 1]
<1>1. x \in Tab /\ x.page = tabs[t].page /\ x.token = tabs[t].token /\ x.task = task
      /\ x.answer = None
  <2>1. tabs[t] \in Tab /\ tabs[t].answer = None
    BY DEF begins, Free, Inv, TypeOK
  <2>2. [[tabs[t] EXCEPT !.task = task] EXCEPT !.tries = 1] \in Tab
    BY <2>1, StepTypes
  <2>3. x = [[tabs[t] EXCEPT !.task = task] EXCEPT !.tries = 1]
    OBVIOUS
  <2>4. /\ x.page = tabs[t].page /\ x.token = tabs[t].token /\ x.task = task
        /\ x.answer = tabs[t].answer
    BY <2>1 DEF Tab
  <2> QED
    BY <2>1, <2>2, <2>3, <2>4
<1>2. task \in {"login", "setup"} => tabs[t].page \in {"login", "setup"}
  <2>1. CASE tabs[t].page \in {"login", "setup"}
    BY <2>1
  <2>2. CASE tabs[t].page \notin {"login", "setup"}
    BY <2>2 DEF begins
  <2> QED
    BY <2>1, <2>2
<1>3. tabs' \in [Tabs -> Tab] /\ \A u \in Tabs : TabInv(u)'
  <2>1. becomes(t, x) /\ UNCHANGED <<jar, boot, live, opened, shared>>
    BY DEF begins, device
  <2> HIDE DEF x
  <2> QED
    BY <1>1, <1>2, <2>1, RestInv DEF Inv
<1>4. TypeOK' /\ OncePassword'
  BY <1>3 DEF begins, device, Inv, TypeOK, OncePassword
<1> QED
  BY <1>3, <1>4 DEF Inv

\* The device's answers to a page that nobody disturbed.
LEMMA CsrfInv == ASSUME Inv, NEW t \in Tabs, handleCsrf(t) PROVE Inv'
<1> DEFINE tok == [id |-> minted', boot |-> boot, binding |-> sessionBinding]
<1>1. minted' \in 0..MaxMints
  BY SignInAssumption DEF handleCsrf, Inv, TypeOK
<1>2. sessionBinding \in Nat /\ boot \in Nat
  BY DEF Inv, TypeOK, sessionBinding
<1>3. tok \in Token /\ tok.boot = boot /\ tok.binding = sessionBinding
  BY <1>1, <1>2 DEF Token
<1>4. tabs' \in [Tabs -> Tab] /\ \A u \in Tabs : TabInv(u)'
  <2>1. /\ answers(t, "token", tok, 0) /\ opened' = opened
        /\ jar' = jar /\ boot' = boot /\ shared' = shared
        /\ hasValidSession' <=> hasValidSession
    BY DEF handleCsrf, hasValidSession
  <2>2. 0 \in 0..opened' /\ opened' \in Nat /\ opened' >= opened
    BY <2>1 DEF Inv, TypeOK
  <2>3. "token" \in Answers
    BY DEF Answers
  <2> HIDE DEF tok
  <2> QED
    BY <1>3, <2>1, <2>2, <2>3, AnswerInv DEF Inv
<1>5. TypeOK' /\ OncePassword'
  BY <1>1, <1>4 DEF handleCsrf, Inv, TypeOK, OncePassword
<1> QED
  BY <1>4, <1>5 DEF Inv

\* A page used alone sends the token that verifies.
LEMMA FormVerifies ==
  ASSUME Inv, NEW t \in Tabs, tabs[t].token # None, t \notin shared
  PROVE  /\ verifyCsrf(sessionBinding, tabs[t].token)
         /\ tabs[t].task \in {"login", "setup"} => verifyCsrf(0, tabs[t].token)
BY DEF Inv, TabInv, Undisturbed, verifyCsrf, sessionBinding

LEMMA LoginInv == ASSUME Inv, NEW t \in Tabs, handleLogin(t) PROVE Inv'
<1>1. /\ tabs[t].task = "login" /\ tabs[t].token # None
      /\ UNCHANGED <<jar, boot, minted, password, nonce, clearing, passwords, shared, loads>>
  BY DEF handleLogin, Sends
<1>2. t \notin shared => verifyCsrf(0, tabs[t].token)
  BY <1>1, FormVerifies
<1>3. ASSUME NEW is \in {"forbidden", "invalid"}, answers(t, is, None, 0),
             UNCHANGED <<live, opened>>, is = "forbidden" => ~verifyCsrf(0, tabs[t].token)
      PROVE  Inv'
  <2>1. 0 \in 0..opened' /\ opened' \in Nat /\ opened' >= opened /\ is \in Answers
        /\ is # "token"
    BY <1>3 DEF Inv, TypeOK, Answers
  <2>2. hasValidSession' <=> hasValidSession
    BY <1>1, <1>3 DEF hasValidSession
  <2>3. tabs' \in [Tabs -> Tab] /\ \A u \in Tabs : TabInv(u)'
    BY <1>1, <1>2, <1>3, <2>1, <2>2, AnswerInv DEF Inv
  <2>4. TypeOK' /\ OncePassword'
    BY <1>1, <1>3, <2>3 DEF Inv, TypeOK, OncePassword
  <2> QED
    BY <2>3, <2>4 DEF Inv
<1>4. ASSUME password, opened' = opened + 1, live' = live \cup {opened'},
             answers(t, "ok", None, opened')
      PROVE  Inv'
  <2>1. opened' \in 0..opened' /\ opened' \in Nat /\ opened' >= opened /\ "ok" \in Answers
    BY <1>4 DEF Inv, TypeOK, Answers
  <2>2. hasValidSession' <=> hasValidSession
    BY <1>1, <1>4, SessionFacts DEF hasValidSession
  <2>3. tabs' \in [Tabs -> Tab] /\ \A u \in Tabs : TabInv(u)'
    BY <1>1, <1>4, <2>1, <2>2, AnswerInv DEF Inv
  <2>4. jar' \in [session : 0..opened', csrf : Token \cup {None}] /\ live' \subseteq 1..opened'
    BY <1>1, <1>4 DEF Inv, TypeOK
  <2>5. TypeOK' /\ OncePassword'
    BY <1>1, <1>4, <2>1, <2>3, <2>4 DEF Inv, TypeOK, OncePassword
  <2> QED
    BY <2>3, <2>5 DEF Inv
<1> QED
  BY <1>3, <1>4 DEF handleLogin

LEMMA SetupInv == ASSUME Inv, NEW t \in Tabs, handleSetup(t) PROVE Inv'
<1>1. /\ tabs[t].task = "setup" /\ tabs[t].token # None
      /\ UNCHANGED <<jar, boot, live, opened, minted, nonce, shared, loads>>
  BY DEF handleSetup, Sends
<1>2. t \notin shared => verifyCsrf(0, tabs[t].token)
  BY <1>1, FormVerifies
<1>3. hasValidSession' <=> hasValidSession
  BY <1>1 DEF hasValidSession
<1>4. ASSUME NEW is \in {"forbidden", "invalid"}, answers(t, is, None, 0),
             UNCHANGED <<password, passwords, clearing>>,
             is = "forbidden" => ~verifyCsrf(0, tabs[t].token)
      PROVE  Inv'
  <2>1. 0 \in 0..opened' /\ opened' \in Nat /\ opened' >= opened /\ is \in Answers
        /\ is # "token"
    BY <1>1, <1>4 DEF Inv, TypeOK, Answers
  <2>2. tabs' \in [Tabs -> Tab] /\ \A u \in Tabs : TabInv(u)'
    BY <1>1, <1>2, <1>3, <1>4, <2>1, AnswerInv DEF Inv
  <2>3. TypeOK' /\ OncePassword'
    BY <1>1, <1>4, <2>2 DEF Inv, TypeOK, OncePassword
  <2> QED
    BY <2>2, <2>3 DEF Inv
<1>5. ASSUME setupAllowed, password' = TRUE, passwords' = passwords + 1, clearing' = t,
             UNCHANGED tabs
      PROVE  Inv'
  <2>1. \A u \in Tabs : TabInv(u)'
    BY <1>1, <1>3, <1>5, Frame DEF Inv, TypeOK
  <2>2. passwords' = 1
    BY <1>5 DEF setupAllowed, Inv, OncePassword
  <2>3. TypeOK' /\ OncePassword'
    BY <1>1, <1>5, <2>2 DEF Inv, TypeOK, OncePassword
  <2> QED
    BY <2>1, <2>3 DEF Inv
<1> QED
  BY <1>4, <1>5 DEF handleSetup

LEMMA ClearNonceInv == ASSUME Inv, clearNonce PROVE Inv'
<1>1. clearing \in Tabs /\ clearing # None /\ password
  BY DEF clearNonce, Inv, TypeOK, OncePassword
<1>2. opened' \in 0..opened' /\ opened' \in Nat /\ opened' >= opened /\ "ok" \in Answers
  BY DEF clearNonce, Inv, TypeOK, Answers
<1>3. hasValidSession' <=> hasValidSession
  BY SessionFacts DEF clearNonce, hasValidSession
<1>4. tabs' \in [Tabs -> Tab] /\ \A u \in Tabs : TabInv(u)'
  BY <1>1, <1>2, <1>3, AnswerInv DEF clearNonce, Inv
<1>5. jar' \in [session : 0..opened', csrf : Token \cup {None}] /\ live' \subseteq 1..opened'
  BY DEF clearNonce, Inv, TypeOK
<1>6. TypeOK' /\ OncePassword'
  BY <1>1, <1>2, <1>4, <1>5 DEF clearNonce, Inv, TypeOK, OncePassword
<1> QED
  BY <1>4, <1>6 DEF Inv

LEMMA ProtectedInv ==
  ASSUME Inv, NEW t \in Tabs, handleLogout(t) \/ handleWrite(t) PROVE Inv'
<1>1. PICK is \in {"ok", "forbidden", "auth"} :
        /\ answers(t, is, None, 0)
        /\ is = "forbidden" => ~verifyCsrf(sessionBinding, tabs[t].token)
  BY DEF handleLogout, handleWrite
<1>2. tabs[t].token # None /\ UNCHANGED <<jar, device, shared, loads>>
  BY DEF handleLogout, handleWrite, Sends
<1>3. 0 \in 0..opened' /\ opened' \in Nat /\ opened' >= opened /\ is \in Answers
      /\ is # "token"
  BY <1>2 DEF device, Inv, TypeOK, Answers
<1>4. (hasValidSession' <=> hasValidSession) /\ jar' = jar /\ boot' = boot /\ shared' = shared
  BY <1>2 DEF device, hasValidSession
<1>5. tabs' \in [Tabs -> Tab] /\ \A u \in Tabs : TabInv(u)'
  BY <1>1, <1>2, <1>3, <1>4, FormVerifies, AnswerInv DEF Inv
<1>6. TypeOK' /\ OncePassword'
  BY <1>2, <1>5 DEF device, Inv, TypeOK, OncePassword
<1> QED
  BY <1>5, <1>6 DEF Inv

\* A token that arrives replaces the one of the other tabs, which are marked.
LEMMA TokenInv == ASSUME Inv, NEW t \in Tabs, tokenArrives(t) PROVE Inv'
<1> DEFINE x == [tabs[t] EXCEPT !.answer = None, !.token = tabs[t].answer.token]
<1>1. tabs[t] \in Tab /\ tabs[t].answer # None /\ tabs[t].answer.is = "token"
      /\ tabs[t].answer \in Answer
  BY DEF tokenArrives, Arrives, Inv, TypeOK, Tab
<1>2. /\ x \in Tab /\ x.page = tabs[t].page /\ x.task = tabs[t].task /\ x.answer = None
      /\ x.token = tabs[t].answer.token /\ x.token \in Token \cup {None}
  BY <1>1 DEF Tab, Answer
<1>3. becomes(t, x) /\ jar' = [jar EXCEPT !.csrf = tabs[t].answer.token]
      /\ shared' = shared \cup (Tabs \ {t}) /\ UNCHANGED <<device, loads>>
  BY DEF tokenArrives
<1> HIDE DEF x
<1>4. /\ tabs' \in [Tabs -> Tab] /\ tabs'[t] = x
      /\ \A u \in Tabs \ {t} : tabs'[u] = tabs[u]
  BY <1>2, <1>3, OneTab DEF Inv
<1>5. \A u \in Tabs \ {t} : TabInv(u)'
  BY <1>3, <1>4, Frame DEF Inv, TypeOK, device
<1>6. /\ jar' \in [session : 0..opened, csrf : Token \cup {None}]
      /\ jar'.session = jar.session /\ jar'.csrf = x.token
  BY <1>2, <1>3 DEF Inv, TypeOK
<1>7. (hasValidSession' <=> hasValidSession) /\ sessionBinding' = sessionBinding
  BY <1>3, <1>6 DEF device, hasValidSession, sessionBinding
<1>8. TabInv(t)'
  BY <1>1, <1>2, <1>3, <1>4, <1>6, <1>7 DEF Inv, TabInv, Undisturbed, device
<1>9. TypeOK' /\ OncePassword'
  BY <1>3, <1>4, <1>6 DEF device, Inv, TypeOK, OncePassword
<1> QED
  BY <1>4, <1>5, <1>8, <1>9 DEF Inv

\* A session that arrives, or is dropped, signs the other tabs in or out.
LEMMA SessionInv ==
  ASSUME Inv, NEW t \in Tabs, sessionArrives(t) \/ logoutArrives(t) PROVE Inv'
<1>1. tabs[t].answer # None => tabs[t].answer.session \in 0..opened
  BY DEF Inv, TabInv
<1>2. /\ becomes(t, Blank(None)) /\ UNCHANGED <<device, loads>>
      /\ jar' \in [session : 0..opened, csrf : Token \cup {None}]
      /\ \/ shared' = shared \cup (Tabs \ {t})
         \/ jar' = jar /\ shared' = shared
  BY <1>1 DEF sessionArrives, logoutArrives, Arrives, Inv, TypeOK
<1>3. jar' = jar => (hasValidSession' <=> hasValidSession)
  BY <1>2 DEF device, hasValidSession
<1>4. None \notin {"login", "setup"}
  BY SignInAssumption DEF Pages
<1>5. tabs' \in [Tabs -> Tab] /\ \A u \in Tabs : TabInv(u)'
  BY <1>2, <1>3, <1>4, BlankInv DEF Inv, device
<1>6. TypeOK' /\ OncePassword'
  BY <1>2, <1>5 DEF device, Inv, TypeOK, OncePassword
<1> QED
  BY <1>5, <1>6 DEF Inv
LEMMA RefusedInv ==
  ASSUME Inv, NEW t \in Tabs, refusalArrives(t) \/ writeArrives(t) PROVE Inv'
<1>1. tabs[t] \in Tab
  BY DEF Inv, TypeOK
<1>2. UNCHANGED <<jar, device, shared, loads>>
  BY DEF refusalArrives, writeArrives
<1>3. \/ rests(t)
      \/ becomes(t, Blank(None))
      \/ becomes(t, [tabs[t] EXCEPT !.answer = None, !.token = None, !.tries = 2])
  BY DEF refusalArrives, writeArrives
<1>4. tabs' \in [Tabs -> Tab] /\ \A u \in Tabs : TabInv(u)'
  <2>1. ASSUME NEW x \in Tab, becomes(t, x), x.page = tabs[t].page, x.answer = None,
               x.token \in {tabs[t].token, None}, x.task \in {tabs[t].task, "none"}
        PROVE  tabs' \in [Tabs -> Tab] /\ \A u \in Tabs : TabInv(u)'
    <3>1. x.task \in {"login", "setup"} => x.page \in {"login", "setup"}
      BY <2>1 DEF Inv, TabInv
    <3> QED
      BY <1>2, <2>1, <3>1, RestInv DEF Inv, device
  <2>2. CASE rests(t)
    <3> DEFINE x == [tabs[t] EXCEPT !.answer = None, !.task = "none", !.tries = 0]
    <3>1. x \in Tab /\ x.page = tabs[t].page /\ x.answer = None /\ x.token = tabs[t].token
          /\ x.task = "none"
      <4>1. [[[tabs[t] EXCEPT !.answer = None] EXCEPT !.task = "none"] EXCEPT !.tries = 0] \in Tab
        BY <1>1, StepTypes DEF Tasks
      <4>2. x = [[[tabs[t] EXCEPT !.answer = None] EXCEPT !.task = "none"] EXCEPT !.tries = 0]
        OBVIOUS
      <4>3. x.page = tabs[t].page /\ x.answer = None /\ x.token = tabs[t].token
            /\ x.task = "none"
        BY <1>1 DEF Tab
      <4> QED
        BY <4>1, <4>2, <4>3
    <3>2. becomes(t, x)
      BY <2>2 DEF rests
    <3> HIDE DEF x
    <3> QED
      BY <2>1, <3>1, <3>2
  <2>3. CASE becomes(t, Blank(None))
    <3>1. None \notin {"login", "setup"}
      BY SignInAssumption DEF Pages
    <3>2. hasValidSession' <=> hasValidSession
      BY <1>2 DEF device, hasValidSession
    <3> QED
      BY <1>2, <2>3, <3>1, <3>2, BlankInv DEF Inv, device
  <2>4. CASE becomes(t, [tabs[t] EXCEPT !.answer = None, !.token = None, !.tries = 2])
    <3> DEFINE x == [tabs[t] EXCEPT !.answer = None, !.token = None, !.tries = 2]
    <3>1. x \in Tab /\ x.page = tabs[t].page /\ x.answer = None /\ x.token = None
          /\ x.task = tabs[t].task
      <4>1. [[[tabs[t] EXCEPT !.answer = None] EXCEPT !.token = None] EXCEPT !.tries = 2] \in Tab
        BY <1>1, StepTypes DEF Tasks
      <4>2. x = [[[tabs[t] EXCEPT !.answer = None] EXCEPT !.token = None] EXCEPT !.tries = 2]
        OBVIOUS
      <4>3. x.page = tabs[t].page /\ x.answer = None /\ x.token = None
            /\ x.task = tabs[t].task
        BY <1>1 DEF Tab
      <4> QED
        BY <4>1, <4>2, <4>3
    <3>2. becomes(t, x)
      BY <2>4
    <3> HIDE DEF x
    <3> QED
      BY <2>1, <3>1, <3>2
  <2> QED
    BY <1>3, <2>2, <2>3, <2>4
<1>5. TypeOK' /\ OncePassword'
  BY <1>2, <1>4 DEF device, Inv, TypeOK, OncePassword
<1> QED
  BY <1>4, <1>5 DEF Inv

\* Expiry and a restart mark every tab.
LEMMA ExpireInv == ASSUME Inv, NEW s, expire(s) PROVE Inv'
<1>1. shared' = Tabs /\ UNCHANGED <<tabs, jar, boot, opened, minted, password, nonce, clearing,
                                    passwords, loads>> /\ live' \subseteq live
  BY DEF expire
<1>2. \A u \in Tabs : TabInv(u)'
  BY <1>1, Frame DEF Inv, TypeOK
<1>3. TypeOK' /\ OncePassword'
  BY <1>1 DEF Inv, TypeOK, OncePassword
<1> QED
  BY <1>2, <1>3 DEF Inv

LEMMA BootInv == ASSUME Inv, authBegin PROVE Inv'
<1>1. /\ shared' = Tabs /\ live' = {} /\ clearing' = None /\ boot' \in 1..MaxBoots
      /\ nonce' \in BOOLEAN /\ UNCHANGED <<jar, opened, minted, password, passwords, loads>>
  BY SignInAssumption DEF authBegin, Inv, TypeOK
<1>2. ASSUME NEW u \in Tabs PROVE tabs'[u] \in {tabs[u], Blank(None)}
  BY DEF authBegin
<1>3. tabs' \in [Tabs -> Tab]
  BY BlankType DEF authBegin, Inv, TypeOK
<1>4. \A u \in Tabs : TabInv(u)'
  BY <1>1, <1>2, BlankType DEF Inv, TabInv
<1>5. TypeOK' /\ OncePassword'
  BY <1>1, <1>3 DEF Inv, TypeOK, OncePassword
<1> QED
  BY <1>4, <1>5 DEF Inv

LEMMA NextInv == Inv /\ [Next]_vars => Inv'
<1> SUFFICES ASSUME Inv, [Next]_vars PROVE Inv'
  OBVIOUS
<1>1. CASE UNCHANGED vars
  BY <1>1 DEF vars, device, Inv, TypeOK, OncePassword, TabInv, Undisturbed, hasValidSession,
     sessionBinding
<1> QED
  BY <1>1, LoadInv, BeginsInv, CsrfInv, LoginInv, SetupInv, ProtectedInv, TokenInv, SessionInv,
     RefusedInv, ClearNonceInv, ExpireInv, BootInv DEF Next

LEMMA Invariance == Spec => []Inv
BY InitInv, NextInv, PTL DEF Spec

-------------------------------------------------------------------------------
(* The theorems. *)

\* Every variable keeps its type, and only sessions that were opened verify.
THEOREM TypeCorrect == Spec => []TypeOK
BY Invariance, PTL DEF Inv

\* Through any series of setups, restarts and power cuts one password is stored: the one
\* check under setupAllowed is enough (web_auth.cpp:283-319).
THEOREM OnePassword == Spec => []OneNonceOnePassword
<1>1. Inv => OneNonceOnePassword
  BY DEF Inv, OncePassword, OneNonceOnePassword
<1> QED
  BY <1>1, Invariance, PTL

\* A page whose jar and session nobody touched since it was loaded is never refused for
\* its token, however many tokens, sign-ins and sign-outs came before (csrf.cpp, data.js).
THEOREM AloneNeverRefused == Spec => []RefusedOnlyIfShared
<1>1. Inv => RefusedOnlyIfShared
  BY DEF Inv, TabInv, Undisturbed, RefusedOnlyIfShared
<1> QED
  BY <1>1, Invariance, PTL

-------------------------------------------------------------------------------
(* Choosing a slot. *)

\* A nonempty set of naturals has a least element.
LEMMA LeastNatural ==
  ASSUME NEW T \in SUBSET Nat, T # {}
  PROVE  \E m \in T : \A n \in T : m <= n
<1> DEFINE R == {ss \in Nat \X Nat : ss[1] < ss[2]}
<1>1. IsWellFoundedOn(R, Nat)
  BY NatLessThanWellFounded, Zenon DEF OpToRel
<1>2. \E m \in T : \A n \in T : ~(<<n, m>> \in R)
  <2> HIDE DEF R
  <2> QED BY <1>1, WFMin
<1>3. \A m, n \in T : n < m => <<n, m>> \in R
  OBVIOUS
<1>4. \A m, n \in T : n < m \/ m <= n
  OBVIOUS
<1> HIDE DEF R
<1> QED
  BY <1>2, <1>3, <1>4

\* Oldest picks one of the slots it is given.
LEMMA OldestIsOne ==
  ASSUME ThrottleTypeOK, NEW S \in SUBSET Slots, S # {}
  PROVE  Oldest(S) \in S
<1> DEFINE Seen == {entries[t].lastSeen : t \in S}
<1>1. \A t \in S : t \in Nat /\ entries[t].lastSeen \in Nat
  BY ThrottleAssumption DEF ThrottleTypeOK, Slots, Entry, Times
<1>2. PICK m \in Seen : \A n \in Seen : m <= n
  <2>1. Seen \in SUBSET Nat /\ Seen # {}
    BY <1>1
  <2> QED
    BY <2>1, LeastNatural
<1> DEFINE First == {t \in S : entries[t].lastSeen = m}
<1>3. PICK s \in First : \A t \in First : s <= t
  <2>1. First \in SUBSET Nat /\ First # {}
    BY <1>1, <1>2
  <2> HIDE DEF First
  <2> QED
    BY <2>1, LeastNatural
<1>4. \A t \in S : \/ entries[s].lastSeen < entries[t].lastSeen
                   \/ entries[s].lastSeen = entries[t].lastSeen /\ s <= t
  <2> TAKE t \in S
  <2>1. m <= entries[t].lastSeen
    BY <1>2
  <2>2. CASE entries[t].lastSeen = m
    BY <2>2, <1>3
  <2>3. CASE entries[t].lastSeen # m
    BY <2>1, <2>3, <1>1, <1>3
  <2> QED
    BY <2>2, <2>3
<1> QED
  BY <1>3, <1>4 DEF Oldest

\* A new client takes a free slot, or that of an unlocked client, or all are locked.
LEMMA AllocatedSpares ==
  ASSUME ThrottleTypeOK
  PROVE  /\ allocated \in Slots
         /\ \/ entries[allocated].client = NoClient
            \/ ~lockedEntry(entries[allocated])
            \/ \A s \in Slots : lockedEntry(entries[s])
<1> DEFINE FreeSlots == {s \in Slots : entries[s].client = NoClient}
           Unlocked  == {s \in Slots : ~lockedEntry(entries[s])}
<1>1. CASE FreeSlots # {}
  <2>1. PICK s \in FreeSlots : \A t \in FreeSlots : s <= t
    <3>1. FreeSlots \in SUBSET Nat
      BY ThrottleAssumption DEF Slots
    <3> HIDE DEF FreeSlots
    <3> QED
      BY <1>1, <3>1, LeastNatural
  <2>2. allocated = CHOOSE u \in FreeSlots : \A t \in FreeSlots : u <= t
    BY <1>1 DEF allocated
  <2> HIDE DEF FreeSlots
  <2>3. allocated \in FreeSlots
    BY <2>1, <2>2
  <2> QED
    BY <2>3 DEF FreeSlots
<1>2. CASE FreeSlots = {} /\ Unlocked # {}
  <2>1. allocated = Oldest(Unlocked)
    BY <1>2 DEF allocated
  <2>2. Oldest(Unlocked) \in Unlocked
    BY <1>2, OldestIsOne
  <2> QED
    BY <2>1, <2>2
<1>3. CASE FreeSlots = {} /\ Unlocked = {}
  <2>1. allocated = Oldest(Slots)
    BY <1>3 DEF allocated
  <2>2. Slots # {}
    BY ThrottleAssumption DEF Slots
  <2>3. Oldest(Slots) \in Slots
    BY <2>2, OldestIsOne
  <2> QED
    BY <1>3, <2>1, <2>3
<1> QED
  BY <1>1, <1>2, <1>3

LEMMA SlotOfTracked ==
  ASSUME NEW c, Tracked(c)
  PROVE  slotOf(c) \in Slots /\ entries[slotOf(c)].client = c
BY DEF Tracked, slotOf, tracks

-------------------------------------------------------------------------------
(* The inductive invariant. *)

\* find() may stop at the first match: no client has two entries.
OneEntry ==
  \A s, t \in Slots :
    entries[s].client = entries[t].client /\ entries[s].client # NoClient => s = t

\* What an entry holds against its client, the client has done.
Earned(s) ==
  LET e == entries[s] IN
  e.client # NoClient =>
    /\ e.failures <= streak[e.client] \/ streak[e.client] = MaxFailures
    /\ e.lockedUntil # 0 => streak[e.client] = MaxFailures

TableInv == ThrottleTypeOK /\ OneEntry /\ \A s \in Slots : Earned(s)

\* An entry the size of the table's remains one after a failure, keeps its client, and
\* is locked only by MaxFailures failures counted.
LEMMA FailedEntry ==
  ASSUME now \in Times, NEW e \in Entry
  PROVE  /\ failed(e) \in Entry
         /\ failed(e).client = e.client
         /\ e.lockedUntil = 0 =>
              /\ failed(e).failures <= e.failures + 1
              /\ failed(e).lockedUntil # 0 => failed(e).failures >= MaxFailures
<1>1. (now + Lockout) % ClockMod \in Times /\ 0 \in Times
  BY ThrottleAssumption DEF Times
<1> DEFINE before  == IF e.lockedUntil # 0 THEN 0 ELSE e.failures
           counted == IF before < MaxCount THEN before + 1 ELSE before
<1>2. before \in 0 .. MaxCount /\ counted \in 0 .. MaxCount /\ counted <= before + 1
  BY ThrottleAssumption DEF Entry
<1>3. CASE lockedEntry(e)
  BY <1>3 DEF failed, Entry, lockedEntry
<1>4. CASE ~lockedEntry(e)
  <2> DEFINE new == [e EXCEPT !.lastSeen = now, !.failures = counted,
                       !.lockedUntil = IF counted >= MaxFailures
                                       THEN (now + Lockout) % ClockMod ELSE 0]
  <2>1. failed(e) = new
    BY <1>4 DEF failed
  <2> HIDE DEF counted, before
  <2>2. new \in Entry /\ new.client = e.client /\ new.failures = counted
        /\ (new.lockedUntil # 0 => counted >= MaxFailures)
    BY <1>1, <1>2 DEF Entry
  <2> QED
    BY <2>1, <2>2, <1>2 DEF before
<1> QED
  BY <1>3, <1>4

LEMMA SucceededEntry ==
  ASSUME now \in Times, NEW e \in Entry
  PROVE  /\ succeeded(e) \in Entry
         /\ succeeded(e).client = e.client
         /\ ~lockedEntry(e) => succeeded(e).failures = 0 /\ succeeded(e).lockedUntil = 0
<1>1. 0 \in Times /\ 0 \in 0 .. MaxCount
  BY ThrottleAssumption DEF Times
<1> QED
  BY <1>1 DEF succeeded, Entry

LEMMA ThrottleInitInv == ThrottleInit => TableInv
<1> SUFFICES ASSUME ThrottleInit PROVE TableInv
  OBVIOUS
<1>1. ThrottleTypeOK
  BY ThrottleAssumption DEF ThrottleInit, ThrottleTypeOK, FreeEntry, Entry, Times
<1>2. OneEntry /\ \A s \in Slots : Earned(s)
  BY DEF ThrottleInit, OneEntry, Earned, FreeEntry
<1> QED
  BY <1>1, <1>2 DEF TableInv

\* The attempt of a client that is not locked out rewrites one entry: its own.
LEMMA LoginRewrites ==
  ASSUME TableInv, NEW c \in Clients, NEW right \in BOOLEAN, attempt(c, right)
  PROVE  \/ /\ right /\ ~Tracked(c) /\ UNCHANGED entries
         \/ \E s \in Slots, e \in Entry :
              /\ entries' = [entries EXCEPT ![s] = e]
              /\ e.client = c
              /\ \A t \in Slots : entries[t].client = c => t = s
              /\ \/ entries[s].client = c
                 \/ entries[s].client = NoClient
                 \/ ~lockedEntry(entries[s])
                 \/ \A t \in Slots : lockedEntry(entries[t])
              /\ right => e.failures = 0 /\ e.lockedUntil = 0
              /\ ~right =>
                   \/ streak[c] = MaxFailures
                   \/ /\ e.failures <= streak[c] + 1
                      /\ e.lockedUntil # 0 => e.failures >= MaxFailures
<1> USE DEF TableInv
<1>1. now \in Times /\ entries \in [Slots -> Entry] /\ streak \in [Clients -> 0 .. MaxFailures]
  BY DEF ThrottleTypeOK
<1>2. CASE Tracked(c)
  <2> DEFINE s == slotOf(c)
  <2>1. s \in Slots /\ entries[s].client = c /\ entries[s] \in Entry
    BY <1>1, <1>2, SlotOfTracked
  <2>2. \A t \in Slots : entries[t].client = c => t = s
    BY <2>1, ThrottleAssumption DEF OneEntry
  <2>3. ~lockedEntry(entries[s])
    BY <1>2 DEF attempt, isLocked
  <2> HIDE DEF s
  <2>4. CASE right
    <3>1. entries' = [entries EXCEPT ![s] = succeeded(entries[s])]
      BY <1>2, <2>4 DEF attempt, recordSuccess, s
    <3>2. succeeded(entries[s]) \in Entry /\ succeeded(entries[s]).client = c
          /\ succeeded(entries[s]).failures = 0 /\ succeeded(entries[s]).lockedUntil = 0
      BY <1>1, <2>1, <2>3, SucceededEntry
    <3> QED
      BY <3>1, <3>2, <2>1, <2>2, <2>4
  <2>5. CASE ~right
    <3>1. entries' = [entries EXCEPT ![s] = failed(entries[s])]
      BY <1>2, <2>5 DEF attempt, recordFailure, s
    <3>2. /\ failed(entries[s]) \in Entry /\ failed(entries[s]).client = c
          /\ entries[s].lockedUntil = 0 =>
               /\ failed(entries[s]).failures <= entries[s].failures + 1
               /\ failed(entries[s]).lockedUntil # 0
                    => failed(entries[s]).failures >= MaxFailures
      BY <1>1, <2>1, FailedEntry
    <3>3. \/ streak[c] = MaxFailures
          \/ entries[s].failures <= streak[c] /\ entries[s].lockedUntil = 0
      BY <2>1, ThrottleAssumption DEF Earned
    <3>4. \/ streak[c] = MaxFailures
          \/ /\ failed(entries[s]).failures <= streak[c] + 1
             /\ failed(entries[s]).lockedUntil # 0
                  => failed(entries[s]).failures >= MaxFailures
      BY <3>2, <3>3, <2>1, <1>1, ThrottleAssumption DEF Entry
    <3> QED
      BY <3>1, <3>2, <3>4, <2>1, <2>2, <2>5
  <2> QED
    BY <2>4, <2>5
<1>3. CASE ~Tracked(c) /\ right
  BY <1>3 DEF attempt, recordSuccess
<1>4. CASE ~Tracked(c) /\ ~right
  <2> DEFINE s   == allocated
             new == [FreeEntry EXCEPT !.client = c]
  <2>1. entries' = [entries EXCEPT ![s] = failed(new)]
    BY <1>4 DEF attempt, recordFailure
  <2>2. new \in Entry /\ new.client = c /\ new.failures = 0 /\ new.lockedUntil = 0
    BY ThrottleAssumption DEF FreeEntry, Entry, Times
  <2>3. /\ s \in Slots
        /\ \/ entries[s].client = NoClient
           \/ ~lockedEntry(entries[s])
           \/ \A t \in Slots : lockedEntry(entries[t])
    BY AllocatedSpares
  <2>4. \A t \in Slots : entries[t].client # c
    BY <1>4 DEF Tracked, tracks
  <2> HIDE DEF s, new
  <2>5. /\ failed(new) \in Entry /\ failed(new).client = c
        /\ failed(new).failures <= 1
        /\ failed(new).lockedUntil # 0 => failed(new).failures >= MaxFailures
    BY <1>1, <2>2, FailedEntry
  <2>6. failed(new).failures <= streak[c] + 1
    BY <1>1, <2>5, ThrottleAssumption DEF Entry
  <2> QED
    BY <2>1, <2>3, <2>4, <2>5, <2>6, <1>4
<1> QED
  BY <1>2, <1>3, <1>4

LEMMA ThrottleNextInv == TableInv /\ [ThrottleNext]_throttleVars => TableInv'
<1> SUFFICES ASSUME TableInv, [ThrottleNext]_throttleVars PROVE TableInv'
  OBVIOUS
<1>1. now \in Times /\ entries \in [Slots -> Entry] /\ streak \in [Clients -> 0 .. MaxFailures]
  BY DEF TableInv, ThrottleTypeOK
<1>2. ASSUME NEW c \in Clients, NEW right \in BOOLEAN, attempt(c, right) PROVE TableInv'
  <2>1. /\ now' = now
        /\ streak' = [streak EXCEPT ![c] = IF right THEN 0
                        ELSE IF streak[c] < MaxFailures THEN streak[c] + 1 ELSE streak[c]]
    BY <1>2 DEF attempt
  <2>2. streak' \in [Clients -> 0 .. MaxFailures]
    BY <1>1, <2>1, ThrottleAssumption
  <2>3. CASE ~Tracked(c) /\ UNCHANGED entries
    <3>1. \A s \in Slots : entries[s].client # c
      BY <2>3 DEF Tracked, tracks
    <3>2. \A s \in Slots : Earned(s)'
      <4> TAKE s \in Slots
      <4>1. Earned(s) /\ entries[s] \in Entry
        BY <1>1 DEF TableInv
      <4>2. entries[s].client # NoClient => streak'[entries[s].client] = streak[entries[s].client]
        BY <1>1, <2>1, <3>1, <4>1 DEF Entry
      <4> QED
        BY <2>3, <4>1, <4>2 DEF Earned
    <3> QED
      BY <2>1, <2>2, <2>3, <3>2, <1>1 DEF TableInv, ThrottleTypeOK, OneEntry
  <2>4. ASSUME NEW s \in Slots, NEW e \in Entry,
               entries' = [entries EXCEPT ![s] = e], e.client = c,
               \A t \in Slots : entries[t].client = c => t = s,
               right => e.failures = 0 /\ e.lockedUntil = 0,
               ~right => \/ streak[c] = MaxFailures
                         \/ /\ e.failures <= streak[c] + 1
                            /\ e.lockedUntil # 0 => e.failures >= MaxFailures
        PROVE  TableInv'
    <3>1. ThrottleTypeOK'
      BY <1>1, <2>1, <2>2, <2>4 DEF ThrottleTypeOK
    <3>2. OneEntry'
      BY <1>1, <2>4 DEF TableInv, OneEntry
    <3>3. ASSUME NEW t \in Slots, t # s PROVE Earned(t)'
      <4>1. Earned(t) /\ entries[t] \in Entry /\ entries'[t] = entries[t] /\ entries[t].client # c
        BY <1>1, <2>4, <3>3 DEF TableInv
      <4>2. entries[t].client # NoClient => streak'[entries[t].client] = streak[entries[t].client]
        BY <1>1, <2>1, <4>1 DEF Entry
      <4> QED
        BY <4>1, <4>2 DEF Earned
    <3>4. Earned(s)'
      <4>1. entries'[s] = e /\ streak'[c] \in 0 .. MaxFailures /\ streak[c] \in 0 .. MaxFailures
        BY <1>1, <2>2, <2>4
      <4>2. CASE right
        BY <4>1, <4>2, <2>1, <1>1, <2>4 DEF Earned
      <4>3. CASE ~right
        <5>1. streak'[c] = IF streak[c] < MaxFailures THEN streak[c] + 1 ELSE streak[c]
          BY <4>3, <2>1, <1>1
        <5>2. e.failures \in 0 .. MaxCount
          BY DEF Entry
        <5>3. /\ e.failures <= streak'[c] \/ streak'[c] = MaxFailures
              /\ e.lockedUntil # 0 => streak'[c] = MaxFailures
          BY <4>1, <4>3, <5>1, <5>2, <2>4, ThrottleAssumption
        <5> QED
          BY <4>1, <5>3, <2>4 DEF Earned
      <4> QED
        BY <4>2, <4>3
    <3> QED
      BY <3>1, <3>2, <3>3, <3>4 DEF TableInv
  <2> QED
    BY <1>2, <2>3, <2>4, LoginRewrites
<1>3. CASE tick
  <2>1. now' \in Times
    BY <1>1, <1>3, ThrottleAssumption DEF tick, Times
  <2> QED
    BY <1>1, <1>3, <2>1 DEF tick, TableInv, ThrottleTypeOK, OneEntry, Earned
<1>4. CASE UNCHANGED throttleVars
  BY <1>4 DEF throttleVars, TableInv, ThrottleTypeOK, OneEntry, Earned
<1> QED
  BY <1>2, <1>3, <1>4 DEF ThrottleNext

LEMMA ThrottleInvariance == ThrottleSpec => []TableInv
BY ThrottleInitInv, ThrottleNextInv, PTL DEF ThrottleSpec

-------------------------------------------------------------------------------
(* The theorems. *)

\* Entries, clock and counts keep their types: failures saturate and a lockout is a
\* reading of the clock (login_throttle.cpp:61-88).
THEOREM ThrottleTypeCorrect == ThrottleSpec => []ThrottleTypeOK
BY ThrottleInvariance, PTL DEF TableInv

\* Whatever the table's size and however it is shared, a client is locked out only by
\* its own failures since its last success (login_throttle.cpp:61-88).
THEOREM LockoutsEarned == ThrottleSpec => []LockoutIsEarned
<1>1. TableInv => LockoutIsEarned
  <2> SUFFICES ASSUME TableInv, NEW c \in Clients, isLocked(c) PROVE streak[c] = MaxFailures
    BY DEF LockoutIsEarned
  <2>1. slotOf(c) \in Slots /\ entries[slotOf(c)].client = c
    BY SlotOfTracked DEF isLocked
  <2> QED
    BY <2>1, ThrottleAssumption DEF TableInv, Earned, isLocked, lockedEntry
<1> QED
  BY <1>1, ThrottleInvariance, PTL

\* A lockout outlives every attempt of every client, unless all entries are locked
\* (login_throttle.cpp:19-45).
THEOREM LockoutsSurvive == ThrottleSpec => LockoutSurvives
<1>1. ASSUME TableInv, [ThrottleNext]_throttleVars, NEW c \in Clients, isLocked(c), now' = now
      PROVE  isLocked(c)' \/ \A s \in Slots : lockedEntry(entries[s])
  <2> DEFINE x == slotOf(c)
  <2>1. x \in Slots /\ entries[x].client = c /\ lockedEntry(entries[x])
    BY <1>1, SlotOfTracked DEF isLocked
  <2>2. TableInv'
    BY <1>1, ThrottleNextInv
  <2> HIDE DEF x
  <2>3. ASSUME entries'[x] = entries[x] PROVE isLocked(c)'
    <3>1. Tracked(c)'
      BY <2>1, <2>3 DEF Tracked, tracks
    <3>2. slotOf(c)' \in Slots /\ entries'[slotOf(c)'].client = c
      BY <3>1 DEF Tracked, slotOf, tracks
    <3>3. slotOf(c)' = x
      BY <2>1, <2>2, <2>3, <3>2, ThrottleAssumption DEF TableInv, OneEntry
    <3> QED
      BY <1>1, <2>1, <2>3, <3>1, <3>3 DEF isLocked, lockedEntry
  <2>4. ASSUME NEW d \in Clients, NEW right \in BOOLEAN, attempt(d, right)
        PROVE  entries'[x] = entries[x] \/ \A s \in Slots : lockedEntry(entries[s])
    <3>1. d # c
      BY <1>1, <2>4 DEF attempt
    <3> QED
      BY <1>1, <2>1, <2>4, <3>1, LoginRewrites, ThrottleAssumption DEF TableInv, ThrottleTypeOK
  <2>5. CASE tick
    BY <1>1, <2>3, <2>5 DEF tick
  <2>6. CASE UNCHANGED throttleVars
    BY <2>3, <2>6 DEF throttleVars
  <2> QED
    BY <1>1, <2>3, <2>4, <2>5, <2>6 DEF ThrottleNext
<1>2. TableInv /\ [ThrottleNext]_throttleVars =>
        [\A c \in Clients : isLocked(c) /\ now' = now =>
           isLocked(c)' \/ \A s \in Slots : lockedEntry(entries[s])]_throttleVars
  BY <1>1
<1> QED
  BY <1>2, ThrottleInvariance, PTL DEF ThrottleSpec, LockoutSurvives
===============================================================================
