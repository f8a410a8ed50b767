-------------------------------- MODULE SignIn --------------------------------
(***************************************************************************)
(* Sign-in (src/web_auth.cpp over lib/runtime's session, csrf and          *)
(* setup_state) and the pages of one browser (web/js/data.js, login.js,    *)
(* setup.js and dashboard.js), which share its cookie jar.                 *)
(*                                                                         *)
(* The device keeps no table of sessions or tokens: both are sealed with a *)
(* secret drawn at boot.  A request is served in one step with the cookies *)
(* it was sent with; its answer arrives in a later step, in any order, and *)
(* only then changes the jar.  How failures lock a client out is in        *)
(* Throttle.                                                               *)
(*                                                                         *)
(* An operator named Bug... is a plausible mistake in the definition that  *)
(* follows it, kept to show that the properties reject it.                 *)
(***************************************************************************)
EXTENDS Naturals

CONSTANTS
  Tabs,        (* pages open in the browser                                 *)
  None,        (* no token, no task, nobody                                 *)
  MaxLoads,    (* bound: pages loaded                                       *)
  MaxMints,    (* bound: CSRF tokens drawn                                  *)
  MaxSessions, (* bound: sessions opened                                    *)
  MaxBoots     (* bound: boots of the device                                *)

Pages == {"login", "setup", "dashboard"}

ASSUME SignInAssumption ==
  /\ None \notin Tabs \cup Pages
  /\ MaxLoads \in Nat /\ MaxMints \in Nat /\ MaxSessions \in Nat
  /\ MaxBoots \in Nat \ {0}

VARIABLES
  tabs,      (* a tab: its page, cached token, task and answer under way    *)
  jar,       (* the session and CSRF cookies of the browser; session 0: none *)
  boot,      (* which g_sessionSecret is in force                           *)
  live,      (* the sessions that verify: of this boot and not expired      *)
  opened,    (* sessions opened so far, which numbers them                  *)
  minted,    (* CSRF tokens drawn so far, which numbers them                *)
  password,  (* a password record is stored                                 *)
  nonce,     (* a nonce is stored                                           *)
  clearing,  (* the tab whose setup request has stored the password and not
                yet erased the nonce                                        *)
  passwords, (* history: how often a password was stored                    *)
  shared,    (* history: tabs whose jar or device changed under them since
                they were loaded                                            *)
  loads      (* history: pages loaded, for the bound                        *)

device  == <<boot, live, opened, minted, password, nonce, clearing, passwords>>
vars    == <<tabs, jar, device, shared, loads>>

Tasks   == {"none", "login", "setup", "logout", "write"}
Answers == {"token", "ok", "invalid", "forbidden", "auth"}
Token   == [id : Nat, boot : Nat, binding : Nat]
Answer  == [is : Answers, token : Token \cup {None}, session : Nat]
Tab     == [page : Pages \cup {None}, token : Token \cup {None}, task : Tasks,
            tries : 0..2, answer : Answer \cup {None}]

\* A tab on its way: nothing cached, nothing under way.
Blank(pg) == [page |-> pg, token |-> None, task |-> "none", tries |-> 0, answer |-> None]

Init ==
  /\ tabs = [t \in Tabs |-> Blank(None)]
  /\ jar = [session |-> 0, csrf |-> None]
  /\ boot = 1 /\ live = {} /\ opened = 0 /\ minted = 0
  /\ password = FALSE /\ nonce = TRUE /\ clearing = None /\ passwords = 0
  /\ shared = {} /\ loads = 0

-------------------------------------------------------------------------------
(* What the device verifies. *)

\* hasValidSession: the session cookie verifies.
hasValidSession == jar.session \in live

\* The session a token is bound to, 0 for a browser that is not signed in.
sessionBinding == IF hasValidSession THEN jar.session ELSE 0

\* verifyCsrf: cookie and form carry the same token, sealed in this boot for the binding.
verifyCsrf(binding, formTok) ==
  /\ jar.csrf # None /\ jar.csrf = formTok
  /\ formTok.boot = boot /\ formTok.binding = binding

\* setupAllowed, for a request that carries the stored nonce.
BugNonceSuffices == nonce
setupAllowed == ~password /\ nonce

\* gate: the page a load ends at, its redirects followed; the pages behind the sign-in
\* are one.
gate ==
  IF ~password THEN "setup"
  ELSE IF ~hasValidSession THEN "login" ELSE "dashboard"

-------------------------------------------------------------------------------
(* What the tabs do. *)

becomes(t, new) == tabs' = [tabs EXCEPT ![t] = new]
Answered(is, tok, sid) == [is |-> is, token |-> tok, session |-> sid]
answers(t, is, tok, sid) ==
  becomes(t, [tabs[t] EXCEPT !.answer = Answered(is, tok, sid)])
Free(t) == tabs[t].page # None /\ tabs[t].answer = None /\ clearing = None

\* A page is loaded, by the user or by its script; an answer under way is dropped.
load(t) ==
  /\ clearing = None /\ loads < MaxLoads /\ loads' = loads + 1
  /\ becomes(t, Blank(gate))
  /\ shared' = shared \ {t}
  /\ UNCHANGED <<jar, device>>

\* The user submits a form, clicks "log out" or saves.
begins(t, task) ==
  /\ Free(t) /\ tabs[t].task = "none"
  /\ task \in CASE tabs[t].page = "login" -> {"login"}
                [] tabs[t].page = "setup" -> {"setup"}
                [] OTHER                  -> {"logout", "write"}
  /\ becomes(t, [tabs[t] EXCEPT !.task = task, !.tries = 1])
  /\ UNCHANGED <<jar, device, shared, loads>>

BugUnboundToken(t) ==
  /\ Free(t) /\ tabs[t].token = None
  /\ tabs[t].page \in {"login", "setup"} \/ tabs[t].task # "none"
  /\ minted < MaxMints /\ minted' = minted + 1
  /\ answers(t, "token", [id |-> minted', boot |-> boot, binding |-> 0], 0)
  /\ UNCHANGED <<jar, boot, live, opened, password, nonce, clearing, passwords, shared, loads>>

\* csrf() and handleCsrf: a token bound to the session is drawn when a page needs one and
\* has none cached; the forms need theirs at once.
handleCsrf(t) ==
  /\ Free(t) /\ tabs[t].token = None
  /\ tabs[t].page \in {"login", "setup"} \/ tabs[t].task # "none"
  /\ minted < MaxMints /\ minted' = minted + 1
  /\ answers(t, "token", [id |-> minted', boot |-> boot, binding |-> sessionBinding], 0)
  /\ UNCHANGED <<jar, boot, live, opened, password, nonce, clearing, passwords, shared, loads>>

Sends(t, task) == Free(t) /\ tabs[t].task = task /\ tabs[t].token # None

\* handleLogin: the token must be bound to no session.
handleLogin(t) ==
  /\ Sends(t, "login")
  /\ \/ /\ ~verifyCsrf(0, tabs[t].token) /\ answers(t, "forbidden", None, 0)
        /\ UNCHANGED <<live, opened>>
     \/ /\ verifyCsrf(0, tabs[t].token) /\ answers(t, "invalid", None, 0)
        /\ UNCHANGED <<live, opened>>
     \/ /\ verifyCsrf(0, tabs[t].token) /\ password /\ opened < MaxSessions
        /\ opened' = opened + 1 /\ live' = live \cup {opened'}
        /\ answers(t, "ok", None, opened')
  /\ UNCHANGED <<jar, boot, minted, password, nonce, clearing, passwords, shared, loads>>

\* handleSetup, up to the password record; a wrong nonce or a weak password is refused.
handleSetup(t) ==
  /\ Sends(t, "setup")
  /\ \/ /\ ~verifyCsrf(0, tabs[t].token) /\ answers(t, "forbidden", None, 0)
        /\ UNCHANGED <<password, passwords, clearing>>
     \/ /\ verifyCsrf(0, tabs[t].token) /\ answers(t, "invalid", None, 0)
        /\ UNCHANGED <<password, passwords, clearing>>
     \/ /\ verifyCsrf(0, tabs[t].token) /\ setupAllowed /\ opened < MaxSessions
        /\ password' = TRUE /\ passwords' = passwords + 1 /\ clearing' = t
        /\ UNCHANGED tabs
  /\ UNCHANGED <<jar, boot, live, opened, minted, nonce, shared, loads>>

\* handleSetup, the rest: the nonce is erased and a session opened.
clearNonce ==
  /\ clearing # None /\ clearing' = None /\ nonce' = FALSE
  /\ opened' = opened + 1 /\ live' = live \cup {opened'}
  /\ answers(clearing, "ok", None, opened')
  /\ UNCHANGED <<jar, boot, minted, password, passwords, shared, loads>>

\* handleLogout: it only clears the cookie.
handleLogout(t) ==
  /\ Sends(t, "logout")
  /\ answers(t, IF verifyCsrf(sessionBinding, tabs[t].token) THEN "ok" ELSE "forbidden",
             None, 0)
  /\ UNCHANGED <<jar, device, shared, loads>>

\* requireSession and requireCsrf in front of a write.
handleWrite(t) ==
  /\ Sends(t, "write")
  /\ answers(t, IF ~hasValidSession THEN "auth"
                ELSE IF verifyCsrf(sessionBinding, tabs[t].token) THEN "ok"
                ELSE "forbidden", None, 0)
  /\ UNCHANGED <<jar, device, shared, loads>>

-------------------------------------------------------------------------------
(* What an answer does. *)

Arrives(t, task, is) ==
  tabs[t].answer # None /\ tabs[t].answer.is = is /\ tabs[t].task \in task
rests(t) == becomes(t, [tabs[t] EXCEPT !.answer = None, !.task = "none", !.tries = 0])

\* A token is kept by the page and by the jar, in place of the token of any other tab.
tokenArrives(t) ==
  /\ Arrives(t, Tasks, "token")
  /\ becomes(t, [tabs[t] EXCEPT !.answer = None, !.token = tabs[t].answer.token])
  /\ jar' = [jar EXCEPT !.csrf = tabs[t].answer.token]
  /\ shared' = shared \cup (Tabs \ {t})
  /\ UNCHANGED <<device, loads>>

\* A session is kept by the jar, and the page goes to the dashboard: load.
sessionArrives(t) ==
  /\ Arrives(t, {"login", "setup"}, "ok")
  /\ jar' = [jar EXCEPT !.session = tabs[t].answer.session]
  /\ becomes(t, Blank(None)) /\ shared' = shared \cup (Tabs \ {t})
  /\ UNCHANGED <<device, loads>>

\* The forms stay as they are and show a message.
refusalArrives(t) ==
  /\ Arrives(t, {"login", "setup"}, "invalid") \/ Arrives(t, {"login", "setup"}, "forbidden")
  /\ rests(t)
  /\ UNCHANGED <<jar, device, shared, loads>>

\* Whatever the device answered to a logout, the page goes to the sign-in page: load.
logoutArrives(t) ==
  /\ Arrives(t, {"logout"}, "ok") \/ Arrives(t, {"logout"}, "forbidden")
  /\ IF tabs[t].answer.is = "ok"
       THEN jar' = [jar EXCEPT !.session = 0] /\ shared' = shared \cup (Tabs \ {t})
       ELSE UNCHANGED <<jar, shared>>
  /\ becomes(t, Blank(None))
  /\ UNCHANGED <<device, loads>>

BugRetriesAgain(t) ==
  /\ tabs[t].answer # None /\ tabs[t].task = "write" /\ tabs[t].answer.is # "token"
  /\ CASE tabs[t].answer.is = "auth" -> becomes(t, Blank(None))
       [] tabs[t].answer.is = "forbidden" ->
            becomes(t, [tabs[t] EXCEPT !.answer = None, !.token = None, !.tries = @ + 1])
       [] OTHER -> rests(t)
  /\ UNCHANGED <<jar, device, shared, loads>>

\* writeConfig and postCsrf: signed out, the page goes to the sign-in page; a first refusal
\* drops the cached token and tries again; a second one is taken like a success.
writeArrives(t) ==
  /\ tabs[t].answer # None /\ tabs[t].task = "write" /\ tabs[t].answer.is # "token"
  /\ CASE tabs[t].answer.is = "auth" -> becomes(t, Blank(None))
       [] tabs[t].answer.is = "forbidden" /\ tabs[t].tries = 1 ->
            becomes(t, [tabs[t] EXCEPT !.answer = None, !.token = None, !.tries = 2])
       [] OTHER -> rests(t)
  /\ UNCHANGED <<jar, device, shared, loads>>

-------------------------------------------------------------------------------
(* Time and power. *)

\* A session reaches its idle deadline, which nothing moves: refreshSession has no caller.
expire(s) ==
  /\ s \in live /\ live' = live \ {s} /\ shared' = Tabs
  /\ UNCHANGED <<tabs, jar, boot, opened, minted, password, nonce, clearing, passwords, loads>>

\* The device starts anew, and authBegin draws a secret, and a nonce where neither a
\* password nor a nonce is stored; the answers under way are lost, and with them what the
\* pages were doing.
authBegin ==
  /\ boot < MaxBoots /\ boot' = boot + 1 /\ live' = {} /\ clearing' = None
  /\ nonce' = (nonce \/ ~password)
  /\ tabs' = [t \in Tabs |-> IF tabs[t].answer # None \/ clearing = t
                             THEN Blank(None) ELSE tabs[t]]
  /\ shared' = Tabs
  /\ UNCHANGED <<jar, opened, minted, password, passwords, loads>>

Next ==
  \/ \E t \in Tabs : \/ load(t)
                     \/ \E task \in Tasks : begins(t, task)
                     \/ handleCsrf(t) \/ handleLogin(t) \/ handleSetup(t)
                     \/ handleLogout(t) \/ handleWrite(t)
                     \/ tokenArrives(t) \/ sessionArrives(t) \/ refusalArrives(t)
                     \/ logoutArrives(t) \/ writeArrives(t)
  \/ clearNonce \/ authBegin
  \/ \E s \in 1..MaxSessions : expire(s)

Spec == Init /\ [][Next]_vars

-------------------------------------------------------------------------------
(* Properties. *)

\* Every variable has its type, and no session verifies that was not opened.
TypeOK ==
  /\ tabs \in [Tabs -> Tab]
  /\ jar \in [session : 0..opened, csrf : Token \cup {None}]
  /\ boot \in 1..MaxBoots /\ live \subseteq 1..opened
  /\ opened \in Nat /\ minted \in 0..MaxMints
  /\ password \in BOOLEAN /\ nonce \in BOOLEAN /\ clearing \in Tabs \cup {None}
  /\ passwords \in Nat /\ shared \subseteq Tabs /\ loads \in 0..MaxLoads

\* The nonce buys one password: no second request, no page left open and no power cut
\* between the password record and the erasure of the nonce lets it set another.
OneNonceOnePassword == passwords <= 1

\* A request is refused for its token only if another tab changed the cookies, or the
\* device restarted or the session ran out, since the page was loaded: a page used alone
\* is never refused, through sign-in, writes, failed passwords and log-out alike.
RefusedOnlyIfShared ==
  \A t \in Tabs :
    tabs[t].answer # None /\ tabs[t].answer.is = "forbidden" => t \in shared

\* data.js says of the cached token that "a 403 clears it and retries once": a log-out that
\* leaves the page leaves no valid session in the jar, unless it was refused twice.
LogoutLogsOut ==
  [][\A t \in Tabs : logoutArrives(t) /\ tabs[t].tries = 1 => jar'.session \notin live]_vars
===============================================================================
