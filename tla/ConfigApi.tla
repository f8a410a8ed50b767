------------------------------ MODULE ConfigApi ------------------------------
(***************************************************************************)
(* The configuration API (src/web_config_api.cpp) between the browser tabs *)
(* that edit the configuration (web/js/data.js), the NVS blob it is stored *)
(* in (lib/config/config_codec.cpp, src/nvs_blob_store.cpp) and the loop   *)
(* task that applies it.                                                   *)
(*                                                                         *)
(* The httpd task runs one handler at a time: it changes the store, g_config*)
(* and g_rev, then sends its response, then hands one pending action to the *)
(* loop task.  The response may be lost, the power may fail and the loop   *)
(* task may drain the action between any two of these steps.               *)
(*                                                                         *)
(* A configuration keeps one network setting (any change of it requires a  *)
(* restart), nextDeviceId, and a label per device standing for its name,   *)
(* service and commands.                                                   *)
(*                                                                         *)
(* An operator named Bug... is a plausible mistake in the definition that  *)
(* follows it, kept to show that the properties reject it.                 *)
(***************************************************************************)
EXTENDS Naturals, Functions

CONSTANTS
  Tabs,      (* browser tabs; they share one cookie jar                      *)
  Labels,    (* what a device may look like                                  *)
  Imports,   (* the configuration files a user may import                    *)
  MaxId,     (* bound on the device ids a tab allocates                      *)
  MaxRequests, (* bound on the requests accepted that change something        *)
  MaxCrashes (* bound on the power cuts                                      *)

Nets    == {"netA", "netB"}
FirstId == 2                         \* ids 0 and 1 are reserved
Devices == UNION {[S -> Labels] : S \in SUBSET (FirstId .. MaxId)}
Configs == [net : Nets, next : FirstId .. MaxId + 1, devs : Devices]

NoDevices     == [id \in {} |-> "none"]
DefaultConfig == [net |-> "netA", next |-> FirstId, devs |-> NoDevices]
NoBlob        == [net |-> "absent"]

ASSUME ConfigAssumption ==
  /\ Imports \subseteq Configs
  /\ Labels # {}
  /\ MaxId \in Nat /\ MaxId >= FirstId
  /\ MaxRequests \in Nat /\ MaxCrashes \in Nat

VARIABLES
  nvs,        (* the "config" blob: a configuration, or NoBlob                *)
  ota,        (* the OTA password: stored in NVS, shown by /api/status, and   *)
              (* bound by HomeSpan at begin()                                 *)
  config,     (* g_config                                                     *)
  rev,        (* g_rev                                                        *)
  pending,    (* g_pending                                                    *)
  pendingCfg, (* g_pendingCfg, read only while g_pending is Apply             *)
  httpd,      (* where the httpd task is in a handler that changes state      *)
  loop,       (* what pollConfigApply took and has not finished               *)
  applied,    (* the configuration the accessories were built from            *)
  boundNet,   (* g_settings of web_server.cpp: the setting listened on        *)
  cookie,     (* the boot whose session secret signed the browser's cookie    *)
  tab,        (* each tab's cachedConfig and cachedRev, or Signed out         *)
  boot,       (* history: reboots so far                                      *)
  gone,       (* history: the ids of deleted devices, until an imported file  *)
              (* or a factory reset starts the numbering anew                 *)
  wiping,     (* history: a factory reset was answered and is still due       *)
  requests,   (* history: requests accepted so far, for the bound             *)
  crashes     (* history: power cuts so far, for the bound                    *)

store   == <<nvs, ota>>
ram     == <<config, rev>>
handoff == <<pending, pendingCfg>>
device  == <<applied, boundNet>>
browser == <<cookie, tab>>
history == <<boot, gone, wiping, requests, crashes>>
vars    == <<store, ram, handoff, httpd, loop, device, browser, history>>

None      == "None"
SignedOut == [rev |-> 0]             \* on the login page, nothing loaded
Quiet     == [stage |-> "idle"]
Home      == [act |-> None]

Page(c, r) == [cfg |-> c, rev |-> r, boot |-> boot]
Loaded(t)  == tab[t] # SignedOut

BugNoDefaults(blob) == blob

\* config::load: an absent blob decodes to the defaults, which are not saved.
load(blob) == IF blob = NoBlob THEN DefaultConfig ELSE blob

\* config::save; a failed one is described at handlePostConfig.
BugNotCommitted(c) == UNCHANGED nvs
save(c) == nvs' = c

\* config::validate, of the fields kept here.
validate(c) == \A id \in DOMAIN c.devs : FirstId <= id /\ id < c.next

requiresRestart(old, new) == old.net # new.net

-------------------------------------------------------------------------------
(* What a tab may send: its cached document with one edit merged into it. *)

saveSettings(c)  == {[c EXCEPT !.net = n] : n \in Nets}
saveDevice(c)    == {[c EXCEPT !.devs[id] = l] : id \in DOMAIN c.devs, l \in Labels}
BugLowestFreeId(c) ==
  {[c EXCEPT !.next = IF i < c.next THEN c.next ELSE i + 1,
             !.devs = [id \in DOMAIN c.devs \cup {i} |-> IF id = i THEN l ELSE c.devs[id]]] :
     l \in Labels, i \in {j \in FirstId .. MaxId : /\ j \notin DOMAIN c.devs
                                               /\ FirstId .. (j - 1) \subseteq DOMAIN c.devs}}
addDevice(c)     == IF c.next > MaxId THEN {}
                    ELSE {[c EXCEPT !.next = c.next + 1,
                                    !.devs = [id \in DOMAIN c.devs \cup {c.next} |->
                                                IF id = c.next THEN l ELSE c.devs[id]]] :
                          l \in Labels}
deleteDevice(c)  == {[c EXCEPT !.devs = Restrict(c.devs, DOMAIN c.devs \ {id})] :
                     id \in DOMAIN c.devs}
replaceConfig(c) == Imports

Edits(c) == saveSettings(c) \cup saveDevice(c) \cup addDevice(c)
            \cup deleteDevice(c) \cup replaceConfig(c)

-------------------------------------------------------------------------------
(* Sessions.  The secret is drawn at boot, so a reboot signs every browser out; *)
(* a login in any tab of the browser renews the cookie for all of them.         *)

Authorised(t) == cookie = boot /\ httpd = Quiet

\* handleLogin, from the login page of one tab.
login(t) ==
  /\ httpd = Quiet
  /\ ~Loaded(t) /\ cookie # boot
  /\ cookie' = boot
  /\ UNCHANGED <<store, ram, handoff, httpd, loop, device, tab, history>>

\* Any request under a session of an earlier boot is answered 401: toLogin().
unauthorised(t) ==
  /\ httpd = Quiet
  /\ Loaded(t) /\ cookie # boot
  /\ tab' = [tab EXCEPT ![t] = SignedOut]
  /\ UNCHANGED <<store, ram, handoff, httpd, loop, device, cookie, history>>

\* GET /api/config, when a page is opened or reloaded.
handleGetConfig(t) ==
  /\ Authorised(t)
  /\ tab' = [tab EXCEPT ![t] = Page(config, rev)]
  /\ UNCHANGED <<store, ram, handoff, httpd, loop, device, cookie, history>>

-------------------------------------------------------------------------------
(* The httpd task. *)

Accepted == requests < MaxRequests /\ requests' = requests + 1

Respond(t, b, a) == [stage |-> "respond", tab |-> t, body |-> b, act |-> a]

BugOlderRevToo(t) == tab[t].rev <= rev
revMatches(t)     == tab[t].rev = rev

BugRevKept == rev
nextRev    == rev + 1

\* POST /api/config?rev=N.  A stale rev, a document that does not validate and a
\* failed save change nothing (the tab reloads, or keeps the page it has): they are
\* stuttering steps.  So is a 403 for a CSRF token of an earlier session, which the
\* tab retries with a fresh one.
handlePostConfig(t, incoming) ==
  /\ Authorised(t) /\ Loaded(t)
  /\ Accepted
  /\ revMatches(t)
  /\ validate(incoming)
  /\ loop.act # "Erased"           \* the NVS handle is gone: save fails
  /\ save(incoming)
  /\ config' = incoming
  /\ rev' = nextRev
  /\ httpd' = Respond(t, "config", IF requiresRestart(config, incoming) THEN "Restart" ELSE "Apply")
  /\ gone' = IF incoming \in Imports THEN {}
             ELSE gone \cup (DOMAIN config.devs \ DOMAIN incoming.devs)
  /\ UNCHANGED <<ota, handoff, loop, device, browser, boot, wiping, crashes>>

handleFactoryReset(t) ==
  /\ Authorised(t) /\ Loaded(t)
  /\ Accepted
  /\ httpd' = Respond(t, "factory", "Factory")
  /\ UNCHANGED <<store, ram, handoff, loop, device, browser, boot, gone, wiping, crashes>>

handleRegenOtaPassword(t) ==
  /\ Authorised(t) /\ Loaded(t)
  /\ Accepted
  /\ loop.act # "Erased"
  /\ ota' = [ota EXCEPT !.stored = ota.stored + 1, !.shown = ota.stored + 1]
  /\ httpd' = Respond(t, "ok", "Restart")
  /\ UNCHANGED <<nvs, ram, handoff, loop, device, browser, boot, gone, wiping, crashes>>

\* sendJson flushes the response, which may still be lost on its way.  A tab adopts
\* the document and the revision its own write is answered with.
sendJson(arrives) ==
  /\ httpd.stage = "respond"
  /\ tab'    = IF arrives /\ httpd.body = "config"
               THEN [tab EXCEPT ![httpd.tab] = Page(config, rev)] ELSE tab
  /\ wiping' = (wiping \/ (arrives /\ httpd.body = "factory"))
  /\ httpd' = [stage |-> "enqueue", act |-> httpd.act]
  /\ UNCHANGED <<store, ram, handoff, loop, device, cookie, boot, gone, requests, crashes>>

BugFirstActionKept ==
  /\ httpd.stage = "enqueue"
  /\ IF pending = None
     THEN pending' = httpd.act /\ pendingCfg' = IF httpd.act = "Apply" THEN config ELSE pendingCfg
     ELSE UNCHANGED handoff
  /\ httpd' = Quiet
  /\ UNCHANGED <<store, ram, loop, device, browser, history>>

enqueue ==
  /\ httpd.stage = "enqueue"
  /\ pending' = httpd.act
  /\ pendingCfg' = IF httpd.act = "Apply" THEN config ELSE pendingCfg
  /\ httpd' = Quiet
  /\ UNCHANGED <<store, ram, loop, device, browser, history>>

-------------------------------------------------------------------------------
(* The loop task. *)

\* The locked half of pollConfigApply; what it moves out of g_pendingCfg is gone.
takePending ==
  /\ loop = Home
  /\ pending # None
  /\ loop' = IF pending = "Apply" THEN [act |-> "Apply", cfg |-> pendingCfg]
             ELSE [act |-> pending]
  /\ pending' = None
  /\ pendingCfg' = DefaultConfig
  /\ UNCHANGED <<store, ram, httpd, device, browser, history>>

applyConfigChange ==
  /\ loop.act = "Apply"
  /\ applied' = loop.cfg
  /\ loop' = Home
  /\ UNCHANGED <<store, ram, handoff, httpd, boundNet, browser, history>>

\* nvs_flash_erase, after the delay that lets the response flush.  The handlers go
\* on running until the restart.
eraseNvs ==
  /\ loop.act = "Factory"
  /\ nvs' = NoBlob
  /\ loop' = [act |-> "Erased"]
  /\ UNCHANGED <<ota, ram, handoff, httpd, device, browser, history>>

\* setup(): load the configuration, seed the API with it, build the accessories and
\* bind the network setting and the OTA password; an erased store gets a new one.
setup ==
  /\ config' = load(nvs) /\ rev' = 1
  /\ applied' = load(nvs) /\ boundNet' = load(nvs).net
  /\ ota' = LET pw == IF loop.act = "Erased" THEN ota.stored + 1 ELSE ota.stored
            IN  [stored |-> pw, shown |-> pw, bound |-> pw]
  /\ pending' = None /\ pendingCfg' = DefaultConfig
  /\ httpd' = Quiet /\ loop' = Home
  /\ boot' = boot + 1

\* ESP.restart() on the loop task.
restart ==
  /\ loop.act \in {"Restart", "Erased"}
  /\ setup
  /\ wiping' = (wiping /\ loop.act # "Erased")
  /\ gone' = IF loop.act = "Erased" THEN {} ELSE gone
  /\ UNCHANGED <<nvs, browser, requests, crashes>>

\* A power cut, a watchdog reset or the reset button, at any step.
crash ==
  /\ crashes < MaxCrashes /\ crashes' = crashes + 1
  /\ setup
  /\ wiping' = FALSE
  /\ gone' = IF loop.act = "Erased" THEN {} ELSE gone
  /\ UNCHANGED <<nvs, browser, requests>>

-------------------------------------------------------------------------------
Init ==
  /\ nvs = NoBlob /\ ota = [stored |-> 0, shown |-> 0, bound |-> 0]
  /\ config = DefaultConfig /\ rev = 1
  /\ pending = None /\ pendingCfg = DefaultConfig
  /\ httpd = Quiet /\ loop = Home
  /\ applied = DefaultConfig /\ boundNet = DefaultConfig.net
  /\ cookie = 0 /\ tab = [t \in Tabs |-> SignedOut]
  /\ boot = 0 /\ gone = {} /\ wiping = FALSE
  /\ requests = 0 /\ crashes = 0

HttpdStep == (\E arrives \in BOOLEAN : sendJson(arrives)) \/ enqueue
LoopStep  == takePending \/ applyConfigChange \/ eraseNvs \/ restart

TabStep(t) ==
  \/ login(t)
  \/ unauthorised(t)
  \/ handleGetConfig(t)
  \/ Loaded(t) /\ \E c \in Edits(tab[t].cfg) : handlePostConfig(t, c)
  \/ handleFactoryReset(t)
  \/ handleRegenOtaPassword(t)

Next ==
  \/ \E t \in Tabs : TabStep(t)
  \/ HttpdStep
  \/ LoopStep
  \/ crash

\* Both tasks keep running; no request, delivery or power cut is ever promised.
Fairness == WF_vars(HttpdStep) /\ WF_vars(LoopStep)

Spec     == Init /\ [][Next]_vars
FairSpec == Spec /\ Fairness

-------------------------------------------------------------------------------
TypeOK ==
  /\ nvs \in Configs \cup {NoBlob}
  /\ ota \in [stored : Nat, shown : Nat, bound : Nat]
  /\ config \in Configs /\ rev \in Nat \ {0}
  /\ pending \in {None, "Apply", "Restart", "Factory"} /\ pendingCfg \in Configs
  /\ \/ httpd = Quiet
     \/ httpd \in [stage : {"respond"}, tab : Tabs, body : {"config", "factory", "ok"},
                   act : {"Apply", "Restart", "Factory"}]
     \/ httpd \in [stage : {"enqueue"}, act : {"Apply", "Restart", "Factory"}]
  /\ \/ loop \in [act : {None, "Restart", "Factory", "Erased"}]
     \/ loop \in [act : {"Apply"}, cfg : Configs]
  /\ applied \in Configs /\ boundNet \in Nets
  /\ cookie \in Nat
  /\ tab \in [Tabs -> [cfg : Configs, rev : Nat \ {0}, boot : Nat] \cup {SignedOut}]
  /\ boot \in Nat /\ gone \subseteq FirstId .. MaxId /\ wiping \in BOOLEAN
  /\ requests \in Nat /\ crashes \in Nat

Settled == httpd = Quiet /\ pending = None /\ loop = Home

\* What the device works with is what it has stored and what it serves to the tabs:
\* g_config never runs ahead of the blob or falls behind it, and once no action is
\* under way the accessories are built from it (web_config_api.cpp:193-206,336-350).
StoredServedApplied ==
  /\ loop.act # "Erased" => config = load(nvs)
  /\ Settled => applied = config

\* The revision identifies the document within one boot: a tab whose revision is
\* current holds the current document, whichever responses were lost on the way, so
\* that the rev guard of handlePostConfig really compares documents.
RevIdentifiesConfig ==
  \A t \in Tabs : Loaded(t) /\ tab[t].boot = boot =>
    /\ tab[t].rev <= rev
    /\ tab[t].rev = rev => tab[t].cfg = config

Accepts(t) == httpd = Quiet /\ httpd'.stage = "respond" /\ httpd'.tab = t
              /\ httpd'.body = "config"

\* No tab silently overwrites the write of another made in the same boot: an
\* accepted document is an edit of the one it replaces (web_config_api.cpp:184).
WritesBuildOnCurrent ==
  [][\A t \in Tabs : Accepts(t) /\ tab[t].boot = boot => tab[t].cfg = config]_vars

\* An accepted write survives any restart or power cut that follows it, whether or
\* not its response was sent and its action drained; only a factory reset loses it.
RestartKeepsWrites ==
  [][boot' # boot /\ loop.act # "Erased" => config' = config /\ applied' = config]_vars

\* No id of a deleted device comes back (config_model.h:81) between two tabs until the
\* device first reboots or a file is imported, which brings its own ids and
\* nextDeviceId, whichever of them added and deleted, and whichever responses were lost
\* (data.js:139-158).
IdNeverReusedInBoot == boot = 0 => gone \cap DOMAIN config.devs = {}

\* The restarts and resets the responses announce happen (settings.js:131,351): once
\* everything is quiet the settings that need a restart are in force and no factory
\* reset that was answered is still due.
PromisesAreKept ==
  Settled => boundNet = config.net /\ ota.bound = ota.stored /\ ~wiping

\* Every configuration stored is eventually the one the accessories work with.
AppliedCatchesUp == []<>(applied = config)
===============================================================================
