--------------------------- MODULE ConfigApiProofs ---------------------------
(***************************************************************************)
(* Proofs about ConfigApi, for any number of tabs, devices, labels and     *)
(* import files, of requests and of power cuts.                            *)
(***************************************************************************)
EXTENDS ConfigApi, TLAPS

\* Every edit a tab can make of a configuration is one.
LEMMA DeviceTypes ==
  ASSUME NEW S \in SUBSET (FirstId .. MaxId), NEW f \in [S -> Labels]
  PROVE  f \in Devices
BY DEF Devices

LEMMA DevicesHave ==
  ASSUME NEW f \in Devices
  PROVE  /\ DOMAIN f \subseteq FirstId .. MaxId
         /\ f \in [DOMAIN f -> Labels]
BY DEF Devices

LEMMA EditsAreConfigs ==
  ASSUME NEW c \in Configs, NEW d \in Edits(c)
  PROVE  d \in Configs
<1> USE ConfigAssumption
<1>1. /\ c = [net |-> c.net, next |-> c.next, devs |-> c.devs]
      /\ c.net \in Nets /\ c.next \in FirstId .. MaxId + 1 /\ c.devs \in Devices
  BY DEF Configs
<1>2. DOMAIN c.devs \subseteq FirstId .. MaxId /\ c.devs \in [DOMAIN c.devs -> Labels]
  BY <1>1, DevicesHave
<1>3. CASE d \in saveSettings(c)
  BY <1>1, <1>3 DEF saveSettings, Configs
<1>4. CASE d \in saveDevice(c)
  <2> PICK id \in DOMAIN c.devs, l \in Labels : d = [c EXCEPT !.devs[id] = l]
    BY <1>4 DEF saveDevice
  <2>1. [c.devs EXCEPT ![id] = l] \in Devices
    BY <1>2, DeviceTypes
  <2> QED
    BY <1>1, <2>1 DEF Configs
<1>5. CASE d \in addDevice(c)
  <2>1. c.next <= MaxId
    <3>1. ~(c.next > MaxId)
      BY <1>5 DEF addDevice
    <3> QED
      BY <1>1, <3>1 DEF FirstId
  <2> PICK l \in Labels :
        d = [c EXCEPT !.next = c.next + 1,
                      !.devs = [id \in DOMAIN c.devs \cup {c.next} |->
                                  IF id = c.next THEN l ELSE c.devs[id]]]
    BY <1>5, <2>1 DEF addDevice
  <2> DEFINE f == [id \in DOMAIN c.devs \cup {c.next} |->
                     IF id = c.next THEN l ELSE c.devs[id]]
  <2>2. f \in Devices
    <3>1. DOMAIN c.devs \cup {c.next} \in SUBSET (FirstId .. MaxId)
      BY <1>1, <1>2, <2>1 DEF FirstId
    <3>2. f \in [DOMAIN c.devs \cup {c.next} -> Labels]
      BY <1>2
    <3> QED
      BY <3>1, <3>2, DeviceTypes
  <2>3. c.next + 1 \in FirstId .. MaxId + 1
    BY <1>1, <2>1 DEF FirstId
  <2> QED
    BY <1>1, <2>2, <2>3 DEF Configs
<1>6. CASE d \in deleteDevice(c)
  <2> PICK id \in DOMAIN c.devs :
        d = [c EXCEPT !.devs = Restrict(c.devs, DOMAIN c.devs \ {id})]
    BY <1>6 DEF deleteDevice
  <2>1. Restrict(c.devs, DOMAIN c.devs \ {id}) \in [DOMAIN c.devs \ {id} -> Labels]
    BY <1>2 DEF Restrict
  <2>2. Restrict(c.devs, DOMAIN c.devs \ {id}) \in Devices
    BY <1>2, <2>1, DeviceTypes
  <2> QED
    BY <1>1, <2>2 DEF Configs
<1>7. CASE d \in replaceConfig(c)
  BY <1>7 DEF replaceConfig
<1> QED
  BY <1>3, <1>4, <1>5, <1>6, <1>7 DEF Edits

LEMMA DefaultIsConfig == DefaultConfig \in Configs
<1>1. NoDevices \in Devices
  <2>1. NoDevices \in [{} -> Labels]
    BY DEF NoDevices
  <2> QED
    BY <2>1, DeviceTypes
<1> QED
  BY <1>1, ConfigAssumption DEF DefaultConfig, Configs, Nets, FirstId

\* What setup() loads is a configuration, and what was saved is loaded back.
LEMMA LoadReturns ==
  ASSUME NEW blob \in Configs \cup {NoBlob}
  PROVE  /\ load(blob) \in Configs
         /\ blob \in Configs => load(blob) = blob
<1>1. ASSUME NEW c \in Configs PROVE c # NoBlob
  <2>1. c.net \in Nets
    BY DEF Configs
  <2> QED
    BY <2>1 DEF Nets, NoBlob
<1> QED
  BY <1>1, DefaultIsConfig DEF load

-------------------------------------------------------------------------------
(* Types. *)

HttpdOK == \/ httpd = Quiet
           \/ httpd \in [stage : {"respond"}, tab : Tabs, body : {"config", "factory", "ok"},
                         act : {"Apply", "Restart", "Factory"}]
           \/ httpd \in [stage : {"enqueue"}, act : {"Apply", "Restart", "Factory"}]

PageType == [cfg : Configs, rev : Nat \ {0}, boot : Nat]
TabOK    == tab \in [Tabs -> PageType \cup {SignedOut}]

LEMMA LoadedIsPage ==
  ASSUME TabOK, NEW t \in Tabs, Loaded(t)
  PROVE  tab[t] \in PageType
BY DEF TabOK, Loaded

LEMMA PagesHave ==
  ASSUME NEW p \in PageType
  PROVE  p.cfg \in Configs /\ p.rev \in Nat \ {0} /\ p.boot \in Nat
BY DEF PageType

LEMMA SetupTypes ==
  ASSUME TypeOK, setup
  PROVE  /\ config' \in Configs /\ rev' \in Nat \ {0}
         /\ applied' \in Configs /\ boundNet' \in Nets
         /\ ota' \in [stored : Nat, shown : Nat, bound : Nat]
         /\ pending' = None /\ pendingCfg' \in Configs
         /\ httpd' = Quiet /\ loop' = Home /\ boot' \in Nat
<1>1. load(nvs) \in Configs
  BY LoadReturns DEF TypeOK
<1>2. load(nvs).net \in Nets
  BY <1>1 DEF Configs
<1>3. ota.stored \in Nat
  BY DEF TypeOK
<1>4. ota' \in [stored : Nat, shown : Nat, bound : Nat]
  <2> DEFINE pw == IF loop.act = "Erased" THEN ota.stored + 1 ELSE ota.stored
  <2>1. pw \in Nat
    BY <1>3
  <2>2. ota' = [stored |-> pw, shown |-> pw, bound |-> pw]
    BY DEF setup
  <2> QED
    BY <2>1, <2>2
<1> QED
  BY <1>1, <1>2, <1>4, DefaultIsConfig DEF setup, TypeOK

LEMMA GoneTypes ==
  ASSUME NEW c \in Configs, NEW d \in Configs, NEW g \in SUBSET (FirstId .. MaxId)
  PROVE  g \cup (DOMAIN c.devs \ DOMAIN d.devs) \subseteq FirstId .. MaxId
<1>1. c.devs \in Devices
  BY DEF Configs
<1> QED
  BY <1>1, DevicesHave

LEMMA PostTypes ==
  ASSUME TypeOK, NEW t \in Tabs, NEW d \in Edits(tab[t].cfg), handlePostConfig(t, d)
  PROVE  TypeOK' /\ d \in Configs
<1>1. d \in Configs
  <2>1. Loaded(t) /\ TabOK
    BY DEF handlePostConfig, TypeOK, TabOK, PageType
  <2> QED
    BY <2>1, LoadedIsPage, PagesHave, EditsAreConfigs
<1>2. nvs' \in Configs /\ config' \in Configs /\ rev' \in Nat \ {0} /\ requests' \in Nat
  BY <1>1 DEF handlePostConfig, TypeOK, save, nextRev, Accepted
<1>3. httpd' \in [stage : {"respond"}, tab : Tabs, body : {"config", "factory", "ok"},
                 act : {"Apply", "Restart", "Factory"}]
  BY DEF handlePostConfig, Respond
<1>4. gone' \subseteq FirstId .. MaxId
  BY <1>1, GoneTypes DEF handlePostConfig, TypeOK
<1>5. UNCHANGED <<ota, pending, pendingCfg, loop, applied, boundNet, cookie, tab, boot, wiping,
                crashes>>
  BY DEF handlePostConfig, handoff, device, browser
<1> QED
  BY <1>1, <1>2, <1>3, <1>4, <1>5 DEF TypeOK

LEMMA TabTypes ==
  ASSUME TypeOK, NEW t \in Tabs, TabStep(t)
  PROVE  TypeOK'
<1> USE DEF store, ram, handoff, device, browser, history
<1>1. CASE login(t)
  BY <1>1 DEF login, TypeOK
<1>2. CASE unauthorised(t)
  <2>1. tab' \in [Tabs -> PageType \cup {SignedOut}]
    BY <1>2 DEF unauthorised, TypeOK, PageType
  <2> QED
    BY <1>2, <2>1 DEF unauthorised, TypeOK, PageType
<1>3. CASE handleGetConfig(t)
  <2>1. Page(config, rev) \in PageType
    BY DEF TypeOK, Page, PageType
  <2>2. tab' \in [Tabs -> PageType \cup {SignedOut}]
    BY <1>3, <2>1 DEF handleGetConfig, TypeOK, PageType
  <2> QED
    BY <1>3, <2>2 DEF handleGetConfig, TypeOK, PageType
<1>4. ASSUME NEW d \in Edits(tab[t].cfg), handlePostConfig(t, d) PROVE TypeOK'
  BY <1>4, PostTypes
<1>5. CASE handleFactoryReset(t)
  <2>1. httpd' \in [stage : {"respond"}, tab : Tabs, body : {"config", "factory", "ok"},
                   act : {"Apply", "Restart", "Factory"}]
    BY <1>5 DEF handleFactoryReset, Respond
  <2> QED
    BY <1>5, <2>1 DEF handleFactoryReset, Accepted, TypeOK
<1>6. CASE handleRegenOtaPassword(t)
  <2>1. httpd' \in [stage : {"respond"}, tab : Tabs, body : {"config", "factory", "ok"},
                   act : {"Apply", "Restart", "Factory"}]
    BY <1>6 DEF handleRegenOtaPassword, Respond
  <2>2. ota' \in [stored : Nat, shown : Nat, bound : Nat]
    <3>1. ota' = [stored |-> ota.stored + 1, shown |-> ota.stored + 1, bound |-> ota.bound]
      BY <1>6 DEF handleRegenOtaPassword, TypeOK
    <3>2. ota.stored + 1 \in Nat /\ ota.bound \in Nat
      BY DEF TypeOK
    <3> QED
      BY <3>1, <3>2
  <2> QED
    BY <1>6, <2>1, <2>2 DEF handleRegenOtaPassword, Accepted, TypeOK
<1> QED
  BY <1>1, <1>2, <1>3, <1>4, <1>5, <1>6 DEF TabStep

LEMMA TaskTypes ==
  ASSUME TypeOK, HttpdStep \/ LoopStep \/ crash
  PROVE  TypeOK'
<1> USE DEF store, ram, handoff, device, browser, history
<1>1. ASSUME NEW arrives \in BOOLEAN, sendJson(arrives) PROVE TypeOK'
  <2>1. httpd \in [stage : {"respond"}, tab : Tabs, body : {"config", "factory", "ok"},
                  act : {"Apply", "Restart", "Factory"}]
    BY <1>1 DEF sendJson, TypeOK, Quiet
  <2>2. httpd' \in [stage : {"enqueue"}, act : {"Apply", "Restart", "Factory"}]
    BY <1>1, <2>1 DEF sendJson
  <2>3. tab' \in [Tabs -> PageType \cup {SignedOut}]
    <3>1. Page(config, rev) \in PageType
      BY DEF TypeOK, Page, PageType
    <3>2. [tab EXCEPT ![httpd.tab] = Page(config, rev)] \in [Tabs -> PageType \cup {SignedOut}]
      BY <2>1, <3>1 DEF TypeOK, PageType
    <3> QED
      BY <1>1, <3>2 DEF sendJson, TypeOK, PageType
  <2>4. wiping' \in BOOLEAN
    BY <1>1 DEF sendJson
  <2> QED
    BY <1>1, <2>2, <2>3, <2>4 DEF sendJson, TypeOK, PageType
<1>2. CASE enqueue
  <2>1. httpd \in [stage : {"enqueue"}, act : {"Apply", "Restart", "Factory"}]
    BY <1>2 DEF enqueue, TypeOK, Quiet
  <2>2. pending' \in {None, "Apply", "Restart", "Factory"} /\ pendingCfg' \in Configs
    BY <1>2, <2>1 DEF enqueue, TypeOK
  <2> QED
    BY <1>2, <2>2 DEF enqueue, TypeOK
<1>3. CASE takePending
  <2>1. \/ loop' \in [act : {None, "Restart", "Factory", "Erased"}]
        \/ loop' \in [act : {"Apply"}, cfg : Configs]
    BY <1>3 DEF takePending, TypeOK
  <2> QED
    BY <1>3, <2>1, DefaultIsConfig DEF takePending, TypeOK
<1>4. CASE applyConfigChange
  <2>1. loop \in [act : {"Apply"}, cfg : Configs]
    BY <1>4 DEF applyConfigChange, TypeOK, None
  <2>2. loop' \in [act : {None, "Restart", "Factory", "Erased"}] /\ applied' \in Configs
    BY <1>4, <2>1 DEF applyConfigChange, Home
  <2> QED
    BY <1>4, <2>2 DEF applyConfigChange, TypeOK
<1>5. CASE eraseNvs
  <2>1. loop' \in [act : {None, "Restart", "Factory", "Erased"}]
    BY <1>5 DEF eraseNvs
  <2> QED
    BY <1>5, <2>1 DEF eraseNvs, TypeOK
<1>6. ASSUME restart \/ crash PROVE TypeOK'
  <2>1. /\ setup /\ UNCHANGED <<nvs, cookie, tab, requests>>
        /\ gone' \subseteq FirstId .. MaxId /\ wiping' \in BOOLEAN /\ crashes' \in Nat
    <3>1. CASE restart
      <4>1. wiping' \in BOOLEAN
        BY <3>1 DEF restart
      <4> QED
        BY <3>1, <4>1 DEF restart, TypeOK
    <3>2. CASE crash
      <4>1. wiping' \in BOOLEAN
        BY <3>2 DEF crash
      <4>2. crashes' \in Nat
        BY <3>2 DEF crash, TypeOK
      <4> QED
        BY <3>2, <4>1, <4>2 DEF crash, TypeOK
    <3> QED
      BY <1>6, <3>1, <3>2
  <2>2. loop' \in [act : {None, "Restart", "Factory", "Erased"}]
    BY <2>1 DEF setup, Home
  <2> QED
    BY <2>1, <2>2, SetupTypes DEF TypeOK
<1> QED
  BY <1>1, <1>2, <1>3, <1>4, <1>5, <1>6 DEF HttpdStep, LoopStep

LEMMA InitTypeOK == Init => TypeOK
<1> SUFFICES ASSUME Init PROVE TypeOK
  OBVIOUS
<1>1. loop \in [act : {None, "Restart", "Factory", "Erased"}]
  BY DEF Init, Home
<1>2. boundNet \in Nets
  BY DEF Init, DefaultConfig, Nets
<1>3. ota \in [stored : Nat, shown : Nat, bound : Nat]
  BY DEF Init
<1>4. tab \in [Tabs -> PageType \cup {SignedOut}]
  BY DEF Init
<1> QED
  <2>1. /\ nvs = NoBlob /\ config = DefaultConfig /\ applied = DefaultConfig
        /\ pendingCfg = DefaultConfig /\ pending = None /\ httpd = Quiet
        /\ rev = 1 /\ cookie = 0 /\ boot = 0 /\ gone = {} /\ wiping = FALSE
        /\ requests = 0 /\ crashes = 0
    BY DEF Init
  <2>2. /\ rev \in Nat \ {0} /\ cookie \in Nat /\ boot \in Nat
        /\ requests \in Nat /\ crashes \in Nat
    BY <2>1
  <2>3. gone \subseteq FirstId .. MaxId
    BY <2>1
  <2>4. wiping \in BOOLEAN
    BY <2>1
  <2>5. /\ nvs \in Configs \cup {NoBlob} /\ config \in Configs /\ applied \in Configs
        /\ pending \in {None, "Apply", "Restart", "Factory"} /\ pendingCfg \in Configs
    BY <2>1, DefaultIsConfig
  <2> QED
    BY <1>1, <1>2, <1>3, <1>4, <2>1, <2>2, <2>3, <2>4, <2>5 DEF TypeOK, PageType

LEMMA NextTypeOK == TypeOK /\ [Next]_vars => TypeOK'
<1> SUFFICES ASSUME TypeOK, [Next]_vars PROVE TypeOK'
  OBVIOUS
<1>1. CASE UNCHANGED vars
  BY <1>1 DEF vars, store, ram, handoff, device, browser, history, TypeOK
<1> QED
  BY <1>1, TabTypes, TaskTypes DEF Next

\* Every variable keeps its type: in particular only configurations are ever stored,
\* served, queued, applied or held by a page, whatever the tabs edit and import.
THEOREM TypeCorrect == Spec => []TypeOK
BY InitTypeOK, NextTypeOK, PTL DEF Spec

-------------------------------------------------------------------------------
(* The revision guard.  A page of an earlier boot never counts as one of this boot, *)
(* and within a boot every accepted write moves the revision past every page.       *)

PagesAreOfThePast == \A t \in Tabs : Loaded(t) => tab[t].boot <= boot

RevIInv == TypeOK /\ PagesAreOfThePast /\ RevIdentifiesConfig

LEMMA PageFields ==
  /\ Page(config, rev).cfg = config
  /\ Page(config, rev).rev = rev
  /\ Page(config, rev).boot = boot
BY DEF Page

\* A step that leaves g_config, g_rev and the boot alone and gives a tab at most the
\* current page or none.
LEMMA PageStep ==
  ASSUME RevIInv, UNCHANGED <<config, rev, boot>>,
         NEW t \in Tabs,
         \/ tab' = tab
         \/ tab' = [tab EXCEPT ![t] = Page(config, rev)]
         \/ tab' = [tab EXCEPT ![t] = SignedOut]
  PROVE  PagesAreOfThePast' /\ RevIdentifiesConfig'
<1>1. ASSUME NEW u \in Tabs, Loaded(u)'
      PROVE  \/ tab'[u] = tab[u] /\ Loaded(u)
             \/ tab'[u] = Page(config, rev)
  BY <1>1 DEF RevIInv, TypeOK, Loaded
<1>2. ASSUME NEW u \in Tabs, Loaded(u)'
      PROVE  /\ tab'[u].boot <= boot'
             /\ tab'[u].boot = boot' => tab'[u].rev <= rev'
             /\ tab'[u].boot = boot' /\ tab'[u].rev = rev' => tab'[u].cfg = config'
  <2>1. boot \in Nat /\ rev \in Nat
    BY DEF RevIInv, TypeOK
  <2>2. CASE tab'[u] = tab[u] /\ Loaded(u)
    BY <2>2 DEF RevIInv, PagesAreOfThePast, RevIdentifiesConfig
  <2>3. CASE tab'[u] = Page(config, rev)
    BY <2>1, <2>3, PageFields
  <2> QED
    BY <1>1, <1>2, <2>2, <2>3
<1> QED
  BY <1>2 DEF PagesAreOfThePast, RevIdentifiesConfig

\* A reboot starts the revisions again, but every page is of an earlier boot by then.
LEMMA RebootStep ==
  ASSUME RevIInv, boot' = boot + 1, tab' = tab
  PROVE  PagesAreOfThePast' /\ RevIdentifiesConfig'
<1>1. ASSUME NEW u \in Tabs, Loaded(u)'
      PROVE  tab'[u].boot <= boot' /\ tab'[u].boot # boot'
  <2>1. Loaded(u) /\ tab[u].boot <= boot /\ TabOK /\ boot \in Nat
    BY <1>1 DEF Loaded, RevIInv, PagesAreOfThePast, TypeOK, TabOK, PageType
  <2>2. tab[u].boot \in Nat
    BY <2>1, LoadedIsPage, PagesHave
  <2> QED
    BY <2>1, <2>2
<1> QED
  BY <1>1 DEF PagesAreOfThePast, RevIdentifiesConfig

LEMMA WriteStep ==
  ASSUME RevIInv, rev' = rev + 1, UNCHANGED <<boot, tab>>
  PROVE  PagesAreOfThePast' /\ RevIdentifiesConfig'
<1>1. ASSUME NEW u \in Tabs, Loaded(u)', tab'[u].boot = boot'
      PROVE  tab'[u].rev <= rev' /\ tab'[u].rev # rev'
  <2>1. Loaded(u) /\ tab[u].rev <= rev /\ TabOK /\ rev \in Nat
    BY <1>1 DEF Loaded, RevIInv, RevIdentifiesConfig, TypeOK, TabOK, PageType
  <2>2. tab[u].rev \in Nat
    BY <2>1, LoadedIsPage, PagesHave
  <2> QED
    BY <2>1, <2>2
<1> QED
  BY <1>1 DEF PagesAreOfThePast, RevIdentifiesConfig, RevIInv, Loaded

LEMMA RevNext == RevIInv /\ [Next]_vars => RevIInv'
<1> SUFFICES ASSUME RevIInv, [Next]_vars PROVE RevIInv'
  OBVIOUS
<1>1. TypeOK'
  BY NextTypeOK DEF RevIInv
<1>2. PagesAreOfThePast' /\ RevIdentifiesConfig'
  <2> USE DEF store, ram, handoff, device, browser, history
  <2>1. ASSUME NEW t \in Tabs, NEW d \in Edits(tab[t].cfg), handlePostConfig(t, d)
        PROVE  PagesAreOfThePast' /\ RevIdentifiesConfig'
    BY <2>1, WriteStep DEF handlePostConfig, nextRev
  <2>2. ASSUME NEW t \in Tabs,
               \/ login(t) \/ unauthorised(t) \/ handleGetConfig(t)
               \/ handleFactoryReset(t) \/ handleRegenOtaPassword(t)
        PROVE  PagesAreOfThePast' /\ RevIdentifiesConfig'
    BY <2>2, PageStep DEF login, unauthorised, handleGetConfig, handleFactoryReset,
                          handleRegenOtaPassword
  <2>3. ASSUME NEW arrives \in BOOLEAN, sendJson(arrives)
        PROVE  PagesAreOfThePast' /\ RevIdentifiesConfig'
    <3>1. httpd.tab \in Tabs
      BY <2>3 DEF sendJson, RevIInv, TypeOK, Quiet
    <3>2. \/ tab' = tab
          \/ tab' = [tab EXCEPT ![httpd.tab] = Page(config, rev)]
      BY <2>3 DEF sendJson
    <3>3. UNCHANGED <<config, rev, boot>>
      BY <2>3 DEF sendJson
    <3> QED
      BY <3>1, <3>2, <3>3, PageStep
  <2>4. CASE UNCHANGED <<config, rev, boot, tab>>
    BY <2>4 DEF RevIInv, PagesAreOfThePast, RevIdentifiesConfig, Loaded
  <2>5. CASE restart \/ crash
    <3>1. boot' = boot + 1 /\ tab' = tab
      BY <2>5 DEF restart, crash, setup
    <3> QED
      BY <3>1, RebootStep
  <2>6. CASE enqueue \/ takePending \/ applyConfigChange \/ eraseNvs \/ UNCHANGED vars
    BY <2>4, <2>6 DEF enqueue, takePending, applyConfigChange, eraseNvs, vars
  <2> QED
    BY <2>1, <2>2, <2>3, <2>5, <2>6 DEF Next, TabStep, HttpdStep, LoopStep
<1> QED
  BY <1>1, <1>2 DEF RevIInv

LEMMA RevInit == Init => RevIInv
<1> SUFFICES ASSUME Init PROVE RevIInv
  OBVIOUS
<1>1. \A t \in Tabs : ~Loaded(t)
  BY DEF Init, Loaded
<1> QED
  BY <1>1, InitTypeOK DEF RevIInv, PagesAreOfThePast, RevIdentifiesConfig

LEMMA RevInductive == Spec => []RevIInv
BY RevInit, RevNext, PTL DEF Spec

\* In one boot a revision names one document: the rev guard of handlePostConfig
\* (web_config_api.cpp:184) is as good as comparing the documents.
THEOREM RevisionsIdentify == Spec => []RevIdentifiesConfig
<1>1. RevIInv => RevIdentifiesConfig
  BY DEF RevIInv
<1> QED
  BY <1>1, RevInductive, PTL

\* Only an accepted POST of the tab's own leaves its configuration to be answered.
LEMMA AcceptsIsPost ==
  ASSUME TypeOK, [Next]_vars, NEW t \in Tabs, Accepts(t)
  PROVE  Loaded(t) /\ revMatches(t)
<1> USE DEF store, ram, handoff, device, browser, history
<1>1. httpd = Quiet /\ httpd'.stage = "respond" /\ httpd'.tab = t /\ httpd'.body = "config"
  BY DEF Accepts
<1>2. ASSUME NEW u \in Tabs, NEW d \in Edits(tab[u].cfg), handlePostConfig(u, d)
      PROVE  Loaded(t) /\ revMatches(t)
  <2>1. httpd'.tab = u
    BY <1>2 DEF handlePostConfig, Respond
  <2> QED
    BY <1>1, <1>2, <2>1 DEF handlePostConfig
<1>3. ASSUME NEW u \in Tabs, handleFactoryReset(u) \/ handleRegenOtaPassword(u)
      PROVE  FALSE
  <2>1. httpd'.body \in {"factory", "ok"}
    BY <1>3 DEF handleFactoryReset, handleRegenOtaPassword, Respond
  <2> QED
    BY <1>1, <2>1
<1>4. httpd.stage = "idle" /\ httpd' # Quiet
  BY <1>1 DEF Quiet
<1>5. ~HttpdStep
  BY <1>4 DEF HttpdStep, sendJson, enqueue
<1>6. ~LoopStep /\ ~crash
  BY <1>1, <1>4 DEF LoopStep, crash, restart, setup, takePending, applyConfigChange, eraseNvs
<1>7. \A u \in Tabs : ~login(u) /\ ~unauthorised(u) /\ ~handleGetConfig(u)
  BY <1>1, <1>4 DEF login, unauthorised, handleGetConfig
<1>8. ~UNCHANGED vars
  BY <1>1, <1>4 DEF vars
<1> QED
  BY <1>2, <1>3, <1>5, <1>6, <1>7, <1>8 DEF Next, TabStep

\* Between two tabs of one boot no write is lost: each accepted document is an edit
\* of the one it replaces, whatever responses were lost on the way.
THEOREM NoLostUpdateInBoot == Spec => WritesBuildOnCurrent
<1>1. RevIInv /\ [Next]_vars =>
        [\A t \in Tabs : Accepts(t) /\ tab[t].boot = boot => tab[t].cfg = config]_vars
  <2> SUFFICES ASSUME RevIInv, [Next]_vars, NEW t \in Tabs, Accepts(t), tab[t].boot = boot
               PROVE  tab[t].cfg = config
    OBVIOUS
  <2>1. Loaded(t) /\ revMatches(t)
    BY AcceptsIsPost DEF RevIInv
  <2> QED
    BY <2>1 DEF RevIInv, RevIdentifiesConfig, revMatches
<1> QED
  BY <1>1, RevInductive, PTL DEF Spec, WritesBuildOnCurrent

-------------------------------------------------------------------------------
(* What is stored, served and applied.  Whenever the accessories lag behind g_config *)
(* something is due that will bring them up, and it carries the current document.    *)

StoredIsServed == loop.act # "Erased" => config = load(nvs)

Due == \/ httpd # Quiet
       \/ pending \in {"Apply", "Restart", "Factory"}
       \/ loop.act \in {"Restart", "Factory", "Erased"}

QueueIsCurrent == pending = "Apply" /\ httpd = Quiet => pendingCfg = config
ApplyIsCurrent == loop.act = "Apply" => Due \/ loop.cfg = config
LagIsDue       == applied = config \/ Due \/ loop.act = "Apply"

LagIInv == TypeOK /\ StoredIsServed /\ QueueIsCurrent /\ ApplyIsCurrent /\ LagIsDue

\* A step that changes none of what the invariant speaks of.
LEMMA LagIdle ==
  ASSUME LagIInv, UNCHANGED <<nvs, config, httpd, pending, pendingCfg, loop, applied>>
  PROVE  StoredIsServed' /\ QueueIsCurrent' /\ ApplyIsCurrent' /\ LagIsDue'
BY DEF LagIInv, StoredIsServed, QueueIsCurrent, ApplyIsCurrent, LagIsDue, Due

\* A step into or inside a handler: what follows it is due.
LEMMA LagHandler ==
  ASSUME LagIInv, httpd' # Quiet, UNCHANGED <<pending, pendingCfg, loop, applied>>,
         loop.act # "Erased" => config' = load(nvs')
  PROVE  StoredIsServed' /\ QueueIsCurrent' /\ ApplyIsCurrent' /\ LagIsDue'
BY DEF LagIInv, StoredIsServed, QueueIsCurrent, ApplyIsCurrent, LagIsDue, Due

LEMMA LagTabs ==
  ASSUME LagIInv, NEW t \in Tabs, TabStep(t)
  PROVE  StoredIsServed' /\ QueueIsCurrent' /\ ApplyIsCurrent' /\ LagIsDue'
<1> USE DEF store, ram, handoff, device, browser, history
<1>1. CASE login(t) \/ unauthorised(t) \/ handleGetConfig(t)
  BY <1>1, LagIdle DEF login, unauthorised, handleGetConfig
<1>2. ASSUME NEW d \in Edits(tab[t].cfg), handlePostConfig(t, d)
      PROVE  StoredIsServed' /\ QueueIsCurrent' /\ ApplyIsCurrent' /\ LagIsDue'
  <2>1. nvs' = d /\ config' = d /\ load(d) = d
    BY <1>2, PostTypes, LoadReturns DEF LagIInv, handlePostConfig, save
  <2>2. httpd' # Quiet /\ UNCHANGED <<pending, pendingCfg, loop, applied>>
    BY <1>2 DEF handlePostConfig, Respond, Quiet
  <2> QED
    BY <2>1, <2>2, LagHandler
<1>3. CASE handleFactoryReset(t) \/ handleRegenOtaPassword(t)
  <2>1. httpd' # Quiet /\ UNCHANGED <<nvs, config, pending, pendingCfg, loop, applied>>
    BY <1>3 DEF handleFactoryReset, handleRegenOtaPassword, Respond, Quiet
  <2> QED
    BY <2>1, LagHandler DEF LagIInv, StoredIsServed
<1> QED
  BY <1>1, <1>2, <1>3 DEF TabStep

LEMMA LagTasks ==
  ASSUME LagIInv, HttpdStep \/ LoopStep \/ crash
  PROVE  StoredIsServed' /\ QueueIsCurrent' /\ ApplyIsCurrent' /\ LagIsDue'
<1> USE DEF store, ram, handoff, device, browser, history
<1>1. ASSUME NEW arrives \in BOOLEAN, sendJson(arrives)
      PROVE  StoredIsServed' /\ QueueIsCurrent' /\ ApplyIsCurrent' /\ LagIsDue'
  <2>1. httpd' # Quiet /\ UNCHANGED <<nvs, config, pending, pendingCfg, loop, applied>>
    BY <1>1 DEF sendJson, Quiet
  <2> QED
    BY <2>1, LagHandler DEF LagIInv, StoredIsServed
<1>2. CASE enqueue
  <2>1. httpd.act \in {"Apply", "Restart", "Factory"}
    BY <1>2 DEF enqueue, LagIInv, TypeOK, Quiet
  <2>2. /\ pending' = httpd.act
        /\ pending' = "Apply" => pendingCfg' = config
        /\ UNCHANGED <<nvs, config, loop, applied>>
    BY <1>2 DEF enqueue
  <2> QED
    BY <2>1, <2>2 DEF LagIInv, StoredIsServed, QueueIsCurrent, ApplyIsCurrent, LagIsDue, Due
<1>3. CASE takePending
  <2>1. /\ loop.act = None /\ pending' = None
        /\ UNCHANGED <<nvs, config, httpd, applied>>
    BY <1>3 DEF takePending, Home
  <2>2. \/ pending = "Apply" /\ loop'.act = "Apply" /\ loop'.cfg = pendingCfg
        \/ loop'.act \in {"Restart", "Factory"}
    BY <1>3 DEF takePending, LagIInv, TypeOK, None
  <2> QED
    BY <2>1, <2>2 DEF LagIInv, StoredIsServed, QueueIsCurrent, ApplyIsCurrent, LagIsDue, Due,
                      None
<1>4. CASE applyConfigChange
  <2>1. /\ loop.act = "Apply" /\ applied' = loop.cfg /\ loop'.act = None
        /\ UNCHANGED <<nvs, config, httpd, pending, pendingCfg>>
    BY <1>4 DEF applyConfigChange, Home
  <2> QED
    BY <2>1 DEF LagIInv, StoredIsServed, QueueIsCurrent, ApplyIsCurrent, LagIsDue, Due, None
<1>5. CASE eraseNvs
  <2>1. loop'.act = "Erased" /\ UNCHANGED <<config, httpd, pending, pendingCfg, applied>>
    BY <1>5 DEF eraseNvs
  <2> QED
    BY <2>1 DEF LagIInv, StoredIsServed, QueueIsCurrent, ApplyIsCurrent, LagIsDue, Due
<1>6. CASE restart \/ crash
  <2>1. /\ config' = load(nvs) /\ applied' = load(nvs) /\ nvs' = nvs
        /\ pending' = None /\ loop'.act = None
    BY <1>6 DEF restart, crash, setup, Home
  <2> QED
    BY <2>1 DEF StoredIsServed, QueueIsCurrent, ApplyIsCurrent, LagIsDue, None
<1> QED
  BY <1>1, <1>2, <1>3, <1>4, <1>5, <1>6 DEF HttpdStep, LoopStep

LEMMA LagInductive == Spec => []LagIInv
<1>1. Init => LagIInv
  <2> SUFFICES ASSUME Init PROVE LagIInv
    OBVIOUS
  <2>1. /\ nvs = NoBlob /\ config = DefaultConfig /\ applied = DefaultConfig
        /\ pending = None /\ loop.act = None
    BY DEF Init, Home
  <2> QED
    BY <2>1, InitTypeOK DEF LagIInv, StoredIsServed, QueueIsCurrent, ApplyIsCurrent,
                            LagIsDue, load, None
<1>2. LagIInv /\ [Next]_vars => LagIInv'
  <2> SUFFICES ASSUME LagIInv, [Next]_vars PROVE LagIInv'
    OBVIOUS
  <2>1. TypeOK'
    BY NextTypeOK DEF LagIInv
  <2>2. CASE UNCHANGED vars
    BY <2>1, <2>2, LagIdle DEF vars, store, ram, handoff, device, LagIInv
  <2> QED
    BY <2>1, <2>2, LagTabs, LagTasks DEF Next, LagIInv
<1> QED
  BY <1>1, <1>2, PTL DEF Spec

\* Except while a factory reset waits for its restart the device serves what it has
\* stored, and once nothing is under way it works with what it serves.
THEOREM StoredServedAppliedCorrect == Spec => []StoredServedApplied
<1>1. LagIInv => StoredServedApplied
  BY DEF LagIInv, StoredServedApplied, StoredIsServed, LagIsDue, Due, Settled, Home, None
<1> QED
  BY <1>1, LagInductive, PTL

\* No restart or power cut loses an accepted write.
THEOREM WritesSurviveRestarts == Spec => RestartKeepsWrites
<1>1. LagIInv /\ [Next]_vars =>
        [boot' # boot /\ loop.act # "Erased" => config' = config /\ applied' = config]_vars
  <2> SUFFICES ASSUME LagIInv, [Next]_vars, boot' # boot, loop.act # "Erased"
               PROVE  config' = config /\ applied' = config
    OBVIOUS
  <2>1. config = load(nvs)
    BY DEF LagIInv, StoredIsServed
  <2>2. CASE restart \/ crash
    BY <2>1, <2>2 DEF restart, crash, setup
  <2>3. ASSUME NEW t \in Tabs PROVE ~TabStep(t)
    BY DEF TabStep, login, unauthorised, handleGetConfig, handlePostConfig,
           handleFactoryReset, handleRegenOtaPassword, history
  <2>4. ~HttpdStep /\ ~takePending /\ ~applyConfigChange /\ ~eraseNvs /\ ~UNCHANGED vars
    BY DEF HttpdStep, sendJson, enqueue, takePending, applyConfigChange, eraseNvs, vars,
           history
  <2> QED
    BY <2>2, <2>3, <2>4 DEF Next, LoopStep
<1> QED
  BY <1>1, LagInductive, PTL DEF Spec, RestartKeepsWrites

-------------------------------------------------------------------------------
(* Device ids.  An id once deleted stays below nextDeviceId, so that no tab of the   *)
(* first boot, whose page is the current document when its write is accepted, can    *)
(* allocate it again.                                                                *)

Spent(g, c)  == \A id \in g : id < c.next /\ id \notin DOMAIN c.devs
IdsAreSpent  == boot = 0 => validate(config) /\ Spent(gone, config)
IdIInv       == RevIInv /\ IdsAreSpent

\* An edit of a document keeps its devices or adds one under a fresh id, and never
\* lowers nextDeviceId; only an import does neither.
LEMMA EditIds ==
  ASSUME NEW c \in Configs, NEW d \in Edits(c), d \notin Imports
  PROVE  /\ c.next <= d.next
         /\ \A id \in DOMAIN d.devs : id \in DOMAIN c.devs \/ id = c.next
<1>1. c = [net |-> c.net, next |-> c.next, devs |-> c.devs] /\ c.next \in Nat
  BY ConfigAssumption DEF Configs, FirstId
<1>2. CASE d \in saveSettings(c)
  BY <1>1, <1>2 DEF saveSettings
<1>3. CASE d \in saveDevice(c)
  <2> PICK id \in DOMAIN c.devs, l \in Labels : d = [c EXCEPT !.devs[id] = l]
    BY <1>3 DEF saveDevice
  <2> QED
    BY <1>1
<1>4. CASE d \in addDevice(c)
  <2> PICK l \in Labels :
        d = [c EXCEPT !.next = c.next + 1,
                      !.devs = [id \in DOMAIN c.devs \cup {c.next} |->
                                  IF id = c.next THEN l ELSE c.devs[id]]]
    BY <1>4 DEF addDevice
  <2> QED
    BY <1>1
<1>5. CASE d \in deleteDevice(c)
  <2> PICK id \in DOMAIN c.devs :
        d = [c EXCEPT !.devs = Restrict(c.devs, DOMAIN c.devs \ {id})]
    BY <1>5 DEF deleteDevice
  <2> QED
    BY <1>1 DEF Restrict
<1> QED
  BY <1>2, <1>3, <1>4, <1>5 DEF Edits, replaceConfig

LEMMA IdPost ==
  ASSUME IdIInv, NEW t \in Tabs, NEW d \in Edits(tab[t].cfg), handlePostConfig(t, d)
  PROVE  IdsAreSpent'
<1> SUFFICES ASSUME boot' = 0 PROVE validate(d) /\ Spent(gone', d)
  BY DEF handlePostConfig, IdsAreSpent, history
<1>1. /\ boot = 0 /\ Loaded(t) /\ tab[t].rev = rev /\ validate(d)
      /\ gone' = IF d \in Imports THEN {} ELSE gone \cup (DOMAIN config.devs \ DOMAIN d.devs)
  BY DEF handlePostConfig, revMatches
<1>2. validate(config) /\ Spent(gone, config) /\ config \in Configs /\ gone \subseteq Nat
  BY <1>1, ConfigAssumption DEF IdIInv, IdsAreSpent, RevIInv, TypeOK, FirstId
<1>3. tab[t].cfg = config
  <2>1. TabOK /\ tab[t].boot <= boot
    BY <1>1 DEF IdIInv, RevIInv, TypeOK, TabOK, PageType, PagesAreOfThePast
  <2>2. tab[t].boot \in Nat
    BY <1>1, <2>1, LoadedIsPage, PagesHave
  <2>3. tab[t].boot = boot
    BY <1>1, <2>1, <2>2
  <2> QED
    BY <1>1, <2>3 DEF IdIInv, RevIInv, RevIdentifiesConfig
<1>4. CASE d \in Imports
  BY <1>1, <1>4 DEF Spent
<1>5. CASE d \notin Imports
  <2>1. /\ config.next <= d.next
        /\ \A id \in DOMAIN d.devs : id \in DOMAIN config.devs \/ id = config.next
    BY <1>2, <1>3, <1>5, EditIds
  <2>2. config.next \in Nat /\ d.next \in Nat /\ DOMAIN config.devs \subseteq Nat
    <3>1. d \in Configs
      BY PostTypes DEF IdIInv, RevIInv
    <3>2. \A c \in Configs : c.next \in Nat /\ c.devs \in Devices
      BY ConfigAssumption DEF Configs, FirstId
    <3>3. DOMAIN config.devs \subseteq FirstId .. MaxId
      BY <1>2, <3>2, DevicesHave
    <3> QED
      BY <1>2, <3>1, <3>2, <3>3, ConfigAssumption DEF FirstId
  <2>3. ASSUME NEW id \in gone' PROVE id < d.next /\ id \notin DOMAIN d.devs
    <3>1. CASE id \in gone
      <4>1. id < config.next /\ id \notin DOMAIN config.devs /\ id \in Nat
        BY <1>2, <3>1 DEF Spent
      <4> QED
        BY <2>1, <2>2, <4>1
    <3>2. CASE id \in DOMAIN config.devs \ DOMAIN d.devs
      <4>1. id < config.next /\ id \in Nat
        BY <1>2, <2>2, <3>2 DEF validate
      <4> QED
        BY <2>1, <2>2, <3>2, <4>1
    <3> QED
      BY <1>1, <1>5, <3>1, <3>2
  <2> QED
    BY <1>1, <2>3 DEF Spent
<1> QED
  BY <1>4, <1>5

LEMMA IdInductive == Spec => []IdIInv
<1>1. Init => IdIInv
  <2> SUFFICES ASSUME Init PROVE IdIInv
    OBVIOUS
  <2>1. config.devs = NoDevices /\ DOMAIN NoDevices = {} /\ gone = {}
    BY DEF Init, DefaultConfig, NoDevices
  <2> QED
    BY <2>1, RevInit DEF IdIInv, IdsAreSpent, validate, Spent
<1>2. IdIInv /\ [Next]_vars => IdIInv'
  <2> SUFFICES ASSUME IdIInv, [Next]_vars PROVE IdIInv'
    OBVIOUS
  <2> USE DEF store, ram, handoff, device, browser, history
  <2>1. RevIInv'
    BY RevNext DEF IdIInv
  <2>2. ASSUME UNCHANGED <<config, boot, gone>> PROVE IdsAreSpent'
    BY <2>2 DEF IdIInv, IdsAreSpent
  <2>3. ASSUME NEW t \in Tabs, TabStep(t) PROVE IdsAreSpent'
    <3>1. ASSUME NEW d \in Edits(tab[t].cfg), handlePostConfig(t, d) PROVE IdsAreSpent'
      BY <3>1, IdPost
    <3>2. CASE \/ login(t) \/ unauthorised(t) \/ handleGetConfig(t)
               \/ handleFactoryReset(t) \/ handleRegenOtaPassword(t)
      BY <2>2, <3>2 DEF login, unauthorised, handleGetConfig, handleFactoryReset,
                        handleRegenOtaPassword
    <3> QED
      BY <2>3, <3>1, <3>2 DEF TabStep
  <2>4. ASSUME restart \/ crash PROVE IdsAreSpent'
    <3>1. boot' = boot + 1 /\ boot \in Nat
      BY <2>4 DEF restart, crash, setup, IdIInv, RevIInv, TypeOK
    <3> QED
      BY <3>1 DEF IdsAreSpent
  <2>5. ASSUME \/ HttpdStep \/ takePending \/ applyConfigChange \/ eraseNvs
               \/ UNCHANGED vars
        PROVE  IdsAreSpent'
    BY <2>2, <2>5 DEF HttpdStep, sendJson, enqueue, takePending, applyConfigChange, eraseNvs,
                      vars
  <2> QED
    BY <2>1, <2>3, <2>4, <2>5 DEF Next, LoopStep, IdIInv
<1> QED
  BY <1>1, <1>2, PTL DEF Spec

\* The id of a deleted device is never given to another, whichever tabs of the first
\* boot add and delete and whichever responses are lost, except by a file the user
\* imports: nextDeviceId only grows (data.js:139), and the rev guard keeps a tab from
\* allocating out of an older document.
THEOREM IdsStaySpent == Spec => []IdNeverReusedInBoot
<1>1. IdIInv => IdNeverReusedInBoot
  BY DEF IdIInv, IdsAreSpent, Spent, IdNeverReusedInBoot
<1> QED
  BY <1>1, IdInductive, PTL
===============================================================================
