# A verification model of the RF-IR Blaster firmware

The firmware bridges infrared and radio remotes to Apple HomeKit. A user teaches it codes
through a web page, assigns them to devices, and each device becomes a HomeKit tile whose
presses are sent as stored codes. This directory holds TLA+ modules of its control logic, TLC
configurations that check them on small instances, and proofs TLAPS checks. Paths below are
those of the repository; `web_config_api.cpp:388` is a line of `src/web_config_api.cpp`.

## The system

Three threads of control touch shared state: the **httpd task** (one request handler at a
time), the **loop task** (`loop()` in `main.cpp`: HomeSpan, live changes, learning, repeats,
recovery, LED) and the RMT **receive interrupt**. Browsers are further actors. State crosses
between httpd and loop in two places of `web_config_api.cpp` only, each under a lock that is
not held while the work is done.

| component | state | operations | what is hard | correct when |
|---|---|---|---|---|
| Learn handoff (`web_config_api.cpp`, `learn.cpp`, receivers in `ir.cpp`, `radios.cpp`) | phase, last code and reason; session, receivers held, frame flags | start, poll, cancel requests; arm, poll, publish on the loop task; interrupt | requests between the read of the phase and the publish; bands that do not arm; a clock that wraps | results belong to the current session; a cancel is honoured; receivers are given back; every session ends |
| Learn machine (`lib/learn/learn_machine.cpp`) | presses, clusters, counts per receiver; verdict | begin, cancel, feedBurst, tick, takeCode | a full table, eviction and slot reuse, matching that is not transitive | captures and rolling verdicts are earned by what was heard |
| Configuration API (`web_config_api.cpp`, `config_codec.cpp`, `data.js`) | stored blob, served copy, revision, one pending action, pages in the tabs | GET, POST, factory reset, OTA password; apply or restart | two tabs, lost responses, power cuts, requests during a restart | no silent overwrite; stored, served and applied agree; ids are fresh; announced actions happen |
| Accessories and sends (`accessory_builder.cpp`, `accessory_plan.cpp`) | tiles, their names, pending repeats | build, live change, press, rename, repeats | presses and edits while repeats run; sends that block others; clock wrap; sends refused by a learn | tiles follow the configuration; one sequence per accessory; repeats are current and keep their delay, as far as sends that block allow |
| Learn dialog (`learn.js`, `data.js`) | dialog step, token, one polling flag, loops under way | open, arm, poll, close, save | loops that outlive a cancel; answers that overtake each other; two tabs on one session | what a dialog shows and saves was published after it asked |
| Boot recovery and LED (`recovery.cpp`, `boot_recovery.cpp`, `ui.cpp`) | boot counter and safe-mode request in NVS, safe mode, button hold; LED state, remembered status | begin, poll; render | power cuts between commits; holds timed by polls; an OTA status that is never cleared | safe mode comes when it is due and only then; the LED tells it; an erase is announced, unless the loop was blocked |
| Onboarding portal (`onboarding.cpp`, `onboard.js`) | verify and finish jobs, their inputs and outcomes; the pages' steps; NVS | verify, poll, finish, reboot; applyVerify, applyFinish | a request the page gave up; drops and retries; inputs overwritten; partial persistence | what a finished page shows is what is stored, and stays so |
| Authentication (`web_auth.cpp`, `auth_store.cpp`, `lib/runtime`) | session secret, password and nonce in NVS; jar, cached tokens; lockout table | csrf, login, setup, logout, protected writes; allowed, failed, succeeded | one cookie jar for several tabs; retries; a full table; a clock that wraps | one nonce buys one password; a page alone is never refused; a lockout is earned and lasts |
| Pulse capture and de-clipping (`radios.cpp`, `ir.cpp`, `frame_merge.cpp`, `signal_match.cpp`, `rmt_pulse.h`) | receive buffers | pollRFBurst, pollIRBurst, declipBurst, transmitOOK | clipped, cut and noisy copies; buffers that end inside a frame; durations wider than a field | the frame the remote sent is what is compared, stored and sent again |
| Web server, request policy, client key, codec | little or none | functions of one request or blob | boundary values | they agree with a reference definition |

Not components of their own: the pages (DOM rendering), certificates (loaded or generated once
at start), mbedTLS wrappers, the vendored QR encoder, the asset embedder, the enclosure model.

## The modules

Twelve modules specify, `MC...` give them instances, `...Proofs` hold theorems (`AuthProofs` those
about `SignIn` and `Throttle`, `LearnMachineProofs` also those about `Pulses` and `PulseCapture`).
How they compose:

- `LearnService` is the abstract learn service: phases, sessions, answers. `LearnSession`, the
  firmware side, is shown to implement it (`Service == INSTANCE LearnService WITH ...`; TLC checks
  it with the fairness, TLAPS proves the steps). `LearnUi`, the browser side, extends it, so its
  dialogs run over exactly what the firmware was shown to provide.
- What bursts contain is a choice in `LearnSession`, decided in `LearnMachine`; which bands a learn
  holds is a choice in `Accessories`, decided in `LearnSession`.
- `Pulses` and `PulseCapture` precede `LearnMachine`: they make the pulse trains it compares and the
  relations it takes as constants. `MCLearnMachine` puts them together.
- `SignIn` takes the outcome of the password check as a choice; who may try at all is in `Throttle`.
  `ConfigApi` takes a login as one step, whose tokens are in `SignIn`.
- `Onboarding` goes on into the boot on the home network as far as the nonce goes, which is where
  `SignIn` starts. `BootRecovery` has the restarts that precede every other module's initial state.

In every module an operator named `Bug...` stands before a definition as a plausible mistake in it;
substituting one for the other makes the property paired with it in `PROJECT.json` fail.

**LearnSession.** Handlers are single steps, since each holds the lock throughout. A pass of
`pollLearnApi` is two or three: the locked read (`readPhase`), the work outside the lock
(`startLearn`, `cancelLearn`, `pollLearn`) and the locked publish; `pc` says which is next.
`armed` are the bands whose RX channel exists. `session`, `asked`, the request counts and `heardIn`
(the sessions the waiting frames were heard in) are history. The try-lock that skips a pass is a stuttering step. One unit of the clock is a share
of the 30 s window, so a pass moves it by at most one.

**LearnMachine.** A burst is a payload; `Near` is `burstsMatch`, `Alike` `structurallyAlike`, both
reflexive and symmetric but not transitive. Timing is the choice whether a burst opens a press.
`feedBurst` is one action with the whole of the handler: press, slot, eviction, counts, marks,
verdict. `log` is history: the properties compare the machine's counts with it.

**Pulses** are the functions of `signal_match.cpp` and `frame_merge.cpp` on one burst. **PulseCapture**
adds those around them, from a receive buffer of halves (a level and how long it lasted) to a train
and from a stored code to what goes on the air; both have no state. Three statements about them
(`FrameRecovered`, `ReplayIsRecognised`, `EnvelopeIsTrue`) take what was sent as a parameter, and
`MCLearnMachine` has TLC evaluate them on every small burst, as assumptions of its instance.

**ConfigApi.** A configuration is one network setting, `nextDeviceId` and a label per device. A
handler that changes state takes three steps (change; response, which may be lost; hand-over), so
the loop task and a power cut come between. A tab holds the document and revision it loaded and
sends that document with one edit, as `data.js` does. A reboot redraws the session secret; a login
in one tab renews the cookie of all. `gone` and `wiping` are history; `gone` are the ids that left
the document in this boot, and an import empties it, since it brings its own ids.
The NVS commit is atomic (`nvs_blob_store.cpp:45-48`), and after `nvs_flash_erase` a save fails.

**Accessories.** Everything runs on the loop task, so every call is one step, but for
`pollPendingSends`: it reads the clock (`now`) and so fixes what is due (`todo`), and `sendDue` is one
turn of its loop. Sends and the rest of a pass take time (`spent` since the reading). A first send
schedules its repeat from the end of the send (`accessory_builder.cpp:98`), a repeat the next from the
reading (`:308`). How long ago a sequence's last send was over (`age`) and how long after the reading
that was (`lag`) are history. The order of `g_pending` is left out: a pass comes to what is due in any
order. `Switch` stands for the four services with a power characteristic. `applyConfigChange`
computes the plan from the last configuration, as the code does, and not from the tiles.

**LearnUi.** A page is single-threaded, so a click, a timer or an answer is one step. `calls[k]` is
the k-th `startLearn()` with its poll loop (`at` says where it is); `seq` is the token of `learn.js`,
`polling` the one flag `learnPolling`. Start and cancel are delivered, answered and lost one by one.
`dialog.asked` (the outcome published last when the dialog asked) and `dialog.alone` are history.

**BootRecovery.** `begin()` is three steps, one per NVS commit (`begin`, `consume`, `apply`), and
`hardReset` may strike at each. `tick` lets time pass, in a pass that blocks or between two, without a
limit: `gap` tells how long since the last poll, and `MaxGap` is only where it stops counting. `poll`
is the whole of `recovery::poll` and `updateUI`. `counted` and `asked` are history: which boots and presses
have earned safe mode. "setup" stands for every HomeSpan status that is not healthy; their colours,
and green and off, are one each.

**Onboarding.** One httpd task: a finish keeps it (`httpd`) until the job is done, failed or 12 s
are over (`late`). `run`, `takeVerify`, `applyVerify`, `takeFinish`, `storePair`, `storeNonce`,
`storeSetup`, `applyFinish` are the loop task between two commits or sections of the lock. `tested`
and `mixed` are history: what a verify has connected with, and whether verifies were lost or met.

**SignIn.** The device keeps no sessions, so `live` is which cookies verify: those of this boot that
have not expired. A token is an id, the boot and the session it is bound to. A request is served
in one step with the cookies of that moment; its answer arrives later and only then changes the jar.
First setup is two steps, the password record and the erasure of the nonce. `shared` is history:
the tabs whose jar or device changed under them since they were loaded.

**Throttle.** `handleLogin` (`attempt`) reads the clock once, so an attempt is one step: allowed, then failed or
succeeded. The table, the choice of the entry to evict and the comparisons on the wrapping clock
are as in the code; `streak` is history.

## The runs

| run | instance | shows |
|---|---|---|
| `learn_session` | 2 bands, window 2 of a clock of 5, 3 starts, 2 cancels | results, cancels and receivers follow the session; `LearnService` is implemented, with its fairness; a window that ends before the wrap closes |
| `learn_machine` | 4 pulse trains a~b~c, 2 tracks, 2 clusters, 3 groups, 5 bursts | captures, rolling and noisy verdicts are earned; the press book survives eviction; and, evaluated first: frames are recovered, replays recognised, envelopes true |
| `learn_ui` | 2 learns of a page, 1 request of another tab, 1 failed fetch | no dialog shows a left-over outcome; one whose loop is alone shows its own in the end |
| `config_api` | 2 tabs, ids 2-3, 3 accepted requests, an import, 1 power cut | the revision guard compares documents; stored, served and applied agree; ids are fresh |
| `accessories` | 2 devices, 5 configurations, delay up to 2, sends up to 1, passes up to 2 on a clock of 8 | tiles and names follow edits; repeats are current and keep their rhythm; every sequence ends |
| `boot_recovery` | 3 boots, stable run 4, holds 2 and 4, polls any time apart (counted to 4) | safe mode is earned and given; the LED tells it; an erase is announced unless the pass before it blocked |
| `onboarding` | 2 pages, 2 networks, 2 codes, 4 requests, 2 reloads or cuts | what a finished page shows is stored; its nonce stands |
| `sign_in` | 2 tabs, 4 loads, 5 tokens, 2 sessions, 2 boots | the nonce buys one password; a page alone is never refused |
| `throttle` | 3 clients, 2 entries, 2 failures, lockout 2 of a clock of 6 | lockouts are earned and survive other clients |

Three runs each refute one sentence of the repository and are written up under `findings` in
`PROJECT.json`:

- `config_promise`: an answered factory reset or restart is overwritten in the one-slot handoff.
- `learn_ui_hang`: a dialog closed and opened again within 400 ms waits for ever, its outcome taken
  by the cancelled loop (`data.js:192`).
- `sign_in_logout`: a sign-out whose token another tab has replaced is refused and not retried, and
  the session stays in the browser (`data.js:181`).

Other places where the code departs from what is said of it came up while modelling. The models
follow the code in each, and no run is spent on them: a start that arrives during `cancelLearn()` is
overwritten (`web_config_api.cpp:388`; in `LearnService` that is `idle`); a session begun in the last
30 s before `millis()` wraps has no deadline (`learn_machine.cpp:24`); eviction forgets that a payload
repeated across presses (`learn_machine.cpp:188`); a tie between one-off clusters evicts the remote's
own (`learn_machine.cpp:127`); revisions restart at 1, so a page from before a reboot can overwrite
(`web_config_api.cpp:310`); an imported older file brings a deleted id back (`config_validate.cpp:78`
checks ids against the file's own `nextDeviceId` only); a television gets its remote or speaker
only at the next restart (`accessory_builder.cpp:284`); a boot that dies before `recovery::begin()` is
not counted (`main.cpp:48`); a tap that is followed by a pass of more than 10 s erases the device
although nothing was on the LED (`recovery.cpp:87`, against the hold-to-erase and its announcement that
`README.md:111` and `ui.h:5-6` describe; `FactoryResetIsAnnounced` names that case); a repeat sent late
in a pass is followed sooner than its delay, which counts from before the sends that held it up
(`accessory_builder.cpp:308`; `SendsKeepRhythm` says by how much); a lockout near the wrap of
`millis()` is cut short, or comes back until the clock has come round (`login_throttle.cpp:51`); after a lost or overlapped verify a page may accept the verdict on
another's credentials (`onboarding.cpp:367`, `onboard.js:183`; `DoneIsTrue` excepts that case by
`mixed`); the sign-in page says "Wrong password." of a refused token (`login.js:47`); a write refused
twice resolves as saved (`data.js:64`).

### Why the bounds are enough

*Learn session*: two starts make the phase pass from one session to another, the third restarts a
session being armed, and two cancels hit both; the clock wraps in and out of a window of 2. Two
bands because IR alone cannot produce the rolling verdict. *Learn machine*: with two clusters the
third distinct payload evicts; three groups and five bursts reach the group limit and reuse of a
slot. Two presses stand for the code's three in the rolling verdict (`RollingPressesNeeded`) so
that two clusters can show it. The member limit is 3 for 250. *Pulse capture*: three frames of
three and five pulses in every clipping, cut at either end and with noise, three stretches to a
burst, so that a wrong length can win, lose or tie the vote; gaps on both sides of the least that is
stored, all wider than a symbol's field, and more repeats than the buffer takes; IR trains that end
on a mark, on a space and past the buffer's end. Durations are in units, thresholds keep their
order. *Learn dialog*: two calls are a loop
and its successor; one other request and one failed fetch put something between any two of their
steps. *Configuration API*: a lost response, a stale tab, a write of the other tab and a restart fit
in three requests and one power cut. *Accessories*: the five configurations change a service, a
name, a command's delay and count, remove a device and make its service unknown; counts 1-3 give
sequences that end at once, once and twice later; a send takes none or one unit and a pass has room
for two, so that the second of two due in one pass is held up by the first. Half the clock exceeds
the longest pass as in the code, where the watchdog allows 60 s and half the clock is 24 days.
*Boot recovery* has no bound but its saturating counters: the counter passes its threshold by two
before it saturates, and the time since a poll by two what the holds are apart. *Onboarding*: four
requests are a verify and a finish of each page, or one page twice; two resets are a reload and a
power cut, or two cuts of one finish. *Sign-in*: two tabs each load a form and what follows it; five
tokens let both draw one, lose it to the other and draw again. *Throttle*: the third client meets a
full table; one unlocked entry remains in some states and none in others; the lockout spans the wrap.

The bounds on requests, loads and failures let four systems stop: deadlock is not checked in the
runs of `LearnUi`, `ConfigApi`, `Onboarding` and `SignIn`, and is in the other passing runs.

## Fairness

`loop()` never returns for good, so the loop task's steps are weakly fair; real time advances
between its passes, hence strong fairness of the pass that moves the clock in `LearnSession` and
in `Accessories`, where the loop of `pollPendingSends` also gets to each sequence that is due. The httpd task finishes a handler it has begun. No start,
cancel, frame, press or power cut is ever promised.

`LearnService` asks only that a request does not stay unserved (weak fairness of `listen` and `idle`
together), which `LearnSession` is shown to give. `LearnUi` adds that a session listened for is
answered, which is the closing of the capture window (`WindowClosesBeforeWrap`; it fails for the one
session in 49 days the wrap meets), and that the browser runs its timers and requests arrive or fail
(weak fairness of each call's steps). Users are not fair, and fetches may fail.

`ServiceIsImplemented`, `WindowClosesBeforeWrap`, `OutcomeIsShown`, `AppliedCatchesUp` and
`SequencesEnd` rest on this. The other modules state safety only and have no fairness: their steps
end in what a user or a power cut does next.

## The proofs

For every value of the constants, from the assumptions named in the modules:

- `LearnSessionProofs`: `TypeOK`, `ResultIsCurrent`, `CancelHonoured`, `RadiosFollowSession`. The
  inductive invariant adds what ties the program counter to the phase and the driver: a request
  may change the phase at any place, so what holds at a publish is that *if* the phase still asks
  for it then nothing came between (`PhaseFitsPlace`, `PhaseFitsRequest`, `DriverFitsPlace`).
  `ImplementsService` proves the refinement: under the mapping every step is a step of
  `LearnService` or a stutter. It adds that sessions never outnumber the accepted starts.
- `ConfigApiProofs`: `TypeOK`, `RevIdentifiesConfig`, `WritesBuildOnCurrent`,
  `StoredServedApplied`, `RestartKeepsWrites`, `IdNeverReusedInBoot`. `RevIInv` says of tabs of this boot that their
  revision is not ahead and, when current, comes with the current document; `LagIInv` that
  whenever the applied document is behind, an action that will replace it is under way, in the
  handler, in the slot or on the loop task. `IdIInv` adds that an id that left the document in this
  boot is below `nextDeviceId` (`IdsAreSpent`), which only grows along edits of the current document.
- `AccessoriesProofs`: `TypeOK`, `SequencesAreCurrent`, `TilesFollowConfig`, `SendsKeepRhythm`,
  `LabelsFollowEdits`, and that no accessory has two sequences. The invariant adds that sequences
  belong to tiles, that after a first send nothing was lost to a lag (`FirstHasNoLag`), and that while
  a sequence has waited less than its delay, the rest of the delay is the way from the clock to its
  due time (`DueFits`), so it is not among those a pass sends (`TodoFits`). That what is still ahead is
  not due (`AheadIsNotDue`) is arithmetic modulo the clock, more than twice the longest delay and pass
  (`AccessoriesAssumption`; in the code 32 bits against MAX_REPEAT_DELAY_MS and the watchdog's 60 s).
- `LearnUiProofs`: that the service answers a session once; that every page step is a step of the
  service; `TypeOK` and `ShownWasAskedFor`. The invariant follows an outcome to the dialog
  (`OutcomeIsLater`): once a dialog's start was accepted, whatever can be published is of a session
  that began since, so the poll that was sent after it cannot bring anything older.
- `BootRecoveryProofs`: `TypeOK`, `SafeModeIsEarned`, `LedTellsSafeMode`, `FactoryResetIsAnnounced`.
  The stored counter is the boots counted wherever the power fails (`CountIsCounted`), a running
  device has no safe mode due (`NothingDue`), a stored request was asked for (`RequestIsAsked`); a
  hold that was long enough at the last poll is on the LED (`HoldIsShown`), so an erase that was not
  announced owes more than the distance of the two holds to the last pass. Nothing is assumed about
  how far apart polls are; `RecoveryAssumption` only lets `MaxGap` count that far.
- `OnboardingProofs`: `TypeOK`, `NonceStands`, `DoneIsTrue`. Unless one timed out, the finish the loop
  task is at is the one being served (`JobIsServed`), so the code it stores piece by piece is the
  page's (`CodeFollows`); a nonce handed out is the stored one until a password is set
  (`NonceFollows`); without lost or overlapping verifies the verdict is on the page's credentials
  (`VerdictFollows`).
- `LearnMachineProofs`: all five properties of the machine. The machine decides from bounded tables,
  the properties speak of everything that was heard; the invariant (`TrackInv`, per receiver) is what
  a table still says of the history: presses are numbered without a hole and the first `MaxGroups`
  have a group (`PressesNumbered`), a cluster's counts are backed by as many bursts and presses
  (`CountBacked`), a clean group heard its cluster and nothing else, and none names a slot not in use
  (`GroupTrue`), which is what eviction must restore, and no two clusters match. Induction over the
  history is not needed: a burst adds one entry to it, and cardinalities grow with it.
  For trains of any length it also proves that burst matching is reflexive and symmetric, as
  `MachineAssumption` asks (`TrainsMatchAsAssumed`); that de-clipping yields a frame
  (`DeclippedIsAFrame`); that, from a burst whose frames of one length win the vote and are clipped
  copies of a frame, each slot unclipped in one of them, exactly that frame comes out
  (`ClippedFrameIsRecovered`); that an RF buffer of alternating levels, however it begins and
  wherever it is cut, becomes pulses from a mark to a mark (`BurstsEndOnMarks`), whose code meets the
  limits `validateConfig` sets (`CapturedCodeIsStorable`); and that a duration wider than a symbol's
  field is sent whole (`LongHalvesAreSplit`). What needs induction over a buffer here is had from
  the least position where it would fail (`LeastNatural`).
- `AuthProofs`, sign-in: `TypeOK`, `OneNonceOnePassword`, `RefusedOnlyIfShared`. The invariant says what an
  undisturbed page holds (`Undisturbed`): its token, kept or under way, matches the cookie, the boot
  and the session, and its form pages belong to a browser that is not signed in.
- `AuthProofs`, throttle: `ThrottleTypeOK`, `LockoutIsEarned`, `LockoutSurvives`. A client has one
  entry, whose failures never exceed its streak unless the streak has reached its cap, `MaxFailures`;
  what is evicted is never locked while an unlocked entry is left.

Only model-checked: the five liveness properties (the prover has no rule for fairness; of
`ServiceIsImplemented` the safety part is proved) and, of pulse capture, `ReplayIsRecognised` and
`EnvelopeIsTrue`: the packer and the envelope fold over a buffer, and what a fold computes for every
buffer is an induction over data.

## Not modelled

- The web server's listeners, redirect and security headers, the request policy and the client key
  are functions of one request, which the repository's unit tests cover case by case.
- The configuration document: the JSON text is formatting; of the codec `ConfigApi` keeps that a
  blob is absent or decodes to what was saved. `config_mutate` is compiled for the host tests only.
- Of pulse capture: the carrier estimate, the averages over the bursts of a cluster, `wellFormed`
  (an ill-formed burst is `Malformed` in `LearnMachine`), and durations past 65535, which are cut.
- Certificates are loaded or generated once at start.
- Of the learn dialog: a `close()` that runs late, after a save in a dialog since replaced, also clears
  `active` (`learn.js:93`), and another dialog may then be opened over the one shown.
- Of the portal: the network scan, the captive redirect, the checks of form fields, and writes of the
  nonce or the setup code that fail and are ignored (`onboarding.cpp:392-394`). Of
  authentication: hashing, encodings, cookie attributes, and `refreshSession` and the button window
  of setup, which have no caller. Of boot recovery: a namespace that does not open (`g_ok` false),
  which only disables the counter, and the four settings safe mode replaces.

What would come next are reference definitions for the codec's migration and for the request
policy over bounded inputs.

Left out for good: register-level radio and RMT code, mbedTLS, HomeSpan, the QR encoder, DOM
rendering, and the JSON text. `LearnMachine` leaves out the averaged pulse lengths, gaps and frame
counts a capture stores. `Accessories` leaves out the power and position a tile shows. Two
behaviours are modelled as they are without a property: writing a tile's name in the Home app
sends its power command (`accessory_builder.cpp:140`; a television looks at what was written), and
a press whose first repeat meets a learn loses the rest (`accessory_builder.cpp:305`, whose comment
only speaks of a vanished command).
