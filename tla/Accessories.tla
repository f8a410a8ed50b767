------------------------------ MODULE Accessories ------------------------------
(***************************************************************************)
(* The HomeKit accessories and the commands they send,                     *)
(* src/accessory_builder.cpp with lib/config/accessory_plan.cpp: the tiles *)
(* built from a configuration and kept in step with it by live changes, the *)
(* presses HomeKit delivers to them, and the timed repeats of a command.   *)
(*                                                                         *)
(* Everything here runs on the loop task, one call after another, so each  *)
(* call is one step, except pollPendingSends: it reads the clock once and  *)
(* then sends what is due one by one.  A send blocks and takes time, and   *)
(* so does the rest of a pass of loop().                                   *)
(*                                                                         *)
(* A device keeps its service, its name and its commands.  Devices have    *)
(* distinct ids and a learned code, a valid band and repeat count          *)
(* (config::validate), so a configuration is a function and the clamps of  *)
(* transmit() never act.  The order of a device's commands, which          *)
(* commandsEqual looks at too, is left out, and so are the power and       *)
(* position values the tiles show.  So is the order of g_pending: a pass   *)
(* comes to what is due in any order.                                      *)
(*                                                                         *)
(* An operator named Bug... is a plausible mistake in the definition that  *)
(* follows it, kept to show that the properties reject it.                 *)
(***************************************************************************)
EXTENDS Naturals

CONSTANTS
  Aids,        (* device ids, which are HomeKit accessory ids                *)
  Labels,      (* device names                                               *)
  Codes, Unlearned,
  Bands,       (* IR, 315 MHz, 433 MHz                                       *)
  BandOf,      (* the band each code is sent on                              *)
  Configs,     (* the configurations a device may be given                   *)
  MaxDelay,    (* MAX_REPEAT_DELAY_MS, in clock units                        *)
  MaxSend,     (* the longest a send takes                                   *)
  MaxPass,     (* the longest loop() may block: the watchdog restarts then   *)
  ClockMod     (* millis() is a 32-bit counter: it wraps to 0 at ClockMod    *)

Types  == {"Switch", "WindowCovering", "Television", "Unknown"}
Keys   == {"key_up", "key_select"}
Volume == {"volume_up", "volume_down"}
CommandNames == {"on", "off", "toggle", "up", "down", "stop"} \cup Keys \cup Volume

Slot == [code : Codes \cup {Unlearned}, count : Nat \ {0}, delay : 0 .. MaxDelay]

ASSUME AccessoriesAssumption ==
  /\ Unlearned \notin Codes
  /\ BandOf \in [Codes -> Bands]
  /\ MaxDelay \in Nat /\ ClockMod \in Nat /\ 2 * MaxDelay < ClockMod
  /\ MaxSend \in Nat /\ MaxPass \in Nat /\ 2 * (MaxPass + 1) < ClockMod

ASSUME ConfigsAssumption ==
  \A cfg \in Configs :
    /\ DOMAIN cfg \subseteq Aids
    /\ \A a \in DOMAIN cfg :
         /\ cfg[a].type \in Types /\ cfg[a].name \in Labels
         /\ DOMAIN cfg[a].cmds \subseteq CommandNames
         /\ \A n \in DOMAIN cfg[a].cmds : cfg[a].cmds[n] \in Slot

VARIABLES
  config,   (* g_config                                                      *)
  tiles,    (* the accessories HomeSpan holds, by aid                        *)
  named,    (* the aids of g_names                                           *)
  pending,  (* g_pending, with two history fields: age, the time since the last
               send of a sequence was over, counted up to MaxDelay, and lag, how
               long after the reading that its due time counts from that was   *)
  held,     (* the bands a learn holds the receiver of                       *)
  now,      (* millis() as pollPendingSends read it last                     *)
  spent,    (* the time since                                                *)
  todo,     (* the accessories a pass has found due and not come to yet      *)
  air       (* history: the sends of the last step                           *)

time == <<now, spent, todo>>
vars == <<config, tiles, named, pending, held, time, air>>

-------------------------------------------------------------------------------
(* The plan. *)

isLearned(slot) == slot.code # Unlearned

\* The devices that become accessories: an unknown service is skipped.
planAccessories(cfg) == {a \in DOMAIN cfg : cfg[a].type # "Unknown"}

commandsEqual(d, e) ==
  /\ DOMAIN d.cmds = DOMAIN e.cmds
  /\ \A n \in DOMAIN d.cmds : isLearned(d.cmds[n]) <=> isLearned(e.cmds[n])

BugAnyService(old, new) == planAccessories(old) \cap planAccessories(new)

\* The accessories that stay what they are.
kept(old, new) == {a \in planAccessories(old) \cap planAccessories(new) :
                     old[a].type = new[a].type}

\* diffPlans.  A service cannot be morphed in place: a new type is remove and add.
toRemove(old, new) == planAccessories(old) \ kept(old, new)
toAdd(old, new)    == planAccessories(new) \ kept(old, new)
toUpdate(old, new) == {a \in kept(old, new) : \/ old[a].name # new[a].name
                                              \/ ~commandsEqual(old[a], new[a])}

-------------------------------------------------------------------------------
(* The tiles. *)

\* The services of a tile are fixed when it is built: a television gets its remote
\* and its speaker only if it has such commands then.
createAccessory(dev) ==
  [type    |-> dev.type,
   label   |-> dev.name,
   remote  |-> dev.type = "Television" /\ DOMAIN dev.cmds \cap Keys # {},
   speaker |-> dev.type = "Television" /\ DOMAIN dev.cmds \cap Volume # {}]

buildAccessories(cfg) ==
  /\ config' = cfg
  /\ tiles'  = [a \in planAccessories(cfg) |-> createAccessory(cfg[a])]
  /\ named'  = planAccessories(cfg)

\* Tiles that go are removed, tiles that come are built, and the name of one that stays
\* is set through g_names when the plan has something new to say of it.
changeTiles(cfg) ==
  tiles' = [a \in (DOMAIN tiles \ toRemove(config, cfg)) \cup toAdd(config, cfg) |->
              IF a \in toAdd(config, cfg) THEN createAccessory(cfg[a])
              ELSE IF a \in toUpdate(config, cfg) \cap named
              THEN [tiles[a] EXCEPT !.label = cfg[a].name]
              ELSE tiles[a]]

BugSequencesKept(cfg) ==
  /\ todo = {}
  /\ changeTiles(cfg)
  /\ named' = (named \ toRemove(config, cfg)) \cup toAdd(config, cfg)
  /\ config' = cfg
  /\ air' = {}
  /\ UNCHANGED <<pending, held, time>>

BugEraseAfterAdd(cfg) ==
  /\ todo = {}
  /\ changeTiles(cfg)
  /\ named' = (named \cup toAdd(config, cfg)) \ toRemove(config, cfg)
  /\ config' = cfg
  /\ pending' = {} /\ air' = {}
  /\ UNCHANGED <<held, time>>

\* A live change.  It abandons every sequence in flight.
applyConfigChange(cfg) ==
  /\ todo = {}
  /\ changeTiles(cfg)
  /\ named' = (named \ toRemove(config, cfg)) \cup toAdd(config, cfg)
  /\ config' = cfg
  /\ pending' = {} /\ air' = {}
  /\ UNCHANGED <<held, time>>

\* setup() after a restart, at any step, with the configuration that was stored.
reboot ==
  /\ buildAccessories(config)
  /\ pending' = {} /\ held' = {} /\ now' = 0 /\ spent' = 0 /\ todo' = {} /\ air' = {}

-------------------------------------------------------------------------------
(* Sending. *)

\* resolveSlot finds a learned code.
resolves(aid, name) ==
  /\ aid \in DOMAIN config
  /\ name \in DOMAIN config[aid].cmds
  /\ isLearned(config[aid].cmds[name])

slotOf(aid, name) == config[aid].cmds[name]

\* fireCode: sendIR and sendRFCode refuse a band whose receiver a learn holds, and the
\* driver may fail (works says whether it does).
fireCode(aid, name, works) ==
  /\ resolves(aid, name)
  /\ BandOf[slotOf(aid, name).code] \notin held
  /\ works

aidBusy(aid) == \E p \in pending : p.aid = aid

Least(x, y) == IF x < y THEN x ELSE y

\* The time t passes: the last send of every sequence is that much longer ago.
aged(seqs, t) == {[p EXCEPT !.age = Least(@ + t, MaxDelay)] : p \in seqs}

\* A send, with the number of sends still due when it was made, itself included, the
\* silence since the one before it was over, and the lag of that one.
Send(aid, name, left, silence, lag) ==
  [aid |-> aid, name |-> name, left |-> left, silence |-> silence, lag |-> lag]

BugWideDue(aid, name, len) ==
  LET slot == slotOf(aid, name)
  IN  /\ air' = {Send(aid, name, slot.count, 0, 0)}
      /\ pending' = aged(pending, len) \cup
           (IF slot.count = 1 THEN {}
            ELSE {[aid |-> aid, name |-> name, left |-> slot.count - 1, delay |-> slot.delay,
                   due |-> now + spent + len + slot.delay, age |-> 0, lag |-> 0]})
      /\ spent' = spent + len
      /\ UNCHANGED <<config, named, held, now, todo>>

\* One call of transmit() that sends: the first send, which takes len, and the rest
\* scheduled from the reading of the clock after it.
transmit(aid, name, len) ==
  LET slot == slotOf(aid, name)
  IN  /\ air' = {Send(aid, name, slot.count, 0, 0)}
      /\ pending' = aged(pending, len) \cup
           (IF slot.count = 1 THEN {}
            ELSE {[aid |-> aid, name |-> name, left |-> slot.count - 1, delay |-> slot.delay,
                   due |-> (now + spent + len + slot.delay) % ClockMod, age |-> 0, lag |-> 0]})
      /\ spent' = spent + len
      /\ UNCHANGED <<config, named, held, now, todo>>

\* What an update() of a tile may try, in order: the power of a switch, outlet, light,
\* fan or television falls back on a toggle; a covering has one command for each third
\* of its range; a key or the volume of a television has its own.
Power == {<<"on", "toggle">>, <<"off", "toggle">>}
Tries(tile) ==
  CASE tile.type = "Switch"         -> Power
    [] tile.type = "WindowCovering" -> {<<"up">>, <<"down">>, <<"stop">>}
    [] OTHER -> Power \cup {<<k>> : k \in (IF tile.remote THEN Keys ELSE {})
                                          \cup (IF tile.speaker THEN Volume ELSE {})}

\* A command is sent when it is learned, its accessory has no sequence under way and its
\* band is free; those before it in the list were refused, as the driver may do to any.
\* Only the sends change anything: a press refused, or accepted and dropped, is a
\* stuttering step.
update(aid, tries, len) ==
  /\ todo = {} /\ spent + len <= MaxPass
  /\ aid \in DOMAIN tiles /\ tries \in Tries(tiles[aid])
  /\ \E i \in DOMAIN tries :
       /\ fireCode(aid, tries[i], TRUE)
       /\ ~aidBusy(aid)
       /\ transmit(aid, tries[i], len)

press(aid, tries, len) == update(aid, tries, len) /\ UNCHANGED tiles

\* The name of a tile is written from the Home app.  The update() of every tile but a
\* television's does not look at what was written: it sends as for a press, and refuses
\* the name when that fails.
rename(aid, label, tries, len) ==
  /\ todo = {} /\ aid \in DOMAIN tiles
  /\ tiles' = [tiles EXCEPT ![aid].label = label]
  /\ \/ /\ tiles[aid].type # "Television"
        /\ update(aid, tries, len)
     \/ /\ \/ tiles[aid].type = "Television"
           \/ tries \in Tries(tiles[aid]) /\ aidBusy(aid) /\ \E i \in DOMAIN tries :
                resolves(aid, tries[i])
        /\ air' = {}
        /\ UNCHANGED <<config, named, pending, held, time>>

BugUnsignedDue(p, t) == t >= p.due

\* The difference of two readings of a wrapping clock, taken as a signed number.
isDue(p, t) == (t + ClockMod - p.due) % ClockMod < ClockMod \div 2

\* pollPendingSends reads the clock, d units of time after what came before it.  What is
\* due is decided by this reading alone.
pollPendingSends(d) ==
  /\ todo = {}
  /\ now' = (now + spent + d) % ClockMod
  /\ spent' = 0
  /\ pending' = aged(pending, d)
  /\ todo' = {p.aid : p \in {q \in pending : isDue(q, now')}}
  /\ air' = {}
  /\ UNCHANGED <<config, tiles, named, held>>

BugRetryForever(aid, works, len) ==
  /\ aid \in todo /\ todo' = todo \ {aid}
  /\ spent + len <= MaxPass /\ spent' = spent + len
  /\ \E p \in pending :
       /\ p.aid = aid
       /\ LET fired == fireCode(aid, p.name, works)
              next  == [p EXCEPT !.left = @ - 1, !.due = (now + p.delay) % ClockMod,
                                 !.age = 0, !.lag = spent']
          IN  /\ pending' = aged(pending \ {p}, len) \cup
                              (IF ~fired THEN {[next EXCEPT !.left = p.left]}
                               ELSE IF p.left > 1 THEN {next} ELSE {})
              /\ air' = IF fired THEN {Send(aid, p.name, p.left, p.age, p.lag)} ELSE {}
  /\ UNCHANGED <<config, tiles, named, held, now>>

\* Its loop comes to one that is due, whose send takes len: the sequence ends with its
\* last send, or when a send does not go out, and else goes on from the reading of the
\* pass.
sendDue(aid, works, len) ==
  /\ aid \in todo /\ todo' = todo \ {aid}
  /\ spent + len <= MaxPass /\ spent' = spent + len
  /\ \E p \in pending :
       /\ p.aid = aid
       /\ LET fired == fireCode(aid, p.name, works)
              next  == [p EXCEPT !.left = @ - 1, !.due = (now + p.delay) % ClockMod,
                                 !.age = 0, !.lag = spent']
          IN  /\ pending' = aged(pending \ {p}, len) \cup
                              (IF fired /\ p.left > 1 THEN {next} ELSE {})
              /\ air' = IF fired THEN {Send(aid, p.name, p.left, p.age, p.lag)} ELSE {}
  /\ UNCHANGED <<config, tiles, named, held, now>>

\* A learn takes receivers, those that arm, and gives all of them back.
startLearn(bands) ==
  /\ todo = {}
  /\ held' = held \cup bands
  /\ air' = {}
  /\ UNCHANGED <<config, tiles, named, pending, time>>

stopLearn ==
  /\ todo = {}
  /\ held' = {}
  /\ air' = {}
  /\ UNCHANGED <<config, tiles, named, pending, time>>

-------------------------------------------------------------------------------
Init ==
  /\ config \in Configs
  /\ tiles = [a \in planAccessories(config) |-> createAccessory(config[a])]
  /\ named = planAccessories(config)
  /\ pending = {} /\ held = {}
  /\ now \in 0 .. ClockMod - 1 /\ spent = 0 /\ todo = {}
  /\ air = {}

Next ==
  \/ \E cfg \in Configs : applyConfigChange(cfg)
  \/ reboot
  \/ \E a \in DOMAIN tiles : \E tries \in Tries(tiles[a]) :
       \E len \in 0 .. MaxSend :
         \/ press(a, tries, len)
         \/ \E l \in Labels : rename(a, l, tries, len)
  \/ \E d \in {0, 1} : pollPendingSends(d)
  \/ \E a \in Aids, works \in BOOLEAN, len \in 0 .. MaxSend : sendDue(a, works, len)
  \/ \E bands \in SUBSET Bands : startLearn(bands)
  \/ stopLearn

\* loop() runs for ever, a pass comes to its end, and time passes from pass to pass.
Fairness ==
  /\ \A a \in Aids : WF_vars(\E works \in BOOLEAN, len \in 0 .. MaxSend : sendDue(a, works, len))
  /\ WF_vars(\E d \in {0, 1} : pollPendingSends(d))
  /\ SF_vars(pollPendingSends(1))

Spec     == Init /\ [][Next]_vars
FairSpec == Spec /\ Fairness

-------------------------------------------------------------------------------
Tile     == [type : Types, label : Labels, remote : BOOLEAN, speaker : BOOLEAN]
Sequence == [aid : Aids, name : CommandNames, left : Nat \ {0}, delay : 0 .. MaxDelay,
             due : 0 .. ClockMod - 1, age : 0 .. MaxDelay, lag : 0 .. MaxPass]
Sent     == [aid : Aids, name : CommandNames, left : Nat \ {0},
             silence : 0 .. MaxDelay, lag : 0 .. MaxPass]

TypeOK ==
  /\ config \in Configs
  /\ DOMAIN tiles \subseteq Aids /\ tiles \in [DOMAIN tiles -> Tile]
  /\ named \subseteq Aids
  /\ pending \subseteq Sequence
  /\ held \subseteq Bands
  /\ now \in 0 .. ClockMod - 1 /\ spent \in 0 .. MaxPass /\ todo \subseteq Aids
  /\ air \subseteq Sent

\* One sequence per accessory, whatever mix of power, keys, volume and renames HomeKit
\* delivers while it runs (accessory_builder.cpp:59-60).
OneSequencePerAid == \A p, q \in pending : p.aid = q.aid => p = q

\* A scheduled repeat belongs to a command the configuration still has: it is learned,
\* has the delay the sequence keeps and more sends than the sequence has left, so that
\* no repeat of an edited or deleted command goes out (accessory_builder.cpp:276).
SequencesAreCurrent ==
  \A p \in pending :
    /\ resolves(p.aid, p.name)
    /\ p.delay = slotOf(p.aid, p.name).delay
    /\ p.left < slotOf(p.aid, p.name).count

\* Through any series of edits the tiles are those of the configuration, each of its
\* service, and each can be renamed: the diff is computed from the last configuration,
\* not from the tiles (accessory_builder.cpp:270-288).
TilesFollowConfig ==
  /\ DOMAIN tiles = planAccessories(config)
  /\ named = DOMAIN tiles
  /\ \A a \in DOMAIN tiles : tiles[a].type = config[a].type

\* A device renamed in the web page is renamed in HomeKit, also after its tile was
\* rebuilt for another service (accessory_builder.cpp:284-288).
LabelsFollowEdits ==
  [][\A a \in DOMAIN tiles \cap DOMAIN tiles' :
       config'[a].name # config[a].name => tiles'[a].label = config'[a].name]_vars

\* What goes on the air is what the configuration says now: a learned command of a tile
\* that exists, no more often than its count.  Before a repeat the air is silent for the
\* delay, across the wrap of the clock too; in full after the first send, whose end the
\* delay counts from, and less, after another repeat, by how long that one had been going
\* on, or had waited for other sequences, since the pass that sent it read the clock
\* (accessory_builder.cpp:98, 296-308).
SendsKeepRhythm ==
  \A s \in air :
    LET slot == slotOf(s.aid, s.name)
    IN  /\ s.aid \in DOMAIN tiles /\ resolves(s.aid, s.name)
        /\ s.left <= slot.count
        /\ s.left = slot.count - 1 => s.silence >= slot.delay
        /\ s.left < slot.count => s.silence + s.lag >= slot.delay

\* Every sequence comes to its end, so an accessory does not stay busy and drop presses
\* for ever, whenever in the life of the clock it began.
SequencesEnd == \A a \in Aids : (\E p \in pending : p.aid = a) ~> ~\E p \in pending : p.aid = a

===============================================================================
