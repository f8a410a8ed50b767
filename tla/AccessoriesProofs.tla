--------------------------- MODULE AccessoriesProofs ---------------------------
(***************************************************************************)
(* Proofs about Accessories, for every set of devices, configurations and   *)
(* codes and every width of the clock.                                     *)
(*                                                                         *)
(* The argument: a sequence is only scheduled for an accessory that is not  *)
(* busy, with a slot resolved at that moment, and is abandoned by whatever  *)
(* replaces the configuration it was resolved in.  How long ago a sequence  *)
(* sent is kept by the history fields, which do not wrap; while that is     *)
(* less than its delay, the time left until it is due is what the wrapping  *)
(* clock shows, and less than half of it.                                  *)
(***************************************************************************)
EXTENDS Accessories, TLAPS

-------------------------------------------------------------------------------
(* The clock. *)

\* What a reading of the clock is, up to one wrap.
LEMMA OneWrap ==
  ASSUME NEW M \in Nat \ {0}, NEW x \in 0 .. (2 * M - 1)
  PROVE  /\ x < M => x % M = x
         /\ x >= M => x % M = x - M
<1>1. CASE x < M
  BY <1>1
<1>2. CASE x >= M
  <2>1. /\ x = M * (x \div M) + (x % M)
        /\ x % M \in 0 .. M - 1
    OBVIOUS
  <2>2. x \div M \in Nat /\ M * (x \div M) > 0 /\ M * (x \div M) < 2 * M
    BY <2>1, <1>2
  <2>3. x \div M = 1
    BY <2>2
  <2> QED
    BY <2>1, <2>3, <1>2
<1> QED
  BY <1>1, <1>2

\* The reading some time after another.
LEMMA After ==
  ASSUME NEW M \in Nat \ {0}, NEW from \in 0 .. M - 1, NEW d \in 0 .. M - 1
  PROVE  /\ (from + d) % M \in 0 .. M - 1
         /\ from + d < M => (from + d) % M = from + d
         /\ from + d >= M => (from + d) % M = from + d - M
<1> DEFINE sum == from + d
<1>1. sum \in 0 .. (2 * M - 1)
  OBVIOUS
<1>2. (sum < M => sum % M = sum) /\ (sum >= M => sum % M = sum - M)
  <2> HIDE DEF sum
  <2> QED
    BY <1>1, OneWrap
<1> QED
  BY <1>1, <1>2

\* The time from one reading of the clock to another, less than a wrap later.
LEMMA Since ==
  ASSUME NEW M \in Nat \ {0}, NEW from \in 0 .. M - 1, NEW to \in 0 .. M - 1
  PROVE  /\ to < from => (to + M - from) % M = to + M - from
         /\ to >= from => (to + M - from) % M = to - from
<1>1. to + M - from \in 0 .. (2 * M - 1)
  OBVIOUS
<1> QED
  BY <1>1, OneWrap

\* Two spans of time after a reading, less than a wrap together.
LEMMA Later ==
  ASSUME NEW M \in Nat \ {0}, NEW from \in 0 .. M - 1, NEW a \in Nat, NEW b \in Nat, a + b < M
  PROVE  (((from + a) % M) + b) % M = (from + (a + b)) % M
<1>1. a \in 0 .. M - 1 /\ b \in 0 .. M - 1 /\ a + b \in 0 .. M - 1
  OBVIOUS
<1> DEFINE mid == (from + a) % M
<1>2. /\ mid \in 0 .. M - 1
      /\ from + a < M => mid = from + a
      /\ from + a >= M => mid = from + a - M
  BY <1>1, After
<1>3. /\ from + (a + b) < M => (from + (a + b)) % M = from + (a + b)
      /\ from + (a + b) >= M => (from + (a + b)) % M = from + (a + b) - M
  BY <1>1, After
<1> HIDE DEF mid
<1>4. /\ mid + b < M => (mid + b) % M = mid + b
      /\ mid + b >= M => (mid + b) % M = mid + b - M
  BY <1>1, <1>2, After
<1>5. (mid + b) % M = (from + (a + b)) % M
  BY <1>1, <1>2, <1>3, <1>4
<1> QED
  BY <1>5 DEF mid

\* What is to come within the longest delay is not due.
LEMMA AheadIsNotDue ==
  ASSUME NEW t \in 0 .. ClockMod - 1, NEW k \in 1 .. MaxDelay, NEW p,
         p.due = (t + k) % ClockMod
  PROVE  ~isDue(p, t)
<1>0. ClockMod \in Nat \ {0} /\ MaxDelay \in Nat /\ 2 * MaxDelay < ClockMod
  BY AccessoriesAssumption DEF AccessoriesAssumption
<1> DEFINE due == p.due
<1>1. /\ due \in 0 .. ClockMod - 1
      /\ t + k < ClockMod => due = t + k
      /\ t + k >= ClockMod => due = t + k - ClockMod
  <2>1. k \in 0 .. ClockMod - 1
    BY <1>0
  <2> QED
    BY <1>0, <2>1, After
<1> HIDE DEF due
<1>2. /\ t < due => (t + ClockMod - due) % ClockMod = t + ClockMod - due
      /\ t >= due => (t + ClockMod - due) % ClockMod = t - due
  BY <1>0, <1>1, Since
<1>3. (t + ClockMod - due) % ClockMod = ClockMod - k
  BY <1>0, <1>1, <1>2
<1>4. ~(ClockMod - k < ClockMod \div 2)
  BY <1>0
<1> QED
  BY <1>3, <1>4 DEF isDue, due

-------------------------------------------------------------------------------
(* The inductive invariant. *)

\* While the last send of a sequence is less than its delay ago, what is left of the delay
\* is the way from the clock to the due time.
DueFits ==
  \A p \in pending : p.age + p.lag < p.delay =>
    p.due = (now + (spent + p.delay - (p.age + p.lag))) % ClockMod

\* What a pass has found due, and not come to yet, has been silent for its delay.
TodoFits ==
  \A p \in pending : p.aid \in todo => p.age + p.lag >= p.delay

\* The due time of the first repeat counts from the end of the first send.
FirstHasNoLag == \A p \in pending : p.left = slotOf(p.aid, p.name).count - 1 => p.lag = 0

\* The accessory a sequence belongs to is one HomeSpan holds.
SequencesHaveTiles == \A p \in pending : p.aid \in DOMAIN tiles

IInv ==
  /\ TypeOK
  /\ OneSequencePerAid
  /\ SequencesAreCurrent
  /\ DueFits /\ TodoFits /\ FirstHasNoLag
  /\ SequencesHaveTiles
  /\ TilesFollowConfig
  /\ SendsKeepRhythm

\* What a resolved command is.
LEMMA ResolvedSlot ==
  ASSUME config \in Configs, NEW a, NEW n, resolves(a, n)
  PROVE  /\ a \in Aids /\ n \in CommandNames
         /\ slotOf(a, n).count \in Nat \ {0}
         /\ slotOf(a, n).delay \in 0 .. MaxDelay
BY ConfigsAssumption DEF ConfigsAssumption, resolves, slotOf, Slot

\* A tile built from a configuration is a tile.
LEMMA BuiltTile ==
  ASSUME NEW cfg \in Configs, NEW a \in planAccessories(cfg)
  PROVE  /\ a \in Aids
         /\ createAccessory(cfg[a]) \in Tile
         /\ createAccessory(cfg[a]).type = cfg[a].type
         /\ createAccessory(cfg[a]).label = cfg[a].name
<1>1. a \in DOMAIN cfg
  BY DEF planAccessories
<1>2. a \in Aids /\ cfg[a].type \in Types /\ cfg[a].name \in Labels
  BY <1>1, ConfigsAssumption DEF ConfigsAssumption
<1> QED
  BY <1>2 DEF createAccessory, Tile

LEMMA ClockFacts ==
  /\ ClockMod \in Nat \ {0} /\ MaxDelay \in Nat /\ MaxSend \in Nat /\ MaxPass \in Nat
  /\ MaxDelay + MaxPass + 1 < ClockMod /\ 2 * MaxDelay < ClockMod
BY AccessoriesAssumption DEF AccessoriesAssumption

\* A sequence some time later is the same but for its age.
LEMMA Aged ==
  ASSUME NEW seqs \in SUBSET Sequence, NEW t \in Nat, NEW q \in aged(seqs, t)
  PROVE  \E p \in seqs :
           /\ q \in Sequence
           /\ q.aid = p.aid /\ q.name = p.name /\ q.left = p.left /\ q.delay = p.delay
           /\ q.due = p.due /\ q.lag = p.lag
           /\ q.age >= p.age /\ (q.age = p.age + t \/ q.age = MaxDelay)
<1>1. PICK p \in seqs : q = [p EXCEPT !.age = Least(@ + t, MaxDelay)]
  BY DEF aged
<1>2. p \in Sequence /\ p.age \in 0 .. MaxDelay
  BY DEF Sequence
<1>3. /\ Least(p.age + t, MaxDelay) \in 0 .. MaxDelay
      /\ Least(p.age + t, MaxDelay) >= p.age
      /\ Least(p.age + t, MaxDelay) = p.age + t \/ Least(p.age + t, MaxDelay) = MaxDelay
  BY <1>2, ClockFacts DEF Least
<1> HIDE DEF Least
<1> QED
  BY <1>1, <1>2, <1>3 DEF Sequence

\* What the invariant says of a sequence stays true of it while a send goes on.
LEMMA AgedFits ==
  ASSUME IInv, NEW t \in Nat, NEW q \in aged(pending, t)
  PROVE  /\ q \in Sequence
         /\ resolves(q.aid, q.name) /\ q.delay = slotOf(q.aid, q.name).delay
         /\ q.left < slotOf(q.aid, q.name).count
         /\ q.age + q.lag < q.delay =>
              q.due = (now + (spent + t + q.delay - (q.age + q.lag))) % ClockMod
         /\ q.aid \in todo => q.age + q.lag >= q.delay
         /\ q.left = slotOf(q.aid, q.name).count - 1 => q.lag = 0
         /\ q.aid \in DOMAIN tiles
         /\ \E p \in pending : q.aid = p.aid
<1>1. pending \in SUBSET Sequence
  BY DEF IInv, TypeOK
<1>2. PICK p \in pending :
        /\ q \in Sequence
        /\ q.aid = p.aid /\ q.name = p.name /\ q.left = p.left /\ q.delay = p.delay
        /\ q.due = p.due /\ q.lag = p.lag
        /\ q.age >= p.age /\ (q.age = p.age + t \/ q.age = MaxDelay)
  BY <1>1, Aged
<1>3. /\ p \in Sequence /\ p.age \in Nat /\ p.lag \in Nat /\ p.delay \in Nat /\ p.delay <= MaxDelay
      /\ q.age \in Nat /\ spent \in Nat
  BY <1>1, <1>2, ClockFacts DEF Sequence, IInv, TypeOK
<1>4. ASSUME q.age + q.lag < q.delay
      PROVE  q.due = (now + (spent + t + q.delay - (q.age + q.lag))) % ClockMod
  <2>1. q.age = p.age + t
    BY <1>2, <1>3, <1>4, ClockFacts
  <2>2. p.age + p.lag < p.delay
    BY <1>2, <1>3, <1>4
  <2>3. p.due = (now + (spent + p.delay - (p.age + p.lag))) % ClockMod
    BY <2>2 DEF IInv, DueFits
  <2>4. spent + t + q.delay - (q.age + q.lag) = spent + p.delay - (p.age + p.lag)
    BY <1>2, <1>3, <2>1
  <2> QED
    BY <1>2, <2>3, <2>4
<1>5. q.aid \in todo => q.age + q.lag >= q.delay
  BY <1>2, <1>3 DEF IInv, TodoFits
<1>6. /\ resolves(p.aid, p.name) /\ p.delay = slotOf(p.aid, p.name).delay
      /\ p.left < slotOf(p.aid, p.name).count
      /\ p.left = slotOf(p.aid, p.name).count - 1 => p.lag = 0
      /\ p.aid \in DOMAIN tiles
  BY DEF IInv, SequencesAreCurrent, FirstHasNoLag, SequencesHaveTiles
<1> QED
  BY <1>2, <1>4, <1>5, <1>6

\* Time leaves at most one sequence to an accessory.
LEMMA AgedOne ==
  ASSUME pending \subseteq Sequence, OneSequencePerAid, NEW t
  PROVE  \A p, q \in aged(pending, t) : p.aid = q.aid => p = q
<1> SUFFICES ASSUME NEW p \in aged(pending, t), NEW q \in aged(pending, t), p.aid = q.aid
             PROVE  p = q
  OBVIOUS
<1>1. PICK x \in pending : p = [x EXCEPT !.age = Least(@ + t, MaxDelay)]
  BY DEF aged
<1>2. PICK y \in pending : q = [y EXCEPT !.age = Least(@ + t, MaxDelay)]
  BY DEF aged
<1>3. x \in Sequence /\ y \in Sequence
  OBVIOUS
<1>4. p.aid = x.aid /\ q.aid = y.aid
  BY <1>1, <1>2, <1>3 DEF Sequence
<1> QED
  BY <1>1, <1>2, <1>4 DEF OneSequencePerAid

LEMMA InitInv == Init => IInv
<1> SUFFICES ASSUME Init PROVE IInv
  OBVIOUS
<1>1. TypeOK
  <2>1. config \in Configs /\ named \subseteq Aids /\ DOMAIN tiles \subseteq Aids
        /\ tiles \in [DOMAIN tiles -> Tile]
    BY BuiltTile DEF Init
  <2> QED
    BY <2>1, ClockFacts DEF Init, TypeOK
<1>2. TilesFollowConfig
  BY BuiltTile DEF Init, TilesFollowConfig
<1> QED
  BY <1>1, <1>2 DEF Init, IInv, OneSequencePerAid, SequencesAreCurrent, DueFits, TodoFits,
                    FirstHasNoLag, SequencesHaveTiles, SendsKeepRhythm

\* A send by transmit(), of a resolved command of an accessory that is not busy, keeps
\* the invariant, whatever is written to the name of a tile in the same call.
LEMMA TransmitInv ==
  ASSUME IInv, NEW aid \in DOMAIN tiles, NEW name, NEW len \in 0 .. MaxSend,
         todo = {}, spent + len <= MaxPass,
         resolves(aid, name), ~aidBusy(aid),
         transmit(aid, name, len), DOMAIN tiles' = DOMAIN tiles,
         \A a \in DOMAIN tiles : tiles'[a] \in Tile /\ tiles'[a].type = tiles[a].type,
         tiles' = [a \in DOMAIN tiles |-> tiles'[a]]
  PROVE  IInv'
<1> DEFINE slot == slotOf(aid, name)
           seq  == [aid |-> aid, name |-> name, left |-> slot.count - 1, delay |-> slot.delay,
                    due |-> (now + spent + len + slot.delay) % ClockMod, age |-> 0, lag |-> 0]
<1>1. /\ config \in Configs /\ now \in 0 .. ClockMod - 1 /\ spent \in Nat /\ len \in Nat
      /\ UNCHANGED <<config, named, held, now, todo>> /\ spent' = spent + len
      /\ air' = {Send(aid, name, slot.count, 0, 0)}
      /\ slot.count = 1 => pending' = aged(pending, len)
      /\ slot.count # 1 => pending' = aged(pending, len) \cup {seq}
  BY ClockFacts DEF IInv, TypeOK, transmit
<1>2. /\ aid \in Aids /\ name \in CommandNames
      /\ slot.count \in Nat \ {0} /\ slot.delay \in 0 .. MaxDelay
  BY <1>1, ResolvedSlot
<1>3. /\ seq.due \in 0 .. ClockMod - 1
      /\ seq.due = (now + (spent' + slot.delay)) % ClockMod
  <2>1. seq.due = (now + (spent' + slot.delay)) % ClockMod
    <3>1. now + spent + len + slot.delay = now + (spent' + slot.delay)
      BY <1>1, <1>2
    <3> QED
      BY <3>1
  <2>2. spent' + slot.delay \in 0 .. ClockMod - 1
    BY <1>1, <1>2, ClockFacts
  <2> QED
    BY <1>1, <2>1, <2>2, ClockFacts, After
<1>4. slot.count # 1 => seq \in Sequence
  BY <1>1, <1>2, <1>3, ClockFacts DEF Sequence
<1> HIDE DEF slot
<1>5. \A q \in pending' : q \in aged(pending, len) \/ (slot.count # 1 /\ q = seq)
  BY <1>1
<1>6. TypeOK'
  <2>1. pending' \subseteq Sequence
    BY <1>1, <1>4, <1>5, AgedFits
  <2>2. air' \subseteq Sent
    BY <1>1, <1>2, ClockFacts DEF Send, Sent
  <2>3. spent' \in 0 .. MaxPass
    BY <1>1, ClockFacts
  <2> QED
    BY <1>1, <2>1, <2>2, <2>3 DEF IInv, TypeOK
<1>7. OneSequencePerAid'
  <2>1. \A q \in aged(pending, len) : q.aid # aid
    BY <1>1, AgedFits DEF aidBusy
  <2>2. \A p, q \in aged(pending, len) : p.aid = q.aid => p = q
    BY AgedOne DEF IInv, TypeOK
  <2> QED
    BY <1>5, <2>1, <2>2 DEF OneSequencePerAid
<1>8. SequencesAreCurrent'
  BY <1>1, <1>2, <1>5, AgedFits DEF SequencesAreCurrent, resolves, slotOf, slot
<1>9. DueFits'
  <2>1. ASSUME NEW q \in pending', q.age + q.lag < q.delay
        PROVE  q.due = (now + (spent' + q.delay - (q.age + q.lag))) % ClockMod
    <3>1. CASE q \in aged(pending, len)
      BY <1>1, <2>1, <3>1, AgedFits
    <3>2. CASE q = seq
      <4>1. spent' + q.delay - (q.age + q.lag) = spent' + slot.delay
        BY <1>1, <1>2, <3>2
      <4> QED
        BY <1>3, <3>2, <4>1
    <3> QED
      BY <1>5, <2>1, <3>1, <3>2
  <2> QED
    BY <1>1, <2>1 DEF DueFits
<1>10. TodoFits' /\ SequencesHaveTiles'
  BY <1>1, <1>5, AgedFits DEF TodoFits, SequencesHaveTiles
<1>11. FirstHasNoLag'
  BY <1>1, <1>5, AgedFits DEF FirstHasNoLag, slotOf
<1>12. TilesFollowConfig'
  BY <1>1 DEF IInv, TilesFollowConfig
<1>13. SendsKeepRhythm'
  BY <1>1, <1>2 DEF SendsKeepRhythm, Send, resolves, slotOf, slot
<1> QED
  BY <1>6, <1>7, <1>8, <1>9, <1>10, <1>11, <1>12, <1>13 DEF IInv

-------------------------------------------------------------------------------
(* The actions. *)

\* A live change rebuilds what the plan says and leaves no sequence behind.
LEMMA ChangeInv ==
  ASSUME IInv, NEW cfg \in Configs, applyConfigChange(cfg)
  PROVE  IInv'
<1>1. /\ config \in Configs /\ config' = cfg
      /\ pending' = {} /\ air' = {} /\ UNCHANGED <<held, now, spent, todo>>
      /\ changeTiles(cfg)
      /\ named' = (named \ toRemove(config, cfg)) \cup toAdd(config, cfg)
      /\ DOMAIN tiles = planAccessories(config) /\ named = planAccessories(config)
  BY DEF IInv, TypeOK, TilesFollowConfig, applyConfigChange, time
<1>2. DOMAIN tiles' = planAccessories(cfg) /\ named' = planAccessories(cfg)
  BY <1>1 DEF changeTiles, toRemove, toAdd, kept
<1>3. ASSUME NEW a \in DOMAIN tiles'
      PROVE  tiles'[a] \in Tile /\ tiles'[a].type = cfg[a].type
  <2>1. a \in planAccessories(cfg)
    BY <1>2
  <2>2. a \in Aids /\ cfg[a].name \in Labels
    BY <2>1, ConfigsAssumption DEF ConfigsAssumption, planAccessories
  <2>3. CASE a \in toAdd(config, cfg)
    <3>1. tiles'[a] = createAccessory(cfg[a])
      BY <1>1, <2>1, <2>3 DEF changeTiles
    <3> QED
      BY <2>1, <3>1, BuiltTile
  <2>4. CASE a \notin toAdd(config, cfg)
    <3>1. a \in kept(config, cfg)
      BY <2>1, <2>4 DEF toAdd
    <3>2. a \in DOMAIN tiles /\ tiles[a] \in Tile /\ tiles[a].type = cfg[a].type
      BY <1>1, <3>1 DEF kept, IInv, TypeOK, TilesFollowConfig
    <3>3. tiles'[a] \in {tiles[a], [tiles[a] EXCEPT !.label = cfg[a].name]}
      BY <1>1, <1>2, <2>4 DEF changeTiles
    <3> QED
      BY <2>2, <3>2, <3>3 DEF Tile
  <2> QED
    BY <2>3, <2>4
<1>4. tiles' = [a \in DOMAIN tiles' |-> tiles'[a]]
  BY <1>1 DEF changeTiles
<1>5. DOMAIN tiles' \subseteq Aids
  BY <1>2, BuiltTile
<1>6. TypeOK'
  BY <1>1, <1>2, <1>3, <1>4, <1>5 DEF IInv, TypeOK
<1>7. TilesFollowConfig'
  BY <1>1, <1>2, <1>3 DEF TilesFollowConfig
<1> QED
  BY <1>1, <1>6, <1>7 DEF IInv, OneSequencePerAid, SequencesAreCurrent, DueFits, TodoFits,
                          FirstHasNoLag, SequencesHaveTiles, SendsKeepRhythm

LEMMA RebootInv == IInv /\ reboot => IInv'
<1> SUFFICES ASSUME IInv, reboot PROVE IInv'
  OBVIOUS
<1>1. /\ config \in Configs /\ config' = config
      /\ tiles' = [a \in planAccessories(config) |-> createAccessory(config[a])]
      /\ named' = planAccessories(config)
      /\ pending' = {} /\ held' = {} /\ now' = 0 /\ spent' = 0 /\ todo' = {} /\ air' = {}
  BY DEF IInv, TypeOK, reboot, buildAccessories
<1>2. TypeOK'
  BY <1>1, BuiltTile, ClockFacts DEF TypeOK
<1>3. TilesFollowConfig'
  BY <1>1, BuiltTile DEF TilesFollowConfig
<1> QED
  BY <1>1, <1>2, <1>3 DEF IInv, OneSequencePerAid, SequencesAreCurrent, DueFits, TodoFits,
                          FirstHasNoLag, SequencesHaveTiles, SendsKeepRhythm

\* Whatever an update() tries, at most one command goes through transmit().
LEMMA UpdateTransmits ==
  ASSUME NEW aid, NEW tries, NEW len, update(aid, tries, len)
  PROVE  /\ todo = {} /\ spent + len <= MaxPass
         /\ \E name : resolves(aid, name) /\ ~aidBusy(aid) /\ transmit(aid, name, len)
BY DEF update, fireCode

LEMMA PressInv ==
  ASSUME IInv, NEW aid \in DOMAIN tiles, NEW tries, NEW len \in 0 .. MaxSend,
         press(aid, tries, len)
  PROVE  IInv'
<1>1. /\ todo = {} /\ spent + len <= MaxPass
      /\ \E name : resolves(aid, name) /\ ~aidBusy(aid) /\ transmit(aid, name, len)
  BY UpdateTransmits DEF press
<1>2. tiles' = tiles /\ tiles = [a \in DOMAIN tiles |-> tiles[a]]
  BY DEF press, IInv, TypeOK
<1>3. \A a \in DOMAIN tiles : tiles[a] \in Tile
  BY DEF IInv, TypeOK
<1> QED
  BY <1>1, <1>2, <1>3, TransmitInv

LEMMA RenameInv ==
  ASSUME IInv, NEW aid \in DOMAIN tiles, NEW label \in Labels, NEW tries,
         NEW len \in 0 .. MaxSend, rename(aid, label, tries, len)
  PROVE  IInv'
<1>1. /\ DOMAIN tiles' = DOMAIN tiles
      /\ tiles' = [a \in DOMAIN tiles |-> tiles'[a]]
      /\ \A a \in DOMAIN tiles : tiles'[a] \in Tile /\ tiles'[a].type = tiles[a].type
  <2>1. tiles' = [tiles EXCEPT ![aid] = [tiles[aid] EXCEPT !.label = label]]
    BY DEF rename
  <2>2. \A a \in DOMAIN tiles : tiles[a] \in Tile
    BY DEF IInv, TypeOK
  <2>3. [tiles[aid] EXCEPT !.label = label] \in Tile
    BY <2>2 DEF Tile
  <2> QED
    BY <2>1, <2>2, <2>3 DEF Tile
<1>2. CASE update(aid, tries, len)
  BY <1>1, <1>2, UpdateTransmits, TransmitInv
<1>3. CASE air' = {} /\ UNCHANGED <<config, named, pending, held, now, spent, todo>>
  <2>1. TypeOK'
    BY <1>1, <1>3 DEF IInv, TypeOK
  <2>2. SequencesAreCurrent'
    BY <1>3 DEF IInv, SequencesAreCurrent, resolves, slotOf
  <2>3. TilesFollowConfig'
    BY <1>1, <1>3 DEF IInv, TilesFollowConfig
  <2>4. FirstHasNoLag'
    BY <1>3 DEF IInv, FirstHasNoLag, slotOf
  <2> QED
    BY <1>1, <1>3, <2>1, <2>2, <2>3, <2>4 DEF IInv, OneSequencePerAid, DueFits, TodoFits,
                                             SequencesHaveTiles, SendsKeepRhythm
<1> QED
  BY <1>2, <1>3 DEF rename, time

\* A pass reads the clock: what is found due has been silent for its delay, since what
\* has not is still on the way to its due time.
LEMMA ReadInv ==
  ASSUME IInv, NEW d \in {0, 1}, pollPendingSends(d)
  PROVE  IInv'
<1> DEFINE t == spent + d
<1>1. /\ todo = {} /\ now' = (now + spent + d) % ClockMod /\ spent' = 0
      /\ pending' = aged(pending, d)
      /\ todo' = {p.aid : p \in {q \in pending : isDue(q, now')}}
      /\ air' = {} /\ UNCHANGED <<config, tiles, named, held>>
  BY DEF pollPendingSends
<1>2. /\ now \in 0 .. ClockMod - 1 /\ spent \in Nat /\ t \in Nat /\ t <= MaxPass + 1
      /\ pending \subseteq Sequence
  BY ClockFacts DEF IInv, TypeOK
<1>3. now' = (now + t) % ClockMod /\ now' \in 0 .. ClockMod - 1
  <2>1. now + spent + d = now + t
    BY <1>2
  <2>2. t \in 0 .. ClockMod - 1
    BY <1>2, ClockFacts
  <2> QED
    BY <1>1, <1>2, <2>1, <2>2, ClockFacts, After
<1> HIDE DEF t
<1>4. ASSUME NEW q \in pending', q.age + q.lag < q.delay
      PROVE  /\ q.due = (now' + (q.delay - (q.age + q.lag))) % ClockMod
             /\ ~isDue(q, now')
  <2> DEFINE k == q.delay - (q.age + q.lag)
  <2>1. q \in Sequence /\ q.due = (now + (spent + d + q.delay - (q.age + q.lag))) % ClockMod
    BY <1>1, <1>4, AgedFits
  <2>2. q.age \in Nat /\ q.lag \in Nat /\ q.delay \in 0 .. MaxDelay
    BY <2>1, ClockFacts DEF Sequence
  <2>3. k \in 1 .. MaxDelay /\ k \in Nat /\ spent + d + q.delay - (q.age + q.lag) = t + k
    BY <1>2, <1>4, <2>2, ClockFacts DEF t
  <2> HIDE DEF k
  <2>4. q.due = (now + (t + k)) % ClockMod /\ t + k < ClockMod
    BY <1>2, <2>1, <2>3, ClockFacts
  <2>5. q.due = (now' + k) % ClockMod
    BY <1>2, <1>3, <2>3, <2>4, ClockFacts, Later
  <2>6. ~isDue(q, now')
    BY <1>3, <2>3, <2>5, AheadIsNotDue
  <2> QED
    BY <2>5, <2>6 DEF k
<1>5. TypeOK'
  <2>1. pending' \subseteq Sequence
    BY <1>1, AgedFits
  <2>2. todo' \subseteq Aids
    BY <1>1, <1>2 DEF Sequence
  <2> QED
    BY <1>1, <1>3, <2>1, <2>2, ClockFacts DEF IInv, TypeOK
<1>6. OneSequencePerAid'
  BY <1>1, <1>2, AgedOne DEF IInv, OneSequencePerAid
<1>7. SequencesAreCurrent' /\ FirstHasNoLag' /\ SequencesHaveTiles'
  BY <1>1, AgedFits DEF SequencesAreCurrent, FirstHasNoLag, SequencesHaveTiles, resolves, slotOf
<1>8. DueFits'
  <2>1. ASSUME NEW q \in pending', q.age + q.lag < q.delay
        PROVE  q.due = (now' + (spent' + q.delay - (q.age + q.lag))) % ClockMod
    <3>1. q \in Sequence
      BY <1>5 DEF TypeOK
    <3>2. spent' + q.delay - (q.age + q.lag) = q.delay - (q.age + q.lag)
      BY <1>1, <3>1, ClockFacts DEF Sequence
    <3> QED
      BY <1>4, <2>1, <3>2
  <2> QED
    BY <2>1 DEF DueFits
<1>9. TodoFits'
  <2>1. ASSUME NEW q \in pending', q.aid \in todo' PROVE q.age + q.lag >= q.delay
    <3>1. PICK x \in pending : x.aid = q.aid /\ isDue(x, now')
      BY <1>1, <2>1
    <3>2. PICK p \in pending : q \in Sequence /\ q.aid = p.aid /\ q.due = p.due
      BY <1>1, <1>2, Aged
    <3>3. x = p
      BY <3>1, <3>2 DEF IInv, OneSequencePerAid
    <3>4. isDue(q, now')
      BY <3>1, <3>2, <3>3 DEF isDue
    <3>5. ~(q.age + q.lag < q.delay)
      BY <1>4, <3>4
    <3> QED
      BY <3>2, <3>5, ClockFacts DEF Sequence
  <2> QED
    BY <2>1 DEF TodoFits
<1>10. TilesFollowConfig' /\ SendsKeepRhythm'
  BY <1>1 DEF IInv, TilesFollowConfig, SendsKeepRhythm
<1> QED
  BY <1>5, <1>6, <1>7, <1>8, <1>9, <1>10 DEF IInv

\* The pass comes to a sequence it has found due: it goes on from the reading of the
\* pass, and the silence before its send was long enough.
LEMMA SendInv ==
  ASSUME IInv, NEW aid, NEW works, NEW len \in 0 .. MaxSend, sendDue(aid, works, len)
  PROVE  IInv'
<1> DEFINE rest(p) == aged(pending \ {p}, len)
           next(p) == [p EXCEPT !.left = @ - 1, !.due = (now + p.delay) % ClockMod,
                                !.age = 0, !.lag = spent']
<1>1. PICK p \in pending :
        /\ p.aid = aid
        /\ pending' = rest(p) \cup
             (IF fireCode(aid, p.name, works) /\ p.left > 1 THEN {next(p)} ELSE {})
        /\ air' = IF fireCode(aid, p.name, works)
                  THEN {Send(aid, p.name, p.left, p.age, p.lag)} ELSE {}
  BY DEF sendDue
<1>2. /\ aid \in todo /\ todo' = todo \ {aid} /\ spent' = spent + len /\ spent' <= MaxPass
      /\ UNCHANGED <<config, tiles, named, held, now>>
      /\ now \in 0 .. ClockMod - 1 /\ spent \in Nat /\ len \in Nat /\ spent' \in Nat
      /\ config \in Configs /\ pending \subseteq Sequence
  BY ClockFacts DEF sendDue, IInv, TypeOK
<1>3. /\ p \in Sequence /\ resolves(p.aid, p.name)
      /\ p.delay = slotOf(p.aid, p.name).delay
      /\ p.left < slotOf(p.aid, p.name).count
      /\ p.left = slotOf(p.aid, p.name).count - 1 => p.lag = 0
      /\ p.aid \in DOMAIN tiles
      /\ p.age + p.lag >= p.delay
      /\ slotOf(p.aid, p.name).count \in Nat
  BY <1>1, <1>2, ResolvedSlot
     DEF IInv, SequencesAreCurrent, FirstHasNoLag, SequencesHaveTiles, TodoFits
<1>4. \A q \in rest(p) : q \in aged(pending, len) /\ q.aid # aid
  <2> SUFFICES ASSUME NEW q \in rest(p) PROVE q \in aged(pending, len) /\ q.aid # aid
    OBVIOUS
  <2>1. PICK x \in pending \ {p} : q = [x EXCEPT !.age = Least(@ + len, MaxDelay)]
    BY DEF aged
  <2>2. x \in Sequence /\ x.aid # p.aid
    BY <1>1, <1>2 DEF IInv, OneSequencePerAid
  <2>3. q.aid = x.aid
    BY <2>1, <2>2 DEF Sequence
  <2> QED
    BY <1>1, <2>1, <2>2, <2>3 DEF aged
<1>5. ASSUME p.left > 1
      PROVE  /\ next(p) \in Sequence
             /\ next(p).aid = aid /\ next(p).name = p.name /\ next(p).delay = p.delay
             /\ next(p).left = p.left - 1 /\ next(p).age = 0 /\ next(p).lag = spent'
             /\ next(p).due = (now + p.delay) % ClockMod
  <2>1. p.delay \in 0 .. ClockMod - 1 /\ p.left - 1 \in Nat \ {0}
    BY <1>3, <1>5, ClockFacts DEF Sequence
  <2>2. (now + p.delay) % ClockMod \in 0 .. ClockMod - 1
    BY <1>2, <2>1, ClockFacts, After
  <2>3. spent' \in 0 .. MaxPass /\ 0 \in 0 .. MaxDelay
    BY <1>2, ClockFacts
  <2> QED
    BY <1>1, <1>3, <2>1, <2>2, <2>3 DEF Sequence
<1> HIDE DEF rest, next
<1>6. \A q \in pending' : q \in rest(p) \/ (p.left > 1 /\ q = next(p))
  BY <1>1
<1>7. TypeOK'
  <2>1. pending' \subseteq Sequence
    BY <1>4, <1>5, <1>6, AgedFits
  <2>2. air' \subseteq Sent
    BY <1>1, <1>3 DEF Send, Sent, Sequence
  <2> QED
    BY <1>2, <2>1, <2>2, ClockFacts DEF IInv, TypeOK
<1>8. OneSequencePerAid'
  <2>1. \A x, y \in aged(pending, len) : x.aid = y.aid => x = y
    BY <1>2, AgedOne DEF IInv
  <2> QED
    BY <1>4, <1>5, <1>6, <2>1 DEF OneSequencePerAid
<1>9. SequencesAreCurrent' /\ FirstHasNoLag' /\ SequencesHaveTiles'
  <2>1. ASSUME NEW q \in pending'
        PROVE  /\ resolves(q.aid, q.name)
               /\ q.delay = slotOf(q.aid, q.name).delay
               /\ q.left < slotOf(q.aid, q.name).count
               /\ q.left = slotOf(q.aid, q.name).count - 1 => q.lag = 0
               /\ q.aid \in DOMAIN tiles
    <3>1. CASE q \in rest(p)
      BY <1>4, <3>1, AgedFits
    <3>2. CASE p.left > 1 /\ q = next(p)
      <4>1. q.aid = p.aid /\ q.name = p.name /\ q.delay = p.delay /\ q.left = p.left - 1
        BY <1>1, <1>5, <3>2
      <4>2. p.left \in Nat
        BY <1>3 DEF Sequence
      <4> QED
        BY <1>3, <4>1, <4>2
    <3> QED
      BY <1>6, <3>1, <3>2
  <2> QED
    BY <1>2, <2>1
       DEF SequencesAreCurrent, FirstHasNoLag, SequencesHaveTiles, resolves, slotOf
<1>10. DueFits'
  <2>1. ASSUME NEW q \in pending', q.age + q.lag < q.delay
        PROVE  q.due = (now + (spent' + q.delay - (q.age + q.lag))) % ClockMod
    <3>1. CASE q \in rest(p)
      BY <1>2, <1>4, <2>1, <3>1, AgedFits
    <3>2. CASE p.left > 1 /\ q = next(p)
      <4>1. q.delay \in Nat /\ q.delay = p.delay /\ q.age = 0 /\ q.lag = spent'
            /\ q.due = (now + p.delay) % ClockMod
        BY <1>3, <1>5, <3>2, ClockFacts DEF Sequence
      <4>2. spent' + q.delay - (q.age + q.lag) = p.delay
        BY <1>2, <4>1
      <4> QED
        BY <4>1, <4>2
    <3> QED
      BY <1>6, <3>1, <3>2
  <2> QED
    BY <1>2, <2>1 DEF DueFits
<1>11. TodoFits'
  <2>1. ASSUME NEW q \in pending', q.aid \in todo' PROVE q.age + q.lag >= q.delay
    <3>1. q \in rest(p) /\ q.aid \in todo
      BY <1>2, <1>5, <1>6, <2>1
    <3> QED
      BY <1>4, <3>1, AgedFits
  <2> QED
    BY <2>1 DEF TodoFits
<1>12. TilesFollowConfig'
  BY <1>2 DEF IInv, TilesFollowConfig
<1>13. SendsKeepRhythm'
  <2>1. LET s == Send(aid, p.name, p.left, p.age, p.lag)
            slot == slotOf(s.aid, s.name)
        IN  /\ s.aid \in DOMAIN tiles /\ resolves(s.aid, s.name)
            /\ s.left <= slot.count
            /\ s.left = slot.count - 1 => s.silence >= slot.delay
            /\ s.left < slot.count => s.silence + s.lag >= slot.delay
    <3>1. p.left \in Nat /\ p.age \in Nat /\ p.lag \in Nat /\ p.delay \in Nat
      BY <1>3, ClockFacts DEF Sequence
    <3>2. p.left = slotOf(p.aid, p.name).count - 1 => p.age >= p.delay
      BY <1>3, <3>1
    <3> QED
      BY <1>1, <1>3, <3>1, <3>2 DEF Send
  <2> QED
    BY <1>1, <1>2, <2>1 DEF SendsKeepRhythm, resolves, slotOf
<1> QED
  BY <1>7, <1>8, <1>9, <1>10, <1>11, <1>12, <1>13 DEF IInv

LEMMA StepInv == IInv /\ [Next]_vars => IInv'
<1> SUFFICES ASSUME IInv, [Next]_vars PROVE IInv'
  OBVIOUS
<1>1. ASSUME NEW cfg \in Configs, applyConfigChange(cfg) PROVE IInv'
  BY <1>1, ChangeInv
<1>2. CASE reboot
  BY <1>2, RebootInv
<1>3. ASSUME NEW a \in DOMAIN tiles, NEW tries \in Tries(tiles[a]), NEW len \in 0 .. MaxSend,
             press(a, tries, len)
      PROVE  IInv'
  BY <1>3, PressInv
<1>4. ASSUME NEW a \in DOMAIN tiles, NEW tries \in Tries(tiles[a]), NEW len \in 0 .. MaxSend,
             NEW l \in Labels, rename(a, l, tries, len)
      PROVE  IInv'
  BY <1>4, RenameInv
<1>5. ASSUME NEW d \in {0, 1}, pollPendingSends(d) PROVE IInv'
  BY <1>5, ReadInv
<1>6. ASSUME NEW a, NEW works, NEW len \in 0 .. MaxSend, sendDue(a, works, len) PROVE IInv'
  BY <1>6, SendInv
<1>7. CASE (\E bands \in SUBSET Bands : startLearn(bands)) \/ stopLearn
  <2>1. /\ UNCHANGED <<config, tiles, named, pending, now, spent, todo>> /\ air' = {}
        /\ held' \subseteq Bands
    BY <1>7 DEF startLearn, stopLearn, time, IInv, TypeOK
  <2> QED
    BY <2>1 DEF IInv, TypeOK, OneSequencePerAid, SequencesAreCurrent, DueFits, TodoFits,
                FirstHasNoLag, SequencesHaveTiles, TilesFollowConfig, SendsKeepRhythm,
                resolves, slotOf
<1>8. CASE UNCHANGED vars
  BY <1>8 DEF vars, time, IInv, TypeOK, OneSequencePerAid, SequencesAreCurrent, DueFits,
              TodoFits, FirstHasNoLag, SequencesHaveTiles, TilesFollowConfig,
              SendsKeepRhythm, resolves, slotOf
<1> QED
  BY <1>1, <1>2, <1>3, <1>4, <1>5, <1>6, <1>7, <1>8 DEF Next

-------------------------------------------------------------------------------
(* The theorems. *)

LEMMA Invariance == Spec => []IInv
BY InitInv, StepInv, PTL DEF Spec

\* Every variable keeps its type: the tiles are tiles of the configuration's services,
\* a repeat count never runs out below one and every time is a reading of the clock.
THEOREM TypeCorrect == Spec => []TypeOK
<1>1. IInv => TypeOK
  BY DEF IInv
<1> QED
  BY <1>1, Invariance, PTL

\* However presses, renames, passes of the loop and live changes follow each other, no
\* accessory has two sequences under way (accessory_builder.cpp:59-75).
THEOREM OneSequence == Spec => []OneSequencePerAid
<1>1. IInv => OneSequencePerAid
  BY DEF IInv
<1> QED
  BY <1>1, Invariance, PTL

\* No repeat of a command outlives it: what is scheduled is in the configuration in
\* force (accessory_builder.cpp:276).
THEOREM SequencesCurrent == Spec => []SequencesAreCurrent
<1>1. IInv => SequencesAreCurrent
  BY DEF IInv
<1> QED
  BY <1>1, Invariance, PTL

\* Through any series of live changes the tiles are those of the configuration
\* (accessory_plan.cpp:53-85, accessory_builder.cpp:270-290).
THEOREM TilesCorrect == Spec => []TilesFollowConfig
<1>1. IInv => TilesFollowConfig
  BY DEF IInv
<1> QED
  BY <1>1, Invariance, PTL

\* No send is too many or of a command that is gone, and the silence before a repeat falls
\* short of its delay by no more than the send before it went on after the reading of the
\* clock it was scheduled from, and by nothing after the first, wherever the clock wraps
\* and however long sends take (accessory_builder.cpp:98, 293-312).
THEOREM RhythmKept == Spec => []SendsKeepRhythm
<1>1. IInv => SendsKeepRhythm
  BY DEF IInv
<1> QED
  BY <1>1, Invariance, PTL

\* A device renamed in the web page is renamed in HomeKit (accessory_builder.cpp:284-288).
THEOREM LabelsFollow == Spec => LabelsFollowEdits
<1> DEFINE Follows == \A a \in DOMAIN tiles \cap DOMAIN tiles' :
                        config'[a].name # config[a].name => tiles'[a].label = config'[a].name
<1>1. IInv /\ [Next]_vars => [Follows]_vars
  <2> SUFFICES ASSUME IInv, Next PROVE Follows
    BY DEF vars
  <2>1. ASSUME NEW cfg \in Configs, applyConfigChange(cfg) PROVE Follows
    <3> SUFFICES ASSUME NEW a \in DOMAIN tiles \cap DOMAIN tiles',
                        cfg[a].name # config[a].name
                 PROVE  tiles'[a].label = cfg[a].name
      BY <2>1 DEF applyConfigChange
    <3>1. /\ DOMAIN tiles = planAccessories(config) /\ named = planAccessories(config)
          /\ config \in Configs /\ tiles[a] \in Tile /\ changeTiles(cfg)
      BY <2>1 DEF IInv, TypeOK, TilesFollowConfig, applyConfigChange
    <3>2. CASE a \in toAdd(config, cfg)
      <4>1. tiles'[a] = createAccessory(cfg[a]) /\ a \in planAccessories(cfg)
        BY <3>1, <3>2 DEF changeTiles, toAdd
      <4> QED
        BY <4>1, BuiltTile
    <3>3. CASE a \notin toAdd(config, cfg)
      <4>1. a \in toUpdate(config, cfg) \cap named
        BY <3>1, <3>3 DEF changeTiles, toAdd, toRemove, toUpdate
      <4>2. tiles'[a] = [tiles[a] EXCEPT !.label = cfg[a].name]
        BY <3>1, <3>3, <4>1 DEF changeTiles
      <4> QED
        BY <3>1, <4>2 DEF Tile
    <3> QED
      BY <3>2, <3>3
  <2>2. CASE config' = config
    BY <2>2
  <2>3. (\E cfg \in Configs : applyConfigChange(cfg)) \/ config' = config
    <3>1. ASSUME NEW a, NEW tries, NEW len, NEW l,
                 press(a, tries, len) \/ rename(a, l, tries, len)
          PROVE  config' = config
      <4>1. CASE update(a, tries, len)
        BY <4>1, UpdateTransmits DEF transmit
      <4> QED
        BY <3>1, <4>1 DEF press, rename
    <3>2. ASSUME NEW a, NEW works, NEW len, NEW d,
                 pollPendingSends(d) \/ sendDue(a, works, len)
          PROVE  config' = config
      BY <3>2 DEF pollPendingSends, sendDue
    <3>3. reboot \/ stopLearn \/ (\E bands : startLearn(bands)) => config' = config
      BY DEF reboot, buildAccessories, startLearn, stopLearn
    <3> QED
      BY <3>1, <3>2, <3>3 DEF Next
  <2> QED
    BY <2>1, <2>2, <2>3
<1> QED
  BY <1>1, Invariance, PTL DEF Spec, LabelsFollowEdits
===============================================================================
