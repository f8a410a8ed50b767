-------------------------- MODULE LearnMachineProofs --------------------------
(***************************************************************************)
(* Proofs about LearnMachine for any payloads, any matching relation the   *)
(* assumption allows, any table sizes and any number of bursts: a verdict  *)
(* rests on bursts that were really received, although the tables it is    *)
(* reached from are bounded and their slots reused.                        *)
(*                                                                         *)
(* And about Pulses and PulseCapture, for trains of any length: that       *)
(* matching meets what the machine assumes of it, what reception and       *)
(* de-clipping make of a burst, and what is stored and sent.               *)
(***************************************************************************)
EXTENDS LearnMachine, PulseCapture, Integers, FiniteSetTheorems, SequenceTheorems,
        WellFoundedInduction, TLAPS

-------------------------------------------------------------------------------
(* The inductive invariant: what one track's table t says of the history lg. *)

\* The bursts of source s that match payload r, those of its press k, and the presses
\* up to n that the former span.
As(lg, s, r) ==
  {i \in DOMAIN lg : /\ lg[i].src = s /\ lg[i].payload # Malformed
                     /\ <<r, lg[i].payload>> \in Near}
In(lg, s, k) ==
  {i \in DOMAIN lg : lg[i].src = s /\ lg[i].press = k /\ lg[i].payload # Malformed}
PressesUpTo(lg, s, r, n) == {k \in {lg[i].press : i \in As(lg, s, r)} : k <= n}

\* Presses are numbered from 1, and the first MaxGroups of them have a group.
PressesNumbered(lg, s, t) ==
  /\ \A i \in DOMAIN lg : lg[i].src = s => lg[i].press \in 1 .. t.curGroup
  /\ Len(t.groups) = IF t.curGroup <= MaxGroups THEN t.curGroup ELSE MaxGroups

\* A cluster counts no burst and no press that was not heard: its presses are among
\* those up to the last it was counted in.
CountBacked(lg, s, t, i) ==
  LET c == t.clusters[i]
  IN  /\ c.count <= Cardinality(As(lg, s, c.repr))
      /\ c.groupCount <= Cardinality(PressesUpTo(lg, s, c.repr, c.lastGroup))
      /\ c.lastGroup <= t.curGroup

\* A clean group has heard only its cluster, or nothing as long as it has none; and no
\* group names a slot that is not in use, so that a slot's first cluster finds no group.
GroupTrue(lg, s, t, k) ==
  LET g == t.groups[k]
  IN  /\ g.firstCluster # 0 => g.firstCluster \in DOMAIN t.clusters
      /\ ~g.dirty => IF g.firstCluster = 0 THEN In(lg, s, k) = {}
                     ELSE /\ In(lg, s, k) # {}
                          /\ In(lg, s, k) \subseteq As(lg, s, t.clusters[g.firstCluster].repr)

\* No two clusters match.
Distinct(t) ==
  \A i, j \in DOMAIN t.clusters :
    i # j => <<t.clusters[i].repr, t.clusters[j].repr>> \notin Near

TrackType(t) == t \in Track /\ Len(t.clusters) <= MaxClusters /\ Len(t.groups) <= MaxGroups

TrackInv(lg, s, t) ==
  /\ TrackType(t) /\ PressesNumbered(lg, s, t)
  /\ \A i \in DOMAIN t.clusters : CountBacked(lg, s, t, i)
  /\ \A k \in DOMAIN t.groups : GroupTrue(lg, s, t, k)
  /\ Distinct(t)

Inv ==
  /\ TypeOK /\ CaptureIsHeard /\ RollingIsEarned
  /\ state = "Listening" => \A s \in Sources : TrackInv(log, s, tracks[s])

-------------------------------------------------------------------------------
(* The history grows by one burst. *)

LEMMA HeardFinite ==
  ASSUME NEW lg \in Seq(Burst), NEW s, NEW r, NEW n
  PROVE  /\ IsFiniteSet(As(lg, s, r)) /\ IsFiniteSet(PressesUpTo(lg, s, r, n))
         /\ Cardinality(As(lg, s, r)) \in Nat /\ Cardinality(PressesUpTo(lg, s, r, n)) \in Nat
<1>1. DOMAIN lg = 1 .. Len(lg) /\ Len(lg) \in Nat
  BY LenProperties
<1>2. IsFiniteSet(As(lg, s, r))
  <2>1. IsFiniteSet(1 .. Len(lg))
    BY <1>1, FS_Interval
  <2>2. As(lg, s, r) \in SUBSET (1 .. Len(lg))
    BY <1>1 DEF As
  <2> QED
    BY <2>1, <2>2, FS_Subset
<1> DEFINE P == {lg[i].press : i \in As(lg, s, r)}
           press == [i \in As(lg, s, r) |-> lg[i].press]
<1>3. IsFiniteSet(P)
  <2>1. press \in Surjection(As(lg, s, r), P)
    BY DEF Surjection
  <2> HIDE DEF P, press
  <2> QED
    BY <1>2, <2>1, FS_Surjection
<1>4. IsFiniteSet(PressesUpTo(lg, s, r, n))
  <2>1. PressesUpTo(lg, s, r, n) \in SUBSET P
    BY DEF PressesUpTo
  <2> HIDE DEF P
  <2> QED
    BY <1>3, <2>1, FS_Subset
<1> QED
  BY <1>2, <1>4, FS_CardinalityType

LEMMA HistoryGrows ==
  ASSUME NEW lg \in Seq(Burst), NEW b \in Burst, NEW s
  PROVE  LET lg2 == Append(lg, b)
             n   == Len(lg) + 1
         IN  /\ lg2 \in Seq(Burst) /\ lg2 # <<>>
             /\ DOMAIN lg2 = DOMAIN lg \cup {n} /\ n \notin DOMAIN lg
             /\ lg2[n] = b /\ \A i \in DOMAIN lg : lg2[i] = lg[i]
             /\ \A r : As(lg2, s, r) =
                  As(lg, s, r) \cup {i \in {n} : /\ b.src = s /\ b.payload # Malformed
                                                 /\ <<r, b.payload>> \in Near}
             /\ \A k : In(lg2, s, k) =
                  In(lg, s, k) \cup {i \in {n} : /\ b.src = s /\ b.payload # Malformed
                                                 /\ b.press = k}
<1> DEFINE lg2 == Append(lg, b)
           n   == Len(lg) + 1
<1>1. DOMAIN lg = 1 .. Len(lg) /\ Len(lg) \in Nat
  BY LenProperties
<1>2. lg2 \in Seq(Burst) /\ Len(lg2) = n /\ lg2[n] = b /\ \A i \in 1 .. Len(lg) : lg2[i] = lg[i]
  BY AppendProperties
<1>3. DOMAIN lg2 = 1 .. n
  BY <1>2, LenProperties
<1>4. DOMAIN lg2 = DOMAIN lg \cup {n} /\ n \notin DOMAIN lg
  BY <1>1, <1>3
<1>5. lg2 # <<>>
  BY <1>1, <1>2
<1> HIDE DEF lg2, n
<1>6. \A r : As(lg2, s, r) =
         As(lg, s, r) \cup {i \in {n} : /\ b.src = s /\ b.payload # Malformed
                                        /\ <<r, b.payload>> \in Near}
  BY <1>1, <1>2, <1>4 DEF As
<1>7. \A k : In(lg2, s, k) =
         In(lg, s, k) \cup {i \in {n} : b.src = s /\ b.payload # Malformed /\ b.press = k}
  BY <1>1, <1>2, <1>4 DEF In
<1> QED
  BY <1>1, <1>2, <1>4, <1>5, <1>6, <1>7 DEF lg2, n

\* What was heard stays heard, and a burst that matches is one more; in a press of its
\* own it is one more press.
LEMMA CountsGrow ==
  ASSUME NEW lg \in Seq(Burst), NEW b \in Burst, NEW s, NEW r,
         NEW m \in Nat, NEW n \in Nat, m <= n
  PROVE  LET lg2   == Append(lg, b)
             heard == b.src = s /\ b.payload # Malformed /\ <<r, b.payload>> \in Near
         IN  /\ Cardinality(As(lg, s, r)) <= Cardinality(As(lg2, s, r))
             /\ Cardinality(PressesUpTo(lg, s, r, m)) <= Cardinality(PressesUpTo(lg2, s, r, n))
             /\ heard => Cardinality(As(lg2, s, r)) >= Cardinality(As(lg, s, r)) + 1
             /\ heard /\ b.press = n /\ m < n =>
                  Cardinality(PressesUpTo(lg2, s, r, n))
                    >= Cardinality(PressesUpTo(lg, s, r, m)) + 1
<1> DEFINE lg2   == Append(lg, b)
           heard == b.src = s /\ b.payload # Malformed /\ <<r, b.payload>> \in Near
           A  == As(lg, s, r)
           A2 == As(lg2, s, r)
           P  == PressesUpTo(lg, s, r, m)
           P2 == PressesUpTo(lg2, s, r, n)
           l  == Len(lg) + 1
<1>1. /\ lg2 \in Seq(Burst) /\ lg2[l] = b /\ l \notin DOMAIN lg
      /\ \A i \in DOMAIN lg : lg2[i] = lg[i]
      /\ A2 = A \cup {i \in {l} : heard}
  BY HistoryGrows
<1>2. A \subseteq DOMAIN lg
  BY DEF As
<1>3. P \subseteq P2
  <2> SUFFICES ASSUME NEW k \in P PROVE k \in P2
    OBVIOUS
  <2>1. PICK i \in A : k = lg[i].press /\ k <= m
    BY DEF PressesUpTo
  <2>2. i \in A2 /\ lg2[i].press = k
    BY <1>1, <1>2, <2>1
  <2>3. k \in Nat
    <3>1. i \in DOMAIN lg
      BY <1>2
    <3>2. lg[i] \in Burst
      BY <3>1, LenProperties, ElementOfSeq
    <3> QED
      BY <2>1, <3>2 DEF Burst
  <2>4. k <= n
    BY <2>1, <2>3
  <2> HIDE DEF lg2, A, A2
  <2> QED
    BY <2>2, <2>4 DEF PressesUpTo, A2
<1>4. \A k \in P : k <= m
  BY DEF PressesUpTo
<1>5. heard => l \in A2 /\ l \notin A
  BY <1>1, <1>2
<1>6. heard /\ b.press = n => n \in P2
  <2> SUFFICES ASSUME heard, b.press = n PROVE n \in P2
    OBVIOUS
  <2>1. l \in A2 /\ lg2[l].press = n /\ n <= n
    BY <1>1
  <2> HIDE DEF lg2, l
  <2> QED
    BY <2>1 DEF PressesUpTo
<1>7. /\ IsFiniteSet(A) /\ IsFiniteSet(A2) /\ IsFiniteSet(P) /\ IsFiniteSet(P2)
      /\ Cardinality(A) \in Nat /\ Cardinality(A2) \in Nat
      /\ Cardinality(P) \in Nat /\ Cardinality(P2) \in Nat
  BY <1>1, HeardFinite
<1>8. A \subseteq A2
  BY <1>1
<1> HIDE DEF A, A2, P, P2, lg2, l, heard
<1>9. Cardinality(A) <= Cardinality(A2) /\ Cardinality(P) <= Cardinality(P2)
  BY <1>3, <1>7, <1>8, FS_Subset
<1>10. heard => Cardinality(A2) >= Cardinality(A) + 1
  BY <1>5, <1>7, <1>8, <1>9, FS_Subset
<1>11. heard /\ b.press = n /\ m < n => Cardinality(P2) >= Cardinality(P) + 1
  <2> SUFFICES ASSUME heard, b.press = n, m < n PROVE Cardinality(P2) >= Cardinality(P) + 1
    OBVIOUS
  <2>1. n \in P2 /\ n \notin P
    BY <1>4, <1>6
  <2>2. Cardinality(P2) # Cardinality(P)
    BY <2>1, <1>3, <1>7, FS_Subset
  <2> QED
    BY <2>2, <1>7, <1>9
<1> QED
  BY <1>9, <1>10, <1>11 DEF A, A2, P, P2, lg2, heard

\* A burst of another source says nothing of this one; nor does a malformed one.
LEMMA UnheardKeepsTrack ==
  ASSUME NEW lg \in Seq(Burst), NEW b \in Burst, NEW s, NEW t, TrackInv(lg, s, t),
         \/ b.src # s
         \/ b.payload = Malformed /\ b.press \in 1 .. t.curGroup
  PROVE  TrackInv(Append(lg, b), s, t)
<1> DEFINE lg2 == Append(lg, b)
           n   == Len(lg) + 1
<1>1. /\ \A r : As(lg2, s, r) = As(lg, s, r)
      /\ \A k : In(lg2, s, k) = In(lg, s, k)
  <2>1. ~(b.src = s /\ b.payload # Malformed)
    OBVIOUS
  <2>2. /\ \A r : As(lg2, s, r) =
             As(lg, s, r) \cup {i \in {n} : /\ b.src = s /\ b.payload # Malformed
                                            /\ <<r, b.payload>> \in Near}
        /\ \A k : In(lg2, s, k) =
             In(lg, s, k) \cup {i \in {n} : /\ b.src = s /\ b.payload # Malformed
                                            /\ b.press = k}
    BY HistoryGrows
  <2> HIDE DEF lg2, n
  <2>3. ASSUME NEW r PROVE As(lg2, s, r) = As(lg, s, r)
    BY <2>1, <2>2
  <2>4. ASSUME NEW k PROVE In(lg2, s, k) = In(lg, s, k)
    BY <2>1, <2>2
  <2> QED
    BY <2>3, <2>4
<1>2. /\ DOMAIN lg2 = DOMAIN lg \cup {n}
      /\ lg2[n] = b /\ \A i \in DOMAIN lg : lg2[i] = lg[i]
  BY HistoryGrows
<1>3. \A i \in DOMAIN lg2 : lg2[i].press = IF i = n THEN b.press ELSE lg[i].press
  BY <1>2, HistoryGrows
<1> HIDE DEF lg2, n
<1>4. PressesNumbered(lg2, s, t)
  BY <1>2 DEF TrackInv, PressesNumbered
<1>5. \A r, m : PressesUpTo(lg2, s, r, m) = PressesUpTo(lg, s, r, m)
  <2> TAKE r, m
  <2>1. \A i \in As(lg, s, r) : lg2[i].press = lg[i].press
    BY <1>2 DEF As
  <2> QED
    BY <1>1, <2>1 DEF PressesUpTo
<1>6. /\ \A i \in DOMAIN t.clusters : CountBacked(lg2, s, t, i)
      /\ \A k \in DOMAIN t.groups : GroupTrue(lg2, s, t, k)
  BY <1>1, <1>5 DEF TrackInv, CountBacked, GroupTrue
<1> QED
  BY <1>4, <1>6 DEF TrackInv, lg2

-------------------------------------------------------------------------------
(* The table's operations. *)

\* A press is opened by a burst after silence, and nothing was heard in it yet.
LEMMA OpenPressInv ==
  ASSUME NEW lg \in Seq(Burst), NEW s, NEW t, TrackInv(lg, s, t), NEW newGroup \in BOOLEAN
  PROVE  LET t1 == openPress(t, newGroup)
         IN  /\ TrackInv(lg, s, t1) /\ t1.clusters = t.clusters
             /\ t1.curGroup = IF newGroup THEN t.curGroup + 1 ELSE t.curGroup
<1> DEFINE t1    == openPress(t, newGroup)
           blank == [firstCluster |-> 0, dirty |-> FALSE]
<1>1. CASE ~newGroup
  BY <1>1 DEF openPress
<1>2. CASE newGroup
  <2> USE <1>2
  <2>1. /\ t \in Track /\ t.groups \in Seq(Group) /\ t.curGroup \in Nat
        /\ t.clusters \in Seq(Cluster)
        /\ Len(t.clusters) <= MaxClusters /\ Len(t.groups) <= MaxGroups
        /\ Len(t.groups) = IF t.curGroup <= MaxGroups THEN t.curGroup ELSE MaxGroups
    BY DEF TrackInv, TrackType, Track, PressesNumbered
  <2>2. blank \in Group
    BY MachineAssumption DEF Group
  <2>3. t1 = [clusters |-> t.clusters, curGroup |-> t.curGroup + 1,
              groups |-> IF Len(t.groups) < MaxGroups THEN Append(t.groups, blank) ELSE t.groups]
    BY <2>1 DEF openPress, Track
  <2> HIDE DEF t1, blank
  <2>4. /\ t1.clusters = t.clusters /\ t1.curGroup = t.curGroup + 1
        /\ t1.groups = IF Len(t.groups) < MaxGroups THEN Append(t.groups, blank) ELSE t.groups
    BY <2>3
  <2>5. /\ Append(t.groups, blank) \in Seq(Group)
        /\ Len(Append(t.groups, blank)) = Len(t.groups) + 1
        /\ \A k \in 1 .. Len(t.groups) : Append(t.groups, blank)[k] = t.groups[k]
        /\ Append(t.groups, blank)[Len(t.groups) + 1] = blank
    BY <2>1, <2>2, AppendProperties
  <2>6. t1.groups \in Seq(Group) /\ Len(t.groups) \in Nat
    BY <2>1, <2>4, <2>5, LenProperties
  <2>7. TrackType(t1)
    <3>1. t1 \in Track
      BY <2>1, <2>3, <2>4, <2>6 DEF Track
    <3> QED
      BY <3>1, <2>1, <2>4, <2>5, <2>6, MachineAssumption DEF TrackType
  <2>8. PressesNumbered(lg, s, t1)
    <3>1. \A i \in DOMAIN lg : lg[i].src = s => lg[i].press \in 1 .. t1.curGroup
      BY <2>1, <2>4 DEF TrackInv, PressesNumbered
    <3>2. Len(t1.groups) = IF t1.curGroup <= MaxGroups THEN t1.curGroup ELSE MaxGroups
      BY <2>1, <2>4, <2>5, <2>6, MachineAssumption
    <3> QED
      BY <3>1, <3>2 DEF PressesNumbered
  <2>9. \A i \in DOMAIN t1.clusters : CountBacked(lg, s, t1, i)
    <3> SUFFICES ASSUME NEW i \in DOMAIN t.clusters PROVE CountBacked(lg, s, t1, i)
      BY <2>4
    <3>1. t.clusters[i] \in Cluster
      BY <2>1, LenProperties, ElementOfSeq
    <3> QED
      BY <2>1, <2>4, <3>1 DEF TrackInv, CountBacked, Cluster
  <2>10. ASSUME NEW k \in DOMAIN t1.groups PROVE GroupTrue(lg, s, t1, k)
    <3>1. DOMAIN t.groups = 1 .. Len(t.groups) /\ DOMAIN t1.groups = 1 .. Len(t1.groups)
      BY <2>1, <2>6, LenProperties
    <3>2. CASE k \in DOMAIN t.groups
      <4>1. t1.groups[k] = t.groups[k]
        BY <3>1, <3>2, <2>4, <2>5
      <4> QED
        BY <4>1, <3>2, <2>4 DEF TrackInv, GroupTrue
    <3>3. CASE k \notin DOMAIN t.groups
      <4>1. k = t.curGroup + 1 /\ t1.groups[k] = blank
        BY <2>1, <2>4, <2>5, <2>6, <2>10, <3>1, <3>3, MachineAssumption
      <4>2. \A i \in DOMAIN lg : lg[i].src = s => lg[i].press # k
        BY <4>1, <2>1 DEF TrackInv, PressesNumbered
      <4>3. In(lg, s, k) = {}
        BY <4>2 DEF In
      <4> QED
        BY <4>1, <4>3 DEF GroupTrue, blank
    <3> QED
      BY <3>2, <3>3
  <2>11. Distinct(t1)
    BY <2>4 DEF TrackInv, Distinct
  <2> QED
    BY <2>4, <2>7, <2>8, <2>9, <2>10, <2>11 DEF TrackInv, t1
<1> QED
  BY <1>1, <1>2

\* A nonempty set of naturals has a least element, which Min returns.
LEMMA MinOfNaturals ==
  ASSUME NEW T \in SUBSET Nat, T # {}
  PROVE  Min(T) \in T /\ \A n \in T : Min(T) <= n
<1> DEFINE R == {ss \in Nat \X Nat : ss[1] < ss[2]}
<1>1. IsWellFoundedOn(R, Nat)
  BY NatLessThanWellFounded, Zenon DEF OpToRel
<1>2. \E m \in T : \A n \in T : ~(<<n, m>> \in R)
  <2> HIDE DEF R
  <2> QED BY <1>1, WFMin
<1>3. \A m, n \in T : n < m => <<n, m>> \in R
  OBVIOUS
<1>4. \A m, n \in T : n < m \/ m <= n
  OBVIOUS
<1> HIDE DEF R
<1>5. \E m \in T : \A n \in T : m <= n
  BY <1>2, <1>3, <1>4
<1> QED
  BY <1>5 DEF Min

\* Where a payload is counted: in a cluster it matches, else in a slot that is free or
\* whose cluster is not established, and then it matches no cluster.
LEMMA SlotCases ==
  ASSUME NEW t, TrackType(t), NEW p \in Payloads
  PROVE  LET i == slotFor(t, p)
         IN  \/ i \in Matching(t, p) /\ i \in DOMAIN t.clusters
             \/ /\ Matching(t, p) = {}
                /\ \/ i = 0
                   \/ i = Len(t.clusters) + 1 /\ i <= MaxClusters
                   \/ i \in DOMAIN t.clusters /\ ~Established(t.clusters[i])
<1>1. t.clusters \in Seq(Cluster) /\ Len(t.clusters) <= MaxClusters
  BY DEF TrackType, Track
<1>2. DOMAIN t.clusters = 1 .. Len(t.clusters) /\ Len(t.clusters) \in Nat
  BY <1>1, LenProperties
<1>3. CASE Matching(t, p) # {}
  <2>1. Matching(t, p) \in SUBSET Nat /\ Matching(t, p) \subseteq DOMAIN t.clusters
    BY <1>2 DEF Matching
  <2>2. Min(Matching(t, p)) \in Matching(t, p)
    BY <1>3, <2>1, MinOfNaturals
  <2> QED
    BY <1>3, <2>1, <2>2 DEF slotFor
<1>4. CASE Matching(t, p) = {} /\ Len(t.clusters) < MaxClusters
  BY <1>1, <1>2, <1>4, MachineAssumption DEF slotFor
<1>5. CASE Matching(t, p) = {} /\ ~(Len(t.clusters) < MaxClusters) /\ Evictable(t) # {}
  <2> DEFINE Counts == {t.clusters[i].count : i \in Evictable(t)}
             W == {i \in Evictable(t) :
                     \A j \in Evictable(t) : t.clusters[i].count <= t.clusters[j].count}
  <2>1. \A i \in Evictable(t) : i \in DOMAIN t.clusters /\ t.clusters[i].count \in Nat
    <3>1. \A i \in DOMAIN t.clusters : t.clusters[i] \in Cluster
      BY <1>1, <1>2, ElementOfSeq
    <3> QED
      BY <3>1, MachineAssumption DEF Evictable, Cluster
  <2>2. Counts \in SUBSET Nat /\ Counts # {}
    BY <1>5, <2>1
  <2>3. PICK m \in Counts : \A n \in Counts : m <= n
    <3> HIDE DEF Counts
    <3> QED
      BY <2>2, MinOfNaturals
  <2>4. W # {} /\ W \in SUBSET Nat
    BY <1>2, <2>1, <2>3
  <2>5. Min(W) \in W
    <3> HIDE DEF W
    <3> QED
      BY <2>4, MinOfNaturals
  <2>6. slotFor(t, p) = Min(W)
    BY <1>5 DEF slotFor, Weakest
  <2>7. Min(W) \in Evictable(t)
    BY <2>5
  <2> HIDE DEF W
  <2> QED
    BY <1>5, <2>6, <2>7 DEF Evictable
<1>6. CASE Matching(t, p) = {} /\ ~(Len(t.clusters) < MaxClusters) /\ Evictable(t) = {}
  BY <1>6 DEF slotFor
<1> QED
  BY <1>3, <1>4, <1>5, <1>6

\* A cluster after a burst of press g was counted in it.
bumped(c, g) ==
  [repr       |-> c.repr,
   count      |-> IF c.count < MaxMembers THEN c.count + 1 ELSE c.count,
   groupCount |-> IF c.lastGroup # g THEN c.groupCount + 1 ELSE c.groupCount,
   lastGroup  |-> g]

\* The table after a payload was counted in a slot: that slot's cluster is counted up or
\* is new, and the presses of an evicted cluster are dirty; nothing else changes.
LEMMA Counted ==
  ASSUME NEW t, TrackType(t), NEW p \in Payloads,
         \A k \in DOMAIN t.groups :
            t.groups[k].firstCluster # 0 => t.groups[k].firstCluster \in DOMAIN t.clusters,
         slotFor(t, p) # 0
  PROVE  LET i   == slotFor(t, p)
             t2  == countIn(place(t, p, i), i)
             new == i \notin Matching(t, p)
         IN  /\ TrackType(t2) /\ t2.curGroup = t.curGroup
             /\ i \in DOMAIN t2.clusters /\ DOMAIN t2.clusters = DOMAIN t.clusters \cup {i}
             /\ t2.clusters[i] =
                  bumped(IF new THEN newCluster(p) ELSE t.clusters[i], t.curGroup)
             /\ \A j \in DOMAIN t.clusters \ {i} : t2.clusters[j] = t.clusters[j]
             /\ Len(t2.groups) = Len(t.groups) /\ DOMAIN t2.groups = DOMAIN t.groups
             /\ \A k \in DOMAIN t.groups :
                  t2.groups[k] = IF new /\ t.groups[k].firstCluster = i
                                 THEN [firstCluster |-> 0, dirty |-> TRUE]
                                 ELSE t.groups[k]
<1> DEFINE i    == slotFor(t, p)
           t2   == countIn(place(t, p, i), i)
           new  == i \notin Matching(t, p)
           base == IF new THEN newCluster(p) ELSE t.clusters[i]
           c    == bumped(base, t.curGroup)
           wiped == [k \in DOMAIN t.groups |->
                        IF t.groups[k].firstCluster = i
                        THEN [firstCluster |-> 0, dirty |-> TRUE] ELSE t.groups[k]]
<1>1. /\ t.clusters \in Seq(Cluster) /\ t.groups \in Seq(Group) /\ t.curGroup \in Nat
      /\ Len(t.clusters) <= MaxClusters /\ Len(t.groups) <= MaxGroups
      /\ t = [clusters |-> t.clusters, groups |-> t.groups, curGroup |-> t.curGroup]
  BY DEF TrackType, Track
<1>2. /\ DOMAIN t.clusters = 1 .. Len(t.clusters) /\ Len(t.clusters) \in Nat
      /\ DOMAIN t.groups = 1 .. Len(t.groups) /\ Len(t.groups) \in Nat
      /\ \A j \in DOMAIN t.clusters : t.clusters[j] \in Cluster
      /\ \A k \in DOMAIN t.groups : t.groups[k] \in Group
  BY <1>1, LenProperties, ElementOfSeq
<1>3. c \in Cluster
  <2>1. base.repr \in Payloads /\ base.count \in 0 .. MaxMembers /\ base.groupCount \in Nat
    <3>1. CASE new
      BY <3>1, MachineAssumption DEF newCluster
    <3>2. CASE ~new
      <4>1. t.clusters[i] \in Cluster
        BY <1>2, <3>2 DEF Matching
      <4> QED
        BY <3>2, <4>1, MachineAssumption DEF Cluster
    <3> QED
      BY <3>1, <3>2
  <2> HIDE DEF base
  <2>2. 1 <= MaxMembers /\ MaxMembers \in Nat
    BY MachineAssumption
  <2> QED
    BY <1>1, <2>1, <2>2 DEF bumped, Cluster
<1>4. CASE i \in DOMAIN t.clusters /\ ~new
  <2>1. place(t, p, i) = t
    BY <1>4 DEF place
  <2>2. t2 = [t EXCEPT !.clusters[i] = c]
    BY <1>4, <2>1 DEF countIn, bumped
  <2>3. t2 = [clusters |-> [t.clusters EXCEPT ![i] = c], groups |-> t.groups,
              curGroup |-> t.curGroup]
    BY <1>1, <2>2
  <2> HIDE DEF t2, c
  <2>4. /\ [t.clusters EXCEPT ![i] = c] \in Seq(Cluster)
        /\ Len([t.clusters EXCEPT ![i] = c]) = Len(t.clusters)
        /\ \A j \in 1 .. Len(t.clusters) :
             [t.clusters EXCEPT ![i] = c][j] = IF j = i THEN c ELSE t.clusters[j]
    BY <1>1, <1>2, <1>3, <1>4, ExceptSeq
  <2> QED
    BY <1>1, <1>2, <1>4, <2>3, <2>4 DEF TrackType, Track, t2, c
<1>5. CASE i = Len(t.clusters) + 1 /\ i <= MaxClusters /\ new
  <2>1. place(t, p, i) = [t EXCEPT !.clusters = Append(@, newCluster(p))]
    BY <1>2, <1>5 DEF place
  <2>2. place(t, p, i) = [clusters |-> Append(t.clusters, newCluster(p)),
                          groups |-> t.groups, curGroup |-> t.curGroup]
    BY <1>1, <2>1
  <2>3. /\ Append(t.clusters, newCluster(p))
             = [j \in 1 .. Len(t.clusters) + 1 |->
                  IF j = Len(t.clusters) + 1 THEN newCluster(p) ELSE t.clusters[j]]
    BY <1>1, <1>2
  <2>4. t2 = [clusters |-> [Append(t.clusters, newCluster(p)) EXCEPT ![i] = c],
              groups |-> t.groups, curGroup |-> t.curGroup]
    <3> DEFINE q == place(t, p, i)
    <3>1. t2 = [q EXCEPT !.clusters[i] = bumped(q.clusters[i], q.curGroup)]
      BY <1>2, <1>5 DEF countIn, bumped
    <3>2. q.clusters[i] = newCluster(p) /\ q.curGroup = t.curGroup
      BY <1>2, <1>5, <2>2, <2>3
    <3>3. c = bumped(q.clusters[i], q.curGroup)
      BY <1>5, <3>2
    <3> DEFINE longer == Append(t.clusters, newCluster(p))
    <3>4. q = [clusters |-> longer, groups |-> t.groups, curGroup |-> t.curGroup]
      BY <2>2
    <3>5. t2 = [q EXCEPT !.clusters[i] = c]
      BY <3>1, <3>3
    <3> HIDE DEF c, q, longer, t2
    <3> QED
      BY <3>4, <3>5 DEF longer
  <2>5. [Append(t.clusters, newCluster(p)) EXCEPT ![i] = c]
          = [j \in 1 .. Len(t.clusters) + 1 |-> IF j = i THEN c ELSE t.clusters[j]]
    <3> HIDE DEF c
    <3> QED
      BY <1>5, <2>3
  <2>6. [j \in 1 .. Len(t.clusters) + 1 |-> IF j = i THEN c ELSE t.clusters[j]]
          = Append(t.clusters, c)
    <3> HIDE DEF c
    <3> QED
      BY <1>1, <1>2, <1>5
  <2>7. t2 = [clusters |-> Append(t.clusters, c), groups |-> t.groups, curGroup |-> t.curGroup]
    BY <2>4, <2>5, <2>6
  <2> HIDE DEF t2, c
  <2>8. /\ Append(t.clusters, c) \in Seq(Cluster)
        /\ Len(Append(t.clusters, c)) = Len(t.clusters) + 1
        /\ DOMAIN Append(t.clusters, c) = 1 .. Len(t.clusters) + 1
        /\ \A j \in 1 .. Len(t.clusters) : Append(t.clusters, c)[j] = t.clusters[j]
        /\ Append(t.clusters, c)[i] = c
    BY <1>1, <1>2, <1>3, <1>5, AppendProperties, LenProperties
  <2>9. \A k \in DOMAIN t.groups : t.groups[k].firstCluster # i
    <3>1. i \notin DOMAIN t.clusters /\ i # 0
      BY <1>2, <1>5
    <3> QED
      BY <3>1
  <2>10. DOMAIN t2.clusters = DOMAIN t.clusters \cup {i}
    BY <1>2, <1>5, <2>7, <2>8
  <2>11. TrackType(t2)
    BY <1>1, <1>5, <2>7, <2>8 DEF TrackType, Track
  <2> QED
    BY <1>2, <1>5, <2>7, <2>8, <2>9, <2>10, <2>11 DEF t2, c
<1>6. CASE i \in DOMAIN t.clusters /\ new
  <2>1. place(t, p, i) = [t EXCEPT !.clusters[i] = newCluster(p), !.groups = wiped]
    BY <1>2, <1>6 DEF place
  <2>2. place(t, p, i) = [clusters |-> [t.clusters EXCEPT ![i] = newCluster(p)],
                          groups |-> wiped, curGroup |-> t.curGroup]
    <3> HIDE DEF wiped
    <3> QED
      BY <1>1, <2>1
  <2>3. t2 = [clusters |-> [t.clusters EXCEPT ![i] = c], groups |-> wiped,
              curGroup |-> t.curGroup]
    <3> DEFINE q == place(t, p, i)
    <3>1. t2 = [q EXCEPT !.clusters[i] = bumped(q.clusters[i], q.curGroup)]
      BY <1>2, <1>6 DEF countIn, bumped
    <3>2. q.clusters[i] = newCluster(p) /\ q.curGroup = t.curGroup
      BY <1>2, <1>6, <2>2
    <3>3. c = bumped(q.clusters[i], q.curGroup)
      BY <1>6, <3>2
    <3> HIDE DEF c, q, wiped
    <3>4. t2 = [clusters |-> [[t.clusters EXCEPT ![i] = newCluster(p)] EXCEPT ![i] = c],
                groups |-> wiped, curGroup |-> t.curGroup]
      BY <2>2, <3>1, <3>3 DEF q
    <3>5. [[t.clusters EXCEPT ![i] = newCluster(p)] EXCEPT ![i] = c]
            = [t.clusters EXCEPT ![i] = c]
      BY <1>1, <1>2
    <3> QED
      BY <3>4, <3>5
  <2>4. /\ wiped \in Seq(Group) /\ Len(wiped) = Len(t.groups)
        /\ DOMAIN wiped = DOMAIN t.groups
    <3>1. \A k \in 1 .. Len(t.groups) : wiped[k] \in Group
      BY <1>2, MachineAssumption DEF Group
    <3>2. wiped \in [1 .. Len(t.groups) -> Group]
      BY <1>2, <3>1
    <3> HIDE DEF wiped
    <3> QED
      BY <1>2, <3>2
  <2>5. \A k \in DOMAIN t.groups :
          wiped[k] = IF t.groups[k].firstCluster = i
                     THEN [firstCluster |-> 0, dirty |-> TRUE] ELSE t.groups[k]
    OBVIOUS
  <2> HIDE DEF t2, c, wiped
  <2>6. /\ [t.clusters EXCEPT ![i] = c] \in Seq(Cluster)
        /\ Len([t.clusters EXCEPT ![i] = c]) = Len(t.clusters)
        /\ \A j \in 1 .. Len(t.clusters) :
             [t.clusters EXCEPT ![i] = c][j] = IF j = i THEN c ELSE t.clusters[j]
    BY <1>1, <1>2, <1>3, <1>6, ExceptSeq
  <2> QED
    BY <1>1, <1>2, <1>6, <2>3, <2>4, <2>5, <2>6 DEF TrackType, Track, t2, c
<1>7. /\ i \in DOMAIN t.clusters \/ (i = Len(t.clusters) + 1 /\ i <= MaxClusters)
      /\ i \notin DOMAIN t.clusters => new
  BY <1>2, SlotCases
<1> QED
  BY <1>4, <1>5, <1>6, <1>7

LEMMA GroupExcept ==
  ASSUME NEW f, NEW d, NEW e
  PROVE  [[firstCluster |-> f, dirty |-> d] EXCEPT !.dirty = e] = [firstCluster |-> f, dirty |-> e]
OBVIOUS

\* Marking the press touches only the current group.
LEMMA Marked ==
  ASSUME NEW t, TrackType(t), NEW i \in 0 .. MaxClusters
  PROVE  LET t2 == markPress(t, i)
         IN  /\ TrackType(t2) /\ t2.clusters = t.clusters /\ t2.curGroup = t.curGroup
             /\ Len(t2.groups) = Len(t.groups) /\ DOMAIN t2.groups = DOMAIN t.groups
             /\ \A k \in DOMAIN t.groups :
                  t2.groups[k] =
                    IF k # t.curGroup THEN t.groups[k]
                    ELSE IF t.groups[k].firstCluster = 0 /\ i # 0
                    THEN [firstCluster |-> i, dirty |-> t.groups[k].dirty]
                    ELSE IF i # t.groups[k].firstCluster \/ i = 0
                    THEN [firstCluster |-> t.groups[k].firstCluster, dirty |-> TRUE]
                    ELSE t.groups[k]
<1> DEFINE t2 == markPress(t, i)
           k  == t.curGroup
           g  == t.groups[k]
           marked == IF g.firstCluster = 0 /\ i # 0 THEN [g EXCEPT !.firstCluster = i]
                     ELSE IF i # g.firstCluster \/ i = 0 THEN [g EXCEPT !.dirty = TRUE]
                     ELSE g
<1>1. /\ t.groups \in Seq(Group) /\ Len(t.groups) \in Nat /\ DOMAIN t.groups = 1 .. Len(t.groups)
      /\ t = [clusters |-> t.clusters, groups |-> t.groups, curGroup |-> t.curGroup]
  BY LenProperties DEF TrackType, Track
<1>2. \A j \in DOMAIN t.groups :
        /\ t.groups[j] \in Group
        /\ t.groups[j] = [firstCluster |-> t.groups[j].firstCluster, dirty |-> t.groups[j].dirty]
        /\ t.groups[j].dirty \in BOOLEAN
  <2> TAKE j \in DOMAIN t.groups
  <2>1. t.groups[j] \in Group
    BY <1>1, ElementOfSeq
  <2> DEFINE h == t.groups[j]
  <2>2. h \in Group
    BY <2>1
  <2> HIDE DEF h
  <2>3. h = [firstCluster |-> h.firstCluster, dirty |-> h.dirty] /\ h.dirty \in BOOLEAN
    BY <2>2 DEF Group
  <2> QED
    BY <2>1, <2>3 DEF h
<1>3. CASE k \notin DOMAIN t.groups
  BY <1>2, <1>3 DEF markPress
<1>4. CASE k \in DOMAIN t.groups
  <2>1. t2 = [t EXCEPT !.groups[k] = marked]
    BY <1>4 DEF markPress
  <2>2. marked = IF g.firstCluster = 0 /\ i # 0
                 THEN [firstCluster |-> i, dirty |-> g.dirty]
                 ELSE IF i # g.firstCluster \/ i = 0
                 THEN [firstCluster |-> g.firstCluster, dirty |-> TRUE]
                 ELSE g
    <3> HIDE DEF g
    <3>1. g = [firstCluster |-> g.firstCluster, dirty |-> g.dirty]
      BY <1>2, <1>4 DEF g
    <3>2. [g EXCEPT !.firstCluster = i] = [firstCluster |-> i, dirty |-> g.dirty]
      BY <3>1
    <3>3. [g EXCEPT !.dirty = TRUE] = [firstCluster |-> g.firstCluster, dirty |-> TRUE]
      BY <3>1, GroupExcept, Zenon
    <3> QED
      BY <3>2, <3>3
  <2>3. marked \in Group
    BY <1>2, <1>4, <2>2 DEF Group
  <2> HIDE DEF t2, marked
  <2>4. t2 = [clusters |-> t.clusters, groups |-> [t.groups EXCEPT ![k] = marked],
              curGroup |-> t.curGroup]
    BY <1>1, <2>1
  <2>5. /\ [t.groups EXCEPT ![k] = marked] \in Seq(Group)
        /\ Len([t.groups EXCEPT ![k] = marked]) = Len(t.groups)
        /\ \A j \in 1 .. Len(t.groups) :
             [t.groups EXCEPT ![k] = marked][j] = IF j = k THEN marked ELSE t.groups[j]
    BY <1>1, <1>4, <2>3, ExceptSeq
  <2>6. TrackType(t2)
    BY <1>1, <2>4, <2>5 DEF TrackType, Track
  <2>7. DOMAIN t2.groups = DOMAIN t.groups
    BY <1>1, <2>4, <2>5, LenProperties
  <2>8. \A j \in DOMAIN t.groups : t2.groups[j] = IF j # k THEN t.groups[j] ELSE marked
    BY <1>1, <2>4, <2>5
  <2>9. \A j \in DOMAIN t.groups :
          t2.groups[j] = IF j # t.curGroup THEN t.groups[j]
                         ELSE IF t.groups[j].firstCluster = 0 /\ i # 0
                         THEN [firstCluster |-> i, dirty |-> t.groups[j].dirty]
                         ELSE IF i # t.groups[j].firstCluster \/ i = 0
                         THEN [firstCluster |-> t.groups[j].firstCluster, dirty |-> TRUE]
                         ELSE t.groups[j]
    <3> TAKE j \in DOMAIN t.groups
    <3> QED
      BY <2>2, <2>8, Zenon
  <2> QED
    BY <1>1, <2>4, <2>5, <2>6, <2>7, <2>9 DEF t2
<1> QED
  BY <1>3, <1>4

\* Every established cluster of t is in t2, counted no lower.
Survives(t, t2) ==
  \A i \in DOMAIN t.clusters :
    Established(t.clusters[i]) =>
      /\ t2.clusters[i].repr = t.clusters[i].repr
      /\ t2.clusters[i].count >= t.clusters[i].count
      /\ t2.clusters[i].groupCount >= t.clusters[i].groupCount

\* The table stays true to the history when a well-formed burst is counted.
LEMMA HeardKeepsTrack ==
  ASSUME NEW lg \in Seq(Burst), NEW s \in Sources, NEW t, TrackInv(lg, s, t),
         t.curGroup # 0, NEW p \in Payloads
  PROVE  LET i  == slotFor(t, p)
             t3 == markPress(countIn(place(t, p, i), i), i)
             b  == [src |-> s, payload |-> p, press |-> t.curGroup]
         IN  /\ TrackInv(Append(lg, b), s, t3)
             /\ i \in 0 .. MaxClusters
             /\ i # 0 => i \in DOMAIN t3.clusters
             /\ t3.curGroup = t.curGroup /\ b \in Burst
             /\ Survives(t, t3)
<1> DEFINE i   == slotFor(t, p)
           t2  == countIn(place(t, p, i), i)
           t3  == markPress(t2, i)
           b   == [src |-> s, payload |-> p, press |-> t.curGroup]
           lg2 == Append(lg, b)
           n   == Len(lg) + 1
           new == i \notin Matching(t, p)
           base == IF new THEN newCluster(p) ELSE t.clusters[i]
<1>1. /\ TrackType(t) /\ t.curGroup \in Nat \ {0} /\ t.clusters \in Seq(Cluster)
      /\ t.groups \in Seq(Group)
      /\ DOMAIN t.clusters = 1 .. Len(t.clusters) /\ Len(t.clusters) \in Nat
      /\ Len(t.clusters) <= MaxClusters
      /\ \A j \in DOMAIN t.clusters : t.clusters[j] \in Cluster
      /\ \A k \in DOMAIN t.groups :
            t.groups[k].firstCluster # 0 => t.groups[k].firstCluster \in DOMAIN t.clusters
  BY LenProperties, ElementOfSeq DEF TrackInv, TrackType, Track, GroupTrue
<1>2. b \in Burst /\ b.src = s /\ b.payload = p /\ b.press = t.curGroup /\ p # Malformed
  BY <1>1, MachineAssumption DEF Burst
<1>3. \/ i \in Matching(t, p) /\ i \in DOMAIN t.clusters
      \/ /\ Matching(t, p) = {}
         /\ \/ i = 0
            \/ i = Len(t.clusters) + 1 /\ i <= MaxClusters
            \/ i \in DOMAIN t.clusters /\ ~Established(t.clusters[i])
  BY <1>1, SlotCases
<1>4. i \in 0 .. MaxClusters
  <2>1. Len(t.clusters) \in Nat /\ Len(t.clusters) <= MaxClusters /\ MaxClusters \in Nat
    BY <1>1, MachineAssumption
  <2> HIDE DEF i
  <2> QED
    BY <1>1, <1>3, <2>1
<1>5. /\ TrackType(t2) /\ t2.curGroup = t.curGroup
      /\ Len(t2.groups) = Len(t.groups) /\ DOMAIN t2.groups = DOMAIN t.groups
      /\ DOMAIN t2.clusters = DOMAIN t.clusters \cup ({i} \ {0})
      /\ \A j \in DOMAIN t.clusters \ {i} : t2.clusters[j] = t.clusters[j]
      /\ i # 0 => t2.clusters[i] = bumped(base, t.curGroup)
      /\ \A k \in DOMAIN t.groups :
           t2.groups[k] = IF i # 0 /\ new /\ t.groups[k].firstCluster = i
                          THEN [firstCluster |-> 0, dirty |-> TRUE]
                          ELSE t.groups[k]
  <2>1. CASE i = 0
    <3>1. t2 = t
      BY <2>1 DEF countIn, place
    <3>2. 0 \notin DOMAIN t.clusters
      BY <1>1
    <3> QED
      BY <1>1, <2>1, <3>1, <3>2
  <2>2. CASE i # 0
    <3> DEFINE Done(x, u, isNew, from) ==
          /\ TrackType(u) /\ u.curGroup = t.curGroup
          /\ x \in DOMAIN u.clusters /\ DOMAIN u.clusters = DOMAIN t.clusters \cup {x}
          /\ u.clusters[x] = bumped(from, t.curGroup)
          /\ \A j \in DOMAIN t.clusters \ {x} : u.clusters[j] = t.clusters[j]
          /\ Len(u.groups) = Len(t.groups) /\ DOMAIN u.groups = DOMAIN t.groups
          /\ \A k \in DOMAIN t.groups :
               u.groups[k] = IF isNew /\ t.groups[k].firstCluster = x
                             THEN [firstCluster |-> 0, dirty |-> TRUE]
                             ELSE t.groups[k]
    <3>1. Done(i, t2, new, base)
      BY <1>1, <2>2, Counted
    <3> HIDE DEF i, t2, new, base
    <3> QED
      BY <2>2, <3>1
  <2> QED
    BY <2>1, <2>2
<1>6. /\ TrackType(t3) /\ t3.clusters = t2.clusters /\ t3.curGroup = t2.curGroup
      /\ Len(t3.groups) = Len(t2.groups) /\ DOMAIN t3.groups = DOMAIN t2.groups
      /\ \A k \in DOMAIN t2.groups :
           t3.groups[k] =
             IF k # t2.curGroup THEN t2.groups[k]
             ELSE IF t2.groups[k].firstCluster = 0 /\ i # 0
             THEN [firstCluster |-> i, dirty |-> t2.groups[k].dirty]
             ELSE IF i # t2.groups[k].firstCluster \/ i = 0
             THEN [firstCluster |-> t2.groups[k].firstCluster, dirty |-> TRUE]
             ELSE t2.groups[k]
  <2> HIDE DEF i, t2
  <2> QED
    BY <1>4, <1>5, Marked
<1>7. i \in Matching(t, p) => <<t.clusters[i].repr, p>> \in Near
  BY DEF Matching
<1>8. \A j \in DOMAIN t.clusters : Matching(t, p) = {} => <<t.clusters[j].repr, p>> \notin Near
  BY DEF Matching
<1>9. /\ <<base.repr, p>> \in Near /\ base.repr \in Payloads
      /\ base.count \in Nat /\ base.groupCount \in Nat
      /\ base.lastGroup \in Nat /\ base.lastGroup <= t.curGroup
      /\ base.count <= Cardinality(As(lg, s, base.repr))
      /\ base.groupCount <= Cardinality(PressesUpTo(lg, s, base.repr, base.lastGroup))
  <2> DEFINE Backed(c) ==
        /\ <<c.repr, p>> \in Near /\ c.repr \in Payloads
        /\ c.count \in Nat /\ c.groupCount \in Nat
        /\ c.lastGroup \in Nat /\ c.lastGroup <= t.curGroup
        /\ c.count <= Cardinality(As(lg, s, c.repr))
        /\ c.groupCount <= Cardinality(PressesUpTo(lg, s, c.repr, c.lastGroup))
  <2>1. Backed(newCluster(p))
    <3>1. /\ newCluster(p).repr = p /\ newCluster(p).count = 0
          /\ newCluster(p).groupCount = 0 /\ newCluster(p).lastGroup = 0
      BY DEF newCluster
    <3>2. 0 <= Cardinality(As(lg, s, p)) /\ 0 <= Cardinality(PressesUpTo(lg, s, p, 0))
      BY HeardFinite
    <3>3. 0 <= t.curGroup
      BY <1>1
    <3> QED
      BY <3>1, <3>2, <3>3, MachineAssumption
  <2>2. ASSUME i \in Matching(t, p) PROVE Backed(t.clusters[i])
    <3>1. i \in DOMAIN t.clusters /\ t.clusters[i] \in Cluster
      BY <1>1, <1>3, <2>2
    <3>2. CountBacked(lg, s, t, i)
      BY <3>1 DEF TrackInv
    <3> DEFINE c == t.clusters[i]
    <3>3. /\ c.count <= Cardinality(As(lg, s, c.repr))
          /\ c.groupCount <= Cardinality(PressesUpTo(lg, s, c.repr, c.lastGroup))
          /\ c.lastGroup <= t.curGroup
      BY <3>2 DEF CountBacked
    <3>4. c \in Cluster /\ <<c.repr, p>> \in Near
      BY <1>7, <2>2, <3>1
    <3> HIDE DEF c
    <3>5. c.repr \in Payloads /\ c.count \in Nat /\ c.groupCount \in Nat /\ c.lastGroup \in Nat
      BY <3>4, MachineAssumption DEF Cluster
    <3> QED
      BY <3>3, <3>4, <3>5 DEF c
  <2> HIDE DEF Backed
  <2>3. Backed(base)
    BY <2>1, <2>2
  <2> QED
    BY <2>3 DEF Backed
<1>10. /\ lg2 \in Seq(Burst) /\ DOMAIN lg2 = DOMAIN lg \cup {n} /\ n \notin DOMAIN lg
       /\ lg2[n] = b /\ \A j \in DOMAIN lg : lg2[j] = lg[j]
  BY <1>2, HistoryGrows
<1>11. /\ \A r : As(lg2, s, r) = As(lg, s, r) \cup {j \in {n} : <<r, p>> \in Near}
       /\ \A k : In(lg2, s, k) = In(lg, s, k) \cup {j \in {n} : t.curGroup = k}
  <2> HIDE DEF b
  <2>1. /\ \A r : As(lg2, s, r) =
             As(lg, s, r) \cup {j \in {n} : /\ b.src = s /\ b.payload # Malformed
                                            /\ <<r, b.payload>> \in Near}
        /\ \A k : In(lg2, s, k) =
             In(lg, s, k) \cup {j \in {n} : /\ b.src = s /\ b.payload # Malformed
                                            /\ b.press = k}
    BY <1>2, HistoryGrows
  <2> HIDE DEF lg2, n
  <2>2. /\ \A r : {j \in {n} : /\ b.src = s /\ b.payload # Malformed
                                /\ <<r, b.payload>> \in Near}
                  = {j \in {n} : <<r, p>> \in Near}
        /\ \A k : {j \in {n} : b.src = s /\ b.payload # Malformed /\ b.press = k}
                  = {j \in {n} : t.curGroup = k}
    BY <1>2
  <2> QED
    BY <2>1, <2>2
<1> HIDE DEF i, t2, t3, b, lg2, n, new, base
<1>12. i # 0 => i \in DOMAIN t3.clusters
  BY <1>5, <1>6
<1>13. PressesNumbered(lg2, s, t3)
  <2>1. \A j \in DOMAIN lg2 : lg2[j].src = s => lg2[j].press \in 1 .. t.curGroup
    BY <1>1, <1>2, <1>10 DEF TrackInv, PressesNumbered
  <2> QED
    BY <1>5, <1>6, <2>1 DEF TrackInv, PressesNumbered
<1>14. ASSUME NEW j \in DOMAIN t3.clusters PROVE CountBacked(lg2, s, t3, j)
  <2>1. CASE j # i
    <3>1. j \in DOMAIN t.clusters /\ t3.clusters[j] = t.clusters[j]
      BY <1>5, <1>6, <2>1
    <3>2. CountBacked(lg, s, t, j) /\ t.clusters[j] \in Cluster
      BY <1>1, <3>1 DEF TrackInv
    <3> DEFINE c == t.clusters[j]
    <3>3. c.lastGroup \in Nat /\ c.count \in Nat /\ c.groupCount \in Nat
      BY <3>2, MachineAssumption DEF Cluster
    <3>4. /\ c.count <= Cardinality(As(lg, s, c.repr))
          /\ c.groupCount <= Cardinality(PressesUpTo(lg, s, c.repr, c.lastGroup))
          /\ c.lastGroup <= t.curGroup
      BY <3>2 DEF CountBacked
    <3> HIDE DEF c
    <3>5. /\ Cardinality(As(lg, s, c.repr)) <= Cardinality(As(lg2, s, c.repr))
          /\ Cardinality(PressesUpTo(lg, s, c.repr, c.lastGroup))
               <= Cardinality(PressesUpTo(lg2, s, c.repr, c.lastGroup))
      <4>1. c.lastGroup <= c.lastGroup
        BY <3>3
      <4> QED
        BY <1>2, <3>3, <4>1, CountsGrow DEF lg2
    <3>6. /\ Cardinality(As(lg, s, c.repr)) \in Nat /\ Cardinality(As(lg2, s, c.repr)) \in Nat
          /\ Cardinality(PressesUpTo(lg, s, c.repr, c.lastGroup)) \in Nat
          /\ Cardinality(PressesUpTo(lg2, s, c.repr, c.lastGroup)) \in Nat
      BY <1>10, HeardFinite
    <3>7. c = t3.clusters[j]
      BY <3>1 DEF c
    <3> QED
      BY <1>5, <1>6, <3>3, <3>4, <3>5, <3>6, <3>7 DEF CountBacked
  <2>2. CASE j = i
    <3> DEFINE c == t3.clusters[j]
    <3>1. c = bumped(base, t.curGroup)
      <4>1. i # 0
        BY <1>1, <1>5, <1>6, <2>2
      <4> QED
        BY <4>1, <1>5, <1>6, <2>2
    <3>2. /\ c.repr = base.repr /\ c.lastGroup = t.curGroup
          /\ c.count <= base.count + 1
          /\ c.groupCount = IF base.lastGroup # t.curGroup THEN base.groupCount + 1
                            ELSE base.groupCount
      BY <1>9, <3>1 DEF bumped
    <3>3. c.count \in Nat /\ c.groupCount \in Nat
      BY <1>9, <3>1 DEF bumped
    <3> HIDE DEF c
    <3> DEFINE A  == Cardinality(As(lg, s, base.repr))
               A2 == Cardinality(As(lg2, s, base.repr))
               P  == Cardinality(PressesUpTo(lg, s, base.repr, base.lastGroup))
               P2 == Cardinality(PressesUpTo(lg2, s, base.repr, t.curGroup))
    <3>4. /\ A2 >= A + 1 /\ P <= P2
          /\ base.lastGroup < t.curGroup => P2 >= P + 1
      BY <1>1, <1>2, <1>9, CountsGrow DEF lg2
    <3>5. A \in Nat /\ A2 \in Nat /\ P \in Nat /\ P2 \in Nat
      BY <1>10, HeardFinite
    <3>6. base.count <= A /\ base.groupCount <= P
      BY <1>9
    <3>7. c.count <= A2 /\ c.groupCount <= P2
      <4> HIDE DEF A, A2, P, P2
      <4>1. /\ base.count \in Nat /\ base.groupCount \in Nat
            /\ base.lastGroup # t.curGroup => base.lastGroup < t.curGroup
        BY <1>1, <1>9
      <4> QED
        BY <4>1, <3>2, <3>3, <3>4, <3>5, <3>6
    <3> QED
      BY <1>1, <1>5, <1>6, <3>2, <3>7 DEF CountBacked, c
  <2> QED
    BY <2>1, <2>2
<1>15. ASSUME NEW k \in DOMAIN t3.groups PROVE GroupTrue(lg2, s, t3, k)
  <2> DEFINE old == t.groups[k]
             g   == t3.groups[k]
  <2>1. k \in DOMAIN t.groups /\ GroupTrue(lg, s, t, k)
    BY <1>5, <1>6 DEF TrackInv
  <2>2. ASSUME old.firstCluster # 0, ~(i # 0 /\ new /\ old.firstCluster = i)
        PROVE  /\ old.firstCluster \in DOMAIN t3.clusters
               /\ t3.clusters[old.firstCluster].repr = t.clusters[old.firstCluster].repr
    <3>1. old.firstCluster \in DOMAIN t.clusters
      BY <2>1, <2>2 DEF GroupTrue
    <3>2. CASE old.firstCluster # i
      BY <1>5, <1>6, <3>1, <3>2
    <3>3. CASE old.firstCluster = i
      <4>1. i # 0 /\ ~new
        BY <2>2, <3>3
      <4>2. t3.clusters[i] = bumped(t.clusters[i], t.curGroup)
        BY <4>1, <1>5, <1>6 DEF base
      <4> QED
        BY <1>12, <3>3, <4>1, <4>2 DEF bumped
    <3> QED
      BY <3>2, <3>3
  <2>3. \A r : As(lg, s, r) \subseteq As(lg2, s, r)
    BY <1>11
  <2>4. CASE k # t.curGroup
    <3>1. In(lg2, s, k) = In(lg, s, k)
      BY <1>11, <2>4
    <3>2. CASE i # 0 /\ new /\ old.firstCluster = i
      <4>1. g = [firstCluster |-> 0, dirty |-> TRUE]
        BY <1>5, <1>6, <2>1, <2>4, <3>2
      <4> QED
        BY <4>1 DEF GroupTrue
    <3>3. CASE ~(i # 0 /\ new /\ old.firstCluster = i)
      <4>1. g = old
        BY <1>5, <1>6, <2>1, <2>4, <3>3
      <4> HIDE DEF g
      <4> QED
        BY <2>1, <2>2, <2>3, <3>1, <3>3, <4>1 DEF GroupTrue, g
    <3> QED
      BY <3>2, <3>3
  <2>5. CASE k = t.curGroup
    <3>1. In(lg2, s, k) = In(lg, s, k) \cup {n}
      BY <1>11, <2>5
    <3>2. CASE i # 0 /\ new /\ old.firstCluster = i
      <4>1. t2.groups[k] = [firstCluster |-> 0, dirty |-> TRUE]
        BY <1>5, <2>1, <3>2
      <4>2. t2.groups[k].firstCluster = 0 /\ t2.groups[k].dirty
        BY <4>1
      <4>3. g = [firstCluster |-> i, dirty |-> t2.groups[k].dirty]
        BY <1>5, <1>6, <2>1, <2>5, <3>2, <4>2
      <4>4. g.firstCluster = i /\ g.dirty
        BY <4>2, <4>3
      <4> QED
        BY <1>12, <3>2, <4>4 DEF GroupTrue
    <3>3. CASE ~(i # 0 /\ new /\ old.firstCluster = i)
      <4>1. t2.groups[k] = old
        BY <1>5, <2>1, <3>3
      <4>2. CASE old.firstCluster = 0 /\ i # 0
        <5>1. g = [firstCluster |-> i, dirty |-> old.dirty]
          BY <1>5, <1>6, <2>1, <2>5, <4>1, <4>2
        <5>2. ~old.dirty => In(lg2, s, k) = {n}
          BY <2>1, <3>1, <4>2 DEF GroupTrue
        <5>3. n \in As(lg2, s, t3.clusters[i].repr)
          <6>1. t3.clusters[i].repr = base.repr
            BY <1>5, <1>6, <4>2 DEF bumped
          <6> QED
            BY <1>9, <1>11, <6>1
        <5>4. g.firstCluster = i /\ g.dirty = old.dirty
          BY <5>1
        <5> HIDE DEF g
        <5> QED
          BY <1>12, <4>2, <5>2, <5>3, <5>4 DEF GroupTrue, g
      <4>3. CASE ~(old.firstCluster = 0 /\ i # 0)
        <5>1. g = IF i # old.firstCluster \/ i = 0
                  THEN [firstCluster |-> old.firstCluster, dirty |-> TRUE] ELSE old
          <6>1. k = t2.curGroup /\ k \in DOMAIN t2.groups
            BY <1>5, <2>1, <2>5
          <6> HIDE DEF g, old
          <6>2. g = IF t2.groups[k].firstCluster = 0 /\ i # 0
                    THEN [firstCluster |-> i, dirty |-> t2.groups[k].dirty]
                    ELSE IF i # t2.groups[k].firstCluster \/ i = 0
                    THEN [firstCluster |-> t2.groups[k].firstCluster, dirty |-> TRUE]
                    ELSE t2.groups[k]
            BY <1>6, <6>1 DEF g
          <6> QED
            BY <4>1, <4>3, <6>2
        <5>2. /\ g.firstCluster = old.firstCluster
              /\ ~g.dirty => ~old.dirty /\ i = old.firstCluster /\ i # 0
          BY <5>1
        <5> HIDE DEF g
        <5>3. g.firstCluster # 0 => g.firstCluster \in DOMAIN t3.clusters
          BY <2>2, <3>3, <5>2
        <5>4. ASSUME ~g.dirty
              PROVE  /\ g.firstCluster # 0 /\ In(lg2, s, k) # {}
                     /\ In(lg2, s, k) \subseteq As(lg2, s, t3.clusters[g.firstCluster].repr)
          <6>1. ~old.dirty /\ i = old.firstCluster /\ i # 0 /\ ~new
            BY <3>3, <5>2, <5>4
          <6>2. In(lg, s, k) \subseteq As(lg, s, t.clusters[i].repr)
            BY <2>1, <6>1 DEF GroupTrue
          <6>3. t3.clusters[i].repr = base.repr /\ base.repr = t.clusters[i].repr
            BY <1>5, <1>6, <6>1 DEF bumped, base
          <6>4. n \in As(lg2, s, base.repr)
            BY <1>9, <1>11
          <6> QED
            BY <2>3, <3>1, <5>2, <6>1, <6>2, <6>3, <6>4
        <5> QED
          BY <5>3, <5>4 DEF GroupTrue, g
      <4> QED
        BY <4>2, <4>3
    <3> QED
      BY <3>2, <3>3
  <2> QED
    BY <2>4, <2>5
<1>16. Distinct(t3)
  <2>1. \A j \in DOMAIN t.clusters \ {i} : t3.clusters[j].repr = t.clusters[j].repr
    BY <1>5, <1>6
  <2>2. i # 0 => t3.clusters[i].repr = base.repr
    BY <1>5, <1>6 DEF bumped
  <2>3. DOMAIN t3.clusters = DOMAIN t.clusters \cup ({i} \ {0})
    BY <1>5, <1>6
  <2>4. \A j \in DOMAIN t.clusters : t.clusters[j].repr \in Payloads
    BY <1>1 DEF Cluster
  <2>5. ASSUME NEW j \in DOMAIN t.clusters, j # i, i # 0
        PROVE  <<t.clusters[j].repr, base.repr>> \notin Near
    <3>1. CASE new
      BY <1>3, <1>8, <3>1 DEF new, base, newCluster
    <3>2. CASE ~new
      <4>1. i \in DOMAIN t.clusters
        BY <1>1, <1>3, <3>2 DEF new
      <4> QED
        BY <2>5, <3>2, <4>1 DEF base, TrackInv, Distinct
    <3> QED
      BY <3>1, <3>2
  <2>6. \A j \in DOMAIN t.clusters : j # i /\ i # 0 => <<base.repr, t.clusters[j].repr>> \notin Near
    BY <1>9, <2>4, <2>5, MachineAssumption
  <2> SUFFICES ASSUME NEW j \in DOMAIN t3.clusters, NEW l \in DOMAIN t3.clusters, j # l
               PROVE  <<t3.clusters[j].repr, t3.clusters[l].repr>> \notin Near
    BY DEF Distinct
  <2>7. CASE j # i /\ l # i
    BY <2>1, <2>3, <2>7 DEF TrackInv, Distinct
  <2>8. CASE j = i
    BY <1>1, <2>1, <2>2, <2>3, <2>6, <2>8
  <2>9. CASE l = i
    BY <1>1, <2>1, <2>2, <2>3, <2>5, <2>9
  <2> QED
    BY <2>7, <2>8, <2>9
<1>17. Survives(t, t3)
  <2> SUFFICES ASSUME NEW j \in DOMAIN t.clusters, Established(t.clusters[j])
               PROVE  /\ t3.clusters[j].repr = t.clusters[j].repr
                      /\ t3.clusters[j].count >= t.clusters[j].count
                      /\ t3.clusters[j].groupCount >= t.clusters[j].groupCount
    BY DEF Survives
  <2>1. t.clusters[j].count \in Nat /\ t.clusters[j].groupCount \in Nat
    <3> HIDE DEF i, t2, t3, b, lg2, n, new, base
    <3>1. t.clusters[j] \in Cluster
      BY <1>1
    <3> QED
      BY <3>1, MachineAssumption DEF Cluster
  <2>2. CASE j # i
    <3>1. t3.clusters[j] = t.clusters[j]
      BY <1>5, <1>6, <2>2
    <3> QED
      BY <2>1, <3>1
  <2>3. CASE j = i
    <3>1. i # 0 /\ ~new
      BY <1>1, <1>3, <2>3 DEF new
    <3>2. t3.clusters[j] = bumped(t.clusters[j], t.curGroup)
      BY <1>5, <1>6, <2>3, <3>1 DEF base
    <3> QED
      BY <2>1, <3>2 DEF bumped
  <2> QED
    BY <2>2, <2>3
<1> QED
  BY <1>2, <1>4, <1>5, <1>6, <1>12, <1>13, <1>14, <1>15, <1>16, <1>17
     DEF TrackInv, i, t2, t3, b, lg2

\* The table stays true to the history when any burst is fed.
LEMMA FedKeepsTrack ==
  ASSUME NEW lg \in Seq(Burst), NEW s \in Sources, NEW t, TrackInv(lg, s, t),
         NEW p \in Payloads \cup {Malformed}, NEW newGroup \in BOOLEAN,
         t.curGroup = 0 => newGroup
  PROVE  LET t3 == fed(t, p, newGroup)
             i  == slotFed(t, p, newGroup)
             b  == [src |-> s, payload |-> p, press |-> t3.curGroup]
         IN  /\ TrackInv(Append(lg, b), s, t3) /\ b \in Burst
             /\ i # 0 => i \in DOMAIN t3.clusters
             /\ Survives(t, t3)
<1> DEFINE t1 == openPress(t, newGroup)
           i  == slotFor(t1, p)
           t3 == markPress(countIn(place(t1, p, i), i), i)
<1>1. /\ TrackInv(lg, s, t1) /\ t1.clusters = t.clusters
      /\ t1.curGroup = IF newGroup THEN t.curGroup + 1 ELSE t.curGroup
  BY OpenPressInv
<1>2. t.curGroup \in Nat /\ t1.curGroup \in Nat \ {0}
  <2>1. t.curGroup \in Nat
    BY DEF TrackInv, TrackType, Track
  <2> HIDE DEF t1
  <2> QED
    BY <1>1, <2>1
<1>3. CASE p = Malformed
  <2> DEFINE b == [src |-> s, payload |-> p, press |-> t1.curGroup]
  <2>1. fed(t, p, newGroup) = t1 /\ slotFed(t, p, newGroup) = 0
    BY <1>3 DEF fed, slotFed
  <2>2. b \in Burst /\ b.payload = Malformed /\ b.press \in 1 .. t1.curGroup
    BY <1>2, <1>3 DEF Burst
  <2>3. TrackInv(Append(lg, b), s, t1)
    <3> HIDE DEF b, t1
    <3> QED
      BY <1>1, <2>2, UnheardKeepsTrack
  <2>4. Survives(t, t1)
    <3>1. \A j \in DOMAIN t.clusters : t.clusters[j] \in Cluster
      BY LenProperties, ElementOfSeq DEF TrackInv, TrackType, Track
    <3>2. \A j \in DOMAIN t.clusters : t.clusters[j].count \in Nat /\ t.clusters[j].groupCount \in Nat
      BY <3>1, MachineAssumption DEF Cluster
    <3> HIDE DEF t1
    <3> QED
      BY <1>1, <3>2 DEF Survives
  <2> QED
    BY <2>1, <2>2, <2>3, <2>4
<1>4. CASE p # Malformed
  <2> DEFINE b == [src |-> s, payload |-> p, press |-> t1.curGroup]
  <2>1. fed(t, p, newGroup) = t3 /\ slotFed(t, p, newGroup) = i
    BY <1>4 DEF fed, slotFed
  <2>2. /\ TrackInv(Append(lg, b), s, t3) /\ b \in Burst
        /\ i # 0 => i \in DOMAIN t3.clusters
        /\ t3.curGroup = t1.curGroup /\ Survives(t1, t3)
    <3>1. p \in Payloads /\ t1.curGroup # 0
      BY <1>2, <1>4
    <3> HIDE DEF t1
    <3> QED
      BY <1>1, <3>1, HeardKeepsTrack
  <2>3. Survives(t, t3)
    <3> HIDE DEF t1, t3
    <3> QED
      BY <1>1, <2>2 DEF Survives
  <2> HIDE DEF t3, i, t1
  <2> QED
    BY <2>1, <2>2, <2>3
<1> QED
  BY <1>3, <1>4

-------------------------------------------------------------------------------
(* The verdicts, from a table that is true to the history. *)

LEMMA CaptureRests ==
  ASSUME NEW lg \in Seq(Burst), NEW s, NEW t, TrackInv(lg, s, t), NEW i \in DOMAIN t.clusters,
         captures(s, t, i)
  PROVE  LET r == t.clusters[i].repr
         IN  /\ r \in Payloads
             /\ Cardinality(As(lg, s, r)) >= MatchesNeeded
             /\ s # Ir => Cardinality({lg[j].press : j \in As(lg, s, r)}) >= RfPressesNeeded
<1> DEFINE c == t.clusters[i]
           P == {lg[j].press : j \in As(lg, s, c.repr)}
           Q == PressesUpTo(lg, s, c.repr, c.lastGroup)
<1>1. c \in Cluster
  BY LenProperties, ElementOfSeq DEF TrackInv, TrackType, Track
<1>2. /\ c.count <= Cardinality(As(lg, s, c.repr)) /\ c.groupCount <= Cardinality(Q)
  BY DEF TrackInv, CountBacked
<1>3. c.count >= MatchesNeeded /\ (s = Ir \/ c.groupCount >= RfPressesNeeded)
  BY DEF captures
<1>4. /\ IsFiniteSet(As(lg, s, c.repr)) /\ Cardinality(As(lg, s, c.repr)) \in Nat
      /\ Cardinality(Q) \in Nat
  BY HeardFinite
<1>5. IsFiniteSet(P) /\ Cardinality(P) \in Nat
  <2> DEFINE press == [j \in As(lg, s, c.repr) |-> lg[j].press]
  <2>1. press \in Surjection(As(lg, s, c.repr), P)
    BY DEF Surjection
  <2> HIDE DEF P, press, c
  <2> QED
    BY <1>4, <2>1, FS_Surjection, FS_CardinalityType
<1>6. Cardinality(Q) <= Cardinality(P)
  <2>1. Q \in SUBSET P
    BY DEF PressesUpTo
  <2> HIDE DEF P, Q
  <2> QED
    BY <1>5, <2>1, FS_Subset
<1>7. c.repr \in Payloads /\ c.count \in Nat /\ c.groupCount \in Nat
  <2> HIDE DEF c
  <2> QED
    BY <1>1, MachineAssumption DEF Cluster
<1> HIDE DEF P, Q, c
<1>8. Cardinality(As(lg, s, c.repr)) >= MatchesNeeded
  BY <1>2, <1>3, <1>4, <1>7, MachineAssumption
<1>9. s # Ir => Cardinality(P) >= RfPressesNeeded
  BY <1>2, <1>3, <1>4, <1>5, <1>6, <1>7, MachineAssumption
<1> QED
  BY <1>7, <1>8, <1>9 DEF P, c

\* The payloads behind a rolling verdict are those of distinct clusters.
LEMMA RollingRests ==
  ASSUME NEW lg \in Seq(Burst), NEW s, NEW t, TrackInv(lg, s, t), checkRolling(t)
  PROVE  \E R \in SUBSET Payloads :
           /\ Cardinality(R) >= RollingPressesNeeded
           /\ \A p, q \in R : p # q => <<p, q>> \notin Near
           /\ \E a \in R : \A p \in R : <<a, p>> \in Alike
           /\ \A p \in R : \E k \in {lg[i].press : i \in {i \in DOMAIN lg : lg[i].src = s}} :
                In(lg, s, k) # {} /\ In(lg, s, k) \subseteq As(lg, s, p)
<1>1. /\ \A b \in DOMAIN t.clusters : t.clusters[b] \in Cluster
      /\ DOMAIN t.clusters = 1 .. Len(t.clusters) /\ Len(t.clusters) \in Nat
  BY LenProperties, ElementOfSeq DEF TrackInv, TrackType, Track
<1>2. ASSUME NEW b \in soleContents(t)
      PROVE  /\ b \in DOMAIN t.clusters
             /\ \E k \in DOMAIN t.groups :
                  /\ In(lg, s, k) # {}
                  /\ In(lg, s, k) \subseteq As(lg, s, t.clusters[b].repr)
  <2>1. PICK k \in DOMAIN t.groups :
          t.groups[k].firstCluster = b /\ b # 0 /\ ~t.groups[k].dirty
    BY DEF soleContents
  <2>2. GroupTrue(lg, s, t, k)
    BY <2>1 DEF TrackInv
  <2> QED
    BY <2>1, <2>2 DEF GroupTrue
<1>3. PICK a \in soleContents(t) :
        Cardinality({b \in soleContents(t) : <<t.clusters[a].repr, t.clusters[b].repr>> \in Alike})
          >= RollingPressesNeeded
  BY DEF checkRolling
<1> DEFINE B == {b \in soleContents(t) : <<t.clusters[a].repr, t.clusters[b].repr>> \in Alike}
           R == {t.clusters[b].repr : b \in B}
           f == [b \in B |-> t.clusters[b].repr]
<1>4. IsFiniteSet(B)
  <2>1. IsFiniteSet(1 .. Len(t.clusters))
    BY <1>1, FS_Interval
  <2>2. B \in SUBSET (1 .. Len(t.clusters))
    BY <1>1, <1>2
  <2> HIDE DEF B
  <2> QED
    BY <2>1, <2>2, FS_Subset
<1>5. \A b, c \in B : b # c => <<t.clusters[b].repr, t.clusters[c].repr>> \notin Near
  BY <1>2 DEF TrackInv, Distinct
<1>6. \A b \in B : t.clusters[b].repr \in Payloads
  BY <1>1, <1>2 DEF Cluster
<1>7. f \in Surjection(B, R) /\ f \in Injection(B, R)
  <2>1. f \in [B -> R] /\ \A p \in R : \E b \in B : f[b] = p
    OBVIOUS
  <2>2. f \in Surjection(B, R)
    <3> HIDE DEF f, B, R
    <3> QED
      BY <2>1 DEF Surjection
  <2>3. ASSUME NEW b \in B, NEW c \in B, f[b] = f[c] PROVE b = c
    <3>1. t.clusters[b].repr = t.clusters[c].repr /\ t.clusters[b].repr \in Payloads
      BY <1>6, <2>3
    <3>2. <<t.clusters[b].repr, t.clusters[c].repr>> \in Near
      BY <3>1, MachineAssumption
    <3> QED
      BY <1>5, <3>2
  <2>4. \A b, c \in B : f[b] = f[c] => b = c
    <3> HIDE DEF f, B, R
    <3> QED
      BY <2>3
  <2> HIDE DEF f, B, R
  <2> QED
    BY <2>1, <2>2, <2>4 DEF Injection, IsInjective
<1>8. Cardinality(R) >= RollingPressesNeeded
  <2>1. Cardinality(B) >= RollingPressesNeeded
    BY <1>3
  <2> HIDE DEF f, B, R
  <2>2. Cardinality(R) = Cardinality(B)
    BY <1>4, <1>7, FS_Surjection
  <2> QED
    BY <2>1, <2>2
<1>9. R \in SUBSET Payloads /\ \A p, q \in R : p # q => <<p, q>> \notin Near
  BY <1>5, <1>6
<1>10. \E x \in R : \A p \in R : <<x, p>> \in Alike
  <2>1. a \in B
    BY <1>1, <1>2, MachineAssumption DEF Cluster
  <2> QED
    BY <2>1
<1>11. ASSUME NEW p \in R
       PROVE  \E k \in {lg[i].press : i \in {i \in DOMAIN lg : lg[i].src = s}} :
                In(lg, s, k) # {} /\ In(lg, s, k) \subseteq As(lg, s, p)
  <2>1. PICK b \in B : p = t.clusters[b].repr
    OBVIOUS
  <2>2. PICK k \in DOMAIN t.groups :
          In(lg, s, k) # {} /\ In(lg, s, k) \subseteq As(lg, s, t.clusters[b].repr)
    BY <1>2
  <2>3. PICK j \in In(lg, s, k) : TRUE
    BY <2>2
  <2>4. j \in DOMAIN lg /\ lg[j].src = s /\ lg[j].press = k
    BY DEF In
  <2> QED
    BY <2>1, <2>2, <2>4
<1> HIDE DEF R
<1> QED
  BY <1>8, <1>9, <1>10, <1>11


-------------------------------------------------------------------------------
(* The steps. *)

LEMMA NoTracksInv ==
  /\ NoTracks \in [Sources -> Track]
  /\ \A s \in Sources : TrackInv(<<>>, s, NoTracks[s])
<1>1. <<>> \in Seq(Cluster) /\ <<>> \in Seq(Group) /\ Len(<<>>) = 0 /\ DOMAIN <<>> = {}
  BY EmptySeq
<1>2. EmptyTrack \in Track
  BY <1>1 DEF EmptyTrack, Track
<1>3. ASSUME NEW s PROVE TrackInv(<<>>, s, EmptyTrack)
  BY <1>1, <1>2, MachineAssumption
     DEF TrackInv, TrackType, PressesNumbered, Distinct, EmptyTrack
<1> QED
  BY <1>2, <1>3 DEF NoTracks

\* The emptied tracks have their type.
LEMMA ClearedTyped ==
  /\ NoTracks \in [Sources -> Track]
  /\ \A s \in Sources : Len(NoTracks[s].clusters) <= MaxClusters
                        /\ Len(NoTracks[s].groups) <= MaxGroups
BY NoTracksInv DEF TrackInv, TrackType

LEMMA InitInv == Init => Inv
<1> SUFFICES ASSUME Init PROVE Inv
  OBVIOUS
<1>1. TypeOK
  BY ClearedTyped, EmptySeq DEF Init, TypeOK, States, Reasons
<1> QED
  BY <1>1 DEF Init, Inv, CaptureIsHeard, RollingIsEarned

LEMMA ResetInv ==
  ASSUME NEW next \in {"Idle", "Listening"}, reset(next) PROVE Inv'
<1>1. TypeOK'
  BY ClearedTyped, EmptySeq DEF reset, TypeOK, States, Reasons
<1> QED
  BY <1>1, NoTracksInv DEF reset, Inv, CaptureIsHeard, RollingIsEarned

LEMMA TickInv ==
  ASSUME Inv, tick PROVE Inv'
<1>1. TypeOK'
  BY ClearedTyped DEF Inv, tick, fail, TypeOK, States, Reasons
<1> QED
  BY <1>1 DEF tick, fail, Inv, CaptureIsHeard, RollingIsEarned

\* What a burst does, apart from the verdict it may lead to.
LEMMA FeedKeepsTracks ==
  ASSUME Inv, NEW src \in Sources, NEW p \in Payloads \cup {Malformed},
         NEW newGroup \in BOOLEAN, feedBurst(src, p, newGroup)
  PROVE  LET t == fed(tracks[src], p, newGroup)
             i == slotFed(tracks[src], p, newGroup)
         IN  /\ state = "Listening" /\ log' \in Seq(Burst) /\ log' # <<>>
             /\ TrackInv(log', src, t) /\ Survives(tracks[src], t)
             /\ i # 0 => i \in DOMAIN t.clusters
             /\ \A s \in Sources \ {src} : TrackInv(log', s, tracks[s])
<1> DEFINE t == fed(tracks[src], p, newGroup)
           i == slotFed(tracks[src], p, newGroup)
           b == [src |-> src, payload |-> p, press |-> t.curGroup]
<1>1. /\ state = "Listening" /\ log' = Append(log, b)
      /\ tracks[src].curGroup = 0 => newGroup
  BY DEF feedBurst
<1>2. log \in Seq(Burst) /\ \A s \in Sources : TrackInv(log, s, tracks[s])
  BY <1>1 DEF Inv, TypeOK
<1>3. /\ TrackInv(log', src, t) /\ b \in Burst /\ Survives(tracks[src], t)
      /\ i # 0 => i \in DOMAIN t.clusters
  BY <1>1, <1>2, FedKeepsTrack
<1>4. log' \in Seq(Burst) /\ log' # <<>>
  <2> HIDE DEF b
  <2> QED
    BY <1>1, <1>2, <1>3, HistoryGrows
<1>5. ASSUME NEW s \in Sources \ {src} PROVE TrackInv(log', s, tracks[s])
  <2>1. b.src # s
    OBVIOUS
  <2> HIDE DEF b
  <2> QED
    BY <1>1, <1>2, <1>3, <2>1, UnheardKeepsTrack
<1> HIDE DEF t, i, b
<1> QED
  BY <1>1, <1>3, <1>4, <1>5 DEF t, i

LEMMA FeedInv ==
  ASSUME Inv, NEW src \in Sources, NEW p \in Payloads \cup {Malformed},
         NEW newGroup \in BOOLEAN, feedBurst(src, p, newGroup)
  PROVE  Inv'
<1> DEFINE t == fed(tracks[src], p, newGroup)
           i == slotFed(tracks[src], p, newGroup)
<1>1. /\ state = "Listening" /\ log' \in Seq(Burst)
      /\ TrackInv(log', src, t)
      /\ i # 0 => i \in DOMAIN t.clusters
      /\ \A s \in Sources \ {src} : TrackInv(log', s, tracks[s])
  BY FeedKeepsTracks
<1>2. /\ state \in States /\ reason \in Reasons /\ code \in {NoCode} \cup Code
      /\ tracks \in [Sources -> Track]
      /\ \A s \in Sources : /\ Len(tracks[s].clusters) <= MaxClusters
                            /\ Len(tracks[s].groups) <= MaxGroups
  BY DEF Inv, TypeOK
<1>3. IF captures(src, t, i) THEN capture(src, t.clusters[i])
      ELSE IF src # Ir /\ checkRolling(t) THEN fail("Rolling")
      ELSE /\ tracks' = [tracks EXCEPT ![src] = t]
           /\ UNCHANGED <<state, reason, code>>
  BY DEF feedBurst
<1> HIDE DEF t, i
<1>4. CASE captures(src, t, i)
  <2>1. i \in DOMAIN t.clusters
    BY <1>1, <1>4 DEF captures
  <2> DEFINE r == t.clusters[i].repr
  <2>2. /\ r \in Payloads
        /\ Cardinality(As(log', src, r)) >= MatchesNeeded
        /\ src # Ir => Cardinality({log'[j].press : j \in As(log', src, r)}) >= RfPressesNeeded
    BY <1>1, <1>4, <2>1, CaptureRests
  <2>3. /\ state' = "Captured" /\ tracks' = NoTracks /\ reason' = reason
        /\ code' = [kind |-> "Code", src |-> src, repr |-> r]
    BY <1>3, <1>4 DEF capture
  <2> HIDE DEF r
  <2>4. TypeOK'
    <3>1. code' \in Code
      BY <2>2, <2>3 DEF Code
    <3> QED
      BY <1>1, <1>2, <2>3, <3>1, ClearedTyped DEF TypeOK, States
  <2>5. CaptureIsHeard'
    BY <2>2, <2>3 DEF CaptureIsHeard, HeardAs, As
  <2> QED
    BY <2>3, <2>4, <2>5 DEF Inv, RollingIsEarned
<1>5. CASE ~captures(src, t, i) /\ src # Ir /\ checkRolling(t)
  <2>1. /\ state' = "Failed" /\ reason' = "Rolling" /\ tracks' = NoTracks /\ code' = code
    BY <1>3, <1>5 DEF fail
  <2>2. TypeOK'
    BY <1>1, <1>2, <2>1, ClearedTyped DEF TypeOK, States, Reasons
  <2>3. RollingIsEarned'
    <3>1. PICK R \in SUBSET Payloads :
            /\ Cardinality(R) >= RollingPressesNeeded
            /\ \A x, y \in R : x # y => <<x, y>> \notin Near
            /\ \E a \in R : \A x \in R : <<a, x>> \in Alike
            /\ \A x \in R : \E k \in {log'[j].press : j \in {j \in DOMAIN log' : log'[j].src = src}} :
                 In(log', src, k) # {} /\ In(log', src, k) \subseteq As(log', src, x)
      BY <1>1, <1>5, RollingRests
    <3>2. src \in Sources \ {Ir}
      BY <1>5
    <3> QED
      BY <3>1, <3>2 DEF RollingIsEarned, Presses, HeardIn, HeardAs, In, As
  <2> QED
    BY <2>1, <2>2, <2>3 DEF Inv, CaptureIsHeard
<1>6. CASE ~captures(src, t, i) /\ ~(src # Ir /\ checkRolling(t))
  <2>1. tracks' = [tracks EXCEPT ![src] = t] /\ state' = state /\ reason' = reason /\ code' = code
    BY <1>3, <1>6
  <2>2. tracks'[src] = t /\ \A s \in Sources \ {src} : tracks'[s] = tracks[s]
    BY <1>2, <2>1
  <2>3. \A s \in Sources : TrackInv(log', s, tracks'[s])
    BY <1>1, <2>2
  <2>4. TypeOK'
    <3>1. t \in Track /\ Len(t.clusters) <= MaxClusters /\ Len(t.groups) <= MaxGroups
      BY <1>1 DEF TrackInv, TrackType
    <3>2. tracks' \in [Sources -> Track]
      BY <1>2, <2>1, <3>1
    <3> QED
      BY <1>1, <1>2, <2>1, <2>2, <3>1, <3>2 DEF TypeOK
  <2> QED
    BY <1>1, <2>1, <2>3, <2>4 DEF Inv, CaptureIsHeard, RollingIsEarned
<1> QED
  BY <1>4, <1>5, <1>6

LEMMA NextInv == Inv /\ [Next]_vars => Inv'
<1> SUFFICES ASSUME Inv, [Next]_vars PROVE Inv'
  OBVIOUS
<1>1. CASE begin
  BY <1>1, ResetInv DEF begin
<1>2. CASE cancel
  BY <1>2, ResetInv DEF cancel
<1>3. CASE takeCode
  BY <1>3, ResetInv DEF takeCode
<1>4. CASE tick
  BY <1>4, TickInv
<1>5. CASE \E src \in Sources, p \in Payloads \cup {Malformed}, newGroup \in BOOLEAN :
             feedBurst(src, p, newGroup)
  BY <1>5, FeedInv
<1>6. CASE UNCHANGED vars
  <2>1. state' = state /\ reason' = reason /\ code' = code /\ tracks' = tracks /\ log' = log
    BY <1>6 DEF vars
  <2>2. TypeOK'
    BY <2>1 DEF Inv, TypeOK
  <2>3. CaptureIsHeard'
    BY <2>1 DEF Inv, CaptureIsHeard, HeardAs
  <2>4. RollingIsEarned'
    BY <2>1 DEF Inv, RollingIsEarned, HeardIn, HeardAs, Presses
  <2>5. state' = "Listening" => \A s \in Sources : TrackInv(log', s, tracks'[s])
    BY <2>1 DEF Inv
  <2> QED
    BY <2>2, <2>3, <2>4, <2>5 DEF Inv
<1> QED
  BY <1>1, <1>2, <1>3, <1>4, <1>5, <1>6 DEF Next

LEMMA Invariance == Spec => []Inv
BY InitInv, NextInv, PTL DEF Spec

-------------------------------------------------------------------------------
(* The tables stay within their bounds and every field within its range, whatever is
   received: LearnMachine's fixed arrays in learn_machine.h. *)
THEOREM TypeCorrect == Spec => []TypeOK
<1>1. Inv => TypeOK
  BY DEF Inv
<1> QED
  BY <1>1, Invariance, PTL

(* A code is captured only when its source was heard to send it often enough, in two
   presses for RF: what considerForCapture() reads off a table of reused slots and
   capped counts is true of the bursts themselves. *)
THEOREM CapturesAreHeard == Spec => []CaptureIsHeard
<1>1. Inv => CaptureIsHeard
  BY DEF Inv
<1> QED
  BY <1>1, Invariance, PTL

(* A clean group's press held its cluster's payload and nothing else, whatever was
   evicted since: the clean-up of groups when clusterFor() reuses a slot. *)
THEOREM PressBookIsTrue == Spec => []PressesTellTheTruth
<1>1. Inv => PressesTellTheTruth
  <2> SUFFICES ASSUME Inv, state = "Listening",
                      NEW s \in Sources, NEW k \in DOMAIN tracks[s].groups,
                      tracks[s].groups[k].firstCluster # 0, ~tracks[s].groups[k].dirty
               PROVE  LET g == tracks[s].groups[k]
                      IN  /\ g.firstCluster \in DOMAIN tracks[s].clusters
                          /\ HeardIn(s, k) # {}
                          /\ HeardIn(s, k) \subseteq
                               HeardAs(s, tracks[s].clusters[g.firstCluster].repr)
    BY DEF PressesTellTheTruth
  <2>1. GroupTrue(log, s, tracks[s], k)
    BY DEF Inv, TrackInv
  <2> QED
    BY <2>1 DEF GroupTrue, In, As, HeardIn, HeardAs
<1> QED
  BY <1>1, Invariance, PTL

(* A remote is refused as rolling only on three payloads of one structure, no two of
   which match, each alone in a press of one RF band: checkRolling() counts clusters,
   and the theorem says they stand for presses that were really heard. *)
THEOREM RollingVerdictsEarned == Spec => []RollingIsEarned
<1>1. Inv => RollingIsEarned
  BY DEF Inv
<1> QED
  BY <1>1, Invariance, PTL

(* No burst of any source displaces an established cluster or lowers its counts while
   the session goes on: clusterFor() evicts only the weakest of the others. *)
THEOREM EstablishedClustersSurvive == Spec => EstablishedSurvives
<1>1. ASSUME Inv, [Next]_vars, state = "Listening", state' = "Listening", log' # <<>>,
             NEW s \in Sources, NEW i \in DOMAIN tracks[s].clusters,
             Established(tracks[s].clusters[i])
      PROVE  LET c == tracks[s].clusters[i]
             IN  /\ tracks'[s].clusters[i].repr = c.repr
                 /\ tracks'[s].clusters[i].count >= c.count
                 /\ tracks'[s].clusters[i].groupCount >= c.groupCount
  <2>1. tracks[s].clusters[i].count \in Nat /\ tracks[s].clusters[i].groupCount \in Nat
    <3>1. tracks[s].clusters \in Seq(Cluster)
      BY <1>1 DEF Inv, TypeOK, Track
    <3>2. tracks[s].clusters[i] \in Cluster
      BY <3>1, LenProperties, ElementOfSeq
    <3> QED
      BY <3>2, MachineAssumption DEF Cluster
  <2>2. CASE tracks' = tracks
    BY <2>1, <2>2
  <2>3. ASSUME NEW src \in Sources, NEW p \in Payloads \cup {Malformed},
               NEW newGroup \in BOOLEAN, feedBurst(src, p, newGroup)
        PROVE  Survives(tracks[s], tracks'[s])
    <3> DEFINE t == fed(tracks[src], p, newGroup)
    <3>1. Survives(tracks[src], t)
      BY <1>1, <2>3, FeedKeepsTracks
    <3>2. tracks' = [tracks EXCEPT ![src] = t]
      BY <1>1, <2>3 DEF feedBurst, capture, fail
    <3> HIDE DEF t
    <3>3. tracks \in [Sources -> Track]
      BY <1>1 DEF Inv, TypeOK
    <3>4. CASE s = src
      BY <3>1, <3>2, <3>3, <3>4
    <3>5. CASE s # src
      <4>1. tracks'[s] = tracks[s]
        BY <3>2, <3>3, <3>5
      <4>2. \A j \in DOMAIN tracks[s].clusters :
              tracks[s].clusters[j].count \in Nat /\ tracks[s].clusters[j].groupCount \in Nat
        <5>1. tracks[s].clusters \in Seq(Cluster)
          BY <3>3 DEF Track
        <5>2. \A j \in DOMAIN tracks[s].clusters : tracks[s].clusters[j] \in Cluster
          BY <5>1, LenProperties, ElementOfSeq
        <5> QED
          BY <5>2, MachineAssumption DEF Cluster
      <4> QED
        BY <4>1, <4>2 DEF Survives
    <3> QED
      BY <3>4, <3>5
  <2>4. CASE \E src \in Sources, p \in Payloads \cup {Malformed}, newGroup \in BOOLEAN :
               feedBurst(src, p, newGroup)
    BY <1>1, <2>3, <2>4 DEF Survives
  <2> QED
    BY <1>1, <2>2, <2>4 DEF Next, vars, begin, cancel, takeCode, tick, reset, fail
<1>2. Inv /\ [Next]_vars =>
        [state = "Listening" /\ state' = "Listening" /\ log' # <<>> =>
           \A s \in Sources : \A i \in DOMAIN tracks[s].clusters :
             LET c == tracks[s].clusters[i]
             IN  Established(c) =>
                   /\ tracks'[s].clusters[i].repr = c.repr
                   /\ tracks'[s].clusters[i].count >= c.count
                   /\ tracks'[s].clusters[i].groupCount >= c.groupCount]_vars
  BY <1>1
<1> QED
  BY <1>2, Invariance, PTL DEF Spec, EstablishedSurvives

-------------------------------------------------------------------------------
(* The payloads.  To the machine they are values under two relations; here they are *)
(* pulse trains, matched and de-clipped by the operators of Pulses.                 *)

\* Pulse trains: no empty train, no empty pulse.
Trains == Seq(Nat \ {0}) \ {<<>>}

\* A nonempty set of naturals has a least element.
LEMMA LeastNatural ==
  ASSUME NEW T \in SUBSET Nat, T # {}
  PROVE  \E m \in T : \A n \in T : m <= n
<1> DEFINE R == {ss \in Nat \X Nat : ss[1] < ss[2]}
<1>1. IsWellFoundedOn(R, Nat)
  BY NatLessThanWellFounded, Zenon DEF OpToRel
<1>2. \E m \in T : \A n \in T : ~(<<n, m>> \in R)
  <2> HIDE DEF R
  <2> QED BY <1>1, WFMin
<1>3. \A m, n \in T : n < m => <<n, m>> \in R
  OBVIOUS
<1>4. \A m, n \in T : n < m \/ m <= n
  OBVIOUS
<1> HIDE DEF R
<1> QED BY <1>2, <1>3, <1>4

\* The least and the greatest of a set of durations.
LEMMA MinIsLeast ==
  ASSUME NEW T \in SUBSET Nat, T # {}
  PROVE  Min(T) \in T /\ \A n \in T : Min(T) <= n
BY LeastNatural DEF Min

LEMMA MaxIsGreatest ==
  ASSUME NEW T \in SUBSET Nat, T # {}, IsFiniteSet(T)
  PROVE  Max(T) \in T /\ \A n \in T : n <= Max(T)
<1> DEFINE up(x) == {y \in T : x <= y}
           sizes == {Cardinality(up(x)) : x \in T}
<1>1. \A m \in T : IsFiniteSet(up(m)) /\ Cardinality(up(m)) \in Nat
  <2> TAKE m \in T
  <2>1. up(m) \subseteq T
    OBVIOUS
  <2> HIDE DEF up
  <2> QED BY <2>1, FS_Subset, FS_CardinalityType
<1>2. PICK k \in sizes : \A j \in sizes : k <= j
  <2>1. sizes \subseteq Nat /\ sizes # {}
    <3> HIDE DEF up
    <3> QED BY <1>1
  <2> HIDE DEF sizes
  <2> QED BY <2>1, LeastNatural
<1>3. PICK m \in T : k = Cardinality(up(m))
  BY <1>2
<1>4. ASSUME NEW n \in T, ~(n <= m)
      PROVE  FALSE
  <2>0. m \in Nat /\ n \in Nat /\ m < n /\ (\A x \in T : x \in Nat)
    BY <1>4
  <2>1. up(n) \subseteq up(m) /\ m \in up(m) /\ m \notin up(n)
    <3>1. (\A y \in T : n <= y => m <= y) /\ m <= m /\ ~(n <= m)
      BY <2>0
    <3> QED BY <3>1, Zenon
  <2>2. Cardinality(up(n)) < Cardinality(up(m))
    <3> HIDE DEF up
    <3>1. IsFiniteSet(up(m))
      BY <1>1
    <3>2. Cardinality(up(n)) <= Cardinality(up(m)) /\ Cardinality(up(n)) # Cardinality(up(m))
      <4>1. up(n) # up(m)
        BY <2>1
      <4> QED BY <2>1, <3>1, <4>1, FS_Subset
    <3> QED BY <3>2, <1>1
  <2>3. Cardinality(up(n)) \in sizes
    OBVIOUS
  <2> HIDE DEF up, sizes
  <2> QED BY <1>1, <1>2, <1>3, <2>2, <2>3
<1>5. \A n \in T : n <= m
  BY <1>4
<1>6. \E x \in T : \A y \in T : x >= y
  BY <1>3, <1>5
<1> HIDE DEF up, sizes
<1> QED BY <1>6 DEF Max

\* Durations match themselves, and either way round.
LEMMA DurationsMatchIsTolerance ==
  ASSUME NEW a \in Nat, NEW b \in Nat
  PROVE  durationsMatch(a, a) /\ (durationsMatch(a, b) <=> durationsMatch(b, a))
BY PulsesAssumption DEF durationsMatch

\* burstsMatch and structurallyAlike are what MachineAssumption asks of Near and Alike:
\* reflexive and symmetric on the trains wellFormed lets through (signal_match.cpp:25,35).
THEOREM TrainsMatchAsAssumed ==
  /\ \A p \in Trains : burstsMatch(p, p) /\ structurallyAlike(p, p)
  /\ \A p, q \in Trains : /\ burstsMatch(p, q) <=> burstsMatch(q, p)
                          /\ structurallyAlike(p, q) <=> structurallyAlike(q, p)
<1>1. ASSUME NEW p \in Trains
      PROVE  Len(p) \in Nat \ {0} /\ (\A i \in 1 .. Len(p) : p[i] \in Nat) /\ Min(Elements(p)) \in Nat
  <2>1. p \in Seq(Nat) /\ Len(p) \in Nat \ {0} /\ DOMAIN p = 1 .. Len(p) /\ \A i \in 1 .. Len(p) : p[i] \in Nat
    BY DEF Trains
  <2>2. Elements(p) \subseteq Nat /\ Elements(p) # {}
    BY <2>1 DEF Elements
  <2> QED BY <2>1, <2>2, MinIsLeast
<1>2. ASSUME NEW p \in Trains
      PROVE  burstsMatch(p, p) /\ structurallyAlike(p, p)
  BY <1>1, DurationsMatchIsTolerance DEF burstsMatch, structurallyAlike
<1>3. ASSUME NEW p \in Trains, NEW q \in Trains
      PROVE  /\ burstsMatch(p, q) <=> burstsMatch(q, p)
             /\ structurallyAlike(p, q) <=> structurallyAlike(q, p)
  <2>1. burstsMatch(p, q) <=> burstsMatch(q, p)
    <3>1. ASSUME Len(p) = Len(q), NEW i \in 1 .. Len(p)
          PROVE  durationsMatch(p[i], q[i]) <=> durationsMatch(q[i], p[i])
      BY <1>1, <3>1, DurationsMatchIsTolerance
    <3> QED BY <3>1 DEF burstsMatch
  <2>2. structurallyAlike(p, q) <=> structurallyAlike(q, p)
    BY <1>1, DurationsMatchIsTolerance DEF structurallyAlike
  <2> QED BY <2>1, <2>2
<1> QED BY <1>2, <1>3

\* Marks and spaces keep their places when a train is cut at a space.
LEMMA Parity ==
  ASSUME NEW a \in Nat, NEW b \in Nat, a % 2 = 1
  PROVE  /\ a <= b /\ b % 2 = 1 => (b - a + 1) % 2 = 1
         /\ (a + b - 1) % 2 = 1 <=> b % 2 = 1
OBVIOUS

\* Where the frames of a burst are.
LEMMA FrameBounds ==
  ASSUME NEW in \in Seq(Nat \ {0}), NEW f \in starts(in), Len(in) % 2 = 1
  PROVE  \E e \in f .. Len(in) :
           /\ frameAt(in, f) = SubSeq(in, f, e) /\ f % 2 = 1 /\ e % 2 = 1
           /\ \A i \in f .. e : i \notin resets(in)
<1>1. /\ Len(in) \in Nat /\ DOMAIN in = 1 .. Len(in)
      /\ resets(in) \subseteq 1 .. Len(in) /\ \A i \in resets(in) : i % 2 # 1
  BY DEF resets, IsMark
<1>2. f \in 1 .. Len(in) /\ f % 2 = 1
  <2>1. f \in 1 .. Len(in) /\ (f = 1 \/ f - 1 \in resets(in))
    BY <1>1 DEF starts
  <2> QED BY <1>1, <2>1
<1> DEFINE ends == {i \in resets(in) : i > f}
<1>3. CASE ends = {}
  <2>1. frameAt(in, f) = SubSeq(in, f, Len(in))
    BY <1>3 DEF frameAt
  <2>2. \A i \in f .. Len(in) : i \notin resets(in)
    BY <1>1, <1>2, <1>3
  <2>3. Len(in) \in f .. Len(in)
    BY <1>1, <1>2
  <2> QED BY <1>2, <2>1, <2>2, <2>3
<1>4. CASE ends # {}
  <2>1. ends \subseteq Nat
    BY <1>1
  <2>2. Min(ends) \in ends /\ \A n \in ends : Min(ends) <= n
    <3> HIDE DEF ends
    <3> QED BY <1>4, <2>1, MinIsLeast
  <2> DEFINE e == Min(ends) - 1
  <2>3. frameAt(in, f) = SubSeq(in, f, e)
    BY <1>4 DEF frameAt
  <2>4. e \in f .. Len(in) /\ e % 2 = 1
    <3>1. Min(ends) \in 1 .. Len(in) /\ Min(ends) > f /\ Min(ends) % 2 # 1
      BY <1>1, <2>2
    <3> QED BY <3>1, <1>2
  <2>5. \A i \in f .. e : i \notin resets(in)
    <3> SUFFICES ASSUME NEW i \in f .. e, i \in resets(in) PROVE FALSE
      OBVIOUS
    <3>1. i # f
      BY <1>1, <1>2
    <3>2. i \in ends
      BY <1>2, <2>4, <3>1
    <3>3. Min(ends) <= i /\ Min(ends) \in Nat
      BY <2>1, <2>2, <3>2
    <3> HIDE DEF ends
    <3> QED BY <3>3, <1>2, <2>4
  <2> HIDE DEF ends
  <2> QED BY <1>2, <2>3, <2>4, <2>5
<1> QED BY <1>3, <1>4

\* What is in a frame.
LEMMA FrameContent ==
  ASSUME NEW in \in Seq(Nat \ {0}), Len(in) % 2 = 1, NEW f \in starts(in)
  PROVE  LET fr == frameAt(in, f)
         IN  /\ fr \in Seq(Nat \ {0}) /\ Len(fr) \in 1 .. Len(in) /\ Len(fr) % 2 = 1
             /\ \A i \in 1 .. Len(fr) : \E j \in 1 .. Len(in) : fr[i] = in[j]
             /\ \A i \in 1 .. Len(fr) : ~IsMark(i) => fr[i] < ResetGapMinUs
<1> DEFINE fr == frameAt(in, f)
<1>1. PICK e \in f .. Len(in) :
           /\ fr = SubSeq(in, f, e) /\ f % 2 = 1 /\ e % 2 = 1
           /\ \A i \in f .. e : i \notin resets(in)
  BY FrameBounds
<1>2. f \in 1 .. Len(in) /\ Len(in) \in Nat /\ DOMAIN in = 1 .. Len(in) /\ e \in 1 .. Len(in)
  BY DEF starts
<1>3. fr \in Seq(Nat \ {0}) /\ Len(fr) = e - f + 1 /\ \A i \in 1 .. e - f + 1 : fr[i] = in[f + i - 1]
  <2> HIDE DEF fr
  <2>1. \A i \in f .. e : in[i] \in Nat \ {0}
    BY <1>2
  <2> QED BY <1>1, <1>2, <2>1, SubSeqProperties
<1>4. Len(fr) \in 1 .. Len(in) /\ Len(fr) % 2 = 1
  <2> HIDE DEF fr
  <2>1. (e - f + 1) % 2 = 1 /\ e - f + 1 \in 1 .. Len(in)
    <3>1. e \in Nat /\ f \in Nat /\ Len(in) \in Nat /\ 1 <= f /\ f <= e /\ e <= Len(in)
      BY <1>2
    <3>2. (e - f + 1) % 2 = 1
      BY <1>1, <3>1, Parity
    <3> QED BY <3>1, <3>2
  <2> QED BY <1>3, <2>1
<1>5. ASSUME NEW i \in 1 .. Len(fr)
      PROVE  /\ f + i - 1 \in f .. e /\ f + i - 1 \in 1 .. Len(in) /\ fr[i] = in[f + i - 1]
             /\ ~IsMark(i) => fr[i] < ResetGapMinUs
  <2> HIDE DEF fr
  <2>1. f + i - 1 \in f .. e /\ f + i - 1 \in 1 .. Len(in) /\ fr[i] = in[f + i - 1]
    <3>1. i \in 1 .. e - f + 1
      BY <1>3
    <3>2. e \in Nat /\ f \in Nat /\ Len(in) \in Nat /\ 1 <= f /\ f <= e /\ e <= Len(in)
      BY <1>2
    <3>3. f + i - 1 \in f .. e /\ f + i - 1 \in 1 .. Len(in)
      BY <3>1, <3>2
    <3> QED BY <1>3, <3>1, <3>3
  <2>2. ASSUME ~IsMark(i) PROVE ~IsMark(f + i - 1)
    <3>1. i \in Nat /\ f \in Nat /\ f % 2 = 1
      BY <1>1, <1>2, <1>4
    <3> QED BY <2>2, <3>1, Parity DEF IsMark
  <2>3. in[f + i - 1] \in Nat
    BY <2>1, <1>2
  <2>4. f + i - 1 \notin resets(in)
    BY <1>1, <2>1
  <2>5. ~IsMark(f + i - 1) => ~(in[f + i - 1] >= ResetGapMinUs)
    BY <2>1, <2>4, <1>2 DEF resets
  <2> QED BY <2>1, <2>2, <2>3, <2>5, PulsesAssumption
<1> HIDE DEF fr
<1>6. \A i \in 1 .. Len(fr) : \E j \in 1 .. Len(in) : fr[i] = in[j]
  BY <1>5
<1> QED BY <1>3, <1>4, <1>5, <1>6 DEF fr

\* The interval of a train's positions.
LEMMA UpTo ==
  ASSUME NEW n \in Nat
  PROVE  IsFiniteSet(1 .. n) /\ Cardinality(1 .. n) = n
<1>1. 1 \in Int /\ n \in Int /\ (1 > n => n = 0) /\ n - 1 + 1 = n
  OBVIOUS
<1> QED BY <1>1, FS_Interval

\* Some length of a frame is voted for.
LEMMA VoteIsCast ==
  ASSUME NEW in \in Seq(Nat \ {0}), Len(in) % 2 = 1
  PROVE  modal(in) \in {Len(frameAt(in, f)) : f \in starts(in)}
<1> DEFINE lengths == {Len(frameAt(in, f)) : f \in starts(in)}
           votes(n) == Cardinality(withLength(in, n))
           missed == {Len(in) - votes(n) : n \in lengths}
<1>1. Len(in) \in Nat /\ DOMAIN in = 1 .. Len(in) /\ 1 \in starts(in)
  <2>1. Len(in) \in Nat /\ DOMAIN in = 1 .. Len(in) /\ Len(in) # 0
    OBVIOUS
  <2> QED BY <2>1 DEF starts
<1>2. lengths \subseteq 1 .. Len(in) /\ lengths # {}
  BY <1>1, FrameContent
<1>3. \A n : votes(n) \in Nat /\ votes(n) <= Len(in)
  <2> TAKE n
  <2>1. withLength(in, n) \subseteq 1 .. Len(in)
    BY <1>1 DEF withLength, starts
  <2>2. IsFiniteSet(1 .. Len(in)) /\ Cardinality(1 .. Len(in)) = Len(in)
    BY <1>1, UpTo
  <2>3. /\ IsFiniteSet(withLength(in, n)) /\ Cardinality(withLength(in, n)) <= Len(in)
        /\ Cardinality(withLength(in, n)) \in Nat
    BY <2>1, <2>2, FS_Subset, FS_CardinalityType
  <2> QED BY <2>3
<1>4. PICK k \in lengths : \A n \in lengths : votes(n) <= votes(k)
  <2> HIDE DEF votes, lengths
  <2>1. missed \subseteq Nat /\ missed # {}
    <3>1. \A n \in lengths : Len(in) - votes(n) \in Nat
      BY <1>1, <1>3
    <3> QED BY <1>2, <3>1
  <2>2. PICK x \in missed : \A y \in missed : x <= y
    <3> HIDE DEF missed
    <3> QED BY <2>1, LeastNatural
  <2>3. PICK k \in lengths : x = Len(in) - votes(k)
    BY <2>2
  <2>4. \A n \in lengths : Len(in) - votes(k) <= Len(in) - votes(n)
    BY <2>2, <2>3
  <2>5. \A n \in lengths : votes(n) <= votes(k)
    <3> TAKE n \in lengths
    <3>1. votes(n) \in Nat /\ votes(k) \in Nat
      BY <1>3
    <3> QED BY <2>4, <3>1, <1>1
  <2> QED BY <2>5
<1> DEFINE ties == {n \in lengths : votes(n) = votes(k)}
<1>5. PICK n \in ties : \A m \in ties : m <= n
  <2> HIDE DEF votes, lengths
  <2>1. ties \subseteq 1 .. Len(in) /\ ties # {}
    BY <1>2, <1>4
  <2>2. IsFiniteSet(ties) /\ ties \subseteq Nat
    <3>1. IsFiniteSet(1 .. Len(in))
      BY <1>1, UpTo
    <3> HIDE DEF ties
    <3>2. IsFiniteSet(ties)
      BY <2>1, <3>1, FS_Subset, Zenon
    <3>3. ties \subseteq Nat
      BY <2>1
    <3> QED BY <3>2, <3>3
  <2> HIDE DEF ties
  <2> QED BY <2>1, <2>2, MaxIsGreatest
<1>6. n \in lengths /\ \A m \in lengths : \/ votes(m) < votes(n)
                                          \/ votes(m) = votes(n) /\ m <= n
  <2> HIDE DEF votes, lengths
  <2> QED BY <1>3, <1>4, <1>5
<1>7. modal(in) \in lengths
  BY <1>6 DEF modal
<1> QED BY <1>7

\* Whatever was received, the machine compares a frame: declipBurst keeps a burst's first
\* mark first and its last pulse a mark, adds no pulse, empties none and leaves no reset
\* gap inside (frame_merge.h:14-17).
THEOREM DeclippedIsAFrame ==
  ASSUME NEW in \in Seq(Nat \ {0}), Len(in) % 2 = 1
  PROVE  LET frame == declipBurst(in).frame
         IN  /\ frame \in Seq(Nat \ {0}) /\ Len(frame) % 2 = 1 /\ Len(frame) <= Len(in)
             /\ resets(frame) = {}
<1> DEFINE good(fr) == /\ fr \in Seq(Nat \ {0}) /\ Len(fr) % 2 = 1 /\ Len(fr) <= Len(in)
                       /\ \A i \in 1 .. Len(fr) : ~IsMark(i) => fr[i] < ResetGapMinUs
           n == modal(in)
           copies == {frameAt(in, f) : f \in withLength(in, n)}
<1>1. Len(in) \in Nat /\ DOMAIN in = 1 .. Len(in) /\ 1 \in starts(in) /\ \A j \in 1 .. Len(in) : in[j] \in Nat \ {0}
  <2>1. Len(in) \in Nat /\ DOMAIN in = 1 .. Len(in) /\ Len(in) # 0 /\ \A j \in 1 .. Len(in) : in[j] \in Nat \ {0}
    OBVIOUS
  <2> QED BY <2>1 DEF starts
<1>2. \A f \in starts(in) : good(frameAt(in, f))
  BY <1>1, FrameContent
<1>3. /\ copies # {} /\ n \in 1 .. Len(in) /\ n % 2 = 1
      /\ \A c \in copies : /\ good(c) /\ Len(c) = n
                           /\ \A i \in 1 .. n : \E j \in 1 .. Len(in) : c[i] = in[j]
  <2>1. PICK f \in starts(in) : Len(frameAt(in, f)) = n
    BY VoteIsCast
  <2>2. f \in withLength(in, n)
    BY <2>1 DEF withLength
  <2>3. n \in 1 .. Len(in) /\ n % 2 = 1
    BY <2>1, FrameContent
  <2>4. \A c \in copies : \E g \in starts(in) : c = frameAt(in, g) /\ Len(frameAt(in, g)) = n
    BY DEF withLength
  <2>5. ASSUME NEW c \in copies
        PROVE  good(c) /\ Len(c) = n /\ \A i \in 1 .. n : \E j \in 1 .. Len(in) : c[i] = in[j]
    <3> HIDE DEF good, copies, n
    <3>1. PICK g \in starts(in) : c = frameAt(in, g) /\ Len(frameAt(in, g)) = n
      BY <2>4
    <3>2. \A i \in 1 .. n : \E j \in 1 .. Len(in) : frameAt(in, g)[i] = in[j]
      BY <3>1, FrameContent
    <3> QED BY <1>2, <3>1, <3>2
  <2> HIDE DEF good
  <2> QED BY <2>2, <2>3, <2>5
<1>4. ASSUME NEW i \in 1 .. n
      PROVE  LET slot == {c[i] : c \in copies}
             IN  Max(slot) \in slot /\ Min(slot) \in slot
  <2> DEFINE slot == {c[i] : c \in copies}
  <2>1. slot \subseteq Elements(in) /\ slot # {}
    <3> HIDE DEF copies, n, good
    <3>1. \A c \in copies : c[i] \in {in[j] : j \in 1 .. Len(in)}
      BY <1>3
    <3>2. \E c : c \in copies
      BY <1>3
    <3>3. slot # {}
      BY <3>2
    <3>4. slot \subseteq {in[j] : j \in 1 .. Len(in)}
      BY <3>1
    <3> HIDE DEF slot
    <3> QED BY <1>1, <3>3, <3>4 DEF Elements
  <2>2. Elements(in) \subseteq Nat
    BY <1>1 DEF Elements
  <2>3. IsFiniteSet(Elements(in))
    <3>1. in \in Surjection(1 .. Len(in), Elements(in))
      BY <1>1 DEF Surjection, Elements
    <3>2. IsFiniteSet(1 .. Len(in))
      BY <1>1, UpTo
    <3> QED BY <3>1, <3>2, FS_Surjection
  <2>4. IsFiniteSet(slot) /\ slot \in SUBSET Nat
    <3> HIDE DEF slot
    <3> QED BY <2>1, <2>2, <2>3, FS_Subset
  <2> HIDE DEF slot
  <2>5. Max(slot) \in slot /\ Min(slot) \in slot
    BY <2>1, <2>4, MaxIsGreatest, MinIsLeast
  <2> QED BY <2>5 DEF slot
<1>5. good(merged(copies, n))
  <2> DEFINE m == merged(copies, n)
  <2>1. \A i \in 1 .. n : \E c \in copies : m[i] = c[i]
    <3> TAKE i \in 1 .. n
    <3>1. m[i] = IF IsMark(i) THEN Max({c[i] : c \in copies}) ELSE Min({c[i] : c \in copies})
      <4> HIDE DEF copies, n
      <4> QED BY DEF merged
    <3>2. m[i] \in {c[i] : c \in copies}
      <4> HIDE DEF copies, n, m
      <4> QED BY <3>1, <1>4
    <3> HIDE DEF copies, n, m
    <3> QED BY <3>2
  <2>2. m = [i \in 1 .. n |-> m[i]]
    <3> HIDE DEF copies, n
    <3> QED BY DEF merged
  <2> HIDE DEF copies, n, m
  <2>3. \A i \in 1 .. n : /\ m[i] \in Nat \ {0}
                          /\ ~IsMark(i) => m[i] < ResetGapMinUs
    <3> TAKE i \in 1 .. n
    <3>1. PICK c \in copies : m[i] = c[i]
      BY <2>1
    <3>2. c \in Seq(Nat \ {0}) /\ Len(c) = n /\ (~IsMark(i) => c[i] < ResetGapMinUs)
      BY <1>3
    <3>3. c[i] \in Nat \ {0}
      BY <3>2
    <3> QED BY <3>1, <3>2, <3>3
  <2>4. m \in Seq(Nat \ {0}) /\ Len(m) = n
    <3>1. n \in Nat
      BY <1>1, <1>3
    <3>2. m \in [1 .. n -> Nat \ {0}]
      BY <2>2, <2>3
    <3> QED BY <3>1, <3>2
  <2> QED BY <1>1, <1>3, <2>3, <2>4 DEF m
<1>6. good(declipBurst(in).frame)
  <2>1. declipBurst(in).frame \in {frameAt(in, 1), merged(copies, n)}
    BY DEF declipBurst
  <2> HIDE DEF good, copies, n
  <2> QED BY <1>1, <1>2, <1>5, <2>1
<1>7. ASSUME NEW fr, good(fr)
      PROVE  resets(fr) = {}
  <2>1. DOMAIN fr = 1 .. Len(fr) /\ \A i \in 1 .. Len(fr) : fr[i] \in Nat
    BY <1>7
  <2>2. \A i \in 1 .. Len(fr) : ~IsMark(i) => ~(fr[i] >= ResetGapMinUs)
    BY <1>7, <2>1, PulsesAssumption
  <2> QED BY <2>1, <2>2 DEF resets
<1> QED BY <1>6, <1>7

\* More frames have length n than any other length, or as many and the other is shorter.
WinsVote(in, n) ==
  /\ withLength(in, n) # {}
  /\ \A f \in starts(in) :
       LET m == Len(frameAt(in, f))
       IN  \/ m = n
           \/ Cardinality(withLength(in, m)) < Cardinality(withLength(in, n))
           \/ Cardinality(withLength(in, m)) = Cardinality(withLength(in, n)) /\ m < n

\* The frames as long as F are F clipped, each slot unclipped in one of them.
ClippedCopies(in, F) ==
  \A i \in 1 .. Len(F) :
    /\ \E f \in withLength(in, Len(F)) : frameAt(in, f)[i] = F[i]
    /\ \A f \in withLength(in, Len(F)) :
         IF IsMark(i) THEN frameAt(in, f)[i] <= F[i] ELSE frameAt(in, f)[i] >= F[i]

\* The frame F a remote repeats comes out of declipBurst, with the number of its copies,
\* from any burst whose frames of F's length win the vote and are F clipped, each slot
\* unclipped in some copy (frame_merge.cpp:53-87).
THEOREM ClippedFrameIsRecovered ==
  ASSUME NEW in \in Seq(Nat \ {0}), Len(in) % 2 = 1, NEW F \in Seq(Nat),
         WinsVote(in, Len(F)), ClippedCopies(in, F)
  PROVE  /\ declipBurst(in).frame = F
         /\ declipBurst(in).frames = Cardinality(withLength(in, Len(F)))
<1> DEFINE W == withLength(in, Len(F))
           copies == {frameAt(in, f) : f \in W}
           lengths == {Len(frameAt(in, f)) : f \in starts(in)}
           votes(n) == Cardinality(withLength(in, n))
<1>1. W \subseteq starts(in) /\ \A f \in W : Len(frameAt(in, f)) = Len(F)
  BY DEF withLength
<1>2. \A f \in W : frameAt(in, f) \in Seq(Nat \ {0})
  BY <1>1, FrameContent
<1>3. \A n : votes(n) \in Nat
  <2> TAKE n
  <2>1. withLength(in, n) \subseteq 1 .. Len(in)
    BY DEF withLength, starts
  <2>2. IsFiniteSet(1 .. Len(in))
    BY UpTo
  <2> HIDE DEF W, copies, lengths
  <2> QED BY <2>1, <2>2, FS_Subset, FS_CardinalityType
<1>4. modal(in) = Len(F)
  <2>1. Len(F) \in lengths /\ Len(F) \in Nat
    BY <1>1 DEF WinsVote
  <2>2. \A n \in lengths : n \in Nat
    BY FrameContent
  <2>3. \A n \in lengths :
          n # Len(F) => votes(n) < votes(Len(F)) \/ (votes(n) = votes(Len(F)) /\ n < Len(F))
    <3> TAKE n \in lengths
    <3>1. PICK f \in starts(in) : n = Len(frameAt(in, f))
      OBVIOUS
    <3>2. \/ Len(frameAt(in, f)) = Len(F)
          \/ votes(Len(frameAt(in, f))) < votes(Len(F))
          \/ votes(Len(frameAt(in, f))) = votes(Len(F)) /\ Len(frameAt(in, f)) < Len(F)
      BY Zenon DEF WinsVote
    <3> HIDE DEF votes, lengths
    <3> QED BY <3>1, <3>2, Zenon
  <2> DEFINE best(n) == n \in lengths /\ \A m \in lengths : votes(m) < votes(n) \/ (votes(m) = votes(n) /\ m <= n)
  <2>4. best(Len(F))
    <3> HIDE DEF votes, lengths
    <3> QED BY <1>3, <2>1, <2>2, <2>3
  <2>5. \A n : best(n) => n = Len(F)
    <3> HIDE DEF votes, lengths
    <3> QED BY <1>3, <2>1, <2>2, <2>3
  <2>6. best(modal(in))
    <3> DEFINE wins(n) == \A m \in {Len(frameAt(in, f)) : f \in starts(in)} :
             \/ Cardinality(withLength(in, m)) < Cardinality(withLength(in, n))
             \/ Cardinality(withLength(in, m)) = Cardinality(withLength(in, n)) /\ m <= n
    <3>1. modal(in) = CHOOSE n \in lengths : wins(n)
      BY Zenon DEF modal
    <3>2. \A n : best(n) <=> n \in lengths /\ wins(n)
      OBVIOUS
    <3> HIDE DEF lengths, wins, best
    <3> QED BY <2>4, <3>1, <3>2
  <2> HIDE DEF best
  <2> QED BY <2>5, <2>6
<1>5. merged(copies, Len(F)) = F
  <2>1. ASSUME NEW i \in 1 .. Len(F)
        PROVE  (IF IsMark(i) THEN Max({c[i] : c \in copies}) ELSE Min({c[i] : c \in copies})) = F[i]
    <3> DEFINE slot == {c[i] : c \in copies}
    <3>1. slot \subseteq Nat /\ F[i] \in slot
      <4>1. \A f \in W : frameAt(in, f)[i] \in Nat
        BY <1>1, <1>2
      <4> QED BY <4>1 DEF ClippedCopies
    <3>2. CASE IsMark(i)
      <4>1. \A x \in slot : x <= F[i]
        BY <3>2 DEF ClippedCopies
      <4> HIDE DEF slot
      <4>2. \A x \in slot : F[i] >= x
        BY <3>1, <4>1
      <4>3. \A y \in slot : (\A x \in slot : y >= x) => y = F[i]
        BY <3>1, <4>1
      <4>4. Max(slot) = F[i]
        BY <3>1, <4>2, <4>3 DEF Max
      <4> QED BY <3>2, <4>4 DEF slot
    <3>3. CASE ~IsMark(i)
      <4>1. \A x \in slot : x >= F[i]
        BY <3>3 DEF ClippedCopies
      <4> HIDE DEF slot
      <4>2. \A x \in slot : F[i] <= x
        BY <3>1, <4>1
      <4>3. \A y \in slot : (\A x \in slot : y <= x) => y = F[i]
        BY <3>1, <4>1
      <4>4. Min(slot) = F[i]
        BY <3>1, <4>2, <4>3 DEF Min
      <4> QED BY <3>3, <4>4 DEF slot
    <3> QED BY <3>2, <3>3
  <2>2. F = [i \in 1 .. Len(F) |-> F[i]]
    OBVIOUS
  <2> HIDE DEF copies
  <2> QED BY <2>1, <2>2 DEF merged
<1>6. CASE Cardinality(starts(in)) # 1
  <2> HIDE DEF copies
  <2>1. declipBurst(in) = [frame |-> merged({frameAt(in, f) : f \in withLength(in, modal(in))}, modal(in)),
        gap    |-> Max({in[i] : i \in resets(in)}),
        frames |-> Cardinality(withLength(in, modal(in)))]
    BY <1>6 DEF declipBurst
  <2> QED BY <2>1, <1>4, <1>5 DEF copies
<1>7. CASE Cardinality(starts(in)) = 1
  <2>1. starts(in) = {1}
    <3>1. 1 \in starts(in) /\ starts(in) \subseteq 1 .. Len(in)
      <4>1. Len(in) \in Nat /\ DOMAIN in = 1 .. Len(in) /\ Len(in) # 0
        OBVIOUS
      <4> QED BY <4>1 DEF starts
    <3>2. IsFiniteSet(starts(in))
      <4>1. IsFiniteSet(1 .. Len(in))
        BY UpTo
      <4> QED BY <3>1, <4>1, FS_Subset
    <3>3. \E x : starts(in) = {x}
      BY <3>2, <1>7, FS_Singleton
    <3> QED BY <3>1, <3>3
  <2>2. W = {1}
    BY <1>1, <2>1 DEF WinsVote
  <2>3. frameAt(in, 1) = F
    <3>1. /\ frameAt(in, 1) \in Seq(Nat \ {0}) /\ Len(frameAt(in, 1)) = Len(F)
          /\ \A i \in 1 .. Len(F) : frameAt(in, 1)[i] = F[i]
      BY <1>1, <1>2, <2>2 DEF ClippedCopies
    <3>2. frameAt(in, 1) \in Seq(Nat)
      BY <3>1
    <3> QED BY <3>1, <3>2, SeqEqual
  <2>4. Cardinality(W) = 1
    <3> HIDE DEF W
    <3>1. Cardinality({1}) = 1
      BY FS_Singleton, Zenon
    <3> QED BY <2>2, <3>1, Zenon
  <2>5. declipBurst(in) = [frame |-> frameAt(in, 1), gap |-> 0, frames |-> 1]
    BY <1>7 DEF declipBurst
  <2> QED BY <2>3, <2>4, <2>5
<1> QED BY <1>6, <1>7

-------------------------------------------------------------------------------
(* From a receiver's buffer to a burst, and from a stored code to the symbols sent. *)

\* Dividing rounds down.
LEMMA Quotient ==
  ASSUME NEW a \in Nat, NEW b \in Nat \ {0}
  PROVE  /\ a \div b \in Nat /\ (a \div b) * b <= a
         /\ a < (a \div b) * b + b
OBVIOUS

\* A duration of any length is sent whole: every half fits the field of its symbol, none
\* is empty, and full halves with the last one make up the duration (rmt_pulse.h:7-8).
THEOREM LongHalvesAreSplit ==
  ASSUME NEW l \in {0, 1}, NEW d \in Nat \ {0}
  PROVE  LET halves == pushHalf(l, d)
         IN  /\ halves \in Seq([level : {l}, dur : 1 .. RmtMaxDur]) /\ halves # <<>>
             /\ \A k \in 1 .. Len(halves) - 1 : halves[k].dur = RmtMaxDur
             /\ (Len(halves) - 1) * RmtMaxDur + Last(halves).dur = d
<1> DEFINE R == RmtMaxDur
           n == (d + R - 1) \div R
<1>1. R \in Nat \ {0} /\ d \in Nat \ {0} /\ d + R - 1 \in Nat
  BY CaptureAssumption
<1>2. n \in Nat /\ n * R <= d + R - 1 /\ d + R - 1 < n * R + R
  BY <1>1, Quotient
<1>3. n \in Nat \ {0} /\ n * R >= d /\ (n - 1) * R < d
  <2> HIDE DEF R, n
  <2>1. n # 0
    BY <1>1, <1>2
  <2>2. (n - 1) * R = n * R - R /\ n * R \in Nat
    BY <1>1, <1>2
  <2> QED BY <1>1, <1>2, <2>1, <2>2
<1>4. ASSUME NEW k \in 1 .. n - 1
      PROVE  k * R <= d
  <2> HIDE DEF R, n
  <2>1. k * R <= (n - 1) * R
    BY <1>1, <1>3
  <2> QED BY <1>1, <1>3, <2>1
<1> DEFINE dur(k) == IF k * R <= d THEN R ELSE d - (k - 1) * R
<1>5. ASSUME NEW k \in 1 .. n
      PROVE  dur(k) \in 1 .. R /\ (k < n => dur(k) = R) /\ (k = n => (n - 1) * R + dur(k) = d)
  <2> HIDE DEF R, n
  <2>1. k * R \in Nat /\ (k - 1) * R \in Nat /\ (k - 1) * R = k * R - R
    BY <1>1, <1>3
  <2>2. CASE k < n
    BY <1>1, <1>3, <1>4, <2>1, <2>2
  <2>3. CASE k = n
    BY <1>1, <1>3, <2>1, <2>3
  <2> QED BY <1>3, <2>2, <2>3
<1> DEFINE hs == [k \in 1 .. n |-> [level |-> l, dur |-> dur(k)]]
<1>6. hs \in Seq([level : {l}, dur : 1 .. R]) /\ Len(hs) = n /\ \A k \in 1 .. n : hs[k].dur = dur(k)
  <2> HIDE DEF R, n, dur
  <2> QED BY <1>3, <1>5
<1>7. pushHalf(l, d) = hs
  BY DEF pushHalf, Half
<1>8. Last(hs).dur = dur(n) /\ hs # <<>>
  <2> HIDE DEF R, n, dur, hs
  <2> QED BY <1>3, <1>6 DEF Last
<1> HIDE DEF R, n, dur, hs
<1>9. /\ hs \in Seq([level : {l}, dur : 1 .. R]) /\ hs # <<>>
      /\ \A k \in 1 .. Len(hs) - 1 : hs[k].dur = R
      /\ (Len(hs) - 1) * R + Last(hs).dur = d
  BY <1>3, <1>5, <1>6, <1>8
<1> QED BY <1>7, <1>9 DEF R

\* A buffer as a receiver fills it: levels alternate.
Buffers ==
  {halves \in Seq([level : {0, 1}, dur : Nat]) :
     \A i \in 1 .. Len(halves) - 1 : halves[i].level # halves[i + 1].level}

\* Levels that alternate from a mark on are those of the train's positions.
LEMMA AlternatingLevels ==
  ASSUME NEW halves \in Buffers, NEW f \in 1 .. Len(halves), halves[f].level = 1
  PROVE  \A j \in 1 .. Len(halves) - f + 1 : halves[f + j - 1].level = j % 2
<1>1. Len(halves) \in Nat /\ \A i \in 1 .. Len(halves) : halves[i].level \in {0, 1}
  <2>1. halves \in Seq([level : {0, 1}, dur : Nat])
    BY DEF Buffers
  <2>2. \A i \in 1 .. Len(halves) : halves[i] \in [level : {0, 1}, dur : Nat]
    BY <2>1, ElementOfSeq
  <2> QED BY <2>1, <2>2
<1> DEFINE L == Len(halves)
           wrong == {j \in 1 .. L - f + 1 : halves[f + j - 1].level # j % 2}
<1>2. CASE wrong # {}
  <2>1. Min(wrong) \in wrong /\ \A n \in wrong : Min(wrong) <= n
    <3>1. wrong \subseteq Nat
      BY <1>1
    <3> HIDE DEF wrong
    <3> QED BY <1>2, <3>1, MinIsLeast
  <2> DEFINE j == Min(wrong)
  <2> HIDE DEF j
  <2>2. j \in 1 .. L - f + 1 /\ halves[f + j - 1].level # j % 2 /\ \A n \in wrong : j <= n
    BY <2>1 DEF j
  <2>3. j # 1
    <3>1. f + 1 - 1 = f
      BY <1>1
    <3> QED BY <2>2, <3>1
  <2>4. j - 1 \in 1 .. L - f + 1 /\ j - 1 \notin wrong
    <3>1. j - 1 \in 1 .. L - f + 1 /\ ~(j <= j - 1)
      BY <1>1, <2>2, <2>3
    <3> HIDE DEF wrong
    <3> QED BY <2>2, <3>1
  <2>5. halves[f + (j - 1) - 1].level = (j - 1) % 2
    BY <2>4
  <2>6. f + j - 2 \in 1 .. L - 1 /\ f + (j - 1) - 1 = f + j - 2 /\ (f + j - 2) + 1 = f + j - 1
    BY <1>1, <2>2, <2>3
  <2>7. halves[f + j - 2].level # halves[f + j - 1].level
    BY <2>6 DEF Buffers
  <2>8. halves[f + j - 1].level \in {0, 1}
    BY <1>1, <2>2, <2>6
  <2>9. halves[f + j - 2].level = (j - 1) % 2
    BY <2>5, <2>6
  <2>10. (j - 1) % 2 = 1 - (j % 2) /\ j % 2 \in {0, 1}
    BY <1>1, <2>2
  <2> QED BY <2>2, <2>7, <2>8, <2>9, <2>10
<1> QED BY <1>2

\* What a receiver makes of its buffer: the halves from the first mark on, every one of
\* them a pulse, the last of them a mark.
THEOREM BurstsEndOnMarks ==
  ASSUME NEW halves \in Buffers, collapseBand(halves) # <<>>
  PROVE  LET burst == collapseBand(halves)
         IN  /\ burst \in Seq(Nat \ {0}) /\ Len(burst) % 2 = 1 /\ Len(burst) <= MaxPulses
             /\ \E f \in 1 .. Len(halves) : \A i \in 1 .. Len(burst) :
                  halves[f + i - 1] = Half(i % 2, burst[i])
<1> DEFINE H == [level : {0, 1}, dur : Nat]
           fillers == {i \in DOMAIN halves : halves[i].dur = 0}
           marks == {i \in DOMAIN halves : halves[i].level = 1 /\ \A j \in fillers : i < j}
           last == IF fillers = {} THEN Len(halves) ELSE Min(fillers) - 1
           f == Min(marks)
           s1 == SubSeq(halves, f, last)
           s2 == Trimmed(s1, MaxPulses)
           s3 == endOnMark(s2)
<1>1. halves \in Seq(H) /\ Len(halves) \in Nat /\ DOMAIN halves = 1 .. Len(halves)
      /\ \A i \in 1 .. Len(halves) : halves[i] \in H
  <2>1. halves \in Seq(H)
    BY DEF Buffers
  <2> HIDE DEF H
  <2> QED BY <2>1, LenProperties, ElementOfSeq
<1>2. marks # {} /\ collapseBand(halves) = Durations(s3)
  BY DEF collapseBand
<1>3. f \in marks
  <2>1. marks \subseteq Nat
    BY <1>1
  <2> HIDE DEF marks
  <2> QED BY <1>2, <2>1, MinIsLeast
<1>4. f \in 1 .. Len(halves) /\ halves[f].level = 1 /\ \A j \in fillers : f < j
  BY <1>1, <1>3
<1>5. last \in f .. Len(halves) /\ \A i \in f .. last : halves[i].dur # 0
  <2>1. CASE fillers = {}
    <3>1. last = Len(halves)
      BY <2>1
    <3> HIDE DEF f, last
    <3>2. last \in f .. Len(halves) /\ \A i \in f .. last : i \in DOMAIN halves
      BY <1>1, <1>4, <3>1
    <3>3. \A i \in DOMAIN halves : halves[i].dur # 0
      BY <2>1
    <3> QED BY <3>2, <3>3
  <2>2. CASE fillers # {}
    <3>1. fillers \subseteq 1 .. Len(halves)
      BY <1>1
    <3>2. Min(fillers) \in fillers /\ \A n \in fillers : Min(fillers) <= n
      <4>1. fillers \subseteq Nat
        BY <3>1
      <4> HIDE DEF fillers
      <4> QED BY <2>2, <4>1, MinIsLeast
    <3>3. last = Min(fillers) - 1
      BY <2>2
    <3> DEFINE m == Min(fillers)
    <3>4. m \in 1 .. Len(halves) /\ f < m /\ last = m - 1 /\ \A n \in fillers : m <= n
      <4> HIDE DEF f, fillers, last
      <4> QED BY <1>4, <3>1, <3>2, <3>3
    <3> HIDE DEF f, last, m
    <3>5. last \in f .. Len(halves)
      BY <1>1, <1>4, <3>4
    <3>6. ASSUME NEW i \in f .. last PROVE i \notin fillers /\ i \in DOMAIN halves
      <4>1. i \in 1 .. Len(halves) /\ ~(m <= i)
        BY <1>1, <1>4, <3>4, <3>5
      <4> HIDE DEF fillers
      <4> QED BY <1>1, <3>4, <4>1
    <3>7. \A i \in f .. last : halves[i].dur # 0
      BY <3>6
    <3> HIDE DEF fillers
    <3> QED BY <3>5, <3>7
  <2> HIDE DEF f, last, fillers
  <2> QED BY <2>1, <2>2
<1> HIDE DEF fillers, marks, last, f
<1>13. /\ f \in Nat \ {0} /\ last \in Nat /\ Len(halves) \in Nat /\ MaxPulses \in Nat \ {0}
      /\ f <= last /\ last <= Len(halves)
  BY <1>1, <1>4, <1>5, CaptureAssumption
<1>6. s1 \in Seq(H) /\ Len(s1) = last - f + 1 /\ \A i \in 1 .. last - f + 1 : s1[i] = halves[f + i - 1]
  <2>1. f \in Nat /\ last \in Nat /\ f <= last
    BY <1>1, <1>4, <1>5
  <2>2. \A i \in f .. last : halves[i] \in H
    BY <1>1, <1>4, <1>5
  <2> HIDE DEF H
  <2> QED BY <1>1, <2>1, <2>2, SubSeqProperties
<1>7. /\ s2 \in Seq(H) /\ Len(s2) \in 1 .. Len(s1) /\ Len(s2) <= MaxPulses
      /\ \A i \in 1 .. Len(s2) : s2[i] = s1[i]
  <2>1. Len(s1) \in Nat \ {0} /\ MaxPulses \in Nat \ {0}
    BY <1>1, <1>4, <1>5, <1>6, CaptureAssumption
  <2>2. CASE Len(s1) <= MaxPulses
    <3>1. s2 = s1
      BY <2>2 DEF Trimmed
    <3> HIDE DEF s1, s2, H
    <3> QED BY <1>6, <2>1, <2>2, <3>1
  <2>3. CASE ~(Len(s1) <= MaxPulses)
    <3>1. s2 = SubSeq(s1, 1, MaxPulses)
      BY <2>3 DEF Trimmed
    <3>2. \A i \in 1 .. MaxPulses : s1[i] \in H
      <4> HIDE DEF s1, H
      <4> QED BY <1>6, <2>1, <2>3, ElementOfSeq
    <3>3. /\ SubSeq(s1, 1, MaxPulses) \in Seq(H) /\ Len(SubSeq(s1, 1, MaxPulses)) = MaxPulses
          /\ \A i \in 1 .. MaxPulses : SubSeq(s1, 1, MaxPulses)[i] = s1[i]
      <4>1. \A i \in 1 .. MaxPulses - 1 + 1 : 1 + i - 1 = i
        OBVIOUS
      <4> HIDE DEF s1, s2, H
      <4> QED BY <1>6, <2>1, <2>3, <3>2, <4>1, SubSeqProperties
    <3> HIDE DEF s1, s2, H
    <3> QED BY <2>1, <2>3, <3>1, <3>3
  <2> QED BY <2>2, <2>3
<1> HIDE DEF s1, s2
<1>8. /\ s3 \in Seq(H) /\ Len(s3) \in 1 .. Len(s2) /\ Len(s3) % 2 = 1
      /\ \A i \in 1 .. Len(s3) : s3[i] = s2[i]
  <2>1. Len(s2) \in Nat \ {0} /\ s2 # <<>>
    BY <1>6, <1>7, <1>13
  <2>2. Last(s2).level = Len(s2) % 2
    <3> DEFINE n == Len(s2)
    <3>1. n \in 1 .. last - f + 1 /\ n \in 1 .. n /\ n \in 1 .. Len(halves) - f + 1
      BY <1>6, <1>7, <1>13, <2>1
    <3>2. Last(s2) = s2[n]
      BY DEF Last
    <3>3. s2[n] = halves[f + n - 1]
      BY <1>6, <1>7, <3>1
    <3>4. halves[f + n - 1].level = n % 2
      BY <1>4, <3>1, AlternatingLevels
    <3> QED BY <3>2, <3>3, <3>4
  <2>3. CASE Len(s2) % 2 = 1
    <3>1. s3 = s2
      BY <2>2, <2>3 DEF endOnMark
    <3> QED BY <1>7, <2>1, <2>3, <3>1
  <2>4. CASE Len(s2) % 2 # 1
    <3>1. Len(s2) % 2 = 0 /\ Len(s2) - 1 \in Nat \ {0} /\ (Len(s2) - 1) % 2 = 1
      <4>1. \A k \in Nat \ {0} : k % 2 # 1 => k % 2 = 0 /\ k - 1 \in Nat \ {0} /\ (k - 1) % 2 = 1
        OBVIOUS
      <4> QED BY <2>1, <2>4, <4>1
    <3>2. s3 = SubSeq(s2, 1, Len(s2) - 1)
      BY <2>1, <2>2, <3>1 DEF endOnMark, Front
    <3>3. /\ SubSeq(s2, 1, Len(s2) - 1) \in Seq(H) /\ Len(SubSeq(s2, 1, Len(s2) - 1)) = Len(s2) - 1
          /\ \A i \in 1 .. Len(s2) - 1 : SubSeq(s2, 1, Len(s2) - 1)[i] = s2[i]
      <4>1. \A i \in 1 .. Len(s2) - 1 : s2[i] \in H
        <5> HIDE DEF H
        <5> QED BY <1>7, <2>1, <3>1, ElementOfSeq
      <4> HIDE DEF H
      <4> QED BY <1>7, <2>1, <3>1, <4>1, SubSeqProperties
    <3> HIDE DEF s3, H
    <3>4. Len(s3) = Len(s2) - 1
      BY <3>2, <3>3
    <3>5. Len(s3) \in 1 .. Len(s2)
      BY <2>1, <3>1, <3>4
    <3> QED BY <3>1, <3>2, <3>3, <3>4, <3>5
  <2> QED BY <2>3, <2>4
<1> HIDE DEF s3
<1>14. /\ Len(s3) \in Nat /\ Len(s3) <= Len(s2) /\ Len(s2) \in Nat /\ Len(s2) <= last - f + 1
       /\ Len(s2) <= MaxPulses
  <2>1. Len(s1) = last - f + 1 /\ last - f + 1 \in Nat
    BY <1>6, <1>13
  <2>2. Len(s2) \in Nat /\ Len(s2) <= last - f + 1
    BY <1>7, <2>1
  <2>3. Len(s3) \in Nat /\ Len(s3) <= Len(s2)
    BY <1>8, <2>2
  <2>4. Len(s2) <= MaxPulses
    BY <1>7
  <2> QED BY <2>2, <2>3, <2>4
<1> DEFINE burst == Durations(s3)
<1>9. ASSUME NEW i \in 1 .. Len(s3)
      PROVE  halves[f + i - 1] = Half(i % 2, s3[i].dur) /\ s3[i].dur \in Nat \ {0}
  <2>1. i \in 1 .. last - f + 1 /\ i \in 1 .. Len(s2)
    BY <1>13, <1>14
  <2>2. s3[i] = halves[f + i - 1] /\ f + i - 1 \in f .. last /\ i \in 1 .. Len(halves) - f + 1
    <3>1. s3[i] = halves[f + i - 1]
      BY <1>6, <1>7, <1>8, <2>1
    <3> QED BY <1>13, <2>1, <3>1
  <2>3. halves[f + i - 1].level = i % 2
    BY <1>4, <2>2, AlternatingLevels
  <2>4. halves[f + i - 1] \in H /\ halves[f + i - 1].dur # 0
    <3>1. f + i - 1 \in 1 .. Len(halves)
      BY <1>13, <2>2
    <3> HIDE DEF H
    <3> QED BY <1>1, <1>5, <2>2, <3>1
  <2> QED BY <2>2, <2>3, <2>4 DEF Half
<1>10. burst \in Seq(Nat \ {0}) /\ Len(burst) = Len(s3) /\ \A i \in 1 .. Len(s3) : burst[i] = s3[i].dur
  <2>1. burst = [i \in 1 .. Len(s3) |-> s3[i].dur] /\ Len(s3) \in Nat
    <3>1. DOMAIN s3 = 1 .. Len(s3) /\ Len(s3) \in Nat
      <4> HIDE DEF H
      <4> QED BY <1>8, LenProperties
    <3> QED BY <3>1 DEF Durations
  <2> HIDE DEF burst
  <2> QED BY <1>9, <2>1
<1>11. Len(s3) <= MaxPulses
  BY <1>13, <1>14
<1>12. collapseBand(halves) = burst
  BY <1>2 DEF s3, s2, s1
<1> HIDE DEF burst
<1> QED BY <1>4, <1>8, <1>9, <1>10, <1>11, <1>12

\* What de-clipping says of a burst besides its frame.
LEMMA GapAndCount ==
  ASSUME NEW in \in Seq(Nat \ {0}), Len(in) % 2 = 1
  PROVE  declipBurst(in).gap \in Nat /\ declipBurst(in).frames \in Nat
<1>1. Len(in) \in Nat /\ DOMAIN in = 1 .. Len(in) /\ \A i \in 1 .. Len(in) : in[i] \in Nat
  OBVIOUS
<1>2. starts(in) \subseteq 1 .. Len(in) /\ resets(in) \subseteq 1 .. Len(in) /\ 1 \in starts(in)
  <2>1. Len(in) # 0
    BY <1>1
  <2> QED BY <1>1, <2>1 DEF starts, resets
<1>3. CASE Cardinality(starts(in)) = 1
  BY <1>3 DEF declipBurst
<1>4. CASE Cardinality(starts(in)) # 1
  <2> DEFINE T == {in[i] : i \in resets(in)}
             W == withLength(in, modal(in))
  <2>1. declipBurst(in).gap = Max(T) /\ declipBurst(in).frames = Cardinality(W)
    BY <1>4 DEF declipBurst
  <2>2. resets(in) # {}
    <3>1. ASSUME resets(in) = {} PROVE starts(in) = {1}
      BY <1>1, <1>2, <3>1 DEF starts
    <3>2. Cardinality({1}) = 1
      BY FS_Singleton
    <3> QED BY <1>4, <3>1, <3>2
  <2>3. IsFiniteSet(1 .. Len(in))
    BY <1>1, UpTo
  <2>4. T # {} /\ T \in SUBSET Nat
    BY <1>1, <1>2, <2>2
  <2>5. IsFiniteSet(T)
    <3>1. IsFiniteSet(resets(in))
      BY <1>2, <2>3, FS_Subset
    <3> DEFINE dur == [i \in resets(in) |-> in[i]]
    <3>2. dur \in Surjection(resets(in), T)
      BY DEF Surjection
    <3> HIDE DEF T, dur
    <3> QED BY <3>1, <3>2, FS_Surjection
  <2>6. Max(T) \in Nat
    <3> HIDE DEF T
    <3> QED BY <2>4, <2>5, MaxIsGreatest
  <2>7. Cardinality(W) \in Nat
    <3>1. W \subseteq 1 .. Len(in)
      BY <1>2 DEF withLength
    <3> HIDE DEF W
    <3> QED BY <2>3, <3>1, FS_Subset, FS_CardinalityType
  <2> QED BY <2>1, <2>6, <2>7
<1> QED BY <1>3, <1>4

\* A code learned from whatever a receiver heard can be stored and sent: its pulses are
\* even in number, none is empty, the last is a gap long enough, they fit the 512 that
\* validateConfig allows and sendRFCode does not refuse them; so do the repeats
\* (signal_match.h:17, config_validate.cpp:97-113).
THEOREM CapturedCodeIsStorable ==
  ASSUME NEW halves \in Buffers, collapseBand(halves) # <<>>
  PROVE  LET b      == declipBurst(collapseBand(halves))
             pulses == storedPulses(b)
         IN  /\ pulses \in Seq(Nat \ {0}) /\ Len(pulses) % 2 = 0
             /\ Len(pulses) \in 2 .. MaxPulses /\ Last(pulses) >= MinTrailGapUs
             /\ storedRepeat(b) \in 1 .. MaxFrameRepeat
<1> DEFINE in == collapseBand(halves)
           b == declipBurst(in)
           gaps == {MinTrailGapUs, IF b.gap > 0 THEN b.gap ELSE TrailGapUs}
           n == Len(b.frame)
<1>1. in \in Seq(Nat \ {0}) /\ Len(in) % 2 = 1 /\ Len(in) <= MaxPulses
  BY BurstsEndOnMarks
<1> HIDE DEF in
<1>2. b.frame \in Seq(Nat \ {0}) /\ n % 2 = 1 /\ n <= Len(in)
  BY <1>1, DeclippedIsAFrame
<1>3. b.gap \in Nat /\ b.frames \in Nat
  BY <1>1, GapAndCount
<1> HIDE DEF b
<1>4. n \in Nat \ {0} /\ n + 1 \in 2 .. MaxPulses /\ (n + 1) % 2 = 0
  <2>1. n \in Nat /\ Len(in) \in Nat /\ MaxPulses \in Nat
    <3>1. MaxPulses \in Nat
      BY CaptureAssumption
    <3>2. Len(b.frame) \in Nat /\ Len(in) \in Nat
      BY <1>1, <1>2, LenProperties
    <3> QED BY <3>1, <3>2
  <2>2. n % 2 = 1 /\ n <= Len(in) /\ Len(in) <= MaxPulses /\ MaxPulses % 2 = 0
    BY <1>1, <1>2, CaptureAssumption
  <2>3. \A k, l, m \in Nat : k % 2 = 1 /\ k <= l /\ l <= m /\ m % 2 = 0 =>
          k # 0 /\ k + 1 \in 2 .. m /\ (k + 1) % 2 = 0
    OBVIOUS
  <2> HIDE DEF n
  <2> QED BY <2>1, <2>2, <2>3
<1>5. Max(gaps) \in Nat \ {0} /\ Max(gaps) >= MinTrailGapUs
  <2>1. gaps \in SUBSET Nat /\ gaps # {} /\ MinTrailGapUs \in gaps /\ MinTrailGapUs \in Nat \ {0}
    BY <1>3, CaptureAssumption
  <2>2. IsFiniteSet(gaps)
    <3>1. IsFiniteSet({MinTrailGapUs})
      BY FS_Singleton
    <3>2. gaps = {MinTrailGapUs} \cup {IF b.gap > 0 THEN b.gap ELSE TrailGapUs}
      OBVIOUS
    <3> HIDE DEF gaps
    <3> QED BY <3>1, <3>2, FS_AddElement
  <2>3. Max(gaps) \in gaps /\ \A x \in gaps : x <= Max(gaps)
    <3> HIDE DEF gaps
    <3> QED BY <2>1, <2>2, MaxIsGreatest
  <2> HIDE DEF gaps
  <2>4. Max(gaps) \in Nat /\ MinTrailGapUs <= Max(gaps)
    BY <2>1, <2>3
  <2> QED BY <2>1, <2>4
<1> DEFINE pulses == Append(b.frame, Max(gaps))
<1>6. storedPulses(b) = pulses
  BY DEF storedPulses
<1>7. /\ pulses \in Seq(Nat \ {0}) /\ Len(pulses) = n + 1
      /\ Last(pulses) = Max(gaps)
  <2> HIDE DEF gaps
  <2>1. pulses \in Seq(Nat \ {0}) /\ Len(pulses) = n + 1 /\ pulses[n + 1] = Max(gaps)
    BY <1>2, <1>5, AppendProperties
  <2> QED BY <2>1 DEF Last
<1>8. storedRepeat(b) \in 1 .. MaxFrameRepeat
  BY <1>3, CaptureAssumption DEF storedRepeat
<1> HIDE DEF gaps, pulses, n
<1> QED BY <1>4, <1>5, <1>6, <1>7, <1>8 DEF b, in
===============================================================================
