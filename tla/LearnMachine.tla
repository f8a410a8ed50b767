----------------------------- MODULE LearnMachine -----------------------------
(***************************************************************************)
(* The learn state machine, src/lib/learn/learn_machine.cpp: it groups the *)
(* bursts of each receiver into presses, sorts their payloads into a       *)
(* bounded table of clusters, and decides between a fixed code (Captured), *)
(* a rolling code and noise (Failed).                                      *)
(*                                                                         *)
(* A burst is a payload, an abstract pulse train: what the machine asks of *)
(* pulse trains is only whether two match (Near: same length, every entry  *)
(* within tolerance) and whether two are alike in structure (Alike).       *)
(* Neither relation need be transitive.  A burst that is not well formed   *)
(* is Malformed.  For RF the payload is the de-clipped frame.  The gap and *)
(* carrier averages that capture() stores are left out, and so is the      *)
(* number of frames: no decision depends on them.                          *)
(*                                                                         *)
(* Slots and groups are numbered from 1, and 0 stands for the code's -1.   *)
(*                                                                         *)
(* An operator named Bug... is a plausible mistake in the definition that  *)
(* follows it, kept to show that the properties reject it.                 *)
(***************************************************************************)
EXTENDS Naturals, Sequences, FiniteSets, FiniteSetsExt

CONSTANTS
  Payloads, Malformed,
  Near, Alike,            (* burstsMatch and structurallyAlike               *)
  Sources, Ir,            (* the receivers in use; Ir may be one of them     *)
  MatchesNeeded, RfPressesNeeded, RollingPressesNeeded,
  MaxClusters, MaxGroups,
  MaxMembers,             (* kMaxClusterMembers                              *)
  MaxBursts               (* bound on the bursts fed in one session          *)

ASSUME MachineAssumption ==
  /\ Malformed \notin Payloads
  /\ Near \subseteq Payloads \X Payloads /\ Alike \subseteq Payloads \X Payloads
  /\ \A p \in Payloads : <<p, p>> \in Near /\ <<p, p>> \in Alike
  /\ \A p, q \in Payloads : /\ <<p, q>> \in Near  <=> <<q, p>> \in Near
                            /\ <<p, q>> \in Alike <=> <<q, p>> \in Alike
  /\ MatchesNeeded \in Nat \ {0} /\ MaxMembers \in Nat /\ MatchesNeeded <= MaxMembers
  /\ RfPressesNeeded \in Nat \ {0} /\ RollingPressesNeeded \in Nat \ {0}
  /\ MaxClusters \in Nat \ {0} /\ MaxGroups \in Nat \ {0}
  /\ MaxBursts \in Nat

VARIABLES
  state,    (* state_                                                        *)
  reason,   (* reason_                                                       *)
  code,     (* code_: the source and reference payload of the capture        *)
  tracks,   (* tracks_                                                       *)
  log       (* history: the bursts of this session, with the press of each   *)

vars == <<state, reason, code, tracks, log>>

States  == {"Idle", "Listening", "Captured", "Failed"}
Reasons == {"Timeout", "Noisy", "Rolling"}

EmptyTrack == [clusters |-> <<>>, groups |-> <<>>, curGroup |-> 0]
NoTracks   == [s \in Sources |-> EmptyTrack]
NoCode     == [kind |-> "None"]

-------------------------------------------------------------------------------
(* One burst on one track. *)

BugGroupsUncapped(t, newGroup) ==
  IF ~newGroup THEN t
  ELSE [t EXCEPT !.curGroup = @ + 1,
                 !.groups   = Append(@, [firstCluster |-> 0, dirty |-> FALSE])]

\* A burst that starts more than kPressGapMs after the last one ended opens a press.
\* Past MaxGroups the press still counts but has no group.
openPress(t, newGroup) ==
  IF ~newGroup THEN t
  ELSE [t EXCEPT
          !.curGroup = @ + 1,
          !.groups   = IF Len(@) < MaxGroups
                       THEN Append(@, [firstCluster |-> 0, dirty |-> FALSE])
                       ELSE @]

Matching(t, p)   == {i \in DOMAIN t.clusters : <<t.clusters[i].repr, p>> \in Near}
Established(c)   == c.count >= MatchesNeeded \/ c.groupCount >= RfPressesNeeded
BugPressesUnprotected(t) == {i \in DOMAIN t.clusters : t.clusters[i].count < MatchesNeeded}
Evictable(t)     == {i \in DOMAIN t.clusters : ~Established(t.clusters[i])}

Weakest(t) ==
  Min({i \in Evictable(t) :
            \A j \in Evictable(t) : t.clusters[i].count <= t.clusters[j].count})

\* The slot a payload is counted in: the first cluster it matches, else a free slot,
\* else that of the weakest evictable cluster, else none.
slotFor(t, p) ==
  IF Matching(t, p) # {} THEN Min(Matching(t, p))
  ELSE IF Len(t.clusters) < MaxClusters THEN Len(t.clusters) + 1
  ELSE IF Evictable(t) # {} THEN Weakest(t)
  ELSE 0

newCluster(p) == [repr |-> p, count |-> 0, groupCount |-> 0, lastGroup |-> 0]

BugPressesKeepSlot(t, p, i) ==
  IF i = 0 \/ i \in Matching(t, p) THEN t
  ELSE IF i = Len(t.clusters) + 1 THEN [t EXCEPT !.clusters = Append(@, newCluster(p))]
  ELSE [t EXCEPT !.clusters[i] = newCluster(p)]

\* The table with slot i holding a cluster for p.  Evicting a cluster leaves the
\* presses it opened without one, and dirty.
place(t, p, i) ==
  IF i = 0 \/ i \in Matching(t, p) THEN t
  ELSE IF i = Len(t.clusters) + 1 THEN [t EXCEPT !.clusters = Append(@, newCluster(p))]
  ELSE [t EXCEPT
          !.clusters[i] = newCluster(p),
          !.groups = [k \in DOMAIN t.groups |->
                        IF t.groups[k].firstCluster = i
                        THEN [firstCluster |-> 0, dirty |-> TRUE]
                        ELSE t.groups[k]]]

countIn(t, i) ==
  IF i = 0 THEN t
  ELSE [t EXCEPT !.clusters[i] =
          [repr       |-> @.repr,
           count      |-> IF @.count < MaxMembers THEN @.count + 1 ELSE @.count,
           groupCount |-> IF @.lastGroup # t.curGroup THEN @.groupCount + 1 ELSE @.groupCount,
           lastGroup  |-> t.curGroup]]

markPress(t, i) ==
  IF t.curGroup \notin DOMAIN t.groups THEN t
  ELSE [t EXCEPT !.groups[t.curGroup] =
          IF @.firstCluster = 0 /\ i # 0 THEN [@ EXCEPT !.firstCluster = i]
          ELSE IF i # @.firstCluster \/ i = 0 THEN [@ EXCEPT !.dirty = TRUE]
          ELSE @]

\* The track after one burst, and the slot it was counted in.
fed(t, p, newGroup) ==
  LET t1 == openPress(t, newGroup)
  IN  IF p = Malformed THEN t1
      ELSE LET i == slotFor(t1, p) IN markPress(countIn(place(t1, p, i), i), i)

slotFed(t, p, newGroup) ==
  IF p = Malformed THEN 0 ELSE slotFor(openPress(t, newGroup), p)

-------------------------------------------------------------------------------
(* The verdicts. *)

BugOnePress(src, t, i) == i # 0 /\ t.clusters[i].count >= MatchesNeeded

captures(src, t, i) ==
  /\ i # 0
  /\ t.clusters[i].count >= MatchesNeeded
  /\ src = Ir \/ t.clusters[i].groupCount >= RfPressesNeeded

BugDirtyPresses(t) ==
  {t.groups[k].firstCluster : k \in {k \in DOMAIN t.groups : t.groups[k].firstCluster # 0}}

\* Clusters that are the sole well-formed content of some tracked press.
soleContents(t) ==
  {t.groups[k].firstCluster :
     k \in {k \in DOMAIN t.groups : t.groups[k].firstCluster # 0 /\ ~t.groups[k].dirty}}

checkRolling(t) ==
  /\ \A i \in DOMAIN t.clusters : t.clusters[i].groupCount < RfPressesNeeded
  /\ \E a \in soleContents(t) :
       Cardinality({b \in soleContents(t) :
                      <<t.clusters[a].repr, t.clusters[b].repr>> \in Alike})
         >= RollingPressesNeeded

-------------------------------------------------------------------------------
Init ==
  /\ state = "Idle" /\ reason = "Timeout" /\ code = NoCode
  /\ tracks = NoTracks /\ log = <<>>

reset(next) ==
  /\ state' = next /\ reason' = "Timeout" /\ code' = NoCode
  /\ tracks' = NoTracks /\ log' = <<>>

begin  == reset("Listening")
cancel == reset("Idle")

takeCode == state = "Captured" /\ reset("Idle")

fail(r) == state' = "Failed" /\ reason' = r /\ tracks' = NoTracks /\ UNCHANGED code

capture(src, cluster) ==
  /\ state' = "Captured" /\ tracks' = NoTracks
  /\ code' = [kind |-> "Code", src |-> src, repr |-> cluster.repr]
  /\ UNCHANGED reason

\* The deadline may pass before any poll: how long bursts take is left open.
tick ==
  /\ state = "Listening"
  /\ fail(IF log = <<>> THEN "Timeout" ELSE "Noisy")
  /\ UNCHANGED log

\* newGroup: the silence before the burst exceeded kPressGapMs.  The first burst of a
\* track always opens a press.
feedBurst(src, p, newGroup) ==
  /\ state = "Listening"
  /\ Len(log) < MaxBursts
  /\ tracks[src].curGroup = 0 => newGroup
  /\ LET t == fed(tracks[src], p, newGroup)
         i == slotFed(tracks[src], p, newGroup)
     IN /\ log' = Append(log, [src |-> src, payload |-> p, press |-> t.curGroup])
        /\ IF captures(src, t, i) THEN capture(src, t.clusters[i])
           ELSE IF src # Ir /\ checkRolling(t) THEN fail("Rolling")
           ELSE /\ tracks' = [tracks EXCEPT ![src] = t]
                /\ UNCHANGED <<state, reason, code>>

Next ==
  \/ begin \/ cancel \/ takeCode \/ tick
  \/ \E src \in Sources, p \in Payloads \cup {Malformed}, newGroup \in BOOLEAN :
       feedBurst(src, p, newGroup)

Spec == Init /\ [][Next]_vars

-------------------------------------------------------------------------------
Cluster == [repr : Payloads, count : 1 .. MaxMembers, groupCount : Nat, lastGroup : Nat]
Group   == [firstCluster : 0 .. MaxClusters, dirty : BOOLEAN]
Track   == [clusters : Seq(Cluster), groups : Seq(Group), curGroup : Nat]
Burst   == [src : Sources, payload : Payloads \cup {Malformed}, press : Nat]
Code    == [kind : {"Code"}, src : Sources, repr : Payloads]

TypeOK ==
  /\ state \in States /\ reason \in Reasons
  /\ code \in {NoCode} \cup Code
  /\ tracks \in [Sources -> Track]
  /\ log \in Seq(Burst)
  /\ \A s \in Sources : /\ Len(tracks[s].clusters) <= MaxClusters
                        /\ Len(tracks[s].groups) <= MaxGroups

\* The presses of source s, and what was heard in one.
Presses(s) == {log[i].press : i \in {i \in DOMAIN log : log[i].src = s}}
HeardIn(s, k) ==
  {i \in DOMAIN log : log[i].src = s /\ log[i].press = k /\ log[i].payload # Malformed}
HeardAs(s, r) ==
  {i \in DOMAIN log : /\ log[i].src = s /\ log[i].payload # Malformed
                      /\ <<r, log[i].payload>> \in Near}

\* A captured code was really received often enough: MatchesNeeded bursts of its
\* source match the reference frame, and for RF they span two presses, so that a held
\* rolling fob is never stored (learn_machine.h:22).
CaptureIsHeard ==
  state = "Captured" =>
    LET heard == HeardAs(code.src, code.repr)
    IN  /\ Cardinality(heard) >= MatchesNeeded
        /\ code.src # Ir =>
             Cardinality({log[i].press : i \in heard}) >= RfPressesNeeded

\* The press book stays true through evictions and slot reuse: a clean press that
\* names a cluster contained at least one well-formed burst, and nothing but bursts
\* that match that cluster.
PressesTellTheTruth ==
  state = "Listening" =>
    \A s \in Sources : \A k \in DOMAIN tracks[s].groups :
      LET g == tracks[s].groups[k]
      IN  g.firstCluster # 0 /\ ~g.dirty =>
            /\ g.firstCluster \in DOMAIN tracks[s].clusters
            /\ HeardIn(s, k) # {}
            /\ HeardIn(s, k) \subseteq HeardAs(s, tracks[s].clusters[g.firstCluster].repr)

\* A remote is called rolling only on the evidence the code asks for: three payloads,
\* no two of which match, one frame structure, each the sole content of a press on
\* one RF band.
RollingIsEarned ==
  state = "Failed" /\ reason = "Rolling" =>
    \E s \in Sources \ {Ir} : \E R \in SUBSET Payloads :
      /\ Cardinality(R) >= RollingPressesNeeded
      /\ \A p, q \in R : p # q => <<p, q>> \notin Near
      /\ \E a \in R : \A p \in R : <<a, p>> \in Alike
      /\ \A p \in R : \E k \in Presses(s) :
           HeardIn(s, k) # {} /\ HeardIn(s, k) \subseteq HeardAs(s, p)

\* No flood of ambient payloads displaces an established candidate, nor sets its
\* counts back, while the session goes on (learn_machine.cpp:120-121).
EstablishedSurvives ==
  [][state = "Listening" /\ state' = "Listening" /\ log' # <<>> =>
       \A s \in Sources : \A i \in DOMAIN tracks[s].clusters :
         LET c == tracks[s].clusters[i]
         IN  Established(c) =>
               /\ tracks'[s].clusters[i].repr = c.repr
               /\ tracks'[s].clusters[i].count >= c.count
               /\ tracks'[s].clusters[i].groupCount >= c.groupCount]_vars

===============================================================================
