-------------------------------- MODULE Pulses --------------------------------
(***************************************************************************)
(* What the learn library computes from pulse trains: when two match       *)
(* (src/lib/learn/signal_match.cpp), and how the repeated frames of one RF *)
(* burst are merged into one (src/lib/learn/frame_merge.cpp).              *)
(*                                                                         *)
(* A pulse train is a sequence of durations, marks at the odd positions    *)
(* and spaces at the even ones (the code counts from 0: marks are even).   *)
(***************************************************************************)
EXTENDS Naturals, Sequences, FiniteSets, FiniteSetsExt

CONSTANTS
  TolerancePercent, ToleranceUs,   (* kMatchTolerancePercent, kMatchToleranceUs *)
  ResetGapMinUs                    (* kResetGapMinUs                            *)

ASSUME PulsesAssumption ==
  TolerancePercent \in Nat /\ ToleranceUs \in Nat /\ ResetGapMinUs \in Nat \ {0}

Elements(s) == {s[i] : i \in DOMAIN s}

durationsMatch(a, b) ==
  LET diff == IF a > b THEN a - b ELSE b - a
      ref  == IF a > b THEN a ELSE b
  IN  diff * 100 <= ref * TolerancePercent \/ diff <= ToleranceUs

burstsMatch(p, q) == Len(p) = Len(q) /\ \A i \in 1 .. Len(p) : durationsMatch(p[i], q[i])

structurallyAlike(p, q) ==
  Len(p) = Len(q) /\ Len(p) # 0 /\ durationsMatch(Min(Elements(p)), Min(Elements(q)))

-------------------------------------------------------------------------------
(* declipBurst, of a burst that is not empty. *)

IsMark(i) == i % 2 = 1

\* The spaces long enough to separate two frames, and where frames begin.
resets(in) == {i \in DOMAIN in : ~IsMark(i) /\ in[i] >= ResetGapMinUs}
starts(in) == {i \in DOMAIN in : i = 1 \/ i - 1 \in resets(in)}

frameAt(in, f) ==
  LET ends == {i \in resets(in) : i > f}
  IN  SubSeq(in, f, IF ends = {} THEN Len(in) ELSE Min(ends) - 1)

withLength(in, n) == {f \in starts(in) : Len(frameAt(in, f)) = n}

\* The length most frames have, the longest of those in a tie.
modal(in) ==
  CHOOSE n \in {Len(frameAt(in, f)) : f \in starts(in)} :
    \A m \in {Len(frameAt(in, f)) : f \in starts(in)} :
      \/ Cardinality(withLength(in, m)) < Cardinality(withLength(in, n))
      \/ Cardinality(withLength(in, m)) = Cardinality(withLength(in, n)) /\ m <= n

\* Clipping shortens marks and lengthens spaces: the longest mark and the shortest
\* space of a slot are the least clipped.
merged(copies, n) ==
  [i \in 1 .. n |-> IF IsMark(i) THEN Max({c[i] : c \in copies}) ELSE Min({c[i] : c \in copies})]

\* One frame of the burst, the longest gap between frames and how many were merged.
declipBurst(in) ==
  IF Cardinality(starts(in)) = 1
  THEN [frame |-> frameAt(in, 1), gap |-> 0, frames |-> 1]
  ELSE [frame  |-> merged({frameAt(in, f) : f \in withLength(in, modal(in))}, modal(in)),
        gap    |-> Max({in[i] : i \in resets(in)}),
        frames |-> Cardinality(withLength(in, modal(in)))]
===============================================================================
