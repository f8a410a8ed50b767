----------------------------- MODULE PulseCapture -----------------------------
(***************************************************************************)
(* Between the air and the pulse trains the learn machine compares: what   *)
(* pollRFBurst and pollIRBurst (src/src/radios.cpp, src/src/ir.cpp) make   *)
(* of a receiver's buffer, what capture() stores, and what the transmitter *)
(* (src/src/accessory_builder.cpp, src/src/rmt_pulse.h) makes of that.     *)
(*                                                                         *)
(* A buffer holds halves: a level and how long it lasted, 0 at the end of  *)
(* the frame.  An IR receiver keeps the carrier, a low and a high half per *)
(* cycle, and is high when idle.                                           *)
(*                                                                         *)
(* Left out: the carrier estimate, the averages over the bursts of a       *)
(* cluster, and the cut of a single duration at 65535.                     *)
(***************************************************************************)
EXTENDS Pulses, SequencesExt

CONSTANTS
  EnvGapUs,             (* kEnvGapUs                                            *)
  RmtMaxDur,            (* kRmtMaxDur                                           *)
  TrailGapUs,           (* kDefaultTrailGapUs, or a gap measured between captures *)
  MinTrailGapUs,        (* kMinTrailGapUs                                       *)
  StoredFrameCount,     (* kStoredFrameCount                                    *)
  MaxFrameRepeat,       (* MAX_FRAME_REPEAT                                     *)
  MaxPulses             (* MAX_PULSES                                           *)

ASSUME CaptureAssumption ==
  /\ EnvGapUs \in Nat /\ TrailGapUs \in Nat /\ MinTrailGapUs \in Nat \ {0}
  /\ RmtMaxDur \in Nat \ {0} /\ StoredFrameCount \in Nat \ {0}
  /\ MaxFrameRepeat \in Nat \ {0} /\ MaxPulses \in Nat \ {0} /\ MaxPulses % 2 = 0

Half(l, d) == [level |-> l, dur |-> d]
Durations(halves) == [i \in DOMAIN halves |-> halves[i].dur]
Trimmed(s, n) == IF Len(s) <= n THEN s ELSE SubSeq(s, 1, n)

-------------------------------------------------------------------------------
(* The receivers. *)

\* A burst ends on a mark.
endOnMark(halves) ==
  IF halves # <<>> /\ Last(halves).level = 0 THEN Front(halves) ELSE halves

\* The durations from the first mark to the end, as many as the buffer takes.
collapseBand(halves) ==
  LET fillers == {i \in DOMAIN halves : halves[i].dur = 0}
      marks   == {i \in DOMAIN halves : halves[i].level = 1 /\ \A j \in fillers : i < j}
      last    == IF fillers = {} THEN Len(halves) ELSE Min(fillers) - 1
  IN  IF marks = {} THEN <<>>
      ELSE Durations(endOnMark(Trimmed(SubSeq(halves, Min(marks), last), MaxPulses)))

\* One half of an IR buffer: a long high is a space of the envelope, and all between two
\* of them is one mark.
envelope(env, half) ==
  IF half.dur = 0 THEN env
  ELSE IF half.level = 1 /\ half.dur >= EnvGapUs
  THEN [train |-> (IF env.mark > 0 THEN Append(env.train, Half(1, env.mark)) ELSE env.train)
                    \o <<Half(0, half.dur)>>,
        mark  |-> 0]
  ELSE [env EXCEPT !.mark = @ + half.dur]

pollIRBurst(halves) ==
  LET env == FoldLeft(envelope, [train |-> <<>>, mark |-> 0], halves)
      all == IF env.mark > 0 THEN Append(env.train, Half(1, env.mark)) ELSE env.train
  IN  Durations(endOnMark(Trimmed(all, MaxPulses)))

-------------------------------------------------------------------------------
(* What is stored, and the transmitter. *)

\* capture(), of an RF burst's de-clipping b: one frame and its gap, and how often the
\* remote repeats it.
storedPulses(b) ==
  Append(b.frame, Max({MinTrailGapUs, IF b.gap > 0 THEN b.gap ELSE TrailGapUs}))
storedRepeat(b) ==
  LET n == IF b.frames > 1 THEN b.frames ELSE StoredFrameCount
  IN  IF n <= MaxFrameRepeat THEN n ELSE MaxFrameRepeat

\* As many copies as the transmit buffer holds, in one keying.
fireCode(pulses, repeat) ==
  LET fit  == IF MaxPulses \div Len(pulses) < 1 THEN 1 ELSE MaxPulses \div Len(pulses)
      reps == IF repeat <= fit THEN repeat ELSE fit
  IN  FlattenSeq([r \in 1 .. reps |-> pulses])

\* A duration past the width of the symbol's field takes several halves.
pushHalf(l, d) ==
  [k \in 1 .. (d + RmtMaxDur - 1) \div RmtMaxDur |->
     Half(l, IF k * RmtMaxDur <= d THEN RmtMaxDur ELSE d - (k - 1) * RmtMaxDur)]

\* The halves of the symbols, and an empty one if they are odd.
packPulsesToSymbols(pulses) ==
  LET halves == Trimmed(FlattenSeq([i \in 1 .. 2 * (Len(pulses) \div 2) |->
                          pushHalf(IF IsMark(i) THEN 1 ELSE 0, pulses[i])]), MaxPulses)
  IN  IF Len(halves) % 2 = 1 THEN Append(halves, Half(0, 0)) ELSE halves

\* On the air, halves of one level are one pulse, and the level is low after the last.
keyed(halves, half) ==
  IF half.dur = 0 THEN halves
  ELSE IF halves # <<>> /\ Last(halves).level = half.level
  THEN [halves EXCEPT ![Len(halves)].dur = @ + half.dur]
  ELSE Append(halves, half)
transmitOOK(pulses) == endOnMark(FoldLeft(keyed, <<>>, packPulsesToSymbols(pulses)))

sendRFCode(pulses) ==
  IF Len(pulses) < 2 \/ Len(pulses) % 2 = 1 THEN <<>> ELSE transmitOOK(pulses)

-------------------------------------------------------------------------------
(* A burst in the buffer of a receiver that hears a frame again and again, and what *)
(* the pieces make.                                                                 *)

\* Stretches of pulses and the gaps between them.
Repeated(stretches, gap) ==
  Tail(FlattenSeq([k \in DOMAIN stretches |-> <<gap>> \o stretches[k]]))
Received(train) == [i \in 1 .. Len(train) |-> Half(i % 2, train[i])] \o <<Half(0, 0)>>

\* The carrier of a mark of some cycles ends with the space after it, which the last
\* high half belongs to; the buffer ends at the last edge before idleness.
Carried(train, cycleUs) ==
  FlattenSeq([i \in DOMAIN train |->
    IF IsMark(i) THEN [k \in 1 .. 2 * train[i] - 1 |-> Half((k + 1) % 2, cycleUs)]
                 ELSE <<Half(1, train[i] + cycleUs)>>]) \o <<Half(0, 0)>>

\* The frame f is recovered and its repeats counted, if every slot came through unclipped
\* in some whole copy and no other length was heard as often (test_main.cpp:143,157).
FrameRecovered(f, stretches, gap) ==
  LET copies   == {k \in DOMAIN stretches : Len(stretches[k]) = Len(f)}
      heard(n) == Cardinality({k \in DOMAIN stretches : Len(stretches[k]) = n})
      enough   == /\ \A i \in DOMAIN f : \E k \in copies : stretches[k][i] = f[i]
                  /\ \A k \in DOMAIN stretches : LET n == Len(stretches[k])
                       IN heard(n) < heard(Len(f)) \/ (heard(n) = heard(Len(f)) /\ n <= Len(f))
      burst    == declipBurst(collapseBand(Received(Repeated(stretches, gap))))
  IN  enough => burst.frame = f /\ burst.frames = Cardinality(copies)

\* A code sent by the blaster is heard as the frame that was stored: the split of long
\* durations, the repeats and the cut at the buffer's end do not show in it.
ReplayIsRecognised(b) ==
  LET air == sendRFCode(fireCode(storedPulses(b), storedRepeat(b)))
  IN  declipBurst(collapseBand(air)).frame = b.frame

\* The IR envelope matches the train that was sent (marks in cycles of the carrier), pulse
\* by pulse, within the tolerance the machine allows, and no time is lost between its
\* first and last edge.
EnvelopeIsTrue(train, cycleUs) ==
  LET got  == pollIRBurst(Carried(train, cycleUs))
      sent == [i \in DOMAIN train |-> IF IsMark(i) THEN 2 * train[i] * cycleUs ELSE train[i]]
      all  == IF IsMark(Len(sent)) THEN sent ELSE Front(sent)
      kept == IF Len(all) <= MaxPulses THEN all ELSE SubSeq(all, 1, MaxPulses - 1)
      total(s) == FoldLeft(LAMBDA x, y : x + y, 0, s)
  IN  /\ burstsMatch(got, kept)
      /\ kept = sent => total(got) = total(Durations(Carried(train, cycleUs)))
===============================================================================
