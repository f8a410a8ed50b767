---------------------------- MODULE MCLearnMachine ----------------------------
(* A small instance of LearnMachine.  Payloads are pulse trains, compared and made as
   in PulseCapture, whose functions TLC evaluates here on every small burst. *)
EXTENDS LearnMachine, PulseCapture

\* The first matches the second and the second the third, but the first not the third;
\* the last stands alone, with a structure of its own.
Trains == {<<4, 2, 4>>, <<5, 2, 4>>, <<6, 2, 4>>, <<6, 3, 6, 3, 6>>}
NearTrains  == {<<p, q>> \in Trains \X Trains : burstsMatch(p, q)}
AlikeTrains == {<<p, q>> \in Trains \X Trains : structurallyAlike(p, q)}

-------------------------------------------------------------------------------
\* A frame, clipped in any way or cut at either end, a noise spike, and a copy that a
\* spike was added to.
Frames == {<<2, 2, 2>>, <<1, 2, 2>>, <<1, 3, 2, 2, 1>>}
Clipped(f) ==
  {c \in [1 .. Len(f) -> 1 .. 3] :
     \A i \in 1 .. Len(f) : IF IsMark(i) THEN c[i] <= f[i] ELSE c[i] >= f[i]}
Fragments(f) ==
  {<<1>>, f \o <<2, 1>>} \cup {SubSeq(f, 1, k) : k \in {k \in 1 .. Len(f) - 1 : IsMark(k)}}
                         \cup {SubSeq(f, k, Len(f)) : k \in {k \in 2 .. Len(f) : IsMark(k)}}

ASSUME FramesAreRecovered ==
  \A f \in Frames, n \in 1 .. 3 : \A s \in [1 .. n -> Clipped(f) \cup Fragments(f)] :
    FrameRecovered(f, s, ResetGapMinUs)

\* Gaps below and above the least one stored, and fewer and more frames than fit.
ASSUME ReplaysAreRecognised ==
  \A f \in Frames, gap \in 0 .. 7, frames \in 1 .. 6 :
    ReplayIsRecognised([frame |-> f, gap |-> gap, frames |-> frames])

\* Trains that end on a mark or a space, and trains about as long as the buffer.
ASSUME EnvelopesAreTrue ==
  /\ \A n \in 1 .. 8 : \A t \in [1 .. n -> 3 .. 4] : EnvelopeIsTrue(t, 1)
  /\ \A n \in MaxPulses - 2 .. MaxPulses + 2 : EnvelopeIsTrue([i \in 1 .. n |-> 3], 1)
===============================================================================
