------------------------------- MODULE Resampler -------------------------------
(***************************************************************************)
(* The sender's StreamingLinearResampler, common/src/resampler.rs: it      *)
(* turns the frames of the capture device into frames of the packet        *)
(* format's rate, one chunk at a time.  The packet thread sets the ratio   *)
(* from the rate correction in force before each chunk it pushes           *)
(* (sender/src/main.rs:1008-1012).                                         *)
(*                                                                         *)
(* The f64 ratio and read_pos are whole numbers of sub-frames, Sub to a    *)
(* frame.  The samples are left out: an output frame is the position it is *)
(* interpolated at.  The loop of `push' is a step for each output frame.   *)
(***************************************************************************)
EXTENDS Integers, FiniteSets

CONSTANTS
  Sub,         \* sub-frames in a frame
  Ratios,      \* source rate / effective target rate, in sub-frames
  ChunkSizes,  \* frames in a captured chunk
  MaxFrames    \* bound: frames pushed

ASSUME ResamplerAssumption ==
  /\ Sub \in Nat \ {0} /\ Ratios \subseteq Nat \ {0}
  /\ ChunkSizes \subseteq Nat /\ MaxFrames \in Nat

VARIABLES
  ratio, read_pos,
  buffered,    \* buffer.len()
  push_pc,     \* "idle", or inside push: "emit"
  pushed,      \* history: frames pushed,
  produced,    \* and output frames produced
  lead,        \* history: input time pushed less output time produced
  steady       \* history: the ratio has been the same since the first frame

vars == <<ratio, read_pos, buffered, push_pc, pushed, produced, lead, steady>>

TypeOK ==
  /\ ratio \in Ratios /\ read_pos \in Nat /\ buffered \in Nat
  /\ push_pc \in {"idle", "emit"}
  /\ pushed \in 0 .. MaxFrames /\ produced \in Nat /\ lead \in Int
  /\ steady \in BOOLEAN

\* StreamingLinearResampler::new
Init ==
  /\ ratio \in Ratios /\ read_pos = 0 /\ buffered = 0
  /\ push_pc = "idle" /\ pushed = 0 /\ produced = 0 /\ lead = 0 /\ steady = TRUE

\* set_effective_target_rate, and what it does to the histories.
SetRatio(r, n) ==
  /\ ratio' = r
  /\ pushed' = pushed + n
  /\ steady' = (pushed > 0 => steady /\ r = ratio)

\* push with equal rates and nothing buffered: the chunk as it is.
Passthrough(r, n) ==
  /\ push_pc = "idle" /\ pushed + n <= MaxFrames
  /\ r = Sub /\ buffered = 0
  /\ SetRatio(r, n)
  /\ produced' = produced + n
  /\ UNCHANGED <<read_pos, buffered, push_pc, lead>>

Push(r, n) ==
  /\ push_pc = "idle" /\ pushed + n <= MaxFrames
  /\ r # Sub \/ buffered > 0
  /\ SetRatio(r, n)
  /\ buffered' = buffered + n
  /\ lead' = lead + n * Sub
  /\ push_pc' = "emit"
  /\ UNCHANGED <<read_pos, produced>>

\* Two frames are needed to interpolate between.
BugOneIsEnough == read_pos < buffered * Sub
CanInterpolate == read_pos + Sub < buffered * Sub

Emit ==
  /\ push_pc = "emit" /\ CanInterpolate
  /\ produced' = produced + 1
  /\ read_pos' = read_pos + ratio
  /\ lead' = lead - ratio
  /\ UNCHANGED <<ratio, buffered, push_pc, pushed, steady>>

\* The frames behind the reader, which push drops at its end.
BugKeepOne == IF read_pos < Sub THEN 0 ELSE read_pos \div Sub - 1
Behind == read_pos \div Sub

BugForgetFraction == 0
PosAfterDrop == read_pos - Behind * Sub

PushEnd ==
  /\ push_pc = "emit" /\ ~CanInterpolate
  /\ buffered' = buffered - Behind
  /\ read_pos' = PosAfterDrop
  /\ push_pc' = "idle"
  /\ UNCHANGED <<ratio, pushed, produced, lead, steady>>

Next ==
  \/ \E r \in Ratios, n \in ChunkSizes : Passthrough(r, n) \/ Push(r, n)
  \/ Emit
  \/ PushEnd

Spec == Init /\ [][Next]_vars

-----------------------------------------------------------------------------
(* Correctness. *)

\* `buffer.drain(..drop)' (resampler.rs:81) is given no more frames than there
\* are: the last output may carry the reader past the end of the buffer, but not
\* further than by one frame.
DrainInBounds == (push_pc = "emit" /\ ~CanInterpolate) => Behind <= buffered

\* The resampler adds no latency and no drift of its own: between pushes it holds
\* one frame at most, and the time it has put out is the time it was given, to
\* less than a frame, however often the correction changes the ratio.
TimelineIsKept ==
  push_pc = "idle" => /\ buffered \in 0 .. 1 /\ read_pos < Sub
                      /\ -Sub < lead /\ lead <= Sub

\* resample_linear, the reference for one whole buffer of n frames: the output
\* frames it computes.
ResampleLinear(n, r) ==
  IF n = 0 THEN 0
  ELSE IF r = Sub THEN n
  ELSE IF n = 1 THEN 1
  ELSE Cardinality({k \in 0 .. (n * Sub + r - 1) \div r - 1 :
                      (k * r) \div Sub + 1 < n})

\* How the capture device cuts its frames into chunks does not show: with a
\* constant ratio the chunks together give what resample_linear gives for all
\* their frames at once (of a single frame nothing comes out yet).
ChunkingIsInvisible ==
  (push_pc = "idle" /\ steady /\ pushed # 1) =>
    produced = ResampleLinear(pushed, ratio)
=============================================================================
