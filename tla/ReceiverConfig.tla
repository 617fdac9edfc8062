----------------------------- MODULE ReceiverConfig -----------------------------
(***************************************************************************)
(* How the receiver derives its sizes from the command line:               *)
(* ReceiverTiming::from_args and validate_audio_args of                    *)
(* receiver/src/main.rs, and the sizes JitterBuffer computes from its      *)
(* configuration (common/src/jitter.rs).  An absent option is {}, a given  *)
(* one the set of its value.  The saturation of the u64 products is left   *)
(* out: a delay that reaches it is longer than ten million years.          *)
(***************************************************************************)
EXTENDS Integers, FiniteSetsExt

DEFAULT_FIXED_DELAY_FRAMES == 14400
FIXED_LATENCY_MIN_CAPACITY_MS == 600

ms_to_frames(ms, rate) == (rate * ms) \div 1000
frames_to_ms_ceil(frames, rate) == (frames * 1000 + rate - 1) \div rate

fixed_delay_capacity_ms(frames, rate) ==
  Max({3 * frames_to_ms_ceil(frames, rate), FIXED_LATENCY_MIN_CAPACITY_MS})

\* ReceiverTiming::from_args: the delay in frames, else in milliseconds, else the
\* default.  Both options together are an error.
FixedDelayFrames(args) ==
  CASE args.fixed_delay_frames # {} -> CHOOSE n \in args.fixed_delay_frames : TRUE
    [] args.fixed_latency_ms # {} ->
         ms_to_frames(CHOOSE ms \in args.fixed_latency_ms : TRUE, args.sample_rate)
    [] OTHER -> DEFAULT_FIXED_DELAY_FRAMES

ReceiverTiming(args) ==
  [fixed_delay_frames |-> FixedDelayFrames(args),
   target_buffer_ms   |-> frames_to_ms_ceil(FixedDelayFrames(args), args.sample_rate),
   capacity_ms        |-> fixed_delay_capacity_ms(FixedDelayFrames(args),
                                                  args.sample_rate)]

\* What from_args and validate_audio_args accept; the rate is a parameter here,
\* where the code insists on 48 kHz and stereo.  The check of the device's buffer
\* size is left out: no size here is derived from it.
ArgsAreValid(args) ==
  /\ args.fixed_delay_frames = {} \/ args.fixed_latency_ms = {}
  /\ FixedDelayFrames(args) > 0
  /\ ReceiverTiming(args).target_buffer_ms > 0
  /\ args.packet_queue_capacity > 0

\* JitterBuffer's capacity and hard_trim_tolerance_frames, in frames.
CapacityFrames(args) == ms_to_frames(ReceiverTiming(args).capacity_ms, args.sample_rate)
hard_trim_tolerance_frames(delay, rate) ==
  LET min_frames == Max({rate \div 100, 1})
      max_frames == Max({rate \div 20, min_frames})
  IN Min({Max({delay \div 10, min_frames}), max_frames})
=============================================================================
