---------------------------- MODULE CapturePath ----------------------------
(***************************************************************************)
(* How the capture stream is set up and what its callback does with the    *)
(* frames it is given: pick_input_config takes the best of the ranges the  *)
(* device offers, pick_buffer_size asks for blocks if the device has them, *)
(* and the callback mixes down to mono and, on a device without 48 kHz,    *)
(* resamples (cpal_io.rs, resampler.rs) before InputRing.                  *)
(*                                                                         *)
(* A frame is counted, never looked at.                                    *)
(***************************************************************************)

EXTENDS FiniteSetsExt

CONSTANTS
  Block,        \* BLOCK, also the resampler's chunk
  Target,       \* SAMPLE_RATE_HZ
  Ranges,       \* what a device may offer: channels, f32, min, max, and its
                \*   buffer sizes <<least, most>>, or <<>> where unknown
  MaxRanges,    \* bound: ranges of one device
  AnySize,      \* frames per callback where the buffer size is the device's
  MaxCount      \* bound: frames counted as lost or as padding

ASSUME CaptureAssumption ==
  /\ Block \in Nat \ {0} /\ Target \in Nat /\ MaxRanges \in Nat /\ MaxCount \in Nat
  /\ AnySize \subseteq Nat \ {0}
  /\ \A r \in Ranges :
       /\ r.channels \in Nat \ {0} /\ r.f32 \in BOOLEAN
       /\ r.min \in Nat /\ r.max \in Nat /\ r.min <= r.max
       /\ r.buffer # <<>> => r.buffer[2] \in Nat /\ r.buffer[1] \in 1..r.buffer[2]

None == [channels |-> 0, rate |-> 0, buffer |-> <<>>]

VARIABLES
  offered,    \* supported_input_configs() of the selected input
  supported,  \* the config the stream was built with, or None
  failed,     \* the build ended with NoCompatibleConfig
  excess,     \* frames the resampler did not look at
  padding,    \* silent frames the resampler was given
  truncated,  \* frames the downmix did not look at
  xruns       \* Telemetry::xruns, since the build, as far as this callback counts

counts == <<excess, padding, truncated, xruns>>
vars == <<offered, supported, failed, excess, padding, truncated, xruns>>

Devices == UNION {[1..n -> Ranges] : n \in 0..MaxRanges}

Init ==
  /\ offered \in Devices
  /\ supported = None /\ failed = FALSE
  /\ excess = 0 /\ padding = 0 /\ truncated = 0 /\ xruns = 0

-----------------------------------------------------------------------------
(* pick_input_config: of each kind the first range is remembered, and the  *)
(* kinds have an order.                                                    *)

Supports48k(r) == r.min <= Target /\ Target <= r.max

OfWidth(ranges, channels) ==
  {i \in DOMAIN ranges : ranges[i].f32 /\ ranges[i].channels = channels}

At48k(ranges, channels) == {i \in OfWidth(ranges, channels) : Supports48k(ranges[i])}
Other(ranges, channels) == {i \in OfWidth(ranges, channels) : ~Supports48k(ranges[i])}

OrElse(places, others) == IF places # {} THEN places ELSE others

Collapse(r, rate) == [channels |-> r.channels, rate |-> rate, buffer |-> r.buffer]

(* Mutant: mono is preferred to the right rate. *)
PickMonoFirst(ranges) ==
  LET mono == OrElse(At48k(ranges, 1), Other(ranges, 1))
      stereo == OrElse(At48k(ranges, 2), Other(ranges, 2))
      kind == OrElse(mono, stereo)
      best == ranges[Min(kind)]
  IN IF kind = {} THEN None
     ELSE Collapse(best, IF Supports48k(best) THEN Target ELSE best.max)

PickInputConfig(ranges) ==
  LET at_48k == OrElse(At48k(ranges, 1), At48k(ranges, 2))
      other == OrElse(Other(ranges, 1), Other(ranges, 2))
  IN IF at_48k # {} THEN Collapse(ranges[Min(at_48k)], Target)
     ELSE IF other # {} THEN Collapse(ranges[Min(other)], ranges[Min(other)].max)
     ELSE None

(* Mutant: the largest buffer the device has. *)
LargestBuffer(sizes) == IF sizes = <<>> THEN AnySize ELSE {sizes[2]}

(* pick_buffer_size: what a callback may be given. *)
BufferSize(sizes) ==
  IF sizes = <<>> THEN AnySize
  ELSE IF Block \in sizes[1]..sizes[2] THEN {Block} ELSE {sizes[1]}

(* build_streams_and_worker asks the device at every start.  What else can *)
(* fail in a build is EngineLoop's.                                        *)
Build ==
  /\ supported' = PickInputConfig(offered)
  /\ failed' = (supported' = None)
  /\ excess' = 0 /\ padding' = 0 /\ truncated' = 0 /\ xruns' = 0
  /\ UNCHANGED offered

(* Stop, or a device change: another device may be there at the next build. *)
Teardown ==
  /\ supported' = None /\ failed' = FALSE
  /\ offered' \in Devices
  /\ UNCHANGED counts

-----------------------------------------------------------------------------
(* The callback. *)

Resampling == supported # None /\ supported.rate # Target

Least(a, b) == IF a < b THEN a ELSE b
Capped(n) == Least(n, MaxCount)

MonoScratch ==
  IF supported.buffer = <<>> THEN Block * 16
  ELSE IF supported.buffer[2] > Block * 4 THEN supported.buffer[2] ELSE Block * 4

(* The frames the downmix hands on; mono is taken as it comes. *)
Downmix(frames) ==
  IF supported.channels = 1 THEN frames ELSE Least(frames, MonoScratch)

CountCut(frames) ==
  /\ truncated' = Capped(truncated + frames - Downmix(frames))
  /\ xruns' = IF Downmix(frames) < frames THEN Capped(xruns + 1) ELSE xruns

(* Resampler48k::process_block reads at most a chunk and fills it up with  *)
(* zeros.                                                                  *)
ProcessBlock(n) ==
  IF n > Block
  THEN excess' = Capped(excess + n - Block) /\ UNCHANGED padding
  ELSE padding' = Capped(padding + Block - n) /\ UNCHANGED excess

Callback(frames) ==
  /\ supported # None
  /\ CountCut(frames)
  /\ IF Resampling THEN ProcessBlock(Downmix(frames)) ELSE UNCHANGED <<excess, padding>>
  /\ UNCHANGED <<offered, supported, failed>>

Next ==
  \/ supported = None /\ Build
  \/ Teardown
  \/ \E frames \in BufferSize(supported.buffer) : Callback(frames)

Spec == Init /\ [][Next]_vars

-----------------------------------------------------------------------------
Configs == {Collapse(r, rate) : r \in Ranges, rate \in {Target} \union {s.max : s \in Ranges}}

TypeOK ==
  /\ offered \in Devices
  /\ supported \in Configs \union {None}
  /\ failed \in BOOLEAN
  /\ {excess, padding, truncated, xruns} \subseteq 0..MaxCount

(* The order cpal_io.rs:160-165 gives: 48 kHz before mono, mono before     *)
(* stereo, then the device's own order; nothing but 32-bit floats in one   *)
(* or two channels.                                                        *)
Usable(r) == r.f32 /\ r.channels \in {1, 2}
Rank(r) == r.channels + (IF Supports48k(r) THEN 0 ELSE 2)
Best(i) ==
  /\ Usable(offered[i])
  /\ \A j \in DOMAIN offered : Usable(offered[j]) =>
       \/ Rank(offered[i]) < Rank(offered[j])
       \/ Rank(offered[i]) = Rank(offered[j]) /\ i <= j

(* A stream is built from the best range of the device, at 48 kHz if that  *)
(* range has it; and the build is refused only to a device without any     *)
(* usable range.                                                           *)
BestConfig ==
  /\ failed => \A i \in DOMAIN offered : ~Usable(offered[i])
  /\ supported # None =>
       \E i \in DOMAIN offered :
         /\ Best(i)
         /\ supported.channels = offered[i].channels /\ supported.buffer = offered[i].buffer
         /\ supported.rate = IF Supports48k(offered[i]) THEN Target ELSE offered[i].max

(* cpal_io.rs:414-418, resampler.rs:192: on a device with buffers of BLOCK *)
(* frames every frame reaches InputRing, resampled or not, and nothing is  *)
(* added; on any other, what the downmix cuts off is counted.              *)
FramesKept ==
  /\ (supported.buffer # <<>> /\ Block \in supported.buffer[1]..supported.buffer[2]) =>
       excess = 0 /\ padding = 0 /\ truncated = 0
  /\ truncated > 0 <=> xruns > 0

(* resampler.rs:171-173: "Excess input frames are dropped here -- the      *)
(* caller is responsible for chunking input into chunk_size-sized calls":  *)
(* the callback never gives the resampler more than a chunk.               *)
CallerChunks == excess = 0

=============================================================================
