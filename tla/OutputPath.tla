----------------------------- MODULE OutputPath -----------------------------
(***************************************************************************)
(* The way of the samples through a running engine: the capture callback   *)
(* pushes a slice into InputRing and stamps it (cpal_io.rs), the DSP       *)
(* worker turns blocks of InputRing into blocks of VirtualOutRing and,     *)
(* while the monitor is on, of MonitorOutRing (worker.rs), and the two     *)
(* output callbacks play what they find (cpal_io.rs, monitor.rs).          *)
(*                                                                         *)
(* Every push is all or nothing and drops what does not fit; nobody waits  *)
(* for anybody.  A sample is known by the slice it was captured in and by  *)
(* its place in a block; what the DSP chain does to its value is left out. *)
(***************************************************************************)

EXTENDS Integers, Sequences

CONSTANTS
  Slices,        \* sizes of a captured slice
  Block,         \* BLOCK
  RingCapacity,  \* RING_CAPACITY
  TsCapacity,    \* TS_RING_CAPACITY
  Frames,        \* frames an output callback is asked for
  MaxSlices,     \* bound: slices captured
  MaxPlays       \* bound: callbacks of the virtual output

ASSUME OutputAssumption ==
  /\ Slices \subseteq Nat \ {0} /\ Frames \subseteq Nat \ {0}
  /\ Block \in Nat \ {0} /\ RingCapacity \in Nat /\ TsCapacity \in Nat
  /\ MaxSlices \in Nat /\ MaxPlays \in Nat

(* A ring has room for a slice or a block next to what a callback takes,   *)
(* and the stamps that fill theirs have a callback's worth behind them.    *)
ASSUME SizesAssumption ==
  \A f \in Frames :
    /\ f + Block <= RingCapacity
    /\ \A n \in Slices : f <= TsCapacity * n /\ f + n <= RingCapacity

VARIABLES
  in_ring,          \* InputRing: the slice of each sample
  vo_ring, mo_ring, \* VirtualOutRing and MonitorOutRing
  ts_ring,          \* the stamps not yet paired: slice and instant of each
  captured,         \* block_seq: slices captured
  stamping,         \* the capture callback is between its push and its stamp
  input_rms,        \* Telemetry::input_rms: the slice whose level it is
  blocks,           \* history: blocks processed
  scratch,          \* the block on its way to MonitorOutRing, or <<>>
  monitor_enabled,  \* HotParams::monitor_enabled
  vo_last, mo_last, \* history: the last sample each output played
  clock,            \* the time, in callbacks of the virtual output
  meter             \* Telemetry::latency_ms: from the stamp last used to the
                    \*   playback, with that stamp and the slice that played

vars == <<in_ring, vo_ring, mo_ring, ts_ring, captured, stamping, input_rms, blocks,
          scratch, monitor_enabled, vo_last, mo_last, clock, meter>>

capture == <<captured, stamping, input_rms>>
worker == <<blocks, scratch>>
vout == <<vo_last, clock, meter>>

Stamps == [slice : 0..MaxSlices, at : Nat]
Samples == [slice : 0..MaxSlices, block : Nat, at : 1..Block]
Silence == [slice |-> 0, block |-> 0, at |-> Block]

TypeOK ==
  /\ in_ring \in Seq(1..MaxSlices) /\ Len(in_ring) <= RingCapacity
  /\ vo_ring \in Seq(Samples) /\ Len(vo_ring) <= RingCapacity
  /\ mo_ring \in Seq(Samples) /\ Len(mo_ring) <= RingCapacity
  /\ ts_ring \in Seq(Stamps) /\ Len(ts_ring) <= TsCapacity
  /\ captured \in 0..MaxSlices
  /\ stamping \in BOOLEAN
  /\ input_rms \in 0..MaxSlices
  /\ blocks \in Nat
  /\ scratch \in Seq(Samples) /\ Len(scratch) \in {0, Block}
  /\ monitor_enabled \in BOOLEAN
  /\ vo_last \in Samples /\ mo_last \in Samples
  /\ clock \in 0..MaxPlays
  /\ meter \in [stamp : 0..MaxSlices, heard : 0..MaxSlices, latency : Int]

Init ==
  /\ in_ring = <<>> /\ vo_ring = <<>> /\ mo_ring = <<>> /\ ts_ring = <<>>
  /\ captured = 0 /\ stamping = FALSE /\ input_rms = 0
  /\ blocks = 0 /\ scratch = <<>>
  /\ monitor_enabled = FALSE
  /\ vo_last = Silence /\ mo_last = Silence
  /\ clock = 0
  /\ meter = [stamp |-> 0, heard |-> 0, latency |-> 0]

-----------------------------------------------------------------------------
(* Mutant: what fits is pushed. *)
PushPart(ring, s) ==
  LET free == RingCapacity - Len(ring)
  IN ring \o SubSeq(s, 1, IF free < Len(s) THEN free ELSE Len(s))

(* rtrb::Producer::push_entire_slice with its result ignored. *)
Push(ring, s) == IF Len(ring) + Len(s) <= RingCapacity THEN ring \o s ELSE ring

(* The capture callback: the slice is pushed, ... *)
CapturePush(n) ==
  /\ ~stamping /\ captured < MaxSlices
  /\ captured' = captured + 1 /\ stamping' = TRUE
  /\ in_ring' = Push(in_ring, [i \in 1..n |-> captured + 1])
  /\ UNCHANGED <<vo_ring, mo_ring, ts_ring, input_rms, worker, monitor_enabled, vout,
                 mo_last>>

(* The instant of a stamp is that of its push; the device's own is earlier  *)
(* by what the callback has taken, a part of the latency that no later      *)
(* stall makes longer.                                                      *)
Stamped ==
  IF Len(ts_ring) < TsCapacity
  THEN Append(ts_ring, [slice |-> captured, at |-> clock]) ELSE ts_ring

(* Mutant: the level is part of the pair, and dropped with it. *)
CaptureStampPaired ==
  /\ stamping /\ stamping' = FALSE
  /\ input_rms' = IF Len(ts_ring) < TsCapacity THEN captured ELSE input_rms
  /\ ts_ring' = Stamped
  /\ UNCHANGED <<in_ring, vo_ring, mo_ring, captured, worker, monitor_enabled, vout,
                 mo_last>>

(* ... its level is stored and it is stamped, also when the push dropped it. *)
CaptureStamp ==
  /\ stamping /\ stamping' = FALSE
  /\ input_rms' = captured
  /\ ts_ring' = Stamped
  /\ UNCHANGED <<in_ring, vo_ring, mo_ring, captured, worker, monitor_enabled, vout,
                 mo_last>>

(* The worker: one block of InputRing becomes one of VirtualOutRing (muted *)
(* or not by the level it finds, see SilenceGate), ...                     *)
ProcessBlock ==
  /\ scratch = <<>> /\ Len(in_ring) >= Block
  /\ blocks' = blocks + 1
  /\ scratch' = [i \in 1..Block |-> [slice |-> in_ring[i], block |-> blocks + 1, at |-> i]]
  /\ in_ring' = SubSeq(in_ring, Block + 1, Len(in_ring))
  /\ vo_ring' = Push(vo_ring, scratch')
  /\ UNCHANGED <<mo_ring, ts_ring, capture, monitor_enabled, vout, mo_last>>

(* ... and the same one of MonitorOutRing if the monitor is on by now. *)
MirrorBlock ==
  /\ scratch # <<>> /\ scratch' = <<>>
  /\ mo_ring' = IF monitor_enabled THEN Push(mo_ring, scratch) ELSE mo_ring
  /\ UNCHANGED <<in_ring, vo_ring, ts_ring, capture, blocks, monitor_enabled, vout, mo_last>>

-----------------------------------------------------------------------------
(* read_chunk: all the frames asked for, or none and the callback plays    *)
(* silence.                                                                *)
Read(ring, n) == IF Len(ring) >= n THEN SubSeq(ring, 1, n) ELSE <<>>
Rest(ring, n) == IF Len(ring) >= n THEN SubSeq(ring, n + 1, Len(ring)) ELSE ring

LastOf(last, played) == IF played = <<>> THEN last ELSE played[Len(played)]

Reading(stamp, heard, now) ==
  [stamp |-> stamp.slice, heard |-> heard, latency |-> now - stamp.at]

(* Mutant: without a fresh pair the last one is used again, one callback   *)
(* later than the last time.                                               *)
UsePairCached(old, stamps, heard, now) ==
  IF stamps # <<>> THEN Reading(stamps[Len(stamps)], heard, now)
  ELSE IF old.stamp = 0 THEN old
  ELSE [old EXCEPT !.heard = heard, !.latency = @ + 1]

(* Of the pairs drained from the ring the last is the fresh one; without   *)
(* any the meter keeps its value.                                          *)
UsePair(old, stamps, heard, now) ==
  IF stamps = <<>> THEN old ELSE Reading(stamps[Len(stamps)], heard, now)

VirtualOutCallback(n) ==
  LET played == Read(vo_ring, n)
  IN /\ clock < MaxPlays
     /\ clock' = clock + 1
     /\ vo_ring' = Rest(vo_ring, n)
     /\ vo_last' = LastOf(vo_last, played)
     /\ ts_ring' = <<>>
     /\ meter' = UsePair(meter, ts_ring, vo_last'.slice, clock')
     /\ UNCHANGED <<in_ring, mo_ring, capture, worker, monitor_enabled, mo_last>>

(* While the monitor is off its ring is left alone. *)
MonitorCallback(n) ==
  LET played == Read(mo_ring, n)
  IN /\ monitor_enabled
     /\ mo_ring' = Rest(mo_ring, n)
     /\ mo_last' = LastOf(mo_last, played)
     /\ UNCHANGED <<in_ring, vo_ring, ts_ring, capture, worker, monitor_enabled, vout>>

(* The user's toggle, or the feedback detector. *)
ToggleMonitor ==
  /\ monitor_enabled' = ~monitor_enabled
  /\ UNCHANGED <<in_ring, vo_ring, mo_ring, ts_ring, capture, worker, vout, mo_last>>

Next ==
  \/ \E n \in Slices : CapturePush(n)
  \/ CaptureStamp
  \/ ProcessBlock
  \/ MirrorBlock
  \/ \E n \in Frames : VirtualOutCallback(n)
  \/ \E n \in Frames : MonitorCallback(n)
  \/ ToggleMonitor

Spec == Init /\ [][Next]_vars

-----------------------------------------------------------------------------
(* t may be played after s, silence in between not counted.                *)
Follows(s, t) ==
  IF s.at < Block THEN t.block = s.block /\ t.at = s.at + 1
                  ELSE t.block > s.block /\ t.at = 1

Whole(last, ring) ==
  /\ ring # <<>> => Follows(last, ring[1])
  /\ \A i \in 1..(Len(ring) - 1) : Follows(ring[i], ring[i + 1])

(* worker.rs:435-442: however the rings overflow, run dry or are switched  *)
(* off, what an output has played and is yet to play are whole blocks in   *)
(* the order they were captured.                                           *)
WholeBlocks == Whole(vo_last, vo_ring) /\ Whole(mo_last, mo_ring)

(* cpal_io.rs:575-583: the meter is not inflated.  The stamp it last took   *)
(* is not older than the audio that was playing, but for a slice that       *)
(* overtook its own stamp; and it was left since the callback before, so    *)
(* that while capture stalls and playback goes on the value stays what it   *)
(* was, whatever the rings hold or have dropped.                            *)
MeterNotInflated ==
  /\ meter.stamp >= meter.heard - 1
  /\ meter.latency <= 1

(* worker.rs:342: the gate judges a block by the level stored last.  That  *)
(* may be the level of a later slice, when the worker is behind, but of an *)
(* earlier one only by a single slice, the one whose samples overtook      *)
(* their level; dropped pushes and stamps make no difference.              *)
LevelKeepsUp == [][blocks' # blocks => input_rms >= in_ring[Block] - 1]_vars

-----------------------------------------------------------------------------
(* The inductive invariants the proofs use. *)

(* Between steps a ring ends with the end of a block, and holds no block   *)
(* later than b; so does what was played when there is nothing left.       *)
Line(last, ring, b) ==
  /\ last \in Samples /\ ring \in Seq(Samples)
  /\ Whole(last, ring)
  /\ (IF ring = <<>> THEN last ELSE ring[Len(ring)]).at = Block
  /\ last.block <= b /\ \A i \in 1..Len(ring) : ring[i].block <= b

IsBlock(s, b) ==
  /\ s \in Seq(Samples) /\ Len(s) = Block
  /\ \A i \in 1..Block : s[i].block = b /\ s[i].at = i

(* The block on its way to MonitorOutRing is the last one, and not in it.  *)
Lines ==
  /\ blocks \in Nat
  /\ Line(vo_last, vo_ring, blocks)
  /\ IF scratch = <<>> THEN Line(mo_last, mo_ring, blocks)
     ELSE IsBlock(scratch, blocks) /\ blocks > 0 /\ Line(mo_last, mo_ring, blocks - 1)

(* The level is that of the last slice but one while the last is half done.*)
LevelCurrent ==
  /\ captured \in 0..MaxSlices
  /\ in_ring \in Seq(1..MaxSlices)
  /\ \A i \in 1..Len(in_ring) : in_ring[i] <= captured
  /\ stamping \in BOOLEAN
  /\ input_rms = IF stamping THEN captured - 1 ELSE captured

(* The slices stamped when the virtual output drained the stamps last.     *)
Drained == IF ts_ring = <<>> THEN input_rms ELSE ts_ring[1].slice - 1

(* Since then every slice has left a stamp, until their ring was full, and  *)
(* no time has passed.                                                      *)
StampsFollow ==
  /\ clock \in 0..MaxPlays
  /\ ts_ring \in Seq(Stamps) /\ Len(ts_ring) <= TsCapacity
  /\ Drained \in 0..input_rms
  /\ \A i \in 1..Len(ts_ring) : ts_ring[i].slice = Drained + i /\ ts_ring[i].at = clock
  /\ ts_ring # <<>> => Len(ts_ring) = TsCapacity \/ Drained + Len(ts_ring) = input_rms

(* What the virtual output is going to play, as far as it is captured.     *)
PathLen == Len(vo_ring) + Len(in_ring)
PathSlice(j) ==
  IF j <= Len(vo_ring) THEN vo_ring[j].slice ELSE in_ring[j - Len(vo_ring)]

(* The first f of it, and how many there are if there are fewer.           *)
Ahead(f) ==
  /\ \A j \in 1..PathLen : j <= f => PathSlice(j) <= Drained + 1 + TsCapacity
  /\ \/ captured <= Drained + 1 \/ PathLen >= f
     \/ \E n \in Slices : PathLen >= (captured - Drained - 1) * n

(* Nothing that the next callback may play is later than the last stamp of *)
(* a full ring, but for the slice that was on its way at the last drain:   *)
(* whatever a callback asks for is there before the slices since then have *)
(* filled the ring, or more than it asks for was there to overflow.        *)
PlaysStamped ==
  /\ vo_last.slice <= Drained + 1
  /\ \A i \in 1..Len(vo_ring) : vo_ring[i].slice <= captured
  /\ \A f \in Frames : Ahead(f)

MeterSane ==
  meter \in [stamp : Int, heard : Int, latency : Int] /\ MeterNotInflated

IInv == Lines /\ LevelCurrent /\ StampsFollow /\ PlaysStamped /\ MeterSane

=============================================================================
