------------------------------ MODULE DspChain ------------------------------
(***************************************************************************)
(* What the DSP worker keeps from block to block (worker.rs, dsp.rs): the  *)
(* silence gate, the window and the counter of the pitch estimate, the     *)
(* voicing it leaves in Telemetry::output_f0_hz, and the noise generator   *)
(* of the breathiness stage.  A worker is made anew by every start; the    *)
(* telemetry is the program's and outlives it.                             *)
(*                                                                         *)
(* A block is: the window takes the block in, the gate hears the level,    *)
(* stretch, de-esser and brightness run, the breathiness stage reads the   *)
(* voicing and draws one noise sample per sample, then the counter may     *)
(* come round to a new estimate.  Every stage runs for every block; the    *)
(* gate, the enable flags, the mix and the bypass only choose the buffer   *)
(* that goes out.  Samples are counted, their values are left out.         *)
(***************************************************************************)

EXTENDS SilenceGate

CONSTANTS
  Block,         \* BLOCK
  F0Interval,    \* F0_INTERVAL_SAMPLES
  F0Window,      \* the samples YIN wants, length of f0_window
  Width,         \* bits of XorShift32::state
  Left, Right, LastLeft,  \* its three shifts
  Seed,          \* the seed, as the set of its one bits
  DefaultSeed    \* 0x12345678, as the set of its one bits

ASSUME ChainAssumption ==
  /\ Block \in Nat \ {0} /\ F0Interval \in Nat \ {0} /\ F0Window \in Nat
  /\ Width \in Nat \ {0}
  /\ Left \in Nat \ {0} /\ Right \in Nat \ {0} /\ LastLeft \in Nat \ {0}
  /\ Seed \subseteq 0..(Width - 1)
  /\ DefaultSeed \subseteq 0..(Width - 1) /\ DefaultSeed # {}
  /\ F0Window <= F0Interval

VARIABLES
  at,                \* the worker: none, between blocks, or in the noise loop
  f0_window,         \* samples of this worker's input in f0_window
  samples_since_f0,
  voicing,           \* Telemetry::output_f0_hz: a pitch, or NaN
  estimate,          \* history: of this worker or of an earlier one
  age,               \* history: blocks done since the estimate, or since the
                     \*   worker began if it has not made one
  drawn,             \* samples of the block the breathiness stage has done
  noise              \* XorShift32::state, as the set of its one bits

chain == <<at, f0_window, samples_since_f0, voicing, estimate, age, drawn, noise>>
vars == <<at, f0_window, samples_since_f0, voicing, estimate, age, drawn, noise,
          is_open, smoothed_rms, samples_since_below, quiet>>

Bits == 0..(Width - 1)

ChainTypeOK ==
  /\ at \in {"none", "wait", "noise"}
  /\ f0_window \in 0..F0Window
  /\ samples_since_f0 \in Nat
  /\ voicing \in {"hz", "nan"}
  /\ estimate \in {"earlier", "own"}
  /\ age \in Nat
  /\ drawn \in 0..Block
  /\ noise \subseteq Bits

TypeOK == GateTypeOK /\ ChainTypeOK

Init ==
  /\ GateInit
  /\ at = "none"
  /\ f0_window = 0 /\ samples_since_f0 = 0
  /\ voicing = "nan" /\ estimate = "earlier" /\ age = 0
  /\ drawn = 0 /\ noise = Seed

-----------------------------------------------------------------------------
(* XorShift32::next_u32 on sets of bits.                                   *)

Xor(x, y) == (x \ y) \union (y \ x)
Shl(x, k) == {i + k : i \in x} \intersect Bits
Shr(x, k) == {i - k : i \in x} \intersect Bits

(* Mutant: x <<= 13 for x ^= x << 13, and so on.                           *)
NextNoiseShifted(x) == Shl(Shr(Shl(x, Left), Right), LastLeft)

NextNoise(x) ==
  LET a == Xor(x, Shl(x, Left))
      b == Xor(a, Shr(a, Right))
  IN Xor(b, Shl(b, LastLeft))

(* XorShift32::new: the recurrence never leaves zero, so zero is no seed.  *)
NonZeroSeed == IF Seed = {} THEN DefaultSeed ELSE Seed

-----------------------------------------------------------------------------
(* The engine thread. *)

(* worker::spawn: everything but the telemetry is new. *)
Spawn ==
  /\ at = "none" /\ at' = "wait"
  /\ f0_window' = 0 /\ samples_since_f0' = 0
  /\ estimate' = "earlier" /\ age' = 0
  /\ drawn' = 0 /\ noise' = NonZeroSeed
  /\ is_open' = FALSE /\ smoothed_rms' = 0 /\ samples_since_below' = 0 /\ quiet' = 0
  /\ UNCHANGED voicing

(* The stop flag is looked at between wakes only. *)
Stop ==
  /\ at = "wait" /\ at' = "none"
  /\ UNCHANGED <<f0_window, samples_since_f0, voicing, estimate, age, drawn, noise, gate>>

-----------------------------------------------------------------------------
(* The worker. *)

(* A block is read, with the level the capture callback stored last. *)
BeginBlock(level) ==
  /\ at = "wait" /\ at' = "noise"
  /\ f0_window' = IF f0_window + Block <= F0Window THEN f0_window + Block ELSE F0Window
  /\ Update(level)
  /\ drawn' = 0
  /\ UNCHANGED <<samples_since_f0, voicing, estimate, age, noise>>

(* One turn of the loop in Breathiness::process, voiced or not. *)
DrawNoise ==
  /\ at = "noise" /\ drawn < Block
  /\ drawn' = drawn + 1
  /\ noise' = NextNoise(noise)
  /\ UNCHANGED <<at, f0_window, samples_since_f0, voicing, estimate, age, gate>>

(* Mutant: no estimate while the gate is shut. *)
TickOpenOnly ==
  IF is_open /\ samples_since_f0 + Block >= F0Interval
  THEN /\ samples_since_f0' = 0
       /\ voicing' \in {"hz", "nan"}
       /\ estimate' = "own" /\ age' = 0
  ELSE /\ samples_since_f0' = samples_since_f0 + Block
       /\ age' = age + 1
       /\ UNCHANGED <<voicing, estimate>>

(* The F0 tick: YIN on the window, once the counter has come round. *)
Tick ==
  IF samples_since_f0 + Block >= F0Interval
  THEN /\ samples_since_f0' = 0
       /\ voicing' \in {"hz", "nan"}
       /\ estimate' = "own" /\ age' = 0
  ELSE /\ samples_since_f0' = samples_since_f0 + Block
       /\ age' = age + 1
       /\ UNCHANGED <<voicing, estimate>>

(* Mute or mix, tick, and out to both rings. *)
EndBlock ==
  /\ at = "noise" /\ drawn = Block
  /\ at' = "wait"
  /\ Tick
  /\ UNCHANGED <<f0_window, drawn, noise, gate>>

Next ==
  \/ Spawn
  \/ Stop
  \/ \E level \in Levels : BeginBlock(level)
  \/ DrawNoise
  \/ EndBlock

Spec == Init /\ [][Next]_vars

-----------------------------------------------------------------------------
(* Blocks from one estimate to the next: 7 in the code. *)
Cadence == (F0Interval + Block - 1) \div Block

(* worker.rs:372-377, D-48: the breathiness stage takes the voicing from   *)
(* the telemetry, where the tick of an earlier block has left it, or the   *)
(* last one of the session before.  Whether the gate is open or shut, it   *)
(* never uses an estimate older than one round of the counter, nor an      *)
(* earlier session's for longer than that; and what this worker has        *)
(* estimated, it did on a window full of its own input.                    *)
VoicingRecent ==
  at = "noise" =>
    /\ age < Cadence
    /\ estimate = "own" => f0_window = F0Window

(* dsp.rs:1136-1142: the noise never dies, because the generator never     *)
(* reaches zero, where it would stay.                                      *)
NoiseNeverDies == at # "none" => noise # {}

(* dsp.rs:462-468: whatever the levels, a worker's gate cuts in only after  *)
(* its full hold time in a row below the lower threshold, so that a pause  *)
(* between syllables passes; and while it is shut nothing above the upper  *)
(* one went by.                                                            *)
GateHolds == [][at = "wait" /\ at' = "noise" => HoldsOpen]_vars

=============================================================================
