----------------------------- MODULE SilenceGate -----------------------------
(***************************************************************************)
(* The silence gate of the DSP worker (dsp.rs, Gate): an envelope follows  *)
(* the input level, once per block; the gate opens above one threshold and *)
(* closes after the envelope has stayed below a lower one for a while.     *)
(*                                                                         *)
(* A level is a number of a small range; the follower's step ends anywhere *)
(* between the old envelope and the level, which is what its two rates     *)
(* come to when levels are this coarse.                                    *)
(***************************************************************************)

EXTENDS Integers

CONSTANTS
  Levels,     \* input levels
  OpenAt,     \* open_threshold
  CloseAt,    \* close_threshold
  HoldOpen    \* hold_open_samples, in blocks

ASSUME GateAssumption ==
  /\ Levels \subseteq Nat /\ 0 \in Levels
  /\ OpenAt \in Nat /\ CloseAt \in Nat /\ CloseAt <= OpenAt
  /\ HoldOpen \in Nat \ {0}

VARIABLES
  is_open,              \* Gate::is_open
  smoothed_rms,         \* Gate::smoothed_rms
  samples_since_below,  \* Gate::samples_since_below, in blocks
  quiet                 \* history: blocks in a row that left the envelope
                        \*   below CloseAt, counted up to HoldOpen

gate == <<is_open, smoothed_rms, samples_since_below, quiet>>

GateTypeOK ==
  /\ is_open \in BOOLEAN
  /\ smoothed_rms \in Nat
  /\ samples_since_below \in 0..HoldOpen
  /\ quiet \in 0..HoldOpen

GateInit ==
  /\ is_open = FALSE /\ smoothed_rms = 0 /\ samples_since_below = 0 /\ quiet = 0

Between(a, b) == IF a <= b THEN a..b ELSE b..a

(* Mutant: a level in the hysteresis band does not restart the count. *)
StayOpenNoReset ==
  IF smoothed_rms' < CloseAt
  THEN /\ samples_since_below' = samples_since_below + 1
       /\ is_open' = (samples_since_below + 1 < HoldOpen)
  ELSE UNCHANGED <<is_open, samples_since_below>>

StayOpen ==
  IF smoothed_rms' < CloseAt
  THEN /\ samples_since_below' = samples_since_below + 1
       /\ is_open' = (samples_since_below + 1 < HoldOpen)
  ELSE samples_since_below' = 0 /\ UNCHANGED is_open

StayClosed ==
  IF smoothed_rms' > OpenAt
  THEN is_open' = TRUE /\ samples_since_below' = 0
  ELSE UNCHANGED <<is_open, samples_since_below>>

(* Gate::update, with the level the capture callback stored last. *)
Update(level) ==
  /\ smoothed_rms' \in Between(smoothed_rms, level)
  /\ IF is_open THEN StayOpen ELSE StayClosed
  /\ quiet' = IF smoothed_rms' >= CloseAt THEN 0
              ELSE IF quiet < HoldOpen THEN quiet + 1 ELSE quiet

-----------------------------------------------------------------------------
(* What an update may never do: shut the gate before HoldOpen blocks in a   *)
(* row have left the envelope below the lower threshold, or leave it shut  *)
(* with the envelope above the upper one.                                  *)
HoldsOpen ==
  /\ is_open /\ ~is_open' => quiet' = HoldOpen
  /\ ~is_open' => smoothed_rms' <= OpenAt

=============================================================================
