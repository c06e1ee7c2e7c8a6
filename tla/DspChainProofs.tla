--------------------------- MODULE DspChainProofs ---------------------------
(***************************************************************************)
(* Proofs about DspChain, for every block, interval and window, every      *)
(* width, shift and seed of the generator, and every sequence of levels.   *)
(***************************************************************************)

EXTENDS DspChain, FiniteSetTheorems, WellFoundedInduction, TLAPS

USE GateAssumption, ChainAssumption

-----------------------------------------------------------------------------
(* Bits. *)

(* A nonempty set of bits has a lowest bit.                                *)
LEMMA LowestBit ==
  ASSUME NEW X \in SUBSET Nat, X # {}
  PROVE  \E m \in X : \A k \in X : m <= k
<1> DEFINE T == {0..m : m \in X}
           R == StrictSubsetOrdering(Nat)
<1>1. T \subseteq FiniteSubsetsOf(Nat) /\ T # {}
  <2>1. \A m \in X : 0..m \in SUBSET Nat /\ IsFiniteSet(0..m)
    BY FS_Interval
  <2> QED BY <2>1 DEF FiniteSubsetsOf
<1>2. IsWellFoundedOn(R, FiniteSubsetsOf(Nat))
  BY FS_StrictSubsetOrderingWellFounded
<1>3. PICK t \in T : \A u \in T : ~ (<<u, t>> \in R)
  <2> HIDE DEF R, T
  <2> QED BY <1>1, <1>2, WFMin
<1>4. PICK m \in X : t = 0..m
  BY <1>3
<1>5. ASSUME NEW k \in X, k < m
      PROVE  FALSE
  <2>1. 0..k \in T /\ 0..k \subseteq 0..m /\ m \in 0..m /\ m \notin 0..k
    BY <1>5
  <2>2. <<0..k, 0..m>> \in R
    BY <2>1 DEF StrictSubsetOrdering
  <2> QED BY <1>3, <1>4, <2>1, <2>2
<1> QED BY <1>5

(* And, among Width bits, a highest one.                                   *)
LEMMA HighestBit ==
  ASSUME NEW X \in SUBSET Bits, X # {}
  PROVE  \E m \in X : \A k \in X : k <= m
<1> DEFINE Y == {Width - 1 - i : i \in X}
<1>1. Y \in SUBSET Nat /\ Y # {}
  BY DEF Bits
<1>2. PICK n \in Y : \A k \in Y : n <= k
  <2> HIDE DEF Y
  <2> QED BY <1>1, LowestBit
<1>3. PICK m \in X : n = Width - 1 - m
  BY <1>2
<1>4. ASSUME NEW k \in X PROVE k <= m
  <2>1. Width - 1 - k \in Y
    OBVIOUS
  <2> QED BY <1>2, <1>3, <2>1 DEF Bits
<1> QED BY <1>4

(* A shift to the left leaves the lowest bit alone in x ^ (x << k), ...    *)
LEMMA XorShlNonEmpty ==
  ASSUME NEW X \in SUBSET Bits, X # {}, NEW k \in Nat \ {0}
  PROVE  Xor(X, Shl(X, k)) \in SUBSET Bits /\ Xor(X, Shl(X, k)) # {}
<1>1. PICK m \in X : \A i \in X : m <= i
  BY LowestBit DEF Bits
<1>2. m \notin Shl(X, k)
  BY <1>1 DEF Shl, Bits
<1> QED BY <1>2 DEF Xor, Shl

(* ... one to the right the highest.                                       *)
LEMMA XorShrNonEmpty ==
  ASSUME NEW X \in SUBSET Bits, X # {}, NEW k \in Nat \ {0}
  PROVE  Xor(X, Shr(X, k)) \in SUBSET Bits /\ Xor(X, Shr(X, k)) # {}
<1>1. PICK m \in X : \A i \in X : i <= m
  BY HighestBit
<1>2. m \notin Shr(X, k)
  BY <1>1 DEF Shr, Bits
<1> QED BY <1>2 DEF Xor, Shr

(* The recurrence leads from no other state to zero, whatever its shifts.  *)
LEMMA NextNoiseNonEmpty ==
  ASSUME NEW X \in SUBSET Bits, X # {}
  PROVE  NextNoise(X) \in SUBSET Bits /\ NextNoise(X) # {}
<1> DEFINE a == Xor(X, Shl(X, Left))
           b == Xor(a, Shr(a, Right))
<1>1. a \in SUBSET Bits /\ a # {}
  BY XorShlNonEmpty
<1>2. b \in SUBSET Bits /\ b # {}
  <2> HIDE DEF a
  <2> QED BY <1>1, XorShrNonEmpty
<1>3. Xor(b, Shl(b, LastLeft)) \in SUBSET Bits /\ Xor(b, Shl(b, LastLeft)) # {}
  <2> HIDE DEF b
  <2> QED BY <1>2, XorShlNonEmpty
<1> QED BY <1>3 DEF NextNoise

LEMMA SeedNonEmpty == NonZeroSeed \in SUBSET Bits /\ NonZeroSeed # {}
BY DEF NonZeroSeed, Bits

NoiseOK == noise \in SUBSET Bits /\ NoiseNeverDies

LEMMA NoiseStep ==
  ASSUME NoiseOK, [Next]_vars
  PROVE  NoiseOK'
<1> USE DEF NoiseOK, NoiseNeverDies
<1>1. CASE Spawn
  BY <1>1, SeedNonEmpty DEF Spawn
<1>2. CASE DrawNoise
  BY <1>2, NextNoiseNonEmpty DEF DrawNoise
<1>3. CASE Stop
  BY <1>3 DEF Stop
<1>4. CASE \E level \in Levels : BeginBlock(level)
  BY <1>4 DEF BeginBlock
<1>5. CASE EndBlock
  BY <1>5 DEF EndBlock
<1>6. CASE UNCHANGED vars
  BY <1>6 DEF vars
<1> QED BY <1>1, <1>2, <1>3, <1>4, <1>5, <1>6 DEF Next

(* A generator in use never reaches zero, for every width and every seed,  *)
(* zero included.                                                          *)
THEOREM NoiseLives == Spec => []NoiseNeverDies
<1>1. Init => NoiseOK
  BY DEF Init, NoiseOK, NoiseNeverDies, Bits
<1>2. NoiseOK => NoiseNeverDies
  BY DEF NoiseOK
<1> QED BY <1>1, <1>2, NoiseStep, PTL DEF Spec

-----------------------------------------------------------------------------
(* The gate. *)

GateInv ==
  /\ GateTypeOK
  /\ is_open => samples_since_below < HoldOpen /\ samples_since_below <= quiet

LEMMA BetweenNat == \A a, b \in Nat : Between(a, b) \subseteq Nat
BY DEF Between

(* What one update makes of the gate.                                      *)
LEMMA UpdateGate ==
  ASSUME GateInv, NEW level \in Levels, Update(level)
  PROVE  GateInv' /\ HoldsOpen
<1> USE DEF GateInv, GateTypeOK, HoldsOpen
<1>1. smoothed_rms' \in Nat
  BY BetweenNat DEF Update
<1>2. quiet' \in 0..HoldOpen
  BY DEF Update
<1>3. CASE is_open /\ smoothed_rms' < CloseAt
  <2>1. samples_since_below' = samples_since_below + 1
        /\ quiet' = IF quiet < HoldOpen THEN quiet + 1 ELSE quiet
    BY <1>1, <1>3 DEF Update, StayOpen
  <2>2. is_open' = (samples_since_below + 1 < HoldOpen)
    BY <1>3, Zenon DEF Update, StayOpen
  <2>3. CASE samples_since_below + 1 < HoldOpen
    <3>1. is_open' = TRUE
      BY <2>2, <2>3
    <3> QED BY <1>1, <1>2, <1>3, <2>1, <2>3, <3>1
  <2>4. CASE ~(samples_since_below + 1 < HoldOpen)
    <3>1. ~is_open'
      BY <2>2, <2>4, Zenon
    <3>2. is_open' \in BOOLEAN
      BY <2>2
    <3>3. quiet' = HoldOpen /\ samples_since_below' \in 0..HoldOpen
      BY <1>3, <2>1, <2>4
    <3>4. smoothed_rms' <= OpenAt
      BY <1>1, <1>3
    <3> QED BY <1>1, <1>2, <3>1, <3>2, <3>3, <3>4
  <2> QED BY <2>3, <2>4
<1>4. CASE is_open /\ ~(smoothed_rms' < CloseAt)
  <2>1. samples_since_below' = 0 /\ is_open' = is_open
    BY <1>4, Zenon DEF Update, StayOpen
  <2> QED BY <1>1, <1>2, <1>4, <2>1
<1>5. CASE ~is_open /\ smoothed_rms' > OpenAt
  <2>1. is_open' = TRUE /\ samples_since_below' = 0
    BY <1>5, Zenon DEF Update, StayClosed
  <2> QED BY <1>1, <1>2, <1>5, <2>1
<1>6. CASE ~is_open /\ ~(smoothed_rms' > OpenAt)
  <2>1. is_open' = is_open /\ samples_since_below' = samples_since_below
    BY <1>6, Zenon DEF Update, StayClosed
  <2> QED BY <1>1, <1>2, <1>6, <2>1
<1> QED BY <1>3, <1>4, <1>5, <1>6

LEMMA GateStep ==
  ASSUME GateInv, [Next]_vars
  PROVE  GateInv' /\ (at = "wait" /\ at' = "noise" => HoldsOpen)
<1>1. CASE Spawn
  <2>1. is_open' \in BOOLEAN /\ ~is_open'
    BY <1>1, Zenon DEF Spawn
  <2>2. smoothed_rms' = 0 /\ samples_since_below' = 0 /\ quiet' = 0 /\ at = "none"
    BY <1>1 DEF Spawn
  <2>3. 0 \in Nat /\ 0 \in 0..HoldOpen
    OBVIOUS
  <2> QED BY <2>1, <2>2, <2>3 DEF GateInv, GateTypeOK
<1>2. CASE \E level \in Levels : BeginBlock(level)
  BY <1>2, UpdateGate DEF BeginBlock
<1>3. CASE Stop \/ DrawNoise \/ EndBlock \/ UNCHANGED vars
  <2>1. UNCHANGED gate
    BY <1>3 DEF Stop, DrawNoise, EndBlock, vars, gate
  <2>2. ~(at = "wait" /\ at' = "noise")
    BY <1>3 DEF Stop, DrawNoise, EndBlock, vars
  <2> QED BY <2>1, <2>2 DEF gate, GateInv, GateTypeOK
<1> QED BY <1>1, <1>2, <1>3 DEF Next

(* For every pair of thresholds, hold time and sequence of levels.         *)
THEOREM GateHoldsOpen == Spec => GateHolds
<1>1. Init => GateInv
  <2> SUFFICES ASSUME Init PROVE GateInv
    OBVIOUS
  <2>1. is_open \in BOOLEAN /\ ~is_open
    BY Zenon DEF Init, GateInit
  <2>2. smoothed_rms = 0 /\ samples_since_below = 0 /\ quiet = 0
    BY DEF Init, GateInit
  <2>3. 0 \in Nat /\ 0 \in 0..HoldOpen
    OBVIOUS
  <2> QED BY <2>1, <2>2, <2>3 DEF GateInv, GateTypeOK
<1>2. GateInv /\ [Next]_vars => GateInv'
  BY GateStep
<1>3. GateInv /\ [Next]_vars => [at = "wait" /\ at' = "noise" => HoldsOpen]_vars
  BY GateStep
<1> QED BY <1>1, <1>2, <1>3, PTL DEF Spec, GateHolds

-----------------------------------------------------------------------------
(* The pitch estimate. *)

Sooner(m, n) == IF m <= n THEN m ELSE n

(* The counter is the age in samples, short of the interval, and the       *)
(* window holds what it counts, the block on its way included.             *)
TickInv ==
  /\ at \in {"none", "wait", "noise"}
  /\ age \in Nat /\ samples_since_f0 = age * Block
  /\ samples_since_f0 < F0Interval
  /\ f0_window \in 0..F0Window
  /\ at = "wait" => f0_window >= Sooner(samples_since_f0, F0Window)
  /\ at = "noise" => f0_window >= Sooner(samples_since_f0 + Block, F0Window)
  /\ at # "none" /\ estimate = "own" => f0_window = F0Window

LEMMA CadenceBounds ==
  ASSUME NEW a \in Nat, a * Block < F0Interval
  PROVE  a < Cadence
<1> DEFINE n == F0Interval + Block - 1
           q == n \div Block
<1>1. q \in Nat /\ n < (q + 1) * Block
  OBVIOUS
<1>2. CASE q <= a
  <2>1. PICK d \in Nat : a = q + d
    BY <1>1, <1>2
  <2>2. q * Block \in Nat /\ d * Block \in Nat /\ d * Block >= 0
    BY <1>1, <2>1
  <2>3. a * Block = q * Block + d * Block
    BY <1>1, <2>1
  <2>4. n < q * Block + Block
    BY <1>1
  <2> QED BY <2>2, <2>3, <2>4
<1> QED BY <1>1, <1>2 DEF Cadence

LEMMA OneMore == \A a \in Nat : (a + 1) * Block = a * Block + Block /\ a * Block \in Nat
OBVIOUS

LEMMA TickStep ==
  ASSUME TickInv, [Next]_vars
  PROVE  TickInv'
<1> USE DEF TickInv, Sooner
<1>1. CASE Spawn
  BY <1>1 DEF Spawn
<1>2. CASE \E level \in Levels : BeginBlock(level)
  <2>1. /\ at = "wait" /\ at' = "noise"
        /\ f0_window' = IF f0_window + Block <= F0Window THEN f0_window + Block
                        ELSE F0Window
        /\ UNCHANGED <<samples_since_f0, estimate, age>>
    BY <1>2 DEF BeginBlock
  <2>2. samples_since_f0 \in Nat
    BY OneMore
  <2> QED BY <2>1, <2>2
<1>3. CASE Stop
  BY <1>3 DEF Stop
<1>4. CASE DrawNoise
  BY <1>4 DEF DrawNoise
<1>5. CASE EndBlock
  <2>1. at = "noise" /\ at' = "wait" /\ f0_window' = f0_window /\ Tick
    BY <1>5 DEF EndBlock
  <2>2. samples_since_f0 \in Nat
    BY OneMore
  <2>3. CASE samples_since_f0 + Block >= F0Interval
    <3>1. samples_since_f0' = 0 /\ age' = 0
      BY <2>1, <2>3 DEF Tick
    <3>2. f0_window = F0Window
      BY <2>1, <2>2, <2>3
    <3> QED BY <2>1, <3>1, <3>2
  <2>4. CASE ~(samples_since_f0 + Block >= F0Interval)
    <3>1. samples_since_f0' = samples_since_f0 + Block /\ age' = age + 1
          /\ estimate' = estimate
      BY <2>1, <2>4 DEF Tick
    <3>2. age' \in Nat /\ samples_since_f0' = age' * Block
      BY <3>1, OneMore
    <3> QED BY <2>1, <2>2, <2>4, <3>1, <3>2
  <2> QED BY <2>3, <2>4
<1>6. CASE UNCHANGED vars
  BY <1>6 DEF vars
<1> QED BY <1>1, <1>2, <1>3, <1>4, <1>5, <1>6 DEF Next

(* The voicing is never older than a round of the counter, however long    *)
(* the blocks, the interval and the window.                                *)
THEOREM VoicingStaysRecent == Spec => []VoicingRecent
<1>1. Init => TickInv
  BY DEF Init, TickInv, Sooner
<1>2. TickInv => VoicingRecent
  BY CadenceBounds DEF TickInv, VoicingRecent
<1> QED BY <1>1, <1>2, TickStep, PTL DEF Spec

=============================================================================
