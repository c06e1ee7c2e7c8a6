------------------------- MODULE CapturePathProofs -------------------------
(* The stream is built from the best range a device offers, and on a device *)
(* with buffers of a block no frame is lost or added: for any device, block *)
(* size and rate.                                                           *)
EXTENDS CapturePath, FiniteSetTheorems, WellFoundedInduction, TLAPS

USE CaptureAssumption

-----------------------------------------------------------------------------
(* The choice of a range. *)

(* A nonempty set of places has a first one.                                *)
LEMMA FirstPlace ==
  ASSUME NEW X \in SUBSET Nat, X # {}
  PROVE  Min(X) \in X /\ \A k \in X : Min(X) <= k
<1> DEFINE Below == {0..m : m \in X}
           R == StrictSubsetOrdering(Nat)
<1>1. Below \subseteq FiniteSubsetsOf(Nat) /\ Below # {}
  <2>1. \A m \in X : 0..m \in SUBSET Nat /\ IsFiniteSet(0..m)
    BY FS_Interval
  <2> QED BY <2>1 DEF FiniteSubsetsOf
<1>2. PICK b \in Below : \A c \in Below : ~ (<<c, b>> \in R)
  <2>1. IsWellFoundedOn(R, FiniteSubsetsOf(Nat))
    BY FS_StrictSubsetOrderingWellFounded
  <2> HIDE DEF R, Below
  <2> QED BY <1>1, <2>1, WFMin
<1>3. PICK m \in X : b = 0..m
  BY <1>2
<1>4. ASSUME NEW k \in X, k < m
      PROVE  FALSE
  <2>1. 0..k \in Below /\ 0..k \subseteq 0..m /\ m \in 0..m /\ m \notin 0..k
    BY <1>4
  <2>2. <<0..k, 0..m>> \in R
    BY <2>1 DEF StrictSubsetOrdering
  <2> QED BY <1>2, <1>3, <2>1, <2>2
<1>5. \E i \in X : \A k \in X : i <= k
  BY <1>4
<1> QED BY <1>5 DEF Min

(* The ranges of a device.                                                  *)
LEMMA OfferedRanges ==
  ASSUME offered \in Devices
  PROVE  /\ DOMAIN offered \in SUBSET Nat
         /\ \A i \in DOMAIN offered : offered[i] \in Ranges
<1>1. PICK n \in 0..MaxRanges : offered \in [1..n -> Ranges]
  BY DEF Devices
<1> QED BY <1>1

(* A range that the device has and the code can use is in one of the four   *)
(* slots' kinds, and its rank says in which.                                *)
LEMMA UsableHasKind ==
  ASSUME offered \in Devices, NEW i \in DOMAIN offered, Usable(offered[i])
  PROVE  \/ i \in At48k(offered, 1) /\ Rank(offered[i]) = 1
         \/ i \in At48k(offered, 2) /\ Rank(offered[i]) = 2
         \/ i \in Other(offered, 1) /\ Rank(offered[i]) = 3
         \/ i \in Other(offered, 2) /\ Rank(offered[i]) = 4
  BY DEF Usable, Rank, At48k, Other, OfWidth

(* And conversely.                                                          *)
LEMMA KindIsUsable ==
  ASSUME NEW c \in {1, 2}, NEW i
  PROVE  /\ i \in At48k(offered, c) =>
              /\ i \in DOMAIN offered /\ Usable(offered[i])
              /\ Supports48k(offered[i]) /\ Rank(offered[i]) = c
         /\ i \in Other(offered, c) =>
              /\ i \in DOMAIN offered /\ Usable(offered[i])
              /\ ~Supports48k(offered[i]) /\ Rank(offered[i]) = c + 2
  BY DEF Usable, Rank, At48k, Other, OfWidth

(* The first range of the first kind that the device has is the best one.   *)
LEMMA FirstAt48kIsBest ==
  ASSUME offered \in Devices, NEW c \in {1, 2}, At48k(offered, c) # {},
         c = 2 => At48k(offered, 1) = {}
  PROVE  LET i == Min(At48k(offered, c))
         IN i \in DOMAIN offered /\ Best(i) /\ Supports48k(offered[i])
<1> DEFINE i == Min(At48k(offered, c))
<1>1. At48k(offered, c) \in SUBSET Nat
  BY OfferedRanges DEF At48k, OfWidth
<1>2. i \in At48k(offered, c) /\ \A j \in At48k(offered, c) : i <= j
  BY <1>1, FirstPlace
<1>3. /\ i \in DOMAIN offered /\ Usable(offered[i])
      /\ Supports48k(offered[i]) /\ Rank(offered[i]) = c
  BY <1>2, KindIsUsable
<1>4. ASSUME NEW j \in DOMAIN offered, Usable(offered[j])
      PROVE  \/ Rank(offered[i]) < Rank(offered[j])
             \/ Rank(offered[i]) = Rank(offered[j]) /\ i <= j
  <2> HIDE DEF i
  <2> QED BY <1>2, <1>3, <1>4, UsableHasKind
<1> QED BY <1>3, <1>4 DEF Best

(* The same where no range has 48 kHz.                                      *)
LEMMA FirstOtherIsBest ==
  ASSUME offered \in Devices, NEW c \in {1, 2}, Other(offered, c) # {},
         At48k(offered, 1) = {}, At48k(offered, 2) = {},
         c = 2 => Other(offered, 1) = {}
  PROVE  LET i == Min(Other(offered, c))
         IN i \in DOMAIN offered /\ Best(i) /\ ~Supports48k(offered[i])
<1> DEFINE i == Min(Other(offered, c))
<1>1. Other(offered, c) \in SUBSET Nat
  BY OfferedRanges DEF Other, OfWidth
<1>2. i \in Other(offered, c) /\ \A j \in Other(offered, c) : i <= j
  BY <1>1, FirstPlace
<1>3. /\ i \in DOMAIN offered /\ Usable(offered[i])
      /\ ~Supports48k(offered[i]) /\ Rank(offered[i]) = c + 2
  BY <1>2, KindIsUsable
<1>4. ASSUME NEW j \in DOMAIN offered, Usable(offered[j])
      PROVE  \/ Rank(offered[i]) < Rank(offered[j])
             \/ Rank(offered[i]) = Rank(offered[j]) /\ i <= j
  <2> HIDE DEF i
  <2> QED BY <1>2, <1>3, <1>4, UsableHasKind
<1> QED BY <1>3, <1>4 DEF Best

(* What pick_input_config answers is the best range, collapsed to a rate;   *)
(* and nothing only if no range is usable.                                  *)
Taken(i, config) ==
  config = Collapse(offered[i], IF Supports48k(offered[i]) THEN Target ELSE offered[i].max)

LEMMA PickIsBest ==
  ASSUME offered \in Devices
  PROVE  \/ /\ PickInputConfig(offered) = None
            /\ \A i \in DOMAIN offered : ~Usable(offered[i])
         \/ \E i \in DOMAIN offered : Best(i) /\ Taken(i, PickInputConfig(offered))
<1>1. ASSUME NEW c \in {1, 2}, At48k(offered, c) # {}, c = 2 => At48k(offered, 1) = {}
      PROVE  \E i \in DOMAIN offered : Best(i) /\ Taken(i, PickInputConfig(offered))
  <2>1. PickInputConfig(offered) = Collapse(offered[Min(At48k(offered, c))], Target)
    BY <1>1 DEF PickInputConfig, OrElse
  <2> QED BY <1>1, <2>1, FirstAt48kIsBest DEF Taken
<1>2. ASSUME NEW c \in {1, 2}, Other(offered, c) # {}, c = 2 => Other(offered, 1) = {},
             At48k(offered, 1) = {}, At48k(offered, 2) = {}
      PROVE  \E i \in DOMAIN offered : Best(i) /\ Taken(i, PickInputConfig(offered))
  <2> DEFINE i == Min(Other(offered, c))
  <2>1. PickInputConfig(offered) = Collapse(offered[i], offered[i].max)
    BY <1>2 DEF PickInputConfig, OrElse
  <2> QED BY <1>2, <2>1, FirstOtherIsBest DEF Taken
<1>3. ASSUME \A c \in {1, 2} : At48k(offered, c) = {} /\ Other(offered, c) = {}
      PROVE  /\ PickInputConfig(offered) = None
             /\ \A i \in DOMAIN offered : ~Usable(offered[i])
  BY <1>3, UsableHasKind DEF PickInputConfig, OrElse
<1> QED BY <1>1, <1>2, <1>3

-----------------------------------------------------------------------------
(* The inductive invariant. *)

(* Between builds nothing is open; a stream that is was built from the best *)
(* range, a build that failed saw no usable one.                            *)
Built ==
  /\ supported # None => \E i \in DOMAIN offered : Best(i) /\ Taken(i, supported)
  /\ failed => supported = None /\ \A i \in DOMAIN offered : ~Usable(offered[i])

IInv == TypeOK /\ Built /\ FramesKept

(* What a stream may have been built with.                                  *)
LEMMA StreamConfig ==
  ASSUME IInv, supported # None
  PROVE  /\ supported.buffer # <<>> =>
              supported.buffer[2] \in Nat /\ supported.buffer[1] \in 1..supported.buffer[2]
         /\ supported.channels \in Nat \ {0}
<1>1. PICK i \in DOMAIN offered : Taken(i, supported)
  BY DEF IInv, Built
<1>2. offered[i] \in Ranges
  BY OfferedRanges DEF IInv, TypeOK
<1> QED BY <1>1, <1>2 DEF Taken, Collapse

(* A build keeps the invariant.                                             *)
LEMMA BuildPreserves ==
  ASSUME IInv, Build
  PROVE  IInv'
<1>1. offered \in Devices /\ offered' = offered
  BY DEF IInv, TypeOK, Build
<1>2. CASE supported' = None /\ \A i \in DOMAIN offered : ~Usable(offered[i])
  BY <1>1, <1>2 DEF Build, IInv, TypeOK, Built, FramesKept, None
<1>3. ASSUME NEW i \in DOMAIN offered, Best(i), Taken(i, supported')
      PROVE  IInv'
  <2>1. offered[i] \in Ranges
    BY <1>1, OfferedRanges
  <2>2. supported' # None
    BY <1>3, <2>1 DEF Taken, Collapse, None
  <2>3. TypeOK'
    <3>1. supported' \in Configs
      BY <1>3, <2>1 DEF Taken, Configs
    <3> QED BY <1>1, <2>2, <3>1 DEF Build, TypeOK
  <2>4. Built'
    BY <1>1, <1>3, <2>2 DEF Build, Built, Best, Taken
  <2>5. FramesKept'
    BY DEF Build, FramesKept
  <2> QED BY <2>3, <2>4, <2>5 DEF IInv
<1> QED BY <1>1, <1>2, <1>3, PickIsBest DEF Build

(* What a callback is given, and what the downmix leaves of it.             *)
LEMMA FramesGiven ==
  ASSUME IInv, supported # None, NEW frames \in BufferSize(supported.buffer)
  PROVE  /\ frames \in Nat \ {0}
         /\ Downmix(frames) \in Nat /\ Downmix(frames) <= frames
         /\ (supported.buffer # <<>> /\ Block \in supported.buffer[1]..supported.buffer[2]) =>
              frames = Block /\ Downmix(frames) = Block
<1> DEFINE b == supported.buffer
<1>1. b # <<>> => b[2] \in Nat /\ b[1] \in 1..b[2]
  BY StreamConfig
<1>2. MonoScratch \in Nat /\ MonoScratch >= Block
  BY <1>1 DEF MonoScratch
<1>3. frames \in Nat \ {0} /\ (b # <<>> /\ Block \in b[1]..b[2] => frames = Block)
  BY <1>1 DEF BufferSize
<1> QED BY <1>2, <1>3 DEF Downmix, Least

(* A callback loses or adds only what it counts.                            *)
LEMMA CallbackPreserves ==
  ASSUME IInv, NEW frames \in BufferSize(supported.buffer), Callback(frames)
  PROVE  IInv'
<1> DEFINE mono == Downmix(frames)
<1>1. supported # None /\ UNCHANGED <<offered, supported, failed>>
  BY DEF Callback
<1>2. {excess, padding, truncated, xruns} \subseteq 0..MaxCount
  BY DEF IInv, TypeOK
<1>3. /\ frames \in Nat \ {0} /\ mono \in Nat /\ mono <= frames
      /\ (supported.buffer # <<>> /\ Block \in supported.buffer[1]..supported.buffer[2]) =>
           frames = Block /\ mono = Block
  BY <1>1, FramesGiven
<1> HIDE DEF mono
<1>4. /\ truncated' = Capped(truncated + frames - mono)
      /\ xruns' = IF mono < frames THEN Capped(xruns + 1) ELSE xruns
  BY DEF Callback, CountCut, mono
<1>5. \/ excess' = Capped(excess + mono - Block) /\ mono > Block /\ padding' = padding
      \/ padding' = Capped(padding + Block - mono) /\ mono <= Block /\ excess' = excess
      \/ UNCHANGED <<excess, padding>>
  BY <1>3 DEF Callback, ProcessBlock, mono
<1>6. {excess', padding', truncated', xruns'} \subseteq 0..MaxCount
  BY <1>2, <1>3, <1>4, <1>5 DEF Capped, Least
<1>7. truncated' > 0 <=> xruns' > 0
  BY <1>2, <1>3, <1>4 DEF IInv, FramesKept, Capped, Least
<1>8. (supported.buffer # <<>> /\ Block \in supported.buffer[1]..supported.buffer[2]) =>
        excess' = 0 /\ padding' = 0 /\ truncated' = 0
  BY <1>2, <1>3, <1>4, <1>5 DEF IInv, FramesKept, Capped, Least
<1> QED BY <1>1, <1>6, <1>7, <1>8 DEF IInv, TypeOK, Built, FramesKept, Best, Taken

-----------------------------------------------------------------------------
(* The theorems. *)

(* The invariant holds whatever devices come and go.                        *)
LEMMA Inductive == Spec => []IInv
<1>0. None.buffer = <<>>
  BY DEF None
<1>1. Init => IInv
  <2> SUFFICES ASSUME Init PROVE IInv
    OBVIOUS
  <2>1. TypeOK
    <3>1. {excess, padding, truncated, xruns} \subseteq 0..MaxCount
      BY DEF Init
    <3> QED BY <3>1 DEF Init, TypeOK
  <2>2. Built /\ FramesKept
    BY <1>0 DEF Init, Built, FramesKept
  <2> QED BY <2>1, <2>2 DEF IInv
<1>2. IInv /\ [Next]_vars => IInv'
  <2> SUFFICES ASSUME IInv, [Next]_vars PROVE IInv'
    OBVIOUS
  <2>1. CASE Build
    BY <2>1, BuildPreserves
  <2>2. CASE Teardown
    <3>1. TypeOK'
      BY <2>2 DEF Teardown, counts, IInv, TypeOK
    <3>2. Built' /\ FramesKept'
      BY <1>0, <2>2 DEF Teardown, counts, IInv, Built, FramesKept
    <3> QED BY <3>1, <3>2 DEF IInv
  <2>3. CASE \E frames \in BufferSize(supported.buffer) : Callback(frames)
    BY <2>3, CallbackPreserves
  <2>4. CASE UNCHANGED vars
    BY <2>4 DEF vars, IInv, TypeOK, Built, FramesKept, Best, Taken
  <2> QED BY <2>1, <2>2, <2>3, <2>4 DEF Next
<1>3. QED
  BY <1>1, <1>2, PTL DEF Spec

(* pick_input_config (cpal_io.rs:157-228) takes the best range of any list, *)
(* at 48 kHz if the range has it, and refuses a device only if it has none. *)
THEOREM BestIsBuilt == Spec => []BestConfig
<1>1. IInv => BestConfig
  <2> SUFFICES ASSUME IInv PROVE BestConfig
    OBVIOUS
  <2>1. ASSUME NEW i \in DOMAIN offered, Best(i), Taken(i, supported)
        PROVE  /\ supported.channels = offered[i].channels
               /\ supported.buffer = offered[i].buffer
               /\ supported.rate = IF Supports48k(offered[i]) THEN Target ELSE offered[i].max
    BY <2>1 DEF Taken, Collapse
  <2> QED BY <2>1 DEF IInv, Built, BestConfig
<1>2. QED
  BY <1>1, Inductive, PTL

(* With buffers of a block the capture callback (cpal_io.rs:426-474) loses  *)
(* no frame and adds none; with others it counts what the downmix cuts off. *)
THEOREM NoFrameLost == Spec => []FramesKept
<1>1. IInv => FramesKept
  BY DEF IInv
<1>2. QED
  BY <1>1, Inductive, PTL

=============================================================================
