------------------------- MODULE WakePipelineProofs -------------------------
(* Type correctness of WakePipeline, that no block in InputRing is          *)
(* overlooked and none is judged by a former session's level, and that the  *)
(* wake handle is used as specified and loses no wakeup: for every block    *)
(* size, ring capacity and slice size.  The handle's own results, for any   *)
(* number of wakers, come before those about the pipeline's.                *)
EXTENDS WakePipeline, TLAPS

USE PipelineAssumption

-----------------------------------------------------------------------------
(* Arithmetic of multiples of a block. *)

(* Euclidean division, as the prover needs to see it. *)
LEMMA DivMod ==
  \A a \in Int, b \in Nat \ {0} :
    /\ a \div b \in Int
    /\ a % b \in 0..(b - 1)
    /\ a = b * (a \div b) + (a % b)
  OBVIOUS

(* A product is a multiple of its factor. *)
LEMMA ProductIsMultiple == \A k \in Int, b \in Nat \ {0} : (k * b) % b = 0
  OBVIOUS

(* Zero is a whole number of blocks. *)
LEMMA ZeroIsMultiple == 0 % Block = 0
  BY DivMod

(* Remainder zero means a whole number of blocks. *)
LEMMA MultipleIsProduct ==
  ASSUME NEW a \in Int, NEW b \in Nat \ {0}, a % b = 0
  PROVE  \E k \in Int : a = k * b
<1>1. a \div b \in Int /\ a = (a \div b) * b
  BY DivMod
<1>2. QED
  BY <1>1

(* Multiples of a block are closed under addition. *)
LEMMA SumOfMultiples ==
  \A a, c \in Int : a % Block = 0 /\ c % Block = 0 => (a + c) % Block = 0
<1> SUFFICES ASSUME NEW a \in Int, NEW c \in Int, a % Block = 0, c % Block = 0
             PROVE  (a + c) % Block = 0
  OBVIOUS
<1>1. PICK k \in Int : a = k * Block
  BY MultipleIsProduct
<1>2. PICK m \in Int : c = m * Block
  BY MultipleIsProduct
<1>3. a + c = (k + m) * Block /\ k + m \in Int
  BY <1>1, <1>2
<1>4. QED
  BY <1>3, ProductIsMultiple

(* One block more or less is still a multiple. *)
LEMMA BlockMoreOrLess ==
  ASSUME NEW a \in Int, NEW b \in Nat \ {0}, a % b = 0
  PROVE  (a + b) % b = 0 /\ (a - b) % b = 0
<1>1. PICK k \in Int : a = k * b
  BY MultipleIsProduct
<1>2. a + b = (k + 1) * b /\ a - b = (k - 1) * b /\ k + 1 \in Int /\ k - 1 \in Int
  BY <1>1
<1>3. QED
  BY <1>2, ProductIsMultiple

(* A multiple of a block that is above minus one block is not negative. *)
LEMMA MultipleAboveMinusBlock ==
  ASSUME NEW d \in Int, NEW b \in Nat \ {0}, d % b = 0, d > -b
  PROVE  d >= 0
  BY MultipleIsProduct

-----------------------------------------------------------------------------
(* The inductive invariant, action by action. *)

LEMMA InitIInv == Init => IInv
<1> SUFFICES ASSUME Init PROVE IInv
  OBVIOUS
<1>1. TypeOK
  <2>1. ring \in 0..RingCap /\ samples_since_wake \in Nat /\ slice \in ChunkSizes \union {0}
    BY DEF Init
  <2>2. /\ skewed \in BOOLEAN /\ capturing \in BOOLEAN /\ stop_flag \in BOOLEAN
        /\ level_fresh \in BOOLEAN /\ callback \in {"out", "level", "count"}
        /\ dsp \in DspStates /\ pump \in PumpStates /\ owner \in OwnerStates
    BY DEF Init, DspStates, PumpStates, OwnerStates
  <2>3. Wake!TypeOK
    BY DEF Init, Wake!Init, Wake!TypeOK
  <2>4. QED
    BY <2>1, <2>2, <2>3 DEF TypeOK
<1>2. Protocol
  BY DEF Init, Protocol, Wake!Init
<1>3. CaughtUp /\ LevelFirst
  BY DEF Init, CaughtUp, Counted, LevelFirst, FreshLevel, Wake!Init
<1>4. InStep
  <2>1. Counted - ring = 0
    BY DEF Init, Counted
  <2>2. QED
    BY <2>1, ZeroIsMultiple DEF InStep
<1>5. QED
  BY <1>1, <1>2, <1>3, <1>4 DEF IInv

LEMMA PushIInv ==
  ASSUME IInv, NEW n \in ChunkSizes, CapturePush(n)
  PROVE  IInv'
<1> USE DEF IInv
<1>1. n \in Nat \ {0} /\ ring \in 0..RingCap /\ samples_since_wake \in Nat /\ slice = 0
  BY DEF TypeOK, Protocol, CapturePush, CallbackAt
<1>2. samples_since_wake' = samples_since_wake /\ slice' = n
  BY DEF CapturePush
<1>3. Counted \in Nat /\ Counted' = Counted + n
  BY <1>1, <1>2 DEF Counted
<1>4. LevelFirst'
  BY DEF LevelFirst, FreshLevel, CapturePush, CallbackAt, CallbackKeeps, Following, handleVars
<1>5. ring' \in 0..RingCap /\ skewed' \in BOOLEAN
  <2>1. ring' \in 0..RingCap
    BY <1>1 DEF CapturePush, PushEntireSlice
  <2>2. skewed \in BOOLEAN
    BY DEF TypeOK
  <2>3. skewed' = skewed \/ skewed' = (skewed \/ n % Block # 0)
    BY DEF CapturePush, PushEntireSlice
  <2>4. QED
    BY <2>1, <2>2, <2>3, Zenon
<1>6. TypeOK' /\ Protocol'
  BY <1>1, <1>2, <1>5
  DEF TypeOK, Protocol, CapturePush, CallbackAt, CallbackKeeps, Following, handleVars,
      Wake!TypeOK
<1>7. CASE ring + n <= RingCap
  <2>1. ring' = ring + n /\ skewed' = skewed
    BY <1>7 DEF CapturePush, PushEntireSlice
  <2>2. Counted' - ring' = Counted - ring
    BY <1>1, <1>3, <2>1
  <2>3. InStep' /\ CaughtUp'
    BY <1>1, <1>3, <2>1, <2>2
    DEF InStep, CaughtUp, WakeUnderWay, CapturePush, CallbackKeeps, handleVars
  <2>4. QED
    BY <1>4, <1>6, <2>3
<1>8. CASE ~(ring + n <= RingCap)
  <2>1. ring' = ring /\ skewed' = (skewed \/ n % Block # 0)
    BY <1>8 DEF CapturePush, PushEntireSlice
  <2>2. ASSUME ~skewed' PROVE (Counted' - ring') % Block = 0
    <3>1. ~skewed /\ n % Block = 0
      BY <2>1, <2>2, Zenon
    <3>2. (Counted - ring) % Block = 0 /\ Counted - ring \in Int
      BY <1>1, <1>3, <3>1 DEF InStep
    <3>3. n \in Int
      BY <1>1
    <3>4. ((Counted - ring) + n) % Block = 0
      BY <3>1, <3>2, <3>3, SumOfMultiples, Zenon
    <3>5. Counted' - ring' = (Counted - ring) + n
      BY <1>1, <1>3, <2>1
    <3>6. QED
      BY <3>4, <3>5
  <2>3. CaughtUp'
    BY <1>1, <1>3, <2>1
    DEF CaughtUp, WakeUnderWay, TypeOK, CapturePush, CallbackKeeps, handleVars
  <2>4. QED
    BY <1>4, <1>6, <2>2, <2>3 DEF InStep
<1>9. QED
  BY <1>7, <1>8

LEMMA CallbackIInv == ASSUME IInv, CaptureProceeds PROVE IInv'
<1> USE DEF IInv, CallbackAt, CallbackKeeps, Following, handleVars
<1>1. CASE CaptureLevel
  BY <1>1 DEF CaptureLevel, TypeOK, Protocol, InStep, CaughtUp, WakeUnderWay, Counted,
     LevelFirst, FreshLevel, Wake!TypeOK
<1>2. CASE CaptureCount
  <2>1. /\ samples_since_wake \in Nat /\ slice \in Nat /\ ring \in 0..RingCap
        /\ samples_since_wake' = samples_since_wake + slice /\ slice' = 0 /\ level_fresh
    BY <1>2 DEF CaptureCount, TypeOK, LevelFirst
  <2>2. Counted' = Counted
    BY <2>1 DEF Counted
  <2>3. TypeOK' /\ Protocol'
    BY <1>2, <2>1 DEF CaptureCount, TypeOK, Protocol, Wake!TypeOK
  <2>4. InStep' /\ CaughtUp'
    BY <1>2, <2>2 DEF CaptureCount, InStep, CaughtUp, WakeUnderWay
  <2>5. LevelFirst'
    BY <1>2, <2>1 DEF CaptureCount, LevelFirst, FreshLevel
  <2>6. QED
    BY <2>3, <2>4, <2>5
<1>3. QED
  BY <1>1, <1>2 DEF CaptureProceeds

LEMMA PumpIInv == ASSUME IInv, PumpStep PROVE IInv'
<1> USE DEF IInv, PumpGoes, PumpKeeps, handleVars, callbackVars, LevelFirst, FreshLevel, Counted
<1>1. CASE PumpCheck
  BY <1>1 DEF PumpCheck, TypeOK, Protocol, InStep, CaughtUp, WakeUnderWay,
     PumpStates, Wake!TypeOK
<1>2. CASE PumpLoad
  BY <1>2 DEF PumpLoad, TypeOK, Protocol, InStep, CaughtUp, WakeUnderWay,
     PumpStates, Wake!TypeOK
<1>3. CASE PumpSub
  <2>1. samples_since_wake \in Nat /\ samples_since_wake >= Block /\ ring \in 0..RingCap
        /\ samples_since_wake' = samples_since_wake - Block
        /\ slice \in Nat /\ slice' = slice
    BY <1>3 DEF PumpSub, TypeOK, Protocol
  <2>2. TypeOK' /\ Protocol'
    BY <1>3, <2>1 DEF PumpSub, TypeOK, Protocol, PumpStates, Wake!TypeOK
  <2>3. InStep'
    <3>1. SUFFICES ASSUME ~skewed PROVE (Counted' - ring) % Block = 0
      BY <1>3 DEF PumpSub, InStep
    <3>2. (Counted - ring) % Block = 0 /\ Counted - ring \in Int
      BY <2>1, <3>1 DEF InStep
    <3>3. ((Counted - ring) - Block) % Block = 0
      BY <3>2, BlockMoreOrLess
    <3>4. Counted' - ring = (Counted - ring) - Block
      BY <2>1
    <3>5. QED
      BY <3>3, <3>4
  <2>4. CaughtUp'
    <3>1. waker["pump"] = "idle" /\ waker' = waker /\ pump' = "wake"
      BY <1>3 DEF PumpSub, Protocol, TypeOK, Wake!TypeOK
    <3>2. QED
      BY <3>1 DEF CaughtUp, WakeUnderWay
  <2>5. LevelFirst'
    BY <1>3, <2>1 DEF PumpSub
  <2>6. QED
    BY <2>2, <2>3, <2>4, <2>5
<1>4. CASE PumpStore
  BY <1>4 DEF PumpStore, Wake!Store, TypeOK, Protocol, InStep, CaughtUp, WakeUnderWay,
     Wake!TypeOK
<1>5. CASE PumpUnpark
  BY <1>5 DEF PumpUnpark, Wake!Unpark, TypeOK, Protocol, InStep, CaughtUp, WakeUnderWay,
     PumpStates, Wake!TypeOK
<1>6. CASE PumpParkTimeout
  BY <1>6 DEF PumpParkTimeout, TypeOK, Protocol, InStep, CaughtUp, WakeUnderWay,
     PumpStates, Wake!TypeOK
<1>7. QED
  BY <1>1, <1>2, <1>3, <1>4, <1>5, <1>6 DEF PumpStep

LEMMA DspIInv == ASSUME IInv, DspStep \/ DspSpurious PROVE IInv'
<1> USE DEF IInv, DspGoes, DspKeeps, handleVars, callbackVars, LevelFirst, FreshLevel, Counted
<1>1. CASE DspBoot
  BY <1>1 DEF DspBoot, TypeOK, Protocol, InStep, CaughtUp, WakeUnderWay,
     DspStates, Wake!TypeOK
<1>2. CASE DspCheck
  BY <1>2 DEF DspCheck, Wake!BeginWait, TypeOK, Protocol, InStep, CaughtUp,
     WakeUnderWay, DspStates, Wake!TypeOK
<1>3. CASE DspWaits
  <2>1. TypeOK' /\ Protocol'
    BY <1>3 DEF DspWaits, Wake!SwapEmpty, Wake!ParkReturns, TypeOK, Protocol, Wake!TypeOK
  <2>2. /\ UNCHANGED <<ring, samples_since_wake, slice, skewed, stop_flag, level_fresh>>
        /\ UNCHANGED <<callback, dsp, pump, pending, waker>>
    BY <1>3 DEF DspWaits, Wake!SwapEmpty, Wake!ParkReturns
  <2>3. InStep' /\ CaughtUp' /\ LevelFirst'
    BY <2>2 DEF InStep, CaughtUp, WakeUnderWay
  <2>4. QED
    BY <2>1, <2>3
<1>4. CASE DspWoken
  BY <1>4 DEF DspWoken, Wake!SwapTaken, TypeOK, Protocol, InStep, CaughtUp,
     WakeUnderWay, DspStates, Wake!TypeOK
<1>5. CASE DspRecheck
  BY <1>5 DEF DspRecheck, TypeOK, Protocol, InStep, CaughtUp, WakeUnderWay,
     DspStates, Wake!TypeOK
<1>6. CASE DspRead
  <2>1. ring \in 0..RingCap /\ samples_since_wake \in Nat /\ slice \in Nat /\ slice' = slice
    BY <1>6 DEF DspRead, TypeOK
  <2>2. CASE ring >= Block
    <3>1. ring' = ring - Block /\ dsp' = "reread" /\ samples_since_wake' = samples_since_wake
      BY <1>6, <2>2 DEF DspRead
    <3>2. TypeOK' /\ Protocol' /\ CaughtUp'
      BY <1>6, <2>1, <2>2, <3>1 DEF DspRead, TypeOK, Protocol, CaughtUp,
         WakeUnderWay, DspStates, Wake!TypeOK
    <3>3. ASSUME ~skewed PROVE (Counted' - ring') % Block = 0
      <4>1. (Counted - ring) % Block = 0 /\ Counted - ring \in Int
        BY <2>1, <3>3 DEF InStep
      <4>2. ((Counted - ring) + Block) % Block = 0
        BY <4>1, BlockMoreOrLess
      <4>3. Counted' - ring' = (Counted - ring) + Block
        BY <2>1, <3>1
      <4>4. QED
        BY <4>2, <4>3
    <3>4. QED
      BY <1>6, <3>2, <3>3 DEF DspRead, InStep
  <2>3. CASE ~(ring >= Block)
    <3>1. ring' = ring /\ dsp' = "check" /\ samples_since_wake' = samples_since_wake
      BY <1>6, <2>3 DEF DspRead
    <3>2. TypeOK' /\ Protocol' /\ InStep'
      BY <1>6, <2>1, <3>1 DEF DspRead, TypeOK, Protocol, InStep, DspStates, Wake!TypeOK
    <3>3. ASSUME ~skewed PROVE Counted >= ring
      <4>1. Counted - ring > -Block /\ Counted - ring \in Int
        BY <2>1, <2>3
      <4>2. Counted - ring >= 0
        BY <3>3, <4>1, MultipleAboveMinusBlock DEF InStep
      <4>3. QED
        BY <2>1, <4>2
    <3>4. QED
      BY <1>6, <3>1, <3>2, <3>3 DEF DspRead, CaughtUp
  <2>4. QED
    BY <2>2, <2>3
<1>7. CASE DspSpurious
  BY <1>7 DEF DspSpurious, Wake!SpuriousWakeup, TypeOK, Protocol, InStep, CaughtUp,
     WakeUnderWay, Wake!TypeOK
<1>8. QED
  BY <1>1, <1>2, <1>3, <1>4, <1>5, <1>6, <1>7 DEF DspStep

LEMMA OwnerIInv ==
  ASSUME IInv, SpawnDsp \/ DropStreams \/ OwnerProceeds
  PROVE  IInv'
<1> USE DEF IInv, OwnerGoes, dataVars, handleVars, LevelFirst, FreshLevel, Counted
<1>1. CASE SpawnDsp
  <2>0. slice = 0 /\ slice' = 0 /\ callback = "out" /\ callback' = "out"
    BY <1>1 DEF SpawnDsp, TypeOK, Protocol
  <2>1. TypeOK'
    <3>1. ring' \in 0..RingCap /\ samples_since_wake' \in Nat /\ slice' \in ChunkSizes \union {0}
      BY <1>1 DEF SpawnDsp, TypeOK
    <3>2. /\ (skewed \in BOOLEAN /\ capturing \in BOOLEAN /\ stop_flag \in BOOLEAN)'
          /\ (level_fresh \in BOOLEAN /\ callback \in {"out", "level", "count"})'
          /\ (dsp \in DspStates /\ pump \in PumpStates /\ owner \in OwnerStates)'
      BY <1>1 DEF SpawnDsp, TypeOK, DspStates, OwnerStates
    <3>3. Wake!TypeOK'
      BY <1>1 DEF SpawnDsp, Wake!Rebind, TypeOK, Wake!TypeOK
    <3>4. QED
      BY <3>1, <3>2, <3>3 DEF TypeOK
  <2>2. Protocol'
    BY <1>1 DEF SpawnDsp, Wake!Rebind, Protocol, TypeOK, Wake!TypeOK
  <2>3. CaughtUp'
    BY <1>1, <2>0 DEF SpawnDsp, CaughtUp
  <2>4. InStep'
    <3>1. Counted' - ring' = 0
      BY <1>1, <2>0 DEF SpawnDsp
    <3>2. QED
      BY <3>1, ZeroIsMultiple DEF InStep
  <2>5. LevelFirst'
    BY <1>1, <2>0 DEF SpawnDsp, Wake!Rebind, Protocol, TypeOK
  <2>6. QED
    BY <2>1, <2>2, <2>3, <2>4, <2>5
<1>2. CASE DropStreams
  BY <1>2 DEF DropStreams, TypeOK, Protocol, InStep, CaughtUp, WakeUnderWay,
     OwnerStates, Wake!TypeOK
<1>3. CASE RecvHandle
  BY <1>3 DEF RecvHandle, TypeOK, Protocol, InStep, CaughtUp, WakeUnderWay,
     OwnerStates, Wake!TypeOK
<1>4. CASE SpawnPump
  BY <1>4 DEF SpawnPump, TypeOK, Protocol, InStep, CaughtUp, WakeUnderWay,
     OwnerStates, PumpStates, Wake!TypeOK
<1>5. CASE OpenCapture
  BY <1>5 DEF OpenCapture, TypeOK, Protocol, InStep, CaughtUp, WakeUnderWay,
     OwnerStates, Wake!TypeOK
<1>6. CASE SetStopFlag
  BY <1>6 DEF SetStopFlag, TypeOK, Protocol, InStep, CaughtUp, WakeUnderWay,
     OwnerStates, Wake!TypeOK
<1>7. CASE StopStore
  BY <1>7 DEF StopStore, Wake!Store, TypeOK, Protocol, InStep, CaughtUp,
     WakeUnderWay, Wake!TypeOK
<1>8. CASE StopUnpark
  BY <1>8 DEF StopUnpark, Wake!Unpark, TypeOK, Protocol, InStep, CaughtUp,
     WakeUnderWay, OwnerStates, Wake!TypeOK
<1>9. CASE JoinDsp
  BY <1>9 DEF JoinDsp, TypeOK, Protocol, InStep, CaughtUp, WakeUnderWay,
     OwnerStates, Wake!TypeOK
<1>10. CASE JoinPump
  BY <1>10 DEF JoinPump, TypeOK, Protocol, InStep, CaughtUp, WakeUnderWay,
     OwnerStates, Wake!TypeOK
<1>11. QED
  BY <1>1, <1>2, <1>3, <1>4, <1>5, <1>6, <1>7, <1>8, <1>9, <1>10 DEF OwnerProceeds

LEMMA NextIInv == IInv /\ [Next]_vars => IInv'
<1> SUFFICES ASSUME IInv, [Next]_vars PROVE IInv'
  OBVIOUS
<1>1. ASSUME NEW n \in ChunkSizes, CapturePush(n) PROVE IInv'
  BY <1>1, PushIInv
<1>0. CASE CaptureProceeds
  BY <1>0, CallbackIInv
<1>2. CASE PumpStep
  BY <1>2, PumpIInv
<1>3. CASE DspStep \/ DspSpurious
  BY <1>3, DspIInv
<1>4. CASE SpawnDsp \/ DropStreams \/ OwnerProceeds
  BY <1>4, OwnerIInv
<1>5. CASE UNCHANGED vars
  BY <1>5 DEF vars, IInv, TypeOK, Protocol, InStep, CaughtUp, WakeUnderWay, Counted,
     LevelFirst, FreshLevel, Wake!TypeOK
<1>6. QED
  BY <1>0, <1>1, <1>2, <1>3, <1>4, <1>5 DEF Next

LEMMA IInvCorrect == Spec => []IInv
  BY InitIInv, NextIInv, PTL DEF Spec

(* In every reachable state the counter is a natural number (the pump's     *)
(* fetch_sub never underflows it) and InputRing is within its capacity.     *)
THEOREM TypeCorrect == Spec => []TypeOK
<1>1. IInv => TypeOK
  BY DEF IInv
<1>2. QED
  BY <1>1, IInvCorrect, PTL

(* Whatever the slice sizes, a whole block in InputRing is accounted for,   *)
(* as long as no slice of a partial block has been dropped.                 *)
THEOREM BlockAccounted == Spec => []NoBlockOverlooked
<1>1. IInv => NoBlockOverlooked
  BY DEF IInv, TypeOK, Protocol, CaughtUp, Counted, NoBlockOverlooked,
     WakeWheneverBlockAvailable, WakeDue
<1>2. QED
  BY <1>1, IInvCorrect, PTL

(* No block is judged by the level of the session before.                   *)
THEOREM LevelIsFresh == Spec => []FreshLevel
<1>1. IInv => FreshLevel
  BY DEF IInv, LevelFirst
<1>2. QED
  BY <1>1, IInvCorrect, PTL

-----------------------------------------------------------------------------
(* Slices of at least a block.  Whatever is dropped, each callback then     *)
(* leaves the counter at a block or more, so the reservation about dropped  *)
(* slices is not needed.                                                    *)

LEMMA NextBlockIsDue ==
  ASSUME \A n \in ChunkSizes : n >= Block, IInv, BlockIsDue, [Next]_vars
  PROVE  BlockIsDue'
<1> USE DEF BlockIsDue, WakeDue, WakeUnderWay, Counted, handleVars, callbackVars, dataVars
<1>0. ring \in 0..RingCap /\ samples_since_wake \in Nat /\ slice \in Nat
  BY DEF IInv, TypeOK
<1>1. ASSUME NEW n \in ChunkSizes, CapturePush(n) PROVE BlockIsDue'
  <2>1. n \in Nat /\ n >= Block /\ Counted' = samples_since_wake + n
    BY <1>1 DEF CapturePush
  <2>2. Counted' >= Block
    BY <1>0, <2>1
  <2>3. QED
    BY <2>2
<1>9. CASE CaptureProceeds
  BY <1>0, <1>9 DEF CaptureProceeds, CaptureLevel, CaptureCount, CallbackKeeps
<1>2. CASE PumpStep
  <2> USE DEF PumpGoes, PumpKeeps
  <2>1. CASE PumpCheck
    BY <2>1 DEF PumpCheck
  <2>2. CASE PumpLoad
    BY <2>2 DEF PumpLoad
  <2>3. CASE PumpSub
    BY <2>3 DEF PumpSub, IInv, TypeOK, Protocol, Wake!TypeOK
  <2>4. CASE PumpStore
    BY <2>4 DEF PumpStore, Wake!Store
  <2>5. CASE PumpUnpark
    BY <2>5 DEF PumpUnpark, Wake!Unpark
  <2>6. CASE PumpParkTimeout
    BY <2>6 DEF PumpParkTimeout
  <2>7. QED
    BY <1>2, <2>1, <2>2, <2>3, <2>4, <2>5, <2>6 DEF PumpStep
<1>3. CASE DspStep \/ DspSpurious
  <2> USE DEF DspGoes, DspKeeps
  <2>1. CASE DspBoot
    BY <2>1 DEF DspBoot
  <2>2. CASE DspCheck
    BY <2>2 DEF DspCheck, Wake!BeginWait
  <2>3. CASE DspWaits
    BY <2>3 DEF DspWaits, Wake!SwapEmpty, Wake!ParkReturns
  <2>4. CASE DspWoken
    BY <2>4 DEF DspWoken
  <2>5. CASE DspRecheck
    BY <2>5 DEF DspRecheck
  <2>6. CASE DspRead
    BY <1>0, <2>6 DEF DspRead
  <2>7. CASE DspSpurious
    BY <2>7 DEF DspSpurious, Wake!SpuriousWakeup
  <2>8. QED
    BY <1>3, <2>1, <2>2, <2>3, <2>4, <2>5, <2>6, <2>7 DEF DspStep
<1>4. CASE SpawnDsp
  BY <1>4 DEF SpawnDsp
<1>5. CASE DropStreams
  BY <1>5 DEF DropStreams
<1>6. CASE OwnerProceeds
  <2> USE DEF OwnerGoes
  <2>1. CASE SpawnPump
    BY <2>1 DEF SpawnPump, IInv, Protocol
  <2>2. CASE StopStore \/ StopUnpark
    BY <2>2 DEF StopStore, StopUnpark, Wake!Store, Wake!Unpark, IInv, TypeOK,
       Wake!TypeOK
  <2>3. CASE RecvHandle \/ OpenCapture \/ SetStopFlag \/ JoinDsp \/ JoinPump
    BY <2>3 DEF RecvHandle, OpenCapture, SetStopFlag, JoinDsp, JoinPump
  <2>4. QED
    BY <1>6, <2>1, <2>2, <2>3 DEF OwnerProceeds
<1>7. CASE UNCHANGED vars
  BY <1>7 DEF vars
<1>8. QED
  BY <1>1, <1>2, <1>3, <1>4, <1>5, <1>6, <1>7, <1>9 DEF Next

(* If no callback delivers less than a block, the pump wakes the worker     *)
(* whenever a block is available, dropped slices or not.                    *)
THEOREM FullSlicesAlwaysWake ==
  ASSUME \A n \in ChunkSizes : n >= Block
  PROVE  Spec => []WakeWheneverBlockAvailable
<1>1. Init => BlockIsDue
  BY DEF Init, BlockIsDue
<1>2. IInv /\ BlockIsDue /\ [Next]_vars => BlockIsDue'
  BY NextBlockIsDue
<1>3. IInv /\ BlockIsDue => WakeWheneverBlockAvailable
  BY DEF IInv, Protocol, TypeOK, BlockIsDue, WakeWheneverBlockAvailable
<1>4. QED
  BY <1>1, <1>2, <1>3, IInvCorrect, PTL DEF Spec

-----------------------------------------------------------------------------
(* The handle on its own, for any set of wakers.                            *)
Handle(W) == INSTANCE DspWakeHandle WITH Wakers <- W
Latch == INSTANCE WakeLatch WITH signal <- pending, waiting <- (waiter # "out")

(* Every field of the handle keeps its type, and a wake is not lost in any  *)
(* step of a waker, the worker or the engine that binds a new worker.       *)
LEMMA HandleInit ==
  ASSUME NEW W
  PROVE  Handle(W)!Init => Handle(W)!TypeOK /\ Handle(W)!NoLostWakeup
BY DEF Handle!Init, Handle!TypeOK, Handle!NoLostWakeup

LEMMA HandleTypeStep ==
  ASSUME NEW W
  PROVE  Handle(W)!TypeOK /\ [Handle(W)!Next]_(Handle(W)!vars) => Handle(W)!TypeOK'
BY DEF Handle!TypeOK, Handle!Next, Handle!vars, Handle!WaiterStep, Handle!Store,
   Handle!Unpark, Handle!BeginWait, Handle!SwapTaken, Handle!SwapEmpty,
   Handle!ParkReturns, Handle!SpuriousWakeup, Handle!Rebind

LEMMA HandleWakeupStep ==
  ASSUME NEW W, Handle(W)!TypeOK, Handle(W)!NoLostWakeup,
         [Handle(W)!Next]_(Handle(W)!vars)
  PROVE  Handle(W)!NoLostWakeup'
<1> USE DEF Handle!NoLostWakeup, Handle!TypeOK
<1>1. ASSUME NEW k \in W, Handle(W)!Store(k) PROVE Handle(W)!NoLostWakeup'
  BY <1>1 DEF Handle!Store
<1>2. ASSUME NEW k \in W, Handle(W)!Unpark(k) PROVE Handle(W)!NoLostWakeup'
  BY <1>2 DEF Handle!Unpark
<1>3. CASE Handle(W)!BeginWait
  BY <1>3 DEF Handle!BeginWait
<1>4. CASE Handle(W)!WaiterStep
  BY <1>4 DEF Handle!WaiterStep, Handle!SwapTaken, Handle!SwapEmpty, Handle!ParkReturns
<1>5. CASE Handle(W)!SpuriousWakeup
  BY <1>5 DEF Handle!SpuriousWakeup
<1>6. CASE Handle(W)!Rebind
  BY <1>6 DEF Handle!Rebind
<1>7. CASE UNCHANGED Handle(W)!vars
  BY <1>7 DEF Handle!vars
<1> QED
  BY <1>1, <1>2, <1>3, <1>4, <1>5, <1>6, <1>7 DEF Handle!Next

LEMMA HandleLatchStep ==
  ASSUME NEW W, Handle(W)!TypeOK, [Handle(W)!Next]_(Handle(W)!vars)
  PROVE  [Latch!Next]_(Latch!vars)
<1> USE DEF Latch!Next, Latch!vars
<1>1. ASSUME NEW k \in W, Handle(W)!Store(k) PROVE [Latch!Next]_Latch!vars
  BY <1>1 DEF Handle!Store, Latch!Wake
<1>2. ASSUME NEW k \in W, Handle(W)!Unpark(k) PROVE [Latch!Next]_Latch!vars
  BY <1>2 DEF Handle!Unpark
<1>3. CASE Handle(W)!BeginWait
  BY <1>3 DEF Handle!BeginWait, Latch!BeginWait
<1>4. CASE Handle(W)!SwapTaken
  BY <1>4 DEF Handle!SwapTaken, Latch!Return
<1>5. CASE Handle(W)!SwapEmpty \/ Handle(W)!ParkReturns \/ Handle(W)!SpuriousWakeup
  BY <1>5 DEF Handle!SwapEmpty, Handle!ParkReturns, Handle!SpuriousWakeup
<1>6. CASE Handle(W)!Rebind
  BY <1>6 DEF Handle!Rebind, Latch!Rebind
<1>7. CASE UNCHANGED Handle(W)!vars
  BY <1>7 DEF Handle!vars
<1> QED
  BY <1>1, <1>2, <1>3, <1>4, <1>5, <1>6, <1>7 DEF Handle!Next, Handle!WaiterStep

(* wake() and wait() exclude the lost wakeup, whoever wakes and whenever:   *)
(* a worker in park() with a wake pending has its permit or is about to.    *)
THEOREM LostWakeupExcluded ==
  ASSUME NEW CONSTANT W
  PROVE  Handle(W)!Spec => [](Handle(W)!NoLostWakeup)
<1>1. Handle(W)!TypeOK /\ Handle(W)!NoLostWakeup /\ [Handle(W)!Next]_(Handle(W)!vars)
      => (Handle(W)!TypeOK /\ Handle(W)!NoLostWakeup)'
  BY HandleTypeStep, HandleWakeupStep
<1> QED
  BY <1>1, HandleInit, PTL DEF Handle!Spec

(* Every step of the handshake is a step of the latched signal, or one that *)
(* the signal does not see; that a wait with a signal latched returns is    *)
(* liveness and is model-checked.                                           *)
THEOREM ImplementsLatch ==
  ASSUME NEW CONSTANT W
  PROVE  Handle(W)!Spec => Latch!Init /\ [][Latch!Next]_(Latch!vars)
<1>1. Handle(W)!Init => Latch!Init
  BY DEF Handle!Init, Latch!Init
<1>2. Handle(W)!TypeOK /\ [Handle(W)!Next]_(Handle(W)!vars) => Handle(W)!TypeOK'
  BY HandleTypeStep
<1>3. Handle(W)!TypeOK /\ [Handle(W)!Next]_(Handle(W)!vars) => [Latch!Next]_(Latch!vars)
  BY HandleLatchStep
<1> QED
  BY <1>1, <1>2, <1>3, HandleInit, PTL DEF Handle!Spec

-----------------------------------------------------------------------------
(* The handle under the pipeline.                                           *)

(* What any of the three threads does to the handle is one of its steps.    *)
LEMMA NextIsHandleStep == IInv /\ [Next]_vars => [Wake!Next]_Wake!vars
<1> SUFFICES ASSUME IInv, [Next]_vars PROVE [Wake!Next]_Wake!vars
  OBVIOUS
<1> USE DEF handleVars, CallbackKeeps, Wake!vars, Wake!Next, Wake!WaiterStep
<1>1. ASSUME NEW n \in ChunkSizes, CapturePush(n) PROVE [Wake!Next]_Wake!vars
  BY <1>1 DEF CapturePush
<1>0. CASE CaptureProceeds
  BY <1>0 DEF CaptureProceeds, CaptureLevel, CaptureCount
<1>2. CASE PumpStep
  BY <1>2 DEF PumpStep, PumpCheck, PumpLoad, PumpSub, PumpStore, PumpUnpark,
     PumpParkTimeout
<1>3. CASE DspStep
  BY <1>3 DEF DspStep, DspBoot, DspCheck, DspWaits, DspWoken, DspRecheck, DspRead
<1>4. CASE DspSpurious
  BY <1>4 DEF DspSpurious
<1>5. CASE SpawnDsp
  BY <1>5 DEF SpawnDsp
<1>6. CASE DropStreams
  BY <1>6 DEF DropStreams
<1>7. CASE OwnerProceeds
  BY <1>7 DEF OwnerProceeds, RecvHandle, SpawnPump, OpenCapture, SetStopFlag,
     StopStore, StopUnpark, JoinDsp, JoinPump
<1>8. CASE UNCHANGED vars
  BY <1>8 DEF vars
<1>9. QED
  BY <1>0, <1>1, <1>2, <1>3, <1>4, <1>5, <1>6, <1>7, <1>8 DEF Next

(* The two wakers and the worker keep to the handshake: every step of the   *)
(* pipeline is a step of DspWakeHandle or leaves the handle alone.          *)
THEOREM HandleUsedAsSpecified == Spec => HandleSafety
<1>1. Init => Wake!Init
  BY DEF Init
<1>2. QED
  BY <1>1, NextIsHandleStep, IInvCorrect, PTL DEF Spec, HandleSafety

(* The pipeline's handle is the one above, with its two wakers.             *)
Wakers == {"pump", "owner"}

LEMMA PipelineIsHandle ==
  /\ Wake!TypeOK => Handle(Wakers)!TypeOK
  /\ Handle(Wakers)!NoLostWakeup <=> NoLostWakeup
  /\ [Wake!Next]_Wake!vars => [Handle(Wakers)!Next]_(Handle(Wakers)!vars)
<1>1. Wake!TypeOK => Handle(Wakers)!TypeOK
  BY DEF Wakers, Wake!TypeOK, Handle!TypeOK
<1>2. Handle(Wakers)!NoLostWakeup <=> NoLostWakeup
  BY DEF Wakers, NoLostWakeup, Wake!NoLostWakeup, Handle!NoLostWakeup
<1>3. Wake!Next => Handle(Wakers)!Next
  BY DEF Wakers, Wake!Next, Handle!Next, Wake!Store, Handle!Store, Wake!Unpark,
     Handle!Unpark, Wake!BeginWait, Handle!BeginWait, Wake!WaiterStep, Handle!WaiterStep,
     Wake!SwapTaken, Handle!SwapTaken, Wake!SwapEmpty, Handle!SwapEmpty,
     Wake!ParkReturns, Handle!ParkReturns, Wake!SpuriousWakeup, Handle!SpuriousWakeup,
     Wake!Rebind, Handle!Rebind
<1> QED
  BY <1>1, <1>2, <1>3 DEF Wake!vars, Handle!vars

(* So the pump's and the engine thread's wakes are never lost: a worker in  *)
(* park() with its flag set has the permit or will be given it.             *)
THEOREM PipelineLosesNoWakeup == Spec => []NoLostWakeup
<1>1. Init => NoLostWakeup
  BY DEF Init, NoLostWakeup, Wake!Init, Wake!NoLostWakeup
<1>2. IInv /\ NoLostWakeup /\ [Next]_vars => NoLostWakeup'
  <2> SUFFICES ASSUME IInv, NoLostWakeup, [Next]_vars PROVE NoLostWakeup'
    OBVIOUS
  <2>1. Handle(Wakers)!TypeOK /\ [Handle(Wakers)!Next]_(Handle(Wakers)!vars)
    BY NextIsHandleStep, PipelineIsHandle DEF IInv, TypeOK
  <2>2. Handle(Wakers)!NoLostWakeup'
    BY <2>1, PipelineIsHandle, HandleWakeupStep
  <2>3. QED
    BY <2>2 DEF NoLostWakeup, Wake!NoLostWakeup, Handle!NoLostWakeup, Wakers
<1>3. QED
  BY <1>1, <1>2, IInvCorrect, PTL DEF Spec

(* And what the worker waits for under the pump and the engine thread is    *)
(* the latched signal: it returns for a wake alone, and uses it up.         *)
THEOREM PipelineIsLatched == Spec => Latch!Init /\ [][Latch!Next]_(Latch!vars)
<1>1. Init => Latch!Init
  BY DEF Init, Wake!Init, Latch!Init
<1>2. IInv /\ [Next]_vars => [Latch!Next]_(Latch!vars)
  <2> SUFFICES ASSUME IInv, [Next]_vars PROVE [Latch!Next]_(Latch!vars)
    OBVIOUS
  <2>1. Handle(Wakers)!TypeOK /\ [Handle(Wakers)!Next]_(Handle(Wakers)!vars)
    BY NextIsHandleStep, PipelineIsHandle DEF IInv, TypeOK
  <2>2. QED
    BY <2>1, HandleLatchStep
<1>3. QED
  BY <1>1, <1>2, IInvCorrect, PTL DEF Spec

=============================================================================
