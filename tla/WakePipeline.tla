---------------------------- MODULE WakePipeline ----------------------------
(***************************************************************************)
(* How captured samples reach the DSP worker, and how the worker is        *)
(* stopped.  Four threads share the state:                                 *)
(*   - the cpal capture callback pushes a slice into InputRing, stores its *)
(*     level and bumps samples_since_wake, three accesses others may get   *)
(*     between (cpal_io.rs); it may not make a system call, so it never    *)
(*     wakes anybody;                                                      *)
(*   - the capture pump polls the counter and wakes the worker (worker.rs);*)
(*   - the DSP worker waits on its DspWakeHandle and drains whole blocks;  *)
(*   - the engine thread, the owner, starts the three and stops them       *)
(*     (event_loop.rs), and is the handle's second waker.                  *)
(* A sample is counted, never looked at: the ring is its fill level.       *)
(***************************************************************************)

EXTENDS Integers

CONSTANTS
  Block,        \* cpal_io::BLOCK, the samples the worker processes at once
  RingCap,      \* RING_CAPACITY of InputRing
  ChunkSizes,   \* the sample counts a capture callback may deliver
  MaxOwed       \* bound: how far samples_since_wake may run ahead of the pump

ASSUME PipelineAssumption ==
  /\ Block \in Nat \ {0}
  /\ RingCap \in Nat
  /\ ChunkSizes \subseteq Nat \ {0}
  /\ MaxOwed \in Nat

VARIABLES
  ring,                 \* samples in InputRing
  samples_since_wake,   \* the counter the capture callback bumps
  skewed,               \* history: a slice that is not whole blocks was dropped
  callback,             \* the capture callback: out, or its next access
  slice,                \* the length of the slice it is delivering, or 0
  level_fresh,          \* history: Telemetry::input_rms is of this session
  capturing,            \* the capture stream is playing
  stop_flag,            \* WorkerHandles::stop_flag
  dsp,                  \* where the DSP worker is
  pump,                 \* where the capture pump is
  owner,                \* where the engine thread is in start or stop
  pending, token, waiter, waker    \* the worker's DspWakeHandle

handleVars == <<pending, token, waiter, waker>>
callbackVars == <<callback, slice, level_fresh>>
dataVars == <<ring, samples_since_wake, skewed, callback, slice, level_fresh>>
vars == <<ring, samples_since_wake, skewed, callback, slice, level_fresh,
          capturing, stop_flag, dsp, pump, owner, pending, token, waiter, waker>>

(* The pump and the stop handler each hold a clone of the handle. *)
Wake == INSTANCE DspWakeHandle WITH Wakers <- {"pump", "owner"}

DspStates == {"none", "boot", "check", "wait", "recheck", "read", "reread", "done"}
PumpStates == {"none", "check", "load", "sub", "wake", "park", "done"}
OwnerStates == {"stopped", "handle", "spawnpump", "opencapture", "running",
                "flag", "wake", "joindsp", "joinpump"}

TypeOK ==
  /\ ring \in 0..RingCap
  /\ samples_since_wake \in Nat
  /\ skewed \in BOOLEAN
  /\ callback \in {"out", "level", "count"}
  /\ slice \in ChunkSizes \union {0}
  /\ level_fresh \in BOOLEAN
  /\ capturing \in BOOLEAN
  /\ stop_flag \in BOOLEAN
  /\ dsp \in DspStates
  /\ pump \in PumpStates
  /\ owner \in OwnerStates
  /\ Wake!TypeOK

Init ==
  /\ ring = 0 /\ samples_since_wake = 0 /\ skewed = FALSE
  /\ callback = "out" /\ slice = 0 /\ level_fresh = FALSE
  /\ capturing = FALSE /\ stop_flag = FALSE
  /\ dsp = "none" /\ pump = "none" /\ owner = "stopped"
  /\ Wake!Init

-----------------------------------------------------------------------------
(* The capture callback. *)

(* Mutant: the counter is raised before the level is stored. *)
CountedFirst(at) ==
  IF at = "out" THEN "count" ELSE IF at = "count" THEN "level" ELSE "out"

(* The order of its accesses: push, level, count. *)
Following(at) ==
  IF at = "out" THEN "level" ELSE IF at = "level" THEN "count" ELSE "out"

CallbackAt(at) == callback = at /\ callback' = Following(at)
CallbackKeeps == UNCHANGED <<capturing, stop_flag, dsp, pump, owner, handleVars>>

(* push_entire_slice, all or nothing: a slice that does not fit is dropped. *)
PushEntireSlice(n) ==
  IF ring + n <= RingCap
  THEN ring' = ring + n /\ UNCHANGED skewed
  ELSE skewed' = (skewed \/ n % Block # 0) /\ UNCHANGED ring

CapturePush(n) ==
  /\ capturing
  /\ CallbackAt("out")
  /\ samples_since_wake + n <= MaxOwed
  /\ PushEntireSlice(n)
  /\ slice' = n
  /\ CallbackKeeps
  /\ UNCHANGED <<samples_since_wake, level_fresh>>

(* tele.input_rms.store: a Stop leaves the last value where it is. *)
CaptureLevel ==
  /\ CallbackAt("level")
  /\ level_fresh' = TRUE
  /\ CallbackKeeps
  /\ UNCHANGED <<ring, samples_since_wake, skewed, slice>>

(* samples_since_wake.fetch_add(pushed_frames): the slice's length, whether *)
(* or not the push succeeded.                                              *)
CaptureCount ==
  /\ CallbackAt("count")
  /\ samples_since_wake' = samples_since_wake + slice
  /\ slice' = 0
  /\ CallbackKeeps
  /\ UNCHANGED <<ring, skewed, level_fresh>>

(* What a callback does once it has begun. *)
CaptureProceeds == CaptureLevel \/ CaptureCount

-----------------------------------------------------------------------------
(* The capture pump: one iteration of its loop is check, load, then maybe  *)
(* sub and wake, then park_timeout, which always returns (it has a         *)
(* timeout), so its unpark token need not be modelled.                     *)

PumpGoes(from, to) == pump = from /\ pump' = to
PumpKeeps == UNCHANGED <<ring, skewed, callbackVars, capturing, stop_flag, dsp, owner>>

PumpCheck ==
  /\ PumpGoes("check", IF stop_flag THEN "done" ELSE "load")
  /\ PumpKeeps
  /\ UNCHANGED <<samples_since_wake, handleVars>>

(* Mutant: the pump subtracts whatever it has seen. *)
PumpLoadAny ==
  /\ PumpGoes("load", IF samples_since_wake > 0 THEN "sub" ELSE "park")
  /\ PumpKeeps
  /\ UNCHANGED <<samples_since_wake, handleVars>>

PumpLoad ==
  /\ PumpGoes("load", IF samples_since_wake >= Block THEN "sub" ELSE "park")
  /\ PumpKeeps
  /\ UNCHANGED <<samples_since_wake, handleVars>>

(* Mutant: the counter is cleared instead of reduced by one block. *)
PumpReset ==
  /\ PumpGoes("sub", "wake")
  /\ samples_since_wake' = 0
  /\ PumpKeeps
  /\ UNCHANGED handleVars

(* fetch_sub(BLOCK). *)
PumpSub ==
  /\ PumpGoes("sub", "wake")
  /\ samples_since_wake' = samples_since_wake - Block
  /\ PumpKeeps
  /\ UNCHANGED handleVars

(* wake.wake(), in its two halves. *)
PumpStore ==
  /\ pump = "wake"
  /\ Wake!Store("pump")
  /\ PumpKeeps
  /\ UNCHANGED <<pump, samples_since_wake>>

PumpUnpark ==
  /\ PumpGoes("wake", "park")
  /\ Wake!Unpark("pump")
  /\ PumpKeeps
  /\ UNCHANGED samples_since_wake

PumpParkTimeout ==
  /\ PumpGoes("park", "check")
  /\ PumpKeeps
  /\ UNCHANGED <<samples_since_wake, handleVars>>

PumpStep ==
  \/ PumpCheck
  \/ PumpLoad
  \/ PumpSub
  \/ PumpStore
  \/ PumpUnpark
  \/ PumpParkTimeout

-----------------------------------------------------------------------------
(* The DSP worker. *)

DspGoes(from, to) == dsp = from /\ dsp' = to
DspKeeps ==
  UNCHANGED <<samples_since_wake, skewed, callbackVars, capturing, stop_flag, pump, owner>>

(* The thread sends a clone of its handle to the spawner and enters the loop. *)
DspBoot ==
  /\ DspGoes("boot", "check")
  /\ DspKeeps
  /\ UNCHANGED <<ring, handleVars>>

(* The stop check at the top of the loop, and the call of wait(). *)
DspCheck ==
  /\ DspKeeps
  /\ UNCHANGED ring
  /\ \/ stop_flag /\ DspGoes("check", "done") /\ UNCHANGED handleVars
     \/ ~stop_flag /\ DspGoes("check", "wait") /\ Wake!BeginWait

(* Inside wait(): still waiting after an empty swap or a park that returned. *)
DspWaits ==
  /\ dsp = "wait"
  /\ Wake!SwapEmpty \/ Wake!ParkReturns
  /\ DspKeeps
  /\ UNCHANGED <<ring, dsp>>

DspSpurious ==
  /\ dsp = "wait"
  /\ Wake!SpuriousWakeup
  /\ DspKeeps
  /\ UNCHANGED <<ring, dsp>>

(* Mutant: wait() trusts park() and does not look at pending again. *)
DspWokenByPark ==
  /\ DspGoes("wait", "recheck")
  /\ Wake!ReturnFromPark
  /\ DspKeeps
  /\ UNCHANGED ring

(* wait() returns. *)
DspWoken ==
  /\ DspGoes("wait", "recheck")
  /\ Wake!SwapTaken
  /\ DspKeeps
  /\ UNCHANGED ring

(* The stop check after wait(); a preset swapped in here touches no state  *)
(* of this module.                                                         *)
DspRecheck ==
  /\ DspGoes("recheck", IF stop_flag THEN "done" ELSE "read")
  /\ DspKeeps
  /\ UNCHANGED <<ring, handleVars>>

(* Mutant: one block per wake. *)
DspReadOne ==
  /\ dsp \in {"read", "reread"}
  /\ dsp' = "check"
  /\ ring' = IF ring >= Block THEN ring - Block ELSE ring
  /\ DspKeeps
  /\ UNCHANGED handleVars

(* while let Ok(chunk) = in_rx.read_chunk(BLOCK): every whole block is     *)
(* taken, the first attempt that finds less ends the drain.                *)
DspRead ==
  /\ dsp \in {"read", "reread"}
  /\ IF ring >= Block
     THEN ring' = ring - Block /\ dsp' = "reread"
     ELSE dsp' = "check" /\ UNCHANGED ring
  /\ DspKeeps
  /\ UNCHANGED handleVars

DspStep == DspBoot \/ DspCheck \/ DspWaits \/ DspWoken \/ DspRecheck \/ DspRead

-----------------------------------------------------------------------------
(* The engine thread: worker::spawn and build_capture_stream on the way up, *)
(* handle_stop_silent on the way down.  Every start builds a fresh ring,    *)
(* counter, flag and handle; the telemetry is the program's and survives.   *)

OwnerGoes(from, to) == owner = from /\ owner' = to

SpawnDsp ==
  /\ OwnerGoes("stopped", "handle")
  /\ ring' = 0 /\ samples_since_wake' = 0 /\ skewed' = FALSE
  /\ level_fresh' = FALSE
  /\ stop_flag' = FALSE
  /\ dsp' = "boot"
  /\ Wake!Rebind
  /\ UNCHANGED <<callback, slice, capturing, pump>>

(* wake_rx.recv() blocks until the worker has sent its handle. *)
RecvHandle ==
  /\ OwnerGoes("handle", "spawnpump")
  /\ dsp # "boot"
  /\ UNCHANGED <<dataVars, capturing, stop_flag, dsp, pump, handleVars>>

SpawnPump ==
  /\ OwnerGoes("spawnpump", "opencapture")
  /\ pump' = "check"
  /\ UNCHANGED <<dataVars, capturing, stop_flag, dsp, handleVars>>

(* build_capture_stream returns with the stream playing. *)
OpenCapture ==
  /\ OwnerGoes("opencapture", "running")
  /\ capturing' = TRUE
  /\ UNCHANGED <<dataVars, stop_flag, dsp, pump, handleVars>>

(* self.streams = None: dropping the cpal stream waits for a callback that  *)
(* is under way and ends them.                                              *)
DropStreams ==
  /\ OwnerGoes("running", "flag")
  /\ callback = "out"
  /\ capturing' = FALSE
  /\ UNCHANGED <<dataVars, stop_flag, dsp, pump, handleVars>>

SetStopFlag ==
  /\ OwnerGoes("flag", "wake")
  /\ stop_flag' = TRUE
  /\ UNCHANGED <<dataVars, capturing, dsp, pump, handleVars>>

(* Mutant: a bare unpark of the worker thread, as the engine once had it. *)
StopStoreBare ==
  /\ owner = "wake"
  /\ waker["owner"] = "idle"
  /\ waker' = [waker EXCEPT !["owner"] = "stored"]
  /\ UNCHANGED <<dataVars, capturing, stop_flag, dsp, pump, owner, pending, token, waiter>>

(* stop_wake.wake(), in its two halves; the pump is unparked as well. *)
StopStore ==
  /\ owner = "wake"
  /\ Wake!Store("owner")
  /\ UNCHANGED <<dataVars, capturing, stop_flag, dsp, pump, owner>>

StopUnpark ==
  /\ OwnerGoes("wake", "joindsp")
  /\ Wake!Unpark("owner")
  /\ UNCHANGED <<dataVars, capturing, stop_flag, dsp, pump>>

JoinDsp ==
  /\ OwnerGoes("joindsp", "joinpump")
  /\ dsp = "done"
  /\ UNCHANGED <<dataVars, capturing, stop_flag, dsp, pump, handleVars>>

JoinPump ==
  /\ OwnerGoes("joinpump", "stopped")
  /\ pump = "done"
  /\ UNCHANGED <<dataVars, capturing, stop_flag, dsp, pump, handleVars>>

(* What the engine thread does on its own once it has begun. *)
OwnerProceeds ==
  \/ RecvHandle
  \/ SpawnPump
  \/ OpenCapture
  \/ SetStopFlag
  \/ StopStore
  \/ StopUnpark
  \/ JoinDsp
  \/ JoinPump

-----------------------------------------------------------------------------
Next ==
  \/ \E n \in ChunkSizes : CapturePush(n)
  \/ CaptureProceeds
  \/ PumpStep
  \/ DspStep
  \/ DspSpurious
  \/ SpawnDsp
  \/ DropStreams
  \/ OwnerProceeds

(* Every thread the engine runs is scheduled: the pump's park has a         *)
(* timeout, the worker is blocked only in park(), the engine thread only in *)
(* recv and join, and a callback that has begun is never blocked.  Nothing  *)
(* obliges the device to call back or the user to start or stop.            *)
Fairness ==
  /\ WF_vars(PumpStep)
  /\ WF_vars(DspStep)
  /\ WF_vars(OwnerProceeds)
  /\ WF_vars(CaptureProceeds)

Spec == Init /\ [][Next]_vars /\ Fairness

-----------------------------------------------------------------------------
(* The worker has been told to look at the ring, or is looking. *)
WakeUnderWay ==
  \/ pump = "wake" /\ waker["pump"] = "idle"
  \/ pending
  \/ dsp \in {"recheck", "read", "reread"}

(* The counter, with what the running callback is about to add. *)
Counted == samples_since_wake + slice

WakeDue == Counted >= Block \/ WakeUnderWay

(* worker.rs:464-466: the pump wakes the worker whenever at least BLOCK     *)
(* samples are available.  So while the engine runs, a whole block sitting  *)
(* in InputRing is never overlooked: the counter, the callback about to     *)
(* raise it, a wake in flight or the worker itself accounts for it.         *)
WakeWheneverBlockAvailable ==
  owner = "running" /\ ring >= Block => WakeDue

(* The same for the DSP thread at any time it has not been told to stop; the *)
(* form that is inductive when no slice is shorter than a block.            *)
BlockIsDue == ~stop_flag /\ ring >= Block => WakeDue

(* The same, unless a slice that was not a whole number of blocks has been  *)
(* dropped by a full InputRing since the start: the counter includes what   *)
(* was dropped, and after that its remainder no longer matches the ring's.  *)
NoBlockOverlooked == ~skewed => WakeWheneverBlockAvailable

(* The silence gate judges every block by Telemetry::input_rms, which a     *)
(* Stop leaves at its last value (worker.rs:342).  No block of a session is *)
(* judged by the level of the one before: when the worker drains, a         *)
(* callback of this session has stored a level.  It rests on the order of   *)
(* store and count in the callback, on nobody else waking a worker that is  *)
(* to go on, and on a handle that is fresh for every worker.                *)
FreshLevel == dsp \in {"read", "reread"} => level_fresh

(* The two wakers and the worker of the pipeline lose no wakeup.            *)
NoLostWakeup == Wake!NoLostWakeup

-----------------------------------------------------------------------------
(* The inductive invariant the proofs use. *)

(* Who may be where: the threads exist between spawn and join, the flag and *)
(* the handle are touched only from the positions that touch them.          *)
Protocol ==
  /\ owner \in {"stopped", "handle", "spawnpump"} => pump \in {"none", "done"}
  /\ owner = "stopped" => dsp \in {"none", "done"}
  /\ owner = "joinpump" => dsp = "done"
  /\ dsp = "wait" <=> waiter # "out"
  /\ waker["pump"] = "stored" => pump = "wake"
  /\ waker["owner"] = "stored" => owner = "wake"
  /\ pump = "sub" => samples_since_wake >= Block
  /\ stop_flag => owner \in {"stopped", "wake", "joindsp", "joinpump"}
  /\ owner \in {"wake", "joindsp", "joinpump"} => stop_flag
  /\ capturing => owner = "running"
  /\ callback # "out" => capturing /\ slice \in ChunkSizes
  /\ callback = "out" => slice = 0

(* Counter and ring differ by whole blocks, as only whole blocks are        *)
(* subtracted and only whole blocks are read.                               *)
InStep == ~skewed => (Counted - ring) % Block = 0

(* With no wake under way, everything in the ring is still counted.         *)
CaughtUp == ~skewed /\ ~stop_flag /\ ~WakeUnderWay => Counted >= ring

(* Until a callback has stored a level nothing is counted, so nobody but    *)
(* the stopping engine thread has woken the worker.                         *)
LevelFirst ==
  /\ callback = "count" => level_fresh
  /\ ~level_fresh =>
       /\ samples_since_wake = 0
       /\ pump # "wake"
       /\ pending \/ dsp = "recheck" => stop_flag
  /\ FreshLevel

IInv == TypeOK /\ Protocol /\ InStep /\ CaughtUp /\ LevelFirst

-----------------------------------------------------------------------------
(* A stop that has begun ends: both threads leave their loops and the joins *)
(* return, wherever the threads were when it began.                         *)
StopCompletes == owner = "flag" ~> owner = "stopped"

(* A whole block in InputRing is read, unless the engine is stopped first.  *)
BlocksAreRead ==
  (owner = "running" /\ ring >= Block /\ ~skewed) ~>
    (dsp \in {"read", "reread"} \/ owner # "running" \/ skewed)

(* The threads use the handle only as DspWakeHandle allows, and so the      *)
(* worker gets the latched signal of WakeLatch.                             *)
HandleSpec == Wake!Spec

(* And with that the latched signal itself: what wait() returned for was    *)
(* signalled, and a signal ends a wait.                                     *)
LatchSpec == Wake!LatchSpec

(* The safety part of HandleSpec. *)
HandleSafety == Wake!Init /\ [][Wake!Next]_Wake!vars

=============================================================================
