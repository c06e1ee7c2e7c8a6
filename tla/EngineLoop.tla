----------------------------- MODULE EngineLoop -----------------------------
(***************************************************************************)
(* The engine thread of womanizer-engine/src/event_loop.rs: it receives    *)
(* commands with a 50 ms timeout, drains the streams' error rings, builds  *)
(* and tears down the streams and the worker, and exits when the handle is *)
(* dropped.  Around it the user interface sends commands and receives      *)
(* events, and the cpal streams report errors from threads of their own.   *)
(* Every step of a build can fail; a stream that was opened before the     *)
(* failure has been playing, and reporting, until then.                    *)
(***************************************************************************)

EXTENDS Integers, Sequences

CONSTANTS
  Devices,      \* device names the user can select
  None,         \* no selection: the host default
  Sides,        \* the selections: input, virtual output, monitor
  ErrCap,       \* capacity of an error ring (32 in the code)
  MaxInFlight   \* bound: commands, events and errors not yet consumed

ASSUME LoopAssumption ==
  /\ None \notin Devices
  /\ ErrCap \in Nat \ {0}
  /\ MaxInFlight \in Nat

Rings == {"capture", "vout"}               \* the error rings that are drained
Errors == {"DeviceFault", "Xrun"}

VARIABLES
  cmds,          \* the command channel
  evts,          \* the event channel; Error(e) is e itself
  handle,        \* the user interface holds the EngineHandle
  pc,            \* where the engine thread is
  after,         \* in a teardown: what follows it
  selected,      \* EngineState
  streams,       \* Engine::streams, error rings and detector are Some
  worker,        \* Engine::worker is Some
  built,         \* the selection the streams were built from, if any
  playing,       \* streams whose error callback may run
  errs,          \* contents of the error rings
  faulted,       \* history: a DeviceFault of these streams was pushed
  snap_in,       \* EngineHandle::snap_in is Some
  preset_tx,     \* Engine::preset_tx is Some
  preset_full,   \* the preset channel holds an instance
  disconnected,  \* MonitorBannerState::disconnected
  mismatch,      \* SampleRateState holds a rate
  announced,     \* history: the last start or stop outcome sent
  orphaned       \* history: worker threads were left running by a build

channels == <<cmds, evts, handle>>
running == <<streams, worker, built, playing, errs, faulted>>
slots == <<snap_in, preset_tx, preset_full>>
banners == <<disconnected, mismatch>>
vars == <<cmds, evts, handle, pc, after, selected, streams, worker, built,
          playing, errs, faulted, snap_in, preset_tx, preset_full,
          disconnected, mismatch, announced, orphaned>>

Selections == Devices \union {None}
SetDevice == [op : {"Set"}, side : Sides, name : Selections]
Commands == [op : {"Start", "Stop", "SelectVoice", "SetPreset"}] \union SetDevice
Events == {"Started", "Stopped"} \union Errors
BuildStages == {"resolve", "spawn", "config", "capture", "vout", "stash"}
NoErrors == [r \in Rings |-> <<>>]
NotBuilt == [s \in Sides |-> None]

FlagsOK ==
  /\ handle \in BOOLEAN
  /\ streams \in BOOLEAN
  /\ worker \in BOOLEAN
  /\ faulted \in BOOLEAN
  /\ snap_in \in BOOLEAN
  /\ preset_tx \in BOOLEAN
  /\ preset_full \in BOOLEAN
  /\ disconnected \in BOOLEAN
  /\ mismatch \in BOOLEAN
  /\ orphaned \in BOOLEAN

DataOK ==
  /\ cmds \in Seq(Commands)
  /\ evts \in Seq(Events)
  /\ pc \in BuildStages \union {"recv", "preset", "drop", "join", "exited"}
  /\ after \in {"build", "stopped", "quiet", "exit", "exitquiet"}
  /\ selected \in [Sides -> Selections]
  /\ built \in [Sides -> Selections]
  /\ playing \subseteq Rings
  /\ errs \in [Rings -> Seq(Errors)]
  /\ \A r \in Rings : Len(errs[r]) <= ErrCap
  /\ announced \in {"none", "Started", "Stopped", "StartFailed"}

TypeOK == FlagsOK /\ DataOK

Init ==
  /\ cmds = <<>> /\ evts = <<>> /\ handle = TRUE
  /\ pc = "recv" /\ after = "quiet"
  /\ selected \in [Sides -> Selections] /\ built = NotBuilt
  /\ streams = FALSE /\ worker = FALSE
  /\ playing = {} /\ errs = NoErrors
  /\ faulted = FALSE
  /\ snap_in = FALSE /\ preset_tx = FALSE /\ preset_full = FALSE
  /\ disconnected = FALSE /\ mismatch = FALSE
  /\ announced = "none" /\ orphaned = FALSE

-----------------------------------------------------------------------------
(* The environment: the user interface and the stream error callbacks.     *)

InFlight ==
  Len(cmds) + Len(evts) + Len(errs["capture"]) + Len(errs["vout"])

SendCommand(c) ==
  /\ handle
  /\ InFlight < MaxInFlight
  /\ cmds' = Append(cmds, c)
  /\ UNCHANGED <<evts, handle, pc, after, selected, running, slots, banners,
                 announced, orphaned>>

ReceiveEvent ==
  /\ evts # <<>>
  /\ evts' = Tail(evts)
  /\ UNCHANGED <<cmds, handle, pc, after, selected, running, slots, banners,
                 announced, orphaned>>

(* Dropping the handle drops the sender of one channel, the receiver of the *)
(* other; what was sent before stays in the command channel.               *)
CloseHandle ==
  /\ handle
  /\ handle' = FALSE
  /\ evts' = <<>>
  /\ UNCHANGED <<cmds, pc, after, selected, running, slots, banners,
                 announced, orphaned>>

(* Mutant: the ring has no capacity. *)
StreamErrorUnbounded(r, e) ==
  /\ r \in playing
  /\ InFlight < MaxInFlight
  /\ errs' = [errs EXCEPT ![r] = Append(@, e)]
  /\ faulted' = (faulted \/ e = "DeviceFault")
  /\ UNCHANGED <<channels, pc, after, selected, streams, worker, built, playing,
                 slots, banners, announced, orphaned>>

(* A stream's error callback: push, dropped when the ring is full. *)
StreamError(r, e) ==
  /\ r \in playing
  /\ InFlight < MaxInFlight
  /\ IF Len(errs[r]) < ErrCap
     THEN /\ errs' = [errs EXCEPT ![r] = Append(@, e)]
          /\ faulted' = (faulted \/ e = "DeviceFault")
     ELSE UNCHANGED <<errs, faulted>>
  /\ UNCHANGED <<channels, pc, after, selected, streams, worker, built, playing,
                 slots, banners, announced, orphaned>>

(* The try_recv, once per wake, of the worker at the other end: the one that *)
(* runs, or one that a failed build has left behind with its pump.         *)
WorkerTakesPreset ==
  /\ preset_tx
  /\ preset_full
  /\ preset_full' = FALSE
  /\ UNCHANGED <<channels, pc, after, selected, running, snap_in, preset_tx,
                 banners, announced, orphaned>>

-----------------------------------------------------------------------------
(* One turn of the loop: recv_timeout, drain_error_ring, the arm.          *)

(* evt_tx.send: without a receiver the event is lost. *)
Emit(s) == evts' = IF handle THEN evts \o s ELSE evts

FaultQueued == \E r \in Rings : \E i \in 1..Len(errs[r]) : errs[r][i] = "DeviceFault"

(* A drained DeviceFault also raises the disconnect banner. *)
Drain ==
  /\ Emit(errs["capture"] \o errs["vout"])
  /\ disconnected' = (disconnected \/ FaultQueued)
  /\ errs' = NoErrors
  /\ UNCHANGED mismatch

(* Mutant: a command is handled before the rings are drained. *)
DrainLater == UNCHANGED <<evts, banners, errs>>

(* The drain on the command arm. *)
DrainOnReceive == Drain

RunningKept == UNCHANGED <<streams, worker, built, playing, faulted>>

(* handle_stop_silent begins; what it was called for comes after it. *)
Teardown(what) == pc' = "drop" /\ after' = what

Goto(where) == pc' = where /\ UNCHANGED after

OnStart == IF streams \/ worker THEN Teardown("build") ELSE Goto("resolve")
OnStop == Teardown(IF streams \/ worker THEN "stopped" ELSE "quiet")

(* Mutant: a device change waits for the next Start. *)
OnSetLater == Goto("recv")

OnSet == IF streams THEN Teardown("build") ELSE Goto("recv")

(* Where the loop goes for each command.  Start tears down what is running *)
(* and builds; Stop tears down and announces it if something was running;  *)
(* a device change rebuilds running streams only.                          *)
Dispatch(c) ==
  \/ c.op = "Start" /\ OnStart
  \/ c.op = "Stop" /\ OnStop
  \/ c.op = "Set" /\ OnSet
  \/ c.op = "SetPreset" /\ Goto("preset")
  \/ c.op = "SelectVoice" /\ Goto("recv")

Select(c) == selected' = IF c.op = "Set"
                         THEN [selected EXCEPT ![c.side] = c.name] ELSE selected

ReceiveCommand ==
  /\ pc = "recv"
  /\ cmds # <<>>
  /\ cmds' = Tail(cmds)
  /\ DrainOnReceive
  /\ Dispatch(Head(cmds))
  /\ Select(Head(cmds))
  /\ RunningKept
  /\ UNCHANGED <<handle, slots, announced, orphaned>>

(* Mutant: a disconnected channel is taken for a timeout. *)
ReceiveTimeoutForever ==
  /\ pc = "recv"
  /\ cmds = <<>>
  /\ Drain
  /\ RunningKept
  /\ UNCHANGED <<cmds, handle, pc, after, selected, slots, announced, orphaned>>

(* The tick of the feedback detector changes none of this module's state. *)
ReceiveTimeout ==
  /\ pc = "recv"
  /\ cmds = <<>>
  /\ handle
  /\ Drain
  /\ RunningKept
  /\ UNCHANGED <<cmds, handle, pc, after, selected, slots, announced, orphaned>>

(* The sender is gone and the queue is empty: the loop ends with a stop. *)
ReceiveDisconnected ==
  /\ pc = "recv"
  /\ cmds = <<>>
  /\ ~handle
  /\ Drain
  /\ Teardown(IF streams \/ worker THEN "exit" ELSE "exitquiet")
  /\ RunningKept
  /\ UNCHANGED <<cmds, handle, selected, slots, announced, orphaned>>

(* SetPreset: try_send into the channel of one; no channel, no effect. *)
HandleSetPreset ==
  /\ pc = "preset"
  /\ pc' = "recv"
  /\ preset_full' = (preset_full \/ preset_tx)
  /\ UNCHANGED <<channels, after, selected, running, snap_in, preset_tx,
                 banners, announced, orphaned>>

-----------------------------------------------------------------------------
(* handle_stop_silent, and what its callers do next.                       *)

(* self.streams = None ends the error callbacks. *)
DropStreams ==
  /\ pc = "drop"
  /\ pc' = "join"
  /\ streams' = FALSE
  /\ playing' = {} /\ built' = NotBuilt
  /\ faulted' = FALSE
  /\ UNCHANGED <<channels, after, selected, worker, errs, slots, banners,
                 announced, orphaned>>

(* Mutant: a rebuild is announced like a stop. *)
FollowUpAlways ==
  IF streams \/ worker
  THEN Emit(<<"Stopped">>) /\ announced' = "Stopped"
  ELSE UNCHANGED <<evts, announced>>

(* Stop and exit announce a stop if something was running, a rebuild and a *)
(* stop of nothing do not.                                                 *)
FollowUp ==
  IF after \in {"stopped", "exit"}
  THEN Emit(<<"Stopped">>) /\ announced' = "Stopped"
  ELSE UNCHANGED <<evts, announced>>

(* Mutant: the snapshot slot is cleared, the preset slot forgotten. *)
ClearSnapOnly == snap_in' = FALSE /\ UNCHANGED <<preset_tx, preset_full>>

ClearSlots == snap_in' = FALSE /\ preset_tx' = FALSE /\ preset_full' = FALSE

(* The joins return (WakePipeline!StopCompletes), then the error rings, the *)
(* detector and both slots are cleared.                                    *)
FinishTeardown ==
  /\ pc = "join"
  /\ \/ after = "build" /\ pc' = "resolve"
     \/ after \in {"stopped", "quiet"} /\ pc' = "recv"
     \/ after \in {"exit", "exitquiet"} /\ pc' = "exited"
  /\ worker' = FALSE
  /\ errs' = NoErrors
  /\ ClearSlots
  /\ FollowUp
  /\ after' = "quiet"
  /\ UNCHANGED <<cmds, handle, selected, streams, built, playing, faulted,
                 banners, orphaned>>

-----------------------------------------------------------------------------
(* build_streams_and_worker, stage by stage.                               *)

Stage(from, to) == pc = from /\ pc' = to

(* Every error return ends in Error(DeviceFault): the streams and rings    *)
(* built so far are dropped with their locals, the slots stay as they are. *)
StartFails ==
  /\ pc' = "recv"
  /\ Emit(<<"DeviceFault">>)
  /\ announced' = "StartFailed"
  /\ playing' = {} /\ built' = NotBuilt
  /\ errs' = NoErrors /\ faulted' = FALSE
  /\ UNCHANGED <<cmds, handle, after, selected, streams, worker, slots, banners>>

(* No input or no output device, not even a default: nothing was built. *)
ResolveFails ==
  /\ pc = "resolve"
  /\ StartFails
  /\ UNCHANGED orphaned

(* Fresh rings and a fresh parameter snapshot, whose writer is published. *)
Resolve ==
  /\ Stage("resolve", "spawn")
  /\ built' = selected
  /\ snap_in' = TRUE
  /\ UNCHANGED <<channels, after, selected, streams, worker, playing, errs,
                 faulted, preset_tx, preset_full, banners, announced, orphaned>>

(* The first of the two threads may have been spawned before the failure. *)
SpawnFails ==
  /\ pc = "spawn"
  /\ StartFails
  /\ orphaned' \in {orphaned, TRUE}

Spawn ==
  /\ Stage("spawn", "config")
  /\ preset_tx' = TRUE /\ preset_full' = FALSE
  /\ UNCHANGED <<channels, after, selected, running, snap_in, banners, announced, orphaned>>

(* An error return after the spawn drops the WorkerHandles: the threads go *)
(* on without anybody to stop them.                                        *)
OpenFails ==
  /\ pc \in {"config", "capture", "vout"}
  /\ StartFails
  /\ orphaned' = TRUE

(* pick_input_config, and the resampler when the rate is not 48 kHz. *)
PickConfig ==
  /\ Stage("config", "capture")
  /\ mismatch' \in BOOLEAN
  /\ UNCHANGED <<channels, after, selected, running, slots, disconnected,
                 announced, orphaned>>

(* build_*_stream returns with the stream playing. *)
OpenStream(r, from, to) ==
  /\ Stage(from, to)
  /\ playing' = playing \union {r}
  /\ UNCHANGED <<channels, after, selected, streams, worker, built, errs, faulted,
                 slots, banners, announced, orphaned>>

OpenCapture == OpenStream("capture", "capture", "vout")
OpenVirtualOut == OpenStream("vout", "vout", "stash")

(* Mutant: the banner of the previous session is left up. *)
StashBannerKept ==
  /\ Stage("stash", "recv")
  /\ streams' = TRUE /\ worker' = TRUE
  /\ Emit(<<"Started">>)
  /\ announced' = "Started"
  /\ UNCHANGED <<cmds, handle, after, selected, built, playing, errs, faulted,
                 slots, banners, orphaned>>

(* The monitor stream, optional, whose error ring is never drained; then   *)
(* clear_disconnected, the stash on self, Started.                         *)
Stash ==
  /\ Stage("stash", "recv")
  /\ disconnected' = FALSE
  /\ streams' = TRUE /\ worker' = TRUE
  /\ Emit(<<"Started">>)
  /\ announced' = "Started"
  /\ UNCHANGED <<cmds, handle, after, selected, built, playing, errs, faulted,
                 slots, mismatch, orphaned>>

-----------------------------------------------------------------------------
EngineStep ==
  \/ ReceiveCommand
  \/ ReceiveTimeout
  \/ ReceiveDisconnected
  \/ HandleSetPreset
  \/ DropStreams
  \/ FinishTeardown
  \/ ResolveFails
  \/ Resolve
  \/ SpawnFails
  \/ Spawn
  \/ OpenFails
  \/ PickConfig
  \/ OpenCapture
  \/ OpenVirtualOut
  \/ Stash

EnvironmentStep ==
  \/ \E c \in Commands : SendCommand(c)
  \/ ReceiveEvent
  \/ CloseHandle
  \/ \E r \in Rings, e \in Errors : StreamError(r, e)
  \/ WorkerTakesPreset

Next == EngineStep \/ EnvironmentStep

(* The engine thread runs: recv_timeout returns, and every call it makes   *)
(* into the audio host returns.  Nobody has to send, close or fail.        *)
Fairness == WF_vars(EngineStep)

Spec == Init /\ [][Next]_vars /\ Fairness

-----------------------------------------------------------------------------
AtRest == pc \in {"recv", "preset", "exited"}

(* Between commands, whatever failed before: streams, worker, open devices *)
(* and error rings are there together or gone together (event_loop.rs      *)
(* 726-734 and handle_stop_silent).  Running streams have both slots.      *)
(* Without streams a slot is filled only if the last start has failed: a   *)
(* teardown clears both, a build that fails leaves what it has filled      *)
(* (against 163-166 and 321-322, where a slot is filled only on success).  *)
ResourcesAgree ==
  AtRest =>
    /\ worker = streams
    /\ playing = IF streams THEN Rings ELSE {}
    /\ streams => snap_in /\ preset_tx
    /\ ~streams => errs = NoErrors
    /\ ~streams /\ (snap_in \/ preset_tx) => announced = "StartFailed"

(* The disconnect banner tells the truth about the streams that run: it is *)
(* up, or the fault is queued for the next drain, exactly when one of them *)
(* has reported a DeviceFault the ring could take.  Neither the clearing   *)
(* on Start nor a rebuild may lose or invent one.                          *)
BannerTellsFault ==
  streams => (faulted <=> disconnected \/ FaultQueued)

(* A running engine runs on the devices last selected. *)
SelectionApplied == AtRest /\ streams => built = selected

(* WR-03 (event_loop.rs:343-348): a fault becomes visible whatever the     *)
(* command traffic, or its streams are torn down.                          *)
FaultReported == faulted ~> disconnected \/ ~faulted

(* Once the handle is dropped the engine thread exits. *)
CloseEnds == ~handle ~> pc = "exited"

(* The promise of EngineLifecycle. *)
TearingDown == pc \in {"drop", "join"}

Phase ==
  IF pc = "exited" THEN "exited"
  ELSE IF pc \in BuildStages \/ (TearingDown /\ after = "build") THEN "building"
  ELSE IF TearingDown /\ after \in {"stopped", "exit"} THEN "stopping"
  ELSE IF streams THEN "running" ELSE "stopped"

Lifecycle == INSTANCE EngineLifecycle WITH phase <- Phase
LifecycleSpec == Lifecycle!Spec

(* The safety part of LifecycleSpec. *)
LifecycleSafety == Lifecycle!Init /\ [][Lifecycle!Next]_Lifecycle!vars

-----------------------------------------------------------------------------
(* The inductive invariant the proofs use. *)

(* What exists at which position of the engine thread. *)
Positions ==
  /\ streams => pc \in {"recv", "preset", "drop"}
  /\ pc # "join" => worker = streams
  /\ pc = "drop" /\ after \in {"quiet", "exitquiet"} => ~streams
  /\ playing = IF streams \/ pc = "stash" THEN Rings
               ELSE IF pc = "vout" THEN {"capture"} ELSE {}
  /\ errs # NoErrors => streams \/ pc \in {"vout", "stash", "join"}

(* Which of the two slots are filled at which position. *)
SlotPositions ==
  /\ streams \/ pc \in {"config", "capture", "vout", "stash"} => snap_in /\ preset_tx
  /\ pc = "spawn" => snap_in
  /\ ~streams /\ pc \in {"recv", "preset", "drop", "resolve", "exited"}
       /\ (snap_in \/ preset_tx) => announced = "StartFailed"

(* A fault reported while the streams are still being built stays queued:  *)
(* the rings are not drained before the stash.                             *)
FaultPositions ==
  /\ faulted => streams \/ pc \in {"vout", "stash"}
  /\ pc \in {"vout", "stash"} => (faulted <=> FaultQueued)
  /\ BannerTellsFault

BuiltPositions ==
  /\ streams => built = selected \/ (pc = "drop" /\ after = "build")
  /\ pc \in BuildStages \ {"resolve"} => built = selected

IInv ==
  /\ TypeOK
  /\ Positions
  /\ SlotPositions
  /\ FaultPositions
  /\ BuiltPositions

-----------------------------------------------------------------------------
(* What comments say that the code does not do.                            *)

(* event_loop.rs:946-947: a dropped handle tears down streams and workers  *)
(* and the engine exits cleanly.                                           *)
ExitLeavesNoThreads == pc = "exited" => ~orphaned

(* event_loop.rs:977-980: when a build fails the banner reflects the       *)
(* disconnected state immediately.                                         *)
FailedStartRaisesBanner ==
  pc = "recv" /\ announced = "StartFailed" => disconnected

=============================================================================
