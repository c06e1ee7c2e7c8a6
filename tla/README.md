# A TLA+ model of womanizer

womanizer is a desktop program that changes a speaker's voice live: it captures
a microphone, runs the samples through a chain of DSP stages and plays the
result on a virtual output device (VB-CABLE) and, if the user wants, on a
monitor. It is one process with an egui user interface, an engine thread, a DSP
worker, a pump thread and up to three audio callbacks that belong to the
driver. This directory models how these parts co-operate, checks the models
with TLC and proves the most important results with TLAPS. Paths below are
relative to `src/crates/`; `PROJECT.json` maps every definition to the lines it
models.

Contents: 1 the system, 2 the modules, 3 the runs, 4 bounds and fairness, 5 the
proofs, 6 where the code and its documentation part, 7 what is not modelled,
8 the plan.

## 1. The system

### Threads and what they share

    egui thread  --commands-->  engine thread  --spawns, joins-->  DSP worker, pump
        ^   |                       |    ^
        |   +--snap_in (triple buffer) --------> DSP worker
        |   +--HotParams (atomics) <---+-------> DSP worker, monitor callback
        +------events---------------+
    capture callback --InputRing--> DSP worker --VirtualOutRing--> output callback
                     --TsRing-----------------------------------> output callback
                                               --MonitorOutRing--> monitor callback
    capture callback --samples_since_wake--> pump --wake--> DSP worker
    each callback    --ErrorRing--> engine thread

Nobody in the audio path may block, lock or allocate, so it is built from
single-producer rings that drop what does not fit, atomics, a triple buffer and
one parking handshake.

### Components

**DSP wake handle** (`womanizer-core/src/wake.rs`). State: a `pending` flag and
the parked thread's permit. Operations: `wake` from any thread, `wait` by the
worker, `rebind`. Hard: flag and permit are two separate accesses and `park`
may return by itself. Correct when no wake is lost and `wait` returns only for
a wake.

**Capture to worker pipeline** (`cpal_io.rs`, `worker.rs`, start and stop in
`event_loop.rs`). State: InputRing, the counter of samples since the last wake,
a stop flag, where each of the four threads is. The capture callback pushes a
slice and counts it; the pump polls the counter, subtracts a block and wakes;
the worker drains whole blocks; the engine thread starts and joins both. Hard:
every one of these runs whenever it likes; the counter is raised by what was
delivered and the ring by what fitted. Correct when whole blocks are processed,
a stop always ends, the unsigned counter never goes below zero, and a block is
judged by a level of its own session.

**Engine event loop** (`event_loop.rs`). State: streams, worker, error rings,
selection, the two slots the shell writes through, banners. It receives
commands (Start, Stop, SetInput/SetVirtualOut/SetMonitor, SelectVoice,
SetPreset) with a 50 ms timeout, drains the error rings, builds, tears down.
Hard: every stage of a build can fail with earlier stages done, streams report
faults while they are being built, commands arrive in any order. Correct when
what runs, what is selected and what is shown agree.

**Feedback detector and monitor flags** (`monitor.rs`). State: five windows of
loudness, a latch, the monitor toggle and the feedback banner. A tick every
50 ms samples the input level; five windows of which each is at least twice as
loud as the one before (four rises) switch the monitor off. Hard: the user writes
the same two flags in the middle of a tick, or twice between two ticks. Correct
when a trip rests on windows of one monitor session, happens as soon as they are
there, is announced, and the detector is armed again.

**Ready shell** (`ready_shell.rs`, `app.rs`). State: mirrors of the selection,
sliders, preset, banner dismissal. Sends commands, drains events. Hard: its
mirrors run ahead of or behind the engine. Correct when what it shows is what
plays and nothing stays hidden.

**Voice parameters and presets** (`params.rs`, `app.rs`, `event_loop.rs`,
`worker.rs`, `dsp.rs`). State: sliders, a triple buffer, smoothing filters, a
channel for one stretcher. Hard: every build replaces buffer, channel and
worker while the user drags. Correct when a slider or preset the user sees
taken is what is heard.

**Output rings, monitor stream, latency meter** (`cpal_io.rs`, `monitor.rs`,
`worker.rs`). State: VirtualOutRing, MonitorOutRing, the ring of capture
stamps, the worker's scratch. Hard: overflow, underrun, a monitor switched off
with samples in its ring, a level that travels beside the samples. Correct when
whole blocks come out in order, the latency shown is not inflated by a stale
stamp, also while capture stalls, and the level a block is judged by does not fall behind it.

**DSP chain** (`dsp.rs`, driven by `worker.rs`). State: filters, the stretcher,
the silence gate, window and counter of the pitch estimate, the voicing kept in
the telemetry, a noise generator. Sequential, floating point. Hard: a block uses
the voicing an earlier block has left, perhaps in an earlier session; counters
come round between blocks. Correct when the gate neither cuts a syllable nor
stays open, the voicing is recent and the noise never dies; the rest is signal
quality.

**Stream configuration and resampler** (`cpal_io.rs`, `resampler.rs`). State:
chosen range and buffer size, the count of samples lost. Hard: any device, any
buffer size. Correct when the best range is taken and every frame is kept or
its loss is counted.

**Setup gate and device detection** (`setup_screen.rs`, `app.rs`,
`devices/`, `event_loop.rs`). State: the last detection, a highlighted name, a
one-second timer, a request for the next frame. Hard: the list of devices
changes between frames and egui sleeps between inputs. Correct when the engine
is spawned by itself once a device is found and with the confirmed one only.

**Voice database** (`womanizer-db`). State: the SQLite file: tables,
`user_version`, voices, settings. Hard: two launches at once, a launch killed
anywhere. Correct when it is migrated and seeded once.

**Program entry and logging** (`main.rs`), **smoke harness**
(`womanizer-core/src/smoke.rs`): start-up order and a self test.

The hazards each of these is exposed to are listed with their lines in
`PROJECT.json`.

## 2. The modules

| module | models | state and actions |
|---|---|---|
| `WakeLatch` | the promise of the wake handle | a latched signal: `Wake`, `BeginWait`, `Return`, `Rebind` |
| `DspWakeHandle` | wake.rs | `Store` and `Unpark` are the two halves of `wake()`; `BeginWait`, `SwapTaken`, `SwapEmpty`, `ParkReturns` are `wait()`; `SpuriousWakeup` is std's licence |
| `WakePipeline` | the pipeline and the stop protocol | one action per shared access of a thread, gathered in `CapturePush` and `CaptureProceeds`, `PumpStep`, `DspStep` and `OwnerProceeds`; uses the wake handle as an INSTANCE |
| `EngineLifecycle` | what the shell may rely on about Start and Stop | `Begin`, `Succeed`, `Fail`, `BeginStop`, `Stopped`, `Exit` |
| `EngineLoop` | event_loop.rs | `ReceiveCommand`, `ReceiveTimeout`, `ReceiveDisconnected`, `HandleSetPreset`; `DropStreams`, `FinishTeardown`; the build stages `Resolve`, `Spawn`, `PickConfig`, `OpenCapture`, `OpenVirtualOut`, `Stash` and the failure of each |
| `FeedbackDetector` | `FeedbackDetector::tick` and the two flags | `TickLoad`, `TickRearm`, `TickSample`, `TickTrip`, `TickAnnounce` are a tick cut at its shared accesses; `Frame`, `Toggle`, `Dismiss` the shell's; `Start`, `Stop` the engine's |
| `ReadyShell` | the shell, EXTENDS `EngineLoop` | `FrameReceives`, `ClickReconnect`, `ClickButton`, `PickDevice`, `SelectVoice`, `CloseWindow`; what the engine and the devices do is `EngineMoves` and `DevicesMove` |
| `VoiceControl` | sliders and presets | `MoveSlider`, `ClickPreset`; the engine's part of a rebuild; the worker's `Wake`, `Block`, `Drained` |
| `SilenceGate` | `Gate` of dsp.rs | `Update(level)` |
| `DspChain` | the worker's state from block to block, EXTENDS `SilenceGate` | `Spawn`, `Stop`; `BeginBlock(level)`, `DrawNoise` and `EndBlock` are a block: window and gate, the loop over the samples in `Breathiness::process`, the estimate |
| `OutputPath` | the audio rings and the level stored beside them | `CapturePush`, `CaptureStamp`, `ProcessBlock`, `MirrorBlock`, `VirtualOutCallback`, `MonitorCallback`, `ToggleMonitor` |
| `OutputDevices` | detection, naming, finding by name | operators on lists of devices |
| `VoiceDb` | womanizer-db | `OpenDb`, `Migrate`, `CountVoices`, `InsertDefault`, `InitConn` per launch; `MigrateFails` |
| `AppLaunch` | main.rs and the setup gate, EXTENDS both | `OpenWindow`, `ClickFrame`, `RepaintFrame`, `FlashElapses`, `End` (also a kill), `Plug` |
| `CapturePath` | capture configuration, downmix, resampler | `Build`, `Teardown`, `Callback(frames)` |
| `MCAppLaunch`, `MCCapturePath` | values for TLC | |
| `WakePipelineProofs`, `ReadyShellProofs`, ... | theorems about the module of that name and those it uses | see section 5 |

How the abstraction is drawn:

- A sample is counted (`WakePipeline`, `CapturePath`) or known by its slice and
  block (`OutputPath`); its value does not exist. A word of the noise
  generator is the set of its one bits, so that shifts and XOR are operations on
  sets. A name is a pair of endpoint and driver. A slider position is a small
  integer, a level a small natural.
- A step is one access to state another thread can see. Code that touches
  private state only is joined with the access before it. Where the code does
  such accesses in a row (ring, level and counter; toggle, banner and latch;
  store and unpark; COUNT and INSERT), each is an action, and others may act
  between them. `OutputPath` is coarser in two places: `ProcessBlock` takes a block
  from InputRing and pushes it to VirtualOutRing in one step, and
  `VirtualOutCallback` reads the audio and drains the stamps in one. Each end of a
  ring has one user, the worker's two accesses are to the ends of different rings
  and nobody sees a block between them; a level or a stamp stored between the two
  halves could only be newer than those that the properties bound from below.
- Time in `OutputPath` is `clock`, the number of callbacks of the virtual output:
  the output is driven by its own device and goes on when capture stalls. A stamp
  carries the clock of its push; the instant the device gives for the capture is
  earlier by what that callback took, which no later stall makes longer. The
  meter's value is the reading itself; the average over readings and the ceiling
  of 200 ms (cpal_io.rs:598-607) are left out.
- A slot of `EngineLoop` is filled or not, as in the code: whether somebody reads
  at its other end is not part of the state.
- `EngineLoop` drains both error rings in one step. The order of error event
  and banner inside the drain is therefore not visible (section 8).
- `OutputPath` leaves the gate out and `DspChain` the rings: the level a block
  is judged by is any level in `DspChain`; `OutputPath` says which slice it may
  come from, and `WakePipeline` that it is of the same session.
- The engine's part of `VoiceControl` is that of `EngineLoop` cut down to what
  slots, channel and worker go through; the two are separate because their
  product is too large.
- Definitions whose comment begins with "Mutant" are variants of the
  definition after them, as a plausible mistake would leave it. They are used
  by nothing here; `PROJECT.json` pairs each with the property that it breaks,
  which shows that the property says something about the code.

## 3. The runs

Runs that pass:

| run | shows |
|---|---|
| `wake_pipeline` | `NoBlockOverlooked`: a whole block in InputRing always has a wake due or under way, unless a partial slice was dropped. `TypeOK`: the counter never wraps. `FreshLevel`: when the worker drains, the level in the telemetry is of this session. `BlocksAreRead`: a whole block is read. `StopCompletes`: a stop returns, wherever the worker was. `NoLostWakeup`: the worker never sleeps on a set flag without a permit or a waker that will give one. `HandleSpec`: pump, worker and engine thread use the handle only as `DspWakeHandle` allows; `LatchSpec`: so it is the signal of `WakeLatch`, liveness included. |
| `feedback_detector` | `NoStaleTrip`: every trip rests on as many samples as the code asks for, all taken since the user last switched the monitor on, wherever in a tick that was. The exception it states: a monitor switched off and on between two loads of the toggle, which no tick sees (section 6). `NoMissedTrip`: that many rising windows in a row do trip. `TripIsAnnounced`: a trip is never silent. |
| `ready_shell` | `ResourcesAgree`: between commands streams, worker, open devices and error rings exist together or not at all, whatever stage failed; running streams have both slots; without streams a slot is filled only if the last start failed (section 6). `SelectionApplied`: running streams use the current selection. `BannerTellsFault`: the banner is up, or about to be, exactly when a stream that runs has reported a fault. `FaultReported`: a fault in a ring becomes visible though commands keep coming. `CloseEnds`: closing the window ends the thread. `LifecycleSpec`: the loop implements `EngineLifecycle`. `DismissedMeansUnderway`, `DismissalEnds`: the reconnect click hides no fault for good. `MirrorAhead`: pickers show what the engine will play. |
| `voice_control` | `PublishSyncsAll`: after one drag since the build the worker has every slider. `AcceptedPresetPlays`: a preset the channel took is played, and on its own worker only. `SliderTakesEffect`, `PresetTakesEffect`: both are heard. |
| `dsp_chain` | `VoicingRecent`: the voicing a block uses is less than one round of the estimate's counter old, whether the gate is open or shut, and an estimate of this worker rests on a window of its own input. `NoiseNeverDies`: the generator never reaches zero, not even from a zero seed. `GateHolds`: the gate closes only after its full hold time below the lower threshold, and while it is shut the envelope has not risen above the upper one. |
| `output_path` | `WholeBlocks`: outputs play whole blocks in order, across overflow, underrun and toggling. `MeterNotInflated`: the stamp used is at most one slice older than what is heard, whatever the ring of stamps dropped, and it was left since the callback before, so while capture stalls the meter keeps its value. `LevelKeepsUp`: the level a block is judged by is at most one slice behind it. |
| `app_launch` | `SeededOnce`, `FailureMeansRace`: the database is migrated and seeded once, and a launch fails only against another one. `SpawnsConfirmedOutput`, `DetectedDeviceOpens`, `FoundLeadsToReady`: the engine gets the confirmed device, opens the very device that was found, and does so without further input. |
| `capture_path` | `BestConfig`: the documented order of preference for every list of ranges. `FramesKept`: with buffers of a block nothing is lost or added; otherwise what the downmix cuts is counted. |

`DspWakeHandle` and `EngineLoop` have no passing run of their own: `WakePipeline`
fires every action of the first, with its two wakers and with spurious wakeups,
and `ReadyShell` every action of the second, with a shell that may send any
command at any time.

Runs that end in a violation, each a sentence of the code that its behaviour
contradicts:

| run | the sentence | what happens |
|---|---|---|
| `exit_leaves_no_threads` | event_loop.rs:945-947, the engine "exits cleanly" | after a build that fails behind `worker::spawn`, the local `WorkerHandles` is dropped, which detaches both threads without setting the stop flag: they run for ever, one pair for each failed start. |
| `failed_start` | event_loop.rs:979-980, when a build fails the "banner reflects the disconnected state immediately"; event_loop.rs:470-472, ready_shell.rs:73-75 | the Err arm of `handle_start` sends `Error(DeviceFault)` and sets no banner; `set_disconnected` is called by the drain of the error rings only, and a build that failed leaves no ring. The shell shows nothing. |
| `rearm_after_trip` | monitor.rs:303-306, re-enabling the monitor arms the detector on the next tick | a monitor re-enabled before the tick after the trip shows the detector no edge; the latch stays and this session is never guarded again. The tick may be 50 ms away, or far longer while commands keep the timeout from firing. |
| `caller_chunks` | resampler.rs:171-173, the caller chunks its input | the capture callback passes its whole buffer; with a microphone that lacks 48 kHz and buffers larger than a block, the excess is lost at every callback and counted nowhere. |

Deadlock is checked in every run except those on `EngineLoop` and `ReadyShell`
(`CHECK_DEADLOCK FALSE`): there the engine thread exits for good after the
window is closed.

## 4. Bounds and fairness

| run | bounds | why they are enough |
|---|---|---|
| `wake_pipeline` | block 2, ring of 5, slices of 1 to 3, `MaxOwed` 6 | slices below, at and above a block; a ring that is no multiple of a block, so both whole and partial slices get dropped; three blocks owed, so wakes coalesce; the handle has the two wakers the program has. Proved for all values and any number of wakers |
| `feedback_detector` | 5 windows (as in the code), levels 0 to 16 by doubling | silence and five audible levels: a trip needs all of these, four rises in a row |
| `ready_shell` | one device and the default, two sides, error rings of 1, `MaxInFlight` 2 for commands and events | two selections per side, a full error ring, a command behind another while a build is under way. Proved for all values |
| `voice_control` | two parameters, positions 0 and 2, two presets, one command in the channel | two parameters tell a publish of all from a publish of one; a distance of 2 makes the filter take several blocks. Safety is proved for all values |
| `dsp_chain` | block 2, interval 13, window 4, words of 8 bits with shifts 3, 5 and 1 and a zero seed, levels 0, 1, 2, 4, hold time 10 | an interval that is no multiple of a block and, as in the code, seven blocks from one estimate to the next and two to fill the window; a gate that is shut when an estimate falls due. Proved for all values |
| `output_path` | block 2, rings of 4, stamps 2, slices 1 and 2, five slices, `MaxPlays` 6 | slices that do not match blocks; all rings overflow and run dry, the ring of stamps included; a callback for each slice and one more, so the output also goes on through a stall of several callbacks. Proved for all values that fit the rings |
| `app_launch` | two launches, three devices in four lists | a list with the name twice in both orders, one without it, an empty one; two launches are the race. Safety is proved for any number of launches and any lists |
| `capture_path` | every list of at most 3 of 9 ranges | each of the code's four slots filled or not, in any order, and a later better one. Proved for lists of any length and any sizes |

`MaxOwed`, `MaxInFlight`, `MaxCommands`, `MaxSlices`, `MaxPlays`, `MaxRanges` and `MaxCount`
are the only bounds that the code does not have. They stop the environment
(deliveries, callbacks, clicks, reports) and never the code; `MaxCount` saturates two
history counters.

Fairness is weak fairness of each thread that runs, which is what an operating
system with preemptive scheduling gives: `PumpStep`, `DspStep`, `OwnerProceeds`,
`CaptureProceeds` (a callback that has begun ends), `EngineStep`, `TickStep`,
`EngineMoves`, and for the wake handle its waiter and the second half of a
`wake()` begun. `FrameReceives` is fair because app.rs asks for a repaint 30 times
a second. In `AppLaunch` a frame comes only if one was
requested; that is what `FoundLeadsToReady` is about. Nobody is obliged to
click, to plug, to start or stop, or to deliver audio. The one exception is
`VoiceControl`, where audio keeps arriving while streams play: a drain meets
blocks again and again (`SF` of `Block`) and ends (`WF` of `Drained`), because
without audio no slider can be heard.

## 5. The proofs

Eight modules hold theorems. Every safety invariant and action property that a
passing run checks is one of them. None assumes anything but the ASSUMEs of its module
and of those it extends:

- `PipelineAssumption`: a block and every slice are at least one sample.
- `LoopAssumption`: the default is not a device, an error ring has room for one.
- `DetectorAssumption`: at least one window, silence is a level.
- `VoiceAssumption`: the defaults are among the values.
- `GateAssumption`: the closing threshold is not above the opening one.
- `ChainAssumption`: the window of the estimate is no longer than the interval,
  the default seed is not zero, a shift moves.
- `OutputAssumption`: sizes are positive. `SizesAssumption`: a ring has room for
  a slice or a block next to what a callback takes, and as many slices as there
  are stamps are a callback's worth. With a block of 256, rings of 8192 and 64
  stamps, as in the code, and slices of a block this allows callbacks of up to
  7936 frames; the streams ask for buffers of 256 (cpal_io.rs:282-303). A device
  that insists on larger buffers than that is outside of it. Only
  `MeterIsHonest` rests on `SizesAssumption`.
- `DevicesAssumption`: an enumeration is a list of devices. `LaunchAssumption`:
  the values that stand for "none" are not names or devices.
- `CaptureAssumption`: a block is at least one frame, a range has at least one
  channel, its minimum rate and buffer are not above its maximum.

**`WakePipelineProofs`.** `TypeCorrect` (so the counter never underflows),
`BlockAccounted` (`NoBlockOverlooked`), `FullSlicesAlwaysWake` (if no slice is
shorter than a block the pump's promise needs no exception), `LevelIsFresh`
(`FreshLevel`), `PipelineLosesNoWakeup` (`NoLostWakeup`) and
`HandleUsedAsSpecified`, for every block size, capacity and set of slices.
The handle's own theorems come first, for any set of wakers (`Handle(W)`):
`LostWakeupExcluded`, whose invariant is inductive together with the types, and
`ImplementsLatch`, every step is a step of `WakeLatch` or a stutter. The pipeline
uses the handle with two wakers and as specified, so it takes both over
(`PipelineLosesNoWakeup`, `PipelineIsLatched`).
`NoBlockOverlooked` is not inductive. It follows from `IInv`, which adds
`Protocol` (which positions of the four threads and the handle go together),
`InStep` (counter and ring level agree modulo a block unless a partial slice
was dropped) and `CaughtUp` (with no wake under way, the counter is at least
the ring level). The pump subtracts whole blocks and the worker drains whole
blocks, so `InStep` survives both, and `CaughtUp` turns a block in the ring
into a counter that the pump will see. `LevelFirst` carries `FreshLevel`: until a
callback has stored a level it has counted nothing, so the pump has woken nobody,
and a worker woken by the stopping engine thread leaves without draining.

**`ReadyShellProofs`.** First of `EngineLoop`, whoever sends it commands:
`TypeCorrect`, `ResourcesAlwaysAgree`,
`SelectionFollowed`, `BannerTruthful`, and `ImplementsLifecycle`. `IInv` says
for every position of the engine thread which resources exist (`Positions`),
which slots are filled, and that a failed start is the only one to leave them so
without streams (`SlotPositions`), where a fault is on its way from ring to
banner (`FaultPositions`) and what the streams were built from
(`BuiltPositions`); the properties speak of the positions at rest and cannot be
carried through a build without the others.

Then of the shell. A step of the shell and its engine is a step of
`EngineLoop` or leaves its variables alone, so `IInv` of the loop carries over:
`EngineUnderShell`, and so does the refinement, `LifecycleUnderShell`. On top of
it `DismissalHasReason` (`DismissedMeansUnderway`) goes through the commands at
the head of the queue and the places where a build ends, each of which sends an answer. `MirrorNeverLies` (`MirrorAhead`) rests on
what appending to and taking from a queue do to its last Set of a side; the
engine's selection changes only when such a command is taken.

**`FeedbackDetectorProofs`.** `TypeCorrect`, `TripsAreFresh` (`NoStaleTrip`, an action property),
`NoTripIsMissed` (`NoMissedTrip`), `TripsAreAnnounced` (`TripIsAnnounced`).
`FreshWindows` adds that the count of filled windows never exceeds the samples
taken since the user switched the monitor on, unless no tick saw it off before
that, and but for what a re-arm is about to clear.
`StreakInHistory` says that the windows of a streak are the newest ones of the
history and that a re-arm clears both, so a full streak is a full history.

**`VoiceControlProofs`.** `TypeCorrect`, `OneDragSyncsAll` (`PublishSyncsAll`) and
`PresetOfItsOwn` (`AcceptedPresetPlays`). `ChannelHoldsAccepted` strengthens the
last one: while a sender is installed, its channel is empty and the last accepted
preset plays, or it holds just that preset, wherever a rebuild is.

**`DspChainProofs`.** `NoiseLives` (`NoiseNeverDies`): the lowest bit of a word is
not in its copy shifted left, nor the highest in one shifted right, so the XOR of
a word other than zero with a shifted copy of itself is not zero.
That a nonempty set of bits has a lowest and a highest member comes from the
well-foundedness of strict inclusion on finite sets, without an induction of its
own. `GateHoldsOpen` (`GateHolds`): the history count of quiet blocks is never
behind the gate's counter while the gate is open. `VoicingStaysRecent`
(`VoicingRecent`): counter and age go together, the counter is the block length
times the age, and a window fills before the first estimate because it is no
longer than the interval.

**`OutputPathProofs`.** `BlocksStayWhole` (`WholeBlocks`): each ring, with what was
played before it, is a line of samples that follow one another (`Line`); pushes
append whole blocks or nothing, reads take a prefix, and the block on its way to
the monitor is later than all in its ring. `LevelIsCurrent` (`LevelKeepsUp`): the
level is that of the last slice, or of the one before while the last is half
delivered, and nothing later is in the ring.

`MeterIsHonest` (`MeterNotInflated`) has to bound what is heard by a stamp that
may have been lost. `Drained` is the last slice stamped when the virtual output
emptied the stamps. `StampsFollow`: since then every slice has left a stamp, one
after the other, until the ring was full, and no callback has passed, which
bounds the reading. `PlaysStamped`: of the samples on the
way to the output, in VirtualOutRing and behind it in InputRing, those that the
next callback may play are of no slice later than a full ring of stamps covers,
but for one. This holds because each slice captured since the drain has made the
way longer by at least a slice, so that a callback's worth is there before the
stamps run out (`FewAhead`), or it was dropped by a full ring, and then a
callback's worth is there as well (`PushAhead`, `BlockAhead`). A drain puts the
bound back to the newest slice (`DrainAhead`). The inductive invariant was
checked by TLC with the bounds of `output_path` before it was proved, as were
those of the two modules that follow.

**`AppLaunchProofs`.** `DefaultIsUnique` (`SeededOnce`) and `OnlyRacersFail`
(`FailureMeansRace`) follow from `Versions`: `user_version` counts the tables
that are there, no launch takes the database to be further than that, and a
launch that nobody raced is up to date. That an INSERT OR IGNORE on the unique
name adds the voice once does not need the count before it to be current.
`ConfirmedIsSpawned` (`SpawnsConfirmedOutput`) and `DetectedIsOpened`
(`DetectedDeviceOpens`) follow from `GateAgrees`: while the flash timer runs the
picked name is the confirmed one, and a device that a test
has found since the last change of the list is still the first that matches.
`DetectedIsFoundByName` is the step from there to the engine: a device before it
in the list that had its composed name would have its endpoint's name too, so
the pattern would have accepted that one first.

**`CapturePathProofs`.** `BestIsBuilt` (`BestConfig`): `PickIsBest` compares the
four slots that `pick_input_config` fills with the order of preference, for a
list of any length. `NoFrameLost` (`FramesKept`): on a device whose buffers can be
a block long the code asks for a block, so neither the downmix nor the resampler
finds more or less than its scratch holds (`FramesGiven`).

Only model-checked: all liveness (`StopCompletes`, `BlocksAreRead`,
`FaultReported`, `CloseEnds`, `DismissalEnds`, `SliderTakesEffect`,
`PresetTakesEffect`, `FoundLeadsToReady` and the fairness part of the
refinements `HandleSpec`, `LatchSpec` and `LifecycleSpec`), because fairness and
ENABLED are beyond the prover; the safety part of the three refinements is
proved.

## 6. Where the code and its documentation part

Besides the four violations of section 3, reading the code for the models
brought up the following. They have no run of their own: most follow from one
place, and where a property has to make room for one it is named.

- Every build resets the worker to the Balanced preset and the default voice
  (event_loop.rs:563) while preset row and sliders keep showing the user's
  choice, until the next click or drag; a preset clicked while stopped is
  dropped (event_loop.rs:400-437). app.rs:131 calls the shell's value "UI mirror
  of the active quality preset".
- The pump's promise has an exception the comments do not name: if a slice that
  is no multiple of a block is dropped (cpal_io.rs:470, worker.rs:464-466),
  counter and ring stay apart and a whole block may wait for the next slice.
  `NoBlockOverlooked` states the exception.
- A full error ring drops the newest error, which may be the `DeviceFault`
  (cpal_io.rs:506).
- The latency meter pairs the newest stamp with whatever is being played
  (cpal_io.rs:525, 409), and the sequence number in it is never read: queueing in
  VirtualOutRing does not show. `MeterNotInflated` is the half that holds.
- A slot is filled before the build it belongs to has succeeded, and a failed build
  clears none: `snap_in` from event_loop.rs:565 on, `preset_tx` from 600 on stay
  filled without streams until the next teardown, though 163-166 and 321-322 say
  that they are so "on successful Start" and "only while streams are Started".
  `ResourcesAgree` states that a failed start is the only way to get there.
- A monitor switched off and on between two ticks shows no edge
  (monitor.rs:353-354), so windows from before count on, though 303-306 say that
  switching it on zeroes them. `NoStaleTrip` states this one exception; the same
  gap between two ticks is what `rearm_after_trip` shows for the latch.
- The sample-rate banner outlives its streams (resampler.rs:16-17); the feedback
  banner outlives a monitor re-enabled while stopped (monitor.rs:74-75).
- A second launch during the very first one can exit with a migration error
  (schema.rs:34); `FailureMeansRace` says this is the only way to fail.
- seed.rs:3-7 lets the user delete Default for good, yet an empty table is
  seeded again.
- setup_screen.rs:4-5 names two interactive widgets; there is a manual pick too.
  The name confirmed there may no longer be in the list; the host default is
  then opened silently. The remembered output read from the settings is never
  used, because a picked one is always there at the transition.
- worker.rs:504-509 shows a shutdown order that would not end: the worker is
  joined before it is woken. event_loop.rs uses the right order.
- resampler.rs speaks of running off the cpal callback and of the DSP worker as
  its owner; it runs in the capture callback.
- The gate judges a block from InputRing by the level of the newest slice
  (worker.rs:340-341), so a backlog shifts its decisions forward; `LevelKeepsUp` is
  the half that holds.
- A Stop clears no telemetry: the level meter and the two F0 read-outs keep the
  last session's values on the screen (app.rs:396-406 is their only reset), and
  the breathiness stage of the next worker uses the old voicing for its first
  seven blocks (worker.rs:372, 411-433). No comment promises otherwise;
  `VoicingRecent` bounds it.
- `HotParams::input_gain`
  and `gate_threshold` are read by nobody.
- event_loop.rs:1018-1020 says that a panic of the engine thread reaches the shell
  as an event; it is only logged.
- primitives.rs:57 describes `xruns` as underruns and overruns; a dropped push is
  not counted.

## 7. What is not modelled

- The DSP mathematics: stretch, YIN, biquads, envelopes, mixing, dB
  conversions, the FFT resampler of rubato. Floating-point signal processing;
  the tests beside the code measure it.
- The smoke harness: one thread that sends fixed traffic through fresh primitives
  and reads it back. It shares nothing with the engine and its own run shows all
  it can do.
- Logging, argument check, drawing.
- Meters, F0 read-out, CPU telemetry as a display. Where a stage reads what it
  shows (the level by gate and detector, the voicing by the breathiness stage), it
  is modelled.
- `EngineLoop` leaves out the ring that only tests inject into and the repaint
  callback; the monitor stream's build is part of the last stage, as its failure
  changes nothing that is modelled.
- Memory orderings: the modules assume sequentially consistent accesses. The
  handle's flag is stored with Release and swapped with Acquire, and the counter
  is a single location; the rings are those of `rtrb`, the triple buffer
  and the channels those of their crates: external, modelled by what their
  users see.
- Panics of the engine thread: the thread logs and ends; the shell then finds a
  closed channel.
- SQLite is a serialisable store with transactions; the regular expression for
  cable names is the set of names it accepts.

## 8. The plan

Written in this order: the wake handle and the pipeline (the core, with the
hardest interleavings), the engine loop with its lifecycle, the detector, the
shell on top of the loop, voice control, output path, launch and capture, the
chain of the worker, and the proofs of what the runs had shown.
Next:

1. Proofs of the safety behind the liveness that stays with TLC: what a stop, a
   rebuild and a preset under way still have to do, as invariants.
2. An abstract specification of the voice a user hears, implemented by
   `VoiceControl`.
3. A finer drain in `EngineLoop` (per ring: pop, banner, event), to state the
   order of banner and event for the shell.
4. The detector composed with the engine loop's command traffic, to state how
   long a stream of commands can keep it from ticking.
5. The monitor's error ring and the telemetry, if a promise about them is
   documented.
