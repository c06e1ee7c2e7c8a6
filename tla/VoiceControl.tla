---------------------------- MODULE VoiceControl ----------------------------
(***************************************************************************)
(* How the sliders and the preset buttons of the Ready shell reach the     *)
(* voice the DSP worker plays.                                             *)
(*   - A slider stores its value in ReadyState and publishes the whole set *)
(*     through EngineHandle::snap_in, the writer of a triple buffer        *)
(*     (app.rs, event_loop.rs); the worker reads the latest set before     *)
(*     every block and moves towards it (worker.rs, dsp.rs).               *)
(*   - A preset button sends SetPreset; the engine thread builds the       *)
(*     stretcher and offers it to the worker through a channel of one.     *)
(* Every build starts a new buffer, a new channel and a worker with the    *)
(* default voice, and installs the two writers one after the other while   *)
(* the user goes on dragging.  Starts, stops, device changes and builds    *)
(* that fail are those of EngineLoop.                                      *)
(***************************************************************************)

EXTENDS Integers, Sequences

CONSTANTS
  Params,        \* the continuous parameters: pitch, formant, ...
  Values,        \* the positions of a slider
  Default,       \* VoiceParams::default(), for every parameter
  Presets,
  Balanced,      \* the preset every worker boots with
  MaxCommands    \* bound: commands not yet received

ASSUME VoiceAssumption ==
  /\ Values \subseteq Int
  /\ Default \in Values
  /\ Balanced \in Presets
  /\ MaxCommands \in Nat

VARIABLES
  sliders,         \* ReadyState::pitch_slider, formant_slider, ...
  current_preset,  \* ReadyState::current_preset
  cmds,            \* the command channel
  pc, after,       \* where the engine thread is; what follows a teardown
  streams,         \* Engine::streams is Some, its capture stream playing
  snap_in,         \* EngineHandle::snap_in: none, the current buffer, or one
                   \*   that only a worker nobody owns reads
  buffer,          \* the latest set in the current triple buffer
  published,       \* history: the shell has written to that buffer
  preset_tx,       \* Engine::preset_tx, likewise
  preset_rx,       \* instances in the last preset channel made
  accepted,        \* history: the last preset that channel took, or the boot one
  worker,          \* none, waiting, or draining InputRing
  smoothed,        \* SmoothedVoiceParams
  stretch          \* the preset of the worker's Stretch48k

shell == <<sliders, current_preset>>
snapshot == <<snap_in, buffer, published>>
swap == <<preset_tx, preset_rx, accepted>>
playing == <<worker, smoothed, stretch>>
engine == <<pc, after, streams>>
vars == <<sliders, current_preset, cmds, pc, after, streams, snap_in, buffer,
          published, preset_tx, preset_rx, accepted, worker, smoothed, stretch>>

Voices == [Params -> Values]
DefaultVoice == [p \in Params |-> Default]

(* What a smoothed value may be on its way from one position to another. *)
Levels == UNION {a..b : a, b \in Values}

Commands == [op : {"Start", "Stop", "Set"}] \union [op : {"SetPreset"}, preset : Presets]

TypeOK ==
  /\ sliders \in Voices
  /\ current_preset \in Presets
  /\ cmds \in Seq(Commands) /\ Len(cmds) <= MaxCommands
  /\ pc \in {"recv", "drop", "join", "resolve", "spawn", "open"}
  /\ after \in {"recv", "resolve"}
  /\ streams \in BOOLEAN
  /\ snap_in \in {"none", "current", "orphan"}
  /\ buffer \in Voices
  /\ published \in BOOLEAN
  /\ preset_tx \in {"none", "current", "orphan"}
  /\ preset_rx \in Seq(Presets) /\ Len(preset_rx) <= 1
  /\ accepted \in Presets
  /\ worker \in {"none", "wait", "drain"}
  /\ smoothed \in [Params -> Levels]
  /\ stretch \in Presets

(* ReadyState::new seeds its mirrors with the values the worker boots with. *)
Init ==
  /\ sliders = DefaultVoice /\ current_preset = Balanced
  /\ cmds = <<>>
  /\ pc = "recv" /\ after = "recv" /\ streams = FALSE
  /\ snap_in = "none" /\ buffer = DefaultVoice /\ published = FALSE
  /\ preset_tx = "none" /\ preset_rx = <<>> /\ accepted = Balanced
  /\ worker = "none" /\ smoothed = DefaultVoice /\ stretch = Balanced

-----------------------------------------------------------------------------
(* The shell. *)

(* Mutant: only the slider that moved is published, the rest by default. *)
VoiceParamsOfOne(old, p, v) == [DefaultVoice EXCEPT ![p] = v]

(* publish_voice_params builds the set from all mirrors. *)
VoiceParams(old, p, v) == [old EXCEPT ![p] = v]

(* EngineHandle::publish_voice_params: no writer, no effect. *)
Publish(voice) ==
  IF snap_in = "current"
  THEN buffer' = voice /\ published' = TRUE
  ELSE UNCHANGED <<buffer, published>>

MoveSlider(p, v) ==
  /\ v # sliders[p]
  /\ sliders' = [sliders EXCEPT ![p] = v]
  /\ Publish(VoiceParams(sliders, p, v))
  /\ UNCHANGED <<current_preset, cmds, engine, snap_in, swap, playing>>

Send(c) == Len(cmds) < MaxCommands /\ cmds' = Append(cmds, c)

(* The preset row shows the click at once, whatever becomes of the command. *)
ClickPreset(p) ==
  /\ current_preset' = p
  /\ Send([op |-> "SetPreset", preset |-> p])
  /\ UNCHANGED <<sliders, engine, snapshot, swap, playing>>

(* Start, Stop, and the device pickers. *)
ClickButton(op) ==
  /\ Send([op |-> op])
  /\ UNCHANGED <<shell, engine, snapshot, swap, playing>>

-----------------------------------------------------------------------------
(* The engine thread. *)

Receive == pc = "recv" /\ cmds # <<>> /\ cmds' = Tail(cmds)

Teardown(next) == pc' = "drop" /\ after' = next
Goto(next) == pc' = next /\ UNCHANGED after

ReceiveStart ==
  /\ Receive /\ Head(cmds).op = "Start"
  /\ IF streams THEN Teardown("resolve") ELSE Goto("resolve")
  /\ UNCHANGED <<shell, streams, snapshot, swap, playing>>

ReceiveStop ==
  /\ Receive /\ Head(cmds).op = "Stop"
  /\ Teardown("recv")
  /\ UNCHANGED <<shell, streams, snapshot, swap, playing>>

ReceiveSet ==
  /\ Receive /\ Head(cmds).op = "Set"
  /\ IF streams THEN Teardown("resolve") ELSE Goto("recv")
  /\ UNCHANGED <<shell, streams, snapshot, swap, playing>>

(* Mutant: the channel is taken for an unbounded one. *)
OfferAlways(p) == preset_rx' = Append(preset_rx, p) /\ accepted' = p

(* try_send into the channel of one: when it is full the new one is dropped. *)
Offer(p) ==
  IF preset_rx = <<>>
  THEN preset_rx' = <<p>> /\ accepted' = p
  ELSE UNCHANGED <<preset_rx, accepted>>

ReceivePreset ==
  /\ Receive /\ Head(cmds).op = "SetPreset"
  /\ IF preset_tx = "current" THEN Offer(Head(cmds).preset)
                              ELSE UNCHANGED <<preset_rx, accepted>>
  /\ UNCHANGED <<shell, engine, snapshot, preset_tx, playing>>

(* handle_stop_silent: no more audio, ... *)
DropStreams ==
  /\ pc = "drop" /\ pc' = "join"
  /\ streams' = FALSE
  /\ UNCHANGED <<shell, cmds, after, snapshot, swap, playing>>

(* ... the worker is joined and the two writers are taken away. *)
JoinAndClear ==
  /\ pc = "join" /\ pc' = after
  /\ worker \in {"none", "wait"} /\ worker' = "none"
  /\ snap_in' = "none" /\ published' = FALSE
  /\ preset_tx' = "none"
  /\ UNCHANGED <<shell, cmds, after, streams, buffer, preset_rx, accepted, smoothed, stretch>>

(* A fresh triple buffer; its writer replaces whatever was installed. *)
Resolve ==
  /\ pc = "resolve" /\ pc' = "spawn"
  /\ snap_in' = "current" /\ buffer' = DefaultVoice /\ published' = FALSE
  /\ UNCHANGED <<shell, cmds, after, streams, swap, playing>>

(* Mutant: one preset channel for all workers. *)
SpawnOldChannel ==
  /\ pc = "spawn" /\ pc' = "open"
  /\ worker' = "wait" /\ smoothed' = DefaultVoice /\ stretch' = Balanced
  /\ preset_tx' = "current" /\ accepted' = Balanced
  /\ UNCHANGED <<shell, cmds, after, streams, snapshot, preset_rx>>

(* worker::spawn with the default voice and the Balanced preset, then the  *)
(* sender of a fresh channel is installed.                                 *)
Spawn ==
  /\ pc = "spawn" /\ pc' = "open"
  /\ worker' = "wait" /\ smoothed' = DefaultVoice /\ stretch' = Balanced
  /\ preset_tx' = "current" /\ preset_rx' = <<>> /\ accepted' = Balanced
  /\ UNCHANGED <<shell, cmds, after, streams, snapshot>>

(* Both streams open and play. *)
Open ==
  /\ pc = "open" /\ pc' = "recv"
  /\ streams' = TRUE
  /\ UNCHANGED <<shell, cmds, after, snapshot, swap, playing>>

Orphan(slot) == IF slot = "current" THEN "orphan" ELSE slot

(* An error return: what was installed stays, and leads to a worker that   *)
(* nobody wakes.                                                           *)
BuildFails ==
  /\ pc \in {"resolve", "spawn", "open"} /\ pc' = "recv"
  /\ snap_in' = Orphan(snap_in) /\ published' = FALSE
  /\ preset_tx' = IF pc = "open" THEN Orphan(preset_tx) ELSE preset_tx
  /\ worker' = "none"
  /\ UNCHANGED <<shell, cmds, after, streams, buffer, preset_rx, accepted, smoothed, stretch>>

-----------------------------------------------------------------------------
(* The DSP worker; it is woken by captured audio only. *)

(* Mutant: the channel is drained only where the worker boots. *)
WakeKeepsPreset ==
  /\ worker = "wait" /\ streams
  /\ worker' = "drain"
  /\ UNCHANGED <<shell, cmds, engine, snapshot, swap, smoothed, stretch>>

(* After wait(): a new stretcher, if there is one, replaces the old. *)
Wake ==
  /\ worker = "wait" /\ streams
  /\ worker' = "drain"
  /\ IF preset_rx = <<>> THEN UNCHANGED <<preset_rx, stretch>>
     ELSE preset_rx' = <<>> /\ stretch' = Head(preset_rx)
  /\ UNCHANGED <<shell, cmds, engine, snapshot, preset_tx, accepted, smoothed>>

(* Mutant: a fixed-point filter, whose step rounds to zero near the target. *)
StepRounded(a, b) == {a + (IF b >= a THEN (b - a) \div 2 ELSE -((a - b) \div 2))}

(* current += alpha * (target - current), 0 < alpha < 1: strictly closer,  *)
(* never beyond, and there after finitely many blocks.                     *)
Step(a, b) == IF a < b THEN (a + 1)..b ELSE IF b < a THEN b..(a - 1) ELSE {a}

(* One block: the latest set is read, the filter takes a step towards it.  *)
Block ==
  /\ worker = "drain"
  /\ \E s \in [Params -> Levels] :
       /\ \A p \in Params : s[p] \in Step(smoothed[p], buffer[p])
       /\ smoothed' = s
  /\ UNCHANGED <<shell, cmds, engine, snapshot, swap, worker, stretch>>

(* InputRing holds no whole block. *)
Drained ==
  /\ worker = "drain" /\ worker' = "wait"
  /\ UNCHANGED <<shell, cmds, engine, snapshot, swap, smoothed, stretch>>

-----------------------------------------------------------------------------
ShellStep ==
  \/ \E p \in Params, v \in Values : MoveSlider(p, v)
  \/ \E p \in Presets : ClickPreset(p)
  \/ \E op \in {"Start", "Stop", "Set"} : ClickButton(op)

EngineStep ==
  \/ ReceiveStart
  \/ ReceiveStop
  \/ ReceiveSet
  \/ ReceivePreset
  \/ DropStreams
  \/ JoinAndClear
  \/ Resolve
  \/ Spawn
  \/ Open
  \/ BuildFails

Next == ShellStep \/ EngineStep \/ Wake \/ Block \/ Drained

(* Audio keeps arriving while the streams play: the worker is woken, finds *)
(* a block again and again, and its drains end.  The engine thread runs.   *)
Fairness ==
  /\ WF_vars(EngineStep)
  /\ WF_vars(Wake) /\ SF_vars(Block) /\ WF_vars(Drained)

Spec == Init /\ [][Next]_vars /\ Fairness

-----------------------------------------------------------------------------
Running == streams /\ pc = "recv"

(* app.rs:222-237: a publish carries every slider, so after one drag since *)
(* the build the worker's buffer holds all of them, also those that showed *)
(* a stale position until then, and wherever the build was when it came.   *)
PublishSyncsAll == snap_in = "current" /\ published => buffer = sliders

(* The worker plays the last preset its own channel took, never one that   *)
(* an earlier worker was offered.                                          *)
AcceptedPresetPlays ==
  worker # "none" /\ preset_tx = "current" =>
    stretch = accepted \/ preset_rx = <<accepted>>

(* The inductive invariant: while its sender is installed, the     *)
(* channel is empty and its last preset plays, or holds that one.          *)
ChannelHoldsAccepted ==
  preset_tx = "current" =>
    IF preset_rx = <<>> THEN stretch = accepted ELSE preset_rx = <<accepted>>

IInv == TypeOK /\ PublishSyncsAll /\ ChannelHoldsAccepted

(* A slider moved on a running engine is heard: the filter arrives at its  *)
(* position unless the user moves on or the streams go down.               *)
SliderTakesEffect ==
  \A p \in Params, v \in Values :
    (Running /\ published /\ sliders[p] = v) ~>
      (smoothed[p] = v \/ sliders[p] # v \/ ~Running)

(* A preset the channel took is played, unless the streams go down.        *)
PresetTakesEffect ==
  \A p \in Presets : (Running /\ accepted = p) ~> (stretch = p \/ accepted # p \/ ~Running)

=============================================================================
