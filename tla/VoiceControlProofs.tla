------------------------- MODULE VoiceControlProofs -------------------------
(***************************************************************************)
(* Proofs about VoiceControl, for every set of parameters, slider          *)
(* positions and presets.                                                  *)
(***************************************************************************)

EXTENDS VoiceControl, TLAPS

USE VoiceAssumption
USE DEF shell, snapshot, swap, playing, engine

-----------------------------------------------------------------------------
(* Types, in groups of variables that change together.                     *)

VoicesOK == sliders \in Voices /\ buffer \in Voices
CommandsOK == cmds \in Seq(Commands) /\ Len(cmds) <= MaxCommands
PositionsOK ==
  /\ pc \in {"recv", "drop", "join", "resolve", "spawn", "open"}
  /\ after \in {"recv", "resolve"}
  /\ snap_in \in {"none", "current", "orphan"}
  /\ preset_tx \in {"none", "current", "orphan"}
  /\ worker \in {"none", "wait", "drain"}
PresetsOK ==
  /\ current_preset \in Presets
  /\ preset_rx \in Seq(Presets) /\ Len(preset_rx) <= 1
  /\ accepted \in Presets /\ stretch \in Presets
FlagsOK == streams \in BOOLEAN /\ published \in BOOLEAN

LEMMA TypeParts ==
  TypeOK <=> /\ VoicesOK /\ CommandsOK /\ PositionsOK /\ PresetsOK /\ FlagsOK
             /\ smoothed \in [Params -> Levels]
BY DEF TypeOK, VoicesOK, CommandsOK, PositionsOK, PresetsOK, FlagsOK

LEMMA DefaultType == DefaultVoice \in Voices /\ DefaultVoice \in [Params -> Levels]
<1>1. Default \in Default..Default
  OBVIOUS
<1>2. Default \in Levels
  BY <1>1 DEF Levels
<1> QED BY <1>2 DEF DefaultVoice, Voices

LEMMA PublishOK ==
  ASSUME VoicesOK, NEW voice \in Voices, Publish(voice)
  PROVE  buffer' \in Voices
BY DEF VoicesOK, Publish

LEMMA VoicesStep ==
  ASSUME VoicesOK, Next
  PROVE  VoicesOK'
<1>1. CASE \E p \in Params, v \in Values : MoveSlider(p, v)
  <2>1. PICK p \in Params, v \in Values : MoveSlider(p, v)
    BY <1>1
  <2>2. VoiceParams(sliders, p, v) \in Voices
    BY DEF VoiceParams, VoicesOK, Voices
  <2>3. sliders' \in Voices
    BY <2>1 DEF MoveSlider, VoicesOK, Voices
  <2> QED BY <2>1, <2>2, <2>3, PublishOK DEF MoveSlider, VoicesOK
<1>2. CASE (\E p \in Presets : ClickPreset(p))
           \/ \E op \in {"Start", "Stop", "Set"} : ClickButton(op)
  BY <1>2 DEF ClickPreset, ClickButton, VoicesOK
<1>3. CASE ReceiveStart \/ ReceiveStop \/ ReceiveSet \/ ReceivePreset
  BY <1>3 DEF ReceiveStart, ReceiveStop, ReceiveSet, ReceivePreset, VoicesOK
<1>4. CASE DropStreams \/ JoinAndClear \/ Spawn \/ Open \/ BuildFails
  BY <1>4 DEF DropStreams, JoinAndClear, Spawn, Open, BuildFails, VoicesOK
<1>5. CASE Resolve
  BY <1>5, DefaultType DEF Resolve, VoicesOK
<1>6. CASE Wake \/ Block \/ Drained
  BY <1>6 DEF Wake, Block, Drained, VoicesOK
<1> QED BY <1>1, <1>2, <1>3, <1>4, <1>5, <1>6 DEF Next, ShellStep, EngineStep

LEMMA SendOK ==
  ASSUME CommandsOK, NEW c \in Commands, Send(c)
  PROVE  CommandsOK'
BY DEF CommandsOK, Send

LEMMA ReceiveOK ==
  ASSUME CommandsOK, Receive
  PROVE  CommandsOK' /\ Head(cmds) \in Commands
<1>1. cmds \in Seq(Commands) /\ cmds # <<>> /\ Len(cmds) <= MaxCommands
      /\ cmds' = Tail(cmds)
  BY DEF CommandsOK, Receive
<1>2. Tail(cmds) \in Seq(Commands) /\ Head(cmds) \in Commands
      /\ Len(Tail(cmds)) = Len(cmds) - 1
  BY <1>1
<1>3. Len(cmds) \in Nat
  BY <1>1
<1> QED BY <1>1, <1>2, <1>3 DEF CommandsOK

LEMMA CommandsStep ==
  ASSUME CommandsOK, Next
  PROVE  CommandsOK'
<1>1. CASE \E p \in Params, v \in Values : MoveSlider(p, v)
  BY <1>1 DEF MoveSlider, CommandsOK
<1>2. CASE \E p \in Presets : ClickPreset(p)
  <2>1. PICK p \in Presets : ClickPreset(p)
    BY <1>2
  <2>2. [op |-> "SetPreset", preset |-> p] \in Commands
    BY DEF Commands
  <2> QED BY <2>1, <2>2, SendOK DEF ClickPreset
<1>3. CASE \E op \in {"Start", "Stop", "Set"} : ClickButton(op)
  <2>1. PICK op \in {"Start", "Stop", "Set"} : ClickButton(op)
    BY <1>3
  <2>2. [op |-> op] \in Commands
    BY DEF Commands
  <2> QED BY <2>1, <2>2, SendOK DEF ClickButton
<1>4. CASE ReceiveStart \/ ReceiveStop \/ ReceiveSet \/ ReceivePreset
  BY <1>4, ReceiveOK DEF ReceiveStart, ReceiveStop, ReceiveSet, ReceivePreset
<1>5. CASE DropStreams \/ JoinAndClear \/ Resolve \/ Spawn \/ Open \/ BuildFails
  BY <1>5 DEF DropStreams, JoinAndClear, Resolve, Spawn, Open, BuildFails, CommandsOK
<1>6. CASE Wake \/ Block \/ Drained
  BY <1>6 DEF Wake, Block, Drained, CommandsOK
<1> QED BY <1>1, <1>2, <1>3, <1>4, <1>5, <1>6 DEF Next, ShellStep, EngineStep

LEMMA PositionsStep ==
  ASSUME PositionsOK, Next
  PROVE  PositionsOK'
<1> USE DEF PositionsOK, Goto, Teardown
<1>1. CASE ShellStep
  BY <1>1 DEF ShellStep, MoveSlider, ClickPreset, ClickButton
<1>2. CASE ReceiveStart \/ ReceiveStop \/ ReceiveSet \/ ReceivePreset
  BY <1>2 DEF ReceiveStart, ReceiveStop, ReceiveSet, ReceivePreset
<1>3. CASE DropStreams \/ JoinAndClear \/ Resolve \/ Spawn \/ Open
  BY <1>3 DEF DropStreams, JoinAndClear, Resolve, Spawn, Open
<1>4. CASE BuildFails
  BY <1>4 DEF BuildFails, Orphan
<1>5. CASE Wake \/ Block \/ Drained
  BY <1>5 DEF Wake, Block, Drained
<1> QED BY <1>1, <1>2, <1>3, <1>4, <1>5 DEF Next, EngineStep

LEMMA PresetsStep ==
  ASSUME CommandsOK, PresetsOK, Next
  PROVE  PresetsOK'
<1> USE DEF PresetsOK
<1>1. CASE ShellStep
  BY <1>1 DEF ShellStep, MoveSlider, ClickPreset, ClickButton
<1>2. CASE ReceiveStart \/ ReceiveStop \/ ReceiveSet
  BY <1>2 DEF ReceiveStart, ReceiveStop, ReceiveSet
<1>3. CASE ReceivePreset
  <2>1. Head(cmds) \in Commands /\ Head(cmds).op = "SetPreset"
    BY <1>3, ReceiveOK DEF ReceivePreset
  <2>2. Head(cmds).preset \in Presets
    BY <2>1 DEF Commands
  <2>3. <<Head(cmds).preset>> \in Seq(Presets) /\ Len(<<Head(cmds).preset>>) = 1
    BY <2>2
  <2>4. CASE preset_tx = "current" /\ preset_rx = <<>>
    <3>1. preset_rx' = <<Head(cmds).preset>> /\ accepted' = Head(cmds).preset
          /\ UNCHANGED <<current_preset, stretch>>
      BY <1>3, <2>4 DEF ReceivePreset, Offer
    <3> QED BY <2>2, <2>3, <3>1
  <2>5. CASE ~(preset_tx = "current" /\ preset_rx = <<>>)
    BY <1>3, <2>5 DEF ReceivePreset, Offer
  <2> QED BY <2>4, <2>5
<1>4. CASE DropStreams \/ JoinAndClear \/ Resolve \/ Open \/ BuildFails
  BY <1>4 DEF DropStreams, JoinAndClear, Resolve, Open, BuildFails
<1>5. CASE Spawn
  BY <1>5 DEF Spawn
<1>6. CASE Wake
  <2>1. CASE preset_rx = <<>>
    BY <1>6, <2>1 DEF Wake
  <2>2. CASE preset_rx # <<>>
    <3>1. preset_rx' = <<>> /\ stretch' = Head(preset_rx)
          /\ UNCHANGED <<current_preset, accepted>>
      BY <1>6, <2>2 DEF Wake
    <3>2. Head(preset_rx) \in Presets
      BY <2>2
    <3> QED BY <3>1, <3>2
  <2> QED BY <2>1, <2>2
<1>7. CASE Block \/ Drained
  BY <1>7 DEF Block, Drained
<1> QED BY <1>1, <1>2, <1>3, <1>4, <1>5, <1>6, <1>7 DEF Next, EngineStep

LEMMA FlagsStep ==
  ASSUME FlagsOK, Next
  PROVE  FlagsOK'
<1> USE DEF FlagsOK
<1>1. CASE ShellStep
  BY <1>1, Zenon DEF ShellStep, MoveSlider, ClickPreset, ClickButton, Publish
<1>2. CASE ReceiveStart \/ ReceiveStop \/ ReceiveSet \/ ReceivePreset
  BY <1>2, Zenon DEF ReceiveStart, ReceiveStop, ReceiveSet, ReceivePreset
<1>3. CASE DropStreams \/ JoinAndClear \/ Resolve \/ Spawn \/ Open \/ BuildFails
  BY <1>3, Zenon DEF DropStreams, JoinAndClear, Resolve, Spawn, Open, BuildFails
<1>4. CASE Wake \/ Block \/ Drained
  BY <1>4, Zenon DEF Wake, Block, Drained
<1> QED BY <1>1, <1>2, <1>3, <1>4 DEF Next, EngineStep

LEMMA SmoothedStep ==
  ASSUME smoothed \in [Params -> Levels], Next
  PROVE  smoothed' \in [Params -> Levels]
<1>1. CASE ShellStep
  BY <1>1 DEF ShellStep, MoveSlider, ClickPreset, ClickButton
<1>2. CASE ReceiveStart \/ ReceiveStop \/ ReceiveSet \/ ReceivePreset
  BY <1>2 DEF ReceiveStart, ReceiveStop, ReceiveSet, ReceivePreset
<1>3. CASE DropStreams \/ JoinAndClear \/ Resolve \/ Open \/ BuildFails
  BY <1>3 DEF DropStreams, JoinAndClear, Resolve, Open, BuildFails
<1>4. CASE Spawn
  BY <1>4, DefaultType DEF Spawn
<1>5. CASE Wake \/ Block \/ Drained
  BY <1>5, Zenon DEF Wake, Block, Drained
<1> QED BY <1>1, <1>2, <1>3, <1>4, <1>5 DEF Next, EngineStep

-----------------------------------------------------------------------------
(* The two ways to the worker.                                             *)

LEMMA PublishSyncs ==
  ASSUME VoicesOK, PublishSyncsAll, Next
  PROVE  PublishSyncsAll'
<1> USE DEF PublishSyncsAll
<1>1. CASE \E p \in Params, v \in Values : MoveSlider(p, v)
  <2>1. PICK p \in Params, v \in Values : MoveSlider(p, v)
    BY <1>1
  <2>2. sliders' = VoiceParams(sliders, p, v) /\ snap_in' = snap_in
    BY <2>1 DEF MoveSlider, VoiceParams
  <2>3. snap_in = "current" => buffer' = VoiceParams(sliders, p, v)
    BY <2>1 DEF MoveSlider, Publish
  <2> QED BY <2>2, <2>3
<1>2. CASE (\E p \in Presets : ClickPreset(p))
           \/ \E op \in {"Start", "Stop", "Set"} : ClickButton(op)
  BY <1>2 DEF ClickPreset, ClickButton
<1>3. CASE ReceiveStart \/ ReceiveStop \/ ReceiveSet \/ ReceivePreset
  BY <1>3 DEF ReceiveStart, ReceiveStop, ReceiveSet, ReceivePreset
<1>4. CASE JoinAndClear \/ Resolve \/ BuildFails
  BY <1>4, Zenon DEF JoinAndClear, Resolve, BuildFails
<1>5. CASE DropStreams \/ Spawn \/ Open
  BY <1>5 DEF DropStreams, Spawn, Open
<1>6. CASE Wake \/ Block \/ Drained
  BY <1>6 DEF Wake, Block, Drained
<1> QED BY <1>1, <1>2, <1>3, <1>4, <1>5, <1>6 DEF Next, ShellStep, EngineStep

LEMMA ChannelStep ==
  ASSUME ChannelHoldsAccepted, Next
  PROVE  ChannelHoldsAccepted'
<1> USE DEF ChannelHoldsAccepted
<1>1. CASE ShellStep
  BY <1>1 DEF ShellStep, MoveSlider, ClickPreset, ClickButton
<1>2. CASE ReceiveStart \/ ReceiveStop \/ ReceiveSet
  BY <1>2 DEF ReceiveStart, ReceiveStop, ReceiveSet
<1>3. CASE ReceivePreset
  BY <1>3 DEF ReceivePreset, Offer
<1>4. CASE DropStreams \/ Resolve \/ Open
  BY <1>4 DEF DropStreams, Resolve, Open
<1>5. CASE JoinAndClear \/ Spawn
  BY <1>5 DEF JoinAndClear, Spawn
<1>6. CASE BuildFails
  BY <1>6 DEF BuildFails, Orphan
<1>7. CASE Wake
  BY <1>7 DEF Wake
<1>8. CASE Block \/ Drained
  BY <1>8 DEF Block, Drained
<1> QED BY <1>1, <1>2, <1>3, <1>4, <1>5, <1>6, <1>7, <1>8 DEF Next, EngineStep

-----------------------------------------------------------------------------
LEMMA InitIInv == Init => IInv
<1> SUFFICES ASSUME Init PROVE IInv
  OBVIOUS
<1>1. VoicesOK /\ CommandsOK /\ PositionsOK /\ PresetsOK /\ smoothed \in [Params -> Levels]
  BY DefaultType DEF Init, VoicesOK, CommandsOK, PositionsOK, PresetsOK
<1>2. FlagsOK
  BY Zenon DEF Init, FlagsOK
<1>3. PublishSyncsAll /\ ChannelHoldsAccepted
  BY DEF Init, PublishSyncsAll, ChannelHoldsAccepted
<1> QED BY <1>1, <1>2, <1>3, TypeParts DEF IInv

LEMMA NextIInv == IInv /\ [Next]_vars => IInv'
<1> SUFFICES ASSUME IInv, [Next]_vars PROVE IInv'
  OBVIOUS
<1>1. CASE Next
  <2>1. VoicesOK /\ CommandsOK /\ PositionsOK /\ PresetsOK /\ FlagsOK
        /\ smoothed \in [Params -> Levels]
    BY TypeParts DEF IInv
  <2>2. VoicesOK' /\ CommandsOK' /\ PositionsOK' /\ PresetsOK' /\ FlagsOK'
        /\ smoothed' \in [Params -> Levels]
    BY <1>1, <2>1, VoicesStep, CommandsStep, PositionsStep, PresetsStep, FlagsStep,
       SmoothedStep
  <2>3. TypeOK'
    BY <2>2 DEF TypeOK, VoicesOK, CommandsOK, PositionsOK, PresetsOK, FlagsOK
  <2>4. PublishSyncsAll' /\ ChannelHoldsAccepted'
    BY <1>1, <2>1, PublishSyncs, ChannelStep DEF IInv
  <2> QED BY <2>3, <2>4 DEF IInv
<1>2. CASE UNCHANGED vars
  BY <1>2 DEF vars, IInv, TypeOK, PublishSyncsAll, ChannelHoldsAccepted
<1> QED BY <1>1, <1>2

LEMMA IInvCorrect == Spec => []IInv
BY InitIInv, NextIInv, PTL DEF Spec

(* Every variable keeps its type; the preset channel never holds two.      *)
THEOREM TypeCorrect == Spec => []TypeOK
<1>1. IInv => TypeOK
  BY DEF IInv
<1> QED BY <1>1, IInvCorrect, PTL

(* One drag after a build carries every slider into the new buffer.        *)
THEOREM OneDragSyncsAll == Spec => []PublishSyncsAll
<1>1. IInv => PublishSyncsAll
  BY DEF IInv
<1> QED BY <1>1, IInvCorrect, PTL

(* A worker never plays a preset that was offered to another one.          *)
THEOREM PresetOfItsOwn == Spec => []AcceptedPresetPlays
<1>1. IInv => AcceptedPresetPlays
  BY DEF IInv, ChannelHoldsAccepted, AcceptedPresetPlays
<1> QED BY <1>1, IInvCorrect, PTL

=============================================================================
