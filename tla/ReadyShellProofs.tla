-------------------------- MODULE ReadyShellProofs --------------------------
(***************************************************************************)
(* Proofs about EngineLoop, whoever sends it commands, and about           *)
(* ReadyShell, which drives it: for every set of devices and selections,   *)
(* every capacity of the error rings and every bound on what is in flight. *)
(* The shell takes the engine's invariants over: whatever it does is a     *)
(* step of the engine's environment.                                       *)
(***************************************************************************)

EXTENDS ReadyShell, FiniteSetTheorems, WellFoundedInduction, TLAPS

USE LoopAssumption

(* The groups UNCHANGED lists name. *)
USE DEF channels, running, slots, banners

-----------------------------------------------------------------------------
(* Types. *)

LEMMA NoErrorsType ==
  /\ NoErrors \in [Rings -> Seq(Errors)]
  /\ \A r \in Rings : Len(NoErrors[r]) <= ErrCap
BY DEF NoErrors

LEMMA EmitType ==
  ASSUME NEW s \in Seq(Events), evts \in Seq(Events), Emit(s)
  PROVE  evts' \in Seq(Events)
BY DEF Emit

LEMMA EmitOne ==
  ASSUME NEW e \in Events, evts \in Seq(Events), Emit(<<e>>)
  PROVE  evts' \in Seq(Events)
<1>1. <<e>> \in Seq(Events)
  OBVIOUS
<1> QED BY <1>1, EmitType

LEMMA DrainType ==
  ASSUME DataOK, Drain
  PROVE  evts' \in Seq(Events) /\ errs' = NoErrors
<1>1. errs["capture"] \in Seq(Errors) /\ errs["vout"] \in Seq(Errors)
  BY DEF DataOK, Rings
<1>2. errs["capture"] \o errs["vout"] \in Seq(Errors)
  BY <1>1
<1>3. errs["capture"] \o errs["vout"] \in Seq(Events)
  BY <1>2 DEF Events
<1> QED BY <1>3, EmitType DEF DataOK, Drain

LEMMA StartFailsData ==
  ASSUME DataOK, StartFails
  PROVE  /\ evts' \in Seq(Events)
         /\ pc' = "recv" /\ announced' = "StartFailed"
         /\ playing' \subseteq Rings
         /\ built' \in [Sides -> Selections]
         /\ errs' \in [Rings -> Seq(Errors)]
         /\ \A r \in Rings : Len(errs'[r]) <= ErrCap
         /\ UNCHANGED <<cmds, after, selected>>
<1>1. built' \in [Sides -> Selections]
  BY DEF StartFails, NotBuilt, Selections
<1>2. evts' \in Seq(Events)
  <2>1. "DeviceFault" \in Events
    BY DEF Events, Errors
  <2> QED BY <2>1, EmitOne DEF DataOK, StartFails
<1> QED BY <1>1, <1>2, NoErrorsType DEF StartFails

LEMMA InitType == Init => TypeOK
<1> SUFFICES ASSUME Init PROVE TypeOK
  OBVIOUS
<1>1. FlagsOK
  BY Zenon DEF Init, FlagsOK
<1>2. built \in [Sides -> Selections]
  BY DEF Init, NotBuilt, Selections
<1>3. cmds \in Seq(Commands) /\ evts \in Seq(Events)
  BY DEF Init
<1>4. DataOK
  BY <1>2, <1>3, NoErrorsType DEF Init, DataOK
<1> QED BY <1>1, <1>4 DEF TypeOK

LEMMA EnvironmentData ==
  ASSUME DataOK, EnvironmentStep
  PROVE  DataOK'
<1>1. CASE \E c \in Commands : SendCommand(c)
  BY <1>1 DEF DataOK, SendCommand
<1>2. CASE ReceiveEvent
  BY <1>2 DEF DataOK, ReceiveEvent
<1>3. CASE CloseHandle
  BY <1>3 DEF DataOK, CloseHandle
<1>4. CASE \E r \in Rings, e \in Errors : StreamError(r, e)
  <2> PICK r \in Rings, e \in Errors : StreamError(r, e)
    BY <1>4
  <2>1. CASE Len(errs[r]) < ErrCap
    <3>1. errs' = [errs EXCEPT ![r] = Append(@, e)]
      BY <2>1 DEF StreamError
    <3>2. Append(errs[r], e) \in Seq(Errors) /\ Len(Append(errs[r], e)) <= ErrCap
      BY <2>1 DEF DataOK
    <3> QED BY <3>1, <3>2 DEF DataOK, StreamError
  <2>2. CASE ~(Len(errs[r]) < ErrCap)
    BY <2>2 DEF DataOK, StreamError
  <2> QED BY <2>1, <2>2
<1>5. CASE WorkerTakesPreset
  BY <1>5 DEF DataOK, WorkerTakesPreset
<1> QED BY <1>1, <1>2, <1>3, <1>4, <1>5 DEF EnvironmentStep

LEMMA EngineData ==
  ASSUME DataOK, EngineStep
  PROVE  DataOK'
<1>1. CASE ReceiveCommand
  <2>1. Head(cmds) \in Commands /\ cmds' \in Seq(Commands)
    BY <1>1 DEF DataOK, ReceiveCommand
  <2>2. selected' \in [Sides -> Selections]
    BY <1>1, <2>1 DEF DataOK, ReceiveCommand, Select, Commands, SetDevice
  <2>3. /\ pc' \in BuildStages \union {"recv", "preset", "drop", "join", "exited"}
        /\ after' \in {"build", "stopped", "quiet", "exit", "exitquiet"}
    BY <1>1
    DEF DataOK, ReceiveCommand, Dispatch, OnStart, OnStop, OnSet, Teardown, Goto, BuildStages
  <2>4. evts' \in Seq(Events) /\ errs' = NoErrors
    BY <1>1, DrainType DEF ReceiveCommand, DrainOnReceive
  <2> QED
    BY <1>1, <2>1, <2>2, <2>3, <2>4, NoErrorsType
    DEF DataOK, ReceiveCommand, RunningKept
<1>2. CASE ReceiveTimeout
  BY <1>2, DrainType, NoErrorsType DEF DataOK, ReceiveTimeout, RunningKept
<1>3. CASE ReceiveDisconnected
  BY <1>3, DrainType, NoErrorsType
  DEF DataOK, ReceiveDisconnected, RunningKept, Teardown
<1>4. CASE HandleSetPreset
  BY <1>4 DEF DataOK, HandleSetPreset
<1>5. CASE DropStreams
  BY <1>5 DEF DataOK, DropStreams, NotBuilt, Selections
<1>6. CASE FinishTeardown
  <2>1. evts' \in Seq(Events) /\ announced' \in {announced, "Stopped"}
    <3>1. "Stopped" \in Events
      BY DEF Events
    <3> QED BY <1>6, <3>1, EmitOne DEF DataOK, FinishTeardown, FollowUp
  <2> QED
    BY <1>6, <2>1, NoErrorsType
    DEF DataOK, FinishTeardown, ClearSlots, BuildStages
<1>7. CASE ResolveFails
  BY <1>7, StartFailsData DEF DataOK, ResolveFails
<1>8. CASE Resolve
  BY <1>8 DEF DataOK, Resolve, Stage, BuildStages
<1>9. CASE SpawnFails
  BY <1>9, StartFailsData DEF DataOK, SpawnFails
<1>10. CASE Spawn
  BY <1>10 DEF DataOK, Spawn, Stage, BuildStages
<1>11. CASE OpenFails
  BY <1>11, StartFailsData DEF DataOK, OpenFails
<1>12. CASE PickConfig
  BY <1>12 DEF DataOK, PickConfig, Stage, BuildStages
<1>13. CASE OpenCapture
  BY <1>13 DEF DataOK, OpenCapture, OpenStream, Stage, BuildStages, Rings
<1>14. CASE OpenVirtualOut
  BY <1>14 DEF DataOK, OpenVirtualOut, OpenStream, Stage, BuildStages, Rings
<1>15. CASE Stash
  <2>1. evts' \in Seq(Events)
    <3>1. "Started" \in Events
      BY DEF Events
    <3> QED BY <1>15, <3>1, EmitOne DEF DataOK, Stash
  <2> QED BY <1>15, <2>1 DEF DataOK, Stash, Stage
<1> QED BY <1>1, <1>2, <1>3, <1>4, <1>5, <1>6, <1>7, <1>8, <1>9, <1>10,
           <1>11, <1>12, <1>13, <1>14, <1>15 DEF EngineStep

LEMMA FlagsStep ==
  ASSUME FlagsOK, Next
  PROVE  FlagsOK'
<1>1. CASE EnvironmentStep
  <2>1. CASE \E c \in Commands : SendCommand(c)
    BY <2>1, Zenon DEF FlagsOK, SendCommand
  <2>2. CASE \E r \in Rings, e \in Errors : StreamError(r, e)
    BY <2>2, Zenon DEF FlagsOK, StreamError
  <2>3. CASE ReceiveEvent \/ CloseHandle \/ WorkerTakesPreset
    BY <2>3, Zenon DEF FlagsOK, ReceiveEvent, CloseHandle, WorkerTakesPreset
  <2> QED BY <1>1, <2>1, <2>2, <2>3 DEF EnvironmentStep
<1>2. CASE EngineStep
  <2>1. CASE ReceiveCommand \/ ReceiveTimeout \/ ReceiveDisconnected
    BY <2>1, Zenon DEF FlagsOK, ReceiveCommand, ReceiveTimeout, ReceiveDisconnected,
       Drain, DrainOnReceive, RunningKept
  <2>2. CASE HandleSetPreset \/ DropStreams \/ FinishTeardown
    BY <2>2, Zenon DEF FlagsOK, HandleSetPreset, DropStreams, FinishTeardown, ClearSlots
  <2>3. CASE ResolveFails \/ SpawnFails \/ OpenFails
    BY <2>3, Zenon DEF FlagsOK, ResolveFails, SpawnFails, OpenFails, StartFails
  <2>4. CASE Resolve \/ Spawn \/ PickConfig
    BY <2>4, Zenon DEF FlagsOK, Resolve, Spawn, PickConfig
  <2>5. CASE OpenCapture \/ OpenVirtualOut \/ Stash
    BY <2>5, Zenon DEF FlagsOK, OpenCapture, OpenVirtualOut, OpenStream, Stash
  <2> QED BY <1>2, <2>1, <2>2, <2>3, <2>4, <2>5 DEF EngineStep
<1> QED BY <1>1, <1>2 DEF Next

LEMMA TypeStep == TypeOK /\ [Next]_vars => TypeOK'
<1> SUFFICES ASSUME TypeOK, [Next]_vars PROVE TypeOK'
  OBVIOUS
<1>1. CASE Next
  BY <1>1, FlagsStep, EnvironmentData, EngineData DEF TypeOK, Next
<1>2. CASE UNCHANGED vars
  <2>1. FlagsOK'
    BY <1>2, Zenon DEF TypeOK, FlagsOK, vars
  <2>2. DataOK'
    BY <1>2 DEF TypeOK, DataOK, vars
  <2> QED BY <2>1, <2>2 DEF TypeOK
<1> QED BY <1>1, <1>2

-----------------------------------------------------------------------------
(* Positions. *)

LEMMA EnvironmentPositions ==
  ASSUME IInv, EnvironmentStep
  PROVE  Positions' /\ SlotPositions' /\ BuiltPositions'
<1> USE DEF IInv
<1>1. CASE \E c \in Commands : SendCommand(c)
  BY <1>1 DEF Positions, SlotPositions, BuiltPositions, SendCommand, NoErrors
<1>2. CASE ReceiveEvent
  BY <1>2 DEF Positions, SlotPositions, BuiltPositions, ReceiveEvent, NoErrors
<1>3. CASE CloseHandle
  BY <1>3 DEF Positions, SlotPositions, BuiltPositions, CloseHandle, NoErrors
<1>4. CASE \E r \in Rings, e \in Errors : StreamError(r, e)
  BY <1>4 DEF Positions, SlotPositions, BuiltPositions, StreamError, NoErrors
<1>5. CASE WorkerTakesPreset
  BY <1>5 DEF Positions, SlotPositions, BuiltPositions, WorkerTakesPreset, NoErrors
<1> QED BY <1>1, <1>2, <1>3, <1>4, <1>5 DEF EnvironmentStep

LEMMA EnginePositions ==
  ASSUME IInv, EngineStep
  PROVE  Positions' /\ SlotPositions' /\ BuiltPositions'
<1> USE DEF IInv, Positions, SlotPositions, BuiltPositions
<1>1. CASE ReceiveCommand
  BY <1>1 DEF ReceiveCommand, DrainOnReceive, Drain, Dispatch, OnStart, OnStop, OnSet,
     Teardown, Goto, Select, RunningKept, BuildStages
<1>2. CASE ReceiveTimeout
  BY <1>2 DEF ReceiveTimeout, Drain, RunningKept, BuildStages
<1>3. CASE ReceiveDisconnected
  BY <1>3 DEF ReceiveDisconnected, Drain, RunningKept, Teardown, BuildStages
<1>4. CASE HandleSetPreset
  BY <1>4 DEF HandleSetPreset, BuildStages, NoErrors
<1>5. CASE DropStreams
  BY <1>5 DEF DropStreams, BuildStages, NoErrors
<1>6. CASE FinishTeardown
  <2>1. ~streams /\ streams' = FALSE /\ worker' = FALSE
    BY <1>6, Zenon DEF FinishTeardown, TypeOK, FlagsOK
  <2>2. pc' \in {"recv", "resolve", "exited"}
    BY <1>6 DEF FinishTeardown
  <2>3. Positions'
    BY <1>6, <2>1, <2>2 DEF FinishTeardown
  <2>4. SlotPositions' /\ BuiltPositions'
    BY <1>6, <2>1, <2>2 DEF FinishTeardown, ClearSlots, BuildStages
  <2> QED BY <2>3, <2>4
<1>7. CASE ResolveFails
  BY <1>7 DEF ResolveFails, StartFails, BuildStages
<1>8. CASE Resolve
  BY <1>8 DEF Resolve, Stage, BuildStages, NoErrors
<1>9. CASE SpawnFails
  BY <1>9 DEF SpawnFails, StartFails, BuildStages
<1>10. CASE Spawn
  BY <1>10 DEF Spawn, Stage, BuildStages, NoErrors
<1>11. CASE OpenFails
  BY <1>11 DEF OpenFails, StartFails, BuildStages
<1>12. CASE PickConfig
  BY <1>12 DEF PickConfig, Stage, BuildStages, NoErrors
<1>13. CASE OpenCapture
  BY <1>13 DEF OpenCapture, OpenStream, Stage, BuildStages, NoErrors
<1>14. CASE OpenVirtualOut
  BY <1>14 DEF OpenVirtualOut, OpenStream, Stage, BuildStages, NoErrors, Rings
<1>15. CASE Stash
  BY <1>15 DEF Stash, Stage, BuildStages, NoErrors
<1> QED BY <1>1, <1>2, <1>3, <1>4, <1>5, <1>6, <1>7, <1>8, <1>9, <1>10,
           <1>11, <1>12, <1>13, <1>14, <1>15 DEF EngineStep

-----------------------------------------------------------------------------
(* Faults. *)

LEMMA NoFaultInNoErrors == errs = NoErrors => ~FaultQueued
BY DEF FaultQueued, NoErrors

LEMMA NoFaultInNoErrorsPrimed == errs' = NoErrors => ~FaultQueued'
BY DEF FaultQueued, NoErrors

LEMMA FaultQueuedKept == UNCHANGED errs => (FaultQueued' <=> FaultQueued)
BY DEF FaultQueued

(* A report either joins its ring or leaves the rings as they are. *)
LEMMA ReportQueued ==
  ASSUME DataOK, NEW r \in Rings, NEW e \in Errors,
         errs' = [errs EXCEPT ![r] = Append(@, e)]
  PROVE  FaultQueued' <=> FaultQueued \/ e = "DeviceFault"
<1>1. errs[r] \in Seq(Errors) /\ Len(errs[r]) \in Nat
  BY DEF DataOK
<1>2. /\ errs'[r] = Append(errs[r], e)
      /\ \A q \in Rings \ {r} : errs'[q] = errs[q]
  BY DEF DataOK
<1>3. /\ Len(errs'[r]) = Len(errs[r]) + 1
      /\ errs'[r][Len(errs[r]) + 1] = e
      /\ \A i \in 1..Len(errs[r]) : errs'[r][i] = errs[r][i]
  BY <1>1, <1>2
<1>4. ASSUME FaultQueued PROVE FaultQueued'
  <2>1. PICK q \in Rings : \E i \in 1..Len(errs[q]) : errs[q][i] = "DeviceFault"
    BY <1>4 DEF FaultQueued
  <2>2. PICK i \in 1..Len(errs[q]) : errs[q][i] = "DeviceFault"
    BY <2>1
  <2>3. i \in 1..Len(errs'[q]) /\ errs'[q][i] = "DeviceFault"
    BY <1>1, <1>2, <1>3, <2>2
  <2> QED BY <2>3 DEF FaultQueued
<1>5. ASSUME e = "DeviceFault" PROVE FaultQueued'
  <2>1. Len(errs[r]) + 1 \in 1..Len(errs'[r])
    BY <1>1, <1>3
  <2> QED BY <1>3, <1>5, <2>1 DEF FaultQueued
<1>6. ASSUME FaultQueued', e # "DeviceFault" PROVE FaultQueued
  <2>1. PICK q \in Rings : \E i \in 1..Len(errs'[q]) : errs'[q][i] = "DeviceFault"
    BY <1>6 DEF FaultQueued
  <2>2. PICK i \in 1..Len(errs'[q]) : errs'[q][i] = "DeviceFault"
    BY <2>1
  <2>3. i \in 1..Len(errs[q]) /\ errs[q][i] = "DeviceFault"
    BY <1>1, <1>2, <1>3, <1>6, <2>2
  <2> QED BY <2>3 DEF FaultQueued
<1> QED BY <1>4, <1>5, <1>6

LEMMA EnvironmentFaults ==
  ASSUME IInv, EnvironmentStep
  PROVE  FaultPositions'
<1> USE DEF IInv, FaultPositions, BannerTellsFault
<1>1. CASE \E c \in Commands : SendCommand(c)
  <2>1. UNCHANGED <<pc, streams, faulted, disconnected, errs>>
    BY <1>1 DEF SendCommand
  <2> QED BY <2>1, FaultQueuedKept
<1>2. CASE ReceiveEvent \/ CloseHandle \/ WorkerTakesPreset
  <2>1. UNCHANGED <<pc, streams, faulted, disconnected, errs>>
    BY <1>2 DEF ReceiveEvent, CloseHandle, WorkerTakesPreset
  <2> QED BY <2>1, FaultQueuedKept
<1>3. CASE \E r \in Rings, e \in Errors : StreamError(r, e)
  <2> PICK r \in Rings, e \in Errors : StreamError(r, e)
    BY <1>3
  <2>1. streams \/ pc \in {"vout", "stash"}
    BY DEF Positions, StreamError
  <2>2. CASE Len(errs[r]) < ErrCap
    <3>1. errs' = [errs EXCEPT ![r] = Append(@, e)]
      BY <2>2, Zenon DEF StreamError
    <3>2. FaultQueued' <=> FaultQueued \/ e = "DeviceFault"
      BY <3>1, ReportQueued DEF TypeOK
    <3>3. faulted' <=> faulted \/ e = "DeviceFault"
      BY <2>2, Zenon DEF StreamError
    <3>4. UNCHANGED <<pc, streams, disconnected>>
      BY DEF StreamError
    <3> QED BY <2>1, <3>2, <3>3, <3>4, Zenon
  <2>3. CASE ~(Len(errs[r]) < ErrCap)
    BY <2>3, FaultQueuedKept, Zenon DEF StreamError
  <2> QED BY <2>2, <2>3
<1> QED BY <1>1, <1>2, <1>3 DEF EnvironmentStep

LEMMA EngineFaults ==
  ASSUME IInv, EngineStep
  PROVE  FaultPositions'
<1> USE DEF IInv, FaultPositions, BannerTellsFault
<1>1. CASE ReceiveCommand \/ ReceiveTimeout \/ ReceiveDisconnected
  <2>1. /\ ~FaultQueued'
        /\ disconnected' <=> disconnected \/ FaultQueued
        /\ UNCHANGED <<streams, faulted>>
    BY <1>1, NoFaultInNoErrorsPrimed, Zenon
    DEF ReceiveCommand, ReceiveTimeout, ReceiveDisconnected, DrainOnReceive, Drain, RunningKept
  <2>2. pc = "recv" /\ pc' \notin {"vout", "stash"}
    BY <1>1
    DEF ReceiveCommand, ReceiveTimeout, ReceiveDisconnected, Dispatch, OnStart, OnStop,
        OnSet, Teardown, Goto
  <2>3. faulted => streams
    BY <2>2
  <2> QED BY <2>1, <2>2, <2>3, Zenon
<1>2. CASE HandleSetPreset
  <2>1. pc = "preset" /\ pc' = "recv" /\ UNCHANGED <<streams, faulted, disconnected, errs>>
    BY <1>2 DEF HandleSetPreset
  <2> QED BY <2>1, FaultQueuedKept
<1>3. CASE DropStreams
  BY <1>3 DEF DropStreams
<1>4. CASE FinishTeardown
  <2>1. pc = "join" /\ pc' \in {"recv", "resolve", "exited"} /\ UNCHANGED <<streams, faulted>>
    BY <1>4 DEF FinishTeardown
  <2>2. ~streams
    BY <2>1 DEF Positions
  <2> QED BY <2>1, <2>2
<1>5. CASE ResolveFails \/ SpawnFails \/ OpenFails
  <2>1. pc \in {"resolve", "spawn", "config", "capture", "vout"}
    BY <1>5 DEF ResolveFails, SpawnFails, OpenFails
  <2>2. pc' = "recv" /\ faulted' = FALSE /\ UNCHANGED streams
    BY <1>5 DEF ResolveFails, SpawnFails, OpenFails, StartFails
  <2>3. ~streams
    BY <2>1 DEF Positions
  <2> QED BY <2>2, <2>3
<1>6. CASE Resolve \/ Spawn \/ PickConfig
  <2>1. pc \in {"resolve", "spawn", "config"} /\ pc' \in {"spawn", "config", "capture"}
    BY <1>6 DEF Resolve, Spawn, PickConfig, Stage
  <2>2. UNCHANGED <<streams, faulted>>
    BY <1>6 DEF Resolve, Spawn, PickConfig
  <2>3. ~streams
    BY <2>1 DEF Positions
  <2> QED BY <2>1, <2>2, <2>3
<1>7. CASE OpenCapture
  <2>1. pc = "capture" /\ pc' = "vout" /\ UNCHANGED <<streams, faulted, errs>>
    BY <1>7 DEF OpenCapture, OpenStream, Stage
  <2>2. ~streams /\ errs = NoErrors /\ ~faulted
    BY <2>1 DEF Positions
  <2> QED BY <2>1, <2>2, NoFaultInNoErrors, FaultQueuedKept
<1>8. CASE OpenVirtualOut
  <2>1. pc = "vout" /\ pc' = "stash" /\ UNCHANGED <<streams, faulted, errs>>
    BY <1>8 DEF OpenVirtualOut, OpenStream, Stage
  <2>2. ~streams
    BY <2>1 DEF Positions
  <2> QED BY <2>1, <2>2, FaultQueuedKept
<1>9. CASE Stash
  <2>1. /\ pc = "stash" /\ pc' = "recv"
        /\ streams' = TRUE /\ disconnected' = FALSE
        /\ UNCHANGED <<faulted, errs>>
    BY <1>9 DEF Stash, Stage
  <2> QED BY <2>1, FaultQueuedKept
<1> QED BY <1>1, <1>2, <1>3, <1>4, <1>5, <1>6, <1>7, <1>8, <1>9 DEF EngineStep

-----------------------------------------------------------------------------
(* The invariant, and the theorems. *)

LEMMA InitIInv == Init => IInv
<1> SUFFICES ASSUME Init PROVE IInv
  OBVIOUS
<1>1. TypeOK
  BY InitType
<1>2. /\ pc = "recv" /\ streams = FALSE /\ worker = FALSE /\ faulted = FALSE
      /\ playing = {} /\ errs = NoErrors
      /\ ~snap_in /\ ~preset_tx
  BY DEF Init
<1>3. Positions /\ SlotPositions /\ FaultPositions /\ BuiltPositions
  BY <1>2 DEF Positions, SlotPositions, FaultPositions, BuiltPositions,
     BannerTellsFault, BuildStages
<1> QED BY <1>1, <1>3 DEF IInv

LEMMA NextIInv == IInv /\ [Next]_vars => IInv'
<1> SUFFICES ASSUME IInv, [Next]_vars PROVE IInv'
  OBVIOUS
<1>1. TypeOK'
  BY TypeStep DEF IInv
<1>2. CASE EnvironmentStep
  BY <1>1, <1>2, EnvironmentPositions, EnvironmentFaults DEF IInv
<1>3. CASE EngineStep
  BY <1>1, <1>3, EnginePositions, EngineFaults DEF IInv
<1>4. CASE UNCHANGED vars
  <2>1. Positions' /\ SlotPositions' /\ BuiltPositions'
    BY <1>4 DEF IInv, vars, Positions, SlotPositions, BuiltPositions, NoErrors
  <2>2. UNCHANGED <<pc, streams, faulted, disconnected, errs>>
    BY <1>4 DEF vars
  <2>3. FaultPositions'
    BY <2>2, FaultQueuedKept DEF IInv, FaultPositions, BannerTellsFault
  <2> QED BY <1>1, <2>1, <2>3 DEF IInv
<1> QED BY <1>2, <1>3, <1>4 DEF Next

LEMMA IInvCorrect == Spec => []IInv
BY InitIInv, NextIInv, PTL DEF Spec

(* Every variable keeps its type, and no error ring exceeds its capacity. *)
THEOREM TypeCorrect == Spec => []TypeOK
<1>1. IInv => TypeOK
  BY DEF IInv
<1> QED BY <1>1, IInvCorrect, PTL

(* Between commands, streams, worker, devices and error rings agree,       *)
(* running streams have both slots, and a slot without streams was filled  *)
(* by a start that failed.                                                 *)
THEOREM ResourcesAlwaysAgree == Spec => []ResourcesAgree
<1>1. IInv => ResourcesAgree
  BY DEF IInv, Positions, SlotPositions, ResourcesAgree, AtRest
<1> QED BY <1>1, IInvCorrect, PTL

(* The banner and the rings together say whether the running streams have  *)
(* reported a fault.                                                       *)
THEOREM BannerTruthful == Spec => []BannerTellsFault
<1>1. IInv => BannerTellsFault
  BY DEF IInv, FaultPositions
<1> QED BY <1>1, IInvCorrect, PTL

(* Between commands a running engine runs on the selected devices. *)
THEOREM SelectionFollowed == Spec => []SelectionApplied
<1>1. IInv => SelectionApplied
  BY DEF IInv, BuiltPositions, SelectionApplied, AtRest
<1> QED BY <1>1, IInvCorrect, PTL

-----------------------------------------------------------------------------
(* EngineLoop implements EngineLifecycle. *)

LEMMA InitLifecycle == Init => Lifecycle!Init
BY DEF Init, Lifecycle!Init, Phase, TearingDown, BuildStages

LEMMA EnvironmentLifecycle ==
  ASSUME EnvironmentStep
  PROVE  UNCHANGED <<Phase, announced>>
<1>1. UNCHANGED <<pc, after, streams, announced>>
  BY DEF EnvironmentStep, SendCommand, ReceiveEvent, CloseHandle, StreamError, WorkerTakesPreset
<1> QED BY <1>1 DEF Phase, TearingDown

LEMMA EngineLifecycleStep ==
  ASSUME IInv, EngineStep
  PROVE  Lifecycle!Next \/ UNCHANGED <<Phase, announced>>
<1> USE DEF IInv, Positions, Phase, TearingDown, BuildStages
<1>1. CASE ReceiveCommand
  BY <1>1 DEF ReceiveCommand, Dispatch, OnStart, OnStop, OnSet, Teardown, Goto, RunningKept,
     Lifecycle!Next, Lifecycle!Begin, Lifecycle!BeginStop
<1>2. CASE ReceiveTimeout \/ HandleSetPreset
  BY <1>2 DEF ReceiveTimeout, HandleSetPreset, RunningKept
<1>3. CASE ReceiveDisconnected
  BY <1>3 DEF ReceiveDisconnected, Teardown, RunningKept, Lifecycle!Next, Lifecycle!BeginStop
<1>4. CASE DropStreams
  <2>1. pc = "drop" /\ pc' = "join" /\ streams' = FALSE /\ UNCHANGED <<after, announced>>
    BY <1>4 DEF DropStreams
  <2>2. after \in {"build", "stopped", "quiet", "exit", "exitquiet"}
    BY DEF TypeOK, DataOK
  <2> QED BY <2>1, <2>2
<1>5. CASE FinishTeardown
  <2>1. pc = "join" /\ ~streams /\ ~streams'
    BY <1>5 DEF FinishTeardown
  <2>2. CASE after = "build"
    BY <1>5, <2>1, <2>2 DEF FinishTeardown, FollowUp
  <2>3. CASE after \in {"stopped", "exit"}
    BY <1>5, <2>1, <2>3 DEF FinishTeardown, FollowUp, Lifecycle!Next, Lifecycle!Stopped
  <2>4. CASE after \in {"quiet", "exitquiet"}
    BY <1>5, <2>1, <2>4 DEF FinishTeardown, FollowUp, Lifecycle!Next, Lifecycle!Exit
  <2> QED BY <2>2, <2>3, <2>4 DEF TypeOK, DataOK
<1>6. CASE ResolveFails \/ SpawnFails \/ OpenFails
  <2>1. /\ pc \in {"resolve", "spawn", "config", "capture", "vout"}
        /\ pc' = "recv" /\ announced' = "StartFailed" /\ UNCHANGED streams
    BY <1>6 DEF ResolveFails, SpawnFails, OpenFails, StartFails
  <2> QED BY <2>1 DEF Lifecycle!Next, Lifecycle!Fail
<1>7. CASE Resolve \/ Spawn \/ PickConfig \/ OpenCapture \/ OpenVirtualOut
  BY <1>7 DEF Resolve, Spawn, PickConfig, OpenCapture, OpenVirtualOut, OpenStream, Stage
<1>8. CASE Stash
  BY <1>8 DEF Stash, Stage, Lifecycle!Next, Lifecycle!Succeed
<1> QED BY <1>1, <1>2, <1>3, <1>4, <1>5, <1>6, <1>7, <1>8 DEF EngineStep

LEMMA NextLifecycle == IInv /\ [Next]_vars => [Lifecycle!Next]_Lifecycle!vars
<1> SUFFICES ASSUME IInv, [Next]_vars PROVE [Lifecycle!Next]_Lifecycle!vars
  OBVIOUS
<1>1. CASE EnvironmentStep
  BY <1>1, EnvironmentLifecycle DEF Lifecycle!vars
<1>2. CASE EngineStep
  BY <1>2, EngineLifecycleStep DEF Lifecycle!vars
<1>3. CASE UNCHANGED vars
  BY <1>3 DEF vars, Lifecycle!vars, Phase, TearingDown
<1> QED BY <1>1, <1>2, <1>3 DEF Next

(* Every start, stop, rebuild and exit follows the promised lifecycle: each *)
(* is answered by the one announcement that fits it.                       *)
THEOREM ImplementsLifecycle == Spec => LifecycleSafety
BY NextLifecycle, InitLifecycle, IInvCorrect, PTL DEF Spec, LifecycleSafety

-----------------------------------------------------------------------------
(* The engine under the shell. *)

USE DEF shell

(* A frame, a click and the devices are the environment of EngineLoop.     *)
LEMMA ShellNextIsNext == [ShellNext]_allVars => [Next]_vars
<1> SUFFICES ASSUME [ShellNext]_allVars PROVE [Next]_vars
  OBVIOUS
<1>1. CASE FrameReceives \/ CloseWindow \/ EngineMoves
  BY <1>1 DEF FrameReceives, CloseWindow, EngineMoves, Next, EnvironmentStep
<1>2. CASE DevicesMove
  BY <1>2 DEF DevicesMove, Next, EnvironmentStep
<1>3. CASE ClickReconnect \/ ClickButton \/ SelectVoice
  <2>1. \A op \in {"Start", "Stop", "SelectVoice", "SetPreset"} : [op |-> op] \in Commands
    BY DEF Commands
  <2> QED BY <1>3, <2>1 DEF ClickReconnect, ClickButton, SelectVoice, Next, EnvironmentStep
<1>4. CASE \E s \in Sides, name \in Selections : PickDevice(s, name)
  <2>1. \A s \in Sides, name \in Selections :
          [op |-> "Set", side |-> s, name |-> name] \in Commands
    BY DEF Commands, SetDevice
  <2> QED BY <1>4, <2>1 DEF PickDevice, Next, EnvironmentStep
<1>5. CASE UNCHANGED allVars
  BY <1>5 DEF allVars, vars
<1> QED BY <1>1, <1>2, <1>3, <1>4, <1>5 DEF ShellNext

LEMMA EngineKeeps == IInv /\ [ShellNext]_allVars => IInv'
BY ShellNextIsNext, NextIInv

(* What is shown above of the engine alone holds of the engine the         *)
(* shell drives.                                                           *)
THEOREM EngineUnderShell ==
  ShellSpec => [](TypeOK /\ ResourcesAgree /\ BannerTellsFault /\ SelectionApplied)
<1>1. ShellInit => IInv
  BY InitIInv DEF ShellInit
<1>2. IInv => TypeOK /\ BannerTellsFault
  BY DEF IInv, FaultPositions
<1>3. IInv => ResourcesAgree
  BY DEF IInv, Positions, SlotPositions, ResourcesAgree, AtRest
<1>4. IInv => SelectionApplied
  BY DEF IInv, BuiltPositions, SelectionApplied, AtRest
<1> QED BY <1>1, <1>2, <1>3, <1>4, EngineKeeps, PTL DEF ShellSpec

(* And so does its lifecycle, for whatever clicks, frames and devices.      *)
THEOREM LifecycleUnderShell == ShellSpec => LifecycleSafety
<1>1. ShellInit => IInv /\ Lifecycle!Init
  BY InitIInv, InitLifecycle DEF ShellInit
<1> QED
  BY <1>1, EngineKeeps, ShellNextIsNext, NextLifecycle, PTL DEF ShellSpec, LifecycleSafety

LEMMA QueuesTyped == IInv => /\ cmds \in Seq(Commands) /\ evts \in Seq(Events)
                             /\ handle \in BOOLEAN
BY DEF IInv, TypeOK, DataOK, FlagsOK

-----------------------------------------------------------------------------
(* The dismissed banner. *)

LEMMA StartStaysQueued ==
  ASSUME NEW q \in Seq(Commands), NEW c \in Commands, StartQueued(q)
  PROVE  StartQueued(Append(q, c))
<1>1. PICK i \in 1..Len(q) : q[i].op = "Start"
  BY DEF StartQueued
<1>2. i \in 1..Len(Append(q, c)) /\ Append(q, c)[i] = q[i]
  OBVIOUS
<1> QED BY <1>1, <1>2 DEF StartQueued

LEMMA StartIsQueued ==
  ASSUME NEW q \in Seq(Commands)
  PROVE  StartQueued(Append(q, [op |-> "Start"]))
<1> DEFINE c == [op |-> "Start"]
<1>1. Len(q) + 1 \in 1..Len(Append(q, c)) /\ Append(q, c)[Len(q) + 1] = c
  OBVIOUS
<1> QED BY <1>1 DEF StartQueued

LEMMA StartAfterTail ==
  ASSUME NEW q \in Seq(Commands), q # <<>>, StartQueued(q), Head(q).op # "Start"
  PROVE  StartQueued(Tail(q))
<1>1. PICK i \in 1..Len(q) : q[i].op = "Start"
  BY DEF StartQueued
<1>2. i # 1
  BY <1>1
<1>3. i - 1 \in 1..Len(Tail(q)) /\ Tail(q)[i - 1] = q[i]
  BY <1>2
<1> QED BY <1>1, <1>3 DEF StartQueued

LEMMA AnswersStay ==
  ASSUME NEW q \in Seq(Events), NEW r \in Seq(Events), Answered(q)
  PROVE  Answered(q \o r)
<1>1. PICK i \in 1..Len(q) : q[i] # "Stopped"
  BY DEF Answered
<1>2. i \in 1..Len(q \o r) /\ (q \o r)[i] = q[i]
  OBVIOUS
<1> QED BY <1>1, <1>2 DEF Answered

LEMMA AnswerArrives ==
  ASSUME NEW q \in Seq(Events), NEW e \in Events, e # "Stopped"
  PROVE  Answered(q \o <<e>>)
<1>1. <<e>> \in Seq(Events) /\ Len(<<e>>) = 1 /\ <<e>>[1] = e
  OBVIOUS
<1>2. Len(q) + 1 \in 1..Len(q \o <<e>>) /\ (q \o <<e>>)[Len(q) + 1] = e
  BY <1>1
<1> QED BY <1>2 DEF Answered

LEMMA AnswersAfterTail ==
  ASSUME NEW q \in Seq(Events), q # <<>>, Answered(q), Head(q) = "Stopped"
  PROVE  Answered(Tail(q))
<1>1. PICK i \in 1..Len(q) : q[i] # "Stopped"
  BY DEF Answered
<1>2. i # 1
  BY <1>1
<1>3. i - 1 \in 1..Len(Tail(q)) /\ Tail(q)[i - 1] = q[i]
  BY <1>2
<1> QED BY <1>1, <1>3 DEF Answered

(* What an engine thread's step does to a dismissed banner's reason.       *)
LEMMA EmitKeepsAnswers ==
  ASSUME NEW r \in Seq(Events), evts \in Seq(Events), handle, Emit(r), Answered(evts)
  PROVE  Answered(evts')
BY AnswersStay DEF Emit

LEMMA DrainKeepsAnswers ==
  ASSUME IInv, handle, Drain, Answered(evts)
  PROVE  Answered(evts')
<1>1. errs["capture"] \in Seq(Errors) /\ errs["vout"] \in Seq(Errors)
  BY DEF IInv, TypeOK, DataOK, Rings
<1>2. errs["capture"] \o errs["vout"] \in Seq(Errors)
  BY <1>1
<1>3. errs["capture"] \o errs["vout"] \in Seq(Events)
  BY <1>2 DEF Events
<1> QED BY <1>3, QueuesTyped, EmitKeepsAnswers DEF Drain

LEMMA FailureAnswers ==
  ASSUME IInv, handle, StartFails
  PROVE  Answered(evts')
<1>1. "DeviceFault" \in Events /\ "DeviceFault" # "Stopped"
  BY DEF Events, Errors
<1> QED BY <1>1, QueuesTyped, AnswerArrives DEF StartFails, Emit

LEMMA EngineDealsWithClick ==
  ASSUME IInv, EngineStep, handle, RebuildUnderway \/ Answered(evts)
  PROVE  RebuildUnderway' \/ Answered(evts')
<1> USE QueuesTyped DEF RebuildUnderway, TearingDown, BuildStages
<1>1. CASE ReceiveCommand
  <2>1. CASE Answered(evts)
    BY <1>1, <2>1, DrainKeepsAnswers DEF ReceiveCommand, DrainOnReceive
  <2>2. CASE StartQueued(cmds) /\ Head(cmds).op # "Start"
    BY <1>1, <2>2, StartAfterTail DEF ReceiveCommand
  <2>3. CASE Head(cmds).op = "Start"
    BY <1>1, <2>3 DEF ReceiveCommand, Dispatch, OnStart, Teardown, Goto
  <2> QED BY <1>1, <2>1, <2>2, <2>3 DEF ReceiveCommand
<1>2. CASE ReceiveTimeout
  <2>1. ~StartQueued(cmds) /\ Answered(evts)
    BY <1>2 DEF ReceiveTimeout, StartQueued
  <2> QED BY <1>2, <2>1, DrainKeepsAnswers DEF ReceiveTimeout
<1>3. CASE ReceiveDisconnected
  BY <1>3 DEF ReceiveDisconnected
<1>4. CASE HandleSetPreset
  BY <1>4 DEF HandleSetPreset
<1>5. CASE DropStreams
  BY <1>5 DEF DropStreams
<1>6. CASE FinishTeardown
  <2>1. CASE Answered(evts)
    <3>1. <<"Stopped">> \in Seq(Events)
      BY DEF Events
    <3> QED BY <1>6, <2>1, <3>1, EmitKeepsAnswers DEF FinishTeardown, FollowUp
  <2>2. CASE StartQueued(cmds)
    BY <1>6, <2>2 DEF FinishTeardown
  <2>3. CASE after = "build"
    BY <1>6, <2>3 DEF FinishTeardown
  <2> QED BY <1>6, <2>1, <2>2, <2>3 DEF FinishTeardown
<1>7. CASE ResolveFails \/ SpawnFails \/ OpenFails
  BY <1>7, FailureAnswers DEF ResolveFails, SpawnFails, OpenFails
<1>8. CASE Resolve \/ Spawn \/ PickConfig \/ OpenCapture \/ OpenVirtualOut
  BY <1>8 DEF Resolve, Spawn, PickConfig, OpenCapture, OpenVirtualOut, OpenStream, Stage
<1>9. CASE Stash
  <2>1. "Started" \in Events /\ "Started" # "Stopped"
    BY DEF Events
  <2>2. Answered(evts')
    BY <1>9, <2>1, AnswerArrives DEF Stash, Emit
  <2> QED BY <2>2
<1> QED BY <1>1, <1>2, <1>3, <1>4, <1>5, <1>6, <1>7, <1>8, <1>9 DEF EngineStep

(* The handle, once dropped, stays dropped.                                *)
LEMMA HandleStays ==
  ASSUME ShellNext, handle'
  PROVE  handle
<1>1. CASE FrameReceives
  BY <1>1 DEF FrameReceives, ReceiveEvent
<1>2. CASE ClickReconnect \/ ClickButton \/ SelectVoice
           \/ \E s \in Sides, name \in Selections : PickDevice(s, name)
  BY <1>2 DEF ClickReconnect, ClickButton, SelectVoice, PickDevice, SendCommand
<1>3. CASE CloseWindow
  BY <1>3 DEF CloseWindow, CloseHandle
<1>4. CASE EngineMoves
  BY <1>4 DEF EngineMoves, EngineStep, ReceiveCommand, ReceiveTimeout, ReceiveDisconnected,
     HandleSetPreset, DropStreams, FinishTeardown, ResolveFails, Resolve, SpawnFails,
     Spawn, OpenFails, PickConfig, OpenCapture, OpenVirtualOut, OpenStream, Stash,
     StartFails
<1>5. CASE DevicesMove
  BY <1>5 DEF DevicesMove, StreamError, WorkerTakesPreset
<1> QED BY <1>1, <1>2, <1>3, <1>4, <1>5 DEF ShellNext

LEMMA SendKeepsReason ==
  ASSUME IInv, NEW c \in Commands, SendCommand(c), RebuildUnderway \/ Answered(evts)
  PROVE  RebuildUnderway' \/ Answered(evts')
BY QueuesTyped, StartStaysQueued DEF SendCommand, RebuildUnderway, TearingDown

LEMMA DismissedStep ==
  ASSUME IInv, DismissedMeansUnderway, [ShellNext]_allVars
  PROVE  DismissedMeansUnderway'
<1> SUFFICES ASSUME handle', disconnect_dismissed'
             PROVE  RebuildUnderway' \/ Answered(evts')
  BY DEF DismissedMeansUnderway
<1> USE DEF DismissedMeansUnderway
<1>1. CASE FrameReceives
  <2>1. disconnect_dismissed /\ Head(evts) = "Stopped" /\ evts # <<>>
        /\ evts' = Tail(evts) /\ UNCHANGED <<cmds, pc, after>>
    BY <1>1, Zenon DEF FrameReceives, Dismissal, ReceiveEvent
  <2>2. RebuildUnderway \/ Answered(evts)
    BY <1>1, <2>1, HandleStays DEF ShellNext
  <2>3. CASE RebuildUnderway
    BY <2>1, <2>3 DEF RebuildUnderway, TearingDown
  <2>4. CASE Answered(evts)
    BY <2>1, <2>4, QueuesTyped, AnswersAfterTail
  <2> QED BY <2>2, <2>3, <2>4
<1>2. CASE ClickReconnect
  BY <1>2, QueuesTyped, StartIsQueued DEF ClickReconnect, SendCommand, RebuildUnderway
<1>3. CASE ClickButton \/ SelectVoice
  <2>1. PICK c \in Commands : SendCommand(c) /\ UNCHANGED disconnect_dismissed
    <3>1. \A op \in {"Start", "Stop", "SelectVoice", "SetPreset"} : [op |-> op] \in Commands
      BY DEF Commands
    <3> QED BY <1>3, <3>1 DEF ClickButton, SelectVoice
  <2>2. handle /\ disconnect_dismissed
    BY <2>1 DEF SendCommand
  <2> QED BY <2>1, <2>2, SendKeepsReason
<1>4. CASE \E s \in Sides, name \in Selections : PickDevice(s, name)
  <2>1. PICK s \in Sides, name \in Selections : PickDevice(s, name)
    BY <1>4
  <2>2. [op |-> "Set", side |-> s, name |-> name] \in Commands
    BY DEF Commands, SetDevice
  <2>3. handle /\ disconnect_dismissed
    BY <2>1 DEF PickDevice, SendCommand
  <2> QED BY <2>1, <2>2, <2>3, SendKeepsReason DEF PickDevice
<1>5. CASE CloseWindow
  BY <1>5 DEF CloseWindow, CloseHandle
<1>6. CASE EngineMoves
  <2>1. handle /\ disconnect_dismissed /\ EngineStep
    BY <1>6, HandleStays DEF EngineMoves, ShellNext
  <2> QED BY <2>1, EngineDealsWithClick
<1>7. CASE DevicesMove
  BY <1>7 DEF DevicesMove, StreamError, WorkerTakesPreset, RebuildUnderway,
     TearingDown
<1>8. CASE UNCHANGED allVars
  BY <1>8 DEF allVars, RebuildUnderway, TearingDown
<1> QED BY <1>1, <1>2, <1>3, <1>4, <1>5, <1>6, <1>7, <1>8 DEF ShellNext

(* No fault stays hidden behind a click whose rebuild is over or never     *)
(* came, whatever else is clicked and however the rebuild fails.           *)
THEOREM DismissalHasReason == ShellSpec => []DismissedMeansUnderway
<1>1. ShellInit => IInv /\ DismissedMeansUnderway
  BY InitIInv DEF ShellInit, DismissedMeansUnderway
<1>2. IInv /\ DismissedMeansUnderway /\ [ShellNext]_allVars
      => (IInv /\ DismissedMeansUnderway)'
  BY EngineKeeps, DismissedStep
<1> QED BY <1>1, <1>2, PTL DEF ShellSpec

-----------------------------------------------------------------------------
(* The mirror of the selection. *)

LEMMA HighestIndex ==
  ASSUME NEW n \in Nat, NEW X \in SUBSET (1..n), X # {}
  PROVE  \E m \in X : \A k \in X : k <= m
<1> DEFINE T == {m..n : m \in X}
           R == StrictSubsetOrdering(Nat)
<1>1. T \subseteq FiniteSubsetsOf(Nat) /\ T # {}
  <2>1. \A m \in X : m..n \in SUBSET Nat /\ IsFiniteSet(m..n)
    BY FS_Interval
  <2> QED BY <2>1 DEF FiniteSubsetsOf
<1>2. IsWellFoundedOn(R, FiniteSubsetsOf(Nat))
  BY FS_StrictSubsetOrderingWellFounded
<1>3. PICK t \in T : \A u \in T : ~ (<<u, t>> \in R)
  <2> HIDE DEF R, T
  <2> QED BY <1>1, <1>2, WFMin
<1>4. PICK m \in X : t = m..n
  BY <1>3
<1>5. ASSUME NEW k \in X, m < k
      PROVE  FALSE
  <2>1. k..n \in T /\ k..n \subseteq m..n /\ m \in m..n /\ m \notin k..n
    BY <1>5
  <2>2. k..n \in SUBSET Nat /\ m..n \in SUBSET Nat
    OBVIOUS
  <2>3. <<k..n, m..n>> \in R
    BY <2>1, <2>2 DEF StrictSubsetOrdering
  <2> QED BY <1>3, <1>4, <2>1, <2>3
<1> QED BY <1>5

Sets(c, s) == c.op = "Set" /\ c.side = s

LEMMA LastSetFound ==
  ASSUME NEW q, NEW s, NEW name, NEW i \in SetsOf(q, s), Len(q) \in Nat,
         \A j \in SetsOf(q, s) : j <= i
  PROVE  LastSet(q, s, name) = q[i].name
<1> DEFINE k == CHOOSE i2 \in SetsOf(q, s) : \A j \in SetsOf(q, s) : j <= i2
<1>1. k \in SetsOf(q, s) /\ \A j \in SetsOf(q, s) : j <= k
  OBVIOUS
<1>2. k = i
  BY <1>1 DEF SetsOf
<1> QED BY <1>2 DEF LastSet

LEMMA LastSetNone ==
  ASSUME NEW q, NEW s, NEW name, SetsOf(q, s) = {}
  PROVE  LastSet(q, s, name) = name
BY DEF LastSet

(* A command put at the end of the queue is the last one. *)
LEMMA LastSetAppend ==
  ASSUME NEW q \in Seq(Commands), NEW c \in Commands, NEW s, NEW name
  PROVE  LastSet(Append(q, c), s, name) =
           IF Sets(c, s) THEN c.name ELSE LastSet(q, s, name)
<1> DEFINE r == Append(q, c)
           n == Len(q)
<1>1. n \in Nat /\ Len(r) = n + 1 /\ r[n + 1] = c /\ \A i \in 1..n : r[i] = q[i]
  OBVIOUS
<1> HIDE DEF r
<1>2. CASE Sets(c, s)
  <2>1. n + 1 \in SetsOf(r, s) /\ \A j \in SetsOf(r, s) : j <= n + 1
    BY <1>1, <1>2 DEF SetsOf, Sets
  <2>2. LastSet(r, s, name) = r[n + 1].name
    BY <1>1, <2>1, LastSetFound
  <2> QED BY <1>1, <1>2, <2>2 DEF r
<1>3. CASE ~Sets(c, s)
  <2>1. SetsOf(r, s) = SetsOf(q, s) /\ SetsOf(q, s) \in SUBSET (1..n)
    BY <1>1, <1>3 DEF SetsOf, Sets
  <2>2. CASE SetsOf(q, s) = {}
    BY <1>3, <2>1, <2>2, LastSetNone DEF r
  <2>3. CASE SetsOf(q, s) # {}
    <3>1. PICK i \in SetsOf(q, s) : \A j \in SetsOf(q, s) : j <= i
      BY <1>1, <2>1, <2>3, HighestIndex
    <3>2. LastSet(q, s, name) = q[i].name
      BY <1>1, <3>1, LastSetFound
    <3>3. LastSet(r, s, name) = r[i].name
      BY <1>1, <2>1, <3>1, LastSetFound
    <3>4. r[i] = q[i]
      BY <1>1, <2>1, <3>1
    <3> QED BY <1>3, <3>2, <3>3, <3>4 DEF r
  <2> QED BY <2>2, <2>3
<1> QED BY <1>2, <1>3

(* One taken from its front and applied changes nothing. *)
LEMMA LastSetTail ==
  ASSUME NEW q \in Seq(Commands), q # <<>>, NEW s, NEW name, NEW newName,
         newName = IF Sets(Head(q), s) THEN Head(q).name ELSE name
  PROVE  LastSet(Tail(q), s, newName) = LastSet(q, s, name)
<1> DEFINE r == Tail(q)
           n == Len(q)
<1>1. n \in Nat \ {0} /\ Len(r) = n - 1 /\ q[1] = Head(q)
      /\ \A i \in 1..(n - 1) : r[i] = q[i + 1]
  OBVIOUS
<1> HIDE DEF r
<1>2. SetsOf(q, s) \in SUBSET (1..n) /\ SetsOf(r, s) \in SUBSET (1..(n - 1))
  BY <1>1 DEF SetsOf
<1>3. \A i \in 1..(n - 1) : i \in SetsOf(r, s) <=> i + 1 \in SetsOf(q, s)
  BY <1>1 DEF SetsOf
<1>4. 1 \in SetsOf(q, s) <=> Sets(Head(q), s)
  BY <1>1 DEF SetsOf, Sets
<1>5. CASE SetsOf(r, s) # {}
  <2>1. PICK i \in SetsOf(r, s) : \A j \in SetsOf(r, s) : j <= i
    <3>1. n - 1 \in Nat
      BY <1>1
    <3> QED BY <1>2, <1>5, <3>1, HighestIndex
  <2>2. LastSet(r, s, newName) = r[i].name
    BY <1>1, <2>1, LastSetFound
  <2>3. i + 1 \in SetsOf(q, s)
    BY <1>2, <1>3, <2>1
  <2>4. ASSUME NEW j \in SetsOf(q, s)
        PROVE  j <= i + 1
    <3>1. CASE j = 1
      BY <1>2, <2>1, <3>1
    <3>2. CASE j # 1
      <4>1. j - 1 \in 1..(n - 1) /\ (j - 1) + 1 = j
        BY <1>1, <1>2, <2>4, <3>2
      <4>2. j - 1 \in SetsOf(r, s)
        BY <1>3, <4>1
      <4> QED BY <1>2, <2>1, <4>1, <4>2
    <3> QED BY <3>1, <3>2
  <2>5. LastSet(q, s, name) = q[i + 1].name
    BY <1>1, <2>3, <2>4, LastSetFound
  <2>6. r[i] = q[i + 1]
    BY <1>1, <1>2, <2>1
  <2> QED BY <2>2, <2>5, <2>6 DEF r
<1>6. CASE SetsOf(r, s) = {}
  <2>1. LastSet(r, s, newName) = newName
    BY <1>6, LastSetNone
  <2>2. \A j \in SetsOf(q, s) : j = 1
    <3>1. SUFFICES ASSUME NEW j \in SetsOf(q, s), j # 1 PROVE FALSE
      OBVIOUS
    <3>2. j - 1 \in 1..(n - 1) /\ (j - 1) + 1 = j
      BY <1>1, <1>2, <3>1
    <3> QED BY <1>3, <1>6, <3>1, <3>2
  <2>3. CASE Sets(Head(q), s)
    <3>1. 1 \in SetsOf(q, s) /\ \A j \in SetsOf(q, s) : j <= 1
      BY <1>4, <2>2, <2>3
    <3>2. LastSet(q, s, name) = q[1].name
      BY <1>1, <3>1, LastSetFound
    <3> QED BY <1>1, <2>1, <2>3, <3>2 DEF r
  <2>4. CASE ~Sets(Head(q), s)
    <3>1. SetsOf(q, s) = {}
      BY <1>4, <2>2, <2>4
    <3> QED BY <2>1, <2>4, <3>1, LastSetNone DEF r
  <2> QED BY <2>3, <2>4
<1> QED BY <1>5, <1>6

MirrorInv == mirror \in [Sides -> Selections] /\ MirrorAhead

(* Whoever sends it, a command without a device changes no picker. *)
LEMMA MirrorKept ==
  ASSUME IInv, MirrorInv, NEW c \in Commands, c.op # "Set", SendCommand(c),
         mirror' = mirror
  PROVE  MirrorInv'
<1>1. cmds' = Append(cmds, c) /\ handle /\ UNCHANGED <<handle, selected>>
  BY DEF SendCommand
<1>2. \A s \in Sides : LastSet(cmds', s, selected'[s]) = LastSet(cmds, s, selected[s])
  BY <1>1, QueuesTyped, LastSetAppend DEF Sets
<1> QED BY <1>1, <1>2 DEF MirrorInv, MirrorAhead

LEMMA PickMirrored ==
  ASSUME IInv, MirrorInv, NEW s \in Sides, NEW name \in Selections, PickDevice(s, name)
  PROVE  MirrorInv'
<1> DEFINE c == [op |-> "Set", side |-> s, name |-> name]
<1>1. c \in Commands /\ c.op = "Set" /\ c.side = s /\ c.name = name
  BY DEF Commands, SetDevice
<1>2. cmds' = Append(cmds, c) /\ handle /\ UNCHANGED <<handle, selected>>
      /\ mirror' = [mirror EXCEPT ![s] = name]
  BY DEF PickDevice, SendCommand, Mirror
<1> HIDE DEF c
<1>3. \A t \in Sides : LastSet(cmds', t, selected'[t]) =
        IF t = s THEN name ELSE LastSet(cmds, t, selected[t])
  BY <1>1, <1>2, QueuesTyped, LastSetAppend DEF Sets
<1>4. mirror' \in [Sides -> Selections]
      /\ \A t \in Sides : mirror'[t] = IF t = s THEN name ELSE mirror[t]
  BY <1>2 DEF MirrorInv
<1> QED BY <1>2, <1>3, <1>4 DEF MirrorInv, MirrorAhead

LEMMA ReceivedApplied ==
  ASSUME IInv, MirrorInv, ReceiveCommand, mirror' = mirror
  PROVE  MirrorInv'
<1>1. cmds' = Tail(cmds) /\ cmds # <<>> /\ handle' = handle /\ Select(Head(cmds))
  BY DEF ReceiveCommand
<1>2. Head(cmds) \in Commands
  BY <1>1, QueuesTyped
<1>3. selected \in [Sides -> Selections]
  BY DEF IInv, TypeOK, DataOK
<1>4. ASSUME NEW s \in Sides
      PROVE  selected'[s] = IF Sets(Head(cmds), s) THEN Head(cmds).name ELSE selected[s]
  BY <1>1, <1>3 DEF Select, Sets
<1>5. \A s \in Sides : LastSet(cmds', s, selected'[s]) = LastSet(cmds, s, selected[s])
  BY <1>1, <1>4, QueuesTyped, LastSetTail
<1> QED BY <1>1, <1>5 DEF MirrorInv, MirrorAhead

LEMMA MirrorStep ==
  ASSUME IInv, MirrorInv, [ShellNext]_allVars
  PROVE  MirrorInv'
<1> USE DEF MirrorInv, MirrorAhead
<1>1. CASE FrameReceives
  BY <1>1 DEF FrameReceives, ReceiveEvent
<1>2. CASE ClickReconnect \/ ClickButton \/ SelectVoice
  <2>1. \A op \in {"Start", "Stop", "SelectVoice", "SetPreset"} :
          [op |-> op] \in Commands /\ [op |-> op].op # "Set"
    BY DEF Commands
  <2>2. PICK c \in Commands : SendCommand(c) /\ c.op # "Set" /\ mirror' = mirror
    BY <1>2, <2>1 DEF ClickReconnect, ClickButton, SelectVoice
  <2> QED BY <2>2, MirrorKept
<1>3. CASE \E s \in Sides, name \in Selections : PickDevice(s, name)
  BY <1>3, PickMirrored
<1>4. CASE CloseWindow
  BY <1>4 DEF CloseWindow, CloseHandle
<1>5. CASE EngineMoves
  <2>1. CASE ReceiveCommand
    BY <1>5, <2>1, ReceivedApplied DEF EngineMoves
  <2>2. CASE ~ReceiveCommand
    <3>1. UNCHANGED <<cmds, handle, selected, mirror>>
      BY <1>5, <2>2 DEF EngineMoves, EngineStep, ReceiveTimeout, ReceiveDisconnected,
         HandleSetPreset, DropStreams, FinishTeardown, ResolveFails, Resolve, SpawnFails,
         Spawn, OpenFails, PickConfig, OpenCapture, OpenVirtualOut, OpenStream, Stash,
         StartFails
    <3> QED BY <3>1
  <2> QED BY <2>1, <2>2
<1>6. CASE DevicesMove
  BY <1>6 DEF DevicesMove, StreamError, WorkerTakesPreset
<1>7. CASE UNCHANGED allVars
  BY <1>7 DEF allVars
<1> QED BY <1>1, <1>2, <1>3, <1>4, <1>5, <1>6, <1>7 DEF ShellNext

(* The pickers show what the engine will use once it has received all that *)
(* was sent, for every set of devices and any number of pending commands.  *)
THEOREM MirrorNeverLies == ShellSpec => []MirrorAhead
<1>1. ShellInit => IInv /\ MirrorInv
  <2> SUFFICES ASSUME ShellInit PROVE IInv /\ MirrorInv
    OBVIOUS
  <2>1. cmds = <<>> /\ selected \in [Sides -> Selections] /\ mirror = selected
    BY DEF ShellInit, Init
  <2>2. \A s \in Sides : SetsOf(cmds, s) = {}
    BY <2>1 DEF SetsOf
  <2> QED BY <2>1, <2>2, InitIInv, LastSetNone DEF ShellInit, MirrorInv, MirrorAhead
<1>2. IInv /\ MirrorInv /\ [ShellNext]_allVars => (IInv /\ MirrorInv)'
  BY EngineKeeps, MirrorStep
<1>3. MirrorInv => MirrorAhead
  BY DEF MirrorInv
<1> QED BY <1>1, <1>2, <1>3, PTL DEF ShellSpec

=============================================================================
