-------------------------- MODULE EngineLifecycle --------------------------
(***************************************************************************)
(* What the engine promises the user interface about starting and          *)
(* stopping, without saying how: streams run between a Started and the     *)
(* next announcement, a restart is never announced as a stop, and every    *)
(* start or stop that has begun is answered by exactly one announcement.   *)
(* EngineLoop implements it.                                               *)
(***************************************************************************)

VARIABLES
  phase,        \* what the engine is doing
  announced     \* the last start or stop outcome sent to the user interface

vars == <<phase, announced>>

Init == phase = "stopped" /\ announced = "none"

Begin ==
  /\ phase \in {"stopped", "running"}
  /\ phase' = "building"
  /\ UNCHANGED announced

Succeed ==
  /\ phase = "building"
  /\ phase' = "running"
  /\ announced' = "Started"

Fail ==
  /\ phase = "building"
  /\ phase' = "stopped"
  /\ announced' = "StartFailed"

BeginStop ==
  /\ phase = "running"
  /\ phase' = "stopping"
  /\ UNCHANGED announced

Stopped ==
  /\ phase = "stopping"
  /\ phase' \in {"stopped", "exited"}
  /\ announced' = "Stopped"

Exit ==
  /\ phase = "stopped"
  /\ phase' = "exited"
  /\ UNCHANGED announced

Next == Begin \/ Succeed \/ Fail \/ BeginStop \/ Stopped \/ Exit

(* What has begun ends; nobody has to start, stop or leave. *)
Spec == Init /\ [][Next]_vars /\ WF_vars(Succeed \/ Fail) /\ WF_vars(Stopped)

=============================================================================
