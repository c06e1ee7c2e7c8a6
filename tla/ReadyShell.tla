----------------------------- MODULE ReadyShell -----------------------------
(***************************************************************************)
(* The Ready shell of womanizer-app (app.rs, ready_shell.rs) driving the   *)
(* engine of EngineLoop: each frame first receives the pending events, then*)
(* renders, and a click sends one command.  The shell keeps a mirror of the*)
(* device selection it has sent, and hides the disconnect banner from the  *)
(* click on it until the engine has answered.                              *)
(***************************************************************************)

EXTENDS EngineLoop

VARIABLES
  disconnect_dismissed,   \* ReadyState::disconnect_dismissed
  mirror                  \* ReadyState::selected_input, _vout, _monitor

shell == <<disconnect_dismissed, mirror>>
allVars == <<cmds, evts, handle, pc, after, selected, streams, worker, built,
             playing, errs, faulted, snap_in, preset_tx, preset_full,
             disconnected, mismatch, announced, orphaned, disconnect_dismissed, mirror>>

(* The Setup-to-Ready transition gives engine and mirror the same names. *)
ShellInit ==
  /\ Init
  /\ disconnect_dismissed = FALSE
  /\ mirror = selected

-----------------------------------------------------------------------------
(* Mutant: only an error ends the dismissal. *)
DismissalErrorOnly(e) ==
  disconnect_dismissed' = (disconnect_dismissed /\ e \notin Errors)

(* drain_events_into_banners: Started and every Error end the dismissal. *)
Dismissal(e) ==
  disconnect_dismissed' = (disconnect_dismissed /\ e = "Stopped")

FrameReceives ==
  /\ ReceiveEvent
  /\ Dismissal(Head(evts))
  /\ UNCHANGED mirror

BannerVisible == disconnected /\ ~disconnect_dismissed

(* Mutant: the banner is hidden without asking for a rebuild. *)
ClickHidesBanner ==
  /\ BannerVisible
  /\ disconnect_dismissed' = TRUE
  /\ UNCHANGED <<cmds, evts, handle, pc, after, selected, running, slots, banners,
                 announced, orphaned, mirror>>

ClickReconnect ==
  /\ BannerVisible
  /\ SendCommand([op |-> "Start"])
  /\ disconnect_dismissed' = TRUE
  /\ UNCHANGED mirror

ClickButton ==
  /\ \E op \in {"Start", "Stop", "SetPreset"} : SendCommand([op |-> op])
  /\ UNCHANGED shell

(* Mutant: the mirror is only updated when the engine is seen running. *)
MirrorWhenRunning(s, name) == mirror' = IF streams THEN [mirror EXCEPT ![s] = name] ELSE mirror

Mirror(s, name) == mirror' = [mirror EXCEPT ![s] = name]

PickDevice(s, name) ==
  /\ SendCommand([op |-> "Set", side |-> s, name |-> name])
  /\ Mirror(s, name)
  /\ UNCHANGED disconnect_dismissed

CloseWindow == CloseHandle /\ UNCHANGED shell

(* The engine accepts SelectVoice from whoever holds its public sender; no *)
(* widget sends it yet.                                                    *)
SelectVoice == SendCommand([op |-> "SelectVoice"]) /\ UNCHANGED shell

(* Everything that is not the shell. *)
EngineMoves == EngineStep /\ UNCHANGED shell

DevicesMove ==
  /\ \/ \E r \in Rings, e \in Errors : StreamError(r, e)
     \/ WorkerTakesPreset
  /\ UNCHANGED shell

ShellNext ==
  \/ FrameReceives
  \/ ClickReconnect
  \/ ClickButton
  \/ \E s \in Sides, name \in Selections : PickDevice(s, name)
  \/ CloseWindow
  \/ SelectVoice
  \/ EngineMoves
  \/ DevicesMove

(* Frames are drawn 30 times a second; nobody has to click. *)
ShellSpec ==
  /\ ShellInit
  /\ [][ShellNext]_allVars
  /\ WF_allVars(EngineMoves)
  /\ WF_allVars(FrameReceives)

-----------------------------------------------------------------------------
StartQueued(queue) == \E i \in 1..Len(queue) : queue[i].op = "Start"

(* The engine is rebuilding, or will as soon as it comes to it. *)
RebuildUnderway ==
  \/ StartQueued(cmds)
  \/ pc \in BuildStages
  \/ TearingDown /\ after = "build"

Answered(queue) == \E i \in 1..Len(queue) : queue[i] # "Stopped"

(* The banner is hidden only while its click is being dealt with: a        *)
(* dismissed banner always stands for a Start on its way or an answer the  *)
(* next frame will read, so no fault stays hidden (app.rs:104-109).        *)
DismissedMeansUnderway ==
  handle /\ disconnect_dismissed => RebuildUnderway \/ Answered(evts)

(* And that ends: the shell sees the outcome of every reconnect click.     *)
DismissalEnds == disconnect_dismissed ~> ~disconnect_dismissed \/ ~handle

(* What the pickers show is what the engine will use: the engine's         *)
(* selection with the queued changes applied.                              *)
SetsOf(queue, s) == {i \in 1..Len(queue) : queue[i].op = "Set" /\ queue[i].side = s}

LastSet(queue, s, name) ==
  LET sets == SetsOf(queue, s)
  IN  IF sets = {} THEN name
      ELSE queue[CHOOSE i \in sets : \A j \in sets : j <= i].name

MirrorAhead == handle => \A s \in Sides : mirror[s] = LastSet(cmds, s, selected[s])

=============================================================================
