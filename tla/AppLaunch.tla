------------------------------ MODULE AppLaunch ------------------------------
(***************************************************************************)
(* A launch from main() to the Ready shell: the database is opened         *)
(* (VoiceDb), the remembered output is read (main.rs), and the setup gate  *)
(* waits for a virtual output device: detected, or picked by hand          *)
(* (setup_screen.rs), before the engine is spawned (app.rs).               *)
(*                                                                         *)
(* A frame renders the screen, which handles at most one click, and then   *)
(* looks whether to leave the gate.  Frames come with the user's clicks,   *)
(* or because the frame before asked for one.                              *)
(***************************************************************************)

EXTENDS VoiceDb, OutputDevices

CONSTANTS
  None,
  NotFound     \* DetectionResult::NotFound

ASSUME LaunchAssumption ==
  /\ None \notin Names /\ NotFound \notin Names /\ None # NotFound
  /\ None \notin OutputDevs

VARIABLES
  outputs,         \* the output devices the host has now
  setting,         \* the settings row virtual_output_device_id, or None
  last_vout,       \* SetupState::last_vout
  last_detection,  \* SetupState::last_detection
  flash_until,     \* SetupState::flash_until: none, later, due
  picked_vout,     \* SetupState::picked_vout
  repaint,         \* the last frame asked for another
  vout,            \* EngineState::selected_virtual_output, or None
  confirmed,       \* history: the name found last, or picked and confirmed
  proved           \* history: the device the last test found, while nothing
                   \*   has been plugged since

gate == <<last_vout, last_detection, flash_until, picked_vout, repaint, vout, confirmed,
          proved>>
vars == <<tables, user_version, defaults, step, pending, raced, outputs, setting,
          last_vout, last_detection, flash_until, picked_vout, repaint, vout, confirmed,
          proved>>
world == <<outputs, setting>>

TypeOK ==
  /\ DbTypeOK
  /\ outputs \in Enumerations
  /\ setting \in Names \union {None}
  /\ last_vout \in [Launches -> Names \union {None}]
  /\ last_detection \in [Launches -> Names \union {None, NotFound}]
  /\ flash_until \in [Launches -> {"none", "later", "due"}]
  /\ picked_vout \in [Launches -> Names \union {None}]
  /\ repaint \in [Launches -> BOOLEAN]
  /\ vout \in [Launches -> Names \union {None}]
  /\ confirmed \in [Launches -> Names \union {None}]
  /\ proved \in [Launches -> OutputDevs \union {None}]

Init ==
  /\ DbInit
  /\ outputs \in Enumerations
  /\ setting \in Names \union {None}
  /\ last_vout = [l \in Launches |-> None]
  /\ last_detection = [l \in Launches |-> None]
  /\ flash_until = [l \in Launches |-> "none"]
  /\ picked_vout = [l \in Launches |-> None]
  /\ repaint = [l \in Launches |-> FALSE]
  /\ vout = [l \in Launches |-> None]
  /\ confirmed = [l \in Launches |-> None]
  /\ proved = [l \in Launches |-> None]

Set(f, l, v) == [f EXCEPT ![l] = v]

-----------------------------------------------------------------------------
(* main(). *)

Start(l) == OpenDb(l) /\ UNCHANGED <<world, gate>>

Initialise(l) == InitConn(l) /\ UNCHANGED <<world, gate>>

(* read_setting, an error counting as no row. *)
ReadSetting == {setting, None}

(* The settings are read, then come App::new and the window with its first *)
(* frame.                                                                  *)
OpenWindow(l) ==
  /\ At(l, "open") /\ Goto(l, "setup")
  /\ \E v \in ReadSetting : last_vout' = Set(last_vout, l, v)
  /\ repaint' = Set(repaint, l, TRUE)
  /\ UNCHANGED <<disk, pending, raced, world, last_detection, flash_until, picked_vout,
                 vout, confirmed, proved>>

(* The window is closed, Quit is clicked, or the process is killed. *)
End(l) ==
  /\ step[l] \notin {"off", "failed"} /\ Goto(l, "off")
  /\ last_vout' = Set(last_vout, l, None)
  /\ last_detection' = Set(last_detection, l, None)
  /\ flash_until' = Set(flash_until, l, "none")
  /\ picked_vout' = Set(picked_vout, l, None)
  /\ repaint' = Set(repaint, l, FALSE)
  /\ vout' = Set(vout, l, None)
  /\ confirmed' = Set(confirmed, l, None)
  /\ proved' = Set(proved, l, None)
  /\ UNCHANGED <<disk, pending, raced, world>>

-----------------------------------------------------------------------------
(* The setup screen.  Each click yields what the gate becomes before the   *)
(* frame decides about leaving it.                                         *)

(* "Test detection". *)
TestFinds(l) ==
  LET d == Detected(outputs) IN
  /\ Detects(outputs)
  /\ flash_until' = Set(flash_until, l, "later")
  /\ picked_vout' = Set(picked_vout, l, ComposedName(d))
  /\ last_detection' = Set(last_detection, l, ComposedName(d))
  /\ confirmed' = Set(confirmed, l, ComposedName(d))
  /\ proved' = Set(proved, l, d)

(* Mutant: a failed test leaves the running timer alone. *)
TestFailsTimerKept(l) ==
  /\ ~Detects(outputs)
  /\ last_detection' = Set(last_detection, l, NotFound)
  /\ confirmed' = Set(confirmed, l, None)
  /\ proved' = Set(proved, l, None)
  /\ UNCHANGED <<flash_until, picked_vout>>

TestFails(l) ==
  /\ ~Detects(outputs)
  /\ flash_until' = Set(flash_until, l, "none")
  /\ last_detection' = Set(last_detection, l, NotFound)
  /\ confirmed' = Set(confirmed, l, None)
  /\ proved' = Set(proved, l, None)
  /\ UNCHANGED picked_vout

(* The combo box, shown after a failed test. *)
Pick(l, name) ==
  /\ last_detection[l] = NotFound
  /\ picked_vout' = Set(picked_vout, l, name)
  /\ confirmed' = Set(confirmed, l, None)
  /\ UNCHANGED <<last_detection, flash_until, proved>>

(* "Use this device", also for a name that is not in the list any more. *)
Use(l) ==
  /\ last_detection[l] = NotFound /\ outputs # <<>> /\ picked_vout[l] # None
  /\ flash_until' = Set(flash_until, l, "due")
  /\ confirmed' = Set(confirmed, l, picked_vout[l])
  /\ UNCHANGED <<last_detection, picked_vout, proved>>

Click(l) ==
  \/ TestFinds(l)
  \/ TestFails(l)
  \/ \E name \in EnumerateOutputs(outputs) : Pick(l, name)
  \/ Use(l)

NoClick == UNCHANGED <<last_detection, flash_until, picked_vout, confirmed, proved>>

(* A manual or detected pick overrides the remembered output. *)
Selected(picked, last) == IF picked # None THEN picked ELSE last

(* Mutant: a waiting gate asks for no frame. *)
DecideAsleep(l) ==
  IF flash_until'[l] = "due"
  THEN /\ Goto(l, "ready")
       /\ vout' = Set(vout, l, Selected(picked_vout'[l], last_vout[l]))
       /\ repaint' = Set(repaint, l, TRUE)
  ELSE repaint' = Set(repaint, l, FALSE) /\ UNCHANGED <<step, vout>>

(* should_transition_now, or a frame in 50 ms while the timer runs. *)
Decide(l) ==
  IF flash_until'[l] = "due"
  THEN /\ Goto(l, "ready")
       /\ vout' = Set(vout, l, Selected(picked_vout'[l], last_vout[l]))
       /\ repaint' = Set(repaint, l, TRUE)
  ELSE /\ repaint' = Set(repaint, l, flash_until'[l] # "none")
       /\ UNCHANGED <<step, vout>>

ClickFrame(l) ==
  /\ At(l, "setup") /\ Click(l) /\ Decide(l)
  /\ UNCHANGED <<disk, pending, raced, world, last_vout>>

RepaintFrame(l) ==
  /\ At(l, "setup") /\ repaint[l] /\ NoClick /\ Decide(l)
  /\ UNCHANGED <<disk, pending, raced, world, last_vout>>

(* The second of the green label is over. *)
FlashElapses(l) ==
  /\ flash_until[l] = "later" /\ flash_until' = Set(flash_until, l, "due")
  /\ UNCHANGED <<db, world, last_vout, last_detection, picked_vout, repaint, vout, confirmed,
                 proved>>

(* The user plugs, unplugs, installs or renames an output device. *)
Plug ==
  /\ outputs' \in Enumerations \ {outputs}
  /\ proved' = [l \in Launches |-> None]
  /\ UNCHANGED <<db, setting, last_vout, last_detection, flash_until, picked_vout, repaint,
                 vout, confirmed>>

-----------------------------------------------------------------------------
Next ==
  \/ \E l \in Launches :
       \/ Start(l)
       \/ Initialise(l)
       \/ OpenWindow(l)
       \/ End(l)
       \/ ClickFrame(l)
       \/ RepaintFrame(l)
       \/ FlashElapses(l)
  \/ Plug

(* Programs run, requested frames come, time passes; the user need not     *)
(* click or launch.                                                        *)
Fairness ==
  \A l \in Launches :
    /\ WF_vars(Initialise(l)) /\ WF_vars(OpenWindow(l))
    /\ WF_vars(RepaintFrame(l)) /\ WF_vars(FlashElapses(l))

Spec == Init /\ [][Next]_vars /\ Fairness

-----------------------------------------------------------------------------
(* setup_screen.rs:49-60, 110-118: the engine is spawned with the device   *)
(* the last test found or the user confirmed, and with no other: neither   *)
(* one that a later test missed, nor one merely highlighted, nor the       *)
(* remembered one.                                                         *)
SpawnsConfirmedOutput ==
  \A l \in Launches : At(l, "ready") => vout[l] # None /\ vout[l] = confirmed[l]

(* setup_screen.rs:50-54, "the original bug": the device the test found is  *)
(* the one the engine opens, and it can open it, as long as nothing is     *)
(* plugged in between: not the host's default, nor another of that name.   *)
DetectedDeviceOpens ==
  \A l \in Launches :
    At(l, "ready") /\ proved[l] # None =>
      ToOpen(outputs, vout[l]) = {proved[l]} /\ PickOutputConfig(proved[l])

(* setup_screen.rs:7-11: once a device is found the Ready shell comes by   *)
(* itself: nobody need move the mouse for a frame to come.  A failed test, *)
(* the end of the program, or a user who never stops clicking prevent it.  *)
FoundLeadsToReady ==
  \A l \in Launches :
    \/ []<><<ClickFrame(l)>>_vars
    \/ (flash_until[l] # "none") ~> (At(l, "ready") \/ flash_until[l] = "none")

=============================================================================
