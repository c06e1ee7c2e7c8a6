-------------------------- MODULE FeedbackDetector --------------------------
(***************************************************************************)
(* The feedback detector of womanizer-engine/src/monitor.rs and the three  *)
(* parties that meet in its two flags: the engine thread, which creates it *)
(* on Start, ticks it when a receive times out and drops it on Stop; the   *)
(* Ready shell, whose checkbox and x button write the same atomics; and    *)
(* the microphone, whose level a tick samples.  A tick is split at its     *)
(* accesses to shared state, so the user acts between them.  A level is a  *)
(* number in units of MIN_PREV_RMS_FOR_RISE, 0 standing for anything below.*)
(***************************************************************************)

EXTENDS Integers, Sequences

CONSTANTS
  Windows,      \* WINDOW_HISTORY_LEN
  Levels        \* the levels a window may have

ASSUME DetectorAssumption ==
  /\ Windows \in Nat \ {0}
  /\ Levels \subseteq Nat
  /\ 0 \in Levels

VARIABLES
  monitor_enabled,       \* HotParams::monitor_enabled
  feedback_detected,     \* MonitorBannerState::feedback_detected
  shown,                 \* the checkbox value the current frame has read
  running,               \* Engine::feedback_detector is Some
  tick,                  \* where a tick is
  window_history, windows_filled, tripped, prev_monitor_enabled,
  fresh,                 \* history: samples since the user last switched the
                         \* monitor on, or since the detector was created
  unseen,                \* history: no tick had seen the monitor off before that
  streak,                \* history: of the samples since a tick last saw it off,
                         \* how many up to the last rose from the one before
  dismissed              \* history: the user closed the banner of this trip

shared == <<monitor_enabled, feedback_detected, shown, dismissed>>
sessions == <<fresh, unseen>>
detector == <<window_history, windows_filled, tripped, prev_monitor_enabled, streak>>
vars == <<monitor_enabled, feedback_detected, shown, dismissed, running, tick,
          window_history, windows_filled, tripped, prev_monitor_enabled, streak,
          fresh, unseen>>

Silence == [i \in 1..Windows |-> 0]

TypeOK ==
  /\ monitor_enabled \in BOOLEAN /\ feedback_detected \in BOOLEAN
  /\ shown \in BOOLEAN /\ dismissed \in BOOLEAN
  /\ running \in BOOLEAN
  /\ tick \in {"idle", "rearm", "sample", "trip", "announce"}
  /\ window_history \in [1..Windows -> Levels]
  /\ windows_filled \in 0..Windows
  /\ tripped \in BOOLEAN /\ prev_monitor_enabled \in BOOLEAN
  /\ fresh \in 0..Windows /\ streak \in 0..Windows
  /\ unseen \in BOOLEAN

Init ==
  /\ monitor_enabled = FALSE /\ feedback_detected = FALSE
  /\ shown = FALSE /\ dismissed = FALSE
  /\ running = FALSE /\ tick = "idle"
  /\ window_history = Silence /\ windows_filled = 0
  /\ tripped = FALSE /\ prev_monitor_enabled = FALSE
  /\ fresh = 0 /\ unseen = FALSE /\ streak = 0

-----------------------------------------------------------------------------
(* The engine thread. *)

(* FeedbackDetector::new takes the toggle as it finds it; the banner is    *)
(* shared and stays.                                                       *)
Start ==
  /\ ~running
  /\ running' = TRUE
  /\ window_history' = Silence /\ windows_filled' = 0
  /\ tripped' = FALSE
  /\ prev_monitor_enabled' = monitor_enabled
  /\ fresh' = 0 /\ unseen' = FALSE /\ streak' = 0
  /\ UNCHANGED <<shared, tick>>

Stop ==
  /\ running
  /\ tick = "idle"
  /\ running' = FALSE
  /\ UNCHANGED <<shared, tick, detector, sessions>>

TickGoes(from, to) == tick = from /\ tick' = to

(* The load of the toggle, and what it decides. *)
TickLoad ==
  /\ running
  /\ TickGoes("idle", IF monitor_enabled /\ ~prev_monitor_enabled THEN "rearm"
                      ELSE IF monitor_enabled /\ ~tripped THEN "sample" ELSE "idle")
  /\ prev_monitor_enabled' = monitor_enabled
  /\ streak' = IF monitor_enabled THEN streak ELSE 0
  /\ UNCHANGED <<shared, running, window_history, windows_filled, tripped, sessions>>

(* Mutant: the windows from before the monitor was off are kept. *)
TickRearmKeeps ==
  /\ TickGoes("rearm", "idle")
  /\ feedback_detected' = FALSE
  /\ tripped' = FALSE /\ unseen' = FALSE
  /\ UNCHANGED <<monitor_enabled, shown, dismissed, running, window_history,
                 windows_filled, prev_monitor_enabled, streak, fresh>>

(* The false-to-true edge: everything is cleared, no sample is taken. *)
TickRearm ==
  /\ TickGoes("rearm", "idle")
  /\ feedback_detected' = FALSE
  /\ window_history' = Silence /\ windows_filled' = 0
  /\ tripped' = FALSE /\ unseen' = FALSE
  /\ UNCHANGED <<monitor_enabled, shown, dismissed, running, prev_monitor_enabled,
                 streak, fresh>>

Rise(from, to) == from >= 1 /\ to >= 2 * from

(* Mutant: a window must do more than double the one before it. *)
AllRoseMore(h) ==
  \A i \in 1..Windows - 1 : Rise(h[i], h[i + 1] - 1)

(* all_rose_by_6db_consecutively: each window at least doubles an audible  *)
(* one before it.                                                          *)
AllRose(h) ==
  \A i \in 1..Windows - 1 : Rise(h[i], h[i + 1])

Shift(h, rms) == [i \in 1..Windows |-> IF i = Windows THEN rms ELSE h[i + 1]]

(* Mutant: the count of filled windows has no cap. *)
CountOn(n) == n + 1

Count(n) == IF n < Windows THEN n + 1 ELSE n

TickSample(rms) ==
  /\ window_history' = Shift(window_history, rms)
  /\ windows_filled' = Count(windows_filled)
  /\ fresh' = Count(fresh)
  /\ streak' = IF streak > 0 /\ Rise(window_history[Windows], rms) THEN Count(streak)
               ELSE 1
  /\ TickGoes("sample", IF windows_filled' = Windows /\ AllRose(window_history')
                        THEN "trip" ELSE "idle")
  /\ UNCHANGED <<shared, running, tripped, prev_monitor_enabled, unseen>>

(* The trip: monitor off ... *)
TickTrip ==
  /\ TickGoes("trip", "announce")
  /\ monitor_enabled' = FALSE
  /\ UNCHANGED <<feedback_detected, shown, dismissed, running, detector, sessions>>

(* Mutant: the trip is not announced. *)
TickAnnounceNot ==
  /\ TickGoes("announce", "idle")
  /\ tripped' = TRUE
  /\ dismissed' = FALSE
  /\ UNCHANGED <<monitor_enabled, feedback_detected, shown, running, window_history,
                 windows_filled, prev_monitor_enabled, streak, sessions>>

(* ... then the banner, then the latch. *)
TickAnnounce ==
  /\ TickGoes("announce", "idle")
  /\ feedback_detected' = TRUE
  /\ tripped' = TRUE
  /\ dismissed' = FALSE
  /\ UNCHANGED <<monitor_enabled, shown, running, window_history, windows_filled,
                 prev_monitor_enabled, streak, sessions>>

TickStep ==
  \/ TickLoad
  \/ TickRearm
  \/ \E rms \in Levels : TickSample(rms)
  \/ TickTrip
  \/ TickAnnounce

-----------------------------------------------------------------------------
(* The Ready shell. *)

(* A frame loads the toggle into the checkbox. *)
Frame ==
  /\ shown' = monitor_enabled
  /\ UNCHANGED <<monitor_enabled, feedback_detected, dismissed, running, tick, detector,
                 sessions>>

(* A click on it stores the opposite of what was loaded.  A session of the *)
(* monitor begins when that turns it on.                                   *)
Toggle ==
  /\ monitor_enabled' = ~shown
  /\ shown' = ~shown
  /\ IF monitor_enabled' /\ ~monitor_enabled
     THEN fresh' = 0 /\ unseen' = prev_monitor_enabled ELSE UNCHANGED sessions
  /\ UNCHANGED <<feedback_detected, dismissed, running, tick, detector>>

(* The x button of the banner. *)
Dismiss ==
  /\ feedback_detected
  /\ feedback_detected' = FALSE
  /\ dismissed' = TRUE
  /\ UNCHANGED <<monitor_enabled, shown, running, tick, detector, sessions>>

-----------------------------------------------------------------------------
Next ==
  \/ Start
  \/ Stop
  \/ TickStep
  \/ Frame
  \/ Toggle
  \/ Dismiss

(* While streams run the loop times out again and again (the user does not *)
(* send commands without pause), and a tick that has begun ends.           *)
Spec == Init /\ [][Next]_vars /\ WF_vars(TickStep)

-----------------------------------------------------------------------------
Trips == tick # "trip" /\ tick' = "trip"

(* A trip rests on windows of one session of the monitor: those from before *)
(* the user last switched it on do not count (monitor.rs:303-306), wherever *)
(* in a tick that was.  The exception is a monitor switched off and on      *)
(* between two loads of the toggle: no tick has seen it off, there is no    *)
(* edge, and what was sampled before counts on (monitor.rs:353-354).        *)
NoStaleTrip == [][Trips => fresh' = Windows \/ unseen]_vars

(* No howl is missed: once Windows windows in a row have risen while the   *)
(* monitor was on, whatever came before them and however the user toggles, *)
(* the trip is under way or done (monitor.rs:358-391).                     *)
NoMissedTrip == streak = Windows => tick \in {"trip", "announce"} \/ tripped

(* The detector never takes the monitor away in silence: while its latch   *)
(* holds the banner is up, unless the user has closed it.                  *)
TripIsAnnounced == tripped => feedback_detected \/ dismissed \/ tick = "rearm"

(* The inductive invariant of NoStaleTrip: unless the session began unseen, *)
(* no more windows are counted than were sampled in it, but for those that  *)
(* the edge of its beginning is about to clear.                             *)
FreshWindows ==
  /\ tick # "idle" => running /\ prev_monitor_enabled
  /\ prev_monitor_enabled /\ tick # "rearm" => windows_filled <= fresh \/ unseen
  /\ tick = "trip" => windows_filled = Windows

(* That of NoMissedTrip: the streak is in the history, and a sample is     *)
(* only taken while it is short of a trip.                                 *)
StreakInHistory ==
  /\ IF prev_monitor_enabled /\ tick # "rearm" THEN streak <= windows_filled
                                              ELSE streak = 0
  /\ \A i \in 1..Windows - 1 :
       i > Windows - streak => Rise(window_history[i], window_history[i + 1])
  /\ tick = "sample" => ~tripped

IInv == TypeOK /\ FreshWindows /\ StreakInHistory /\ NoMissedTrip /\ TripIsAnnounced

(* monitor.rs:303-306: when the user re-enables the monitor after a trip,  *)
(* the latch is reset on the next tick and the detector is armed again.    *)
RearmsWhenEnabled ==
  (running /\ tripped /\ monitor_enabled) ~> (~tripped \/ ~monitor_enabled \/ ~running)

=============================================================================
