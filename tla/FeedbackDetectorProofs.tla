----------------------- MODULE FeedbackDetectorProofs -----------------------
(***************************************************************************)
(* Proofs about FeedbackDetector, for every history length and every set   *)
(* of levels.                                                              *)
(***************************************************************************)

EXTENDS FeedbackDetector, TLAPS

USE DetectorAssumption
USE DEF shared, detector, sessions

(* What the counters and the history keep on every step. *)
DataOK ==
  /\ tick \in {"idle", "rearm", "sample", "trip", "announce"}
  /\ window_history \in [1..Windows -> Levels]
  /\ windows_filled \in 0..Windows
  /\ fresh \in 0..Windows
  /\ streak \in 0..Windows

FlagsOK ==
  /\ monitor_enabled \in BOOLEAN
  /\ feedback_detected \in BOOLEAN
  /\ shown \in BOOLEAN
  /\ dismissed \in BOOLEAN
  /\ running \in BOOLEAN
  /\ tripped \in BOOLEAN
  /\ prev_monitor_enabled \in BOOLEAN
  /\ unseen \in BOOLEAN

LEMMA TypeParts == TypeOK <=> DataOK /\ FlagsOK
BY DEF TypeOK, DataOK, FlagsOK

LEMMA SilenceType == Silence \in [1..Windows -> Levels]
BY DEF Silence

LEMMA CountType == \A n \in 0..Windows : Count(n) \in 0..Windows
BY DEF Count

LEMMA ShiftType ==
  ASSUME NEW h \in [1..Windows -> Levels], NEW rms \in Levels
  PROVE  Shift(h, rms) \in [1..Windows -> Levels]
BY DEF Shift

LEMMA FlagsStep ==
  ASSUME FlagsOK, Next
  PROVE  FlagsOK'
<1>1. CASE Start \/ Stop
  BY <1>1, Zenon DEF FlagsOK, Start, Stop
<1>2. CASE TickLoad \/ TickRearm
  BY <1>2, Zenon DEF FlagsOK, TickLoad, TickRearm
<1>3. CASE \E rms \in Levels : TickSample(rms)
  BY <1>3, Zenon DEF FlagsOK, TickSample
<1>4. CASE TickTrip \/ TickAnnounce
  BY <1>4, Zenon DEF FlagsOK, TickTrip, TickAnnounce
<1>5. CASE Frame \/ Toggle \/ Dismiss
  BY <1>5, Zenon DEF FlagsOK, Frame, Toggle, Dismiss
<1> QED BY <1>1, <1>2, <1>3, <1>4, <1>5 DEF Next, TickStep

LEMMA DataStep ==
  ASSUME DataOK, Next
  PROVE  DataOK'
<1>1. CASE Start \/ Stop
  BY <1>1, SilenceType DEF DataOK, Start, Stop
<1>2. CASE TickLoad \/ TickRearm
  BY <1>2, SilenceType DEF DataOK, TickLoad, TickRearm, TickGoes
<1>3. CASE \E rms \in Levels : TickSample(rms)
  <2>1. PICK rms \in Levels : TickSample(rms)
    BY <1>3
  <2>2. streak' \in 0..Windows
    <3>1. streak' = Count(streak) \/ streak' = 1
      BY <2>1 DEF TickSample
    <3> QED BY <3>1, CountType DEF DataOK
  <2>3. windows_filled' \in 0..Windows /\ fresh' \in 0..Windows
    BY <2>1, CountType DEF DataOK, TickSample
  <2>4. window_history' \in [1..Windows -> Levels]
    BY <2>1, ShiftType DEF DataOK, TickSample
  <2>5. tick' \in {"idle", "trip"}
    BY <2>1 DEF TickSample, TickGoes
  <2> QED BY <2>2, <2>3, <2>4, <2>5 DEF DataOK
<1>4. CASE TickTrip \/ TickAnnounce
  BY <1>4 DEF DataOK, TickTrip, TickAnnounce, TickGoes
<1>5. CASE Frame \/ Toggle \/ Dismiss
  BY <1>5 DEF DataOK, Frame, Toggle, Dismiss
<1> QED BY <1>1, <1>2, <1>3, <1>4, <1>5 DEF Next, TickStep

(* Counting both one up keeps them in order, also at the cap. *)
LEMMA CountMonotone ==
  \A m, n \in 0..Windows : m <= n => Count(m) <= Count(n)
BY DEF Count

LEMMA FreshStep ==
  ASSUME IInv, Next
  PROVE  FreshWindows'
<1> USE DEF IInv, FreshWindows
<1>1. CASE Start
  BY <1>1 DEF Start, TypeOK
<1>2. CASE Stop \/ Frame \/ Dismiss
  BY <1>2 DEF Stop, Frame, Dismiss
<1>7. CASE Toggle
  <2>1. CASE monitor_enabled' /\ ~monitor_enabled
    BY <1>7, <2>1 DEF Toggle
  <2>2. CASE ~(monitor_enabled' /\ ~monitor_enabled)
    BY <1>7, <2>2 DEF Toggle
  <2> QED BY <2>1, <2>2
<1>3. CASE TickLoad
  <2>1. CASE monitor_enabled /\ ~prev_monitor_enabled
    BY <1>3, <2>1 DEF TickLoad, TickGoes
  <2>2. CASE monitor_enabled /\ prev_monitor_enabled
    BY <1>3, <2>2 DEF TickLoad, TickGoes
  <2>3. CASE ~monitor_enabled
    BY <1>3, <2>3 DEF TickLoad, TickGoes
  <2> QED BY <2>1, <2>2, <2>3
<1>4. CASE TickRearm
  BY <1>4 DEF TickRearm, TickGoes, TypeOK
<1>5. CASE \E rms \in Levels : TickSample(rms)
  BY <1>5, CountMonotone DEF TickSample, TickGoes, TypeOK
<1>6. CASE TickTrip \/ TickAnnounce
  BY <1>6 DEF TickTrip, TickAnnounce, TickGoes
<1> QED BY <1>1, <1>2, <1>3, <1>4, <1>5, <1>6, <1>7 DEF Next, TickStep

LEMMA StreakStep ==
  ASSUME IInv, Next
  PROVE  StreakInHistory' /\ NoMissedTrip'
<1> USE DEF IInv, FreshWindows, StreakInHistory, NoMissedTrip
<1>0. Windows \in Nat \ {0} /\ streak \in 0..Windows /\ windows_filled \in 0..Windows
  BY DEF TypeOK
<1>1. CASE Start
  BY <1>0, <1>1 DEF Start
<1>2. CASE Stop \/ Frame \/ Toggle \/ Dismiss
  BY <1>2 DEF Stop, Frame, Toggle, Dismiss
<1>3. CASE TickLoad
  <2>1. CASE monitor_enabled /\ ~prev_monitor_enabled
    BY <1>0, <1>3, <2>1 DEF TickLoad, TickGoes
  <2>2. CASE monitor_enabled /\ prev_monitor_enabled
    BY <1>0, <1>3, <2>2 DEF TickLoad, TickGoes
  <2>3. CASE ~monitor_enabled
    BY <1>0, <1>3, <2>3 DEF TickLoad, TickGoes
  <2> QED BY <2>1, <2>2, <2>3
<1>4. CASE TickRearm
  BY <1>0, <1>4 DEF TickRearm, TickGoes
<1>5. CASE \E rms \in Levels : TickSample(rms)
  <2>1. PICK rms \in Levels : TickSample(rms)
    BY <1>5
  <2>2. tick = "sample" /\ streak < Windows /\ streak <= windows_filled
    BY <1>0, <2>1 DEF TickSample, TickGoes
  <2>3. windows_filled' = Count(windows_filled) /\ tripped' = tripped
        /\ prev_monitor_enabled' /\ tick' # "rearm" /\ tick' # "sample"
    BY <2>1, <2>2 DEF TickSample, TickGoes
  <2>4. streak' \in 1..Windows /\ streak' <= windows_filled'
    BY <1>0, <2>1, <2>2 DEF TickSample, Count
  <2>5. ASSUME NEW i \in 1..Windows - 1, i > Windows - streak'
        PROVE  Rise(window_history'[i], window_history'[i + 1])
    <3>1. /\ window_history'[i] = window_history[i + 1]
          /\ window_history'[i + 1] = IF i + 1 = Windows THEN rms ELSE window_history[i + 2]
      BY <1>0, <2>1 DEF TickSample, Shift
    <3>2. streak' = streak + 1 /\ Rise(window_history[Windows], rms)
      BY <1>0, <2>1, <2>2, <2>5 DEF TickSample, Count
    <3>3. CASE i + 1 = Windows
      BY <3>1, <3>2, <3>3
    <3>4. CASE i + 1 # Windows
      <4>1. i + 1 \in 1..Windows - 1 /\ i + 1 > Windows - streak /\ (i + 1) + 1 = i + 2
        BY <1>0, <2>5, <3>2, <3>4
      <4> QED BY <3>1, <3>4, <4>1
    <3> QED BY <3>3, <3>4
  <2>6. streak' = Windows => windows_filled' = Windows /\ AllRose(window_history')
    BY <1>0, <2>2, <2>3, <2>4, <2>5 DEF AllRose, Count
  <2>7. streak' = Windows => tick' = "trip"
    BY <2>1, <2>6 DEF TickSample, TickGoes
  <2> QED BY <2>3, <2>4, <2>5, <2>7
<1>6. CASE TickTrip \/ TickAnnounce
  BY <1>6 DEF TickTrip, TickAnnounce, TickGoes
<1> QED BY <1>1, <1>2, <1>3, <1>4, <1>5, <1>6 DEF Next, TickStep

LEMMA AnnouncedStep ==
  ASSUME TripIsAnnounced, Next
  PROVE  TripIsAnnounced'
<1> USE DEF TripIsAnnounced
<1>1. CASE Start \/ Stop \/ Frame \/ Toggle \/ Dismiss
  BY <1>1, Zenon DEF Start, Stop, Frame, Toggle, Dismiss
<1>2. CASE TickLoad
  BY <1>2 DEF TickLoad, TickGoes
<1>3. CASE TickRearm
  BY <1>3, Zenon DEF TickRearm
<1>4. CASE \E rms \in Levels : TickSample(rms)
  BY <1>4 DEF TickSample, TickGoes
<1>5. CASE TickTrip
  BY <1>5 DEF TickTrip, TickGoes
<1>6. CASE TickAnnounce
  BY <1>6, Zenon DEF TickAnnounce
<1> QED BY <1>1, <1>2, <1>3, <1>4, <1>5, <1>6 DEF Next, TickStep

LEMMA InitIInv == Init => IInv
<1> SUFFICES ASSUME Init PROVE IInv
  OBVIOUS
<1>1. FlagsOK
  BY Zenon DEF Init, FlagsOK
<1>2. DataOK
  BY SilenceType DEF Init, DataOK
<1>3. FreshWindows
  BY DEF Init, FreshWindows
<1>4. StreakInHistory /\ NoMissedTrip
  BY DEF Init, StreakInHistory, NoMissedTrip
<1>5. TripIsAnnounced
  BY Zenon DEF Init, TripIsAnnounced
<1> QED BY <1>1, <1>2, <1>3, <1>4, <1>5, TypeParts DEF IInv

LEMMA NextIInv == IInv /\ [Next]_vars => IInv'
<1> SUFFICES ASSUME IInv, [Next]_vars PROVE IInv'
  OBVIOUS
<1>1. FlagsOK /\ DataOK
  BY TypeParts DEF IInv
<1>2. CASE Next
  <2>1. FlagsOK' /\ DataOK'
    BY <1>1, <1>2, FlagsStep, DataStep
  <2>2. TypeOK'
    BY <2>1 DEF TypeOK, DataOK, FlagsOK
  <2>3. StreakInHistory' /\ NoMissedTrip'
    BY <1>2, StreakStep
  <2>4. TripIsAnnounced'
    BY <1>2, AnnouncedStep DEF IInv
  <2> QED BY <1>2, <2>2, <2>3, <2>4, FreshStep DEF IInv
<1>3. CASE UNCHANGED vars
  BY <1>3 DEF vars, IInv, TypeOK, FreshWindows, StreakInHistory, NoMissedTrip,
              TripIsAnnounced
<1> QED BY <1>2, <1>3

(* Every variable keeps its type; the counters never pass the history.     *)
THEOREM TypeCorrect == Spec => []TypeOK
<1>1. IInv => TypeOK
  BY DEF IInv
<1> QED BY <1>1, InitIInv, NextIInv, PTL DEF Spec

(* No trip rests on a window of an earlier session of the monitor unless   *)
(* the present one began between two loads of the toggle, for every length *)
(* of the history and every sequence of levels.                            *)
THEOREM TripsAreFresh == Spec => NoStaleTrip
<1>1. IInv /\ IInv' /\ [Next]_vars => [Trips => fresh' = Windows \/ unseen]_vars
  <2> SUFFICES ASSUME IInv, IInv', Next, Trips
               PROVE  fresh' = Windows \/ unseen
    BY DEF vars, Trips
  <2>1. fresh' = Windows \/ unseen'
    BY DEF Trips, IInv, TypeOK, FreshWindows
  <2>2. unseen' = unseen
    BY DEF Trips, Next, TickStep, Start, Stop, TickLoad, TickRearm, TickSample, TickTrip,
       TickAnnounce, TickGoes, Frame, Toggle, Dismiss
  <2> QED BY <2>1, <2>2
<1> QED BY <1>1, InitIInv, NextIInv, PTL DEF Spec, NoStaleTrip

(* Every full streak of rising windows trips the detector.                 *)
THEOREM NoTripIsMissed == Spec => []NoMissedTrip
<1>1. IInv => NoMissedTrip
  BY DEF IInv
<1> QED BY <1>1, InitIInv, NextIInv, PTL DEF Spec

(* The monitor is never taken away in silence.                             *)
THEOREM TripsAreAnnounced == Spec => []TripIsAnnounced
<1>1. IInv => TripIsAnnounced
  BY DEF IInv
<1> QED BY <1>1, InitIInv, NextIInv, PTL DEF Spec

=============================================================================
