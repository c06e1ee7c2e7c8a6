-------------------------- MODULE AppLaunchProofs --------------------------
(* The database is seeded once and a launch fails only against another one; *)
(* the engine is spawned with the confirmed device, which is the one that   *)
(* was found: for any number of launches, any devices and any names.        *)
EXTENDS AppLaunch, FiniteSetTheorems, WellFoundedInduction, TLAPS

USE DevicesAssumption, LaunchAssumption

-----------------------------------------------------------------------------
(* Places in a list. *)

(* A nonempty set of places has a first one.                                *)
LEMMA FirstPlace ==
  ASSUME NEW X \in SUBSET Nat, X # {}
  PROVE  Min(X) \in X /\ \A k \in X : Min(X) <= k
<1> DEFINE Below == {0..m : m \in X}
           R == StrictSubsetOrdering(Nat)
<1>1. Below \subseteq FiniteSubsetsOf(Nat) /\ Below # {}
  <2>1. \A m \in X : 0..m \in SUBSET Nat /\ IsFiniteSet(0..m)
    BY FS_Interval
  <2> QED BY <2>1 DEF FiniteSubsetsOf
<1>2. PICK b \in Below : \A c \in Below : ~ (<<c, b>> \in R)
  <2>1. IsWellFoundedOn(R, FiniteSubsetsOf(Nat))
    BY FS_StrictSubsetOrderingWellFounded
  <2> HIDE DEF R, Below
  <2> QED BY <1>1, <2>1, WFMin
<1>3. PICK m \in X : b = 0..m
  BY <1>2
<1>4. ASSUME NEW k \in X, k < m
      PROVE  FALSE
  <2>1. 0..k \in Below /\ 0..k \subseteq 0..m /\ m \in 0..m /\ m \notin 0..k
    BY <1>4
  <2>2. <<0..k, 0..m>> \in R
    BY <2>1 DEF StrictSubsetOrdering
  <2> QED BY <1>2, <1>3, <2>1, <2>2
<1>5. \E i \in X : \A k \in X : i <= k
  BY <1>4
<1> QED BY <1>5 DEF Min

(* The device that detect() takes is in the list, and none before it has a  *)
(* name that the pattern accepts.                                           *)
LEMMA DetectedIsFirst ==
  ASSUME NEW list \in Enumerations, Matched(list) # {}
  PROVE  /\ Min(Matched(list)) \in Matched(list)
         /\ \A k \in Matched(list) : Min(Matched(list)) <= k
         /\ Detected(list) \in OutputDevs /\ ComposedName(Detected(list)) \in Names
<1>1. list \in Seq(OutputDevs) /\ Matched(list) \in SUBSET Nat
  BY DEF Matched
<1>2. Min(Matched(list)) \in Matched(list) /\ \A k \in Matched(list) : Min(Matched(list)) <= k
  BY <1>1, FirstPlace
<1>3. Detected(list) \in OutputDevs
  BY <1>1, <1>2 DEF Detected, Matched
<1> QED BY <1>2, <1>3 DEF Names

(* Devices with one composed name have one endpoint.                        *)
LEMMA ComposedNameTellsEndpoint ==
  ASSUME NEW d, NEW e, ComposedName(d) = ComposedName(e)
  PROVE  BareName(d) = BareName(e)
<1>1. ComposedName(d)[1] = d.endpoint /\ ComposedName(e)[1] = e.endpoint
  BY DEF ComposedName
<1> QED BY <1>1 DEF BareName

(* A search by the composed name of the detected device finds that device:  *)
(* another of the same name before it would have been detected itself.      *)
LEMMA DetectedIsFoundByName ==
  ASSUME NEW list \in Enumerations, Matched(list) # {}
  PROVE  ToOpen(list, ComposedName(Detected(list))) = {Detected(list)}
<1> DEFINE name == ComposedName(Detected(list))
           first == Min(Matched(list))
<1>1. first \in Matched(list) /\ \A k \in Matched(list) : first <= k
  BY DetectedIsFirst
<1>2. first \in Named(list, name)
  BY <1>1 DEF Detected, Matched, Named
<1>3. Named(list, name) \subseteq Matched(list)
  <2> SUFFICES ASSUME NEW i \in Named(list, name) PROVE i \in Matched(list)
    OBVIOUS
  <2>1. ComposedName(list[i]) = ComposedName(list[first])
    BY DEF Named, Detected
  <2>2. BareName(list[i]) = BareName(list[first])
    BY <2>1, ComposedNameTellsEndpoint
  <2> QED BY <1>1, <2>1, <2>2 DEF Matched, Named
<1>4. Named(list, name) \in SUBSET Nat
  BY <1>3 DEF Matched
<1>5. Min(Named(list, name)) = first
  <2>1. Min(Named(list, name)) \in Named(list, name)
        /\ \A k \in Named(list, name) : Min(Named(list, name)) <= k
    BY <1>2, <1>4, FirstPlace
  <2> QED BY <1>1, <1>2, <1>3, <1>4, <2>1
<1> QED BY <1>2, <1>5 DEF ToOpen, FindOutputByName, Detected

-----------------------------------------------------------------------------
(* The inductive invariant. *)

(* Where a launch is that has brought the schema up to date.                *)
Migrated == {"count", "insert", "open", "setup", "ready"}

(* user_version tells the truth, no launch is ahead of it, and one that     *)
(* nobody raced is not behind it either.                                    *)
Versions ==
  /\ user_version = tables
  /\ \A l \in Launches :
       /\ pending[l] <= user_version + 1
       /\ step[l] \in Migrated => tables = Latest
       /\ At(l, "migrate") /\ ~raced[l] => pending[l] = user_version + 1

(* The timer runs for a confirmed device only, and a device that the test   *)
(* found stays the choice: the combo box is hidden.                         *)
GateOf(l) ==
  /\ flash_until[l] # "none" =>
       /\ last_detection[l] # NotFound \/ At(l, "ready")
       /\ picked_vout[l] # None /\ confirmed[l] = picked_vout[l]
  /\ At(l, "ready") => vout[l] = confirmed[l] /\ confirmed[l] # None
  /\ proved[l] # None =>
       /\ Detects(outputs) /\ proved[l] = Detected(outputs)
       /\ last_detection[l] = ComposedName(proved[l])
       /\ confirmed[l] = ComposedName(proved[l])

GateAgrees == \A l \in Launches : GateOf(l)

IInv == TypeOK /\ Versions /\ SeededOnce /\ FailureMeansRace /\ GateAgrees

(* What the program or the user does in one step of a launch, by name.      *)
LEMMA StepCases ==
  ASSUME [Next]_vars
  PROVE  \/ \E l \in Launches : Start(l) \/ Initialise(l) \/ OpenWindow(l) \/ End(l)
         \/ \E l \in Launches : ClickFrame(l) \/ RepaintFrame(l) \/ FlashElapses(l)
         \/ Plug \/ UNCHANGED vars
  BY DEF Next

(* What a click may leave of the fields of its launch.                      *)
LEMMA ClickTypes ==
  ASSUME TypeOK, NEW l \in Launches, Click(l) \/ NoClick
  PROVE  /\ flash_until' \in [Launches -> {"none", "later", "due"}]
         /\ last_detection' \in [Launches -> Names \union {None, NotFound}]
         /\ picked_vout' \in [Launches -> Names \union {None}]
         /\ confirmed' \in [Launches -> Names \union {None}]
         /\ proved' \in [Launches -> OutputDevs \union {None}]
<1> USE DEF TypeOK, Set
<1>1. CASE TestFinds(l)
  <2>1. outputs \in Enumerations /\ Matched(outputs) # {}
    BY <1>1 DEF TestFinds, Detects
  <2>2. Detected(outputs) \in OutputDevs /\ ComposedName(Detected(outputs)) \in Names
    BY <2>1, DetectedIsFirst
  <2> QED BY <1>1, <2>2 DEF TestFinds
<1>2. CASE TestFails(l)
  BY <1>2 DEF TestFails
<1>3. ASSUME NEW name \in EnumerateOutputs(outputs), Pick(l, name)
      PROVE  picked_vout' \in [Launches -> Names \union {None}]
  <2>1. name \in Names
    BY DEF EnumerateOutputs, Names, OutputDevs
  <2> QED BY <1>3, <2>1 DEF Pick
<1>4. CASE \E name \in EnumerateOutputs(outputs) : Pick(l, name)
  BY <1>3, <1>4 DEF Pick
<1>5. CASE Use(l)
  BY <1>5 DEF Use
<1>6. CASE NoClick
  BY <1>6 DEF NoClick
<1> QED BY <1>1, <1>2, <1>4, <1>5, <1>6 DEF Click

(* Every field keeps its type.                                              *)
LEMMA TypePreserved == IInv /\ [Next]_vars => TypeOK'
<1> SUFFICES ASSUME IInv, [Next]_vars PROVE TypeOK'
  OBVIOUS
<1> USE DEF IInv, TypeOK, DbTypeOK, Set, At, Goto, disk, world, gate, Steps, Latest
<1>1. ASSUME NEW l \in Launches, Start(l) PROVE TypeOK'
  BY <1>1 DEF Start, OpenDb
<1>2. ASSUME NEW l \in Launches, Initialise(l) PROVE TypeOK'
  <2>1. CASE Migrate(l)
    BY <1>2, <2>1 DEF Initialise, Migrate, Commit, Applies
  <2>2. CASE MigrateFails(l) \/ MigrateDone(l)
    BY <1>2, <2>2 DEF Initialise, MigrateFails, MigrateDone
  <2>3. CASE CountVoices(l)
    BY <1>2, <2>3 DEF Initialise, CountVoices
  <2>4. CASE InsertDefault(l)
    BY <1>2, <2>4 DEF Initialise, InsertDefault, InsertOrIgnore
  <2> QED BY <1>2, <2>1, <2>2, <2>3, <2>4 DEF Initialise, InitConn
<1>3. ASSUME NEW l \in Launches, OpenWindow(l) PROVE TypeOK'
  BY <1>3 DEF OpenWindow, ReadSetting
<1>4. ASSUME NEW l \in Launches, End(l) PROVE TypeOK'
  BY <1>4 DEF End
<1>5. ASSUME NEW l \in Launches, Click(l) \/ NoClick, Decide(l), 
             UNCHANGED <<disk, pending, raced, world, last_vout>>
      PROVE  TypeOK'
  <2>1. /\ flash_until' \in [Launches -> {"none", "later", "due"}]
        /\ last_detection' \in [Launches -> Names \union {None, NotFound}]
        /\ picked_vout' \in [Launches -> Names \union {None}]
        /\ confirmed' \in [Launches -> Names \union {None}]
        /\ proved' \in [Launches -> OutputDevs \union {None}]
    BY <1>5, ClickTypes
  <2>2. Selected(picked_vout'[l], last_vout[l]) \in Names \union {None}
    BY <2>1 DEF Selected
  <2>3. step' \in [Launches -> Steps] /\ repaint' \in [Launches -> BOOLEAN]
    BY <1>5 DEF Decide
  <2>4. vout' \in [Launches -> Names \union {None}]
    BY <1>5, <2>2 DEF Decide
  <2> QED BY <1>5, <2>1, <2>3, <2>4
<1>6. ASSUME NEW l \in Launches, FlashElapses(l) PROVE TypeOK'
  BY <1>6 DEF FlashElapses, db
<1>7. CASE Plug
  BY <1>7 DEF Plug, db
<1>8. CASE UNCHANGED vars
  BY <1>8 DEF vars
<1> QED BY <1>1, <1>2, <1>3, <1>4, <1>5, <1>6, <1>7, <1>8, StepCases DEF ClickFrame, RepaintFrame

-----------------------------------------------------------------------------
(* The database. *)

DbInv == Versions /\ SeededOnce /\ FailureMeansRace

(* A migration is one transaction, so whatever it finds was left by whole   *)
(* ones; a launch that commits makes every other one in its loop a racer.   *)
LEMMA MigratePreservesDb ==
  ASSUME IInv, NEW l \in Launches, Migrate(l)
  PROVE  DbInv'
<1> USE DEF IInv, TypeOK, DbTypeOK, DbInv, Latest, At
<1>1. /\ pending[l] \in 1..2 /\ tables' = pending[l] /\ user_version' = pending[l]
      /\ user_version <= user_version'
  BY DEF Migrate, Commit, Applies, Versions
<1>2. ASSUME NEW k \in Launches
      PROVE  /\ pending'[k] <= user_version' + 1
             /\ step'[k] \in Migrated => tables' = Latest
             /\ step'[k] = "migrate" /\ ~raced'[k] => pending'[k] = user_version' + 1
  <2>1. CASE k = l
    BY <1>1, <2>1 DEF Migrate, Migrated
  <2>2. CASE k # l
    <3>1. pending'[k] = pending[k] /\ step'[k] = step[k] /\ pending[k] \in 1..3
          /\ pending[k] <= user_version + 1
      BY <2>2 DEF Migrate, Versions
    <3>2. step[k] \in Migrated => tables' = Latest
      BY <1>1 DEF Versions
    <3>3. step[k] = "migrate" => raced'[k]
      BY <2>2 DEF Migrate
    <3>4. pending'[k] <= user_version' + 1
      BY <1>1, <3>1
    <3> QED BY <3>1, <3>2, <3>3, <3>4
  <2> QED BY <2>1, <2>2
<1>4. Versions'
  BY <1>1, <1>2 DEF Versions
<1>3. SeededOnce' /\ FailureMeansRace'
  BY DEF Migrate, SeededOnce, FailureMeansRace
<1> QED BY <1>3, <1>4

(* The database keeps its promises: a row is inserted only under the unique *)
(* index, and a migration that nobody raced applies.                        *)
LEMMA DbPreserved == IInv /\ [Next]_vars => DbInv'
<1> SUFFICES ASSUME IInv, [Next]_vars PROVE DbInv'
  OBVIOUS
<1> USE DEF IInv, TypeOK, DbTypeOK, DbInv, Versions, SeededOnce, FailureMeansRace, Migrated,
        At, Goto, disk, Latest
<1>1. ASSUME NEW l \in Launches, Start(l) PROVE DbInv'
  BY <1>1 DEF Start, OpenDb
<1>2. ASSUME NEW l \in Launches, Initialise(l) PROVE DbInv'
  <2>1. CASE Migrate(l)
    BY <2>1, MigratePreservesDb
  <2>2. CASE MigrateFails(l)
    BY <2>2 DEF MigrateFails, Applies
  <2>3. CASE MigrateDone(l)
    BY <2>3 DEF MigrateDone
  <2>4. CASE CountVoices(l)
    BY <2>4 DEF CountVoices
  <2>5. CASE InsertDefault(l)
    BY <2>5 DEF InsertDefault, InsertOrIgnore
  <2> QED BY <1>2, <2>1, <2>2, <2>3, <2>4, <2>5 DEF Initialise, InitConn
<1>3. ASSUME NEW l \in Launches, OpenWindow(l) \/ End(l) PROVE DbInv'
  <2>1. /\ UNCHANGED <<disk, pending, raced>>
        /\ \E s \in {"setup", "off"} : step' = [step EXCEPT ![l] = s]
        /\ step'[l] = "setup" => step[l] = "open"
    BY <1>3 DEF OpenWindow, End
  <2> QED BY <2>1
<1>4. ASSUME NEW l \in Launches, ClickFrame(l) \/ RepaintFrame(l) PROVE DbInv'
  BY <1>4 DEF ClickFrame, RepaintFrame, Decide
<1>5. ASSUME NEW l \in Launches, FlashElapses(l) PROVE DbInv'
  BY <1>5 DEF FlashElapses, db
<1>6. CASE Plug \/ UNCHANGED vars
  BY <1>6 DEF Plug, db, vars
<1> QED BY <1>1, <1>2, <1>3, <1>4, <1>5, <1>6, StepCases

-----------------------------------------------------------------------------
(* The setup gate. *)

(* A frame on the setup screen: each click leaves the gate so that, if the  *)
(* frame then spawns the engine, it does so with the confirmed device.      *)
LEMMA FramePreservesGate ==
  ASSUME IInv, NEW l \in Launches, At(l, "setup"), Click(l) \/ NoClick, Decide(l),
         UNCHANGED <<disk, pending, raced, world, last_vout>>
  PROVE  GateOf(l)' /\ \A k \in Launches : k # l => (GateOf(k) => GateOf(k)')
<1> USE DEF IInv, TypeOK, DbTypeOK, Set, At, world
<1>1. GateOf(l)
  BY DEF GateAgrees, GateOf
<1>2. /\ flash_until'[l] # "none" =>
           /\ last_detection'[l] # NotFound \/ flash_until'[l] = "due"
           /\ picked_vout'[l] # None /\ confirmed'[l] = picked_vout'[l]
      /\ proved'[l] # None =>
           /\ Detects(outputs) /\ proved'[l] = Detected(outputs)
           /\ last_detection'[l] = ComposedName(proved'[l])
           /\ confirmed'[l] = ComposedName(proved'[l])
  <2>1. CASE TestFinds(l)
    <3>1. Matched(outputs) # {}
      BY <2>1 DEF TestFinds, Detects
    <3>2. ComposedName(Detected(outputs)) \in Names
      BY <3>1, DetectedIsFirst
    <3> QED BY <2>1, <3>2 DEF TestFinds
  <2>2. CASE TestFails(l)
    BY <2>2 DEF TestFails
  <2>3. proved[l] # None => last_detection[l] # NotFound
    <3>1. ASSUME proved[l] # None PROVE last_detection[l] \in Names
      <4>1. Matched(outputs) # {} /\ last_detection[l] = ComposedName(Detected(outputs))
        BY <1>1, <3>1 DEF GateOf, Detects
      <4> QED BY <4>1, DetectedIsFirst
    <3> QED BY <3>1
  <2>4. CASE \E name \in EnumerateOutputs(outputs) : Pick(l, name)
    BY <1>1, <2>3, <2>4 DEF Pick, GateOf
  <2>5. CASE Use(l)
    BY <1>1, <2>3, <2>5 DEF Use, GateOf
  <2>6. CASE NoClick
    BY <1>1, <2>6 DEF NoClick, GateOf
  <2> QED BY <2>1, <2>2, <2>4, <2>5, <2>6 DEF Click
<1>3. IF flash_until'[l] = "due"
      THEN step'[l] = "ready" /\ vout'[l] = Selected(picked_vout'[l], last_vout[l])
      ELSE step'[l] = "setup"
  BY DEF Decide, Goto
<1>4. GateOf(l)'
  BY <1>2, <1>3 DEF GateOf, Selected
<1>5. ASSUME NEW k \in Launches, k # l, GateOf(k)
      PROVE  GateOf(k)'
  <2>1. /\ flash_until'[k] = flash_until[k] /\ last_detection'[k] = last_detection[k]
        /\ picked_vout'[k] = picked_vout[k] /\ confirmed'[k] = confirmed[k]
        /\ proved'[k] = proved[k]
    BY <1>5 DEF Click, TestFinds, TestFails, Pick, Use, NoClick
  <2>2. step'[k] = step[k] /\ vout'[k] = vout[k]
    BY <1>5 DEF Decide, Goto
  <2> QED BY <1>5, <2>1, <2>2 DEF GateOf
<1> QED BY <1>4, <1>5

(* The gate stays in agreement with itself and with the devices.            *)
LEMMA GatePreserved == IInv /\ [Next]_vars => GateAgrees'
<1> SUFFICES ASSUME IInv, [Next]_vars, NEW k \in Launches PROVE GateOf(k)'
  BY DEF GateAgrees
<1>0. GateOf(k)
  BY DEF IInv, GateAgrees
<1> USE DEF IInv, TypeOK, DbTypeOK, Set, At, Goto, disk, world, gate
<1>1. ASSUME NEW l \in Launches, Start(l) \/ Initialise(l) PROVE GateOf(k)'
  <2>1. UNCHANGED <<world, gate>> /\ (step'[k] = "ready" => step[k] = "ready")
    BY <1>1 DEF Start, OpenDb, Initialise, InitConn, Migrate, MigrateFails, MigrateDone,
       CountVoices, InsertDefault
  <2>2. step[k] = "ready" => step'[k] = "ready"
    BY <1>1 DEF Start, OpenDb, Initialise, InitConn, Migrate, MigrateFails, MigrateDone,
       CountVoices, InsertDefault
  <2> QED BY <1>0, <2>1, <2>2 DEF GateOf
<1>2. ASSUME NEW l \in Launches, OpenWindow(l) PROVE GateOf(k)'
  BY <1>0, <1>2 DEF OpenWindow, GateOf
<1>3. ASSUME NEW l \in Launches, End(l) PROVE GateOf(k)'
  BY <1>0, <1>3 DEF End, GateOf
<1>4. ASSUME NEW l \in Launches, ClickFrame(l) \/ RepaintFrame(l) PROVE GateOf(k)'
  BY <1>0, <1>4, FramePreservesGate DEF ClickFrame, RepaintFrame
<1>5. ASSUME NEW l \in Launches, FlashElapses(l) PROVE GateOf(k)'
  BY <1>0, <1>5 DEF FlashElapses, db, GateOf
<1>6. CASE Plug
  BY <1>0, <1>6 DEF Plug, db, GateOf
<1>7. CASE UNCHANGED vars
  BY <1>0, <1>7 DEF vars, GateOf, Detects, Detected
<1> QED BY <1>1, <1>2, <1>3, <1>4, <1>5, <1>6, <1>7, StepCases

-----------------------------------------------------------------------------
(* The theorems. *)

(* The invariant holds in every state of every launch.                      *)
LEMMA Inductive == Spec => []IInv
<1>1. Init => IInv
  <2> SUFFICES ASSUME Init PROVE IInv
    OBVIOUS
  <2> USE DEF Init, DbInit, At
  <2>1. TypeOK
    BY DEF TypeOK, DbTypeOK, Latest, Steps
  <2>2. Versions /\ SeededOnce /\ FailureMeansRace
    BY DEF Versions, Migrated, Latest, SeededOnce, FailureMeansRace
  <2>3. GateAgrees
    BY DEF GateAgrees, GateOf
  <2> QED BY <2>1, <2>2, <2>3 DEF IInv
<1>2. IInv /\ [Next]_vars => IInv'
  BY TypePreserved, DbPreserved, GatePreserved DEF IInv, DbInv
<1>3. QED
  BY <1>1, <1>2, PTL DEF Spec

(* However many launches overlap, and wherever they are killed, there is    *)
(* one Default at most, and one for each launch that has the database open  *)
(* (seed.rs:12-15).                                                         *)
THEOREM DefaultIsUnique == Spec => []SeededOnce
<1>1. IInv => SeededOnce
  BY DEF IInv
<1>2. QED
  BY <1>1, Inductive, PTL

(* A launch fails only on a migration that another launch made at the same  *)
(* time, never on what a killed one left behind (schema.rs:4-8).            *)
THEOREM OnlyRacersFail == Spec => []FailureMeansRace
<1>1. IInv => FailureMeansRace
  BY DEF IInv
<1>2. QED
  BY <1>1, Inductive, PTL

(* The engine is spawned with the device found last or confirmed by hand    *)
(* (setup_screen.rs:49-60, 110-118), whatever is clicked before.            *)
THEOREM ConfirmedIsSpawned == Spec => []SpawnsConfirmedOutput
<1>1. IInv => SpawnsConfirmedOutput
  BY DEF IInv, GateAgrees, GateOf, SpawnsConfirmedOutput
<1>2. QED
  BY <1>1, Inductive, PTL

(* The engine opens the very device the test found, for any list of devices *)
(* and any pattern of names (setup_screen.rs:50-54).                        *)
THEOREM DetectedIsOpened == Spec => []DetectedDeviceOpens
<1>1. IInv => DetectedDeviceOpens
  <2> SUFFICES ASSUME IInv, NEW l \in Launches, At(l, "ready"), proved[l] # None
               PROVE  ToOpen(outputs, vout[l]) = {proved[l]} /\ PickOutputConfig(proved[l])
    BY DEF DetectedDeviceOpens
  <2>1. /\ Detects(outputs) /\ proved[l] = Detected(outputs)
        /\ vout[l] = ComposedName(Detected(outputs))
    BY DEF IInv, GateAgrees, GateOf
  <2>2. outputs \in Enumerations /\ Matched(outputs) # {}
    BY <2>1 DEF IInv, TypeOK, Detects
  <2> QED BY <2>1, <2>2, DetectedIsFoundByName DEF PickOutputConfig, Detects
<1>2. QED
  BY <1>1, Inductive, PTL

=============================================================================
