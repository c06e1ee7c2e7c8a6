------------------------------- MODULE VoiceDb -------------------------------
(***************************************************************************)
(* womanizer-db: how a launch opens the voice database (lib.rs), brings    *)
(* its schema up to date (schema.rs) and seeds the voice "Default"         *)
(* (seed.rs).  Nothing keeps a user from launching twice, and a launch may *)
(* be killed between any two steps.  A migration is one transaction; the   *)
(* COUNT and the INSERT of the seed are two statements.                    *)
(***************************************************************************)

EXTENDS Integers

CONSTANT Launches   \* processes running the program

VARIABLES
  tables,        \* migrations whose tables and indexes exist
  user_version,  \* PRAGMA user_version
  defaults,      \* rows named "Default" in voices
  step,          \* where each launch is
  pending,       \* the migration each launch is to apply next
  raced          \* history: another launch migrated in the meantime

disk == <<tables, user_version, defaults>>
db == <<tables, user_version, defaults, step, pending, raced>>

Latest == 2   \* Len(MIGRATIONS_SLICE)

Steps == {"off", "migrate", "count", "insert", "open", "setup", "ready", "failed"}

DbTypeOK ==
  /\ tables \in 0..Latest /\ user_version \in 0..Latest
  /\ defaults \in Nat
  /\ step \in [Launches -> Steps]
  /\ pending \in [Launches -> 1..(Latest + 1)]
  /\ raced \in [Launches -> BOOLEAN]

(* No file yet. *)
DbInit ==
  /\ tables = 0 /\ user_version = 0 /\ defaults = 0
  /\ step = [l \in Launches |-> "off"]
  /\ pending = [l \in Launches |-> 1]
  /\ raced = [l \in Launches |-> FALSE]

At(l, s) == step[l] = s
Goto(l, s) == step' = [step EXCEPT ![l] = s]

(* Connection::open, and to_latest reads user_version. *)
OpenDb(l) ==
  /\ step[l] \in {"off", "failed"} /\ Goto(l, "migrate")
  /\ pending' = [pending EXCEPT ![l] = user_version + 1]
  /\ raced' = [raced EXCEPT ![l] = FALSE]
  /\ UNCHANGED disk

(* What migration m does to the tables: CREATE TABLE fails where the table *)
(* exists, CREATE UNIQUE INDEX IF NOT EXISTS does not.                     *)
Applies(m) == m = 1 => tables = 0

(* Mutant: the version is written in a transaction of its own, which a     *)
(* crash can lose.                                                         *)
CommitInTwo(m) ==
  /\ tables' = IF tables < m THEN m ELSE tables
  /\ user_version' \in {user_version, m}

Commit(m) ==
  /\ tables' = IF tables < m THEN m ELSE tables
  /\ user_version' = m

Migrate(l) ==
  /\ At(l, "migrate") /\ pending[l] <= Latest /\ Applies(pending[l])
  /\ Commit(pending[l])
  /\ pending' = [pending EXCEPT ![l] = @ + 1]
  /\ raced' = [k \in Launches |-> raced[k] \/ (k # l /\ At(k, "migrate"))]
  /\ UNCHANGED <<defaults, step>>

(* The error ends the launch. *)
MigrateFails(l) ==
  /\ At(l, "migrate") /\ pending[l] <= Latest /\ ~Applies(pending[l])
  /\ Goto(l, "failed")
  /\ UNCHANGED <<disk, pending, raced>>

MigrateDone(l) ==
  /\ At(l, "migrate") /\ pending[l] > Latest /\ Goto(l, "count")
  /\ UNCHANGED <<disk, pending, raced>>

(* seed_default_if_empty: SELECT COUNT( * ), ... *)
CountVoices(l) ==
  /\ At(l, "count") /\ Goto(l, IF defaults = 0 THEN "insert" ELSE "open")
  /\ UNCHANGED <<disk, pending, raced>>

(* Mutant: a plain INSERT into a table without the unique index. *)
InsertRow == defaults + 1

(* INSERT OR IGNORE under voices_name_uniq. *)
InsertOrIgnore == IF tables = 2 /\ defaults > 0 THEN defaults ELSE defaults + 1

(* ... and the INSERT, which does not look at the count again. *)
InsertDefault(l) ==
  /\ At(l, "insert") /\ Goto(l, "open")
  /\ defaults' = InsertOrIgnore
  /\ UNCHANGED <<tables, user_version, pending, raced>>

InitConn(l) ==
  \/ Migrate(l)
  \/ MigrateFails(l)
  \/ MigrateDone(l)
  \/ CountVoices(l)
  \/ InsertDefault(l)

-----------------------------------------------------------------------------
(* seed.rs:12-15: however launches overlap and crash there is never more   *)
(* than one Default, and a launch that has opened the database has one.    *)
SeededOnce ==
  /\ defaults <= 1
  /\ \A l \in Launches : step[l] \in {"open", "setup", "ready"} => defaults = 1

(* schema.rs:4-8: a launch never fails on what an earlier launch left      *)
(* behind, wherever that was killed; only on one that migrates at the same *)
(* time.                                                                   *)
FailureMeansRace == \A l \in Launches : At(l, "failed") => raced[l]

=============================================================================
