----------------------------- MODULE Migrations -----------------------------
(***************************************************************************)
(* sqlite.Open of several server processes on one database file: migrate   *)
(* asks of each migration file, outside any transaction, whether it is in  *)
(* the ledger, and if not applies and records it in one transaction.  A    *)
(* process may die at any point; SQLite then rolls its transaction back.   *)
(***************************************************************************)
EXTENDS Naturals, FiniteSets

CONSTANTS
  Servers, \* server processes
  Nobody,  \* the writer when no migration is open
  Last     \* number of migration files, numbered in the order of their names

ASSUME MigrationsAssumption == Last \in Nat \ {0} /\ Nobody \notin Servers

VARIABLES
  stage,  \* how far each process has come
  file,   \* the migration file each process is at
  schema, \* migrations whose tables are in the database
  ledger, \* schema_migrations
  writer, \* the process in a migration transaction, which holds the write lock
  runs    \* history: how often each migration was applied

migrationVars == <<stage, file, schema, ledger, writer, runs>>

MigrationsInit ==
  /\ stage = [n \in Servers |-> "down"]
  /\ file = [n \in Servers |-> 1]
  /\ schema = {} /\ ledger = {}
  /\ writer = Nobody
  /\ runs = [m \in 1 .. Last |-> 0]

GoTo(n, s) == stage' = [stage EXCEPT ![n] = s]

\* Open; the ledger table is created if it is missing.
Open(n) ==
  /\ stage[n] = "down"
  /\ GoTo(n, "checking")
  /\ file' = [file EXCEPT ![n] = 1]
  /\ UNCHANGED <<schema, ledger, writer, runs>>

\* Every file has been looked at: Open returns a store.
Opened(n) ==
  /\ stage[n] = "checking" /\ file[n] > Last
  /\ GoTo(n, "up")
  /\ UNCHANGED <<file, schema, ledger, writer, runs>>

\* migrationApplied.
IsApplied(m) == m \in ledger

CheckApplied(n) ==
  /\ stage[n] = "checking" /\ file[n] <= Last
  /\ IF IsApplied(file[n])
     THEN file' = [file EXCEPT ![n] = @ + 1] /\ UNCHANGED stage
     ELSE GoTo(n, "applying") /\ UNCHANGED file
  /\ UNCHANGED <<schema, ledger, writer, runs>>

\* Mutant: the body runs outside the transaction.
ApplyOutsideTx(n) ==
  /\ stage[n] = "applying"
  /\ writer = Nobody /\ file[n] \notin schema
  /\ writer' = n
  /\ schema' = schema \cup {file[n]}
  /\ GoTo(n, "recording")
  /\ UNCHANGED <<file, ledger, runs>>

\* A transaction begins, and the body takes the write lock and runs in it.
Apply(n) ==
  /\ stage[n] = "applying"
  /\ writer = Nobody /\ file[n] \notin schema
  /\ writer' = n
  /\ GoTo(n, "recording")
  /\ UNCHANGED <<file, schema, ledger, runs>>

\* The body fails because its tables exist, or the wait for the lock runs out: Open
\* fails and the process exits.
ApplyFails(n) ==
  /\ stage[n] = "applying"
  /\ file[n] \in schema \/ writer # Nobody
  /\ GoTo(n, "down")
  /\ UNCHANGED <<file, schema, ledger, writer, runs>>

\* The ledger row is inserted in the same transaction, which commits.
Record(n) ==
  /\ stage[n] = "recording"
  /\ schema' = schema \cup {file[n]}
  /\ ledger' = ledger \cup {file[n]}
  /\ runs' = [runs EXCEPT ![file[n]] = @ + 1]
  /\ writer' = Nobody
  /\ file' = [file EXCEPT ![n] = @ + 1]
  /\ GoTo(n, "checking")

\* A step of a process between Open's call and its return.
OpenStep(n) == Opened(n) \/ CheckApplied(n) \/ Apply(n) \/ ApplyFails(n) \/ Record(n)

IsOpening(n) == stage[n] \in {"checking", "applying", "recording"}

\* The process dies; an open transaction is rolled back.
Die(n) ==
  /\ stage[n] # "down"
  /\ GoTo(n, "down")
  /\ writer' = IF writer = n THEN Nobody ELSE writer
  /\ UNCHANGED <<file, schema, ledger, runs>>

-----------------------------------------------------------------------------
(* Properties.                                                             *)

\* The ledger says exactly which migrations the database has, they are the first ones in
\* order, and each was applied once, however many servers start and die together
\* (migrate reads the ledger outside the transaction that writes it).
LedgerMatchesSchema ==
  /\ ledger = schema
  /\ \E k \in 0 .. Last : ledger = 1 .. k
  /\ \A m \in 1 .. Last : runs[m] = IF m \in ledger THEN 1 ELSE 0

=============================================================================
