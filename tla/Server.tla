------------------------------- MODULE Server -------------------------------
(***************************************************************************)
(* Server processes (cmd/server/main.go) over one database: a process      *)
(* opens the store, which migrates; serves requests and runs the worker;   *)
(* and stops on a signal, when its listener fails, or by dying.  Requests  *)
(* live in a process, sessions in the database.                            *)
(***************************************************************************)
EXTENDS Migrations, Sessions

VARIABLES
  host,  \* the process each request is in
  worker, \* the worker goroutine of each process
  exit   \* how each process last ended

procVars == <<host, worker, exit>>

allVars == <<migrationVars, sessionVars, procVars>>

Init ==
  /\ MigrationsInit /\ SessionsInit
  /\ host = [r \in Requests |-> Nobody]
  /\ worker = [n \in Servers |-> "off"]
  /\ exit = [n \in Servers |-> "none"]

RequestsOf(n) == {r \in Requests : request[r].step # "none" /\ host[r] = n}

\* Requests of a process that ends are cut off; what they have committed stays.
CutOff(n) == request' = [r \in Requests |-> IF r \in RequestsOf(n) THEN NoRequest ELSE request[r]]

End(n, how) ==
  /\ Die(n)
  /\ CutOff(n)
  /\ worker' = [worker EXCEPT ![n] = "off"]
  /\ exit' = [exit EXCEPT ![n] = how]
  /\ UNCHANGED <<session, logouts, now, host>>

\* The process is started, or restarted; its database opens step by step.
Start(n) == Open(n) /\ exit' = [exit EXCEPT ![n] = "none"] /\ UNCHANGED <<sessionVars, host, worker>>

\* Once the store is open the worker starts, with a pass, and so does the listener.
Opening(n) ==
  /\ OpenStep(n)
  /\ worker' = IF stage'[n] = "up" THEN [worker EXCEPT ![n] = "passing"] ELSE worker
  /\ exit' = IF stage'[n] = "down" THEN [exit EXCEPT ![n] = "failed"] ELSE exit
  /\ UNCHANGED <<sessionVars, host>>

\* A request is accepted by a process that listens.
Accept(n, r) ==
  /\ stage[n] = "up"
  /\ Login(r) \/ \E s \in Ids : Arrive(r, s)
  /\ host' = [host EXCEPT ![r] = n]
  /\ UNCHANGED <<migrationVars, worker, exit>>

Serve(r) ==
  /\ RequestStep(r)
  /\ UNCHANGED <<migrationVars, procVars>>

MoveWorker(n, from, to) ==
  /\ worker[n] = from
  /\ worker' = [worker EXCEPT ![n] = to]
  /\ UNCHANGED <<migrationVars, sessionVars, host, exit>>

\* The ticker fires and a pass begins; it ends by committing or, once the process is
\* stopping, by being rolled back with its cancelled context, and the loop returns.
WorkerWakes(n) == stage[n] = "up" /\ MoveWorker(n, "waiting", "passing")
WorkerSleeps(n) == stage[n] = "up" /\ MoveWorker(n, "passing", "waiting")
WorkerReturns(n) ==
  /\ stage[n] \in {"stopping", "joining"}
  /\ \E from \in {"waiting", "passing"} : MoveWorker(n, from, "returned")

\* SIGINT or SIGTERM: the worker's context ends and the listener stops accepting.
Signal(n) ==
  /\ stage[n] = "up"
  /\ GoTo(n, "stopping")
  /\ UNCHANGED <<file, schema, ledger, writer, runs, sessionVars, procVars>>

\* Shutdown returns nil.
Drained(n) == RequestsOf(n) = {}

Drain(n) ==
  /\ stage[n] = "stopping" /\ Drained(n)
  /\ GoTo(n, "joining")
  /\ UNCHANGED <<file, schema, ledger, writer, runs, sessionVars, procVars>>

\* Mutant: Shutdown has no timeout.
ShutdownWaits(n) == FALSE

\* The shutdown timeout passes first: run returns the error without waiting for the worker.
ShutdownTimesOut(n) == stage[n] = "stopping" /\ ~Drained(n) /\ End(n, "failed")

\* Mutant: run does not wait for the worker.
JoinedAtOnce(n) == TRUE

\* workerDone has been received.
Joined(n) == worker[n] = "returned"

Stop(n) == stage[n] = "joining" /\ Joined(n) /\ End(n, "clean")

\* The listener fails and run returns at once.
ListenFails(n) == stage[n] = "up" /\ End(n, "failed")

Crash(n) == End(n, "failed")

Next ==
  \/ \E n \in Servers :
       \/ Start(n) \/ Opening(n) \/ \E r \in Requests : Accept(n, r)
       \/ WorkerWakes(n) \/ WorkerSleeps(n) \/ WorkerReturns(n)
       \/ Signal(n) \/ Drain(n) \/ ShutdownTimesOut(n) \/ Stop(n) \/ ListenFails(n) \/ Crash(n)
  \/ \E r \in Requests : Serve(r)
  \/ Tick /\ UNCHANGED <<migrationVars, procVars>>

Spec == Init /\ [][Next]_allVars

\* A process that runs takes its steps: migrate loops over the files, the worker's loop
\* sees its context end, and Shutdown returns by its timeout at the latest.
FairSpec ==
  /\ Spec
  /\ \A n \in Servers : /\ WF_allVars(Opening(n))
                        /\ WF_allVars(WorkerReturns(n))
                        /\ WF_allVars(Drain(n) \/ ShutdownTimesOut(n) \/ Stop(n))

-----------------------------------------------------------------------------
(* Properties.                                                             *)

ServedOnWholeSchema ==
  \A n \in Servers :
    stage[n] \in {"up", "stopping", "joining"} => ledger = 1 .. Last /\ writer = Nobody

\* The ledger says what the schema is, and whoever serves a request does so on the whole
\* of it with no migration under way beside it: another process that starts meanwhile
\* finds the ledger full or fails.
SchemaSound == LedgerMatchesSchema /\ ServedOnWholeSchema

\* Ended sessions are rejected and end once, also when requests are cut off half way by
\* the end of their process and go on in another one.
SessionsEnd == EndedSessionsRejected /\ LogoutOnce

\* A process that exits without an error has answered every request it accepted, and its
\* worker has returned.
CleanExit ==
  \A n \in Servers : exit'[n] = "clean" /\ exit[n] # "clean" =>
    RequestsOf(n) = {} /\ worker[n] = "returned"

CleanExitLosesNothing == [][CleanExit]_allVars

StartEnds == \A n \in Servers : IsOpening(n) ~> stage[n] \in {"up", "down"}

SignalStops == \A n \in Servers : stage[n] = "stopping" ~> stage[n] = "down"

\* Opening the store comes to an end, with the service up or the process gone, however
\* the processes compete for the write lock; and a signal stops the process: neither
\* requests nor the worker can keep it.
StartsAndStops == StartEnds /\ SignalStops

=============================================================================
