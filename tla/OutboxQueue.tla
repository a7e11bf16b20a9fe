---------------------------- MODULE OutboxQueue ----------------------------
(***************************************************************************)
(* What the outbox worker promises: each pass takes the oldest due jobs and *)
(* delivers them in one indivisible step.  OutboxWorker shows that the     *)
(* passes as the code runs them, inside SQLite transactions that overlap,  *)
(* can be refused and can be lost, implement this.                         *)
(***************************************************************************)
EXTENDS Naturals, FiniteSets, FiniteSetsExt

CONSTANTS
  Jobs,        \* outbox job identifiers
  KindOf,      \* the kind of each job
  MaxAttempts, \* max_attempts of every job (5 in both services)
  Batch,       \* WORKER_BATCH_SIZE
  LastInsert,  \* bound: the last tick at which a job is inserted
  MaxTime      \* bound on the clock

ASSUME QueueAssumption ==
  /\ KindOf \in [Jobs -> {"fishing_voyage_planned", "catch_anomaly_review"}]
  /\ MaxAttempts \in Nat \ {0} /\ Batch \in Nat \ {0}
  /\ LastInsert \in Nat /\ MaxTime \in Nat

VARIABLES
  job, \* the committed rows of outbox_jobs
  now  \* the clock

queueVars == <<job, now>>

Statuses == {"absent", "pending", "running", "succeeded", "failed", "dead"}

Row == [status : Statuses, attempts : Nat, available : Nat, created : Nat]

NoRow == [status |-> "absent", attempts |-> 0, available |-> 0, created |-> 0]

Terminal == {"succeeded", "dead"}

\* Mutant: failed jobs are not retried.
DuePendingOnly(rows, at) ==
  {j \in Jobs : rows[j].status = "pending" /\ rows[j].available <= at}

\* ClaimJobs selects these rows at the time the pass read from the clock.
Due(rows, at) ==
  {j \in Jobs : rows[j].status \in {"pending", "failed"} /\ rows[j].available <= at}

\* ORDER BY created_at LIMIT batch.
BatchOf(rows, at, S) ==
  /\ S \subseteq Due(rows, at)
  /\ Cardinality(S) = Min({Batch, Cardinality(Due(rows, at))})
  /\ \A j \in S, i \in Due(rows, at) \ S : rows[j].created <= rows[i].created

\* Mutant: the claim does not count as an attempt.
ClaimedUncounted(row) == [row EXCEPT !.status = "running"]

\* ClaimJobs: running, one attempt more.
Claimed(row) == [row EXCEPT !.status = "running", !.attempts = @ + 1]

\* processJob succeeds: a planned voyage's payload may fail to decode, a review's may
\* not, and a review's payload is the bare anomaly identifier, which is not JSON.
Delivers(j) == KindOf[j] = "fishing_voyage_planned"

\* Quadratic in the attempts.  Bound: cut at the clock's horizon, where time stops.
Backoff(row, at) == Min({at + row.attempts * row.attempts, MaxTime})

\* Mutant: a job dies one attempt late.
SettledLate(j, row, at) ==
  IF Delivers(j) THEN [row EXCEPT !.status = "succeeded"]
  ELSE [row EXCEPT !.status = IF row.attempts > MaxAttempts THEN "dead" ELSE "failed",
                   !.available = Backoff(row, at)]

\* The rest of RunOnce for one claimed job: CompleteJob, or RetryJob with a backoff
\* until the attempts run out.
Settled(j, row, at) ==
  IF Delivers(j) THEN [row EXCEPT !.status = "succeeded"]
  ELSE [row EXCEPT !.status = IF row.attempts >= MaxAttempts THEN "dead" ELSE "failed",
                   !.available = Backoff(row, at)]

Init == job = [j \in Jobs |-> NoRow] /\ now = 0

\* A service commits a transaction that inserted job j.
Insert(j) ==
  /\ job[j].status = "absent" /\ now <= LastInsert
  /\ job' = [job EXCEPT ![j] = [status |-> "pending", attempts |-> 0,
                                available |-> now, created |-> now]]
  /\ now' = now

\* One pass of the worker that read `at` from the clock when it began.
Pass(at, S) ==
  /\ S # {} /\ BatchOf(job, at, S)
  /\ job' = [j \in Jobs |-> IF j \in S THEN Settled(j, Claimed(job[j]), at) ELSE job[j]]
  /\ now' = now

Tick == now < MaxTime /\ now' = now + 1 /\ job' = job

Next == \/ \E j \in Jobs : Insert(j)
        \/ \E at \in 0 .. now, S \in SUBSET Jobs : Pass(at, S)
        \/ Tick

Spec == Init /\ [][Next]_queueVars

=============================================================================
