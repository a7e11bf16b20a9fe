---------------------------- MODULE OutboxWorker ----------------------------
(***************************************************************************)
(* Worker.RunOnce on SQLite.  A pass reads the clock, opens a deferred     *)
(* transaction, selects from its snapshot, takes the write lock with its   *)
(* first UPDATE, settles the claimed jobs one by one and commits.  Service *)
(* transactions insert jobs meanwhile, another server process may run a    *)
(* worker on the same database, and a pass may be cancelled or die at any  *)
(* point: its transaction then rolls back.                                 *)
(*                                                                         *)
(* The other half of a pass, the expiry of landing tasks, is ExpireTasks   *)
(* of VoyageOps.                                                           *)
(***************************************************************************)
EXTENDS OutboxQueue

CONSTANTS
  Workers,  \* worker loops sharing the database
  None,     \* nobody holds the write lock
  MaxAborts \* bound on cancelled or crashed passes

ASSUME WorkerAssumption == None \notin Workers /\ MaxAborts \in Nat

VARIABLES
  tx,        \* each worker's open transaction
  lock,      \* who holds SQLite's write lock
  delivered, \* history: settled deliveries of each job that were committed
  aborts     \* passes lost so far

vars == <<job, now, tx, lock, delivered, aborts>>

Transaction == [phase : {"idle", "reading", "writing"}, at : Nat, rows : [Jobs -> Row],
                stale : BOOLEAN, \* another writer committed after the snapshot
                queue : SUBSET Jobs, done : SUBSET Jobs]

NoTransaction == [phase |-> "idle", at |-> 0, rows |-> [j \in Jobs |-> NoRow],
                  stale |-> FALSE, queue |-> {}, done |-> {}]

WorkerInit ==
  /\ Init
  /\ tx = [w \in Workers |-> NoTransaction]
  /\ lock = None
  /\ delivered = [j \in Jobs |-> 0]
  /\ aborts = 0

\* A commit leaves every other open snapshot behind.
Outdate(t) == [w \in Workers |-> IF t[w].phase = "reading" THEN [t[w] EXCEPT !.stale = TRUE]
                                                           ELSE t[w]]

\* PlanFishingVoyage or SubmitCatchDeclaration commits: it needs the write lock too.
InsertJob(j) ==
  /\ lock = None
  /\ Insert(j)
  /\ tx' = Outdate(tx)
  /\ UNCHANGED <<lock, delivered, aborts>>

\* RunOnce: the clock, then a snapshot of the tables.
Begin(w) ==
  /\ tx[w].phase = "idle"
  /\ tx' = [tx EXCEPT ![w] = [NoTransaction EXCEPT !.phase = "reading", !.at = now, !.rows = job]]
  /\ UNCHANGED <<job, now, lock, delivered, aborts>>

\* Mutant: the snapshot's age is not checked.
MayWriteStale(w) == lock = None

\* The first UPDATE of a transaction is let through.
MayWrite(w) == lock = None /\ ~tx[w].stale

ClaimJobs(w, S) ==
  /\ tx[w].phase = "reading"
  /\ S # {} /\ BatchOf(tx[w].rows, tx[w].at, S)
  /\ MayWrite(w)
  /\ lock' = w
  /\ tx' = [tx EXCEPT ![w] = [tx[w] EXCEPT !.phase = "writing", !.queue = S,
              !.rows = [j \in Jobs |-> IF j \in S THEN Claimed(tx[w].rows[j]) ELSE tx[w].rows[j]]]]
  /\ UNCHANGED <<job, now, delivered, aborts>>

\* SQLITE_BUSY: a stale snapshot, or the lock was not released within the busy timeout.
Refused(w) ==
  /\ tx[w].phase = "reading"
  /\ Due(tx[w].rows, tx[w].at) # {}
  /\ ~MayWrite(w)
  /\ tx' = [tx EXCEPT ![w] = NoTransaction]
  /\ UNCHANGED <<job, now, lock, delivered, aborts>>

\* A pass with nothing to do.
EmptyPass(w) ==
  /\ tx[w].phase = "reading"
  /\ Due(tx[w].rows, tx[w].at) = {}
  /\ tx' = [tx EXCEPT ![w] = NoTransaction]
  /\ UNCHANGED <<job, now, lock, delivered, aborts>>

ProcessJob(w, j) ==
  /\ tx[w].phase = "writing" /\ j \in tx[w].queue
  /\ tx' = [tx EXCEPT ![w] = [tx[w] EXCEPT !.queue = @ \ {j}, !.done = @ \cup {j},
              !.rows = [tx[w].rows EXCEPT ![j] = Settled(j, tx[w].rows[j], tx[w].at)]]]
  /\ UNCHANGED <<job, now, lock, delivered, aborts>>

ReadyToCommit(w) == tx[w].phase = "writing" /\ tx[w].queue = {}

Commit(w) ==
  /\ ReadyToCommit(w)
  /\ job' = tx[w].rows
  /\ delivered' = [j \in Jobs |-> IF j \in tx[w].done THEN delivered[j] + 1 ELSE delivered[j]]
  /\ tx' = [Outdate(tx) EXCEPT ![w] = NoTransaction]
  /\ lock' = None
  /\ UNCHANGED <<now, aborts>>

\* The context is cancelled, RetryJob or CompleteJob fails, or the process dies: rollback.
Abort(w) ==
  /\ tx[w].phase # "idle" /\ aborts < MaxAborts
  /\ tx' = [tx EXCEPT ![w] = NoTransaction]
  /\ lock' = IF lock = w THEN None ELSE lock
  /\ aborts' = aborts + 1
  /\ UNCHANGED <<job, now, delivered>>

WorkerStep(w) ==
  \/ Begin(w)
  \/ \E S \in SUBSET Jobs : ClaimJobs(w, S)
  \/ Refused(w)
  \/ EmptyPass(w)
  \/ \E j \in Jobs : ProcessJob(w, j)
  \/ Commit(w)

Elapse == Tick /\ UNCHANGED <<tx, lock, delivered, aborts>>

WorkerNext ==
  \/ \E j \in Jobs : InsertJob(j)
  \/ \E w \in Workers : WorkerStep(w) \/ Abort(w)
  \/ Elapse

WorkerSpec == WorkerInit /\ [][WorkerNext]_vars

\* Each loop runs on its ticker until shutdown, and time passes; only finitely many
\* passes are lost.
FairSpec == WorkerSpec /\ WF_vars(Elapse) /\ \A w \in Workers : WF_vars(WorkerStep(w))

-----------------------------------------------------------------------------
(* Properties.                                                             *)

\* Every delivery is counted once: two overlapping passes never deliver the same attempt
\* of a job, and a lost pass uses up no attempt.
DeliveriesCounted == \A j \in Jobs : job[j].attempts = delivered[j]

\* A job dies exactly when its attempts are used up.
DeadWhenExhausted ==
  \A j \in Jobs : /\ job[j].status = "dead" => job[j].attempts = MaxAttempts
                  /\ job[j].status = "failed" => job[j].attempts \in 1 .. MaxAttempts - 1

\* Passes that overlap, are refused and get lost have the effect of indivisible ones; no
\* committed row is ever left "running" by a worker that dies, which nothing would pick up
\* again.
AtomicPasses == Spec

\* Every job is eventually delivered or given up: failing jobs cannot hold the batch for
\* ever, nor can lost passes.
JobsEnd ==
  \A j \in Jobs : job[j].status = "pending" ~> job[j].status \in Terminal

\* README: outbox_jobs preserve "asynchronous delivery", also of reviews.
ReviewsDelivered ==
  \A j \in Jobs : job[j].status = "pending" ~> job[j].status = "succeeded"

=============================================================================
