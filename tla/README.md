# Verification of the distant-water fishing operations server

TLA+ modules that model the server's operational core, its reports, its outbox
worker, its stored times, its processes from start-up to shutdown with the
sessions they serve, and its runtime operations package; TLC configurations that
check them on small instances; and TLAPS proofs for all values of the constants.
`PROJECT.json` maps every definition to the lines it models.

## The system

The program is one Go server over one SQLite file. HTTP handlers authenticate a
principal and call services; every service operation reads the injected clock,
opens one `Store.WithTx` transaction, loads rows, checks domain rules, writes
rows, an audit row and sometimes an outbox job, and commits. A worker goroutine
wakes on a ticker, expires landing tasks and delivers outbox jobs. A second
package, `runtimeops`, has its own store with permits, event batches, leased
jobs, commands and checkpoints, and an in-memory pipeline. Several server
processes may share the file; each migrates it when it opens it.

| Component (source under `src/internal`) | State | Operations | What makes it correct |
|---|---|---|---|
| Catalog (`service/catalog.go`, `support_fleet.go`) | permits, ports, fleets, vessels | create, activate, register, verify, maintain, retire | catalog changes never break a reservation |
| Voyages (`service/fishing_voyage.go`) | voyages, vessel links, idempotency records | plan, replay, clear, depart, land, close, cancel | no double booking, vessels and fleet follow the voyage, daily limit, one plan per live key |
| Declarations (`service/catch_declaration.go`) | declarations, anomalies, quarantine marks | submit | one active anomaly per voyage, quarantine has an owner |
| Reviews (`service/anomaly_review.go`) | anomalies, dispositions | start, decide | decided once, releases its own vessels only |
| Landing tasks (`service/catch_landing.go`) | tasks | create, resolve; the worker expires | one pending task, never pending for good |
| Reports (`service/readiness.go`, `query.go`) | none | readiness, voyage detail | what a report says was so while it was read |
| Sessions (`service/auth.go`, `httpapi/server.go`) | sessions | login, authenticate, logout | ended sessions are rejected, a session ends once |
| Migrations (`storage/sqlite/migrations.go`) | schema, ledger | open | the ledger says what the schema is |
| Server (`cmd/server/main.go`) | a process's listener and worker | start, signal, shut down, fail | starts and stops; a clean exit loses nothing |
| Outbox worker (`worker/worker.go`, `storage/sqlite/jobs.go`) | outbox jobs | claim, deliver, retry, give up | no stranded claim, attempts counted, every job ends |
| SQLite store (`storage/sqlite/store.go`) | snapshots, write lock, stored times | begin, commit, roll back, format times | transactions look indivisible, stored order is time order |
| Runtime jobs (`runtimeops/jobs.go`, `coordinator.go`) | leased jobs | create, claim, complete, fail, reclaim | one owner per attempt, late owners powerless |
| Runtime records (`runtimeops/permit.go`, `events.go`, `idempotency.go`) | permits, batches, events, checkpoints, commands | create, approve, execute, cancel, record, classify, close, save | slot exclusive, closed batches settled, generations advance |
| Pipeline and retry (`runtimeops/coordinator.go`) | completed steps | run, snapshot, restore, retry | steps in order, bounded repeats, cancellation ends a retry |
| HTTP handlers, audit, listings, configuration | none a rule reads | decode, list | see "Not modelled" |

The parts meet in the tables. A plan writes vessels, links, a fleet, a voyage, an
idempotency record and a job; a declaration reaches back into the voyage's
vessels; a decision releases them; landing and closing depend on what tasks,
anomalies and vessels allow. No operation sees the whole rule, so the properties
here relate tables to one another.

What is hard to test: reservations competing with maintenance, verification,
expiring certificates and cancellation; reviews and landing tasks overlapping the
landing and closure of their voyage; a second anomaly after a decided one; two
officers deciding; retries of a plan around the expiry of its key; overlapping
worker passes, lost passes and jobs that always fail; leases that run out under a
working owner; reports whose queries see different moments; a plan that judges by
a clock read before its transaction began; two servers migrating one file; a session
revoked between its check and its use; a shutdown that meets requests and a pass;
a pipeline restored under a run; and times compared in Go here and as text there. The list, with
lines, is `hazards` in `PROJECT.json`.

## The modules

| Module | Models |
|---|---|
| `VoyageOps` | the services over their shared tables, one action per operation |
| `VoyageBooking` | what the services promise of bookings: taken whole, kept, given back whole (abstract) |
| `VoyageService` | `VoyageOps` with plans that read the clock before they commit; implements `VoyageBooking` |
| `ReadReports` | `VoyageOps` beside a reader that takes a report query by query |
| `OutboxQueue` | what the queue promises: indivisible passes (abstract) |
| `OutboxWorker` | passes on SQLite, with snapshots, write lock, refusal, loss; implements `OutboxQueue` |
| `TextTime` | `formatTime` and the order of its text |
| `TimedRows` | the rules that mix Go's and SQL's comparison of times, below the second |
| `RuntimeJobs` | leased jobs and the processors that run them |
| `RuntimeRecords` | permits, batches, checkpoints and commands in transactions that read before they write |
| `RuntimePipeline` | `Pipeline` and `Retry`, called by several callers at once |
| `Migrations` | `sqlite.Open` of several processes on one file |
| `Sessions` | login, authentication and logout as overlapping requests |
| `Server` | processes that open, serve, work and stop; composes `Migrations` and `Sessions` |
| `MC...` | instances for TLC |
| `VoyageOpsProofs` | theorems on reservations, keys and certificates, and the refinement of `VoyageBooking` |
| `VoyageReviewProofs` | theorems on reviews, closure and the reports of `ReadReports` |
| `OutboxProofs`, `TextTimeProofs`, `RuntimeJobsProofs`, `RuntimeRecordsProofs`, `RuntimePipelineProofs`, `ServerProofs` | theorems on the module of that name (`TextTimeProofs` on `TimedRows` too; `ServerProofs` also on `Migrations` and `Sessions`) |

### VoyageOps

One variable per table. A row is a record in a function from identifiers, in the
state `"absent"` before it is inserted. An action is a whole transaction: its
guard is every check of the service, the domain method and the schema
constraints, its primed variables are every write. Calls that return an error
leave the tables alone, so they are disabled actions; the one exception that
returns success without writing, `ReplayPlan`, is an action.

- `PlanFishingVoyage` checks what the code checks: key not live,
  permit active, ports, window, daily limit, fleet eligibility and cargo, vessels
  usable and free. `PlanInsertable` is the schema: voyage code and vessel link unique.
- `ClearFishingVoyage`, `DepartureFishingVoyage`, `ConfirmFishingVoyageLanding`
  and `CloseFishingVoyage` are the four ways through `transitionAny`.
- `DeclareInRange` and `DeclareOutOfRange` are the two ways through
  `SubmitCatchDeclaration`; the variance arithmetic is abstracted to which of the
  two applies.
- `Decide` moves the anomaly's vessels, writes the disposition and closes the
  anomaly in one step, as the transaction does.
- `ExpireTasks` is the worker's expiry in batches.

That a committed operation is one step is justified by SQLite's snapshots: a
deferred transaction reads one snapshot, and its first write is refused if anybody
committed since. `OutboxWorker` models that mechanism and shows it for passes
(`AtomicPasses`). Row versions are left out for the same reason. Time counts whole
seconds, on which text order is time order (theorem `WholeSecondsOrder`).

### VoyageBooking and VoyageService

`VoyageBooking` knows a phase for each voyage and a holder for each fleet and
vessel, and four steps: book, sail, cancel, finish. `Booking` in `VoyageService`
maps the tables onto it: `planned` and `cleared` are both booked, `at_sea` and
`landed` both sailing, and a holder is the row's `fishing_voyage_id`.
`BooksAsPromised` says that every step of the services, the catalog's, the
reviews' and the worker's included, is one of the four or moves no holder.

`LatePlan` is `PlanFishingVoyage` with the clock read up to `Lag` earlier:
`VoyageOps` is instantiated once more with the earlier time for `now`, so that
every check and every stored time uses it, while the commit happens now.

### ReadReports

`Store.Read` opens no transaction: each query sees what is committed when it runs.
`reader` holds the queries still to run and what the others returned (`Answer`); any
operation of `VoyageOps` may commit in between. `Complete` is `VoyageReadiness.Evaluate`.
`seen` records what was true at some moment since the report began, which is what
the properties compare the report with.

### Sessions, Migrations and Server

A request authenticates in steps: it arrives, its session row is read, the row is
compared with a clock read later, and the handler acts later still. A login reads
its user, stamps the session and inserts it. `Migrations` looks each file up
outside the transaction that applies it, and a process may die at any step, its
transaction rolled back. `Server` puts these together as `cmd/server/main.go`
does: a process serves once its database is open, its worker passes and sleeps, a
signal stops accepting, drains requests under a timeout, then waits for the worker;
a failing listener, a timeout or a crash ends it at once and cuts its requests off.

### OutboxQueue and OutboxWorker

`OutboxQueue!Pass` claims the due jobs, oldest first, delivers each and settles
it, in one step. `OutboxWorker` splits the pass as `RunOnce` does: clock and
snapshot, claim with the first UPDATE, one job at a time, commit; and adds
inserting services, several worker processes on one file, refused locks and lost
passes. Delivery is decided by the job's kind: the planned notice decodes, the
review notice does not (see findings).

### TextTime and TimedRows

A time has a second and a two-digit fraction in a small base. `formatTime` writes
RFC3339Nano: trailing zeros are dropped, and the fraction's point disappears with
them. `'.'` sorts before digits and `'Z'` after, so text order differs from time
order within a second. `TimedRows` follows a port's departures, one landing task
and one idempotency record through times with fractions. An operating day starts
`Cutoff` seconds into a calendar day, and a departure before the cutoff belongs to
the day before, as in `OperatingDayWindow`. Days have one length: time zones and
their changes are left out. So is the first calendar day, whose times before the
cutoff belong to a day before time begins.

### RuntimeJobs and RuntimeRecords

`RuntimeJobs` keeps the place of each processor between its store calls: claimed
and handling, succeeded, failed. A handler may outlast its lease; a processor may
die in any phase; `ReclaimJobs` may run at any time. `RuntimeRecords` splits the
operations that read before they write (`ExecutePermit`, `RecordEvent`,
`CloseBatch`, `SaveCheckpoint`, `SaveCommand`) into the read and the write, with
any commit ageing the other snapshots. New rows carry the state the package's
tests create them with (`pending`, version 1, `collecting`).

### RuntimePipeline

`Run` looks a step up and marks it in two critical sections (`Look`, `Mark`), with
the step between them; each call runs in its own `Retry`, whose context may be
cancelled at any time, and whose `select` takes either of two ready channels.
Snapshots may be restored under running calls. Nothing in the repository calls
`Pipeline` or `Retry` yet; the callers are those their signatures allow.

## The runs

| Run | Distinct states | Shows |
|---|---|---|
| `MCReservation` | 197 thousand | `FleetReservation`, `VesselFollowsVoyage`, `ReplayableWhileLive`, `OnTimeNeverBlocked` and the refinement `BooksAsPromised`: two plans, fleets and vessels, one key, two operating days, certificates and keys that expire, maintenance, retirement and cancellation, plans on a late clock |
| `MCReviews` | 646 thousand | `TypeOK`, `QuarantineOwned`, `ReviewsBlockClosure`, `OneReviewAtATime`, `ClosureNeverStuck`, `LandingNeverStuck`, `QuarantineEndsByDecision`, `SettledVesselsStay`: declarations, reviews, tasks and closure on one voyage with two vessels, two anomalies, three declarations |
| `MCReadReports` | 803 thousand, liveness | `BlockersWereReal`, `CompletionWasReal`, `VesselsNotBehind`: reports torn between their queries say what was so while they were read; `HandoffResolves`: every landing task leaves pending |
| `MCOutbox` | 115 thousand, liveness | `DeliveriesCounted`, `DeadWhenExhausted`, the refinement `AtomicPasses`, and `JobsEnd`: every job is delivered or dead |
| `MCTextTime` | 445 thousand | the three time rules go wrong at most within one second |
| `MCRuntime` | 297 thousand | `OneOwner`, `AnnouncedOnce`, `OverrunByReclaim`, `LateOwnerPowerless` |
| `MCRecords` | 300 thousand | `PermitTrail`, `SlotExclusive`, `BatchesConsistent`, `AcceptedReplays`, `CheckpointsAdvance` |
| `MCServer` | 136 thousand, liveness | `SchemaSound`, `SessionsEnd`, `CleanExitLosesNothing`, `StartsAndStops` |
| `MCRuntimePipeline` | 708 thousand, liveness | `RunsInOrder`, `RepeatsBounded`, `RetryStops` |

Every property of a passing run has a mutant: a definition of the model changed
as a plausible bug would change the code, under which TLC finds the property
violated. Where a run ends at its bounds, deadlock is not checked.

`CompletionWasReal` names the one way a report can be wrong: a landing task opened
after the tasks were counted, while the anomaly not yet counted is decided. The
report then says complete, though a task or an anomaly was pending all the time.
`GetVoyageReadiness` counts tasks before anomalies, and no other pair of its queries
can be torn apart like this.

Bounds. Two of everything that competes (vessels, fleets, voyages, anomalies,
worker loops, connections, server processes, requests, callers), because the rules
are about pairs; three processors, so that a reclaimed job can be reclaimed from
its second owner too; three jobs for batches of two, so that a batch leaves one
out; three permits on one slot; three declarations, so that one anomaly is extended
and another opened after a decision; two migrations and two steps, so that the
second meets the first done. One session is enough for `SessionsEnd`, because no
step relates two sessions. One reader is enough for `ReadReports`, because readers
change nothing. Clocks run past the lifetimes a run is about: certificates,
windows, tasks, records, sessions, leases and backoffs end inside it. A late plan
lags one tick (`Lag`), which is enough to cross a certificate's end and a key's;
the theorems leave `Lag` open. Identifiers of one kind are symmetric, except in the
liveness runs. Catalog sizes (hold 1, cargo 2) let a fleet serve both vessels; that a plan's
volume fits the cargo is checked, but never the limit here. The two-voyage interplay
of reviews is covered by the theorems on `QuarantineOwned` and `OneReviewAtATime`,
which hold for any number of voyages. `MaxReset` bounds restores and new pipelines,
which would otherwise go on for ever.

Fairness. `HandoffResolves` and `JobsEnd` assume that time passes and that each
worker loop keeps taking its steps: `Worker.Run` ticks until its context ends and
goes on after a failed pass. Lost passes are finite (`MaxAborts`). `StartsAndStops`
assumes that a process that runs goes on: `migrate` loops over a fixed list and
waits for the lock no longer than its timeout, `Worker.Run` returns when its context
ends, `Shutdown` returns by its timeout. No request is assumed to finish.
`RetryStops` assumes that a call that runs goes on and that its steps return: a step
that never did would keep its call. Nothing is assumed of operators: nobody
has to resolve a task or decide an anomaly. `RuntimeJobs` states no liveness,
because nothing in the repository schedules `ReclaimJobs`.

### Findings

Three runs are expected to violate their property; each states a sentence of the
repository that the code does not keep.

| Run | Sentence | What happens |
|---|---|---|
| `MCCancelReleases` | "Cancellation releases vessel and fleet reservations." | the link rows stay, and their unique constraint refuses the vessel for ever |
| `MCCancelCertified` | "planned or cleared voyages may be cancelled" | verifying an assigned vessel makes it sea_ready, which cancellation cannot leave |
| `MCReviewDelivery` | "asynchronous delivery" | the payload of a review job is not JSON and every attempt fails |

Others were met while modelling and have no run of their own:

- The README speaks of a "two-person review", and `service/catch_landing.go:80`
  says "only the assigned fisheries officer may resolve it"; the condition above it
  lets every coordinator through, the one named on the task included
  (`ResolveAllowed`).
- The README's "local business-day limit" is off within the first second after the
  cutoff: a departure with a fraction there sorts before the day's start as text and
  is counted the day before. `LimitAfterFirstSecond` states that the limit holds for
  the rest of the day.
- A certificate that runs out blocks cancellation, departure and landing, as
  verification does the first two. The plan's check delays this to the landing
  deadline (`OnTimeNeverBlocked`); a voyage later than that can be held for good.
- The worker may expire a task up to a second early, and a plan made in the very
  second in which its key expires may not be stored; `ExpiredWithinSecond` and
  `RetryFindsLatest` state how far these two can go.
- A readiness report can say complete as described under `CompletionWasReal`.

## The proofs

`tlapm` checks every leaf of these; none depends on the bounds of the runs. With the
runs they divide the work so: every safety invariant and action property that a
passing run checks, and both refinements, are theorems; liveness is TLC's.

The theorems on the services are about `LateSpec` of `VoyageService`, in which a plan
may judge by a clock it read up to `Lag` earlier. `Spec` of `VoyageOps` is the case
`Lag = 0`. `ReportsAreServices` shows that `ReportSpec` implements `LateSpec`, so
that the reports' proofs may use every invariant of the services.

### Services and reports

| Theorem | Property | Argument |
|---|---|---|
| `TypeCorrect` | `TypeOK` | inductive by itself |
| `ReservationsHold` | `FleetReservation` | with `TypeOK`: a plan takes a standby fleet, which no active voyage holds, and only closing or cancelling its voyage gives it back |
| `VesselsFollow` | `VesselFollowsVoyage` | with `TypeOK`: links are unique and kept, so every move of a voyage reaches exactly its vessels |
| `BookingsImplement` | `BooksAsPromised` | step by step from `TypeOK`, `FleetReservation` and `VesselFollowsVoyage`: what a plan takes has no holder, and what closing and cancelling give back is exactly what the voyage holds |
| `RetriesReplay` | `ReplayableWhileLive` | from `RecordsKept` |
| `OnTimeVoyagesMove` | `OnTimeNeverBlocked` | from `CertifiedUntilDeadline`, with `TypeOK` and `VesselFollowsVoyage`: a certificate is written once, a vessel joins a voyage only by a plan that checks the two against each other, and every transition compares the certificate with the clock |
| `ReviewsKeepVoyageOpen` | `ReviewsBlockClosure` | with `TypeOK` |
| `OneReview` | `OneReviewAtATime` | with `TypeOK` |
| `QuarantineHasOwner` | `QuarantineOwned` | with `TypeOK` and `VesselFollowsVoyage`: a declaration marks vessels of its own voyage, a decision releases all it marked |
| `QuarantineRelease`, `SettledForever` | `QuarantineEndsByDecision`, `SettledVesselsStay` | step by step from the invariants |
| `ClosureReachable`, `LandingReachable` | `ClosureNeverStuck`, `LandingNeverStuck` | consequences of `VesselFollowsVoyage` and `QuarantineOwned` |
| `DetailsNotBehind` | `VesselsNotBehind` | from `DetailInv` |
| `BlockersAreReal` | `BlockersWereReal` | from `BlockersInv` |
| `CompletionIsReal` | `CompletionWasReal` | from `CompletionInv` |

`ReplayableWhileLive` compares the clock with the voyage's creation, but what a step
may overwrite depends on the record's own expiry. `RecordsKept` says that the two agree
while the record is young, and that it names the voyage; a late plan that replaces a
record has read a time at which that record had expired.

A report's property speaks of its last state only; the invariants say what each answer
already given is worth now. `ReaderInv` fixes the order: the queries left determine
those answered. In `DetailInv` the voyage has not gone back since its state was read
(`VoyageProgress`), so the vessels listed fit that state or a later one. In
`BlockersInv`, a voyage that was closed or could be at every moment of the report gave
no answer that blocks: each was right when it was given, and the number of vessels it is
compared with never changes (`VesselsStay`) and is not zero (`Crewed`). In
`CompletionInv` an answer "none pending" still holds unless a task was opened since, and
then an answer "none open" marks a moment at which nothing was left. Both rest on the
invariants that the services keep meanwhile (`Served`); that nothing pending and nothing
open means closable is `ClosureNeverStuck`.

### Outbox and stored times

| Theorem | Property | Argument |
|---|---|---|
| `PassesAreAtomic` | `AtomicPasses` | step by step from `PassInv`: a commit is `OutboxQueue!Pass` on the batch it took, any other step of a pass a stutter |
| `CountedOnce` | `DeliveriesCounted` | with `PassInv` and `RowInv`: a commit counts each job of its batch once, a rollback none |
| `DeathByExhaustion` | `DeadWhenExhausted` | from `RowInv` |
| `SecondsOrder`, `WholeSecondsOrder` | | text order is time order across seconds, and on whole seconds |
| `ExpiryWithinSecond` | `ExpiredWithinSecond` | from `SecondsOrder` and the task's type |
| `LatestIsFound` | `RetryFindsLatest` | inductive with `IdemTyped`; `SecondsOrder` confines the disagreement to one second |
| `LimitHolds` | `LimitAfterFirstSecond` | the departures of a day outside its first second are all in the text window the plan counts (`CountedAfterFirstSecond`), so one more is admitted only below the limit |

`PassInv` ties a pass to its snapshot: before its first write the snapshot is the table
unless another writer committed, in which case SQLite refuses the write; after it the
pass has the lock, so the table stands still and the pass's rows are the table's with
its batch claimed or settled (`RowInPass`). Without the first half a pass could write
over what another committed, without the second its commit could not be compared with
one indivisible step.

### Processes and sessions

| Theorem | Property | Argument |
|---|---|---|
| `SchemaAlwaysSound` | `SchemaSound` | from `MigrationsInv` |
| `SessionsAlwaysEnd` | `SessionsEnd` | `SessionsInv`, and its steps |
| `CleanExits` | `CleanExitLosesNothing` | from `ExitInv` |

`MigrationsInv` adds `Progress` to the property: a process has seen every file before
its own in the ledger, and the one that holds the write lock is at a file that is still
missing. Without it a file could be applied out of order, or twice by two processes that
both found it missing before either began. `SessionsInv`
follows a late request: its session had ended when it came in (`Standing`), the row it
reads has ended too, because a session never comes back, and so it is not admitted.
`ExitInv` says that a process that waits for its worker has no request left.

### Runtime operations

| Theorem | Property | Argument |
|---|---|---|
| `OwnersDiffer` | `OneOwner` | with `TypeOK`: a claim takes an attempt number above every one held |
| `DoneOnce` | `AnnouncedOnce` | with `TypeOK`: nothing leads away from done |
| `AttemptsBounded` | `OverrunByReclaim` | with `TypeOK`, because it also says that a waiting job has an attempt left |
| `FenceHolds` | `LateOwnerPowerless` | step by step: only an owner passes the fence |
| `TrailComplete` | `PermitTrail` | from `TrailInv`, which counts a permit's rows state by state |
| `SlotsExclusive` | `SlotExclusive` | with `RecordsInv`: the slot was read as free, and a fresh read is still so |
| `BatchesSettle` | `BatchesConsistent` | from `BatchesInv`: an event joins a batch with its count, and a classification only removes what is unresolved |
| `CheckpointsOnlyAdvance` | `CheckpointsAdvance` | step by step from `RecordsInv` |
| `AcceptedStayReplayable` | `AcceptedReplays` | with `RecordsInv` |
| `StepsInOrder` | `RunsInOrder` | from `PipelineInv` |
| `RepeatsAreBounded` | `RepeatsBounded` | from `ChargesInv` and `PipelineInv` |
| `AttemptsEnd` | the `AttemptsStop` half of `RetryStops` | step by step from `PipelineInv` |

`RecordsInv` says that what a fresh transaction has read is still so (`FreshRead`): a
commit in between ages it, and an aged one cannot commit. `PipelineInv` carries what a
running call knows: the steps before its place have succeeded, in this pipeline or in
the one a snapshot came from (`Placed`), and what it found completed stays completed
until a reset (`Resuming`). `ChargesInv` counts callers: until a step is marked, each
of its successes belongs to a call that has still to mark it; afterwards only the calls
already past the look may add one. Hence never more successes than callers.

### Assumptions

The theorems rest on the assumptions of the modules they are about, which TLC evaluates
in the runs: `NoneAssumption` and `RecordAssumption` (NULL is no identifier and no
record), `ParameterAssumption` (parameters have their types; lifetimes, limits and sizes
are positive as the configuration requires), `VesselsAssumption` (finitely many
vessels, since a report counts them), `LagAssumption`; `QueueAssumption` and
`WorkerAssumption` (each job has a kind; attempts and batch positive);
`BaseAssumption` and `TimedAssumption` (digits, lifetimes, a cutoff within the day,
finitely many voyages to count); `MigrationsAssumption` (at least one file), `SessionsAssumption` (a positive
lifetime); `RuntimeAssumption` (a positive number of attempts), `RecordsAssumption`
(versions and generations are numbers), `PipelineAssumption` (finitely many callers, at
least one step and one attempt). None of them bounds a set's size.

### Model-checked only

- Liveness under fairness, which is out of the prover's reach: `HandoffResolves`,
  `JobsEnd`, `StartsAndStops`, and that calls return (`CallsReturn`, the other half of
  `RetryStops`).
- The three violations under "Findings": they are behaviours, which TLC shows.

## Not modelled

- HTTP decoding and routing, logging and recovery middleware, configuration,
  identifiers, audit rows, listings, filters, summaries and paging: no state that a
  rule reads back.
- Creating users, from the API and from `seed-user`: nothing in the program changes
  or disables one, so users are constants with a role. Bulk registration repeats one
  modelled operation, a transaction for each row.
- Ports are constants; they never change after they are created.
- The services' transactions are one step each; that SQLite makes them look so is
  modelled for the worker's passes only.

## Plan

1. State and prove the steps between modules that are so far only modelled together:
   `Server` implements `Migrations` and `Sessions` step by step, as corollaries of
   `SchemaAlwaysSound` and `SessionsAlwaysEnd`.
2. An abstract specification of leased jobs (an attempt is granted, ends once, and is
   never reported by another) that `RuntimeJobs` implements, proved from `OwnersDiffer`
   and `FenceHolds`.
3. The safety half of the liveness properties as invariants: what a pending task, an
   undelivered job and a stopping process still have ahead of them, so that TLC's
   liveness runs rest on less.
4. A property for the rule who may resolve a landing task
   (`service/catch_landing.go:79`), once the repository says which of its two readings
   is meant.
