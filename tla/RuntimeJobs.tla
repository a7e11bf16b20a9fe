----------------------------- MODULE RuntimeJobs -----------------------------
(***************************************************************************)
(* The leased jobs of runtimeops.  Processors claim a job for the length   *)
(* of a lease, run a handler outside any transaction and then complete or  *)
(* fail the attempt they claimed; a lease that runs out is reclaimed, so   *)
(* an owner may come back late.  Every statement carries the tenant; one   *)
(* tenant is modelled.  Each store call is one transaction and one step.   *)
(***************************************************************************)
EXTENDS Naturals, FiniteSets

CONSTANTS
  Jobs, Processors,
  None,        \* SQL NULL; no job
  MaxAttempts, \* max_attempts of every job
  Lease,       \* Processor.Lease
  MaxClaims,   \* bound on the attempts of a job
  MaxTime      \* bound on the clock

ASSUME RuntimeAssumption ==
  /\ None \notin Jobs \cup Nat
  /\ MaxAttempts \in Nat \ {0} /\ Lease \in Nat /\ MaxClaims \in Nat /\ MaxTime \in Nat

VARIABLES
  job,       \* the rows of jobs
  proc,      \* what each processor is doing
  outbox,    \* how many "job_done" rows name each job
  reclaimed, \* history: how often each job's lease was reclaimed
  now        \* the clock

vars == <<job, proc, outbox, reclaimed, now>>

JobStates == {"absent", "pending", "running", "failed", "done", "dead"}

Row == [state : JobStates, attempts : Nat, available : Nat, lease : Nat \cup {None}]

\* RunOnce between its store calls: the claimed job and attempt, and the handler's result.
Process == [phase : {"idle", "handling", "succeeded", "failed"},
            job : Jobs \cup {None}, attempt : Nat]

NoRow == [state |-> "absent", attempts |-> 0, available |-> 0, lease |-> None]
Idle == [phase |-> "idle", job |-> None, attempt |-> 0]

Init ==
  /\ job = [j \in Jobs |-> NoRow]
  /\ proc = [p \in Processors |-> Idle]
  /\ outbox = [j \in Jobs |-> 0]
  /\ reclaimed = [j \in Jobs |-> 0]
  /\ now = 0

CreateJob(j) ==
  /\ job[j].state = "absent"
  /\ job' = [job EXCEPT ![j] = [state |-> "pending", attempts |-> 0, available |-> now, lease |-> None]]
  /\ UNCHANGED <<proc, outbox, reclaimed, now>>

\* Mutant: the states a claim leaves out are listed, and done is forgotten.
ClaimableNotDead(j) ==
  /\ job[j].state \notin {"absent", "running", "dead"}
  /\ job[j].available <= now

\* The WHERE of ClaimJobs.
Claimable(j) ==
  /\ job[j].state \in {"pending", "failed"}
  /\ job[j].available <= now
  /\ job[j].lease # None => job[j].lease <= now

\* Mutant: the claim does not count as an attempt.
ClaimedUncounted(row) == [row EXCEPT !.state = "running", !.lease = now + Lease]

\* The UPDATE of ClaimJobs.
Claimed(row) == [row EXCEPT !.state = "running", !.attempts = @ + 1, !.lease = now + Lease]

\* RunOnce claims one job, the one available for longest.
ClaimJobs(p, j) ==
  /\ proc[p].phase = "idle"
  /\ Claimable(j) /\ \A i \in Jobs : Claimable(i) => job[j].available <= job[i].available
  /\ job[j].attempts < MaxClaims
  /\ job' = [job EXCEPT ![j] = Claimed(@)]
  /\ proc' = [proc EXCEPT ![p] = [phase |-> "handling", job |-> j, attempt |-> Claimed(job[j]).attempts]]
  /\ UNCHANGED <<outbox, reclaimed, now>>

\* The handler returns; it may take longer than the lease.
Handle(p, result) ==
  /\ proc[p].phase = "handling"
  /\ proc' = [proc EXCEPT ![p].phase = result]
  /\ UNCHANGED <<job, outbox, reclaimed, now>>

\* Mutant: any running attempt passes.
FencedAnyAttempt(p) == job[proc[p].job].state = "running"

\* The fence of CompleteJob and FailJob: the attempt is still the running one.
Fenced(p) ==
  /\ job[proc[p].job].state = "running"
  /\ job[proc[p].job].attempts = proc[p].attempt

\* Every UPDATE that ends a run gives up the lease.
Released(row, state) == [row EXCEPT !.state = state, !.lease = None]

CompleteJob(p) ==
  /\ proc[p].phase = "succeeded" /\ Fenced(p)
  /\ job' = [job EXCEPT ![proc[p].job] = Released(@, "done")]
  /\ outbox' = [outbox EXCEPT ![proc[p].job] = @ + 1]
  /\ proc' = [proc EXCEPT ![p] = Idle]
  /\ UNCHANGED <<reclaimed, now>>

\* Mutant: one attempt too many.
AfterFailureLate(attempt) == IF attempt > MaxAttempts THEN "dead" ELSE "failed"

AfterFailure(attempt) == IF attempt >= MaxAttempts THEN "dead" ELSE "failed"

\* The clock counts minutes: one of backoff per attempt.
FailJob(p) ==
  /\ proc[p].phase = "failed" /\ Fenced(p)
  /\ job' = [job EXCEPT ![proc[p].job] =
               [Released(@, AfterFailure(proc[p].attempt)) EXCEPT !.available = now + proc[p].attempt]]
  /\ proc' = [proc EXCEPT ![p] = Idle]
  /\ UNCHANGED <<outbox, reclaimed, now>>

\* CompleteJob and FailJob refuse a late owner.
Refused(p) ==
  /\ proc[p].phase \in {"succeeded", "failed"} /\ ~Fenced(p)
  /\ proc' = [proc EXCEPT ![p] = Idle]
  /\ UNCHANGED <<job, outbox, reclaimed, now>>

\* The context is cancelled or the process dies: the claim stays until its lease ends.
Crash(p) ==
  /\ proc[p].phase # "idle"
  /\ proc' = [proc EXCEPT ![p] = Idle]
  /\ UNCHANGED <<job, outbox, reclaimed, now>>

\* The WHERE of ReclaimJobs.
Expired == {j \in Jobs : job[j].state = "running" /\ job[j].lease <= now}

\* ReclaimJobs looks at no attempts: only FailJob makes a job dead.
ReclaimJobs ==
  /\ Expired # {}
  /\ job' = [j \in Jobs |-> IF j \in Expired THEN Released(job[j], "failed") ELSE job[j]]
  /\ reclaimed' = [j \in Jobs |-> IF j \in Expired THEN reclaimed[j] + 1 ELSE reclaimed[j]]
  /\ UNCHANGED <<proc, outbox, now>>

Tick == now < MaxTime /\ now' = now + 1 /\ UNCHANGED <<job, proc, outbox, reclaimed>>

Next ==
  \/ \E j \in Jobs : CreateJob(j)
  \/ \E p \in Processors : \/ \E j \in Jobs : ClaimJobs(p, j)
                           \/ \E result \in {"succeeded", "failed"} : Handle(p, result)
                           \/ CompleteJob(p) \/ FailJob(p) \/ Refused(p) \/ Crash(p)
  \/ ReclaimJobs
  \/ Tick

Spec == Init /\ [][Next]_vars

-----------------------------------------------------------------------------
(* Properties.                                                             *)

TypeOK ==
  /\ job \in [Jobs -> Row]
  /\ \A j \in Jobs : job[j].state = "absent" => job[j] = NoRow
  /\ proc \in [Processors -> Process]
  /\ \A p \in Processors : proc[p].phase = "idle" <=> proc[p].job = None
  /\ outbox \in [Jobs -> Nat]
  /\ reclaimed \in [Jobs -> Nat]
  /\ now \in Nat

\* p works on the attempt the row stands at.
Owns(p, j) == proc[p].job = j /\ proc[p].attempt = job[j].attempts

\* However often a lease is reclaimed and its owner comes back, at most one processor
\* holds the current attempt of a job: the fence lets no two through.
OneOwner ==
  \A j \in Jobs : /\ \A p, q \in Processors : Owns(p, j) /\ Owns(q, j) => p = q
                  /\ \A p \in Processors : proc[p].job = j => proc[p].attempt <= job[j].attempts

\* A job is announced done once, in the transaction that makes it done.
AnnouncedOnce == \A j \in Jobs : outbox[j] = IF job[j].state = "done" THEN 1 ELSE 0

\* A job takes more than its maximum of attempts only for leases that ran out, and one
\* that waits to be claimed still has an attempt left by that count.
OverrunByReclaim ==
  \A j \in Jobs : /\ job[j].attempts <= MaxAttempts + reclaimed[j]
                  /\ job[j].state \in {"pending", "failed"} => job[j].attempts < MaxAttempts + reclaimed[j]

OwnedExit ==
  \A j \in Jobs : job[j].state = "running" /\ job'[j].state # "running" =>
    \/ \E p \in Processors : Owns(p, j) /\ proc'[p] = Idle
    \/ job[j].lease <= now /\ job'[j].state = "failed"

\* A running job stops running only by the processor that owns the attempt, or because
\* its lease ended: a late owner changes nothing.
LateOwnerPowerless == [][OwnedExit]_vars

=============================================================================
