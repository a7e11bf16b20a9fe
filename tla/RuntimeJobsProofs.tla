-------------------------- MODULE RuntimeJobsProofs --------------------------
(***************************************************************************)
(* The leased jobs, for any number of jobs, processors and attempts.  The  *)
(* type invariant is inductive by itself, the others together with it.     *)
(***************************************************************************)
EXTENDS RuntimeJobs, TLAPS

\* What the updates do to a row.
LEMMA ReleasedRow ==
  ASSUME NEW row \in Row, NEW state \in JobStates
  PROVE  /\ Released(row, state) \in Row
         /\ Released(row, state).state = state
         /\ Released(row, state).attempts = row.attempts
  BY DEF Released, Row

LEMMA PostponedRow ==
  ASSUME NEW row \in Row, NEW at \in Nat
  PROVE  /\ [row EXCEPT !.available = at] \in Row
         /\ [row EXCEPT !.available = at].state = row.state
         /\ [row EXCEPT !.available = at].attempts = row.attempts
  BY DEF Row

LEMMA ClaimedRow ==
  ASSUME NEW row \in Row, now \in Nat
  PROVE  /\ Claimed(row) \in Row
         /\ Claimed(row).state = "running"
         /\ Claimed(row).attempts = row.attempts + 1
  <1>1. now + Lease \in Nat /\ row.attempts + 1 \in Nat
    BY RuntimeAssumption DEF Row
  <1> QED
    BY <1>1 DEF Claimed, Row, JobStates

\* What the steps that end or start a run do to the rows.
LEMMA Completion ==
  ASSUME TypeOK, NEW p \in Processors, CompleteJob(p)
  PROVE  /\ proc[p].job \in Jobs
         /\ job' \in [Jobs -> Row]
         /\ job'[proc[p].job].state = "done"
         /\ \A j \in Jobs : job'[j].attempts = job[j].attempts
         /\ \A j \in Jobs \ {proc[p].job} : job'[j] = job[j]
  <1>1. proc[p].job \in Jobs
    BY DEF CompleteJob, TypeOK, Process
  <1>2. job[proc[p].job] \in Row /\ "done" \in JobStates
    BY <1>1 DEF TypeOK, JobStates
  <1> QED
    BY <1>1, <1>2, ReleasedRow DEF CompleteJob, TypeOK

LEMMA Failure ==
  ASSUME TypeOK, NEW p \in Processors, FailJob(p)
  PROVE  /\ proc[p].job \in Jobs
         /\ job' \in [Jobs -> Row]
         /\ job'[proc[p].job].state = AfterFailure(proc[p].attempt)
         /\ \A j \in Jobs : job'[j].attempts = job[j].attempts
         /\ \A j \in Jobs \ {proc[p].job} : job'[j] = job[j]
  <1> DEFINE state == AfterFailure(proc[p].attempt)
             row == Released(job[proc[p].job], state)
             at == now + proc[p].attempt
  <1>1. proc[p].job \in Jobs
    BY DEF FailJob, TypeOK, Process
  <1>2. job[proc[p].job] \in Row /\ state \in JobStates /\ at \in Nat
    BY <1>1 DEF TypeOK, JobStates, AfterFailure, Process
  <1>3. row \in Row /\ row.state = state /\ row.attempts = job[proc[p].job].attempts
    BY <1>2, ReleasedRow
  <1>4. job' = [job EXCEPT ![proc[p].job] = [row EXCEPT !.available = at]]
    BY DEF FailJob
  <1> HIDE DEF state, row, at
  <1>5. /\ [row EXCEPT !.available = at] \in Row
        /\ [row EXCEPT !.available = at].state = state
        /\ [row EXCEPT !.available = at].attempts = job[proc[p].job].attempts
    BY <1>2, <1>3, PostponedRow
  <1> QED
    BY <1>1, <1>4, <1>5 DEF TypeOK, state

LEMMA Reclaiming ==
  ASSUME TypeOK, ReclaimJobs
  PROVE  /\ job' \in [Jobs -> Row]
         /\ \A j \in Jobs : job'[j].attempts = job[j].attempts
         /\ \A j \in Expired : job'[j].state = "failed"
         /\ \A j \in Jobs \ Expired : job'[j] = job[j]
  <1>1. \A j \in Jobs : /\ Released(job[j], "failed") \in Row
                       /\ Released(job[j], "failed").state = "failed"
                       /\ Released(job[j], "failed").attempts = job[j].attempts
    BY ReleasedRow DEF TypeOK, JobStates
  <1> QED
    BY <1>1 DEF ReclaimJobs, TypeOK, Expired

\* Every row and every processor keeps its type.
THEOREM JobsTyped == Spec => []TypeOK
<1>1. Init => TypeOK
  BY RuntimeAssumption DEF Init, TypeOK, NoRow, Idle, Row, Process, JobStates
<1>2. TypeOK /\ [Next]_vars => TypeOK'
  <2> SUFFICES ASSUME TypeOK, [Next]_vars PROVE TypeOK'
    OBVIOUS
  <2> USE RuntimeAssumption DEF TypeOK, Row, Process, JobStates
  <2>1. ASSUME NEW j \in Jobs, CreateJob(j) PROVE TypeOK'
    BY <2>1 DEF CreateJob
  <2>2. ASSUME NEW p \in Processors, NEW j \in Jobs, ClaimJobs(p, j) PROVE TypeOK'
    <3>1. /\ Claimed(job[j]) \in Row /\ Claimed(job[j]).state = "running"
          /\ Claimed(job[j]).attempts \in Nat
      BY ClaimedRow
    <3> QED
      BY <2>2, <3>1 DEF ClaimJobs
  <2>3. ASSUME NEW p \in Processors, NEW result \in {"succeeded", "failed"}, Handle(p, result)
        PROVE TypeOK'
    BY <2>3 DEF Handle
  <2>4. ASSUME NEW p \in Processors, CompleteJob(p) PROVE TypeOK'
    <3>1. /\ job' \in [Jobs -> Row]
          /\ \A j \in Jobs : job'[j].state = "absent" => job'[j] = NoRow
      BY <2>4, Completion
    <3> QED
      BY <2>4, <3>1, Completion DEF CompleteJob, Idle
  <2>5. ASSUME NEW p \in Processors, FailJob(p) PROVE TypeOK'
    <3>1. /\ job' \in [Jobs -> Row]
          /\ \A j \in Jobs : job'[j].state = "absent" => job'[j] = NoRow
      BY <2>5, Failure DEF AfterFailure
    <3> QED
      BY <2>5, <3>1 DEF FailJob, Idle
  <2>6. ASSUME NEW p \in Processors, Refused(p) \/ Crash(p) PROVE TypeOK'
    <3>1. proc' = [proc EXCEPT ![p] = Idle] /\ UNCHANGED <<job, outbox, reclaimed, now>>
      BY <2>6 DEF Refused, Crash
    <3> QED
      BY <3>1 DEF Idle
  <2>7. CASE ReclaimJobs
    <3>1. /\ job' \in [Jobs -> Row]
          /\ \A j \in Jobs : job'[j].state = "absent" => job'[j] = NoRow
      BY <2>7, Reclaiming
    <3>2. reclaimed' \in [Jobs -> Nat]
      BY <2>7 DEF ReclaimJobs
    <3> QED
      BY <2>7, <3>1, <3>2 DEF ReclaimJobs
  <2>8. CASE Tick
    BY <2>8 DEF Tick
  <2>9. CASE UNCHANGED vars
    BY <2>9 DEF vars
  <2> QED
    BY <2>1, <2>2, <2>3, <2>4, <2>5, <2>6, <2>7, <2>8, <2>9 DEF Next
<1> QED
  BY <1>1, <1>2, PTL DEF Spec

\* A claim takes an attempt number nobody holds, so no two processors own an attempt.
THEOREM OwnersDiffer == Spec => []OneOwner
<1>1. Init => OneOwner
  BY RuntimeAssumption DEF Init, OneOwner, Owns, Idle, NoRow
<1>2. TypeOK /\ OneOwner /\ [Next]_vars => OneOwner'
  <2> SUFFICES ASSUME TypeOK, OneOwner, [Next]_vars PROVE OneOwner'
    OBVIOUS
  <2> USE RuntimeAssumption DEF TypeOK, Row, Process, OneOwner, Owns
  <2>1. ASSUME NEW j \in Jobs, CreateJob(j) PROVE OneOwner'
    <3>1. \A i \in Jobs : job'[i].attempts = job[i].attempts
      BY <2>1 DEF CreateJob, NoRow
    <3> QED
      BY <2>1, <3>1 DEF CreateJob
  <2>2. ASSUME NEW p \in Processors, NEW j \in Jobs, ClaimJobs(p, j) PROVE OneOwner'
    BY <2>2, ClaimedRow DEF ClaimJobs
  <2>3. ASSUME NEW p \in Processors, NEW result \in {"succeeded", "failed"}, Handle(p, result)
        PROVE OneOwner'
    BY <2>3 DEF Handle
  <2>4. ASSUME NEW p \in Processors, CompleteJob(p) PROVE OneOwner'
    <3>1. proc' = [proc EXCEPT ![p] = Idle]
      BY <2>4 DEF CompleteJob
    <3>2. \A j \in Jobs : job'[j].attempts = job[j].attempts
      BY <2>4, Completion
    <3> QED
      BY <3>1, <3>2 DEF Idle
  <2>5. ASSUME NEW p \in Processors, FailJob(p) PROVE OneOwner'
    <3>1. proc' = [proc EXCEPT ![p] = Idle]
      BY <2>5 DEF FailJob
    <3>2. \A j \in Jobs : job'[j].attempts = job[j].attempts
      BY <2>5, Failure
    <3> QED
      BY <3>1, <3>2 DEF Idle
  <2>6. ASSUME NEW p \in Processors, Refused(p) \/ Crash(p) PROVE OneOwner'
    <3>1. proc' = [proc EXCEPT ![p] = Idle] /\ job' = job
      BY <2>6 DEF Refused, Crash
    <3> QED
      BY <3>1 DEF Idle
  <2>7. CASE ReclaimJobs
    BY <2>7, Reclaiming DEF ReclaimJobs
  <2>8. CASE Tick
    BY <2>8 DEF Tick
  <2>9. CASE UNCHANGED vars
    BY <2>9 DEF vars
  <2> QED
    BY <2>1, <2>2, <2>3, <2>4, <2>5, <2>6, <2>7, <2>8, <2>9 DEF Next
<1> QED
  BY <1>1, <1>2, JobsTyped, PTL DEF Spec

\* Nothing leads away from done, and only the step that makes a job done announces it.
THEOREM DoneOnce == Spec => []AnnouncedOnce
<1>1. Init => AnnouncedOnce
  BY DEF Init, AnnouncedOnce, NoRow
<1>2. TypeOK /\ AnnouncedOnce /\ [Next]_vars => AnnouncedOnce'
  <2> SUFFICES ASSUME TypeOK, AnnouncedOnce, [Next]_vars PROVE AnnouncedOnce'
    OBVIOUS
  <2> USE RuntimeAssumption DEF TypeOK, Row, Process, AnnouncedOnce
  <2>1. ASSUME NEW j \in Jobs, CreateJob(j) PROVE AnnouncedOnce'
    BY <2>1 DEF CreateJob
  <2>2. ASSUME NEW p \in Processors, NEW j \in Jobs, ClaimJobs(p, j) PROVE AnnouncedOnce'
    BY <2>2, ClaimedRow DEF ClaimJobs, Claimable
  <2>3. ASSUME NEW p \in Processors, CompleteJob(p) PROVE AnnouncedOnce'
    <3>1. /\ outbox' = [outbox EXCEPT ![proc[p].job] = outbox[proc[p].job] + 1]
          /\ job[proc[p].job].state = "running"
      BY <2>3 DEF CompleteJob, Fenced
    <3>2. /\ proc[p].job \in Jobs /\ job'[proc[p].job].state = "done"
          /\ \A j \in Jobs \ {proc[p].job} : job'[j] = job[j]
      BY <2>3, Completion
    <3> QED
      BY <3>1, <3>2
  <2>4. ASSUME NEW p \in Processors, FailJob(p) PROVE AnnouncedOnce'
    <3>1. outbox' = outbox /\ job[proc[p].job].state = "running"
      BY <2>4 DEF FailJob, Fenced
    <3>2. /\ job'[proc[p].job].state # "done"
          /\ \A j \in Jobs \ {proc[p].job} : job'[j] = job[j]
      BY <2>4, Failure DEF AfterFailure
    <3> QED
      BY <3>1, <3>2
  <2>5. CASE ReclaimJobs
    BY <2>5, Reclaiming DEF ReclaimJobs, Expired
  <2>6. CASE UNCHANGED <<job, outbox>>
    BY <2>6
  <2> QED
    BY <2>1, <2>2, <2>3, <2>4, <2>5, <2>6 DEF Next, Handle, Refused, Crash, Tick, vars
<1> QED
  BY <1>1, <1>2, JobsTyped, PTL DEF Spec

\* A failure at the last attempt makes the job dead, so only reclaimed leases add attempts.
THEOREM AttemptsBounded == Spec => []OverrunByReclaim
<1>1. Init => OverrunByReclaim
  BY RuntimeAssumption DEF Init, OverrunByReclaim, NoRow
<1>2. TypeOK /\ OverrunByReclaim /\ [Next]_vars => OverrunByReclaim'
  <2> SUFFICES ASSUME TypeOK, OverrunByReclaim, [Next]_vars PROVE OverrunByReclaim'
    OBVIOUS
  <2> USE RuntimeAssumption DEF TypeOK, Row, Process, OverrunByReclaim
  <2>1. ASSUME NEW j \in Jobs, CreateJob(j) PROVE OverrunByReclaim'
    BY <2>1 DEF CreateJob
  <2>2. ASSUME NEW p \in Processors, NEW j \in Jobs, ClaimJobs(p, j) PROVE OverrunByReclaim'
    BY <2>2, ClaimedRow DEF ClaimJobs, Claimable
  <2>3. ASSUME NEW p \in Processors, CompleteJob(p) PROVE OverrunByReclaim'
    BY <2>3, Completion DEF CompleteJob
  <2>4. ASSUME NEW p \in Processors, FailJob(p) PROVE OverrunByReclaim'
    <3>1. /\ reclaimed' = reclaimed
          /\ job[proc[p].job].attempts = proc[p].attempt
      BY <2>4 DEF FailJob, Fenced
    <3>2. /\ proc[p].job \in Jobs
          /\ job'[proc[p].job].state = "failed" => proc[p].attempt < MaxAttempts
          /\ job'[proc[p].job].state # "pending"
          /\ \A j \in Jobs : job'[j].attempts = job[j].attempts
          /\ \A j \in Jobs \ {proc[p].job} : job'[j] = job[j]
      BY <2>4, Failure DEF AfterFailure
    <3> QED
      BY <3>1, <3>2
  <2>5. CASE ReclaimJobs
    BY <2>5, Reclaiming DEF ReclaimJobs, Expired
  <2>6. CASE UNCHANGED <<job, reclaimed>>
    BY <2>6
  <2> QED
    BY <2>1, <2>2, <2>3, <2>4, <2>5, <2>6 DEF Next, Handle, Refused, Crash, Tick, vars
<1> QED
  BY <1>1, <1>2, JobsTyped, PTL DEF Spec

\* The fence of CompleteJob and FailJob admits the owner alone; ReclaimJobs waits for the lease.
THEOREM FenceHolds == Spec => LateOwnerPowerless
<1>1. TypeOK /\ [Next]_vars => OwnedExit \/ UNCHANGED vars
  <2> SUFFICES ASSUME TypeOK, [Next]_vars PROVE OwnedExit \/ UNCHANGED vars
    OBVIOUS
  <2> USE RuntimeAssumption DEF TypeOK, Row, Process, OwnedExit, Owns
  <2>1. ASSUME NEW j \in Jobs, CreateJob(j) PROVE OwnedExit
    BY <2>1 DEF CreateJob
  <2>2. ASSUME NEW p \in Processors, NEW j \in Jobs, ClaimJobs(p, j) PROVE OwnedExit
    BY <2>2, ClaimedRow DEF ClaimJobs
  <2>3. ASSUME NEW p \in Processors, CompleteJob(p) PROVE OwnedExit
    BY <2>3, Completion DEF CompleteJob, Fenced
  <2>4. ASSUME NEW p \in Processors, FailJob(p) PROVE OwnedExit
    BY <2>4, Failure DEF FailJob, Fenced
  <2>5. CASE ReclaimJobs
    BY <2>5, Reclaiming DEF ReclaimJobs, Expired
  <2>6. CASE UNCHANGED job
    BY <2>6
  <2> QED
    BY <2>1, <2>2, <2>3, <2>4, <2>5, <2>6 DEF Next, Handle, Refused, Crash, Tick, vars
<1> QED
  BY <1>1, JobsTyped, PTL DEF Spec, LateOwnerPowerless

=============================================================================
