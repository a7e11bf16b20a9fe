---------------------------- MODULE OutboxProofs ----------------------------
(***************************************************************************)
(* The outbox worker implements the queue of indivisible passes, for any   *)
(* number of jobs, worker loops, attempts and lost passes.                 *)
(***************************************************************************)
EXTENDS OutboxWorker, TLAPS

-----------------------------------------------------------------------------
(* The inductive invariant.                                                *)

WorkerTypeOK ==
  /\ job \in [Jobs -> Row] /\ now \in Nat
  /\ tx \in [Workers -> Transaction]
  /\ lock \in Workers \cup {None}
  /\ delivered \in [Jobs -> Nat] /\ aborts \in Nat

\* The jobs a pass has taken.
Taken(w) == tx[w].queue \cup tx[w].done

\* The row a pass holds of job j: settled, claimed, or as it is in the table.
RowInPass(w, j) ==
  IF j \in tx[w].done THEN Settled(j, Claimed(job[j]), tx[w].at)
  ELSE IF j \in tx[w].queue THEN Claimed(job[j])
  ELSE job[j]

\* A pass that reads has taken nothing, and unless another writer committed meanwhile its
\* snapshot is the table.
ReadingPass(w) ==
  tx[w].phase = "reading" => /\ tx[w].at <= now
                             /\ tx[w].queue = {} /\ tx[w].done = {}
                             /\ ~tx[w].stale => tx[w].rows = job

\* A pass that writes holds the lock, so the table is still the one its batch was chosen
\* from, and its rows are the table's with the batch claimed or settled.
WritingPass(w) ==
  tx[w].phase = "writing" => /\ lock = w
                             /\ tx[w].at <= now
                             /\ tx[w].queue \cap tx[w].done = {}
                             /\ Taken(w) # {} /\ BatchOf(job, tx[w].at, Taken(w))
                             /\ \A j \in Jobs : tx[w].rows[j] = RowInPass(w, j)

PassInv ==
  /\ WorkerTypeOK
  /\ \A w \in Workers : ReadingPass(w) /\ WritingPass(w)

\* What a committed row can be: never running, and a job that may still be picked up has
\* an attempt left.
RowInv ==
  \A j \in Jobs :
    /\ job[j].status # "running"
    /\ job[j].status \in {"absent", "pending"} => job[j].attempts = 0
    /\ job[j].status = "failed" => job[j].attempts \in 1 .. MaxAttempts - 1
    /\ job[j].status = "dead" => job[j].attempts = MaxAttempts

-----------------------------------------------------------------------------
(* Rows.                                                                   *)

\* The backoff is a time.
LEMMA BackoffType ==
  ASSUME NEW row \in Row, NEW at \in Nat
  PROVE  Backoff(row, at) \in Nat
<1>. DEFINE a == at + row.attempts * row.attempts
<1>1. row.attempts * row.attempts \in Nat
  BY DEF Row
<1>2. a \in Nat /\ MaxTime \in Nat
  BY <1>1, QueueAssumption
<1>. HIDE DEF a
<1>3. \E x \in {a, MaxTime} : \A y \in {a, MaxTime} : x <= y
  BY <1>2
<1>4. Min({a, MaxTime}) \in {a, MaxTime}
  BY <1>3 DEF Min
<1>. QED  BY <1>2, <1>4 DEF Backoff, a

LEMMA ClaimedFacts ==
  ASSUME NEW row \in Row
  PROVE  /\ Claimed(row) \in Row
         /\ Claimed(row).attempts = row.attempts + 1
<1>1. row.attempts + 1 \in Nat /\ "running" \in Statuses
  BY DEF Row, Statuses
<1>. QED  BY <1>1 DEF Claimed, Row

\* Settling ends a delivery or sets it up again, and dies at the last attempt.
LEMMA SettledFacts ==
  ASSUME NEW j \in Jobs, NEW row \in Row, NEW at \in Nat
  PROVE  /\ Settled(j, row, at) \in Row
         /\ Settled(j, row, at).attempts = row.attempts
         /\ \/ Settled(j, row, at).status = "succeeded"
            \/ Settled(j, row, at).status = "dead" /\ row.attempts >= MaxAttempts
            \/ Settled(j, row, at).status = "failed" /\ ~(row.attempts >= MaxAttempts)
<1>1. CASE Delivers(j)
  BY <1>1 DEF Settled, Row, Statuses
<1>2. CASE ~Delivers(j)
  <2>. DEFINE s == IF row.attempts >= MaxAttempts THEN "dead" ELSE "failed"
  <2>1. Settled(j, row, at) = [row EXCEPT !.status = s, !.available = Backoff(row, at)]
    BY <1>2 DEF Settled
  <2>2. Backoff(row, at) \in Nat /\ s \in Statuses
    BY BackoffType DEF Statuses
  <2>. QED  BY <2>1, <2>2 DEF Row
<1>. QED  BY <1>1, <1>2

-----------------------------------------------------------------------------
(* A pass of a worker is private until it commits.                         *)

\* The empty transaction.
LEMMA IdleTransaction ==
  NoTransaction \in Transaction /\ NoTransaction.phase = "idle"
<1>1. [j \in Jobs |-> NoRow] \in [Jobs -> Row]
  BY DEF NoRow, Row, Statuses
<1>. QED  BY <1>1 DEF NoTransaction, Transaction

\* The invariant of a pass only speaks of its own transaction, the table and the lock.
LEMMA OtherPassKept ==
  ASSUME PassInv, NEW w \in Workers, NEW v \in Workers \ {w},
         tx'[v] = tx[v], job' = job, now' = now,
         lock' = lock \/ lock \in {w, None}
  PROVE  ReadingPass(v)' /\ WritingPass(v)'
<1>1. ReadingPass(v)'
  BY DEF PassInv, ReadingPass
<1>2. ASSUME tx[v].phase = "writing"
      PROVE  lock' = v
  BY <1>2, WorkerAssumption DEF PassInv, WritingPass
<1>3. WritingPass(v)'
  BY <1>2 DEF PassInv, WritingPass, Taken, RowInPass
<1>. QED  BY <1>1, <1>3

\* So a step of one worker that leaves the table alone has its own pass to answer for.
LEMMA OwnPass ==
  ASSUME PassInv, NEW w \in Workers, NEW t \in Transaction,
         tx' = [tx EXCEPT ![w] = t], job' = job, now' = now,
         lock' \in Workers \cup {None}, lock' = lock \/ lock \in {w, None},
         delivered' = delivered, aborts' \in Nat,
         ReadingPass(w)', WritingPass(w)'
  PROVE  PassInv'
<1>1. WorkerTypeOK'
  BY DEF PassInv, WorkerTypeOK
<1>2. \A v \in Workers \ {w} : tx'[v] = tx[v]
  BY DEF PassInv, WorkerTypeOK
<1>3. \A v \in Workers \ {w} : ReadingPass(v)' /\ WritingPass(v)'
  BY <1>2, OtherPassKept
<1>. QED  BY <1>1, <1>3 DEF PassInv

\* A transaction that ends leaves nothing to say.
LEMMA PassDropped ==
  ASSUME PassInv, NEW w \in Workers,
         tx' = [tx EXCEPT ![w] = NoTransaction], job' = job, now' = now,
         lock' \in {lock, None}, lock' = lock \/ lock \in {w, None},
         delivered' = delivered, aborts' \in Nat
  PROVE  PassInv'
<1>1. tx'[w].phase = "idle"
  BY IdleTransaction DEF PassInv, WorkerTypeOK
<1>2. ReadingPass(w)' /\ WritingPass(w)'
  BY <1>1 DEF ReadingPass, WritingPass
<1>3. lock' \in Workers \cup {None}
  BY DEF PassInv, WorkerTypeOK
<1>. QED  BY <1>2, <1>3, IdleTransaction, OwnPass

\* A pass begins with a snapshot of the table (worker/worker.go, RunOnce).
LEMMA BeginPass ==
  ASSUME PassInv, NEW w \in Workers, Begin(w)
  PROVE  PassInv'
<1>. DEFINE t == [NoTransaction EXCEPT !.phase = "reading", !.at = now, !.rows = job]
<1>1. /\ t \in Transaction /\ t.phase = "reading" /\ t.at = now /\ t.rows = job
      /\ t.queue = {} /\ t.done = {}
  BY DEF PassInv, WorkerTypeOK, NoTransaction, Transaction
<1>2. tx' = [tx EXCEPT ![w] = t] /\ UNCHANGED <<job, now, lock, delivered, aborts>>
  BY DEF Begin
<1>. HIDE DEF t
<1>3. tx'[w] = t
  BY <1>2 DEF PassInv, WorkerTypeOK
<1>4. ReadingPass(w)' /\ WritingPass(w)'
  BY <1>1, <1>2, <1>3 DEF PassInv, WorkerTypeOK, ReadingPass, WritingPass
<1>. QED  BY <1>1, <1>2, <1>4, OwnPass DEF PassInv, WorkerTypeOK

\* The claim is let through only while the snapshot is the table, and takes the lock
\* (storage/sqlite/outbox.go, ClaimJobs).
LEMMA ClaimPass ==
  ASSUME PassInv, NEW w \in Workers, NEW S \in SUBSET Jobs, ClaimJobs(w, S)
  PROVE  PassInv'
<1>. DEFINE r == [j \in Jobs |-> IF j \in S THEN Claimed(tx[w].rows[j]) ELSE tx[w].rows[j]]
            t == [tx[w] EXCEPT !.phase = "writing", !.queue = S, !.rows = r]
<1>0. /\ tx[w] \in Transaction /\ job \in [Jobs -> Row]
      /\ tx[w].phase = "reading" /\ lock = None /\ ~tx[w].stale
      /\ S # {} /\ BatchOf(tx[w].rows, tx[w].at, S)
  BY DEF PassInv, WorkerTypeOK, ClaimJobs, MayWrite
<1>1. tx[w].at <= now /\ tx[w].done = {} /\ tx[w].rows = job
  BY <1>0 DEF PassInv, ReadingPass
<1>2. r \in [Jobs -> Row]
  BY <1>0, <1>1, ClaimedFacts
<1>3. \A j \in Jobs : r[j] = IF j \in S THEN Claimed(job[j]) ELSE job[j]
  BY <1>1
<1>4. /\ tx' = [tx EXCEPT ![w] = t] /\ lock' = w
      /\ UNCHANGED <<job, now, delivered, aborts>>
  BY DEF ClaimJobs
<1>. HIDE DEF r
<1>5. /\ t \in Transaction /\ t.phase = "writing" /\ t.at = tx[w].at /\ t.rows = r
      /\ t.queue = S /\ t.done = {}
  BY <1>0, <1>1, <1>2 DEF Transaction
<1>. HIDE DEF t
<1>6. tx'[w] = t
  BY <1>4 DEF PassInv, WorkerTypeOK
<1>7. ReadingPass(w)' /\ WritingPass(w)'
  BY <1>0, <1>1, <1>3, <1>4, <1>5, <1>6 DEF ReadingPass, WritingPass, Taken, RowInPass
<1>. QED  BY <1>0, <1>4, <1>5, <1>7, OwnPass DEF PassInv, WorkerTypeOK

\* Settling a job moves it from the queue to what is done.
LEMMA ProcessPass ==
  ASSUME PassInv, NEW w \in Workers, NEW j \in Jobs, ProcessJob(w, j)
  PROVE  PassInv'
<1>. DEFINE x == Settled(j, tx[w].rows[j], tx[w].at)
            r == [tx[w].rows EXCEPT ![j] = x]
            t == [tx[w] EXCEPT !.queue = @ \ {j}, !.done = @ \cup {j}, !.rows = r]
<1>0. /\ tx[w] \in Transaction /\ job \in [Jobs -> Row]
      /\ tx[w].phase = "writing" /\ j \in tx[w].queue
      /\ tx[w].rows \in [Jobs -> Row] /\ tx[w].at \in Nat
  BY DEF PassInv, WorkerTypeOK, ProcessJob, Transaction
<1>1. WritingPass(w)
  BY DEF PassInv
<1>2. x \in Row
  BY <1>0, SettledFacts
<1>3. tx[w].rows[j] = Claimed(job[j])
  BY <1>0, <1>1 DEF WritingPass, RowInPass
<1>4. x = Settled(j, Claimed(job[j]), tx[w].at)
  BY <1>3
<1>5. /\ tx' = [tx EXCEPT ![w] = t]
      /\ UNCHANGED <<job, now, lock, delivered, aborts>>
  BY DEF ProcessJob
<1>. HIDE DEF x
<1>6. r \in [Jobs -> Row] /\ \A i \in Jobs : r[i] = IF i = j THEN x ELSE tx[w].rows[i]
  BY <1>0, <1>2
<1>. HIDE DEF r
<1>7. /\ t \in Transaction /\ t.phase = "writing" /\ t.at = tx[w].at /\ t.rows = r
      /\ t.queue = tx[w].queue \ {j} /\ t.done = tx[w].done \cup {j}
  BY <1>0, <1>6 DEF Transaction
<1>. HIDE DEF t
<1>8. tx'[w] = t
  BY <1>5 DEF PassInv, WorkerTypeOK
<1>9. Taken(w)' = Taken(w)
  BY <1>0, <1>7, <1>8 DEF Taken
<1>10. \A i \in Jobs : tx'[w].rows[i] = RowInPass(w, i)'
  BY <1>0, <1>1, <1>4, <1>5, <1>6, <1>7, <1>8 DEF WritingPass, RowInPass
<1>11. ReadingPass(w)' /\ WritingPass(w)'
  BY <1>0, <1>1, <1>5, <1>7, <1>8, <1>9, <1>10 DEF ReadingPass, WritingPass
<1>. QED  BY <1>5, <1>7, <1>11, OwnPass DEF PassInv, WorkerTypeOK

\* A commit ages the other snapshots; nobody else is writing.
LEMMA OutdatedPasses ==
  ASSUME PassInv
  PROVE  /\ Outdate(tx) \in [Workers -> Transaction]
         /\ \A v \in Workers : /\ Outdate(tx)[v].phase = tx[v].phase
                               /\ Outdate(tx)[v].at = tx[v].at
                               /\ Outdate(tx)[v].queue = tx[v].queue
                               /\ Outdate(tx)[v].done = tx[v].done
                               /\ tx[v].phase = "reading" => Outdate(tx)[v].stale
BY DEF PassInv, WorkerTypeOK, Outdate, Transaction

\* A service inserts a job while nobody holds the write lock.
LEMMA InsertPass ==
  ASSUME PassInv, NEW j \in Jobs, InsertJob(j)
  PROVE  PassInv'
<1>1. /\ lock = None /\ now' = now /\ tx' = Outdate(tx)
      /\ UNCHANGED <<lock, delivered, aborts>>
      /\ job' = [job EXCEPT ![j] = [status |-> "pending", attempts |-> 0,
                                    available |-> now, created |-> now]]
  BY DEF InsertJob, Insert
<1>2. job' \in [Jobs -> Row]
  BY <1>1 DEF PassInv, WorkerTypeOK, Row, Statuses
<1>3. \A v \in Workers : tx[v].phase # "writing"
  BY <1>1, WorkerAssumption DEF PassInv, WritingPass
<1>4. \A v \in Workers : ReadingPass(v)' /\ WritingPass(v)'
  BY <1>1, <1>3, OutdatedPasses DEF PassInv, ReadingPass, WritingPass
<1>. QED  BY <1>1, <1>2, <1>4, OutdatedPasses DEF PassInv, WorkerTypeOK

\* A committed pass replaces the table by its own rows.
LEMMA CommitPass ==
  ASSUME PassInv, NEW w \in Workers, Commit(w)
  PROVE  PassInv'
<1>1. /\ tx[w].phase = "writing" /\ job' = tx[w].rows /\ lock' = None
      /\ delivered' = [j \in Jobs |-> IF j \in tx[w].done THEN delivered[j] + 1 ELSE delivered[j]]
      /\ tx' = [Outdate(tx) EXCEPT ![w] = NoTransaction]
      /\ UNCHANGED <<now, aborts>>
  BY DEF Commit, ReadyToCommit
<1>2. /\ job' \in [Jobs -> Row] /\ delivered' \in [Jobs -> Nat]
  BY <1>1 DEF PassInv, WorkerTypeOK, Transaction
<1>3. /\ tx' \in [Workers -> Transaction]
      /\ tx'[w].phase = "idle"
      /\ \A v \in Workers \ {w} : tx'[v] = Outdate(tx)[v]
  BY <1>1, OutdatedPasses, IdleTransaction
<1>4. \A v \in Workers \ {w} : tx[v].phase # "writing"
  BY <1>1 DEF PassInv, WritingPass
<1>5. \A v \in Workers : ReadingPass(v)' /\ WritingPass(v)'
  BY <1>1, <1>3, <1>4, OutdatedPasses DEF PassInv, ReadingPass, WritingPass
<1>. QED  BY <1>1, <1>2, <1>3, <1>5 DEF PassInv, WorkerTypeOK

\* The passes of any number of workers keep out of each other's way.
LEMMA PassInvHolds == WorkerSpec => []PassInv
<1>1. WorkerInit => PassInv
  BY IdleTransaction
     DEF WorkerInit, Init, PassInv, WorkerTypeOK, ReadingPass, WritingPass, NoRow, Row, Statuses
<1>2. PassInv /\ [WorkerNext]_vars => PassInv'
  <2>. SUFFICES ASSUME PassInv, [WorkerNext]_vars PROVE PassInv'
    OBVIOUS
  <2>1. ASSUME NEW w \in Workers, Refused(w) \/ EmptyPass(w) PROVE PassInv'
    BY <2>1, PassDropped DEF Refused, EmptyPass, PassInv, WorkerTypeOK
  <2>2. ASSUME NEW w \in Workers, Abort(w) PROVE PassInv'
    <3>1. /\ tx' = [tx EXCEPT ![w] = NoTransaction]
          /\ lock' = IF lock = w THEN None ELSE lock
          /\ aborts' = aborts + 1
          /\ UNCHANGED <<job, now, delivered>>
      BY <2>2 DEF Abort
    <3>2. aborts' \in Nat
      BY <3>1 DEF PassInv, WorkerTypeOK
    <3>. QED  BY <3>1, <3>2, PassDropped
  <2>3. CASE Elapse
    <3>1. now \in Nat /\ now' = now + 1 /\ UNCHANGED <<job, tx, lock, delivered, aborts>>
      BY <2>3 DEF Elapse, Tick, PassInv, WorkerTypeOK
    <3>2. WorkerTypeOK'
      BY <3>1 DEF PassInv, WorkerTypeOK
    <3>3. \A w \in Workers : tx[w].at \in Nat
      BY DEF PassInv, WorkerTypeOK, Transaction
    <3>4. \A w \in Workers : tx[w].at <= now => tx'[w].at <= now'
      BY <3>1, <3>3
    <3>5. ASSUME NEW w \in Workers
          PROVE  ReadingPass(w)' /\ WritingPass(w)'
      <4>1. Taken(w)' = Taken(w) /\ \A j \in Jobs : RowInPass(w, j)' = RowInPass(w, j)
        BY <3>1 DEF Taken, RowInPass
      <4>. QED  BY <3>1, <3>4, <4>1 DEF PassInv, ReadingPass, WritingPass
    <3>. QED  BY <3>2, <3>5 DEF PassInv
  <2>4. CASE UNCHANGED vars
    BY <2>4 DEF vars, PassInv, WorkerTypeOK, ReadingPass, WritingPass, Taken, RowInPass
  <2>. QED
    BY <2>1, <2>2, <2>3, <2>4, InsertPass, BeginPass, ClaimPass, ProcessPass, CommitPass
       DEF WorkerNext, WorkerStep
<1>. QED  BY <1>1, <1>2, PTL DEF WorkerSpec

-----------------------------------------------------------------------------
(* What a commit does to the table.                                        *)

\* The rows of a finished pass are the batch, settled, and the rest as it was.
LEMMA Committed ==
  ASSUME PassInv, NEW w \in Workers, Commit(w)
  PROVE  /\ tx[w].done # {} /\ tx[w].done \in SUBSET Jobs
         /\ tx[w].at \in 0 .. now /\ now' = now
         /\ BatchOf(job, tx[w].at, tx[w].done)
         /\ job' = [j \in Jobs |-> IF j \in tx[w].done
                                   THEN Settled(j, Claimed(job[j]), tx[w].at) ELSE job[j]]
         /\ delivered' = [j \in Jobs |-> IF j \in tx[w].done THEN delivered[j] + 1
                                                             ELSE delivered[j]]
<1>1. /\ tx[w].phase = "writing" /\ tx[w].queue = {} /\ job' = tx[w].rows
      /\ delivered' = [j \in Jobs |-> IF j \in tx[w].done THEN delivered[j] + 1 ELSE delivered[j]]
      /\ now' = now
  BY DEF Commit, ReadyToCommit
<1>2. /\ tx[w].done \in SUBSET Jobs /\ tx[w].at \in Nat /\ now \in Nat
      /\ tx[w].rows \in [Jobs -> Row]
  BY DEF PassInv, WorkerTypeOK, Transaction
<1>3. WritingPass(w)
  BY DEF PassInv
<1>4. Taken(w) = tx[w].done
  BY <1>1 DEF Taken
<1>5. \A j \in Jobs : tx[w].rows[j] = IF j \in tx[w].done
                                      THEN Settled(j, Claimed(job[j]), tx[w].at) ELSE job[j]
  BY <1>1, <1>3 DEF WritingPass, RowInPass
<1>. QED  BY <1>1, <1>2, <1>3, <1>4, <1>5 DEF WritingPass

\* Every other step leaves the table alone or inserts a job.
LEMMA OtherSteps ==
  ASSUME [WorkerNext]_vars
  PROVE  \/ \E w \in Workers : Commit(w)
         \/ \E j \in Jobs : Insert(j) /\ delivered' = delivered
         \/ Tick /\ delivered' = delivered
         \/ UNCHANGED <<job, now, delivered>>
BY DEF WorkerNext, WorkerStep, InsertJob, Begin, ClaimJobs, Refused, EmptyPass, ProcessJob,
       Abort, Elapse, vars

\* For any number of jobs, workers and lost passes: overlapping, refused and lost passes
\* have the effect of indivisible ones (worker/worker.go, storage/sqlite/outbox.go).
THEOREM PassesAreAtomic == WorkerSpec => AtomicPasses
<1>1. WorkerInit => Init
  BY DEF WorkerInit
<1>2. PassInv /\ [WorkerNext]_vars => [Next]_queueVars
  <2>. SUFFICES ASSUME PassInv, [WorkerNext]_vars PROVE Next \/ UNCHANGED queueVars
    OBVIOUS
  <2>1. ASSUME NEW w \in Workers, Commit(w) PROVE Next
    <3>1. Pass(tx[w].at, tx[w].done)
      BY <2>1, Committed DEF Pass
    <3>. QED  BY <2>1, <3>1, Committed DEF Next
  <2>. QED  BY <2>1, OtherSteps DEF Next, queueVars
<1>. QED  BY <1>1, <1>2, PassInvHolds, PTL DEF WorkerSpec, AtomicPasses, Spec

\* No committed row is running, and one that may be picked up has an attempt left.
LEMMA RowInvHolds == WorkerSpec => []RowInv
<1>1. WorkerInit => RowInv
  BY DEF WorkerInit, Init, NoRow, RowInv
<1>2. PassInv /\ RowInv /\ [WorkerNext]_vars => RowInv'
  <2>. SUFFICES ASSUME PassInv, RowInv, [WorkerNext]_vars PROVE RowInv'
    OBVIOUS
  <2>1. ASSUME NEW w \in Workers, Commit(w) PROVE RowInv'
    <3>. SUFFICES ASSUME NEW j \in Jobs
                  PROVE  /\ job'[j].status # "running"
                         /\ job'[j].status \in {"absent", "pending"} => job'[j].attempts = 0
                         /\ job'[j].status = "failed" => job'[j].attempts \in 1 .. MaxAttempts - 1
                         /\ job'[j].status = "dead" => job'[j].attempts = MaxAttempts
      BY DEF RowInv
    <3>0. /\ job[j] \in Row /\ tx[w].at \in Nat /\ job[j].attempts \in Nat
          /\ MaxAttempts \in Nat \ {0}
      BY <2>1, QueueAssumption DEF PassInv, WorkerTypeOK, Transaction, Row
    <3>1. CASE j \notin tx[w].done
      <4>1. job'[j] = job[j]
        BY <2>1, <3>1, Committed
      <4>. QED  BY <4>1 DEF RowInv
    <3>2. CASE j \in tx[w].done
      <4>. DEFINE c == Claimed(job[j])
                  x == Settled(j, c, tx[w].at)
      <4>1. job'[j] = x
        BY <2>1, <3>2, Committed
      <4>2. c \in Row /\ c.attempts = job[j].attempts + 1
        BY <3>0, ClaimedFacts
      <4>3. job[j].attempts < MaxAttempts
        <5>1. job[j].status \in {"pending", "failed"}
          BY <2>1, <3>2, Committed DEF BatchOf, Due
        <5>. QED  BY <3>0, <5>1 DEF RowInv
      <4>. HIDE DEF c
      <4>4. /\ x.attempts = c.attempts
            /\ \/ x.status = "succeeded"
               \/ x.status = "dead" /\ c.attempts >= MaxAttempts
               \/ x.status = "failed" /\ ~(c.attempts >= MaxAttempts)
        BY <3>0, <4>2, SettledFacts
      <4>. HIDE DEF x
      <4>. QED  BY <3>0, <4>1, <4>2, <4>3, <4>4
    <3>. QED  BY <3>1, <3>2
  <2>2. ASSUME NEW j \in Jobs, Insert(j) PROVE RowInv'
    BY <2>2 DEF Insert, RowInv, PassInv, WorkerTypeOK
  <2>. QED  BY <2>1, <2>2, OtherSteps DEF Tick, RowInv
<1>. QED  BY <1>1, <1>2, PassInvHolds, PTL DEF WorkerSpec

\* A job that dies or may be retried has used as many attempts as that takes
\* (worker/worker.go, processJob).
THEOREM DeathByExhaustion == WorkerSpec => []DeadWhenExhausted
<1>1. RowInv => DeadWhenExhausted
  BY DEF RowInv, DeadWhenExhausted
<1>. QED  BY <1>1, RowInvHolds, PTL

\* A committed pass is the only step that counts an attempt, and counts it once.
THEOREM CountedOnce == WorkerSpec => []DeliveriesCounted
<1>1. WorkerInit => DeliveriesCounted
  BY DEF WorkerInit, Init, NoRow, DeliveriesCounted
<1>2. PassInv /\ RowInv /\ DeliveriesCounted /\ [WorkerNext]_vars => DeliveriesCounted'
  <2>. SUFFICES ASSUME PassInv, RowInv, DeliveriesCounted, [WorkerNext]_vars
                PROVE  DeliveriesCounted'
    OBVIOUS
  <2>1. ASSUME NEW w \in Workers, Commit(w) PROVE DeliveriesCounted'
    <3>1. /\ job \in [Jobs -> Row] /\ tx[w].at \in Nat
      BY <2>1, Committed DEF PassInv, WorkerTypeOK, Transaction
    <3>2. \A j \in Jobs : Settled(j, Claimed(job[j]), tx[w].at).attempts = job[j].attempts + 1
      BY <3>1, ClaimedFacts, SettledFacts
    <3>. QED  BY <2>1, <3>2, Committed DEF DeliveriesCounted
  <2>2. ASSUME NEW j \in Jobs, Insert(j), delivered' = delivered PROVE DeliveriesCounted'
    BY <2>2 DEF Insert, RowInv, DeliveriesCounted, PassInv, WorkerTypeOK
  <2>. QED  BY <2>1, <2>2, OtherSteps DEF Tick, DeliveriesCounted
<1>. QED  BY <1>1, <1>2, PassInvHolds, RowInvHolds, PTL DEF WorkerSpec

=============================================================================
