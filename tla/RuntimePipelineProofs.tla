------------------------ MODULE RuntimePipelineProofs ------------------------
(***************************************************************************)
(* What Pipeline and Retry promise any number of callers, for every order  *)
(* of their steps, however many restores and new pipelines there are.      *)
(***************************************************************************)
EXTENDS RuntimePipeline, FiniteSetTheorems, TLAPS

USE DEF Phase, IsRunning

CallRecord ==
  [phase : {"none", "retry", "waiting", "looking", "stepping", "marking"},
   at : 1 .. Last + 1, known : SUBSET (1 .. Last), attempt : 0 .. Attempts,
   cancelled : BOOLEAN, done : SUBSET (1 .. Last), reset : BOOLEAN]

Typed ==
  /\ completed \in SUBSET (1 .. Last) /\ saved \in SUBSET (1 .. Last)
  /\ call \in [Callers -> CallRecord]
  /\ ran \in [1 .. Last -> Nat]

\* Where a call is: it steps within the order, past what has succeeded, and a call that
\* may begin an attempt has one left.
Placed(c) ==
  /\ Phase(c) \in {"stepping", "marking"} => call[c].at \in 1 .. Last
  /\ Phase(c) \in {"retry", "waiting"} => call[c].attempt < Attempts
  /\ IsRunning(c) => 1 .. call[c].at - 1 \subseteq succeeded
  /\ Phase(c) = "marking" => call[c].at \in succeeded

\* What an attempt found completed stays so until a reset.
Resuming(c) ==
  /\ IsRunning(c) /\ ~call[c].reset => call[c].done \subseteq completed
  /\ Phase(c) = "stepping" /\ ~call[c].reset => call[c].at \notin call[c].done

PipelineInv ==
  /\ Typed
  /\ completed \cup saved \subseteq succeeded
  /\ \A c \in Callers : Placed(c) /\ Resuming(c)

\* One call's record changes, to one that is placed; nothing completed is lost.
LEMMA OneCallMoves ==
  ASSUME PipelineInv, NEW c \in Callers, NEW r \in CallRecord,
         call' = [call EXCEPT ![c] = r],
         completed \subseteq completed', completed' \subseteq succeeded',
         succeeded \subseteq succeeded', saved' \in {saved, completed},
         completed' \in SUBSET (1 .. Last), ran' \in [1 .. Last -> Nat],
         Placed(c)', Resuming(c)'
  PROVE  PipelineInv'
<1>1. Typed'
  BY DEF PipelineInv, Typed
<1>2. (completed \cup saved \subseteq succeeded)'
  BY DEF PipelineInv
<1>3. ASSUME NEW d \in Callers, d # c PROVE Placed(d)' /\ Resuming(d)'
  <2>1. call'[d] = call[d]
    BY <1>3 DEF PipelineInv, Typed
  <2> QED BY <2>1 DEF PipelineInv, Placed, Resuming
<1> QED BY <1>1, <1>2, <1>3 DEF PipelineInv

LEMMA NoCallRecord == NoCall \in CallRecord
BY PipelineAssumption DEF NoCall, CallRecord

\* Run returning an error leaves the call placed.
LEMMA FailedPlaced ==
  ASSUME PipelineInv, NEW c \in Callers, IsRunning(c), call' = Failed(c),
         UNCHANGED <<completed, saved, succeeded, ran, resets>>
  PROVE  PipelineInv'
<1> DEFINE r == IF Exhausted(c) THEN NoCall
                ELSE [call[c] EXCEPT !.phase = "waiting", !.at = 1, !.done = {}, !.reset = FALSE]
<1>1. call[c] \in CallRecord
  BY DEF PipelineInv, Typed
<1>a. 1 \in 1 .. Last + 1 /\ {} \in SUBSET (1 .. Last) /\ FALSE \in BOOLEAN
  BY PipelineAssumption
<1>b. [call[c] EXCEPT !.phase = "waiting", !.at = 1, !.done = {}, !.reset = FALSE] \in CallRecord
  BY <1>1, <1>a DEF CallRecord
<1>c. call' = [call EXCEPT ![c] = r]
  BY DEF Failed
<1>2. r \in CallRecord /\ call' = [call EXCEPT ![c] = r] /\ call'[c] = r
  BY <1>b, <1>c, NoCallRecord DEF PipelineInv, Typed
<1>3. r.phase \in {"none", "waiting"}
  BY <1>1 DEF CallRecord, NoCall
<1>4. r.phase = "waiting" => r.attempt < Attempts
  BY <1>1, PipelineAssumption DEF CallRecord, NoCall, Exhausted
<1> HIDE DEF r
<1>5. Placed(c)' /\ Resuming(c)'
  BY <1>2, <1>3, <1>4 DEF Placed, Resuming
<1> QED BY <1>2, <1>5, OneCallMoves DEF PipelineInv, Typed

LEMMA PipelineInvStep == PipelineInv /\ [Next]_vars => PipelineInv'
<1> SUFFICES ASSUME PipelineInv, [Next]_vars PROVE PipelineInv'
  OBVIOUS
<1>t. Typed /\ completed \cup saved \subseteq succeeded
  BY DEF PipelineInv
<1> USE PipelineAssumption
<1>1. ASSUME NEW c \in Callers, CallStep(c) PROVE PipelineInv'
  <2>0. call[c] \in CallRecord /\ Placed(c) /\ Resuming(c)
    BY DEF PipelineInv, Typed
  <2>1. CASE Attempt(c)
    <3>1. CASE MayAttempt(c)
      <4> DEFINE r == [call[c] EXCEPT !.phase = "looking", !.at = 1, !.attempt = @ + 1,
                                      !.done = completed, !.reset = FALSE]
      <4>1. call[c].attempt + 1 \in 0 .. Attempts
        BY <2>0, <2>1 DEF Attempt, Placed, CallRecord
      <4>a. 1 \in 1 .. Last + 1 /\ completed \in SUBSET (1 .. Last)
        BY <1>t DEF Typed
      <4>b. r \in CallRecord
        BY <2>0, <4>1, <4>a DEF CallRecord
      <4>2. r \in CallRecord /\ call' = [call EXCEPT ![c] = r] /\ call'[c] = r
        BY <2>1, <3>1, <4>b, <1>t DEF Attempt, Typed
      <4>3. r.phase = "looking" /\ r.at = 1 /\ r.done = completed
        BY <2>0 DEF CallRecord
      <4> HIDE DEF r
      <4>4. Placed(c)' /\ Resuming(c)'
        BY <2>1, <4>2, <4>3 DEF Attempt, Placed, Resuming
      <4> QED BY <2>1, <4>2, <4>4, <1>t, OneCallMoves DEF Attempt, Typed
    <3>2. CASE ~MayAttempt(c)
      <4>1. call' = [call EXCEPT ![c] = NoCall] /\ call'[c] = NoCall
        BY <2>1, <3>2, <1>t DEF Attempt, Typed
      <4>2. Placed(c)' /\ Resuming(c)'
        BY <4>1 DEF NoCall, Placed, Resuming
      <4> QED BY <2>1, <4>1, <4>2, <1>t, NoCallRecord, OneCallMoves DEF Attempt, Typed
    <3> QED BY <3>1, <3>2
  <2>2. CASE Wait(c)
    <3>1. CASE call' = [call EXCEPT ![c].phase = "retry"]
      <4> DEFINE r == [call[c] EXCEPT !.phase = "retry"]
      <4>1. r \in CallRecord /\ call' = [call EXCEPT ![c] = r] /\ call'[c] = r
        BY <2>0, <3>1, <1>t DEF CallRecord, Typed
      <4>2. r.phase = "retry" /\ r.attempt = call[c].attempt
        BY <2>0 DEF CallRecord
      <4> HIDE DEF r
      <4>3. Placed(c)' /\ Resuming(c)'
        BY <2>0, <2>2, <4>1, <4>2 DEF Wait, Placed, Resuming
      <4> QED BY <2>2, <4>1, <4>3, <1>t, OneCallMoves DEF Wait, Typed
    <3>2. CASE call' = [call EXCEPT ![c] = NoCall]
      <4>1. call'[c] = NoCall
        BY <3>2, <1>t DEF Typed
      <4>2. Placed(c)' /\ Resuming(c)'
        BY <4>1 DEF NoCall, Placed, Resuming
      <4> QED BY <2>2, <3>2, <4>2, <1>t, NoCallRecord, OneCallMoves DEF Wait, Typed
    <3> QED BY <2>2, <3>1, <3>2 DEF Wait
  <2>3. CASE Look(c)
    <3> DEFINE k == call[c].at
    <3>1. CASE k > Last
      <4>1. call' = [call EXCEPT ![c] = NoCall] /\ call'[c] = NoCall
        BY <2>3, <3>1, <1>t DEF Look, Typed
      <4>2. Placed(c)' /\ Resuming(c)'
        BY <4>1 DEF NoCall, Placed, Resuming
      <4> QED BY <2>3, <4>1, <4>2, <1>t, NoCallRecord, OneCallMoves DEF Look, Typed
    <3>2. CASE ~(k > Last) /\ IsDone(k)
      <4> DEFINE r == [call[c] EXCEPT !.at = k + 1]
      <4>1. k + 1 \in 1 .. Last + 1
        BY <2>0, <3>2 DEF CallRecord
      <4>2. r \in CallRecord /\ call' = [call EXCEPT ![c] = r] /\ call'[c] = r
        BY <2>0, <2>3, <3>2, <4>1, <1>t DEF CallRecord, Look, Typed
      <4>3. r.phase = "looking" /\ r.at = k + 1 /\ r.done = call[c].done
            /\ r.reset = call[c].reset
        BY <2>0, <2>3 DEF CallRecord, Look
      <4>4. 1 .. k \subseteq succeeded
        <5>1. k \in Nat /\ k \in succeeded /\ 1 .. k - 1 \subseteq succeeded
          BY <2>0, <2>3, <3>2, <1>t DEF Look, Placed, CallRecord, IsDone
        <5> QED BY <5>1
      <4>5. (k + 1) - 1 = k
        BY <2>0 DEF CallRecord
      <4>6. Placed(c)'
        <5> HIDE DEF r, k
        <5> QED BY <2>3, <4>2, <4>3, <4>4, <4>5 DEF Look, Placed
      <4>7. Resuming(c)'
        <5> HIDE DEF r, k
        <5> QED BY <2>0, <2>3, <4>2, <4>3 DEF Look, Resuming
      <4> HIDE DEF r, k
      <4> QED BY <2>3, <4>2, <4>6, <4>7, <1>t, OneCallMoves DEF Look, Typed
    <3>3. CASE ~(k > Last) /\ ~IsDone(k) /\ k \notin call[c].known
      <4>1. call' = Failed(c) /\ UNCHANGED <<completed, saved, succeeded, ran, resets>>
        BY <2>3, <3>3 DEF Look
      <4> QED BY <2>3, <4>1, FailedPlaced DEF Look
    <3>4. CASE ~(k > Last) /\ ~IsDone(k) /\ k \in call[c].known
      <4> DEFINE r == [call[c] EXCEPT !.phase = "stepping"]
      <4>1. r \in CallRecord /\ call' = [call EXCEPT ![c] = r] /\ call'[c] = r
        BY <2>0, <2>3, <3>4, <1>t DEF CallRecord, Look, Typed
      <4>2. r.phase = "stepping" /\ r.at = k /\ r.done = call[c].done
            /\ r.reset = call[c].reset
        BY <2>0 DEF CallRecord
      <4>3. k \in 1 .. Last
        BY <2>0, <3>4 DEF CallRecord
      <4>4. k \notin completed
        BY <3>4 DEF IsDone
      <4>5. Placed(c)' /\ Resuming(c)'
        <5> HIDE DEF r
        <5> QED BY <2>0, <2>3, <4>1, <4>2, <4>3, <4>4 DEF Look, Placed, Resuming
      <4> HIDE DEF r
      <4> QED BY <2>3, <4>1, <4>5, <1>t, OneCallMoves DEF Look, Typed
    <3> QED BY <3>1, <3>2, <3>3, <3>4
  <2>4. CASE StepSucceeds(c)
    <3> DEFINE r == [call[c] EXCEPT !.phase = "marking"]
    <3>1. r \in CallRecord /\ call' = [call EXCEPT ![c] = r] /\ call'[c] = r
      BY <2>0, <2>4, <1>t DEF CallRecord, StepSucceeds, Typed
    <3>2. r.phase = "marking" /\ r.at = call[c].at /\ r.done = call[c].done
          /\ r.reset = call[c].reset
      BY <2>0 DEF CallRecord
    <3>3. call[c].at \in 1 .. Last
      BY <2>0, <2>4 DEF StepSucceeds, Placed
    <3>4. ran' \in [1 .. Last -> Nat]
      BY <2>4, <3>3, <1>t DEF StepSucceeds, Typed
    <3>5. Placed(c)' /\ Resuming(c)'
      <4> HIDE DEF r
      <4> QED BY <2>0, <2>4, <3>1, <3>2, <3>3 DEF StepSucceeds, Placed, Resuming
    <3> HIDE DEF r
    <3> QED BY <2>4, <3>1, <3>4, <3>5, <1>t, OneCallMoves DEF StepSucceeds, Typed
  <2>5. CASE StepFails(c)
    BY <2>5, FailedPlaced DEF StepFails
  <2>6. CASE Mark(c)
    <3> DEFINE k == call[c].at
               r == [call[c] EXCEPT !.phase = "looking", !.at = k + 1]
    <3>1. k \in 1 .. Last /\ k \in succeeded /\ 1 .. k - 1 \subseteq succeeded
      BY <2>0, <2>6 DEF Mark, Placed
    <3>2. k + 1 \in 1 .. Last + 1 /\ (k + 1) - 1 = k /\ 1 .. k \subseteq succeeded
      BY <3>1
    <3>3. r \in CallRecord
      BY <2>0, <3>2 DEF CallRecord
    <3>4. call' = [call EXCEPT ![c] = r] /\ call'[c] = r
      BY <2>0, <2>6, <1>t DEF CallRecord, Mark, Typed
    <3>5. r.phase = "looking" /\ r.at = k + 1 /\ r.done = call[c].done
          /\ r.reset = call[c].reset
      BY <2>0 DEF CallRecord
    <3>6. Placed(c)' /\ Resuming(c)'
      <4> HIDE DEF r, k
      <4> QED BY <2>0, <2>6, <3>2, <3>4, <3>5 DEF Mark, Placed, Resuming
    <3>7. completed' = completed \cup {k} /\ UNCHANGED <<saved, succeeded, ran>>
      BY <2>6 DEF Mark
    <3> HIDE DEF r, k
    <3> QED BY <3>1, <3>3, <3>4, <3>6, <3>7, <1>t, OneCallMoves DEF Typed
  <2> QED BY <1>1, <2>1, <2>2, <2>3, <2>4, <2>5, <2>6 DEF CallStep
<1>2. ASSUME NEW c \in Callers, Cancel(c) PROVE PipelineInv'
  <2> DEFINE r == [call[c] EXCEPT !.cancelled = TRUE]
  <2>0. call[c] \in CallRecord /\ Placed(c) /\ Resuming(c)
    BY DEF PipelineInv, Typed
  <2>1. r \in CallRecord /\ call' = [call EXCEPT ![c] = r] /\ call'[c] = r
    BY <2>0, <1>2, <1>t DEF CallRecord, Cancel, Typed
  <2>2. r.phase = call[c].phase /\ r.at = call[c].at /\ r.attempt = call[c].attempt
        /\ r.done = call[c].done /\ r.reset = call[c].reset
    BY <2>0 DEF CallRecord
  <2>3. Placed(c)' /\ Resuming(c)'
    <3> HIDE DEF r
    <3> QED BY <2>0, <1>2, <2>1, <2>2 DEF Cancel, Placed, Resuming
  <2> HIDE DEF r
  <2> QED BY <1>2, <2>1, <2>3, <1>t, OneCallMoves DEF Cancel, Typed
<1>3. ASSUME NEW c \in Callers, NEW known \in StepSets, Call(c, known) PROVE PipelineInv'
  <2> DEFINE r == [NoCall EXCEPT !.phase = "retry", !.known = known]
  <2>0. known \in SUBSET (1 .. Last)
    OBVIOUS
  <2>1. r \in CallRecord /\ r.phase = "retry" /\ r.attempt = 0
    BY <2>0, NoCallRecord DEF CallRecord, NoCall
  <2>2. call' = [call EXCEPT ![c] = r] /\ call'[c] = r
    BY <1>3, <1>t DEF Call, Typed
  <2> HIDE DEF r
  <2>3. Placed(c)' /\ Resuming(c)'
    BY <2>1, <2>2 DEF Placed, Resuming
  <2> QED BY <1>3, <2>1, <2>2, <2>3, <1>t, OneCallMoves DEF Call, Typed
<1>4. CASE Snapshot
  BY <1>4 DEF Snapshot, PipelineInv, Typed, Placed, Resuming
<1>5. CASE Restore
  <2>1. /\ completed' = saved /\ ran' \in [1 .. Last -> Nat] /\ UNCHANGED <<saved, succeeded>>
        /\ call' = [c \in Callers |-> [call[c] EXCEPT !.reset = IsRunning(c)]]
    BY <1>5 DEF Restore, ResetTo
  <2>2. ASSUME NEW c \in Callers PROVE call'[c] \in CallRecord /\ Placed(c)' /\ Resuming(c)'
    <3> DEFINE r == [call[c] EXCEPT !.reset = IsRunning(c)]
    <3>0. call[c] \in CallRecord /\ Placed(c)
      BY DEF PipelineInv, Typed
    <3>1. r \in CallRecord
      <4>1. IsRunning(c) \in BOOLEAN
        OBVIOUS
      <4> HIDE DEF IsRunning
      <4> QED BY <3>0, <4>1 DEF CallRecord
    <3>2. r.phase = call[c].phase /\ r.at = call[c].at /\ r.attempt = call[c].attempt
          /\ (r.reset <=> IsRunning(c))
      BY <3>0 DEF CallRecord
    <3>3. call'[c] = r
      BY <2>1
    <3> HIDE DEF r
    <3> QED BY <2>1, <3>0, <3>1, <3>2, <3>3 DEF Placed, Resuming
  <2>3. call' \in [Callers -> CallRecord]
    BY <2>1, <2>2
  <2> QED BY <2>1, <2>2, <2>3, <1>t DEF PipelineInv, Typed
<1>6. CASE Renew
  <2>1. /\ completed' = {} /\ ran' \in [1 .. Last -> Nat] /\ UNCHANGED <<saved, succeeded>>
        /\ call' = [c \in Callers |-> NoCall]
    BY <1>6 DEF Renew, ResetTo
  <2>2. call' \in [Callers -> CallRecord]
    BY <2>1, NoCallRecord
  <2>3. ASSUME NEW c \in Callers PROVE Placed(c)' /\ Resuming(c)'
    <3>1. call'[c] = NoCall
      BY <2>1
    <3> QED BY <3>1 DEF NoCall, Placed, Resuming
  <2> QED BY <2>1, <2>2, <2>3, <1>t DEF PipelineInv, Typed
<1>7. CASE UNCHANGED vars
  BY <1>7 DEF vars, PipelineInv, Typed, Placed, Resuming
<1> QED BY <1>1, <1>2, <1>3, <1>4, <1>5, <1>6, <1>7 DEF Next

LEMMA PipelineInvHolds == Spec => []PipelineInv
<1>1. Init => PipelineInv
  <2> SUFFICES ASSUME Init PROVE PipelineInv
    OBVIOUS
  <2>1. call \in [Callers -> CallRecord]
    BY NoCallRecord DEF Init
  <2>2. ASSUME NEW c \in Callers PROVE Placed(c) /\ Resuming(c)
    <3>1. call[c] = NoCall
      BY DEF Init
    <3> QED BY <3>1 DEF NoCall, Placed, Resuming
  <2> QED BY <2>1, <2>2 DEF Init, PipelineInv, Typed
<1> QED BY <1>1, PipelineInvStep, PTL DEF Spec

\* Whatever calls overlap, a step only runs when every step before it has succeeded at some
\* time, and nothing is marked that has not (Pipeline.Run, Snapshot, Restore).
THEOREM StepsInOrder == Spec => []RunsInOrder
<1>1. PipelineInv => RunsInOrder
  BY DEF PipelineInv, Placed, RunsInOrder
<1> QED BY <1>1, PipelineInvHolds, PTL

\* No call begins an attempt once its context is cancelled, or after its last (Retry).
THEOREM AttemptsEnd == Spec => AttemptsStop
<1>1. PipelineInv /\ [Next]_vars
        => [\A c \in Callers :
              StartsAttempt(c) => ~call[c].cancelled /\ call[c].attempt < Attempts]_vars
  <2> SUFFICES ASSUME PipelineInv, Next, NEW c \in Callers, StartsAttempt(c)
               PROVE  ~call[c].cancelled /\ call[c].attempt < Attempts
    BY DEF vars
  <2>0. call \in [Callers -> CallRecord] /\ call[c] \in CallRecord /\ Placed(c)
    BY DEF PipelineInv, Typed
  <2>1. call'[c].attempt # call[c].attempt /\ call'[c].phase = "looking"
    BY DEF StartsAttempt
  <2>2. NoCall.phase = "none"
    BY DEF NoCall
  <2>3. ASSUME NEW d \in Callers, CallStep(d) \/ Cancel(d) PROVE Attempt(c) /\ MayAttempt(c)
    <3>1. d = c
      BY <2>0, <2>1, <2>3 DEF CallStep, Attempt, Wait, Look, StepSucceeds, StepFails, Mark,
        Failed, Cancel
    <3>a. call' # [call EXCEPT ![c] = NoCall]
      BY <2>0, <2>1, <2>2
    <3>b. call' # Failed(c)
      BY <2>0, <2>1, <2>2 DEF Failed, CallRecord
    <3>c. ~Wait(c) /\ ~StepSucceeds(c) /\ ~StepFails(c)
      BY <2>0, <2>1, <3>a, <3>b DEF Wait, StepSucceeds, StepFails, CallRecord
    <3>d. ~Mark(c) /\ ~Cancel(c)
      BY <2>0, <2>1 DEF Mark, Cancel, CallRecord
    <3>e. ~Look(c)
      BY <2>0, <2>1, <3>a, <3>b DEF Look, CallRecord
    <3>2. ~(\/ Wait(c) \/ StepSucceeds(c) \/ StepFails(c) \/ Mark(c) \/ Cancel(c) \/ Look(c))
      BY <3>c, <3>d, <3>e
    <3>3. Attempt(c)
      BY <2>3, <3>1, <3>2 DEF CallStep
    <3> QED BY <2>0, <2>1, <2>2, <3>3 DEF Attempt
  <2>4. ASSUME NEW d \in Callers, NEW known \in StepSets, Call(d, known) PROVE FALSE
    <3>1. [NoCall EXCEPT !.phase = "retry", !.known = known].phase = "retry"
      BY DEF NoCall
    <3> QED BY <2>0, <2>1, <2>4, <3>1 DEF Call
  <2>5. ~Snapshot /\ ~Restore /\ ~Renew
    BY <2>0, <2>1, <2>2 DEF Snapshot, Restore, Renew, ResetTo, CallRecord
  <2>6. Attempt(c) /\ MayAttempt(c)
    BY <2>3, <2>4, <2>5 DEF Next
  <2> QED BY <2>0, <2>6 DEF Attempt, MayAttempt, Placed
<1> QED BY <1>1, PipelineInvHolds, PTL DEF Spec, AttemptsStop

-----------------------------------------------------------------------------

\* The calls that found step k not completed, and those of them whose step has succeeded.
Stepping(k) == {c \in Callers : Phase(c) = "stepping" /\ call[c].at = k}
Marking(k) == {c \in Callers : Phase(c) = "marking" /\ call[c].at = k}

\* Until k is marked each of its successes is still to be marked by a call of its own; then
\* only the calls already past the look can add one.
Charged(k) ==
  IF k \in completed THEN ran[k] + Cardinality(Stepping(k)) <= Cardinality(Callers)
  ELSE ran[k] <= Cardinality(Marking(k))

ChargesInv == \A k \in 1 .. Last : Charged(k)

LEMMA CallsFinite ==
  ASSUME NEW k
  PROVE  /\ IsFiniteSet(Stepping(k)) /\ Cardinality(Stepping(k)) \in Nat
         /\ IsFiniteSet(Marking(k)) /\ Cardinality(Marking(k)) \in Nat
         /\ Cardinality(Callers) \in Nat
         /\ Cardinality(Stepping(k)) <= Cardinality(Callers)
         /\ Cardinality(Stepping(k)) + Cardinality(Marking(k)) <= Cardinality(Callers)
<1>1. Stepping(k) \subseteq Callers /\ Marking(k) \subseteq Callers /\ IsFiniteSet(Callers)
  BY PipelineAssumption DEF Stepping, Marking
<1>2. /\ IsFiniteSet(Stepping(k)) /\ Cardinality(Stepping(k)) \in Nat
      /\ IsFiniteSet(Marking(k)) /\ Cardinality(Marking(k)) \in Nat
      /\ Cardinality(Callers) \in Nat
      /\ Cardinality(Stepping(k)) <= Cardinality(Callers)
  BY <1>1, FS_Subset, FS_CardinalityType
<1>3. Stepping(k) \cap Marking(k) = {}
  BY DEF Stepping, Marking
<1>4. Cardinality(Stepping(k) \cup Marking(k))
        = Cardinality(Stepping(k)) + Cardinality(Marking(k))
  <2>1. Cardinality(Stepping(k) \cup Marking(k))
          = Cardinality(Stepping(k)) + Cardinality(Marking(k))
              - Cardinality(Stepping(k) \cap Marking(k))
    BY <1>2, FS_Union
  <2>2. Cardinality(Stepping(k) \cap Marking(k)) = 0
    BY <1>3, FS_EmptySet
  <2> QED BY <1>2, <2>1, <2>2
<1>5. Cardinality(Stepping(k) \cup Marking(k)) <= Cardinality(Callers)
  BY <1>1, FS_Subset
<1> QED BY <1>2, <1>4, <1>5

\* Nothing is charged to k by a step that runs nothing, marks nothing, and adds no call past
\* the look at a completed k.
LEMMA ChargesStay ==
  ASSUME PipelineInv, NEW k \in 1 .. Last, Charged(k), UNCHANGED <<completed, ran>>,
         k \in completed => Stepping(k)' \subseteq Stepping(k),
         Marking(k) \subseteq Marking(k)'
  PROVE  Charged(k)'
<1>0. ran[k] \in Nat
  BY DEF PipelineInv, Typed
<1>1. CASE k \in completed
  <2>1. Cardinality(Stepping(k)') <= Cardinality(Stepping(k)) /\ Cardinality(Stepping(k)') \in Nat
    BY <1>1, CallsFinite, FS_Subset, FS_CardinalityType
  <2> QED BY <1>0, <1>1, <2>1, CallsFinite DEF Charged
<1>2. CASE k \notin completed
  <2>1. IsFiniteSet(Marking(k)')
    <3>1. Marking(k)' \subseteq Callers
      BY DEF Marking
    <3> QED BY <3>1, FS_Subset, PipelineAssumption
  <2>2. Cardinality(Marking(k)) <= Cardinality(Marking(k)') /\ Cardinality(Marking(k)') \in Nat
    BY <2>1, FS_Subset, FS_CardinalityType
  <2> QED BY <1>0, <1>2, <2>2, CallsFinite DEF Charged
<1> QED BY <1>1, <1>2

LEMMA ChargesInvStep == PipelineInv /\ ChargesInv /\ [Next]_vars => ChargesInv'
<1> SUFFICES ASSUME PipelineInv, ChargesInv, [Next]_vars, NEW k \in 1 .. Last
             PROVE  Charged(k)'
  BY DEF ChargesInv
<1>t. Typed /\ Charged(k)
  BY DEF PipelineInv, ChargesInv
<1>0. call \in [Callers -> CallRecord] /\ ran \in [1 .. Last -> Nat] /\ ran[k] \in Nat
  BY <1>t DEF Typed
\* These change one call; they mark nothing and count no success.
<1>1. ASSUME NEW c \in Callers, Attempt(c) \/ Wait(c) \/ Cancel(c) \/ StepFails(c) \/ Look(c)
      PROVE  Charged(k)'
  <2>0. UNCHANGED <<completed, ran>> /\ call[c] \in CallRecord
    BY <1>0, <1>1 DEF Attempt, Wait, Cancel, StepFails, Look
  <2>1. ASSUME NEW d \in Callers, d # c PROVE call'[d] = call[d]
    BY <1>0, <1>1, <2>1 DEF Attempt, Wait, Cancel, StepFails, Look, Failed
  <2>2. NoCall.phase = "none"
    BY DEF NoCall
  <2>3. Failed(c)[c].phase \in {"none", "waiting"}
    BY <1>0, <2>0, <2>2 DEF Failed, CallRecord
  <2>4. Phase(c) = "marking" => call'[c].phase = "marking" /\ call'[c].at = call[c].at
    BY <1>0, <1>1, <2>0 DEF Attempt, Wait, Cancel, StepFails, Look, CallRecord
  <2>5. call'[c].phase = "stepping" =>
          call'[c].at = call[c].at /\ (Phase(c) = "stepping" \/ call[c].at \notin completed)
    <3>1. CASE Attempt(c)
      BY <1>0, <2>0, <2>2, <3>1 DEF Attempt, CallRecord
    <3>2. CASE Wait(c)
      BY <1>0, <2>0, <2>2, <3>2 DEF Wait, CallRecord
    <3>3. CASE Cancel(c)
      BY <1>0, <2>0, <3>3 DEF Cancel, CallRecord
    <3>4. CASE StepFails(c)
      BY <2>3, <3>4 DEF StepFails
    <3>5. CASE Look(c)
      BY <1>0, <2>0, <2>2, <2>3, <3>5 DEF Look, IsDone, CallRecord
    <3> QED BY <1>1, <3>1, <3>2, <3>3, <3>4, <3>5
  <2>6. k \in completed => Stepping(k)' \subseteq Stepping(k)
    BY <2>1, <2>5 DEF Stepping
  <2>7. Marking(k) \subseteq Marking(k)'
    BY <2>1, <2>4 DEF Marking
  <2> QED BY <1>t, <2>0, <2>6, <2>7, ChargesStay
<1>2. ASSUME NEW c \in Callers, NEW known \in StepSets, Call(c, known) PROVE Charged(k)'
  <2>1. [NoCall EXCEPT !.phase = "retry", !.known = known].phase = "retry"
    BY DEF NoCall
  <2>2. Stepping(k)' \subseteq Stepping(k) /\ Marking(k) \subseteq Marking(k)'
    BY <1>0, <1>2, <2>1 DEF Call, Stepping, Marking
  <2> QED BY <1>t, <1>2, <2>2, ChargesStay DEF Call
<1>3. ASSUME NEW c \in Callers, StepSucceeds(c) PROVE Charged(k)'
  <2>0. call[c] \in CallRecord /\ call[c].at \in 1 .. Last
    BY <1>0, <1>3 DEF StepSucceeds, PipelineInv, Placed
  <2>1. /\ call' = [call EXCEPT ![c].phase = "marking"] /\ UNCHANGED completed
        /\ ran'[k] = IF k = call[c].at THEN ran[k] + 1 ELSE ran[k]
        /\ call'[c].phase = "marking" /\ call'[c].at = call[c].at
        /\ \A d \in Callers : d # c => call'[d] = call[d]
    BY <1>0, <1>3, <2>0 DEF StepSucceeds, CallRecord
  <2>2. CASE k # call[c].at
    <3>1. Stepping(k)' = Stepping(k) /\ Marking(k)' = Marking(k)
      BY <2>1, <2>2 DEF Stepping, Marking
    <3> QED BY <1>t, <2>1, <2>2, <3>1 DEF Charged
  <2>3. CASE k = call[c].at
    <3>1. Stepping(k)' = Stepping(k) \ {c} /\ c \in Stepping(k)
      BY <1>3, <2>1, <2>3 DEF Stepping, StepSucceeds
    <3>2. Marking(k)' = Marking(k) \cup {c} /\ c \notin Marking(k)
      BY <1>3, <2>1, <2>3 DEF Marking, StepSucceeds
    <3>3. Cardinality(Stepping(k)') = Cardinality(Stepping(k)) - 1
      BY <3>1, CallsFinite, FS_RemoveElement
    <3>4. Cardinality(Marking(k)') = Cardinality(Marking(k)) + 1
      BY <3>2, CallsFinite, FS_AddElement
    <3> QED BY <1>t, <1>0, <2>1, <2>3, <3>3, <3>4, CallsFinite DEF Charged
  <2> QED BY <2>2, <2>3
<1>4. ASSUME NEW c \in Callers, Mark(c) PROVE Charged(k)'
  <2>0. call[c] \in CallRecord /\ call[c].at \in 1 .. Last
    BY <1>0, <1>4 DEF Mark, PipelineInv, Placed
  <2>1. /\ completed' = completed \cup {call[c].at} /\ UNCHANGED ran
        /\ call'[c].phase = "looking"
        /\ \A d \in Callers : d # c => call'[d] = call[d]
    BY <1>0, <1>4, <2>0 DEF Mark, CallRecord
  <2>2. Stepping(k)' = Stepping(k)
    BY <1>4, <2>1 DEF Mark, Stepping
  <2>3. k # call[c].at => Marking(k)' = Marking(k)
    BY <1>4, <2>1 DEF Mark, Marking
  <2>4. CASE k \in completed \/ k # call[c].at
    BY <1>t, <2>1, <2>2, <2>3, <2>4 DEF Charged
  <2>5. CASE k \notin completed /\ k = call[c].at
    BY <1>t, <1>0, <2>1, <2>2, <2>5, CallsFinite DEF Charged
  <2> QED BY <2>4, <2>5
<1>5. CASE Restore \/ Renew
  <2>1. ran'[k] = 0
    BY <1>5 DEF Restore, Renew, ResetTo
  <2>2. /\ Cardinality(Stepping(k)') \in Nat /\ Cardinality(Marking(k)') \in Nat
        /\ Cardinality(Stepping(k)') <= Cardinality(Callers)
    <3>1. Stepping(k)' \subseteq Callers /\ Marking(k)' \subseteq Callers
      BY DEF Stepping, Marking
    <3> QED BY <3>1, PipelineAssumption, FS_Subset, FS_CardinalityType
  <2> QED BY <2>1, <2>2, CallsFinite DEF Charged
<1>6. CASE Snapshot \/ UNCHANGED vars
  BY <1>t, <1>6 DEF Snapshot, vars, Charged, Stepping, Marking
<1> QED BY <1>1, <1>2, <1>3, <1>4, <1>5, <1>6 DEF Next, CallStep

LEMMA ChargesInvHolds == Spec => []ChargesInv
<1>1. Init => ChargesInv
  BY CallsFinite DEF Init, ChargesInv, Charged
<1> QED BY <1>1, PipelineInvHolds, ChargesInvStep, PTL DEF Spec

\* A retry does not repeat a step that was completed when it began, and between resets a
\* step succeeds at most once for each caller (Pipeline.Run's two critical sections).
THEOREM RepeatsAreBounded == Spec => []RepeatsBounded
<1>1. PipelineInv /\ ChargesInv => RepeatsBounded
  <2> SUFFICES ASSUME PipelineInv, ChargesInv PROVE RepeatsBounded
    OBVIOUS
  <2>1. ResumesWhereItFailed
    BY DEF PipelineInv, Resuming, ResumesWhereItFailed
  <2>2. ASSUME NEW k \in 1 .. Last PROVE ran[k] <= Cardinality(Callers)
    <3>1. Charged(k) /\ ran[k] \in Nat
      BY DEF ChargesInv, PipelineInv, Typed
    <3> QED BY <3>1, CallsFinite DEF Charged
  <2> QED BY <2>1, <2>2 DEF RunsPerCaller, RepeatsBounded
<1> QED BY <1>1, PipelineInvHolds, ChargesInvHolds, PTL

=============================================================================
