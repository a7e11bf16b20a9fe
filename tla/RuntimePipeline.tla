--------------------------- MODULE RuntimePipeline ---------------------------
(***************************************************************************)
(* The in-memory Pipeline and Retry of runtimeops/coordinator.go.  Callers *)
(* run the same ordered steps through one Pipeline, each call inside a     *)
(* Retry with its own context; others take snapshots of what is completed, *)
(* restore them, or start over with a new Pipeline.  Run looks up a step   *)
(* and marks it in two critical sections, with the step between them.      *)
(*                                                                         *)
(* Nothing in the repository calls either yet; the callers here are the    *)
(* ones their signatures allow.                                            *)
(***************************************************************************)
EXTENDS Naturals, FiniteSets

CONSTANTS
  Callers,
  Last,     \* the order of every call is 1 .. Last
  StepSets, \* the steps a call may bring functions for
  Attempts, \* of every Retry
  MaxReset  \* bound on restores and new pipelines

ASSUME PipelineAssumption ==
  /\ IsFiniteSet(Callers)
  /\ Last \in Nat \ {0} /\ Attempts \in Nat \ {0} /\ StepSets \subseteq SUBSET (1 .. Last)

VARIABLES
  completed, \* Pipeline.completed
  saved,     \* the last snapshot taken
  call,      \* the calls in progress
  succeeded, \* history: steps that have ever succeeded
  ran,       \* history: how often each step has succeeded since the last reset
  resets     \* history: how often completed was replaced

vars == <<completed, saved, call, succeeded, ran, resets>>

\* `at` is the place in the order, `cancelled` the context; history: what was completed
\* when this attempt began (`done`), and whether a reset came since.
NoCall == [phase |-> "none", at |-> 1, known |-> {}, attempt |-> 0, cancelled |-> FALSE,
           done |-> {}, reset |-> FALSE]

Init ==
  /\ completed = {} /\ saved = {}
  /\ call = [c \in Callers |-> NoCall]
  /\ succeeded = {}
  /\ ran = [k \in 1 .. Last |-> 0]
  /\ resets = 0

Phase(c) == call[c].phase

\* In Pipeline.Run.
IsRunning(c) == Phase(c) \in {"looking", "stepping", "marking"}

\* Retry is called.
Call(c, known) ==
  /\ Phase(c) = "none"
  /\ call' = [call EXCEPT ![c] = [NoCall EXCEPT !.phase = "retry", !.known = known]]
  /\ UNCHANGED <<completed, saved, succeeded, ran, resets>>

\* The context of a call may be cancelled at any time.
Cancel(c) ==
  /\ Phase(c) # "none" /\ ~call[c].cancelled
  /\ call' = [call EXCEPT ![c].cancelled = TRUE]
  /\ UNCHANGED <<completed, saved, succeeded, ran, resets>>

\* Mutant: only the wait looks at the context.
AttemptAnyway(c) == TRUE

\* ctx.Err is nil.
MayAttempt(c) == ~call[c].cancelled

\* The head of Retry's loop: the next attempt begins, or the call returns.
Attempt(c) ==
  /\ Phase(c) = "retry"
  /\ call' = [call EXCEPT ![c] =
       IF MayAttempt(c)
       THEN [call[c] EXCEPT !.phase = "looking", !.at = 1, !.attempt = @ + 1,
                            !.done = completed, !.reset = FALSE]
       ELSE NoCall]
  /\ UNCHANGED <<completed, saved, succeeded, ran, resets>>

Exhausted(c) == call[c].attempt = Attempts

\* Run returns an error and its local state is gone: Retry gives up after the last attempt
\* and waits otherwise.
Failed(c) ==
  [call EXCEPT ![c] =
     IF Exhausted(c) THEN NoCall
     ELSE [call[c] EXCEPT !.phase = "waiting", !.at = 1, !.done = {}, !.reset = FALSE]]

\* The timer fires, or the context ends; when both are ready, select takes either.
Wait(c) ==
  /\ Phase(c) = "waiting"
  /\ \/ call' = [call EXCEPT ![c].phase = "retry"]
     \/ call[c].cancelled /\ call' = [call EXCEPT ![c] = NoCall]
  /\ UNCHANGED <<completed, saved, succeeded, ran, resets>>

\* Mutant: what is completed is never looked at.
IsDoneNever(k) == FALSE

IsDone(k) == k \in completed

\* The first critical section and what follows from it.
Look(c) ==
  /\ Phase(c) = "looking"
  /\ LET k == call[c].at
     IN call' = IF k > Last THEN [call EXCEPT ![c] = NoCall]
                ELSE IF IsDone(k) THEN [call EXCEPT ![c].at = k + 1]
                ELSE IF k \notin call[c].known THEN Failed(c)
                ELSE [call EXCEPT ![c].phase = "stepping"]
  /\ UNCHANGED <<completed, saved, succeeded, ran, resets>>

StepSucceeds(c) ==
  /\ Phase(c) = "stepping"
  /\ call' = [call EXCEPT ![c].phase = "marking"]
  /\ succeeded' = succeeded \cup {call[c].at}
  /\ ran' = [ran EXCEPT ![call[c].at] = @ + 1]
  /\ UNCHANGED <<completed, saved, resets>>

\* Mutant: the step is marked all the same.
StepFailsMarked(c) ==
  /\ Phase(c) = "stepping"
  /\ call' = [call EXCEPT ![c].phase = "marking"]
  /\ UNCHANGED <<completed, saved, succeeded, ran, resets>>

StepFails(c) ==
  /\ Phase(c) = "stepping"
  /\ call' = Failed(c)
  /\ UNCHANGED <<completed, saved, succeeded, ran, resets>>

\* The second critical section.
Mark(c) ==
  /\ Phase(c) = "marking"
  /\ completed' = completed \cup {call[c].at}
  /\ call' = [call EXCEPT ![c].phase = "looking", ![c].at = @ + 1]
  /\ UNCHANGED <<saved, succeeded, ran, resets>>

Snapshot ==
  /\ saved' = completed
  /\ UNCHANGED <<completed, call, succeeded, ran, resets>>

ResetTo(S) ==
  /\ resets < MaxReset
  /\ completed' = S
  /\ ran' = [k \in 1 .. Last |-> 0]
  /\ resets' = resets + 1
  /\ UNCHANGED <<saved, succeeded>>

\* Restore replaces the map under the calls in progress.
Restore ==
  /\ ResetTo(saved)
  /\ call' = [c \in Callers |-> [call[c] EXCEPT !.reset = IsRunning(c)]]

\* The process ends; the next one has a new Pipeline, and the snapshot if it was kept.
Renew ==
  /\ ResetTo({})
  /\ call' = [c \in Callers |-> NoCall]

CallStep(c) ==
  \/ Attempt(c) \/ Wait(c) \/ Look(c) \/ StepSucceeds(c) \/ StepFails(c) \/ Mark(c)

Next ==
  \/ \E c \in Callers : CallStep(c) \/ Cancel(c) \/ \E known \in StepSets : Call(c, known)
  \/ Snapshot \/ Restore \/ Renew

Spec == Init /\ [][Next]_vars

\* A call that runs goes on, and its steps return.
FairSpec == Spec /\ \A c \in Callers : WF_vars(CallStep(c))

-----------------------------------------------------------------------------
(* Properties.                                                             *)

\* A step only runs when every step before it in the order has succeeded at some time, and
\* only what has succeeded is or was marked: a failed or missing step is never taken for
\* done, by this call or another, even when a restore replaces the marks in mid-run.
RunsInOrder ==
  /\ completed \cup saved \subseteq succeeded
  /\ \A c \in Callers :
       Phase(c) \in {"stepping", "marking"} => 1 .. call[c].at - 1 \subseteq succeeded

\* No attempt repeats a step that was completed when the attempt began, unless the map
\* was replaced since.
ResumesWhereItFailed ==
  \A c \in Callers :
    Phase(c) = "stepping" /\ ~call[c].reset => call[c].at \notin call[c].done

RunsPerCaller == \A k \in 1 .. Last : ran[k] <= Cardinality(Callers)

\* A retry resumes where the last attempt failed, and a step that two calls both find not
\* completed runs successfully at most once for each caller between resets: the gap
\* between Run's two critical sections costs no more than that.
RepeatsBounded == ResumesWhereItFailed /\ RunsPerCaller

StartsAttempt(c) == call'[c].attempt # call[c].attempt /\ call'[c].phase = "looking"

AttemptsStop ==
  [][\A c \in Callers : StartsAttempt(c) => ~call[c].cancelled /\ call[c].attempt < Attempts]_vars

CallsReturn == \A c \in Callers : Phase(c) # "none" ~> Phase(c) = "none"

\* A cancelled call makes no further attempt, also when the timer fires as its context
\* ends; no call makes more attempts than its number, and every call returns.
RetryStops == AttemptsStop /\ CallsReturn

=============================================================================
