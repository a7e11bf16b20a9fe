----------------------------- MODULE ReadReports -----------------------------
(***************************************************************************)
(* The reports of QueryService next to the operations that change what     *)
(* they report.  Store.Read is not a transaction: each query of a report   *)
(* sees whatever is committed when it runs, and operations commit between  *)
(* the queries.  One reader is followed; readers change nothing.           *)
(***************************************************************************)
EXTENDS VoyageOps, Sequences

VARIABLES
  reader, \* the report being read: the queries still to run, and what the others returned
  seen    \* history: what held at some moment since the report began

allVars == <<vars, reader, seen>>

\* Mutant: anomalies are counted before tasks.
ReadinessQueriesTasksLast == <<"state", "expected", "arrived", "quarantined", "open", "pending">>

\* The queries of GetVoyageReadiness that its verdict uses, in their order.
ReadinessQueries == <<"state", "expected", "arrived", "quarantined", "pending", "open">>

\* Mutant: the vessels are listed first.
DetailQueriesVesselsFirst == <<"vessels", "state">>

\* The queries of QueryService.FishingVoyage.
DetailQueries == <<"state", "vessels">>

\* Mutant: decided anomalies are counted too.
OpenAnomaliesOfAnyStatus(v) == {a \in Anomalies : anomaly[a].voyage = v}

OpenAnomalies(v) == {a \in Anomalies : IsActiveAnomaly(a, v)}

CountVessels(v, states) == Cardinality({b \in VesselsOf(v) : vessel[b].state \in states})

\* What a query returns on the tables as they are.
Result(query, v) ==
  CASE query = "state" -> voyage[v].state
    [] query = "vessels" -> {vessel[b].state : b \in VesselsOf(v)}
    [] query = "expected" -> Cardinality(VesselsOf(v))
    [] query = "arrived" -> CountVessels(v, {"landed", "reinspected", "retired", "quarantined"})
    [] query = "quarantined" -> CountVessels(v, {"quarantined"})
    [] query = "pending" -> HasPendingTask(v)
    [] query = "open" -> OpenAnomalies(v) # {}

NoReport == [kind |-> "none", voyage |-> None, todo |-> <<>>, got |-> <<>>]

NothingSeen == [complete |-> FALSE, incomplete |-> FALSE, newTask |-> FALSE]

\* A report is asked for; a missing voyage is an error.
BeginReport(v, kind) ==
  /\ reader.kind = "none"
  /\ voyage[v].state # "absent"
  /\ reader' = [NoReport EXCEPT !.kind = kind, !.voyage = v,
                  !.todo = IF kind = "readiness" THEN ReadinessQueries ELSE DetailQueries]
  /\ UNCHANGED vars

\* What the queries have returned once `query` has too.
Answer(query) ==
  [q \in DOMAIN reader.got \cup {query} |->
     IF q = query THEN Result(query, reader.voyage) ELSE reader.got[q]]

RunQuery ==
  /\ reader.todo # <<>>
  /\ reader' = [reader EXCEPT !.todo = Tail(@), !.got = Answer(Head(reader.todo))]
  /\ UNCHANGED vars

Answered(kind) == reader.kind = kind /\ reader.todo = <<>>

EndReport ==
  /\ \E kind \in {"readiness", "detail"} : Answered(kind)
  /\ reader' = NoReport
  /\ UNCHANGED vars

\* VoyageReadiness.Evaluate on what the queries returned.
Complete(got) ==
  /\ ~got.pending
  /\ ~got.open
  /\ got.quarantined = 0
  /\ got.expected # 0
  /\ got.state = "landed" => got.arrived >= got.expected
  /\ got.state \in {"closed", "landed"}

\* The voyage is closed, or closing it would succeed.
Over(v) == voyage[v].state = "closed" \/ CloseAllowed(v)

Watch ==
  seen' = IF reader'.kind # "readiness" THEN NothingSeen
          ELSE [complete |-> seen.complete \/ Over(reader.voyage)',
                incomplete |-> seen.incomplete \/ ~Over(reader.voyage)',
                newTask |-> \/ seen.newTask
                            \/ "pending" \in DOMAIN reader.got /\ HasPendingTask(reader.voyage)']

\* An operation while a report is being read.
Beside(A) == A /\ UNCHANGED reader /\ Watch

ReportInit == Init /\ reader = NoReport /\ seen = NothingSeen

ReportNext ==
  \/ Beside(Next)
  \/ /\ \/ \E v \in Voyages, kind \in {"readiness", "detail"} : BeginReport(v, kind)
        \/ RunQuery
        \/ EndReport
     /\ Watch

ReportSpec == ReportInit /\ [][ReportNext]_allVars

\* As FairSpec.
FairReportSpec ==
  ReportSpec /\ WF_allVars(Beside(WorkerPass)) /\ WF_allVars(Beside(Tick))

-----------------------------------------------------------------------------
(* Properties.                                                             *)

\* When a report calls a voyage incomplete there was a moment, while it was being read, at
\* which the voyage could not be closed: the report evaluates its own copy of the closure
\* conditions, on rows of several moments, and still invents no blocker.
BlockersWereReal == Answered("readiness") /\ ~Complete(reader.got) => seen.incomplete

\* When a report calls a voyage complete there was a moment, while it was being read, at
\* which the voyage was closed or could be, unless a landing task was opened after the
\* tasks were counted; only then can the anomaly it has not counted yet be decided
\* without the voyage ever being complete.
CompletionWasReal ==
  Answered("readiness") /\ Complete(reader.got) => seen.complete \/ seen.newTask

\* The states a voyage can be in some time after it was in state s.
From(s) ==
  CASE s = "planned" -> {"planned", "cleared", "at_sea", "landed", "closed", "cancelled"}
    [] s = "cleared" -> {"cleared", "at_sea", "landed", "closed", "cancelled"}
    [] s = "at_sea" -> {"at_sea", "landed", "closed"}
    [] s = "landed" -> {"landed", "closed"}
    [] OTHER -> {s}

\* The vessels a voyage report lists are never behind the voyage state it shows: no vessel
\* still in port under a voyage at sea, none still at sea under one that has landed.
VesselsNotBehind ==
  Answered("detail") =>
    \A x \in reader.got.vessels : \E s \in From(reader.got.state) : InPhase(s, x)

=============================================================================
