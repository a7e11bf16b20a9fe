------------------------- MODULE VoyageReviewProofs -------------------------
(* Proofs about the reviews that hold a voyage back: anomalies and the      *)
(* quarantines they cause, landing tasks, and what closure waits for; and   *)
(* about the reports that are read while all this goes on.                  *)
EXTENDS VoyageOpsProofs, ReadReports, FiniteSetTheorems

-----------------------------------------------------------------------------
(* Steps outside the review service.                                       *)

\* No quarantine starts, ends or changes hands and no settled vessel moves.
HeldVesselsKept ==
  \A b \in Vessels :
    /\ vessel[b].state \in {"quarantined", "reinspected", "retired"} => vessel'[b] = vessel[b]
    /\ vessel'[b].state = "quarantined" => vessel[b].state = "quarantined"

\* Moving the vessels of B, none of them held, to a state that is not quarantine.
LEMMA HeldKept ==
  ASSUME NEW B, NEW s \in VesselStates, s # "quarantined",
         \A b \in Vessels : b \in B => vessel'[b].state = s,
         \A b \in Vessels : b \notin B => vessel'[b] = vessel[b],
         \A b \in Vessels : b \in B =>
           vessel[b].state \notin {"quarantined", "reinspected", "retired"}
  PROVE  HeldVesselsKept
BY DEF HeldVesselsKept

\* Catalog operations leave held vessels alone.
LEMMA CatalogHeld ==
  ASSUME TypeOK, NEW p \in Users, CatalogNext(p)
  PROVE  HeldVesselsKept
<1>0. vessel \in [Vessels -> Vessel]
  BY DEF TypeOK
<1>1. ASSUME NEW b \in Vessels, NEW expires \in CertTimes, RegisterFishingVessel(p, b, expires)
      PROVE  HeldVesselsKept
  BY <1>0, <1>1 DEF RegisterFishingVessel, HeldVesselsKept
<1>2. ASSUME NEW b \in Vessels, VerifyFishingVessel(p, b)
      PROVE  HeldVesselsKept
  <2>1. /\ vessel[b].state \in {"berthed", "assigned"}
        /\ vessel' = [vessel EXCEPT ![b].state = "sea_ready"]
    BY <1>2 DEF VerifyFishingVessel, VesselMayMove, VesselMoves
  <2>. QED  BY <1>0, <2>1 DEF HeldVesselsKept, Vessel
<1>3. CASE vessel' = vessel
  BY <1>3 DEF HeldVesselsKept
<1>. QED
  BY <1>1, <1>2, <1>3
     DEF CatalogNext, CreateFishingPermit, ActivateFishingPermit, CreateSupportFleet,
         StartMaintenance, CompleteMaintenance, RetireFleet

\* So does planning: only a sea-ready vessel can become assigned.
LEMMA PlanHeld ==
  ASSUME TypeOK, NEW p \in Users, Plans(p)
  PROVE  HeldVesselsKept
<1>0. vessel \in [Vessels -> Vessel]
  BY DEF TypeOK
<1>1. ASSUME NEW k \in Keys, NEW q \in Request, NEW t \in Nat, PlanEffect(k, q, t)
      PROVE  HeldVesselsKept
  <2>1. /\ vessel' = BookVessels(q.vessels, "assigned", q.code)
        /\ \A b \in q.vessels : vessel[b].state = "sea_ready"
    BY <1>1 DEF PlanEffect
  <2>2. "assigned" \in VesselStates /\ q.code \in Voyages
    BY DEF VesselStates, Request
  <2>3. \A b \in Vessels : /\ b \in q.vessels => vessel'[b].state = "assigned"
                           /\ b \notin q.vessels => vessel'[b] = vessel[b]
    BY <1>0, <2>1, <2>2 DEF BookVessels, Vessel
  <2>. QED  BY <2>1, <2>2, <2>3, HeldKept
<1>2. CASE UNCHANGED vars
  BY <1>2 DEF HeldVesselsKept, vars
<1>. QED  BY <1>1, <1>2, PlanCases

\* So do the voyage transitions: departure and cancellation demand assigned vessels and a
\* landing skips the held ones.
LEMMA VoyageHeld ==
  ASSUME TypeOK, NEW p \in Users, VoyageNext(p)
  PROVE  HeldVesselsKept
<1>0. vessel \in [Vessels -> Vessel]
  BY DEF TypeOK
<1>s. {"at_sea", "landed", "sea_ready"} \subseteq VesselStates
  BY DEF VesselStates
<1>1. ASSUME NEW v \in Voyages, DepartureFishingVoyage(p, v)
      PROVE  HeldVesselsKept
  <2>1. /\ vessel' = MoveVessels(VesselsOf(v), "at_sea")
        /\ \A b \in VesselsOf(v) : vessel[b].state = "assigned"
    BY <1>1 DEF DepartureFishingVoyage, DepartureAllowed, VesselMayMove, VesselMoves
  <2>2. \A b \in Vessels : /\ b \in VesselsOf(v) => vessel'[b].state = "at_sea"
                           /\ b \notin VesselsOf(v) => vessel'[b] = vessel[b]
    BY <1>0, <1>s, <2>1, MoveVesselsFacts DEF MoveVessels
  <2>. QED  BY <1>s, <2>1, <2>2, HeldKept
<1>2. ASSUME NEW v \in Voyages, ConfirmFishingVoyageLanding(p, v)
      PROVE  HeldVesselsKept
  <2>. DEFINE B == {b \in VesselsOf(v) : ~SkipsLanding(b)}
  <2>1. vessel' = MoveVessels(B, "landed")
    BY <1>2 DEF ConfirmFishingVoyageLanding
  <2>2. \A b \in B : vessel[b].state \notin {"quarantined", "reinspected", "retired"}
    BY DEF SkipsLanding
  <2>. HIDE DEF B
  <2>3. \A b \in Vessels : /\ b \in B => vessel'[b].state = "landed"
                           /\ b \notin B => vessel'[b] = vessel[b]
    BY <1>0, <1>s, <2>1, MoveVesselsFacts DEF MoveVessels
  <2>. QED  BY <1>s, <2>2, <2>3, HeldKept
<1>3. ASSUME NEW v \in Voyages, CancelFishingVoyage(p, v)
      PROVE  HeldVesselsKept
  <2>1. /\ vessel' = BookVessels(VesselsOf(v), "sea_ready", None)
        /\ \A b \in VesselsOf(v) : vessel[b].state \in {"assigned", "berthed"}
    BY <1>3 DEF CancelFishingVoyage, CancelAllowed, VesselMayMove, VesselMoves
  <2>2. \A b \in Vessels : /\ b \in VesselsOf(v) => vessel'[b].state = "sea_ready"
                           /\ b \notin VesselsOf(v) => vessel'[b] = vessel[b]
    BY <1>0, <1>s, <2>1 DEF BookVessels, Vessel
  <2>. QED  BY <1>s, <2>1, <2>2, HeldKept
<1>4. CASE vessel' = vessel
  BY <1>4 DEF HeldVesselsKept
<1>. QED
  BY <1>1, <1>2, <1>3, <1>4 DEF VoyageNext, ClearFishingVoyage, CloseFishingVoyage

\* A step of Next is a step of the review service or leaves every anomaly and every held
\* vessel alone.
LEMMA ReviewCases ==
  ASSUME TypeOK, [LateNext]_vars
  PROVE  \/ \E p \in Users : ReviewNext(p)
         \/ anomaly' = anomaly /\ HeldVesselsKept
<1>0. ASSUME vessel' = vessel PROVE HeldVesselsKept
  BY <1>0 DEF HeldVesselsKept
<1>1. ASSUME NEW p \in Users, CatalogNext(p) PROVE anomaly' = anomaly
  BY <1>1 DEF CatalogNext, CreateFishingPermit, ActivateFishingPermit, CreateSupportFleet,
              StartMaintenance, CompleteMaintenance, RetireFleet, RegisterFishingVessel,
              VerifyFishingVessel
<1>2. ASSUME NEW p \in Users, Plans(p) PROVE anomaly' = anomaly
  BY <1>2, PlanCases DEF PlanEffect, vars
<1>3. ASSUME NEW p \in Users, VoyageNext(p) PROVE anomaly' = anomaly
  BY <1>3 DEF VoyageNext, ClearFishingVoyage, DepartureFishingVoyage,
              ConfirmFishingVoyageLanding, CloseFishingVoyage, CancelFishingVoyage
<1>4. ASSUME NEW p \in Users, HandoffNext(p) PROVE UNCHANGED <<anomaly, vessel>>
  BY <1>4 DEF HandoffNext, CreateCatchLandingTask, ResolveCatchLandingTask
<1>5. CASE WorkerPass \/ Tick \/ UNCHANGED vars
  BY <1>0, <1>5 DEF WorkerPass, ExpireTasks, Tick, vars
<1>. QED
  BY <1>0, <1>1, <1>2, <1>3, <1>4, <1>5, CatalogHeld, PlanHeld, VoyageHeld DEF LateNext, Plans

-----------------------------------------------------------------------------
(* What the review service does to a vessel.                               *)

\* A declaration quarantines vessels of its voyage for the anomaly it goes to, and only
\* vessels that were out or landed.
LEMMA DeclareEffect ==
  ASSUME TypeOK, NEW p \in Users, NEW v \in Voyages, NEW s \in Seqs, NEW a \in Anomalies,
         DeclareOutOfRange(p, v, s, a)
  PROVE  \A b \in Vessels :
           \/ vessel'[b] = vessel[b]
           \/ /\ b \in VesselsOf(v) /\ vessel[b].state \in {"at_sea", "landed"}
              /\ vessel'[b].state = "quarantined" /\ vessel'[b].note = a
              /\ vessel'[b].voyage = vessel[b].voyage
<1>1. vessel \in [Vessels -> Vessel]
  BY DEF TypeOK
<1>2. vessel' = MarkVessels(Quarantinable(v), "quarantined", a)
  BY DEF DeclareOutOfRange
<1>. QED  BY <1>1, <1>2 DEF MarkVessels, Quarantinable, Vessel

\* A decision moves exactly the vessels of the anomaly's voyage it holds in quarantine.
LEMMA DecideEffect ==
  ASSUME TypeOK, NEW p \in Users, NEW a \in Anomalies, NEW d \in {"cleared", "rejected"},
         Decide(p, a, d)
  PROVE  /\ \A b \in Vessels : b \in VesselsOf(anomaly[a].voyage) /\ QuarantinedFor(b, a) =>
              vessel'[b].state = Outcome(d)
         /\ \A b \in Vessels : ~(b \in VesselsOf(anomaly[a].voyage) /\ QuarantinedFor(b, a)) =>
              vessel'[b] = vessel[b]
         /\ anomaly'[a].status = d
         /\ anomaly[a].status \in {"open", "reviewing"}
         /\ \A c \in Anomalies : c # a => anomaly'[c] = anomaly[c]
<1>1. vessel \in [Vessels -> Vessel] /\ anomaly \in [Anomalies -> Anomaly]
  BY DEF TypeOK
<1>2. /\ vessel' = MarkVessels({b \in VesselsOf(anomaly[a].voyage) : QuarantinedFor(b, a)},
                               Outcome(d), None)
      /\ anomaly' = [anomaly EXCEPT ![a].status = d]
      /\ anomaly[a].status \in {"open", "reviewing"}
  BY DEF Decide, Decidable
<1>3. /\ anomaly'[a].status = d
      /\ \A c \in Anomalies : c # a => anomaly'[c] = anomaly[c]
  BY <1>1, <1>2 DEF Anomaly
<1>. QED  BY <1>1, <1>2, <1>3 DEF MarkVessels, Vessel

\* One step of the system releases a vessel only by deciding the anomaly that holds it.
LEMMA ReleaseStep ==
  ASSUME TypeOK, [LateNext]_vars
  PROVE  ReleaseByDecision
<1>. SUFFICES ASSUME NEW b \in Vessels, NEW a \in Anomalies,
                     QuarantinedFor(b, a), vessel'[b].state # "quarantined"
              PROVE  /\ anomaly[a].status \in {"open", "reviewing"}
                     /\ \/ anomaly'[a].status = "cleared" /\ vessel'[b].state = "reinspected"
                        \/ anomaly'[a].status = "rejected" /\ vessel'[b].state = "retired"
  BY DEF ReleaseByDecision
<1>0. vessel'[b] # vessel[b] /\ vessel[b].state = "quarantined" /\ vessel[b].note = a
  BY DEF QuarantinedFor
<1>1. PICK p \in Users : ReviewNext(p)
  BY <1>0, ReviewCases DEF HeldVesselsKept
<1>2. PICK c \in Anomalies, d \in {"cleared", "rejected"} : Decide(p, c, d)
  BY <1>0, <1>1, DeclareEffect DEF ReviewNext, DeclareInRange, StartReview
<1>3. QuarantinedFor(b, c) /\ vessel'[b].state = Outcome(d)
  BY <1>0, <1>2, DecideEffect
<1>4. c = a
  BY <1>0, <1>3 DEF QuarantinedFor
<1>. QED  BY <1>2, <1>3, <1>4, DecideEffect DEF Outcome

\* A quarantine ends only by the decision of the anomaly that holds the vessel.
THEOREM QuarantineRelease == LateSpec => QuarantineEndsByDecision
<1>1. TypeOK /\ [LateNext]_vars => [ReleaseByDecision]_vars
  BY ReleaseStep
<1>. QED  BY <1>1, TypeCorrect, PTL DEF LateSpec, QuarantineEndsByDecision

\* One step of the system leaves settled vessels settled.
LEMMA SettledStep ==
  ASSUME TypeOK, [LateNext]_vars
  PROVE  SettledStay
<1>. SUFFICES ASSUME NEW b \in Vessels, vessel[b].state \in {"reinspected", "retired"}
              PROVE  vessel'[b] = vessel[b]
  BY DEF SettledStay
<1>1. ASSUME NEW p \in Users, ReviewNext(p)
      PROVE  vessel'[b] = vessel[b]
  BY <1>1, DeclareEffect, DecideEffect
     DEF ReviewNext, DeclareInRange, StartReview, QuarantinedFor
<1>. QED  BY <1>1, ReviewCases DEF HeldVesselsKept

\* A reinspected or retired vessel stays so for ever.
THEOREM SettledForever == LateSpec => SettledVesselsStay
<1>1. TypeOK /\ [LateNext]_vars => [SettledStay]_vars
  BY SettledStep
<1>. QED  BY <1>1, TypeCorrect, PTL DEF LateSpec, SettledVesselsStay

-----------------------------------------------------------------------------
(* Reviews of a voyage.                                                    *)

\* What each review operation does to the active anomalies.
LEMMA ActiveAfterReview ==
  ASSUME TypeOK, NEW p \in Users, ReviewNext(p)
  PROVE  /\ UNCHANGED <<voyage, task, links>>
         /\ \/ \E v \in Voyages, s \in Seqs, a \in Anomalies :
                 /\ DeclareOutOfRange(p, v, s, a)
                 /\ voyage[v].state \in {"at_sea", "landed"}
                 /\ TargetAnomaly(a, v)
                 /\ \A w \in Voyages : IsActiveAnomaly(a, w)' <=> w = v
                 /\ \A c \in Anomalies, w \in Voyages :
                      c # a => (IsActiveAnomaly(c, w)' <=> IsActiveAnomaly(c, w))
            \/ \E a \in Anomalies, d \in {"cleared", "rejected"} :
                 /\ Decide(p, a, d)
                 /\ \A w \in Voyages : ~IsActiveAnomaly(a, w)'
                 /\ \A c \in Anomalies, w \in Voyages :
                      c # a => (IsActiveAnomaly(c, w)' <=> IsActiveAnomaly(c, w))
            \/ /\ vessel' = vessel
               /\ \A c \in Anomalies, w \in Voyages : IsActiveAnomaly(c, w)' <=> IsActiveAnomaly(c, w)
<1>0. anomaly \in [Anomalies -> Anomaly]
  BY DEF TypeOK
<1>1. UNCHANGED <<voyage, task, links>>
  BY DEF ReviewNext, DeclareInRange, DeclareOutOfRange, StartReview, Decide
<1>2. ASSUME NEW v \in Voyages, NEW s \in Seqs, NEW a \in Anomalies,
             DeclareOutOfRange(p, v, s, a)
      PROVE  /\ voyage[v].state \in {"at_sea", "landed"}
             /\ TargetAnomaly(a, v)
             /\ \A w \in Voyages : IsActiveAnomaly(a, w)' <=> w = v
             /\ \A c \in Anomalies, w \in Voyages :
                  c # a => (IsActiveAnomaly(c, w)' <=> IsActiveAnomaly(c, w))
  <2>1. /\ voyage[v].state \in {"at_sea", "landed"} /\ TargetAnomaly(a, v)
        /\ anomaly' = [anomaly EXCEPT ![a] =
             [status |-> IF anomaly[a].status = "absent" THEN "open" ELSE anomaly[a].status,
              voyage |-> v, readings |-> anomaly[a].readings \cup {s}]]
    BY <1>2 DEF DeclareOutOfRange, DeclarationAccepted
  <2>2. /\ anomaly'[a].voyage = v
        /\ anomaly'[a].status = IF anomaly[a].status = "absent" THEN "open" ELSE anomaly[a].status
        /\ \A c \in Anomalies : c # a => anomaly'[c] = anomaly[c]
    BY <1>0, <2>1
  <2>3. anomaly[a].status \in {"absent", "open", "reviewing"}
    BY <2>1 DEF TargetAnomaly, IsActiveAnomaly
  <2>. QED  BY <2>1, <2>2, <2>3 DEF IsActiveAnomaly
<1>3. ASSUME NEW a \in Anomalies, NEW d \in {"cleared", "rejected"}, Decide(p, a, d)
      PROVE  /\ \A w \in Voyages : ~IsActiveAnomaly(a, w)'
             /\ \A c \in Anomalies, w \in Voyages :
                  c # a => (IsActiveAnomaly(c, w)' <=> IsActiveAnomaly(c, w))
  BY <1>3, DecideEffect DEF IsActiveAnomaly
<1>4. ASSUME NEW a \in Anomalies, StartReview(p, a)
      PROVE  /\ vessel' = vessel
             /\ \A c \in Anomalies, w \in Voyages : IsActiveAnomaly(c, w)' <=> IsActiveAnomaly(c, w)
  <2>1. /\ vessel' = vessel /\ anomaly[a].status = "open"
        /\ anomaly' = [anomaly EXCEPT ![a].status = "reviewing"]
    BY <1>4 DEF StartReview
  <2>2. /\ anomaly'[a].status = "reviewing" /\ anomaly'[a].voyage = anomaly[a].voyage
        /\ \A c \in Anomalies : c # a => anomaly'[c] = anomaly[c]
    BY <1>0, <2>1 DEF Anomaly
  <2>. QED  BY <2>1, <2>2 DEF IsActiveAnomaly
<1>5. ASSUME NEW v \in Voyages, NEW s \in Seqs, DeclareInRange(p, v, s)
      PROVE  /\ vessel' = vessel
             /\ \A c \in Anomalies, w \in Voyages : IsActiveAnomaly(c, w)' <=> IsActiveAnomaly(c, w)
  BY <1>5 DEF DeclareInRange, IsActiveAnomaly
<1>6. CASE \E v \in Voyages, s \in Seqs, a \in Anomalies : DeclareOutOfRange(p, v, s, a)
  BY <1>1, <1>2, <1>6
<1>7. CASE \E a \in Anomalies, d \in {"cleared", "rejected"} : Decide(p, a, d)
  BY <1>1, <1>3, <1>7
<1>8. CASE \/ \E a \in Anomalies : StartReview(p, a)
           \/ \E v \in Voyages, s \in Seqs : DeclareInRange(p, v, s)
  BY <1>1, <1>4, <1>5, <1>8
<1>. QED  BY <1>6, <1>7, <1>8 DEF ReviewNext

\* A task becomes pending only by CreateCatchLandingTask, on a voyage that is out or back
\* and has no pending task.
LEMMA TaskCases ==
  ASSUME TypeOK, [LateNext]_vars
  PROVE  \/ /\ UNCHANGED <<voyage, anomaly>>
            /\ \E v \in Voyages, t \in Tasks :
                 /\ voyage[v].state \in {"at_sea", "landed"}
                 /\ ~HasPendingTask(v)
                 /\ \A u \in Tasks, w \in Voyages :
                      IsPending(u, w)' => IsPending(u, w) \/ (u = t /\ w = v)
         \/ \A u \in Tasks, w \in Voyages : IsPending(u, w)' => IsPending(u, w)
<1>0. task \in [Tasks -> Task]
  BY DEF TypeOK
<1>1. ASSUME NEW p \in Users, NEW t \in Tasks, NEW v \in Voyages, NEW c \in Users,
             NEW o \in Users, CreateCatchLandingTask(p, t, v, c, o)
      PROVE  /\ UNCHANGED <<voyage, anomaly>>
             /\ voyage[v].state \in {"at_sea", "landed"}
             /\ ~HasPendingTask(v)
             /\ \A u \in Tasks, w \in Voyages :
                  IsPending(u, w)' => IsPending(u, w) \/ (u = t /\ w = v)
  BY <1>0, <1>1 DEF CreateCatchLandingTask, TaskAllowed, IsPending
<1>2. ASSUME NEW p \in Users, NEW t \in Tasks, NEW s \in {"approved", "denied"},
             ResolveCatchLandingTask(p, t, s)
      PROVE  \A u \in Tasks, w \in Voyages : IsPending(u, w)' => IsPending(u, w)
  <2>1. task' = [task EXCEPT ![t].status = s, ![t].resolved = now]
    BY <1>2 DEF ResolveCatchLandingTask
  <2>2. /\ task'[t].status = s
        /\ \A u \in Tasks : u # t => task'[u] = task[u]
    BY <1>0, <2>1 DEF Task
  <2>. QED  BY <2>2 DEF IsPending
<1>3. ASSUME NEW S \in SUBSET Tasks, ExpireTasks(S)
      PROVE  \A u \in Tasks, w \in Voyages : IsPending(u, w)' => IsPending(u, w)
  <2>1. task' = [t \in Tasks |-> IF t \in S
                   THEN [task[t] EXCEPT !.status = "expired", !.resolved = now]
                   ELSE task[t]]
    BY <1>3 DEF ExpireTasks
  <2>2. \A u \in Tasks : task'[u].status = "expired" \/ task'[u] = task[u]
    BY <1>0, <2>1 DEF Task
  <2>. QED  BY <2>2 DEF IsPending
<1>4. CASE task' = task
  BY <1>4 DEF IsPending
<1>5. ASSUME NEW p \in Users, CatalogNext(p) \/ Plans(p) \/ VoyageNext(p) \/ ReviewNext(p)
      PROVE  task' = task
  <2>1. ASSUME CatalogNext(p) PROVE task' = task
    BY <2>1 DEF CatalogNext, CreateFishingPermit, ActivateFishingPermit, CreateSupportFleet,
                StartMaintenance, CompleteMaintenance, RetireFleet, RegisterFishingVessel,
                VerifyFishingVessel
  <2>2. ASSUME Plans(p) PROVE task' = task
    BY <2>2, PlanCases DEF PlanEffect, vars
  <2>3. ASSUME VoyageNext(p) PROVE task' = task
    BY <2>3 DEF VoyageNext, ClearFishingVoyage, DepartureFishingVoyage,
                ConfirmFishingVoyageLanding, CloseFishingVoyage, CancelFishingVoyage
  <2>4. ASSUME ReviewNext(p) PROVE task' = task
    BY <2>4 DEF ReviewNext, DeclareInRange, DeclareOutOfRange, StartReview, Decide
  <2>. QED  BY <1>5, <2>1, <2>2, <2>3, <2>4
<1>6. ASSUME NEW p \in Users, HandoffNext(p)
      PROVE  \/ \E t \in Tasks, v \in Voyages, c, o \in Users : CreateCatchLandingTask(p, t, v, c, o)
             \/ \E t \in Tasks, s \in {"approved", "denied"} : ResolveCatchLandingTask(p, t, s)
  BY <1>6 DEF HandoffNext
<1>7. CASE \E p \in Users, t \in Tasks, v \in Voyages, c, o \in Users :
             CreateCatchLandingTask(p, t, v, c, o)
  BY <1>1, <1>7
<1>8. CASE \E p \in Users, t \in Tasks, s \in {"approved", "denied"} :
             ResolveCatchLandingTask(p, t, s)
  BY <1>2, <1>8
<1>9. CASE WorkerPass
  BY <1>3, <1>9 DEF WorkerPass
<1>10. CASE Tick \/ UNCHANGED vars
  BY <1>4, <1>10 DEF Tick, vars
<1>11. CASE \E p \in Users : CatalogNext(p) \/ Plans(p) \/ VoyageNext(p) \/ ReviewNext(p)
  BY <1>4, <1>5, <1>11
<1>. QED  BY <1>6, <1>7, <1>8, <1>9, <1>10, <1>11 DEF LateNext, Plans

\* A voyage leaves the states in which it can be reviewed only by closure, which finds
\* nothing pending or active.
LEMMA VoyageCases ==
  ASSUME TypeOK, [LateNext]_vars
  PROVE  \A v \in Voyages : voyage[v].state \in {"at_sea", "landed"} =>
           \/ voyage'[v].state \in {"at_sea", "landed"}
           \/ UNCHANGED <<task, anomaly>> /\ ~HasPendingTask(v) /\ ~HasActiveAnomaly(v)
<1>. SUFFICES ASSUME NEW v \in Voyages, voyage[v].state \in {"at_sea", "landed"}
              PROVE  \/ voyage'[v].state \in {"at_sea", "landed"}
                     \/ /\ UNCHANGED <<task, anomaly>>
                        /\ ~HasPendingTask(v) /\ ~HasActiveAnomaly(v)
  OBVIOUS
<1>0. voyage \in [Voyages -> Voyage]
  BY DEF TypeOK
<1>1. CASE voyage' = voyage
  BY <1>1
<1>2. ASSUME NEW p \in Users, NEW k \in Keys, NEW q \in Request, NEW t \in Nat, PlanEffect(k, q, t)
      PROVE  voyage'[v] = voyage[v]
  BY <1>0, <1>2 DEF PlanEffect
<1>3. ASSUME NEW p \in Users, NEW w \in Voyages,
             \/ ClearFishingVoyage(p, w) \/ DepartureFishingVoyage(p, w)
             \/ ConfirmFishingVoyageLanding(p, w) \/ CancelFishingVoyage(p, w)
      PROVE  voyage'[v].state \in {"at_sea", "landed"}
  <2>1. \/ voyage' = MoveVoyage(w, "landed")
        \/ /\ voyage[w].state \in {"planned", "cleared"}
           /\ \E s \in VoyageStates : voyage' = MoveVoyage(w, s)
    BY <1>3 DEF ClearFishingVoyage, DepartureFishingVoyage, ConfirmFishingVoyageLanding,
                CancelFishingVoyage, DepartureAllowed, CancelAllowed, VoyageMayMove,
                VoyageMoves, VoyageStates
  <2>2. \A s \in VoyageStates : /\ MoveVoyage(w, s)[w].state = s
                                /\ w # v => MoveVoyage(w, s)[v].state = voyage[v].state
    BY <1>0, MoveVoyageFacts
  <2>3. "landed" \in VoyageStates
    BY DEF VoyageStates
  <2>. QED  BY <2>1, <2>2, <2>3
<1>4. ASSUME NEW p \in Users, NEW w \in Voyages, CloseFishingVoyage(p, w)
      PROVE  \/ voyage'[v].state = voyage[v].state
             \/ /\ UNCHANGED <<task, anomaly>>
                /\ ~HasPendingTask(v) /\ ~HasActiveAnomaly(v)
  <2>1. w # v => MoveVoyage(w, "closed")[v].state = voyage[v].state
    BY <1>0, MoveVoyageFacts DEF VoyageStates
  <2>. QED  BY <1>4, <2>1 DEF CloseFishingVoyage, CloseAllowed
<1>5. ASSUME NEW p \in Users, VoyageNext(p)
      PROVE  \/ voyage'[v].state \in {"at_sea", "landed"}
             \/ /\ UNCHANGED <<task, anomaly>>
                /\ ~HasPendingTask(v) /\ ~HasActiveAnomaly(v)
  BY <1>3, <1>4, <1>5 DEF VoyageNext
<1>6. ASSUME NEW p \in Users, CatalogNext(p) PROVE voyage' = voyage
  BY <1>6 DEF CatalogNext, CreateFishingPermit, ActivateFishingPermit, CreateSupportFleet,
              StartMaintenance, CompleteMaintenance, RetireFleet, RegisterFishingVessel,
              VerifyFishingVessel
<1>7. ASSUME NEW p \in Users, Plans(p) PROVE voyage'[v] = voyage[v]
  BY <1>2, <1>7, PlanCases DEF vars
<1>8. ASSUME NEW p \in Users, ReviewNext(p) \/ HandoffNext(p) PROVE voyage' = voyage
  BY <1>8 DEF ReviewNext, DeclareInRange, DeclareOutOfRange, StartReview, Decide,
              HandoffNext, CreateCatchLandingTask, ResolveCatchLandingTask
<1>9. CASE WorkerPass \/ Tick \/ UNCHANGED vars
  BY <1>1, <1>9 DEF WorkerPass, ExpireTasks, Tick, vars
<1>. QED  BY <1>1, <1>5, <1>6, <1>7, <1>8, <1>9 DEF LateNext, Plans

\* For any number of voyages, tasks and anomalies: nothing stays pending or under review
\* on a voyage that is closed, cancelled or not yet at sea.
THEOREM ReviewsKeepVoyageOpen == LateSpec => []ReviewsBlockClosure
<1>1. Init => ReviewsBlockClosure
  BY NoneAssumption
     DEF Init, NoTask, NoAnomaly, ReviewsBlockClosure, HasPendingTask, HasActiveAnomaly,
         IsPending, IsActiveAnomaly
<1>2. TypeOK /\ ReviewsBlockClosure /\ [LateNext]_vars => ReviewsBlockClosure'
  <2>. SUFFICES ASSUME TypeOK, ReviewsBlockClosure, [LateNext]_vars, NEW w \in Voyages,
                       HasPendingTask(w)' \/ HasActiveAnomaly(w)'
                PROVE  voyage'[w].state \in {"at_sea", "landed"}
    BY DEF ReviewsBlockClosure
  <2>1. voyage[w].state \in {"at_sea", "landed"}
    <3>1. CASE HasPendingTask(w)'
      BY <3>1, TaskCases DEF HasPendingTask, ReviewsBlockClosure
    <3>2. CASE HasActiveAnomaly(w)'
      <4>1. ASSUME NEW p \in Users, ReviewNext(p)
            PROVE  voyage[w].state \in {"at_sea", "landed"}
        <5>1. CASE HasActiveAnomaly(w)
          BY <5>1 DEF ReviewsBlockClosure
        <5>2. CASE ~HasActiveAnomaly(w)
          BY <3>2, <4>1, <5>2, ActiveAfterReview DEF HasActiveAnomaly
        <5>. QED  BY <5>1, <5>2
      <4>2. CASE anomaly' = anomaly
        BY <3>2, <4>2 DEF HasActiveAnomaly, IsActiveAnomaly, ReviewsBlockClosure
      <4>. QED  BY <4>1, <4>2, ReviewCases
    <3>. QED  BY <3>1, <3>2
  <2>2. ~(UNCHANGED <<task, anomaly>> /\ ~HasPendingTask(w) /\ ~HasActiveAnomaly(w))
    BY DEF HasPendingTask, HasActiveAnomaly, IsPending, IsActiveAnomaly
  <2>. QED  BY <2>1, <2>2, VoyageCases
<1>. QED  BY <1>1, <1>2, TypeCorrect, PTL DEF LateSpec

\* At most one active anomaly and one pending task per voyage, however declarations,
\* decisions and tasks interleave.
THEOREM OneReview == LateSpec => []OneReviewAtATime
<1>1. Init => OneReviewAtATime
  BY DEF Init, NoTask, NoAnomaly, OneReviewAtATime, IsPending, IsActiveAnomaly
<1>2. TypeOK /\ OneReviewAtATime /\ [LateNext]_vars => OneReviewAtATime'
  <2>. SUFFICES ASSUME TypeOK, OneReviewAtATime, [LateNext]_vars PROVE OneReviewAtATime'
    OBVIOUS
  <2>1. ASSUME NEW w \in Voyages, NEW x \in Tasks, NEW y \in Tasks,
               IsPending(x, w)', IsPending(y, w)'
        PROVE  x = y
    BY <2>1, TaskCases DEF OneReviewAtATime, HasPendingTask
  <2>2. ASSUME NEW w \in Voyages, NEW x \in Anomalies, NEW y \in Anomalies,
               IsActiveAnomaly(x, w)', IsActiveAnomaly(y, w)'
        PROVE  x = y
    <3>1. CASE anomaly' = anomaly
      BY <2>2, <3>1 DEF OneReviewAtATime, IsActiveAnomaly
    <3>2. ASSUME NEW v \in Voyages, NEW a \in Anomalies, TargetAnomaly(a, v),
                 \A u \in Voyages : IsActiveAnomaly(a, u)' <=> u = v,
                 \A c \in Anomalies, u \in Voyages :
                   c # a => (IsActiveAnomaly(c, u)' <=> IsActiveAnomaly(c, u))
          PROVE  x = y
      <4>1. CASE IsActiveAnomaly(a, v)
        BY <2>2, <3>2, <4>1 DEF OneReviewAtATime
      <4>2. CASE ~HasActiveAnomaly(v)
        BY <2>2, <3>2, <4>2 DEF OneReviewAtATime, HasActiveAnomaly
      <4>. QED  BY <3>2, <4>1, <4>2 DEF TargetAnomaly
    <3>3. ASSUME NEW a \in Anomalies, \A u \in Voyages : ~IsActiveAnomaly(a, u)',
                 \A c \in Anomalies, u \in Voyages :
                   c # a => (IsActiveAnomaly(c, u)' <=> IsActiveAnomaly(c, u))
          PROVE  x = y
      BY <2>2, <3>3 DEF OneReviewAtATime
    <3>4. ASSUME \A c \in Anomalies, u \in Voyages :
                   IsActiveAnomaly(c, u)' <=> IsActiveAnomaly(c, u)
          PROVE  x = y
      BY <2>2, <3>4 DEF OneReviewAtATime
    <3>5. ASSUME NEW p \in Users, ReviewNext(p) PROVE x = y
      BY <3>2, <3>3, <3>4, <3>5, ActiveAfterReview
    <3>. QED  BY <3>1, <3>5, ReviewCases
  <2>. QED  BY <2>1, <2>2 DEF OneReviewAtATime
<1>. QED  BY <1>1, <1>2, TypeCorrect, PTL DEF LateSpec

-----------------------------------------------------------------------------
(* Quarantine and what closure waits for.                                  *)

\* A quarantined vessel is linked to the voyage its row names.
LEMMA QuarantinedIsLinked ==
  ASSUME VesselFollowsVoyage, NEW b \in Vessels, vessel[b].state = "quarantined"
  PROVE  \E v \in Voyages : b \in VesselsOf(v) /\ vessel[b].voyage = v
<1>1. PICK v \in Voyages : b \in VesselsOf(v)
  BY DEF VesselFollowsVoyage, IsIdle, LinkFree, VesselsOf
<1>2. FollowsVoyage(b, v)
  BY <1>1 DEF VesselFollowsVoyage
<1>. QED  BY <1>1, <1>2 DEF FollowsVoyage, InPhase

\* For any number of voyages, vessels and anomalies: a quarantined vessel is always held
\* by an anomaly still under review on its own voyage, so it is never stranded.
THEOREM QuarantineHasOwner == LateSpec => []QuarantineOwned
<1>1. Init => QuarantineOwned
  BY DEF Init, NoVessel, QuarantineOwned
<1>2. TypeOK /\ VesselFollowsVoyage /\ QuarantineOwned /\ [LateNext]_vars => QuarantineOwned'
  <2>. SUFFICES ASSUME TypeOK, VesselFollowsVoyage, QuarantineOwned, [LateNext]_vars,
                       NEW b \in Vessels, vessel'[b].state = "quarantined"
                PROVE  \E a \in Anomalies, v \in Voyages :
                         /\ vessel'[b].note = a /\ vessel'[b].voyage = v
                         /\ IsActiveAnomaly(a, v)'
    BY DEF QuarantineOwned
  <2>1. ASSUME vessel'[b] = vessel[b]
        PROVE  \E a \in Anomalies, v \in Voyages :
                 /\ vessel'[b].note = a /\ vessel'[b].voyage = v
                 /\ vessel[b].note = a /\ vessel[b].voyage = v
                 /\ IsActiveAnomaly(a, v)
    BY <2>1 DEF QuarantineOwned
  <2>2. CASE anomaly' = anomaly /\ HeldVesselsKept
    <3>1. vessel'[b] = vessel[b]
      BY <2>2 DEF HeldVesselsKept
    <3>. QED  BY <2>1, <2>2, <3>1 DEF IsActiveAnomaly
  <2>3. ASSUME NEW p \in Users, NEW v \in Voyages, NEW s \in Seqs, NEW a \in Anomalies,
               DeclareOutOfRange(p, v, s, a), TargetAnomaly(a, v),
               \A w \in Voyages : IsActiveAnomaly(a, w)' <=> w = v,
               \A c \in Anomalies, w \in Voyages :
                 c # a => (IsActiveAnomaly(c, w)' <=> IsActiveAnomaly(c, w))
        PROVE  \E c \in Anomalies, w \in Voyages :
                 /\ vessel'[b].note = c /\ vessel'[b].voyage = w
                 /\ IsActiveAnomaly(c, w)'
    <3>1. CASE vessel'[b] = vessel[b]
      <4>1. PICK c \in Anomalies, w \in Voyages : /\ vessel'[b].note = c /\ vessel'[b].voyage = w
                                                  /\ IsActiveAnomaly(c, w)
        BY <2>1, <3>1
      <4>2. c = a => w = v
        BY <2>3, <4>1 DEF TargetAnomaly, IsActiveAnomaly
      <4>. QED  BY <2>3, <4>1, <4>2
    <3>2. CASE vessel'[b] # vessel[b]
      <4>1. /\ b \in VesselsOf(v) /\ vessel[b].state \in {"at_sea", "landed"}
            /\ vessel'[b].note = a /\ vessel'[b].voyage = vessel[b].voyage
        BY <2>3, <3>2, DeclareEffect
      <4>2. FollowsVoyage(b, v)
        BY <4>1 DEF VesselFollowsVoyage
      <4>3. vessel[b].voyage = v
        BY <4>1, <4>2 DEF FollowsVoyage, InPhase
      <4>. QED  BY <2>3, <4>1, <4>3
    <3>. QED  BY <3>1, <3>2
  <2>4. ASSUME NEW p \in Users, NEW a \in Anomalies, NEW d \in {"cleared", "rejected"},
               Decide(p, a, d), links' = links,
               \A c \in Anomalies, w \in Voyages :
                 c # a => (IsActiveAnomaly(c, w)' <=> IsActiveAnomaly(c, w))
        PROVE  \E c \in Anomalies, w \in Voyages :
                 /\ vessel'[b].note = c /\ vessel'[b].voyage = w
                 /\ IsActiveAnomaly(c, w)'
    <3>1. vessel'[b] = vessel[b] /\ ~(b \in VesselsOf(anomaly[a].voyage) /\ QuarantinedFor(b, a))
      BY <2>4, DecideEffect DEF Outcome
    <3>2. PICK c \in Anomalies, w \in Voyages :
            /\ vessel'[b].note = c /\ vessel'[b].voyage = w
            /\ vessel[b].note = c /\ vessel[b].voyage = w
            /\ IsActiveAnomaly(c, w)
      BY <2>1, <3>1
    <3>3. b \in VesselsOf(w)
      BY <3>1, <3>2, QuarantinedIsLinked
    <3>4. c # a
      BY <3>1, <3>2, <3>3 DEF IsActiveAnomaly, QuarantinedFor
    <3>. QED  BY <2>4, <3>2, <3>4
  <2>5. CASE /\ vessel' = vessel
             /\ \A c \in Anomalies, w \in Voyages : IsActiveAnomaly(c, w)' <=> IsActiveAnomaly(c, w)
    BY <2>1, <2>5
  <2>6. ASSUME NEW p \in Users, ReviewNext(p)
        PROVE  \E a \in Anomalies, v \in Voyages :
                 /\ vessel'[b].note = a /\ vessel'[b].voyage = v
                 /\ IsActiveAnomaly(a, v)'
    BY <2>3, <2>4, <2>5, <2>6, ActiveAfterReview
  <2>. QED  BY <2>2, <2>6, ReviewCases
<1>. QED  BY <1>1, <1>2, TypeCorrect, VesselsFollow, PTL DEF LateSpec

\* Once landed, only a pending task or an active anomaly can hold a closure back.
THEOREM ClosureReachable == LateSpec => []ClosureNeverStuck
<1>1. VesselFollowsVoyage /\ QuarantineOwned => ClosureNeverStuck
  <2>. SUFFICES ASSUME VesselFollowsVoyage, QuarantineOwned, NEW v \in Voyages,
                       voyage[v].state = "landed", ~HasPendingTask(v), ~HasActiveAnomaly(v)
                PROVE  CloseAllowed(v)
    BY DEF ClosureNeverStuck
  <2>1. ASSUME NEW b \in VesselsOf(v)
        PROVE  vessel[b].state \in {"reinspected", "retired", "landed"}
    <3>1. b \in Vessels /\ FollowsVoyage(b, v)
      BY DEF VesselFollowsVoyage, VesselsOf
    <3>2. vessel[b].state # "quarantined"
      BY <3>1 DEF QuarantineOwned, FollowsVoyage, HasActiveAnomaly
    <3>. QED  BY <3>1, <3>2 DEF FollowsVoyage, InPhase
  <2>. QED  BY <2>1 DEF CloseAllowed, VoyageMayMove, VoyageMoves
<1>. QED  BY <1>1, VesselsFollow, QuarantineHasOwner, PTL

\* At sea, only an expired certificate of a vessel still at sea can hold a landing back.
THEOREM LandingReachable == LateSpec => []LandingNeverStuck
<1>1. VesselFollowsVoyage => LandingNeverStuck
  <2>. SUFFICES ASSUME VesselFollowsVoyage, NEW v \in Voyages, voyage[v].state = "at_sea",
                       \A b \in VesselsOf(v) : vessel[b].state = "at_sea" => IsUsable(b)
                PROVE  LandingAllowed(v)
    BY DEF LandingNeverStuck
  <2>1. ASSUME NEW b \in VesselsOf(v)
        PROVE  SkipsLanding(b) \/ VesselMayMove(b, "landed")
    <3>1. FollowsVoyage(b, v)
      BY DEF VesselFollowsVoyage, VesselsOf
    <3>. QED  BY <3>1 DEF FollowsVoyage, InPhase, SkipsLanding, VesselMayMove, VesselMoves
  <2>. QED  BY <2>1 DEF LandingAllowed, VoyageMayMove, VoyageMoves
<1>. QED  BY <1>1, VesselsFollow, PTL

-----------------------------------------------------------------------------
(* Voyages only go forward, and keep the vessels they were planned with.   *)

\* From is closed under itself.
LEMMA FromTransitive ==
  ASSUME NEW r \in VoyageStates, NEW s \in From(r), NEW t \in From(s)
  PROVE  t \in From(r)
BY DEF From, VoyageStates

LEMMA FromSelf == \A s \in VoyageStates : s \in From(s)
BY DEF From, VoyageStates

\* One step moves a voyage to a state it can be in after the one it is in.
LEMMA VoyageProgress ==
  ASSUME TypeOK, [LateNext]_vars, NEW v \in Voyages, voyage[v].state # "absent"
  PROVE  voyage'[v].state \in From(voyage[v].state) /\ voyage'[v].state # "absent"
<1>0. voyage \in [Voyages -> Voyage] /\ voyage[v].state \in VoyageStates
  BY DEF TypeOK, Voyage
<1>1. ASSUME voyage'[v].state = voyage[v].state
      PROVE  voyage'[v].state \in From(voyage[v].state) /\ voyage'[v].state # "absent"
  BY <1>0, <1>1, FromSelf
<1>2. ASSUME NEW w \in Voyages, NEW s \in VoyageStates, voyage' = MoveVoyage(w, s),
             <<voyage[w].state, s>> \in VoyageMoves
      PROVE  voyage'[v].state \in From(voyage[v].state) /\ voyage'[v].state # "absent"
  <2>1. /\ voyage'[w].state = s
        /\ w # v => voyage'[v].state = voyage[v].state
    BY <1>0, <1>2, MoveVoyageFacts
  <2>2. s # "absent" /\ s \in From(voyage[w].state)
    BY <1>2 DEF VoyageMoves, From
  <2>. QED  BY <1>1, <2>1, <2>2
<1>3. ASSUME NEW p \in Users, VoyageNext(p)
      PROVE  voyage'[v].state \in From(voyage[v].state) /\ voyage'[v].state # "absent"
  <2>1. PICK w \in Voyages : \/ ClearFishingVoyage(p, w) \/ DepartureFishingVoyage(p, w)
                             \/ ConfirmFishingVoyageLanding(p, w) \/ CloseFishingVoyage(p, w)
                             \/ CancelFishingVoyage(p, w)
    BY <1>3 DEF VoyageNext
  <2>2. \E s \in VoyageStates : /\ voyage' = MoveVoyage(w, s)
                                /\ <<voyage[w].state, s>> \in VoyageMoves
    <3>1. {"cleared", "at_sea", "landed", "closed", "cancelled"} \subseteq VoyageStates
      BY DEF VoyageStates
    <3>. QED  BY <2>1, <3>1
                 DEF ClearFishingVoyage, DepartureFishingVoyage, ConfirmFishingVoyageLanding,
                     CloseFishingVoyage, CancelFishingVoyage, DepartureAllowed, LandingAllowed,
                     CloseAllowed, CancelAllowed, VoyageMayMove
  <2>. QED  BY <1>2, <2>2
<1>4. ASSUME NEW p \in Users, CatalogNext(p) \/ ReviewNext(p) \/ HandoffNext(p)
      PROVE  voyage' = voyage
  BY <1>4 DEF CatalogNext, CreateFishingPermit, ActivateFishingPermit, CreateSupportFleet,
              StartMaintenance, CompleteMaintenance, RetireFleet, RegisterFishingVessel,
              VerifyFishingVessel, ReviewNext, DeclareInRange, DeclareOutOfRange, StartReview,
              Decide, HandoffNext, CreateCatchLandingTask, ResolveCatchLandingTask
<1>5. ASSUME NEW p \in Users, Plans(p) PROVE voyage'[v] = voyage[v]
  <2>1. ASSUME NEW k \in Keys, NEW q \in Request, NEW t \in Nat, PlanEffect(k, q, t)
        PROVE  voyage'[v] = voyage[v]
    BY <1>0, <2>1 DEF PlanEffect
  <2>. QED  BY <1>5, <2>1, PlanCases DEF vars
<1>6. CASE WorkerPass \/ Tick \/ UNCHANGED vars
  BY <1>1, <1>6 DEF WorkerPass, ExpireTasks, Tick, vars
<1>. QED  BY <1>1, <1>3, <1>4, <1>5, <1>6 DEF LateNext, Plans

\* Every voyage has vessels: PlanFishingVoyage refuses a plan without any.
Crewed == \A v \in Voyages : voyage[v].state # "absent" => VesselsOf(v) # {}

\* The links of a voyage never change once it is planned.
LEMMA VesselsStay ==
  ASSUME TypeOK, [LateNext]_vars, NEW v \in Voyages, voyage[v].state # "absent"
  PROVE  VesselsOf(v)' = VesselsOf(v)
<1>1. CASE Quiet
  BY <1>1 DEF Quiet, VesselsOf
<1>2. ASSUME NEW k \in Keys, NEW q \in Request, NEW t \in Nat, PlanEffect(k, q, t)
      PROVE  VesselsOf(v)' = VesselsOf(v)
  <2>1. q.code # v
    BY <1>2 DEF PlanEffect
  <2>. QED  BY <1>2, <2>1 DEF PlanEffect, VesselsOf
<1>. QED  BY <1>1, <1>2, PlanOrQuiet

LEMMA CrewedHolds == LateSpec => []Crewed
<1>1. Init => Crewed
  BY DEF Init, NoVoyage, Crewed
<1>2. TypeOK /\ Crewed /\ [LateNext]_vars => Crewed'
  <2>. SUFFICES ASSUME TypeOK, Crewed, [LateNext]_vars, NEW v \in Voyages,
                       voyage'[v].state # "absent"
                PROVE  VesselsOf(v)' # {}
    BY DEF Crewed
  <2>1. CASE voyage[v].state # "absent"
    BY <2>1, VesselsStay DEF Crewed
  <2>2. CASE voyage[v].state = "absent"
    <3>1. PICK k \in Keys, q \in Request, t \in Nat : PlanEffect(k, q, t)
      BY <2>2, PlanOrQuiet DEF Quiet
    <3>2. q.code = v
      BY <2>2, <3>1 DEF PlanEffect, TypeOK
    <3>3. q.vessels # {} /\ q.vessels \subseteq Vessels
      BY <3>1 DEF PlanEffect, Request
    <3>. QED  BY <3>1, <3>2, <3>3 DEF PlanEffect, VesselsOf
  <2>. QED  BY <2>1, <2>2
<1>. QED  BY <1>1, <1>2, TypeCorrect, PTL DEF LateSpec

-----------------------------------------------------------------------------
(* Reports.                                                                *)

\* The services do not see readers.
LEMMA ReportsAreServices == ReportSpec => LateSpec
<1>1. ReportInit => Init
  BY DEF ReportInit
<1>2. [ReportNext]_allVars => [LateNext]_vars
  BY DEF ReportNext, Beside, BeginReport, RunQuery, EndReport, allVars, Next, LateNext
<1>. QED  BY <1>1, <1>2, PTL DEF ReportSpec, LateSpec

\* What the proofs need of the services.
Served == TypeOK /\ VesselFollowsVoyage /\ ReviewsBlockClosure /\ ClosureNeverStuck /\ Crewed

LEMMA ServedHolds == ReportSpec => []Served
<1>1. TypeOK /\ VesselFollowsVoyage /\ ReviewsBlockClosure /\ ClosureNeverStuck /\ Crewed => Served
  BY DEF Served
<1>. QED  BY <1>1, ReportsAreServices, TypeCorrect, VesselsFollow, ReviewsKeepVoyageOpen,
             ClosureReachable, CrewedHolds, PTL

\* How far a report has come: the queries left, and those answered.
Stage(kind, todo, asked) ==
  \/ kind = "none" /\ todo = <<>>
  \/ /\ kind = "detail"
     /\ \/ todo = <<"state", "vessels">> /\ asked = {}
        \/ todo = <<"vessels">> /\ asked = {"state"}
        \/ todo = <<>> /\ asked = {"state", "vessels"}
  \/ /\ kind = "readiness"
     /\ \/ /\ todo = <<"state", "expected", "arrived", "quarantined", "pending", "open">>
           /\ asked = {}
        \/ /\ todo = <<"expected", "arrived", "quarantined", "pending", "open">>
           /\ asked = {"state"}
        \/ /\ todo = <<"arrived", "quarantined", "pending", "open">>
           /\ asked = {"state", "expected"}
        \/ /\ todo = <<"quarantined", "pending", "open">>
           /\ asked = {"state", "expected", "arrived"}
        \/ /\ todo = <<"pending", "open">>
           /\ asked = {"state", "expected", "arrived", "quarantined"}
        \/ /\ todo = <<"open">>
           /\ asked = {"state", "expected", "arrived", "quarantined", "pending"}
        \/ /\ todo = <<>>
           /\ asked = {"state", "expected", "arrived", "quarantined", "pending", "open"}

LEMMA StageStep ==
  ASSUME NEW kind, NEW todo, NEW asked, Stage(kind, todo, asked), todo # <<>>
  PROVE  /\ Stage(kind, Tail(todo), asked \cup {Head(todo)})
         /\ Head(todo) \notin asked
         /\ kind = "detail" => Head(todo) \in {"state", "vessels"}
         /\ kind = "readiness" =>
              Head(todo) \in {"state", "expected", "arrived", "quarantined", "pending", "open"}
         /\ Head(todo) = "vessels" => kind = "detail" /\ "state" \in asked
         /\ Head(todo) = "open" => kind = "readiness" /\ "state" \in asked /\ "pending" \in asked
<1>1. CASE kind = "detail" /\ todo = <<"state", "vessels">> /\ asked = {}
  <2>1. Head(todo) = "state" /\ Tail(todo) = <<"vessels">>
    BY <1>1
  <2>. QED  BY <1>1, <2>1 DEF Stage
<1>2. CASE kind = "detail" /\ todo = <<"vessels">> /\ asked = {"state"}
  <2>1. Head(todo) = "vessels" /\ Tail(todo) = <<>>
    BY <1>2
  <2>. QED  BY <1>2, <2>1 DEF Stage
<1>3. CASE kind = "readiness" /\ todo = <<"state", "expected", "arrived", "quarantined", "pending", "open">> /\ asked = {}
  <2>1. Head(todo) = "state" /\ Tail(todo) = <<"expected", "arrived", "quarantined", "pending", "open">>
    BY <1>3
  <2>. QED  BY <1>3, <2>1 DEF Stage
<1>4. CASE kind = "readiness" /\ todo = <<"expected", "arrived", "quarantined", "pending", "open">> /\ asked = {"state"}
  <2>1. Head(todo) = "expected" /\ Tail(todo) = <<"arrived", "quarantined", "pending", "open">>
    BY <1>4
  <2>. QED  BY <1>4, <2>1 DEF Stage
<1>5. CASE kind = "readiness" /\ todo = <<"arrived", "quarantined", "pending", "open">> /\ asked = {"state", "expected"}
  <2>1. Head(todo) = "arrived" /\ Tail(todo) = <<"quarantined", "pending", "open">>
    BY <1>5
  <2>. QED  BY <1>5, <2>1 DEF Stage
<1>6. CASE kind = "readiness" /\ todo = <<"quarantined", "pending", "open">> /\ asked = {"state", "expected", "arrived"}
  <2>1. Head(todo) = "quarantined" /\ Tail(todo) = <<"pending", "open">>
    BY <1>6
  <2>. QED  BY <1>6, <2>1 DEF Stage
<1>7. CASE kind = "readiness" /\ todo = <<"pending", "open">> /\ asked = {"state", "expected", "arrived", "quarantined"}
  <2>1. Head(todo) = "pending" /\ Tail(todo) = <<"open">>
    BY <1>7
  <2>. QED  BY <1>7, <2>1 DEF Stage
<1>8. CASE kind = "readiness" /\ todo = <<"open">> /\ asked = {"state", "expected", "arrived", "quarantined", "pending"}
  <2>1. Head(todo) = "open" /\ Tail(todo) = <<>>
    BY <1>8
  <2>. QED  BY <1>8, <2>1 DEF Stage
<1>. QED  BY <1>1, <1>2, <1>3, <1>4, <1>5, <1>6, <1>7, <1>8 DEF Stage

ReaderInv ==
  /\ reader = [kind |-> reader.kind, voyage |-> reader.voyage, todo |-> reader.todo,
               got |-> reader.got]
  /\ Stage(reader.kind, reader.todo, DOMAIN reader.got)
  /\ reader.kind # "none" =>
       reader.voyage \in Voyages /\ voyage[reader.voyage].state # "absent"

\* A query runs: its answer is added and nothing else changes.
LEMMA QueryEffect ==
  ASSUME ReaderInv, RunQuery
  PROVE  /\ UNCHANGED vars /\ reader.todo # <<>> /\ reader.kind # "none"
         /\ reader'.kind = reader.kind /\ reader'.voyage = reader.voyage
         /\ reader'.todo = Tail(reader.todo)
         /\ DOMAIN reader'.got = DOMAIN reader.got \cup {Head(reader.todo)}
         /\ reader'.got[Head(reader.todo)] = Result(Head(reader.todo), reader.voyage)
         /\ \A q \in DOMAIN reader.got :
              q # Head(reader.todo) /\ reader'.got[q] = reader.got[q]
         /\ reader' = [kind |-> reader.kind, voyage |-> reader.voyage, todo |-> reader'.todo,
                       got |-> reader'.got]
<1>0. reader.todo # <<>> /\ UNCHANGED vars
  BY DEF RunQuery
<1>1. reader' = [kind |-> reader.kind, voyage |-> reader.voyage, todo |-> Tail(reader.todo),
                 got |-> Answer(Head(reader.todo))]
  BY DEF RunQuery, ReaderInv
<1>2. reader'.todo = Tail(reader.todo) /\ reader'.got = Answer(Head(reader.todo))
  BY <1>1
<1>3. Head(reader.todo) \notin DOMAIN reader.got /\ reader.kind # "none"
  BY <1>0, StageStep DEF ReaderInv, Stage
<1>. QED  BY <1>0, <1>1, <1>2, <1>3 DEF Answer

\* A report is begun with nothing answered.
LEMMA BeginEffect ==
  ASSUME NEW v \in Voyages, NEW kind \in {"readiness", "detail"}, BeginReport(v, kind)
  PROVE  /\ UNCHANGED vars /\ reader'.kind = kind /\ reader'.voyage = v
         /\ voyage[v].state # "absent" /\ DOMAIN reader'.got = {}
         /\ reader'.todo # <<>>
         /\ Stage(kind, reader'.todo, {})
         /\ reader' = [kind |-> reader'.kind, voyage |-> reader'.voyage, todo |-> reader'.todo,
                       got |-> reader'.got]
<1>1. reader' = [kind |-> kind, voyage |-> v, got |-> <<>>,
                 todo |-> IF kind = "readiness" THEN ReadinessQueries ELSE DetailQueries]
  BY DEF BeginReport, NoReport
<1>2. DOMAIN <<>> = {}
  OBVIOUS
<1>3. reader'.todo = IF kind = "readiness" THEN ReadinessQueries ELSE DetailQueries
  BY <1>1
<1>4. Stage(kind, reader'.todo, {}) /\ reader'.todo # <<>>
  BY <1>3 DEF ReadinessQueries, DetailQueries, Stage
<1>5. reader'.kind = kind /\ reader'.voyage = v /\ reader'.got = <<>>
  BY <1>1
<1>6. reader' = [kind |-> reader'.kind, voyage |-> reader'.voyage, todo |-> reader'.todo,
                 got |-> reader'.got]
  BY <1>1
<1>. QED  BY <1>2, <1>4, <1>5, <1>6 DEF BeginReport

LEMMA EndEffect ==
  ASSUME EndReport
  PROVE  reader'.kind = "none" /\ reader' = NoReport /\ UNCHANGED vars
BY DEF EndReport, NoReport

\* A step begins, continues or ends a report, or the services take it.
LEMMA ReportCases ==
  ASSUME ReportNext
  PROVE  /\ Watch
         /\ \/ [LateNext]_vars /\ reader' = reader
            \/ RunQuery
            \/ EndReport
            \/ \E v \in Voyages, kind \in {"readiness", "detail"} : BeginReport(v, kind)
BY DEF ReportNext, Beside, Next, LateNext

LEMMA ReaderInvHolds == ReportSpec => []ReaderInv
<1>1. ReportInit => ReaderInv
  BY DEF ReportInit, NoReport, ReaderInv, Stage
<1>2. Served /\ ReaderInv /\ [ReportNext]_allVars => ReaderInv'
  <2>. SUFFICES ASSUME Served, ReaderInv, [ReportNext]_allVars PROVE ReaderInv'
    OBVIOUS
  <2>1. CASE [LateNext]_vars /\ reader' = reader
    BY <2>1, VoyageProgress DEF Served, ReaderInv
  <2>2. CASE RunQuery
    <3>1. Stage(reader'.kind, reader'.todo, DOMAIN reader'.got)
      <4>1. Stage(reader.kind, reader.todo, DOMAIN reader.got) /\ reader.todo # <<>>
        BY <2>2, QueryEffect DEF ReaderInv
      <4>2. Stage(reader.kind, Tail(reader.todo), DOMAIN reader.got \cup {Head(reader.todo)})
        BY <4>1, StageStep
      <4>3. /\ reader'.kind = reader.kind /\ reader'.todo = Tail(reader.todo)
            /\ DOMAIN reader'.got = DOMAIN reader.got \cup {Head(reader.todo)}
        BY <2>2, QueryEffect
      <4>. HIDE DEF Stage
      <4>. QED  BY <4>2, <4>3, Zenon
    <3>2. reader' = [kind |-> reader'.kind, voyage |-> reader'.voyage, todo |-> reader'.todo,
                     got |-> reader'.got]
      BY <2>2, QueryEffect
    <3>. QED  BY <2>2, <3>1, <3>2, QueryEffect DEF ReaderInv, vars
  <2>3. CASE EndReport
    <3>1. NoReport.kind = "none" /\ NoReport.todo = <<>>
      BY DEF NoReport
    <3>2. reader' = NoReport
      BY <2>3, EndEffect
    <3>3. NoReport = [kind |-> NoReport.kind, voyage |-> NoReport.voyage,
                      todo |-> NoReport.todo, got |-> NoReport.got]
      BY DEF NoReport
    <3>. QED  BY <3>1, <3>2, <3>3 DEF ReaderInv, Stage
  <2>4. ASSUME NEW v \in Voyages, NEW kind \in {"readiness", "detail"}, BeginReport(v, kind)
        PROVE  ReaderInv'
    <3>1. Stage(reader'.kind, reader'.todo, DOMAIN reader'.got)
      BY <2>4, BeginEffect
    <3>2. reader' = [kind |-> reader'.kind, voyage |-> reader'.voyage, todo |-> reader'.todo,
                     got |-> reader'.got]
      BY <2>4, BeginEffect
    <3>. QED  BY <2>4, <3>1, <3>2, BeginEffect DEF ReaderInv, vars
  <2>5. CASE UNCHANGED allVars
    BY <2>5 DEF allVars, vars, ReaderInv
  <2>. QED  BY <2>1, <2>2, <2>3, <2>4, <2>5, ReportCases
<1>. QED  BY <1>1, <1>2, ServedHolds, PTL DEF ReportSpec

-----------------------------------------------------------------------------
(* The detail of a voyage.                                                 *)

\* The state shown is one the voyage has been in, and its vessels were looked up later.
DetailInv ==
  reader.kind = "detail" =>
    /\ "state" \in DOMAIN reader.got =>
         /\ reader.got.state \in VoyageStates
         /\ voyage[reader.voyage].state \in From(reader.got.state)
    /\ "vessels" \in DOMAIN reader.got =>
         \A x \in reader.got.vessels : \E s \in From(reader.got.state) : InPhase(s, x)

\* The vessels a report lists are never behind the state it shows (QueryService.FishingVoyage
\* reads the voyage first).
THEOREM DetailsNotBehind == ReportSpec => []VesselsNotBehind
<1>1. ReportInit => DetailInv
  BY DEF ReportInit, NoReport, DetailInv
<1>2. Served /\ ReaderInv /\ DetailInv /\ [ReportNext]_allVars => DetailInv'
  <2>. SUFFICES ASSUME Served, ReaderInv, DetailInv, [ReportNext]_allVars,
                       reader'.kind = "detail"
                PROVE  DetailInv'
    BY DEF DetailInv
  <2>1. CASE [LateNext]_vars /\ reader' = reader
    <3>1. voyage'[reader.voyage].state \in From(voyage[reader.voyage].state)
      BY <2>1, VoyageProgress DEF Served, ReaderInv
    <3>2. "state" \in DOMAIN reader.got =>
            voyage'[reader.voyage].state \in From(reader.got.state)
      <4>. SUFFICES ASSUME "state" \in DOMAIN reader.got
                    PROVE  voyage'[reader.voyage].state \in From(reader.got.state)
        OBVIOUS
      <4>1. reader.got.state \in VoyageStates
            /\ voyage[reader.voyage].state \in From(reader.got.state)
        BY <2>1 DEF DetailInv
      <4>. QED  BY <3>1, <4>1, FromTransitive
    <3>. QED  BY <2>1, <3>2 DEF DetailInv
  <2>2. CASE RunQuery
    <3>. DEFINE h == Head(reader.todo)
                v == reader.voyage
    <3>0. /\ v \in Voyages /\ voyage[v].state \in VoyageStates /\ reader.kind = "detail"
      BY <2>2, QueryEffect DEF ReaderInv, Served, TypeOK, Voyage
    <3>1. CASE h = "state"
      <4>1. reader'.got.state = voyage[v].state
        BY <2>2, <3>1, QueryEffect DEF Result
      <4>2. "vessels" \notin DOMAIN reader.got
        BY <2>2, <3>0, <3>1, QueryEffect DEF ReaderInv, Stage
      <4>. QED  BY <2>2, <3>0, <3>1, <4>1, <4>2, QueryEffect, FromSelf DEF DetailInv, vars
    <3>2. CASE h = "vessels"
      <4>1. "state" \in DOMAIN reader.got
        BY <2>2, <3>2, QueryEffect, StageStep DEF ReaderInv
      <4>2. reader'.got.state = reader.got.state
        BY <2>2, <4>1, QueryEffect
      <4>3. reader'.got.vessels = {vessel[b].state : b \in VesselsOf(v)}
        BY <2>2, <3>2, QueryEffect DEF Result
      <4>4. \A b \in VesselsOf(v) : InPhase(voyage[v].state, vessel[b].state)
        BY <3>0 DEF Served, VesselFollowsVoyage, FollowsVoyage, VesselsOf
      <4>. QED  BY <2>2, <3>0, <4>1, <4>2, <4>3, <4>4, QueryEffect DEF DetailInv, vars
    <3>. QED  BY <2>2, <3>0, <3>1, <3>2, QueryEffect, StageStep DEF ReaderInv
  <2>3. CASE EndReport
    BY <2>3, EndEffect
  <2>4. ASSUME NEW v \in Voyages, NEW kind \in {"readiness", "detail"}, BeginReport(v, kind)
        PROVE  DetailInv'
    BY <2>4, BeginEffect DEF DetailInv
  <2>5. CASE UNCHANGED allVars
    BY <2>5 DEF allVars, vars, DetailInv
  <2>. QED  BY <2>1, <2>2, <2>3, <2>4, <2>5, ReportCases
<1>3. ReaderInv /\ DetailInv => VesselsNotBehind
  <2>. SUFFICES ASSUME ReaderInv, DetailInv, Answered("detail") PROVE VesselsNotBehind
    BY DEF VesselsNotBehind
  <2>1. DOMAIN reader.got = {"state", "vessels"}
    BY DEF Answered, ReaderInv, Stage
  <2>. QED  BY <2>1 DEF Answered, DetailInv, VesselsNotBehind
<1>. QED  BY <1>1, <1>2, <1>3, ServedHolds, ReaderInvHolds, PTL DEF ReportSpec

-----------------------------------------------------------------------------
(* The readiness report.                                                   *)

\* The answer x to a query q about voyage v is no blocker.
NoBlocker(q, x, v) ==
  /\ q = "state" => x \in {"landed", "closed"}
  /\ q \in {"expected", "arrived"} => x = Cardinality(VesselsOf(v))
  /\ q = "quarantined" => x = 0
  /\ q \in {"pending", "open"} => ~x

\* On a voyage that is over, no query finds one.
LEMMA NoBlockerWhenOver ==
  ASSUME Served, NEW v \in Voyages, voyage[v].state # "absent", Over(v), NEW q
  PROVE  NoBlocker(q, Result(q, v), v)
<1>1. voyage[v].state \in {"landed", "closed"}
  BY DEF Over, CloseAllowed, VoyageMayMove, VoyageMoves
<1>2. ~HasPendingTask(v) /\ ~HasActiveAnomaly(v)
  BY DEF Over, CloseAllowed, Served, ReviewsBlockClosure
<1>3. \A b \in VesselsOf(v) : vessel[b].state \in {"reinspected", "retired", "landed"}
  <2>1. \A b \in VesselsOf(v) : InPhase(voyage[v].state, vessel[b].state)
    BY DEF Served, VesselFollowsVoyage, FollowsVoyage, VesselsOf
  <2>. QED  BY <2>1 DEF InPhase, Over, CloseAllowed
<1>4. q = "state" => Result(q, v) \in {"landed", "closed"}
  BY <1>1 DEF Result
<1>5. q \in {"expected", "arrived"} => Result(q, v) = Cardinality(VesselsOf(v))
  <2>1. {b \in VesselsOf(v) :
           vessel[b].state \in {"landed", "reinspected", "retired", "quarantined"}}
          = VesselsOf(v)
    BY <1>3
  <2>. QED  BY <2>1 DEF Result, CountVessels
<1>6. q = "quarantined" => Result(q, v) = 0
  <2>1. {b \in VesselsOf(v) : vessel[b].state \in {"quarantined"}} = {}
    BY <1>3
  <2>2. Cardinality({b \in VesselsOf(v) : vessel[b].state \in {"quarantined"}}) = 0
    BY <2>1, FS_EmptySet
  <2>. QED  BY <2>2 DEF Result, CountVessels
<1>7. q = "pending" => ~Result(q, v)
  BY <1>2 DEF Result
<1>8. q = "open" => ~Result(q, v)
  BY <1>2 DEF Result, OpenAnomalies, HasActiveAnomaly
<1>. QED  BY <1>4, <1>5, <1>6, <1>7, <1>8 DEF NoBlocker

\* A voyage has a positive number of vessels.
LEMMA CrewCounted ==
  ASSUME Crewed, NEW v \in Voyages, voyage[v].state # "absent"
  PROVE  Cardinality(VesselsOf(v)) \in Nat /\ Cardinality(VesselsOf(v)) # 0
<1>1. VesselsOf(v) \in SUBSET Vessels /\ VesselsOf(v) # {}
  BY DEF Crewed, VesselsOf
<1>2. IsFiniteSet(VesselsOf(v))
  BY <1>1, VesselsAssumption, FS_Subset
<1>. QED  BY <1>1, <1>2, FS_CardinalityType, FS_EmptySet

\* While the voyage has been over since the report began, no answer is a blocker.
BlockersInv ==
  reader.kind = "readiness" /\ ~seen.incomplete =>
    /\ Over(reader.voyage)
    /\ \A q \in DOMAIN reader.got : NoBlocker(q, reader.got[q], reader.voyage)

\* What Watch records of a step of a readiness report.
LEMMA Watched ==
  ASSUME Watch, reader'.kind = "readiness"
  PROVE  /\ seen'.incomplete <=> seen.incomplete \/ ~Over(reader.voyage)'
         /\ seen'.complete <=> seen.complete \/ Over(reader.voyage)'
         /\ seen'.newTask <=> \/ seen.newTask
                              \/ "pending" \in DOMAIN reader.got /\ HasPendingTask(reader.voyage)'
BY DEF Watch

\* A report calls a voyage incomplete only if it could not be closed at some moment of the
\* reading (VoyageReadiness.Evaluate on the queries of GetVoyageReadiness).
THEOREM BlockersAreReal == ReportSpec => []BlockersWereReal
<1>1. ReportInit => BlockersInv
  BY DEF ReportInit, NoReport, BlockersInv
<1>2. Served /\ ReaderInv /\ BlockersInv /\ [ReportNext]_allVars => BlockersInv'
  <2>. SUFFICES ASSUME Served, ReaderInv, BlockersInv, [ReportNext]_allVars
                PROVE  BlockersInv'
    OBVIOUS
  <2>1. CASE UNCHANGED allVars
    BY <2>1 DEF allVars, vars, BlockersInv, NoBlocker, VesselsOf, Over, CloseAllowed,
                HasPendingTask, HasActiveAnomaly, IsPending, IsActiveAnomaly, VoyageMayMove
  <2>2. CASE ReportNext
    <3>. SUFFICES ASSUME reader'.kind = "readiness", ~seen'.incomplete
                  PROVE  /\ Over(reader.voyage)'
                         /\ (\A q \in DOMAIN reader.got :
                               NoBlocker(q, reader.got[q], reader.voyage))'
      BY DEF BlockersInv
    <3>1. ~seen.incomplete /\ Over(reader.voyage)'
      BY <2>2, ReportCases, Watched
    <3>. DEFINE v == reader.voyage
    <3>2. CASE [LateNext]_vars /\ reader' = reader
      <4>1. v \in Voyages /\ VesselsOf(v)' = VesselsOf(v)
        BY <3>2, VesselsStay DEF ReaderInv, Served
      <4>2. \A q \in DOMAIN reader.got : NoBlocker(q, reader.got[q], v)
        BY <3>1, <3>2 DEF BlockersInv
      <4>. QED  BY <3>1, <3>2, <4>1, <4>2 DEF NoBlocker, VesselsOf
    <3>3. CASE RunQuery
      <4>. DEFINE h == Head(reader.todo)
      <4>1. /\ v \in Voyages /\ voyage[v].state # "absent" /\ reader'.voyage = v
            /\ reader.kind = "readiness" /\ UNCHANGED vars
        BY <3>3, QueryEffect DEF ReaderInv
      <4>2. Over(v) /\ \A q \in DOMAIN reader.got : NoBlocker(q, reader.got[q], v)
        BY <3>1, <4>1 DEF BlockersInv
      <4>3. NoBlocker(h, Result(h, v), v)
        BY <4>1, <4>2, NoBlockerWhenOver
      <4>4. \A q \in DOMAIN reader'.got : NoBlocker(q, reader'.got[q], v)
        BY <3>3, <4>2, <4>3, QueryEffect
      <4>5. links' = links
        BY <4>1 DEF vars
      <4>. QED  BY <3>1, <4>1, <4>4, <4>5 DEF NoBlocker, VesselsOf
    <3>4. CASE EndReport
      BY <3>4, EndEffect
    <3>5. ASSUME NEW w \in Voyages, NEW kind \in {"readiness", "detail"}, BeginReport(w, kind)
          PROVE  DOMAIN reader'.got = {}
      BY <3>5, BeginEffect
    <3>. QED  BY <2>2, <3>1, <3>2, <3>3, <3>4, <3>5, ReportCases
  <2>. QED  BY <2>1, <2>2
<1>3. Served /\ ReaderInv /\ BlockersInv => BlockersWereReal
  <2>. SUFFICES ASSUME Served, ReaderInv, BlockersInv, Answered("readiness"), ~seen.incomplete
                PROVE  Complete(reader.got)
    BY DEF BlockersWereReal
  <2>1. /\ DOMAIN reader.got = {"state", "expected", "arrived", "quarantined", "pending", "open"}
        /\ reader.voyage \in Voyages /\ voyage[reader.voyage].state # "absent"
    BY DEF Answered, ReaderInv, Stage
  <2>2. \A q \in DOMAIN reader.got : NoBlocker(q, reader.got[q], reader.voyage)
    BY DEF Answered, BlockersInv
  <2>3. /\ Cardinality(VesselsOf(reader.voyage)) \in Nat
        /\ Cardinality(VesselsOf(reader.voyage)) # 0
    BY <2>1, CrewCounted DEF Served
  <2>. QED  BY <2>1, <2>2, <2>3 DEF NoBlocker, Complete
<1>. QED  BY <1>1, <1>2, <1>3, ServedHolds, ReaderInvHolds, PTL DEF ReportSpec

\* What a report that finds the voyage back, nothing pending and nothing open leaves possible.
CompletionInv ==
  reader.kind = "readiness" =>
    /\ "state" \in DOMAIN reader.got /\ reader.got.state \in {"landed", "closed"} =>
         voyage[reader.voyage].state \in {"landed", "closed"}
    /\ "pending" \in DOMAIN reader.got /\ ~reader.got.pending /\ ~seen.newTask =>
         ~HasPendingTask(reader.voyage)
    /\ /\ "open" \in DOMAIN reader.got
       /\ reader.got.state \in {"landed", "closed"} /\ ~reader.got.pending /\ ~reader.got.open
       => seen.complete \/ seen.newTask

\* A report calls a voyage complete only if it was closed or could be at some moment of the
\* reading, or a task was opened after the tasks were counted.
THEOREM CompletionIsReal == ReportSpec => []CompletionWasReal
<1>1. ReportInit => CompletionInv
  BY DEF ReportInit, NoReport, CompletionInv
<1>2. Served /\ ReaderInv /\ CompletionInv /\ [ReportNext]_allVars => CompletionInv'
  <2>. SUFFICES ASSUME Served, ReaderInv, CompletionInv, [ReportNext]_allVars
                PROVE  CompletionInv'
    OBVIOUS
  <2>1. CASE UNCHANGED allVars
    BY <2>1 DEF allVars, vars, CompletionInv, HasPendingTask, IsPending
  <2>2. CASE ReportNext
    <3>. SUFFICES ASSUME reader'.kind = "readiness" PROVE CompletionInv'
      BY DEF CompletionInv
    <3>. DEFINE v == reader.voyage
    <3>1. /\ seen.newTask => seen'.newTask
          /\ seen.complete => seen'.complete
          /\ Over(reader.voyage)' => seen'.complete
          /\ "pending" \in DOMAIN reader.got /\ HasPendingTask(reader.voyage)' => seen'.newTask
      BY <2>2, ReportCases, Watched
    <3>2. CASE [LateNext]_vars /\ reader' = reader
      <4>1. /\ v \in Voyages /\ voyage[v].state # "absent"
            /\ voyage'[v].state \in From(voyage[v].state)
        BY <3>2, VoyageProgress DEF ReaderInv, Served
      <4>2. voyage[v].state \in {"landed", "closed"} => voyage'[v].state \in {"landed", "closed"}
        BY <4>1 DEF From
      <4>. QED  BY <3>1, <3>2, <4>2 DEF CompletionInv
    <3>3. CASE RunQuery
      <4>. DEFINE h == Head(reader.todo)
      <4>0. /\ v \in Voyages /\ voyage[v].state # "absent" /\ reader'.voyage = v
            /\ reader.kind = "readiness" /\ UNCHANGED vars
            /\ reader.todo # <<>> /\ Stage(reader.kind, reader.todo, DOMAIN reader.got)
        BY <3>3, QueryEffect DEF ReaderInv
      <4>1. "state" \in DOMAIN reader'.got /\ reader'.got.state \in {"landed", "closed"} =>
              voyage[v].state \in {"landed", "closed"}
        <5>1. CASE h = "state"
          BY <3>3, <5>1, QueryEffect DEF Result
        <5>2. CASE h # "state"
          BY <3>3, <4>0, <5>2, QueryEffect DEF CompletionInv
        <5>. QED  BY <5>1, <5>2
      <4>2. "pending" \in DOMAIN reader'.got /\ ~reader'.got.pending /\ ~seen'.newTask =>
              ~HasPendingTask(v)
        <5>1. CASE h = "pending"
          <6>1. reader'.got["pending"] = HasPendingTask(v)
            BY <3>3, <5>1, QueryEffect DEF Result
          <6>. QED  BY <6>1
        <5>2. CASE h # "pending"
          BY <3>1, <3>3, <4>0, <5>2, QueryEffect DEF CompletionInv
        <5>. QED  BY <5>1, <5>2
      <4>3. ASSUME "open" \in DOMAIN reader'.got, reader'.got.state \in {"landed", "closed"},
                   ~reader'.got.pending, ~reader'.got.open, ~seen'.newTask
            PROVE  seen'.complete
        <5>1. CASE h = "open"
          <6>1. "state" \in DOMAIN reader.got /\ "pending" \in DOMAIN reader.got
            BY <4>0, <5>1, StageStep
          <6>2. "state" \in DOMAIN reader'.got /\ "pending" \in DOMAIN reader'.got
            BY <3>3, <6>1, QueryEffect
          <6>3. voyage[v].state \in {"landed", "closed"} /\ ~HasPendingTask(v)
            BY <4>1, <4>2, <4>3, <6>2
          <6>4. ~HasActiveAnomaly(v)
            <7>1. reader'.got["open"] = (OpenAnomalies(v) # {})
              BY <3>3, <5>1, QueryEffect DEF Result
            <7>2. OpenAnomalies(v) = {}
              BY <4>3, <7>1
            <7>. QED  BY <7>2 DEF OpenAnomalies, HasActiveAnomaly
          <6>5. Over(v)
            BY <4>0, <6>3, <6>4 DEF Over, Served, ClosureNeverStuck
          <6>6. Over(reader.voyage)'
            BY <4>0, <6>5 DEF vars, VesselsOf, Over, CloseAllowed, HasPendingTask,
                              HasActiveAnomaly, IsPending, IsActiveAnomaly, VoyageMayMove
          <6>. QED  BY <3>1, <6>6
        <5>2. CASE h # "open"
          <6>1. "open" \in DOMAIN reader.got
            BY <3>3, <4>3, <5>2, QueryEffect
          <6>. QED  BY <4>0, <6>1 DEF Stage
        <5>. QED  BY <5>1, <5>2
      <4>4. HasPendingTask(v)' <=> HasPendingTask(v)
        BY <4>0 DEF vars, HasPendingTask, IsPending
      <4>. QED  BY <4>0, <4>1, <4>2, <4>3, <4>4 DEF CompletionInv, vars, HasPendingTask, IsPending
    <3>4. CASE EndReport
      BY <3>4, EndEffect
    <3>5. ASSUME NEW w \in Voyages, NEW kind \in {"readiness", "detail"}, BeginReport(w, kind)
          PROVE  CompletionInv'
      BY <3>5, BeginEffect DEF CompletionInv
    <3>. QED  BY <2>2, <3>2, <3>3, <3>4, <3>5, ReportCases
  <2>. QED  BY <2>1, <2>2
<1>3. ReaderInv /\ CompletionInv => CompletionWasReal
  <2>. SUFFICES ASSUME ReaderInv, CompletionInv, Answered("readiness"), Complete(reader.got)
                PROVE  seen.complete \/ seen.newTask
    BY DEF CompletionWasReal
  <2>1. "open" \in DOMAIN reader.got
    BY DEF Answered, ReaderInv, Stage
  <2>. QED  BY <2>1 DEF Answered, CompletionInv, Complete
<1>. QED  BY <1>1, <1>2, <1>3, ServedHolds, ReaderInvHolds, PTL DEF ReportSpec
=============================================================================
