-------------------------- MODULE VoyageOpsProofs --------------------------
(* Proofs about VoyageOps for every catalog, every clock bound and every    *)
(* number of vessels, fleets, voyages, tasks and anomalies.  They are about *)
(* the services of VoyageService, whose plans may commit late.              *)
EXTENDS VoyageService, TLAPS

-----------------------------------------------------------------------------
(* What the row updates return.                                            *)

\* AssignFleet yields well-typed rows.
LEMMA AssignFleetType ==
  ASSUME fleet \in [Fleets -> Fleet], NEW f, NEW s \in FleetStates,
         NEW v \in Voyages \cup {None}
  PROVE  AssignFleet(f, s, v) \in [Fleets -> Fleet]
BY DEF AssignFleet, Fleet

\* It rewrites one row and leaves the others alone.
LEMMA AssignFleetFacts ==
  ASSUME fleet \in [Fleets -> Fleet], NEW f \in Fleets, NEW s, NEW v
  PROVE  /\ AssignFleet(f, s, v)[f].state = s
         /\ AssignFleet(f, s, v)[f].voyage = v
         /\ \A g \in Fleets \ {f} : AssignFleet(f, s, v)[g] = fleet[g]
BY DEF AssignFleet, Fleet

\* MoveVoyage changes the state of one voyage and nothing else.
LEMMA MoveVoyageFacts ==
  ASSUME voyage \in [Voyages -> Voyage], NEW v \in Voyages, NEW s \in VoyageStates
  PROVE  /\ MoveVoyage(v, s) \in [Voyages -> Voyage]
         /\ MoveVoyage(v, s)[v].state = s
         /\ \A w \in Voyages : /\ w # v => MoveVoyage(v, s)[w].state = voyage[w].state
                               /\ MoveVoyage(v, s)[w].fleet = voyage[w].fleet
                               /\ MoveVoyage(v, s)[w].start = voyage[w].start
                               /\ MoveVoyage(v, s)[w].finish = voyage[w].finish
                               /\ MoveVoyage(v, s)[w].created = voyage[w].created
                               /\ MoveVoyage(v, s)[w].key = voyage[w].key
BY DEF MoveVoyage, Voyage

\* MoveVessels changes the state of the chosen vessels and nothing else.
LEMMA MoveVesselsFacts ==
  ASSUME vessel \in [Vessels -> Vessel], NEW B, NEW s \in VesselStates
  PROVE  /\ MoveVessels(B, s) \in [Vessels -> Vessel]
         /\ \A b \in Vessels : /\ MoveVessels(B, s)[b].voyage = vessel[b].voyage
                               /\ MoveVessels(B, s)[b].note = vessel[b].note
                               /\ b \in B => MoveVessels(B, s)[b].state = s
                               /\ b \notin B => MoveVessels(B, s)[b].state = vessel[b].state
BY DEF MoveVessels, Vessel

\* BookVessels changes the state and the voyage of the chosen vessels.
LEMMA BookVesselsFacts ==
  ASSUME vessel \in [Vessels -> Vessel], NEW B, NEW s \in VesselStates,
         NEW v \in Voyages \cup {None}
  PROVE  /\ BookVessels(B, s, v) \in [Vessels -> Vessel]
         /\ \A b \in Vessels : /\ BookVessels(B, s, v)[b].note = vessel[b].note
                               /\ b \in B => /\ BookVessels(B, s, v)[b].state = s
                                             /\ BookVessels(B, s, v)[b].voyage = v
                               /\ b \notin B => BookVessels(B, s, v)[b] = vessel[b]
BY DEF BookVessels, Vessel

\* No update of a vessel's state touches its certificate.
LEMMA CertificatesKept ==
  ASSUME vessel \in [Vessels -> Vessel], NEW B, NEW s, NEW x, NEW b \in Vessels
  PROVE  /\ MoveVessels(B, s)[b].expires = vessel[b].expires
         /\ BookVessels(B, s, x)[b].expires = vessel[b].expires
         /\ MarkVessels(B, s, x)[b].expires = vessel[b].expires
BY DEF MoveVessels, BookVessels, MarkVessels, Vessel

\* MarkVessels changes the state and the quarantine note of the chosen vessels.
LEMMA MarkVesselsFacts ==
  ASSUME vessel \in [Vessels -> Vessel], NEW B, NEW s \in VesselStates,
         NEW n \in Anomalies \cup {None}
  PROVE  /\ MarkVessels(B, s, n) \in [Vessels -> Vessel]
         /\ \A b \in Vessels : /\ MarkVessels(B, s, n)[b].voyage = vessel[b].voyage
                               /\ b \in B => /\ MarkVessels(B, s, n)[b].state = s
                                             /\ MarkVessels(B, s, n)[b].note = n
                               /\ b \notin B => MarkVessels(B, s, n)[b] = vessel[b]
BY DEF MarkVessels, Vessel

-----------------------------------------------------------------------------
(* Type correctness, one lemma per service.                                *)

\* The catalog operations (service/catalog.go) keep the rows well typed.
LEMMA CatalogType ==
  ASSUME TypeOK, NEW p \in Users,
         \/ \E m \in Permits : CreateFishingPermit(p, m) \/ ActivateFishingPermit(p, m)
         \/ \E b \in Vessels : \/ \E expires \in CertTimes : RegisterFishingVessel(p, b, expires)
                               \/ VerifyFishingVessel(p, b)
  PROVE  TypeOK'
<1>0. /\ permit \in [Permits -> {"absent", "draft", "active"}]
      /\ vessel \in [Vessels -> Vessel]
  BY DEF TypeOK
<1>1. ASSUME NEW m \in Permits, CreateFishingPermit(p, m) \/ ActivateFishingPermit(p, m)
      PROVE  TypeOK'
  <2>1. permit' \in [Permits -> {"absent", "draft", "active"}]
    BY <1>0, <1>1 DEF CreateFishingPermit, ActivateFishingPermit
  <2>. QED  BY <1>1, <2>1 DEF TypeOK, CreateFishingPermit, ActivateFishingPermit
<1>2. ASSUME NEW b \in Vessels, NEW expires \in CertTimes, RegisterFishingVessel(p, b, expires)
      PROVE  TypeOK'
  <2>1. [state |-> "berthed", expires |-> expires, voyage |-> None, note |-> None] \in Vessel
    BY ParameterAssumption DEF Vessel, VesselStates, Time
  <2>2. vessel' \in [Vessels -> Vessel]
    BY <1>0, <1>2, <2>1 DEF RegisterFishingVessel
  <2>. QED  BY <1>2, <2>2 DEF TypeOK, RegisterFishingVessel
<1>3. ASSUME NEW b \in Vessels, VerifyFishingVessel(p, b)
      PROVE  TypeOK'
  <2>1. "sea_ready" \in VesselStates
    BY DEF VesselStates
  <2>2. vessel' = [vessel EXCEPT ![b].state = "sea_ready"]
    BY <1>3 DEF VerifyFishingVessel
  <2>3. vessel' \in [Vessels -> Vessel]
    BY <1>0, <2>1, <2>2 DEF Vessel
  <2>. QED  BY <1>3, <2>3 DEF TypeOK, VerifyFishingVessel
<1>. QED  BY <1>1, <1>2, <1>3

\* So do the fleet operations (service/catalog.go, service/support_fleet.go).
LEMMA FleetType ==
  ASSUME TypeOK, NEW p \in Users, NEW f \in Fleets,
         \/ \E due, inspected \in CertTimes : CreateSupportFleet(p, f, due, inspected)
         \/ StartMaintenance(p, f)
         \/ CompleteMaintenance(p, f)
         \/ RetireFleet(p, f)
  PROVE  TypeOK'
<1>0. /\ fleet \in [Fleets -> Fleet]
      /\ now \in Time
  BY DEF TypeOK
<1>s. {"standby", "maintenance", "retired"} \subseteq FleetStates
  BY DEF FleetStates
<1>1. ASSUME NEW due \in CertTimes, NEW inspected \in CertTimes,
             CreateSupportFleet(p, f, due, inspected)
      PROVE  TypeOK'
  <2>1. [state |-> "standby", due |-> due, inspected |-> inspected, voyage |-> None] \in Fleet
    BY ParameterAssumption, <1>s DEF Fleet, Time
  <2>2. fleet' \in [Fleets -> Fleet]
    BY <1>0, <1>1, <2>1 DEF CreateSupportFleet
  <2>. QED  BY <1>1, <2>2 DEF TypeOK, CreateSupportFleet
<1>2. ASSUME StartMaintenance(p, f)
      PROVE  TypeOK'
  <2>1. fleet' = [fleet EXCEPT ![f].state = "maintenance"]
    BY <1>2 DEF StartMaintenance
  <2>2. fleet' \in [Fleets -> Fleet]
    BY <1>0, <1>s, <2>1 DEF Fleet
  <2>. QED  BY <1>2, <2>2 DEF TypeOK, StartMaintenance
<1>3. ASSUME CompleteMaintenance(p, f)
      PROVE  TypeOK'
  <2>1. fleet' = [fleet EXCEPT ![f].state = "standby", ![f].inspected = now]
    BY <1>3 DEF CompleteMaintenance
  <2>2. fleet' \in [Fleets -> Fleet]
    BY <1>0, <1>s, <2>1 DEF Fleet
  <2>. QED  BY <1>3, <2>2 DEF TypeOK, CompleteMaintenance
<1>4. ASSUME RetireFleet(p, f)
      PROVE  TypeOK'
  <2>1. fleet' = AssignFleet(f, "retired", None)
    BY <1>4 DEF RetireFleet
  <2>2. fleet' \in [Fleets -> Fleet]
    BY <1>0, <1>s, <2>1, AssignFleetType
  <2>. QED  BY <1>4, <2>2 DEF TypeOK, RetireFleet
<1>. QED  BY <1>1, <1>2, <1>3, <1>4

\* What a plan request of PlanNext looks like.
LEMMA RequestType ==
  ASSUME NEW v \in Voyages, NEW m \in Permits, NEW from \in Ports, NEW to \in Ports,
         NEW f \in Fleets, NEW B \in SUBSET Vessels, NEW start \in StartTimes,
         NEW finish \in start + 1 .. start + MaxVoyageDuration
  PROVE  [code |-> v, permit |-> m, from |-> from, to |-> to, fleet |-> f, vessels |-> B,
          start |-> start, finish |-> finish] \in Request
<1>1. start \in Nat /\ finish \in Nat
  BY ParameterAssumption
<1>. QED  BY <1>1 DEF Request, Time

\* A plan, at once or late.
Plans(p) == PlanNext(p) \/ LatePlan(p)

\* What the plan of q under k finds and writes when it judges by the time t.
PlanEffect(k, q, t) ==
  /\ voyage[q.code].state = "absent"
  /\ fleet[q.fleet].state = "standby"
  /\ q.vessels # {} /\ q.finish > q.start
  /\ \A b \in q.vessels : /\ LinkFree(b)
                          /\ vessel[b].state = "sea_ready"
                          /\ vessel[b].expires > q.finish
  /\ idem[k] = None \/ idem[k].expires <= t
  /\ voyage' = [voyage EXCEPT ![q.code] =
                  [state |-> "planned", from |-> q.from, fleet |-> q.fleet,
                   start |-> q.start, finish |-> q.finish, created |-> t, key |-> k]]
  /\ vessel' = BookVessels(q.vessels, "assigned", q.code)
  /\ links' = links \cup ({q.code} \X q.vessels)
  /\ fleet' = AssignFleet(q.fleet, "assigned", q.code)
  /\ idem' = [idem EXCEPT ![k] = [hash |-> q, expires |-> t + IdemTTL]]
  /\ outbox' = outbox \cup {[kind |-> "fishing_voyage_planned", voyage |-> q.code]}
  /\ UNCHANGED <<permit, task, declared, anomaly, dispositions, now>>

\* The record a plan finds under its key is not live, so it is overwritten.
LEMMA RecordOverwritten ==
  ASSUME TypeOK, NEW k \in Keys, NEW t \in Nat, ~(idem[k] # None /\ idem[k].expires > t)
  PROVE  idem[k] = None \/ idem[k].expires <= t
<1>1. idem[k] \in Record \cup {None}
  BY DEF TypeOK
<1>2. idem[k] \in Record => idem[k].expires \in Nat
  BY DEF Record, Time
<1>. QED  BY <1>1, <1>2

\* A plan that commits at once judges by the clock.
LEMMA PlanAtOnce ==
  ASSUME TypeOK, NEW p \in Users, NEW k \in Keys, NEW q \in Request, PlanFishingVoyage(p, k, q)
  PROVE  now \in Nat /\ now <= now /\ PlanEffect(k, q, now)
<1>1. now \in Nat
  BY DEF TypeOK, Time
<1>2. idem[k] = None \/ idem[k].expires <= now
  BY <1>1, RecordOverwritten DEF PlanFishingVoyage, IsLive
<1>. QED
  BY <1>1, <1>2 DEF PlanEffect, PlanFishingVoyage, PlanAccepted, PlanInsertable, EligibleFor,
                    WindowValid, VesselMayMove, VesselMoves, PutIdempotency

\* A late one judges by a time that has passed.
LEMMA PlanLate ==
  ASSUME TypeOK, NEW p \in Users, NEW k \in Keys, NEW q \in Request,
         NEW lag \in 1 .. Lag, lag <= now, Late(lag)!PlanFishingVoyage(p, k, q), UNCHANGED now
  PROVE  \E t \in Nat : t <= now /\ PlanEffect(k, q, t)
<1>. DEFINE t == now - lag
<1>1. t \in Nat /\ t <= now
  BY LagAssumption DEF TypeOK, Time
<1>2. idem[k] = None \/ idem[k].expires <= t
  BY <1>1, RecordOverwritten DEF Late!PlanFishingVoyage, Late!IsLive
<1>3. PlanEffect(k, q, t)
  BY <1>1, <1>2
     DEF PlanEffect, Late!PlanFishingVoyage, Late!PlanAccepted, Late!PlanInsertable,
         Late!EligibleFor, Late!WindowValid, Late!VesselMayMove, Late!VesselMoves,
         Late!PutIdempotency, Late!LinkFree, LinkFree, Late!BookVessels, BookVessels,
         Late!AssignFleet, AssignFleet
<1>. QED  BY <1>1, <1>3

\* A call of PlanFishingVoyage replays a stored response or plans a well-typed request.
LEMMA PlanCases ==
  ASSUME TypeOK, NEW p \in Users, Plans(p)
  PROVE  UNCHANGED vars \/ \E k \in Keys, q \in Request, t \in Nat : t <= now /\ PlanEffect(k, q, t)
<1>1. CASE PlanNext(p)
  <2>1. UNCHANGED vars \/ \E k \in Keys, q \in Request : PlanFishingVoyage(p, k, q)
    BY <1>1, RequestType DEF PlanNext, ReplayPlan
  <2>. QED  BY <2>1, PlanAtOnce
<1>2. CASE LatePlan(p)
  <2>1. PICK lag \in 1 .. Lag : lag <= now /\ UNCHANGED now /\ Late(lag)!PlanNext(p)
    BY <1>2 DEF LatePlan
  <2>2. PICK k \in Keys : \/ Late(lag)!ReplayPlan(p, k)
                         \/ \E q \in Request : Late(lag)!PlanFishingVoyage(p, k, q)
    BY <2>1, RequestType DEF Late!PlanNext
  <2>3. CASE Late(lag)!ReplayPlan(p, k)
    BY <2>1, <2>3 DEF Late!ReplayPlan, Late!vars, vars
  <2>. QED  BY <2>1, <2>2, <2>3, PlanLate
<1>. QED  BY <1>1, <1>2 DEF Plans

\* Planning (service/fishing_voyage.go, PlanFishingVoyage) keeps the rows well typed.
LEMMA PlanType ==
  ASSUME TypeOK, NEW k \in Keys, NEW q \in Request, NEW t \in Nat,
         PlanEffect(k, q, t)
  PROVE  TypeOK'
<1>0. /\ vessel \in [Vessels -> Vessel]
      /\ fleet \in [Fleets -> Fleet]
      /\ voyage \in [Voyages -> Voyage]
      /\ links \subseteq Voyages \X Vessels
      /\ idem \in [Keys -> Record \cup {None}]
      /\ outbox \subseteq Job
      /\ now \in Nat
  BY DEF TypeOK, Time
<1>q. /\ q.code \in Voyages /\ q.fleet \in Fleets /\ q.from \in Ports
      /\ q.vessels \subseteq Vessels /\ q.start \in Time /\ q.finish \in Time
  BY DEF Request
<1>1. voyage' \in [Voyages -> Voyage]
  <2>1. [state |-> "planned", from |-> q.from, fleet |-> q.fleet,
         start |-> q.start, finish |-> q.finish, created |-> t, key |-> k] \in Voyage
    BY <1>0, <1>q DEF Voyage, VoyageStates, Time
  <2>2. voyage' = [voyage EXCEPT ![q.code] =
                     [state |-> "planned", from |-> q.from, fleet |-> q.fleet,
                      start |-> q.start, finish |-> q.finish, created |-> t, key |-> k]]
    BY DEF PlanEffect
  <2>. QED  BY <1>0, <1>q, <2>1, <2>2
<1>2. vessel' \in [Vessels -> Vessel]
  <2>1. "assigned" \in VesselStates
    BY DEF VesselStates
  <2>2. vessel' = BookVessels(q.vessels, "assigned", q.code)
    BY DEF PlanEffect
  <2>. QED  BY <1>0, <1>q, <2>1, <2>2, BookVesselsFacts
<1>3. fleet' \in [Fleets -> Fleet]
  <2>1. "assigned" \in FleetStates
    BY DEF FleetStates
  <2>2. fleet' = AssignFleet(q.fleet, "assigned", q.code)
    BY DEF PlanEffect
  <2>. QED  BY <1>0, <1>q, <2>1, <2>2, AssignFleetType
<1>4. links' \subseteq Voyages \X Vessels
  BY <1>0, <1>q DEF PlanEffect
<1>5. idem' \in [Keys -> Record \cup {None}]
  <2>1. [hash |-> q, expires |-> t + IdemTTL] \in Record
    BY ParameterAssumption DEF Record, Time
  <2>. QED  BY <1>0, <2>1 DEF PlanEffect
<1>6. outbox' \subseteq Job
  <2>1. [kind |-> "fishing_voyage_planned", voyage |-> q.code] \in Job
    BY <1>q DEF Job
  <2>2. outbox' = outbox \cup {[kind |-> "fishing_voyage_planned", voyage |-> q.code]}
    BY DEF PlanEffect
  <2>. QED  BY <1>0, <2>1, <2>2
<1>7. UNCHANGED <<permit, task, declared, anomaly, dispositions, now>>
  BY DEF PlanEffect
<1>. QED  BY <1>1, <1>2, <1>3, <1>4, <1>5, <1>6, <1>7 DEF TypeOK

\* The voyage transitions (transitionAny and CancelFishingVoyage) keep them well typed.
LEMMA VoyageType ==
  ASSUME TypeOK, NEW p \in Users, NEW v \in Voyages,
         \/ ClearFishingVoyage(p, v)
         \/ DepartureFishingVoyage(p, v)
         \/ ConfirmFishingVoyageLanding(p, v)
         \/ CloseFishingVoyage(p, v)
         \/ CancelFishingVoyage(p, v)
  PROVE  TypeOK'
<1>0. /\ vessel \in [Vessels -> Vessel]
      /\ fleet \in [Fleets -> Fleet]
      /\ voyage \in [Voyages -> Voyage]
  BY DEF TypeOK
<1>s. /\ {"cleared", "at_sea", "landed", "closed", "cancelled"} \subseteq VoyageStates
      /\ {"at_sea", "landed", "sea_ready"} \subseteq VesselStates
      /\ {"deployed", "standby"} \subseteq FleetStates
  BY DEF VoyageStates, VesselStates, FleetStates
<1>1. CASE ClearFishingVoyage(p, v)
  <2>1. voyage' \in [Voyages -> Voyage]
    BY <1>0, <1>1, <1>s, MoveVoyageFacts DEF ClearFishingVoyage
  <2>. QED  BY <1>1, <2>1 DEF TypeOK, ClearFishingVoyage
<1>2. CASE DepartureFishingVoyage(p, v)
  <2>1. voyage' \in [Voyages -> Voyage]
    BY <1>0, <1>2, <1>s, MoveVoyageFacts DEF DepartureFishingVoyage
  <2>2. vessel' \in [Vessels -> Vessel]
    BY <1>0, <1>2, <1>s, MoveVesselsFacts DEF DepartureFishingVoyage
  <2>3. fleet' = [fleet EXCEPT ![voyage[v].fleet].state = "deployed"]
    BY <1>2 DEF DepartureFishingVoyage
  <2>4. fleet' \in [Fleets -> Fleet]
    BY <1>0, <1>s, <2>3 DEF Fleet
  <2>. QED  BY <1>2, <2>1, <2>2, <2>4 DEF TypeOK, DepartureFishingVoyage
<1>3. CASE ConfirmFishingVoyageLanding(p, v)
  <2>1. voyage' \in [Voyages -> Voyage]
    BY <1>0, <1>3, <1>s, MoveVoyageFacts DEF ConfirmFishingVoyageLanding
  <2>2. vessel' \in [Vessels -> Vessel]
    BY <1>0, <1>3, <1>s, MoveVesselsFacts DEF ConfirmFishingVoyageLanding
  <2>. QED  BY <1>3, <2>1, <2>2 DEF TypeOK, ConfirmFishingVoyageLanding
<1>4. CASE CloseFishingVoyage(p, v)
  <2>1. voyage' \in [Voyages -> Voyage]
    BY <1>0, <1>4, <1>s, MoveVoyageFacts DEF CloseFishingVoyage
  <2>2. fleet' \in [Fleets -> Fleet]
    BY <1>0, <1>4, <1>s, AssignFleetType DEF CloseFishingVoyage
  <2>. QED  BY <1>4, <2>1, <2>2 DEF TypeOK, CloseFishingVoyage
<1>5. CASE CancelFishingVoyage(p, v)
  <2>1. voyage' \in [Voyages -> Voyage]
    BY <1>0, <1>5, <1>s, MoveVoyageFacts DEF CancelFishingVoyage
  <2>2. fleet' \in [Fleets -> Fleet]
    BY <1>0, <1>5, <1>s, AssignFleetType DEF CancelFishingVoyage
  <2>3. vessel' \in [Vessels -> Vessel]
    BY <1>0, <1>5, <1>s, BookVesselsFacts DEF CancelFishingVoyage
  <2>. QED  BY <1>5, <2>1, <2>2, <2>3 DEF TypeOK, CancelFishingVoyage
<1>. QED  BY <1>1, <1>2, <1>3, <1>4, <1>5

\* Declarations and reviews (service/catch_declaration.go, service/anomaly_review.go) keep
\* them well typed.
LEMMA ReviewType ==
  ASSUME TypeOK, NEW p \in Users, ReviewNext(p)
  PROVE  TypeOK'
<1>0. /\ vessel \in [Vessels -> Vessel]
      /\ anomaly \in [Anomalies -> Anomaly]
      /\ declared \subseteq Voyages \X Seqs
      /\ dispositions \subseteq [anomaly : Anomalies, decision : {"cleared", "rejected"}]
      /\ outbox \subseteq Job
  BY DEF TypeOK
<1>s. /\ {"open", "reviewing", "cleared", "rejected"} \subseteq AnomalyStatuses
      /\ {"quarantined", "reinspected", "retired"} \subseteq VesselStates
  BY DEF AnomalyStatuses, VesselStates
<1>1. ASSUME NEW v \in Voyages, NEW s \in Seqs, DeclareInRange(p, v, s)
      PROVE  TypeOK'
  <2>1. declared' \subseteq Voyages \X Seqs
    BY <1>0, <1>1 DEF DeclareInRange
  <2>. QED  BY <1>1, <2>1 DEF TypeOK, DeclareInRange
<1>2. ASSUME NEW v \in Voyages, NEW s \in Seqs, NEW a \in Anomalies,
             DeclareOutOfRange(p, v, s, a)
      PROVE  TypeOK'
  <2>1. declared' \subseteq Voyages \X Seqs
    BY <1>0, <1>2 DEF DeclareOutOfRange
  <2>2. vessel' \in [Vessels -> Vessel]
    <3>1. vessel' = MarkVessels(Quarantinable(v), "quarantined", a)
      BY <1>2 DEF DeclareOutOfRange
    <3>. QED  BY <1>0, <1>s, <3>1, MarkVesselsFacts
  <2>3. anomaly' \in [Anomalies -> Anomaly]
    <3>1. anomaly[a] \in Anomaly
      BY <1>0
    <3>2. [status |-> IF anomaly[a].status = "absent" THEN "open" ELSE anomaly[a].status,
           voyage |-> v, readings |-> anomaly[a].readings \cup {s}] \in Anomaly
      BY <3>1, <1>s DEF Anomaly
    <3>3. anomaly' = [anomaly EXCEPT ![a] =
            [status |-> IF anomaly[a].status = "absent" THEN "open" ELSE anomaly[a].status,
             voyage |-> v, readings |-> anomaly[a].readings \cup {s}]]
      BY <1>2 DEF DeclareOutOfRange
    <3>. QED  BY <1>0, <3>2, <3>3
  <2>4. outbox' \subseteq Job
    <3>1. [kind |-> "catch_anomaly_review", anomaly |-> a, cause |-> s] \in Job
      BY DEF Job
    <3>. QED  BY <1>0, <1>2, <3>1 DEF DeclareOutOfRange, EnqueueReview
  <2>. QED  BY <1>2, <2>1, <2>2, <2>3, <2>4 DEF TypeOK, DeclareOutOfRange
<1>3. ASSUME NEW a \in Anomalies, StartReview(p, a)
      PROVE  TypeOK'
  <2>1. anomaly' = [anomaly EXCEPT ![a].status = "reviewing"]
    BY <1>3 DEF StartReview
  <2>2. anomaly' \in [Anomalies -> Anomaly]
    BY <1>0, <1>s, <2>1 DEF Anomaly
  <2>. QED  BY <1>3, <2>2 DEF TypeOK, StartReview
<1>4. ASSUME NEW a \in Anomalies, NEW d \in {"cleared", "rejected"}, Decide(p, a, d)
      PROVE  TypeOK'
  <2>1. anomaly' = [anomaly EXCEPT ![a].status = d]
    BY <1>4 DEF Decide
  <2>2. anomaly' \in [Anomalies -> Anomaly]
    BY <1>0, <1>s, <2>1 DEF Anomaly
  <2>3. Outcome(d) \in VesselStates
    BY <1>s DEF Outcome
  <2>4. vessel' \in [Vessels -> Vessel]
    <3>. DEFINE B == {b \in VesselsOf(anomaly[a].voyage) : QuarantinedFor(b, a)}
    <3>1. vessel' = MarkVessels(B, Outcome(d), None)
      BY <1>4 DEF Decide
    <3>. HIDE DEF B
    <3>. QED  BY <1>0, <2>3, <3>1, MarkVesselsFacts
  <2>5. dispositions' \subseteq [anomaly : Anomalies, decision : {"cleared", "rejected"}]
    BY <1>0, <1>4 DEF Decide
  <2>. QED  BY <1>4, <2>2, <2>4, <2>5 DEF TypeOK, Decide
<1>. QED  BY <1>1, <1>2, <1>3, <1>4 DEF ReviewNext

\* Landing tasks and the worker's expiry (service/catch_landing.go,
\* storage/sqlite/jobs.go) keep them well typed.
LEMMA HandoffType ==
  ASSUME TypeOK, (\E p \in Users : HandoffNext(p)) \/ WorkerPass
  PROVE  TypeOK'
<1>0. task \in [Tasks -> Task] /\ now \in Nat
  BY DEF TypeOK, Time
<1>s. {"pending", "approved", "denied", "expired"} \subseteq TaskStatuses
  BY DEF TaskStatuses
<1>1. ASSUME NEW p \in Users, NEW t \in Tasks, NEW v \in Voyages, NEW c \in Users,
             NEW o \in Users, CreateCatchLandingTask(p, t, v, c, o)
      PROVE  TypeOK'
  <2>1. [status |-> "pending", voyage |-> v, coordinator |-> c, officer |-> o,
         expires |-> now + TaskTTL, resolved |-> 0] \in Task
    BY <1>0, <1>s, ParameterAssumption DEF Task, Time
  <2>2. task' \in [Tasks -> Task]
    BY <1>0, <1>1, <2>1 DEF CreateCatchLandingTask
  <2>. QED  BY <1>1, <2>2 DEF TypeOK, CreateCatchLandingTask
<1>2. ASSUME NEW p \in Users, NEW t \in Tasks, NEW s \in {"approved", "denied"},
             ResolveCatchLandingTask(p, t, s)
      PROVE  TypeOK'
  <2>1. task' = [task EXCEPT ![t].status = s, ![t].resolved = now]
    BY <1>2 DEF ResolveCatchLandingTask
  <2>2. task' \in [Tasks -> Task]
    BY <1>0, <1>s, <2>1 DEF Task, Time
  <2>. QED  BY <1>2, <2>2 DEF TypeOK, ResolveCatchLandingTask
<1>3. ASSUME NEW S \in SUBSET Tasks, ExpireTasks(S)
      PROVE  TypeOK'
  <2>1. task' = [t \in Tasks |-> IF t \in S
                   THEN [task[t] EXCEPT !.status = "expired", !.resolved = now]
                   ELSE task[t]]
    BY <1>3 DEF ExpireTasks
  <2>2. task' \in [Tasks -> Task]
    BY <1>0, <1>s, <2>1 DEF Task, Time
  <2>. QED  BY <1>3, <2>2 DEF TypeOK, ExpireTasks
<1>. QED  BY <1>1, <1>2, <1>3 DEF HandoffNext, WorkerPass

\* Every table and the clock keep their types in every reachable state.
THEOREM TypeCorrect == LateSpec => []TypeOK
<1>1. Init => TypeOK
  <2>. SUFFICES ASSUME Init PROVE TypeOK
    OBVIOUS
  <2>1. vessel \in [Vessels -> Vessel]
    BY DEF Init, NoVessel, Vessel, VesselStates, Time
  <2>2. fleet \in [Fleets -> Fleet]
    BY DEF Init, NoFleet, Fleet, FleetStates, Time
  <2>3. voyage \in [Voyages -> Voyage]
    BY DEF Init, NoVoyage, Voyage, VoyageStates, Time
  <2>4. task \in [Tasks -> Task]
    BY DEF Init, NoTask, Task, TaskStatuses, Time
  <2>5. anomaly \in [Anomalies -> Anomaly]
    BY DEF Init, NoAnomaly, Anomaly, AnomalyStatuses
  <2>. QED  BY <2>1, <2>2, <2>3, <2>4, <2>5 DEF Init, TypeOK, Time
<1>2. TypeOK /\ [LateNext]_vars => TypeOK'
  <2>. SUFFICES ASSUME TypeOK, [LateNext]_vars PROVE TypeOK'
    OBVIOUS
  <2>1. ASSUME NEW p \in Users, CatalogNext(p) PROVE TypeOK'
    BY <2>1, CatalogType, FleetType DEF CatalogNext
  <2>2. ASSUME NEW p \in Users, Plans(p) PROVE TypeOK'
    <3>1. CASE UNCHANGED vars
      BY <3>1 DEF TypeOK, vars
    <3>. QED  BY <2>2, <3>1, PlanCases, PlanType
  <2>3. ASSUME NEW p \in Users, VoyageNext(p) PROVE TypeOK'
    BY <2>3, VoyageType DEF VoyageNext
  <2>4. CASE Tick
    BY <2>4 DEF TypeOK, Tick, Time
  <2>5. CASE UNCHANGED vars
    BY <2>5 DEF TypeOK, vars
  <2>. QED  BY <2>1, <2>2, <2>3, <2>4, <2>5, ReviewType, HandoffType DEF LateNext, Plans
<1>. QED  BY <1>1, <1>2, PTL DEF LateSpec

-----------------------------------------------------------------------------
(* Fleet reservations.                                                     *)

\* A fleet that is neither assigned nor deployed is held by no voyage.
LEMMA FreeFleet ==
  ASSUME FleetReservation, NEW f \in Fleets, fleet[f].state \notin {"assigned", "deployed"}
  PROVE  fleet[f].voyage \notin Voyages
BY DEF FleetReservation, ActiveStates

\* An active voyage names the fleet it holds.
LEMMA HeldFleet ==
  ASSUME FleetReservation, NEW v \in Voyages, voyage[v].state \in ActiveStates
  PROVE  voyage[v].fleet \in Fleets /\ fleet[voyage[v].fleet].voyage = v
BY DEF FleetReservation

\* A step that changes one free fleet, and leaves it free, keeps the reservations.
LEMMA FreeFleetStep ==
  ASSUME FleetReservation, NEW f \in Fleets,
         fleet[f].state \notin {"assigned", "deployed"},
         fleet'[f].state \notin {"assigned", "deployed"},
         fleet'[f].voyage \notin Voyages,
         \A g \in Fleets \ {f} : fleet'[g] = fleet[g],
         voyage' = voyage
  PROVE  FleetReservation'
<1>1. fleet[f].voyage \notin Voyages
  BY FreeFleet
<1>. QED  BY <1>1 DEF FleetReservation, ActiveStates

\* So does a step that moves one active voyage and its fleet together.
LEMMA HeldFleetStep ==
  ASSUME FleetReservation, NEW v \in Voyages, NEW f \in Fleets,
         voyage[v].state \in ActiveStates, f = voyage[v].fleet,
         \A w \in Voyages : voyage'[w].fleet = voyage[w].fleet,
         \A w \in Voyages \ {v} : voyage'[w].state = voyage[w].state,
         \A g \in Fleets \ {f} : fleet'[g] = fleet[g],
         \/ /\ voyage'[v].state \in {"planned", "cleared"}
            /\ fleet'[f].state = "assigned" /\ fleet'[f].voyage = v
         \/ /\ voyage'[v].state \in {"at_sea", "landed"}
            /\ fleet'[f].state = "deployed" /\ fleet'[f].voyage = v
         \/ /\ voyage'[v].state \notin ActiveStates
            /\ fleet'[f].state \notin {"assigned", "deployed"} /\ fleet'[f].voyage \notin Voyages
  PROVE  FleetReservation'
<1>0. fleet[f].voyage = v
  BY HeldFleet
<1>1. ASSUME NEW w \in Voyages, voyage'[w].state \in ActiveStates
      PROVE  \E g \in Fleets : fleet'[g].voyage = w
  BY <1>0, <1>1 DEF FleetReservation, ActiveStates
<1>2. ASSUME NEW g \in Fleets \ {f}, NEW w \in Voyages
      PROVE  fleet'[g].voyage = w <=> voyage'[w].fleet = g /\ voyage'[w].state \in ActiveStates
  BY DEF FleetReservation
<1>3. ASSUME NEW w \in Voyages
      PROVE  fleet'[f].voyage = w <=> voyage'[w].fleet = f /\ voyage'[w].state \in ActiveStates
  BY <1>0 DEF FleetReservation, ActiveStates
<1>4. ASSUME NEW g \in Fleets \ {f}
      PROVE  /\ fleet'[g].state = "assigned" <=> \E w \in Voyages :
                  fleet'[g].voyage = w /\ voyage'[w].state \in {"planned", "cleared"}
             /\ fleet'[g].state = "deployed" <=> \E w \in Voyages :
                  fleet'[g].voyage = w /\ voyage'[w].state \in {"at_sea", "landed"}
  BY <1>0 DEF FleetReservation
<1>5. /\ fleet'[f].state = "assigned" <=> \E w \in Voyages :
           fleet'[f].voyage = w /\ voyage'[w].state \in {"planned", "cleared"}
      /\ fleet'[f].state = "deployed" <=> \E w \in Voyages :
           fleet'[f].voyage = w /\ voyage'[w].state \in {"at_sea", "landed"}
  BY DEF ActiveStates
<1>. QED  BY <1>1, <1>2, <1>3, <1>4, <1>5 DEF FleetReservation

\* The fleet service and the registration of a fleet only touch free fleets.
LEMMA FleetServiceReservation ==
  ASSUME TypeOK, FleetReservation, NEW p \in Users, NEW f \in Fleets,
         \/ \E due, inspected \in CertTimes : CreateSupportFleet(p, f, due, inspected)
         \/ StartMaintenance(p, f)
         \/ CompleteMaintenance(p, f)
         \/ RetireFleet(p, f)
  PROVE  FleetReservation'
<1>0. fleet \in [Fleets -> Fleet]
  BY DEF TypeOK
<1>1. ASSUME NEW due \in CertTimes, NEW inspected \in CertTimes,
             CreateSupportFleet(p, f, due, inspected)
      PROVE  FleetReservation'
  <2>1. /\ fleet[f].state = "absent" /\ voyage' = voyage
        /\ fleet'[f].state = "standby" /\ fleet'[f].voyage = None
        /\ \A g \in Fleets \ {f} : fleet'[g] = fleet[g]
    BY <1>0, <1>1 DEF CreateSupportFleet
  <2>. QED  BY <2>1, FreeFleetStep, NoneAssumption
<1>2. CASE StartMaintenance(p, f)
  <2>1. /\ fleet[f].state = "standby" /\ voyage' = voyage
        /\ fleet' = [fleet EXCEPT ![f].state = "maintenance"]
    BY <1>2 DEF StartMaintenance
  <2>2. /\ fleet'[f].state = "maintenance" /\ fleet'[f].voyage = fleet[f].voyage
        /\ \A g \in Fleets \ {f} : fleet'[g] = fleet[g]
    BY <1>0, <2>1 DEF Fleet
  <2>3. fleet[f].voyage \notin Voyages
    BY <2>1, FreeFleet
  <2>. QED  BY <2>1, <2>2, <2>3, FreeFleetStep
<1>3. CASE CompleteMaintenance(p, f)
  <2>1. /\ fleet[f].state = "maintenance" /\ voyage' = voyage
        /\ fleet' = [fleet EXCEPT ![f].state = "standby", ![f].inspected = now]
    BY <1>3 DEF CompleteMaintenance
  <2>2. /\ fleet'[f].state = "standby" /\ fleet'[f].voyage = fleet[f].voyage
        /\ \A g \in Fleets \ {f} : fleet'[g] = fleet[g]
    BY <1>0, <2>1 DEF Fleet
  <2>3. fleet[f].voyage \notin Voyages
    BY <2>1, FreeFleet
  <2>. QED  BY <2>1, <2>2, <2>3, FreeFleetStep
<1>4. CASE RetireFleet(p, f)
  <2>1. /\ fleet[f].state \in {"standby", "maintenance"} /\ voyage' = voyage
        /\ fleet' = AssignFleet(f, "retired", None)
    BY <1>4 DEF RetireFleet
  <2>2. /\ fleet'[f].state = "retired" /\ fleet'[f].voyage = None
        /\ \A g \in Fleets \ {f} : fleet'[g] = fleet[g]
    BY <1>0, <2>1, AssignFleetFacts
  <2>. QED  BY <2>1, <2>2, FreeFleetStep, NoneAssumption
<1>. QED  BY <1>1, <1>2, <1>3, <1>4

\* A plan reserves a free fleet for a voyage that did not exist.
LEMMA PlanReservation ==
  ASSUME TypeOK, FleetReservation, NEW k \in Keys, NEW q \in Request, NEW t \in Nat,
         PlanEffect(k, q, t)
  PROVE  FleetReservation'
<1>0. /\ fleet \in [Fleets -> Fleet] /\ voyage \in [Voyages -> Voyage]
      /\ q.code \in Voyages /\ q.fleet \in Fleets
  BY DEF TypeOK, Request
<1>1. /\ voyage[q.code].state = "absent" /\ fleet[q.fleet].state = "standby"
      /\ fleet' = AssignFleet(q.fleet, "assigned", q.code)
      /\ voyage' = [voyage EXCEPT ![q.code] =
                      [state |-> "planned", from |-> q.from, fleet |-> q.fleet,
                       start |-> q.start, finish |-> q.finish, created |-> t, key |-> k]]
  BY DEF PlanEffect
<1>2. /\ fleet'[q.fleet].state = "assigned" /\ fleet'[q.fleet].voyage = q.code
      /\ \A g \in Fleets \ {q.fleet} : fleet'[g] = fleet[g]
  BY <1>0, <1>1, AssignFleetFacts
<1>3. /\ voyage'[q.code].state = "planned" /\ voyage'[q.code].fleet = q.fleet
      /\ \A w \in Voyages \ {q.code} : voyage'[w] = voyage[w]
  BY <1>0, <1>1
<1>4. /\ fleet[q.fleet].voyage \notin Voyages
      /\ \A g \in Fleets : fleet[g].voyage # q.code
  BY <1>0, <1>1, FreeFleet DEF FleetReservation, ActiveStates
<1>5. ASSUME NEW w \in Voyages, voyage'[w].state \in ActiveStates
      PROVE  \E g \in Fleets : fleet'[g].voyage = w
  BY <1>0, <1>2, <1>3, <1>4, <1>5 DEF FleetReservation
<1>6. ASSUME NEW g \in Fleets, NEW w \in Voyages
      PROVE  fleet'[g].voyage = w <=> voyage'[w].fleet = g /\ voyage'[w].state \in ActiveStates
  BY <1>0, <1>2, <1>3, <1>4 DEF FleetReservation, ActiveStates
<1>7. ASSUME NEW g \in Fleets
      PROVE  /\ fleet'[g].state = "assigned" <=> \E w \in Voyages :
                  fleet'[g].voyage = w /\ voyage'[w].state \in {"planned", "cleared"}
             /\ fleet'[g].state = "deployed" <=> \E w \in Voyages :
                  fleet'[g].voyage = w /\ voyage'[w].state \in {"at_sea", "landed"}
  BY <1>0, <1>2, <1>3, <1>4 DEF FleetReservation
<1>. QED  BY <1>5, <1>6, <1>7 DEF FleetReservation

\* The voyage transitions move a voyage and the fleet it holds together.
LEMMA VoyageReservation ==
  ASSUME TypeOK, FleetReservation, NEW p \in Users, NEW v \in Voyages,
         \/ ClearFishingVoyage(p, v)
         \/ DepartureFishingVoyage(p, v)
         \/ ConfirmFishingVoyageLanding(p, v)
         \/ CloseFishingVoyage(p, v)
         \/ CancelFishingVoyage(p, v)
  PROVE  FleetReservation'
<1>0. fleet \in [Fleets -> Fleet] /\ voyage \in [Voyages -> Voyage]
  BY DEF TypeOK
<1>m. ASSUME NEW s \in {"cleared", "at_sea", "landed", "closed", "cancelled"},
             voyage' = MoveVoyage(v, s)
      PROVE  /\ voyage'[v].state = s
             /\ \A w \in Voyages : voyage'[w].fleet = voyage[w].fleet
             /\ \A w \in Voyages \ {v} : voyage'[w].state = voyage[w].state
  BY <1>0, <1>m, MoveVoyageFacts DEF VoyageStates
<1>a. voyage[v].state \in ActiveStates
  BY DEF ClearFishingVoyage, DepartureFishingVoyage, ConfirmFishingVoyageLanding,
         CloseFishingVoyage, CancelFishingVoyage, DepartureAllowed, LandingAllowed,
         CloseAllowed, CancelAllowed, VoyageMayMove, VoyageMoves, ActiveStates
<1>f. voyage[v].fleet \in Fleets /\ fleet[voyage[v].fleet].voyage = v
  BY <1>a, HeldFleet
<1>1. CASE ClearFishingVoyage(p, v)
  <2>1. /\ voyage[v].state = "planned" /\ fleet' = fleet
        /\ voyage' = MoveVoyage(v, "cleared")
    BY <1>1 DEF ClearFishingVoyage, VoyageMayMove, VoyageMoves
  <2>2. fleet'[voyage[v].fleet].state = "assigned"
    BY <1>f, <2>1 DEF FleetReservation
  <2>. QED  BY <1>a, <1>f, <1>m, <2>1, <2>2, HeldFleetStep
<1>2. CASE DepartureFishingVoyage(p, v)
  <2>1. /\ fleet' = [fleet EXCEPT ![voyage[v].fleet].state = "deployed"]
        /\ voyage' = MoveVoyage(v, "at_sea")
    BY <1>2 DEF DepartureFishingVoyage
  <2>2. /\ fleet'[voyage[v].fleet].state = "deployed"
        /\ fleet'[voyage[v].fleet].voyage = v
        /\ \A g \in Fleets \ {voyage[v].fleet} : fleet'[g] = fleet[g]
    BY <1>0, <1>f, <2>1 DEF Fleet
  <2>. QED  BY <1>a, <1>f, <1>m, <2>1, <2>2, HeldFleetStep
<1>3. CASE ConfirmFishingVoyageLanding(p, v)
  <2>1. /\ voyage[v].state = "at_sea" /\ fleet' = fleet
        /\ voyage' = MoveVoyage(v, "landed")
    BY <1>3 DEF ConfirmFishingVoyageLanding, LandingAllowed, VoyageMayMove, VoyageMoves
  <2>2. fleet'[voyage[v].fleet].state = "deployed"
    BY <1>f, <2>1 DEF FleetReservation
  <2>. QED  BY <1>a, <1>f, <1>m, <2>1, <2>2, HeldFleetStep
<1>4. ASSUME NEW s \in {"closed", "cancelled"}, voyage' = MoveVoyage(v, s),
             fleet' = AssignFleet(voyage[v].fleet, "standby", None)
      PROVE  FleetReservation'
  <2>1. /\ fleet'[voyage[v].fleet].state = "standby"
        /\ fleet'[voyage[v].fleet].voyage \notin Voyages
        /\ \A g \in Fleets \ {voyage[v].fleet} : fleet'[g] = fleet[g]
    BY <1>0, <1>f, <1>4, AssignFleetFacts, NoneAssumption
  <2>2. s \notin ActiveStates
    BY DEF ActiveStates
  <2>. QED  BY <1>a, <1>f, <1>m, <1>4, <2>1, <2>2, HeldFleetStep
<1>5. CASE CloseFishingVoyage(p, v)
  BY <1>4, <1>5 DEF CloseFishingVoyage
<1>6. CASE CancelFishingVoyage(p, v)
  BY <1>4, <1>6 DEF CancelFishingVoyage
<1>. QED  BY <1>1, <1>2, <1>3, <1>5, <1>6

\* For every catalog and every interleaving of coordinators, captains and officers: no
\* fleet is held by two voyages, none is lost by a voyage still under way, and none stays
\* reserved after closure or cancellation.
THEOREM ReservationsHold == LateSpec => []FleetReservation
<1>1. Init => FleetReservation
  BY NoneAssumption
     DEF Init, NoFleet, NoVoyage, FleetReservation, ActiveStates
<1>2. TypeOK /\ FleetReservation /\ [LateNext]_vars => FleetReservation'
  <2>. SUFFICES ASSUME TypeOK, FleetReservation, [LateNext]_vars PROVE FleetReservation'
    OBVIOUS
  <2>0. ASSUME UNCHANGED <<fleet, voyage>> PROVE FleetReservation'
    BY <2>0 DEF FleetReservation
  <2>1. ASSUME NEW p \in Users, CatalogNext(p) PROVE FleetReservation'
    BY <2>0, <2>1, FleetServiceReservation
       DEF CatalogNext, CreateFishingPermit, ActivateFishingPermit,
           RegisterFishingVessel, VerifyFishingVessel
  <2>2. ASSUME NEW p \in Users, Plans(p) PROVE FleetReservation'
    BY <2>0, <2>2, PlanCases, PlanReservation DEF vars
  <2>3. ASSUME NEW p \in Users, VoyageNext(p) PROVE FleetReservation'
    BY <2>3, VoyageReservation DEF VoyageNext
  <2>4. ASSUME NEW p \in Users, ReviewNext(p) PROVE FleetReservation'
    BY <2>0, <2>4 DEF ReviewNext, DeclareInRange, DeclareOutOfRange, StartReview, Decide
  <2>5. ASSUME NEW p \in Users, HandoffNext(p) PROVE FleetReservation'
    BY <2>0, <2>5 DEF HandoffNext, CreateCatchLandingTask, ResolveCatchLandingTask
  <2>6. CASE WorkerPass \/ Tick \/ UNCHANGED vars
    BY <2>0, <2>6 DEF WorkerPass, ExpireTasks, Tick, vars
  <2>. QED  BY <2>1, <2>2, <2>3, <2>4, <2>5, <2>6 DEF LateNext, Plans
<1>. QED  BY <1>1, <1>2, TypeCorrect, PTL DEF LateSpec

-----------------------------------------------------------------------------
(* Vessels in step with their voyages.                                     *)

\* Steps that leave the link table alone only have to keep each vessel in phase.
LEMMA LinksKept ==
  ASSUME VesselFollowsVoyage, links' = links,
         \A v \in Voyages, b \in Vessels : b \in VesselsOf(v) => FollowsVoyage(b, v)',
         \A b \in Vessels : LinkFree(b) => IsIdle(b)'
  PROVE  VesselFollowsVoyage'
BY DEF VesselFollowsVoyage, VesselsOf, LinkFree

\* Only the rows' states and voyages matter.
LEMMA PhaseKept ==
  ASSUME VesselFollowsVoyage, links' = links,
         \A v \in Voyages : voyage'[v].state = voyage[v].state,
         NEW B \in SUBSET Vessels,
         \A b \in Vessels \ B : /\ vessel'[b].state = vessel[b].state
                                /\ vessel'[b].voyage = vessel[b].voyage,
         \A b \in B, v \in Voyages : b \in VesselsOf(v) => FollowsVoyage(b, v)',
         \A b \in B : LinkFree(b) => IsIdle(b)'
  PROVE  VesselFollowsVoyage'
<1>1. ASSUME NEW v \in Voyages, NEW b \in Vessels, b \in VesselsOf(v)
      PROVE  FollowsVoyage(b, v)'
  BY <1>1 DEF VesselFollowsVoyage, FollowsVoyage
<1>2. ASSUME NEW b \in Vessels, LinkFree(b)
      PROVE  IsIdle(b)'
  BY <1>2 DEF VesselFollowsVoyage, IsIdle
<1>. QED  BY <1>1, <1>2, LinksKept

\* Registering and verifying a vessel.
LEMMA CatalogFollows ==
  ASSUME TypeOK, VesselFollowsVoyage, NEW p \in Users, NEW b \in Vessels,
         \/ \E expires \in CertTimes : RegisterFishingVessel(p, b, expires)
         \/ VerifyFishingVessel(p, b)
  PROVE  VesselFollowsVoyage'
<1>0. vessel \in [Vessels -> Vessel]
  BY DEF TypeOK
<1>1. ASSUME NEW expires \in CertTimes, RegisterFishingVessel(p, b, expires)
      PROVE  VesselFollowsVoyage'
  <2>1. /\ links' = links /\ voyage' = voyage /\ vessel[b].state = "absent"
        /\ vessel'[b].state = "berthed" /\ vessel'[b].voyage = None
        /\ \A c \in Vessels \ {b} : vessel'[c] = vessel[c]
    BY <1>0, <1>1 DEF RegisterFishingVessel
  <2>2. \A v \in Voyages : b \notin VesselsOf(v)
    BY <2>1 DEF VesselFollowsVoyage, FollowsVoyage, InPhase
  <2>3. IsIdle(b)'
    BY <2>1 DEF IsIdle
  <2>. QED  BY <2>1, <2>2, <2>3, PhaseKept
<1>2. CASE VerifyFishingVessel(p, b)
  <2>1. /\ links' = links /\ voyage' = voyage
        /\ vessel[b].state \in {"berthed", "assigned"}
        /\ vessel' = [vessel EXCEPT ![b].state = "sea_ready"]
    BY <1>2 DEF VerifyFishingVessel, VesselMayMove, VesselMoves
  <2>2. /\ vessel'[b].state = "sea_ready" /\ vessel'[b].voyage = vessel[b].voyage
        /\ \A c \in Vessels \ {b} : vessel'[c] = vessel[c]
    BY <1>0, <2>1 DEF Vessel
  <2>3. ASSUME NEW v \in Voyages, b \in VesselsOf(v)
        PROVE  FollowsVoyage(b, v)'
    BY <2>1, <2>2, <2>3 DEF VesselFollowsVoyage, FollowsVoyage, InPhase
  <2>4. LinkFree(b) => IsIdle(b)'
    BY <2>2 DEF VesselFollowsVoyage, IsIdle
  <2>. QED  BY <2>1, <2>2, <2>3, <2>4, PhaseKept
<1>. QED  BY <1>1, <1>2

\* A plan links unbooked vessels to a voyage that had none.
LEMMA PlanFollows ==
  ASSUME TypeOK, VesselFollowsVoyage, NEW k \in Keys, NEW q \in Request, NEW t \in Nat,
         PlanEffect(k, q, t)
  PROVE  VesselFollowsVoyage'
<1>0. /\ vessel \in [Vessels -> Vessel] /\ voyage \in [Voyages -> Voyage]
      /\ q.code \in Voyages /\ q.vessels \subseteq Vessels
  BY DEF TypeOK, Request
<1>1. /\ voyage[q.code].state = "absent"
      /\ \A b \in q.vessels : LinkFree(b)
      /\ vessel' = BookVessels(q.vessels, "assigned", q.code)
      /\ links' = links \cup ({q.code} \X q.vessels)
      /\ voyage' = [voyage EXCEPT ![q.code] =
                      [state |-> "planned", from |-> q.from, fleet |-> q.fleet,
                       start |-> q.start, finish |-> q.finish, created |-> t, key |-> k]]
  BY DEF PlanEffect
<1>2. /\ voyage'[q.code].state = "planned"
      /\ \A w \in Voyages \ {q.code} : voyage'[w] = voyage[w]
  BY <1>0, <1>1
<1>3. \A b \in Vessels : /\ b \in q.vessels => /\ vessel'[b].state = "assigned"
                                               /\ vessel'[b].voyage = q.code
                         /\ b \notin q.vessels => vessel'[b] = vessel[b]
  <2>1. vessel' = BookVessels(q.vessels, "assigned", q.code)
    BY <1>1
  <2>2. "assigned" \in VesselStates
    BY DEF VesselStates
  <2>. QED  BY <1>0, <2>1, <2>2, BookVesselsFacts
<1>4. VesselsOf(q.code) = {}
  BY <1>0, <1>1 DEF VesselFollowsVoyage, FollowsVoyage, InPhase, VesselsOf
<1>5. /\ VesselsOf(q.code)' = q.vessels
      /\ \A w \in Voyages \ {q.code} : VesselsOf(w)' = VesselsOf(w)
  BY <1>0, <1>1, <1>4 DEF VesselsOf
<1>6. \A b \in q.vessels, w \in Voyages : b \notin VesselsOf(w)
  BY <1>1 DEF LinkFree, VesselsOf
<1>7. \A b \in Vessels : LinkFree(b)' => LinkFree(b) /\ b \notin q.vessels
  BY <1>0, <1>1 DEF LinkFree
<1>8. ASSUME NEW v \in Voyages, NEW w \in Voyages, NEW b \in Vessels,
             b \in VesselsOf(v)', b \in VesselsOf(w)'
      PROVE  v = w
  BY <1>5, <1>6, <1>8 DEF VesselFollowsVoyage
<1>9. ASSUME NEW v \in Voyages, NEW b \in Vessels, b \in VesselsOf(v)'
      PROVE  FollowsVoyage(b, v)'
  <2>1. CASE v = q.code
    BY <1>2, <1>3, <1>5, <1>9, <2>1 DEF FollowsVoyage, InPhase
  <2>2. CASE v # q.code
    <3>1. b \in VesselsOf(v) /\ voyage'[v] = voyage[v] /\ vessel'[b] = vessel[b]
      BY <1>2, <1>3, <1>5, <1>6, <1>9, <2>2
    <3>. QED  BY <3>1 DEF VesselFollowsVoyage, FollowsVoyage
  <2>. QED  BY <2>1, <2>2
<1>10. ASSUME NEW b \in Vessels, LinkFree(b)'
       PROVE  IsIdle(b)'
  BY <1>3, <1>7, <1>10 DEF VesselFollowsVoyage, IsIdle
<1>. QED  BY <1>8, <1>9, <1>10 DEF VesselFollowsVoyage

\* A transition moves its voyage and the voyage's vessels together.
LEMMA VoyageMoved ==
  ASSUME VesselFollowsVoyage, links' = links, NEW v \in Voyages,
         \A w \in Voyages \ {v} : voyage'[w].state = voyage[w].state,
         \A b \in Vessels \ VesselsOf(v) : vessel'[b] = vessel[b],
         \A b \in VesselsOf(v) : FollowsVoyage(b, v)'
  PROVE  VesselFollowsVoyage'
<1>1. ASSUME NEW w \in Voyages, NEW b \in Vessels, b \in VesselsOf(w)
      PROVE  FollowsVoyage(b, w)'
  <2>1. CASE w # v
    <3>1. b \notin VesselsOf(v)
      BY <1>1, <2>1 DEF VesselFollowsVoyage
    <3>2. vessel'[b] = vessel[b] /\ voyage'[w].state = voyage[w].state
      BY <2>1, <3>1
    <3>. QED  BY <1>1, <3>2 DEF VesselFollowsVoyage, FollowsVoyage
  <2>. QED  BY <1>1, <2>1
<1>2. ASSUME NEW b \in Vessels, LinkFree(b)
      PROVE  IsIdle(b)'
  <2>1. vessel'[b] = vessel[b]
    BY <1>2 DEF LinkFree, VesselsOf
  <2>. QED  BY <1>2, <2>1 DEF VesselFollowsVoyage, IsIdle
<1>. QED  BY <1>1, <1>2, LinksKept

\* Clearing, departing, landing, closing and cancelling keep the vessels in phase.
LEMMA VoyageFollows ==
  ASSUME TypeOK, VesselFollowsVoyage, NEW p \in Users, NEW v \in Voyages,
         \/ ClearFishingVoyage(p, v)
         \/ DepartureFishingVoyage(p, v)
         \/ ConfirmFishingVoyageLanding(p, v)
         \/ CloseFishingVoyage(p, v)
         \/ CancelFishingVoyage(p, v)
  PROVE  VesselFollowsVoyage'
<1>0. vessel \in [Vessels -> Vessel] /\ voyage \in [Voyages -> Voyage]
  BY DEF TypeOK
<1>s. {"at_sea", "landed", "sea_ready"} \subseteq VesselStates
  BY DEF VesselStates
<1>m. ASSUME NEW s \in {"cleared", "at_sea", "landed", "closed", "cancelled"},
             voyage' = MoveVoyage(v, s)
      PROVE  /\ voyage'[v].state = s
             /\ \A w \in Voyages \ {v} : voyage'[w].state = voyage[w].state
  BY <1>0, <1>m, MoveVoyageFacts DEF VoyageStates
<1>v. \A b \in VesselsOf(v) : b \in Vessels /\ FollowsVoyage(b, v)
  BY DEF VesselFollowsVoyage, VesselsOf
<1>1. CASE ClearFishingVoyage(p, v)
  <2>1. /\ voyage[v].state = "planned" /\ vessel' = vessel /\ links' = links
        /\ voyage' = MoveVoyage(v, "cleared")
    BY <1>1 DEF ClearFishingVoyage, VoyageMayMove, VoyageMoves
  <2>2. \A b \in VesselsOf(v) : FollowsVoyage(b, v)'
    BY <1>m, <1>v, <2>1 DEF FollowsVoyage, InPhase
  <2>. QED  BY <1>m, <2>1, <2>2, VoyageMoved
<1>2. CASE DepartureFishingVoyage(p, v)
  <2>1. /\ voyage[v].state = "cleared" /\ links' = links
        /\ voyage' = MoveVoyage(v, "at_sea")
        /\ vessel' = MoveVessels(VesselsOf(v), "at_sea")
    BY <1>2 DEF DepartureFishingVoyage, DepartureAllowed, VoyageMayMove, VoyageMoves
  <2>2. \A b \in Vessels : /\ vessel'[b].voyage = vessel[b].voyage
                           /\ b \in VesselsOf(v) => vessel'[b].state = "at_sea"
                           /\ b \notin VesselsOf(v) => vessel'[b] = vessel[b]
    BY <1>0, <1>s, <2>1, MoveVesselsFacts DEF MoveVessels
  <2>3. \A b \in VesselsOf(v) : FollowsVoyage(b, v)'
    BY <1>m, <1>v, <2>1, <2>2 DEF FollowsVoyage, InPhase
  <2>. QED  BY <1>m, <2>1, <2>2, <2>3, VoyageMoved
<1>3. CASE ConfirmFishingVoyageLanding(p, v)
  <2>1. /\ voyage[v].state = "at_sea" /\ links' = links
        /\ voyage' = MoveVoyage(v, "landed")
        /\ vessel' = MoveVessels({b \in VesselsOf(v) : ~SkipsLanding(b)}, "landed")
    BY <1>3 DEF ConfirmFishingVoyageLanding, LandingAllowed, VoyageMayMove, VoyageMoves
  <2>2. \A b \in Vessels : /\ vessel'[b].voyage = vessel[b].voyage
                           /\ b \in VesselsOf(v) /\ ~SkipsLanding(b) => vessel'[b].state = "landed"
                           /\ SkipsLanding(b) => vessel'[b] = vessel[b]
                           /\ b \notin VesselsOf(v) => vessel'[b] = vessel[b]
    BY <1>0, <1>s, <2>1, MoveVesselsFacts DEF MoveVessels
  <2>3. \A b \in VesselsOf(v) : FollowsVoyage(b, v)'
    BY <1>m, <1>v, <2>1, <2>2 DEF FollowsVoyage, InPhase, SkipsLanding
  <2>. QED  BY <1>m, <2>1, <2>2, <2>3, VoyageMoved
<1>4. CASE CloseFishingVoyage(p, v)
  <2>1. /\ voyage[v].state = "landed" /\ vessel' = vessel /\ links' = links
        /\ voyage' = MoveVoyage(v, "closed")
        /\ \A b \in VesselsOf(v) : vessel[b].state \in {"reinspected", "retired", "landed"}
    BY <1>4 DEF CloseFishingVoyage, CloseAllowed, VoyageMayMove, VoyageMoves
  <2>2. \A b \in VesselsOf(v) : FollowsVoyage(b, v)'
    BY <1>m, <1>v, <2>1 DEF FollowsVoyage, InPhase
  <2>. QED  BY <1>m, <2>1, <2>2, VoyageMoved
<1>5. CASE CancelFishingVoyage(p, v)
  <2>1. /\ links' = links
        /\ voyage' = MoveVoyage(v, "cancelled")
        /\ vessel' = BookVessels(VesselsOf(v), "sea_ready", None)
    BY <1>5 DEF CancelFishingVoyage
  <2>2. \A b \in Vessels : /\ b \in VesselsOf(v) => /\ vessel'[b].state = "sea_ready"
                                                    /\ vessel'[b].voyage = None
                           /\ b \notin VesselsOf(v) => vessel'[b] = vessel[b]
    BY <1>0, <1>s, <2>1, BookVesselsFacts
  <2>3. \A b \in VesselsOf(v) : FollowsVoyage(b, v)'
    BY <1>m, <1>v, <2>1, <2>2 DEF FollowsVoyage, InPhase
  <2>. QED  BY <1>m, <2>1, <2>2, <2>3, VoyageMoved
<1>. QED  BY <1>1, <1>2, <1>3, <1>4, <1>5

\* Declarations and decisions keep the vessels in phase.
LEMMA ReviewFollows ==
  ASSUME TypeOK, VesselFollowsVoyage, NEW p \in Users, ReviewNext(p)
  PROVE  VesselFollowsVoyage'
<1>0. vessel \in [Vessels -> Vessel]
  BY DEF TypeOK
<1>s. {"quarantined", "reinspected", "retired"} \subseteq VesselStates
  BY DEF VesselStates
<1>1. ASSUME UNCHANGED <<links, voyage, vessel>> PROVE VesselFollowsVoyage'
  BY <1>1 DEF VesselFollowsVoyage, VesselsOf, LinkFree, FollowsVoyage, IsIdle
<1>2. ASSUME NEW v \in Voyages, NEW s \in Seqs, NEW a \in Anomalies,
             DeclareOutOfRange(p, v, s, a)
      PROVE  VesselFollowsVoyage'
  <2>1. /\ links' = links /\ voyage' = voyage
        /\ voyage[v].state \in {"at_sea", "landed"}
        /\ vessel' = MarkVessels(Quarantinable(v), "quarantined", a)
    BY <1>2 DEF DeclareOutOfRange, DeclarationAccepted
  <2>2. \A b \in Vessels : /\ vessel'[b].voyage = vessel[b].voyage
                           /\ b \in Quarantinable(v) => vessel'[b].state = "quarantined"
                           /\ b \notin Quarantinable(v) => vessel'[b] = vessel[b]
    BY <1>0, <1>s, <2>1, MarkVesselsFacts
  <2>3. Quarantinable(v) \subseteq VesselsOf(v) /\ VesselsOf(v) \subseteq Vessels
    BY DEF Quarantinable, VesselsOf
  <2>4. ASSUME NEW b \in Quarantinable(v), NEW w \in Voyages, b \in VesselsOf(w)
        PROVE  FollowsVoyage(b, w)'
    <3>1. b \in Vessels /\ w = v
      BY <2>3, <2>4 DEF VesselFollowsVoyage
    <3>2. FollowsVoyage(b, v)
      BY <2>4, <3>1 DEF VesselFollowsVoyage
    <3>. QED  BY <2>1, <2>2, <3>1, <3>2 DEF FollowsVoyage, InPhase
  <2>5. \A b \in Quarantinable(v) : ~LinkFree(b)
    BY <2>3 DEF LinkFree, VesselsOf
  <2>6. Quarantinable(v) \in SUBSET Vessels
    BY <2>3
  <2>. QED  BY <2>1, <2>2, <2>4, <2>5, <2>6, PhaseKept
<1>3. ASSUME NEW a \in Anomalies, NEW d \in {"cleared", "rejected"}, Decide(p, a, d)
      PROVE  VesselFollowsVoyage'
  <2>. DEFINE B == {b \in VesselsOf(anomaly[a].voyage) : QuarantinedFor(b, a)}
  <2>1. /\ links' = links /\ voyage' = voyage
        /\ vessel' = MarkVessels(B, Outcome(d), None)
    BY <1>3 DEF Decide
  <2>2. /\ B \in SUBSET Vessels
        /\ \A b \in B : vessel[b].state = "quarantined"
    BY DEF VesselsOf, QuarantinedFor
  <2>3. Outcome(d) \in {"reinspected", "retired"}
    BY DEF Outcome
  <2>. HIDE DEF B
  <2>4. \A b \in Vessels : /\ vessel'[b].voyage = vessel[b].voyage
                           /\ b \in B => vessel'[b].state \in {"reinspected", "retired"}
                           /\ b \notin B => vessel'[b] = vessel[b]
    BY <1>0, <1>s, <2>1, <2>3, MarkVesselsFacts
  <2>5. ASSUME NEW b \in B, NEW w \in Voyages, b \in VesselsOf(w)
        PROVE  FollowsVoyage(b, w)'
    <3>1. b \in Vessels /\ FollowsVoyage(b, w)
      BY <2>2, <2>5 DEF VesselFollowsVoyage
    <3>. QED  BY <2>1, <2>2, <2>4, <3>1 DEF FollowsVoyage, InPhase
  <2>6. \A b \in B : ~LinkFree(b)
    BY <2>2 DEF VesselFollowsVoyage, IsIdle
  <2>. QED  BY <2>1, <2>2, <2>4, <2>5, <2>6, PhaseKept
<1>. QED  BY <1>1, <1>2, <1>3 DEF ReviewNext, DeclareInRange, StartReview

\* For every number of voyages and vessels: a vessel is booked at most once, its row and
\* the link table name the same voyage, and it is never out of phase with it.
THEOREM VesselsFollow == LateSpec => []VesselFollowsVoyage
<1>1. Init => VesselFollowsVoyage
  BY DEF Init, NoVessel, VesselFollowsVoyage, VesselsOf, IsIdle
<1>2. TypeOK /\ VesselFollowsVoyage /\ [LateNext]_vars => VesselFollowsVoyage'
  <2>. SUFFICES ASSUME TypeOK, VesselFollowsVoyage, [LateNext]_vars PROVE VesselFollowsVoyage'
    OBVIOUS
  <2>0. ASSUME UNCHANGED <<links, voyage, vessel>> PROVE VesselFollowsVoyage'
    BY <2>0 DEF VesselFollowsVoyage, VesselsOf, LinkFree, FollowsVoyage, IsIdle
  <2>1. ASSUME NEW p \in Users, CatalogNext(p) PROVE VesselFollowsVoyage'
    BY <2>0, <2>1, CatalogFollows
       DEF CatalogNext, CreateFishingPermit, ActivateFishingPermit, CreateSupportFleet,
           StartMaintenance, CompleteMaintenance, RetireFleet
  <2>2. ASSUME NEW p \in Users, Plans(p) PROVE VesselFollowsVoyage'
    BY <2>0, <2>2, PlanCases, PlanFollows DEF vars
  <2>3. ASSUME NEW p \in Users, VoyageNext(p) PROVE VesselFollowsVoyage'
    BY <2>3, VoyageFollows DEF VoyageNext
  <2>4. ASSUME NEW p \in Users, HandoffNext(p) PROVE VesselFollowsVoyage'
    BY <2>0, <2>4 DEF HandoffNext, CreateCatchLandingTask, ResolveCatchLandingTask
  <2>5. CASE WorkerPass \/ Tick \/ UNCHANGED vars
    BY <2>0, <2>5 DEF WorkerPass, ExpireTasks, Tick, vars
  <2>. QED  BY <2>1, <2>2, <2>3, <2>4, <2>5, ReviewFollows DEF LateNext, Plans
<1>. QED  BY <1>1, <1>2, TypeCorrect, PTL DEF LateSpec

-----------------------------------------------------------------------------
(* What the bookings show of a step.                                       *)

\* The phase of each state of a voyage row.
LEMMA Phases ==
  /\ PhaseOf("absent") = "none"
  /\ PhaseOf("planned") = "booked" /\ PhaseOf("cleared") = "booked"
  /\ PhaseOf("at_sea") = "sailing" /\ PhaseOf("landed") = "sailing"
  /\ PhaseOf("cancelled") = "cancelled" /\ PhaseOf("closed") = "over"
BY DEF PhaseOf

\* When one voyage changes state, one phase changes.
LEMMA PhaseMoved ==
  ASSUME NEW v \in Voyages,
         \A w \in Voyages \ {v} : voyage'[w].state = voyage[w].state
  PROVE  [w \in Voyages |-> PhaseOf(voyage'[w].state)]
           = [[w \in Voyages |-> PhaseOf(voyage[w].state)] EXCEPT ![v] = PhaseOf(voyage'[v].state)]
OBVIOUS

\* A step that moves no voyage between phases and nothing between voyages does not show.
LEMMA BookingKept ==
  ASSUME \A v \in Voyages : PhaseOf(voyage'[v].state) = PhaseOf(voyage[v].state),
         \A f \in Fleets : fleet'[f].voyage = fleet[f].voyage,
         \A b \in Vessels : vessel'[b].voyage = vessel[b].voyage
  PROVE  UNCHANGED Booking!book
BY DEF Booking!book

\* The catalog operations (service/catalog.go, support_fleet.go) move no booking: they
\* write rows that nobody holds, or keep the holder.
LEMMA CatalogBooking ==
  ASSUME TypeOK, FleetReservation, VesselFollowsVoyage, NEW p \in Users, CatalogNext(p)
  PROVE  UNCHANGED Booking!book
<1>0. /\ fleet \in [Fleets -> Fleet] /\ vessel \in [Vessels -> Vessel]
  BY DEF TypeOK
<1>f. ASSUME NEW f \in Fleets, fleet[f].state \in {"absent", "standby", "maintenance"}
      PROVE  fleet[f].voyage = None
  BY <1>0, <1>f, FreeFleet DEF Fleet
<1>1. ASSUME NEW m \in Permits, CreateFishingPermit(p, m) \/ ActivateFishingPermit(p, m)
      PROVE  UNCHANGED Booking!book
  BY <1>1, BookingKept DEF CreateFishingPermit, ActivateFishingPermit
<1>2. ASSUME NEW f \in Fleets, NEW due \in CertTimes, NEW inspected \in CertTimes,
             CreateSupportFleet(p, f, due, inspected)
      PROVE  UNCHANGED Booking!book
  <2>1. /\ voyage' = voyage /\ vessel' = vessel /\ fleet[f].state = "absent"
        /\ fleet'[f].voyage = None
        /\ \A g \in Fleets \ {f} : fleet'[g] = fleet[g]
    BY <1>0, <1>2 DEF CreateSupportFleet
  <2>. QED  BY <1>f, <2>1, BookingKept
<1>3. ASSUME NEW f \in Fleets, StartMaintenance(p, f)
      PROVE  UNCHANGED Booking!book
  <2>1. /\ voyage' = voyage /\ vessel' = vessel
        /\ fleet' = [fleet EXCEPT ![f].state = "maintenance"]
    BY <1>3 DEF StartMaintenance
  <2>2. \A g \in Fleets : fleet'[g].voyage = fleet[g].voyage
    BY <1>0, <2>1 DEF Fleet
  <2>. QED  BY <2>1, <2>2, BookingKept
<1>4. ASSUME NEW f \in Fleets, CompleteMaintenance(p, f)
      PROVE  UNCHANGED Booking!book
  <2>1. /\ voyage' = voyage /\ vessel' = vessel
        /\ fleet' = [fleet EXCEPT ![f].state = "standby", ![f].inspected = now]
    BY <1>4 DEF CompleteMaintenance
  <2>2. \A g \in Fleets : fleet'[g].voyage = fleet[g].voyage
    BY <1>0, <2>1 DEF Fleet
  <2>. QED  BY <2>1, <2>2, BookingKept
<1>5. ASSUME NEW f \in Fleets, RetireFleet(p, f)
      PROVE  UNCHANGED Booking!book
  <2>1. /\ voyage' = voyage /\ vessel' = vessel
        /\ fleet[f].state \in {"standby", "maintenance"}
        /\ fleet'[f].voyage = None
        /\ \A g \in Fleets \ {f} : fleet'[g] = fleet[g]
    BY <1>0, <1>5, AssignFleetFacts DEF RetireFleet
  <2>. QED  BY <1>f, <2>1, BookingKept
<1>6. ASSUME NEW b \in Vessels, NEW expires \in CertTimes, RegisterFishingVessel(p, b, expires)
      PROVE  UNCHANGED Booking!book
  <2>1. /\ voyage' = voyage /\ fleet' = fleet /\ vessel[b].state = "absent"
        /\ vessel'[b].voyage = None
        /\ \A c \in Vessels \ {b} : vessel'[c] = vessel[c]
    BY <1>0, <1>6 DEF RegisterFishingVessel
  <2>2. LinkFree(b)
    BY <2>1 DEF VesselFollowsVoyage, FollowsVoyage, InPhase, LinkFree, VesselsOf
  <2>3. vessel[b].voyage = None
    BY <2>2 DEF VesselFollowsVoyage, IsIdle
  <2>. QED  BY <2>1, <2>3, BookingKept
<1>7. ASSUME NEW b \in Vessels, VerifyFishingVessel(p, b)
      PROVE  UNCHANGED Booking!book
  <2>1. /\ voyage' = voyage /\ fleet' = fleet
        /\ vessel' = [vessel EXCEPT ![b].state = "sea_ready"]
    BY <1>7 DEF VerifyFishingVessel
  <2>2. \A c \in Vessels : vessel'[c].voyage = vessel[c].voyage
    BY <1>0, <2>1 DEF Vessel
  <2>. QED  BY <2>1, <2>2, BookingKept
<1>. QED  BY <1>1, <1>2, <1>3, <1>4, <1>5, <1>6, <1>7 DEF CatalogNext

\* A plan books its fleet and its vessels, which nobody held.
LEMMA PlanBooking ==
  ASSUME TypeOK, FleetReservation, VesselFollowsVoyage, NEW k \in Keys, NEW q \in Request,
         NEW t \in Nat, PlanEffect(k, q, t)
  PROVE  Booking!Book(q.code, q.fleet, q.vessels)
<1>0. /\ fleet \in [Fleets -> Fleet] /\ vessel \in [Vessels -> Vessel]
      /\ voyage \in [Voyages -> Voyage]
      /\ q.code \in Voyages /\ q.fleet \in Fleets /\ q.vessels \subseteq Vessels
  BY DEF TypeOK, Request
<1>1. /\ voyage[q.code].state = "absent" /\ fleet[q.fleet].state = "standby"
      /\ q.vessels # {} /\ \A b \in q.vessels : LinkFree(b)
      /\ fleet' = AssignFleet(q.fleet, "assigned", q.code)
      /\ vessel' = BookVessels(q.vessels, "assigned", q.code)
      /\ voyage' = [voyage EXCEPT ![q.code] =
                      [state |-> "planned", from |-> q.from, fleet |-> q.fleet,
                       start |-> q.start, finish |-> q.finish, created |-> t, key |-> k]]
  BY DEF PlanEffect
<1>2. /\ voyage'[q.code].state = "planned"
      /\ \A w \in Voyages \ {q.code} : voyage'[w] = voyage[w]
  BY <1>0, <1>1
<1>3. /\ fleet'[q.fleet].voyage = q.code
      /\ \A g \in Fleets \ {q.fleet} : fleet'[g] = fleet[g]
  BY <1>0, <1>1, AssignFleetFacts
<1>4. \A b \in Vessels : /\ b \in q.vessels => vessel'[b].voyage = q.code
                         /\ b \notin q.vessels => vessel'[b] = vessel[b]
  <2>1. "assigned" \in VesselStates
    BY DEF VesselStates
  <2>. QED  BY <1>0, <1>1, <2>1, BookVesselsFacts
<1>5. fleet[q.fleet].voyage = None
  BY <1>0, <1>1, FreeFleet DEF Fleet
<1>6. \A b \in q.vessels : vessel[b].voyage = None
  BY <1>0, <1>1 DEF VesselFollowsVoyage, IsIdle
<1>7. [v \in Voyages |-> PhaseOf(voyage'[v].state)]
        = [[v \in Voyages |-> PhaseOf(voyage[v].state)] EXCEPT ![q.code] = "booked"]
  <2>1. \A w \in Voyages \ {q.code} : voyage'[w].state = voyage[w].state
    BY <1>2
  <2>. QED  BY <1>0, <1>2, <2>1, PhaseMoved, Phases
<1>8. [f \in Fleets |-> fleet'[f].voyage]
        = [[f \in Fleets |-> fleet[f].voyage] EXCEPT ![q.fleet] = q.code]
  BY <1>0, <1>3
<1>9. [b \in Vessels |-> vessel'[b].voyage]
        = [b \in Vessels |-> IF b \in q.vessels THEN q.code
                                                ELSE [c \in Vessels |-> vessel[c].voyage][b]]
  BY <1>4
<1>10. /\ [v \in Voyages |-> PhaseOf(voyage[v].state)][q.code] = "none"
       /\ [f \in Fleets |-> fleet[f].voyage][q.fleet] = None
       /\ \A b \in q.vessels : [c \in Vessels |-> vessel[c].voyage][b] = None
  BY <1>0, <1>1, <1>5, <1>6 DEF PhaseOf
<1>. QED  BY <1>1, <1>7, <1>8, <1>9, <1>10 DEF Booking!Book

\* Departing sails, closing finishes and cancelling returns everything; clearing and
\* landing do not show.
LEMMA TransitionBooking ==
  ASSUME TypeOK, FleetReservation, VesselFollowsVoyage, NEW p \in Users, NEW v \in Voyages,
         \/ ClearFishingVoyage(p, v)
         \/ DepartureFishingVoyage(p, v)
         \/ ConfirmFishingVoyageLanding(p, v)
         \/ CloseFishingVoyage(p, v)
         \/ CancelFishingVoyage(p, v)
  PROVE  \/ UNCHANGED Booking!book
         \/ Booking!Sail(v) \/ Booking!Finish(v) \/ Booking!Cancel(v)
<1>. DEFINE ph == [w \in Voyages |-> PhaseOf(voyage[w].state)]
            es == [f \in Fleets |-> fleet[f].voyage]
            cr == [b \in Vessels |-> vessel[b].voyage]
<1>0. /\ fleet \in [Fleets -> Fleet] /\ vessel \in [Vessels -> Vessel]
      /\ voyage \in [Voyages -> Voyage]
  BY DEF TypeOK
<1>s. /\ {"cleared", "at_sea", "landed", "closed", "cancelled"} \subseteq VoyageStates
      /\ {"at_sea", "landed", "sea_ready"} \subseteq VesselStates
  BY DEF VoyageStates, VesselStates
<1>m. ASSUME NEW s \in {"cleared", "at_sea", "landed", "closed", "cancelled"},
             voyage' = MoveVoyage(v, s)
      PROVE  /\ voyage'[v].state = s
             /\ \A w \in Voyages \ {v} : voyage'[w].state = voyage[w].state
  BY <1>0, <1>m, MoveVoyageFacts DEF VoyageStates
<1>a. voyage[v].state \in ActiveStates
  BY DEF ClearFishingVoyage, DepartureFishingVoyage, ConfirmFishingVoyageLanding,
         CloseFishingVoyage, CancelFishingVoyage, DepartureAllowed, LandingAllowed,
         CloseAllowed, CancelAllowed, VoyageMayMove, VoyageMoves, ActiveStates
<1>f. /\ voyage[v].fleet \in Fleets
      /\ \A f \in Fleets : fleet[f].voyage = v <=> f = voyage[v].fleet
  BY <1>a, HeldFleet DEF FleetReservation
<1>1. CASE ClearFishingVoyage(p, v)
  <2>1. /\ voyage[v].state = "planned" /\ fleet' = fleet /\ vessel' = vessel
        /\ voyage' = MoveVoyage(v, "cleared")
    BY <1>1 DEF ClearFishingVoyage, VoyageMayMove, VoyageMoves
  <2>2. \A w \in Voyages : PhaseOf(voyage'[w].state) = PhaseOf(voyage[w].state)
    BY <1>m, <2>1 DEF PhaseOf
  <2>. QED  BY <2>1, <2>2, BookingKept
<1>2. CASE DepartureFishingVoyage(p, v)
  <2>1. /\ voyage[v].state = "cleared"
        /\ voyage' = MoveVoyage(v, "at_sea")
        /\ vessel' = MoveVessels(VesselsOf(v), "at_sea")
        /\ fleet' = [fleet EXCEPT ![voyage[v].fleet].state = "deployed"]
    BY <1>2 DEF DepartureFishingVoyage, DepartureAllowed, VoyageMayMove, VoyageMoves
  <2>2. ph' = [ph EXCEPT ![v] = "sailing"] /\ ph[v] = "booked"
    BY <1>m, <2>1, PhaseMoved, Phases
  <2>3. es' = es
    BY <1>0, <2>1 DEF Fleet
  <2>4. cr' = cr
    BY <1>0, <1>s, <2>1, MoveVesselsFacts
  <2>. QED  BY <2>2, <2>3, <2>4 DEF Booking!Sail
<1>3. CASE ConfirmFishingVoyageLanding(p, v)
  <2>1. /\ voyage[v].state = "at_sea" /\ fleet' = fleet
        /\ voyage' = MoveVoyage(v, "landed")
        /\ vessel' = MoveVessels({b \in VesselsOf(v) : ~SkipsLanding(b)}, "landed")
    BY <1>3 DEF ConfirmFishingVoyageLanding, LandingAllowed, VoyageMayMove, VoyageMoves
  <2>2. \A w \in Voyages : PhaseOf(voyage'[w].state) = PhaseOf(voyage[w].state)
    BY <1>m, <2>1 DEF PhaseOf
  <2>3. \A b \in Vessels : vessel'[b].voyage = vessel[b].voyage
    BY <1>0, <1>s, <2>1, MoveVesselsFacts
  <2>. QED  BY <2>1, <2>2, <2>3, BookingKept
<1>r. ASSUME fleet' = AssignFleet(voyage[v].fleet, "standby", None)
      PROVE  es' = Booking!Return(es, v)
  <2>1. /\ fleet'[voyage[v].fleet].voyage = None
        /\ \A g \in Fleets \ {voyage[v].fleet} : fleet'[g] = fleet[g]
    BY <1>0, <1>f, <1>r, AssignFleetFacts
  <2>. QED  BY <1>f, <2>1 DEF Booking!Return
<1>4. CASE CloseFishingVoyage(p, v)
  <2>1. /\ voyage[v].state = "landed" /\ vessel' = vessel
        /\ voyage' = MoveVoyage(v, "closed")
        /\ fleet' = AssignFleet(voyage[v].fleet, "standby", None)
    BY <1>4 DEF CloseFishingVoyage, CloseAllowed, VoyageMayMove, VoyageMoves
  <2>2. ph' = [ph EXCEPT ![v] = "over"] /\ ph[v] = "sailing"
    BY <1>m, <2>1, PhaseMoved, Phases
  <2>. QED  BY <1>r, <2>1, <2>2 DEF Booking!Finish
<1>5. CASE CancelFishingVoyage(p, v)
  <2>1. /\ voyage[v].state \in {"planned", "cleared"}
        /\ voyage' = MoveVoyage(v, "cancelled")
        /\ vessel' = BookVessels(VesselsOf(v), "sea_ready", None)
        /\ fleet' = AssignFleet(voyage[v].fleet, "standby", None)
    BY <1>5 DEF CancelFishingVoyage, CancelAllowed, VoyageMayMove, VoyageMoves
  <2>2. ph' = [ph EXCEPT ![v] = "cancelled"] /\ ph[v] = "booked"
    BY <1>m, <2>1, PhaseMoved, Phases
  <2>3. \A b \in Vessels : /\ b \in VesselsOf(v) => vessel'[b].voyage = None
                           /\ b \notin VesselsOf(v) => vessel'[b] = vessel[b]
    <3>1. vessel \in [Vessels -> Vessel] /\ "sea_ready" \in VesselStates
      BY <1>0, <1>s
    <3>2. vessel' = BookVessels(VesselsOf(v), "sea_ready", None)
      BY <2>1
    <3>3. \A b \in Vessels :
            /\ b \in VesselsOf(v) => /\ BookVessels(VesselsOf(v), "sea_ready", None)[b].state = "sea_ready"
                                     /\ BookVessels(VesselsOf(v), "sea_ready", None)[b].voyage = None
            /\ b \notin VesselsOf(v) => BookVessels(VesselsOf(v), "sea_ready", None)[b] = vessel[b]
      BY <3>1, BookVesselsFacts
    <3>. QED  BY <3>2, <3>3
  <2>4. \A b \in Vessels : vessel[b].voyage = v <=> b \in VesselsOf(v)
    <3>1. ASSUME NEW b \in Vessels, b \in VesselsOf(v)
          PROVE  vessel[b].voyage = v
      BY <2>1, <3>1 DEF VesselFollowsVoyage, FollowsVoyage
    <3>2. ASSUME NEW b \in Vessels, vessel[b].voyage = v
          PROVE  b \in VesselsOf(v)
      <4>1. PICK w \in Voyages : b \in VesselsOf(w)
        BY <3>2, NoneAssumption DEF VesselFollowsVoyage, IsIdle, LinkFree, VesselsOf
      <4>2. vessel[b].voyage \in {None, w}
        BY <4>1 DEF VesselFollowsVoyage, FollowsVoyage
      <4>. QED  BY <3>2, <4>1, <4>2, NoneAssumption
    <3>. QED  BY <3>1, <3>2
  <2>5. cr' = Booking!Return(cr, v)
    BY <2>3, <2>4 DEF Booking!Return
  <2>. QED  BY <1>r, <2>1, <2>2, <2>5 DEF Booking!Cancel
<1>. QED  BY <1>1, <1>2, <1>3, <1>4, <1>5

\* Declarations and decisions (service/catch_declaration.go, anomaly_review.go) move
\* vessels between states, never between voyages.
LEMMA ReviewBooking ==
  ASSUME TypeOK, NEW p \in Users, ReviewNext(p)
  PROVE  UNCHANGED Booking!book
<1>0. vessel \in [Vessels -> Vessel]
  BY DEF TypeOK
<1>s. {"quarantined", "reinspected", "retired"} \subseteq VesselStates
  BY DEF VesselStates
<1>1. ASSUME NEW v \in Voyages, NEW s \in Seqs, NEW a \in Anomalies,
             DeclareOutOfRange(p, v, s, a)
      PROVE  UNCHANGED Booking!book
  <2>1. /\ voyage' = voyage /\ fleet' = fleet
        /\ vessel' = MarkVessels(Quarantinable(v), "quarantined", a)
    BY <1>1 DEF DeclareOutOfRange
  <2>2. \A b \in Vessels : vessel'[b].voyage = vessel[b].voyage
    <3>1. "quarantined" \in VesselStates /\ vessel' = MarkVessels(Quarantinable(v), "quarantined", a)
      BY <1>s, <2>1
    <3>. QED  BY <1>0, <3>1, MarkVesselsFacts
  <2>. QED  BY <2>1, <2>2, BookingKept
<1>2. ASSUME NEW a \in Anomalies, NEW d \in {"cleared", "rejected"}, Decide(p, a, d)
      PROVE  UNCHANGED Booking!book
  <2>. DEFINE B == {b \in VesselsOf(anomaly[a].voyage) : QuarantinedFor(b, a)}
  <2>1. /\ voyage' = voyage /\ fleet' = fleet
        /\ vessel' = MarkVessels(B, Outcome(d), None)
    BY <1>2 DEF Decide
  <2>2. Outcome(d) \in VesselStates
    BY <1>s DEF Outcome
  <2>. HIDE DEF B
  <2>3. \A b \in Vessels : vessel'[b].voyage = vessel[b].voyage
    BY <1>0, <2>1, <2>2, MarkVesselsFacts
  <2>. QED  BY <2>1, <2>3, BookingKept
<1>. QED  BY <1>1, <1>2, BookingKept DEF ReviewNext, DeclareInRange, StartReview

-----------------------------------------------------------------------------

\* For all constants: every step of the services is a step of VoyageBooking or moves no
\* booking (service/fishing_voyage.go plans, departs, closes and cancels; everything else
\* leaves holders alone).
THEOREM BookingsImplement == LateSpec => BooksAsPromised
<1>1. Init => Booking!Init
  BY DEF Init, NoVoyage, NoFleet, NoVessel, PhaseOf, Booking!Init
<1>2. TypeOK /\ FleetReservation /\ VesselFollowsVoyage /\ [LateNext]_vars => [Booking!Next]_(Booking!book)
  <2>. SUFFICES ASSUME TypeOK, FleetReservation, VesselFollowsVoyage, [LateNext]_vars
                PROVE  Booking!Next \/ UNCHANGED Booking!book
    OBVIOUS
  <2>0. ASSUME UNCHANGED <<fleet, voyage, vessel>> PROVE UNCHANGED Booking!book
    BY <2>0, BookingKept
  <2>1. ASSUME NEW p \in Users, Plans(p)
        PROVE  Booking!Next \/ UNCHANGED Booking!book
    <3>1. ASSUME NEW k \in Keys, NEW q \in Request, NEW t \in Nat, PlanEffect(k, q, t)
          PROVE  Booking!Next
      <4>1. q.code \in Voyages /\ q.fleet \in Fleets /\ q.vessels \in SUBSET Vessels
        BY DEF Request
      <4>2. Booking!Book(q.code, q.fleet, q.vessels)
        BY <3>1, PlanBooking
      <4>. QED  BY <4>1, <4>2 DEF Booking!Next
    <3>. QED  BY <2>0, <2>1, <3>1, PlanCases DEF vars
  <2>2. ASSUME NEW p \in Users, VoyageNext(p)
        PROVE  Booking!Next \/ UNCHANGED Booking!book
    BY <2>2, TransitionBooking DEF VoyageNext, Booking!Next
  <2>3. ASSUME NEW p \in Users, HandoffNext(p) PROVE UNCHANGED Booking!book
    BY <2>0, <2>3 DEF HandoffNext, CreateCatchLandingTask, ResolveCatchLandingTask
  <2>4. CASE WorkerPass \/ Tick \/ UNCHANGED vars
    BY <2>0, <2>4 DEF WorkerPass, ExpireTasks, Tick, vars
  <2>. QED  BY <2>1, <2>2, <2>3, <2>4, CatalogBooking, ReviewBooking DEF LateNext, Plans
<1>. QED
  BY <1>1, <1>2, TypeCorrect, ReservationsHold, VesselsFollow, PTL
     DEF LateSpec, BooksAsPromised, Booking!Spec

-----------------------------------------------------------------------------
(* Retries and certificates: what a plan reads of the clock may be past.   *)

\* What only a plan may change: the records of keys, the links, the windows and keys of
\* voyages; and nothing extends a voyage's life or a booked vessel's certificate.
Quiet ==
  /\ idem' = idem /\ links' = links
  /\ now' \in Nat /\ now' >= now
  /\ \A v \in Voyages :
       /\ voyage'[v].state = "absent" <=> voyage[v].state = "absent"
       /\ voyage'[v].state \in ActiveStates => voyage[v].state \in ActiveStates
       /\ voyage'[v].start = voyage[v].start /\ voyage'[v].finish = voyage[v].finish
       /\ voyage'[v].created = voyage[v].created
       /\ voyage'[v].key = voyage[v].key
  /\ \A b \in Vessels : vessel[b].state # "absent" => vessel'[b].expires = vessel[b].expires

\* The voyage transitions move states only.
LEMMA TransitionQuiet ==
  ASSUME TypeOK, NEW p \in Users, VoyageNext(p)
  PROVE  Quiet
<1>0. /\ voyage \in [Voyages -> Voyage] /\ vessel \in [Vessels -> Vessel] /\ now \in Nat
  BY DEF TypeOK, Time
<1>1. ASSUME NEW v \in Voyages, NEW s \in {"cleared", "at_sea", "landed", "closed", "cancelled"},
             voyage[v].state \in ActiveStates, voyage' = MoveVoyage(v, s),
             idem' = idem, links' = links, now' = now,
             \A b \in Vessels : vessel'[b].expires = vessel[b].expires
      PROVE  Quiet
  <2>1. s \in VoyageStates /\ s # "absent"
    BY DEF VoyageStates
  <2>2. \A w \in Voyages : /\ voyage'[v].state = s
                           /\ w # v => voyage'[w].state = voyage[w].state
                           /\ voyage'[w].start = voyage[w].start
                           /\ voyage'[w].finish = voyage[w].finish
                           /\ voyage'[w].created = voyage[w].created
                           /\ voyage'[w].key = voyage[w].key
    BY <1>0, <1>1, <2>1, MoveVoyageFacts
  <2>. QED  BY <1>0, <1>1, <2>1, <2>2 DEF Quiet, ActiveStates
<1>2. PICK v \in Voyages : \/ ClearFishingVoyage(p, v) \/ DepartureFishingVoyage(p, v)
                           \/ ConfirmFishingVoyageLanding(p, v) \/ CloseFishingVoyage(p, v)
                           \/ CancelFishingVoyage(p, v)
  BY DEF VoyageNext
<1>3. idem' = idem /\ links' = links /\ now' = now
  BY <1>2 DEF ClearFishingVoyage, DepartureFishingVoyage, ConfirmFishingVoyageLanding,
              CloseFishingVoyage, CancelFishingVoyage
<1>4. voyage[v].state \in ActiveStates
  BY <1>2 DEF ClearFishingVoyage, DepartureFishingVoyage, ConfirmFishingVoyageLanding,
              CloseFishingVoyage, CancelFishingVoyage, DepartureAllowed, LandingAllowed,
              CloseAllowed, CancelAllowed, VoyageMayMove, VoyageMoves, ActiveStates
<1>5. \E s \in {"cleared", "at_sea", "landed", "closed", "cancelled"} : voyage' = MoveVoyage(v, s)
  BY <1>2 DEF ClearFishingVoyage, DepartureFishingVoyage, ConfirmFishingVoyageLanding,
              CloseFishingVoyage, CancelFishingVoyage
<1>6. \A b \in Vessels : vessel'[b].expires = vessel[b].expires
  <2>1. \/ vessel' = vessel
        \/ \E B, s : vessel' = MoveVessels(B, s)
        \/ \E B, s : vessel' = BookVessels(B, s, None)
    BY <1>2 DEF ClearFishingVoyage, DepartureFishingVoyage, ConfirmFishingVoyageLanding,
                      CloseFishingVoyage, CancelFishingVoyage
  <2>. QED  BY <1>0, <2>1, CertificatesKept
<1>. QED  BY <1>1, <1>3, <1>4, <1>5, <1>6

\* Every step plans or is quiet.
LEMMA PlanOrQuiet ==
  ASSUME TypeOK, [LateNext]_vars
  PROVE  \/ Quiet
         \/ \E k \in Keys, q \in Request, t \in Nat : t <= now /\ PlanEffect(k, q, t)
<1>0. /\ vessel \in [Vessels -> Vessel] /\ now \in Nat
  BY DEF TypeOK, Time
<1>1. ASSUME idem' = idem, links' = links, voyage' = voyage, now' \in {now, now + 1},
             \A b \in Vessels : vessel[b].state # "absent" => vessel'[b].expires = vessel[b].expires
      PROVE  Quiet
  BY <1>0, <1>1 DEF Quiet
<1>2. ASSUME NEW p \in Users, CatalogNext(p) PROVE Quiet
  <2>1. idem' = idem /\ links' = links /\ voyage' = voyage /\ now' = now
    BY <1>2 DEF CatalogNext, CreateFishingPermit, ActivateFishingPermit, CreateSupportFleet,
                StartMaintenance, CompleteMaintenance, RetireFleet, RegisterFishingVessel,
                VerifyFishingVessel
  <2>2. ASSUME NEW b \in Vessels, vessel[b].state # "absent"
        PROVE  vessel'[b].expires = vessel[b].expires
    <3>1. ASSUME NEW c \in Vessels, NEW expires \in CertTimes, RegisterFishingVessel(p, c, expires)
          PROVE  vessel'[b].expires = vessel[b].expires
      BY <1>0, <2>2, <3>1 DEF RegisterFishingVessel
    <3>2. ASSUME NEW c \in Vessels, VerifyFishingVessel(p, c)
          PROVE  vessel'[b].expires = vessel[b].expires
      BY <1>0, <3>2 DEF VerifyFishingVessel, Vessel
    <3>. QED  BY <1>2, <3>1, <3>2
                 DEF CatalogNext, CreateFishingPermit, ActivateFishingPermit, CreateSupportFleet,
                     StartMaintenance, CompleteMaintenance, RetireFleet
  <2>. QED  BY <1>1, <2>1, <2>2
<1>3. ASSUME NEW p \in Users, ReviewNext(p) PROVE Quiet
  <2>1. idem' = idem /\ links' = links /\ voyage' = voyage /\ now' = now
    BY <1>3 DEF ReviewNext, DeclareInRange, DeclareOutOfRange, StartReview, Decide
  <2>2. \/ vessel' = vessel
        \/ \E B, s, n : vessel' = MarkVessels(B, s, n)
    BY <1>3 DEF ReviewNext, DeclareInRange, DeclareOutOfRange, StartReview, Decide
  <2>3. \A b \in Vessels : vessel'[b].expires = vessel[b].expires
    BY <1>0, <2>2, CertificatesKept
  <2>. QED  BY <1>1, <2>1, <2>3
<1>4. ASSUME NEW p \in Users, HandoffNext(p) PROVE Quiet
  BY <1>1, <1>4 DEF HandoffNext, CreateCatchLandingTask, ResolveCatchLandingTask
<1>5. CASE WorkerPass \/ Tick \/ UNCHANGED vars
  BY <1>1, <1>5 DEF WorkerPass, ExpireTasks, Tick, vars
<1>. QED  BY <1>1, <1>2, <1>3, <1>4, <1>5, TransitionQuiet, PlanCases DEF LateNext, Plans, vars

\* While a voyage's record is young, it is the one under its key, and it expires with the
\* lifetime counted from the time the plan had read.
RecordOf(v) ==
  voyage[v].state # "absent" =>
    /\ voyage[v].key \in Keys
    /\ now < voyage[v].created + IdemTTL =>
         /\ idem[voyage[v].key] # None
         /\ idem[voyage[v].key].hash.code = v
         /\ idem[voyage[v].key].expires = voyage[v].created + IdemTTL

RecordsKept == \A v \in Voyages : RecordOf(v)

\* For any number of keys and coordinators, and plans that commit late: a retry of a key
\* answers with the voyage planned under it for the record's whole lifetime
\* (PutIdempotency only overwrites a record that has expired by the time the plan read).
THEOREM RetriesReplay == LateSpec => []ReplayableWhileLive
<1>1. Init => RecordsKept
  BY DEF Init, NoVoyage, RecordsKept, RecordOf
<1>2. TypeOK /\ RecordsKept /\ [LateNext]_vars => RecordsKept'
  <2>. SUFFICES ASSUME TypeOK, RecordsKept, [LateNext]_vars, NEW v \in Voyages,
                       voyage'[v].state # "absent"
                PROVE  RecordOf(v)'
    BY DEF RecordsKept, RecordOf
  <2>0. /\ voyage \in [Voyages -> Voyage] /\ idem \in [Keys -> Record \cup {None}]
        /\ now \in Nat /\ RecordOf(v) /\ IdemTTL \in Nat
        /\ voyage[v].created \in Nat
    BY ParameterAssumption DEF TypeOK, Time, RecordsKept, Voyage
  <2>1. CASE Quiet
    <3>1. /\ voyage[v].state # "absent" /\ voyage'[v].created = voyage[v].created
          /\ voyage'[v].key = voyage[v].key /\ idem' = idem /\ now' \in Nat /\ now' >= now
      BY <2>1 DEF Quiet
    <3>2. now' < voyage[v].created + IdemTTL => now < voyage[v].created + IdemTTL
      BY <2>0, <3>1
    <3>. QED  BY <2>0, <3>1, <3>2 DEF RecordOf
  <2>2. ASSUME NEW k \in Keys, NEW q \in Request, NEW t \in Nat, t <= now, PlanEffect(k, q, t)
        PROVE  RecordOf(v)'
    <3>0. /\ now' = now /\ idem' = [idem EXCEPT ![k] = [hash |-> q, expires |-> t + IdemTTL]]
          /\ voyage' = [voyage EXCEPT ![q.code] =
                          [state |-> "planned", from |-> q.from, fleet |-> q.fleet,
                           start |-> q.start, finish |-> q.finish, created |-> t, key |-> k]]
          /\ idem[k] = None \/ idem[k].expires <= t
      BY <2>2 DEF PlanEffect
    <3>1. CASE v = q.code
      <4>1. voyage'[v].created = t /\ voyage'[v].key = k /\ idem'[k] # None
            /\ idem'[k].hash = q /\ idem'[k].expires = t + IdemTTL
        <5>1. [hash |-> q, expires |-> t + IdemTTL] # None
          <6>1. [hash |-> q, expires |-> t + IdemTTL] \in Record
            BY <2>0, <2>2 DEF Record, Time
          <6>. QED  BY <6>1, RecordAssumption
        <5>. QED  BY <2>0, <3>0, <3>1, <5>1
      <4>. QED  BY <3>1, <4>1 DEF RecordOf
    <3>2. CASE v # q.code
      <4>1. voyage'[v] = voyage[v] /\ voyage[v].state # "absent" /\ voyage[v].key \in Keys
        BY <2>0, <3>0, <3>2 DEF RecordOf
      <4>2. now < voyage[v].created + IdemTTL => voyage[v].key # k
        BY <2>0, <2>2, <3>0, <4>1 DEF RecordOf
      <4>. QED  BY <2>0, <3>0, <4>1, <4>2 DEF RecordOf
    <3>. QED  BY <3>1, <3>2
  <2>. QED  BY <2>1, <2>2, PlanOrQuiet
<1>3. RecordsKept => ReplayableWhileLive
  BY DEF RecordsKept, RecordOf, ReplayableWhileLive
<1>. QED  BY <1>1, <1>2, <1>3, TypeCorrect, PTL DEF LateSpec

\* A booked vessel's certificate outlives the landing deadline of its voyage.
CertifiedUntilDeadline ==
  \A v \in Voyages :
    voyage[v].state \in ActiveStates => \A b \in VesselsOf(v) : vessel[b].expires > voyage[v].finish

LEMMA CertificatesHold == LateSpec => []CertifiedUntilDeadline
<1>1. Init => CertifiedUntilDeadline
  BY DEF Init, NoVoyage, CertifiedUntilDeadline, ActiveStates
<1>2. TypeOK /\ VesselFollowsVoyage /\ CertifiedUntilDeadline /\ [LateNext]_vars => CertifiedUntilDeadline'
  <2>. SUFFICES ASSUME TypeOK, VesselFollowsVoyage, CertifiedUntilDeadline, [LateNext]_vars,
                       NEW v \in Voyages, voyage'[v].state \in ActiveStates,
                       NEW b \in Vessels, <<v, b>> \in links'
                PROVE  vessel'[b].expires > voyage'[v].finish
    BY DEF CertifiedUntilDeadline, VesselsOf
  <2>0. /\ voyage \in [Voyages -> Voyage] /\ vessel \in [Vessels -> Vessel]
    BY DEF TypeOK
  <2>1. CASE Quiet
    <3>1. /\ b \in VesselsOf(v) /\ voyage[v].state \in ActiveStates
          /\ voyage'[v].finish = voyage[v].finish
      BY <2>1 DEF Quiet, VesselsOf
    <3>2. vessel[b].state # "absent"
      BY <3>1 DEF VesselFollowsVoyage, FollowsVoyage, InPhase
    <3>. QED  BY <2>1, <3>1, <3>2 DEF Quiet, CertifiedUntilDeadline
  <2>2. ASSUME NEW k \in Keys, NEW q \in Request, NEW t \in Nat, PlanEffect(k, q, t)
        PROVE  vessel'[b].expires > voyage'[v].finish
    <3>0. /\ voyage[q.code].state = "absent" /\ q.code \in Voyages
          /\ \A c \in q.vessels : LinkFree(c) /\ vessel[c].expires > q.finish
          /\ voyage' = [voyage EXCEPT ![q.code] =
                          [state |-> "planned", from |-> q.from, fleet |-> q.fleet,
                           start |-> q.start, finish |-> q.finish, created |-> t, key |-> k]]
          /\ links' = links \cup ({q.code} \X q.vessels)
          /\ vessel' = BookVessels(q.vessels, "assigned", q.code)
      BY <2>2 DEF PlanEffect, Request
    <3>1. vessel'[b].expires = vessel[b].expires
      BY <2>0, <3>0, CertificatesKept
    <3>2. CASE v = q.code
      <4>1. voyage'[v].finish = q.finish
        BY <2>0, <3>0, <3>2
      <4>2. b \in q.vessels
        BY <3>0, <3>2 DEF VesselFollowsVoyage, FollowsVoyage, InPhase, VesselsOf
      <4>3. vessel[b].expires \in Nat /\ q.finish \in Nat
        BY <2>0 DEF Vessel, Request, Time
      <4>. QED  BY <3>0, <3>1, <4>1, <4>2, <4>3
    <3>3. CASE v # q.code
      <4>1. voyage'[v] = voyage[v] /\ b \in VesselsOf(v)
        BY <2>0, <3>0, <3>3 DEF VesselsOf
      <4>. QED  BY <3>1, <4>1 DEF CertifiedUntilDeadline
    <3>. QED  BY <3>2, <3>3
  <2>. QED  BY <2>1, <2>2, PlanOrQuiet
<1>. QED  BY <1>1, <1>2, TypeCorrect, VesselsFollow, PTL DEF LateSpec

\* For any number of vessels and voyages, and plans that commit late: a voyage that keeps its
\* landing deadline is never stopped by a certificate (FishingVessel.Transition).
THEOREM OnTimeVoyagesMove == LateSpec => []OnTimeNeverBlocked
<1>1. TypeOK /\ VesselFollowsVoyage /\ CertifiedUntilDeadline => OnTimeNeverBlocked
  <2>. SUFFICES ASSUME TypeOK, VesselFollowsVoyage, CertifiedUntilDeadline,
                       NEW v \in Voyages, now <= voyage[v].finish
                PROVE  /\ (\A b \in VesselsOf(v) : vessel[b].state = "assigned")
                          => /\ voyage[v].state \in {"planned", "cleared"} => CancelAllowed(v)
                             /\ voyage[v].state = "cleared" => DepartureAllowed(v)
                       /\ voyage[v].state = "at_sea" => LandingAllowed(v)
    BY DEF OnTimeNeverBlocked
  <2>1. ASSUME voyage[v].state \in ActiveStates, NEW b \in VesselsOf(v), vessel[b].state # "retired"
        PROVE  IsUsable(b)
    <3>1. vessel[b].expires > voyage[v].finish
      BY <2>1 DEF CertifiedUntilDeadline
    <3>2. vessel[b].expires \in Nat /\ voyage[v].finish \in Nat /\ now \in Nat
      BY DEF TypeOK, Vessel, Voyage, Time, VesselsOf
    <3>. QED  BY <2>1, <3>1, <3>2 DEF IsUsable
  <2>2. ASSUME \A b \in VesselsOf(v) : vessel[b].state = "assigned",
               voyage[v].state \in {"planned", "cleared"}
        PROVE  /\ CancelAllowed(v)
               /\ voyage[v].state = "cleared" => DepartureAllowed(v)
    <3>1. \A b \in VesselsOf(v) : VesselMayMove(b, "sea_ready") /\ VesselMayMove(b, "at_sea")
      BY <2>1, <2>2 DEF VesselMayMove, VesselMoves, ActiveStates
    <3>. QED  BY <2>2, <3>1 DEF CancelAllowed, DepartureAllowed, VoyageMayMove, VoyageMoves
  <2>3. ASSUME voyage[v].state = "at_sea" PROVE LandingAllowed(v)
    <3>1. ASSUME NEW b \in VesselsOf(v) PROVE SkipsLanding(b) \/ VesselMayMove(b, "landed")
      <4>1. SkipsLanding(b) \/ vessel[b].state = "at_sea"
        BY <2>3, <3>1 DEF SkipsLanding, VesselFollowsVoyage, FollowsVoyage, InPhase, VesselsOf
      <4>2. CASE vessel[b].state = "at_sea"
        <5>1. IsUsable(b)
          BY <2>1, <2>3, <4>2 DEF ActiveStates
        <5>. QED  BY <4>2, <5>1 DEF VesselMayMove, VesselMoves
      <4>. QED  BY <4>1, <4>2
    <3>2. VoyageMayMove(v, "landed")
      BY <2>3 DEF VoyageMayMove, VoyageMoves
    <3>. QED  BY <3>1, <3>2 DEF LandingAllowed
  <2>. QED  BY <2>2, <2>3
<1>. QED  BY <1>1, TypeCorrect, VesselsFollow, CertificatesHold, PTL

=============================================================================
