------------------------------ MODULE VoyageOps ------------------------------
(***************************************************************************)
(* The operational core: the catalog, voyage, catch-declaration, anomaly-  *)
(* review and catch-landing services over the SQLite tables they share.    *)
(*                                                                         *)
(* Every service operation runs inside one Store.WithTx transaction.  A    *)
(* deferred SQLite transaction reads one snapshot and may only commit when *)
(* no other writer committed since, so a committed operation is one step   *)
(* here; a refused or rolled-back one leaves every table alone and is a    *)
(* disabled action.                                                        *)
(*                                                                         *)
(* Rows are records in functions from identifiers; a row that has not been *)
(* inserted is in the state "absent".  Time is the injected clock, counted *)
(* in whole seconds, for which the text the tables hold orders as the      *)
(* times do; TimedRows looks below the second.  Audit rows, timestamps no  *)
(* rule reads and row versions (which a single-snapshot transaction never  *)
(* finds stale) are left out.                                              *)
(***************************************************************************)
EXTENDS Naturals, FiniteSets, FiniteSetsExt

CONSTANTS
  Permits, Ports, Vessels, Fleets, \* catalog identifiers
  Voyages,     \* voyage rows; one identifier stands for the id and the unique voyage_code
  Tasks,       \* catch-landing task identifiers
  Anomalies,   \* catch-anomaly identifiers
  Users,       \* authenticated principals
  Keys,        \* Idempotency-Key values of plan requests
  Seqs,        \* (species, sequence) pairs a declaration can carry
  None,        \* SQL NULL / the empty string
  RoleOf,      \* the role of each user
  PermitOf, PortOf, HoldOf, \* the permit, departure port and hold of each vessel
  CargoOf,     \* cargo capacity of each fleet
  DailyLimit,  \* departures a port accepts per operating day
  DayLength, Cutoff, \* ticks per operating day, and the tick of the day it starts at
  MaxVoyageDuration, \* of every permit
  Grace,       \* how far in the past a departure window may open (15 minutes)
  TaskTTL,     \* lifetime of a pending catch-landing task
  IdemTTL,     \* lifetime of an idempotency record (24 hours)
  Batch,       \* worker batch size
  CertTimes,   \* bound: certificate and inspection times a catalog entry may carry
  StartTimes,  \* bound: departure windows a request may ask for
  MaxTime      \* bound on the clock

ASSUME NoneAssumption ==
  None \notin Voyages \cup Anomalies \cup Fleets \cup Users \cup Keys

ASSUME ParameterAssumption ==
  /\ RoleOf \in [Users -> {"voyage_coordinator", "vessel_captain",
                           "fisheries_officer", "compliance_auditor"}]
  /\ PermitOf \in [Vessels -> Permits]
  /\ PortOf \in [Vessels -> Ports]
  /\ HoldOf \in [Vessels -> Nat \ {0}]
  /\ CargoOf \in [Fleets -> Nat]
  /\ DailyLimit \in [Ports -> Nat \ {0}]
  /\ DayLength \in Nat \ {0}
  /\ Cutoff \in 0 .. DayLength - 1
  /\ MaxVoyageDuration \in Nat /\ Grace \in Nat
  /\ TaskTTL \in Nat \ {0} /\ IdemTTL \in Nat \ {0} /\ Batch \in Nat \ {0}
  /\ CertTimes \subseteq Nat /\ StartTimes \subseteq Nat
  /\ MaxTime \in Nat

ASSUME VesselsAssumption == IsFiniteSet(Vessels)

VARIABLES
  permit,       \* fishing_permits.status
  vessel,       \* fishing_vessels
  fleet,        \* support_fleets
  voyage,       \* fishing_voyages
  links,        \* fishing_voyage_vessels
  task,         \* catch_landing_tasks
  declared,     \* catch_declarations
  anomaly,      \* catch_anomalies
  dispositions, \* anomaly_dispositions
  idem,         \* idempotency_records of the scope "plan-mission"
  outbox,       \* rows ever inserted into outbox_jobs
  now           \* the clock

vars == <<permit, vessel, fleet, voyage, links, task, declared, anomaly,
          dispositions, idem, outbox, now>>

-----------------------------------------------------------------------------
(* Row types.                                                              *)

Time == Nat

VesselStates == {"absent", "berthed", "sea_ready", "assigned", "at_sea", "landed",
                 "quarantined", "reinspected", "retired"}

FleetStates == {"absent", "standby", "assigned", "deployed", "maintenance", "retired"}

VoyageStates == {"absent", "planned", "cleared", "at_sea", "landed", "closed", "cancelled"}

TaskStatuses == {"absent", "pending", "approved", "denied", "expired"}

AnomalyStatuses == {"absent", "open", "reviewing", "cleared", "rejected"}

\* quarantine_note: the anomaly it names, or None for any other text.
Vessel == [state : VesselStates, expires : Time,
           voyage : Voyages \cup {None}, note : Anomalies \cup {None}]

Fleet == [state : FleetStates, due : Time, inspected : Time, voyage : Voyages \cup {None}]

\* What the idempotency hash covers.
Request == [code : Voyages, permit : Permits, from : Ports, to : Ports, fleet : Fleets,
            vessels : SUBSET Vessels, start : Time, finish : Time]

\* The voyage row; `key` is history: the Idempotency-Key that planned it.
Voyage == [state : VoyageStates, from : Ports \cup {None}, fleet : Fleets \cup {None},
           start : Time, finish : Time, created : Time, key : Keys \cup {None}]

Task == [status : TaskStatuses, voyage : Voyages \cup {None},
         coordinator : Users \cup {None}, officer : Users \cup {None},
         expires : Time, resolved : Time]

\* First, last, minimum, maximum and count are functions of the readings.
Anomaly == [status : AnomalyStatuses, voyage : Voyages \cup {None}, readings : SUBSET Seqs]

Record == [hash : Request, expires : Time]

ASSUME RecordAssumption == None \notin Record

Job == [kind : {"fishing_voyage_planned"}, voyage : Voyages]
         \cup [kind : {"catch_anomaly_review"}, anomaly : Anomalies, cause : Seqs]

NoVessel == [state |-> "absent", expires |-> 0, voyage |-> None, note |-> None]
NoFleet == [state |-> "absent", due |-> 0, inspected |-> 0, voyage |-> None]
NoVoyage == [state |-> "absent", from |-> None, fleet |-> None,
             start |-> 0, finish |-> 0, created |-> 0, key |-> None]
NoTask == [status |-> "absent", voyage |-> None, coordinator |-> None,
           officer |-> None, expires |-> 0, resolved |-> 0]
NoAnomaly == [status |-> "absent", voyage |-> None, readings |-> {}]

Init ==
  /\ permit = [m \in Permits |-> "absent"]
  /\ vessel = [b \in Vessels |-> NoVessel]
  /\ fleet = [f \in Fleets |-> NoFleet]
  /\ voyage = [v \in Voyages |-> NoVoyage]
  /\ links = {}
  /\ task = [t \in Tasks |-> NoTask]
  /\ declared = {}
  /\ anomaly = [a \in Anomalies |-> NoAnomaly]
  /\ dispositions = {}
  /\ idem = [k \in Keys |-> None]
  /\ outbox = {}
  /\ now = 0

-----------------------------------------------------------------------------
(* Domain rules.                                                           *)

\* requireRole / Principal.Can.
Can(p, roles) == RoleOf[p] \in roles

VesselMoves ==
  {<<"berthed", "sea_ready">>, <<"berthed", "retired">>,
   <<"sea_ready", "assigned">>, <<"sea_ready", "retired">>,
   <<"assigned", "sea_ready">>, <<"assigned", "at_sea">>,
   <<"at_sea", "landed">>, <<"at_sea", "quarantined">>,
   <<"landed", "reinspected">>, <<"landed", "quarantined">>,
   <<"quarantined", "reinspected">>, <<"quarantined", "retired">>}

VoyageMoves ==
  {<<"planned", "cleared">>, <<"planned", "cancelled">>,
   <<"cleared", "at_sea">>, <<"cleared", "cancelled">>,
   <<"at_sea", "landed">>, <<"landed", "closed">>}

\* FishingVessel.IsUsableAt(now): a certificate is good strictly before its expiry.
IsUsable(b) == vessel[b].expires > now /\ vessel[b].state # "retired"

\* FishingVessel.Transition succeeds.
VesselMayMove(b, to) ==
  /\ <<vessel[b].state, to>> \in VesselMoves
  /\ IsUsable(b) \/ to \in {"retired", "quarantined"}

\* FishingVoyage.Transition succeeds.
VoyageMayMove(v, to) == <<voyage[v].state, to>> \in VoyageMoves

\* ListFishingVoyageVessels: through the link table.
VesselsOf(v) == {b \in Vessels : <<v, b>> \in links}

\* The UNIQUE constraint on fishing_voyage_vessels.fishing_vessel_id.
LinkFree(b) == \A v \in Voyages : <<v, b>> \notin links

IsActiveAnomaly(a, v) == anomaly[a].voyage = v /\ anomaly[a].status \in {"open", "reviewing"}

IsPending(t, v) == task[t].voyage = v /\ task[t].status = "pending"

\* GetActiveCatchAnomaly and GetPendingCatchLanding find a row.
HasActiveAnomaly(v) == \E a \in Anomalies : IsActiveAnomaly(a, v)
HasPendingTask(v) == \E t \in Tasks : IsPending(t, v)

\* Mutant: the fleet's state is not looked at.
EligibleForAnyState(f, start, volume) ==
  fleet[f].due > start /\ fleet[f].inspected <= start /\ CargoOf[f] >= volume

\* SupportFleet.EligibleFor(plannedStart, volume); certified means inspected by then and
\* not yet due.
EligibleFor(f, start, volume) ==
  /\ fleet[f].state = "standby"
  /\ fleet[f].due > start
  /\ fleet[f].inspected <= start
  /\ CargoOf[f] >= volume

\* PortFacility.OperatingDayWindow: a time before the cutoff belongs to the day before.
OperatingDay(t) == (t + DayLength - Cutoff) \div DayLength

\* The voyages CountPortFacilityFishingVoyagesForWindow counts.
DayVoyages(port, day) ==
  {v \in Voyages : /\ voyage[v].state \notin {"absent", "cancelled"}
                   /\ voyage[v].from = port
                   /\ OperatingDay(voyage[v].start) = day}

\* Mutant: certificates are only good today.
WindowValidToday(q) ==
  /\ q.finish > q.start
  /\ q.finish - q.start <= MaxVoyageDuration
  /\ q.start + Grace >= now
  /\ \A b \in q.vessels : vessel[b].expires > now

\* VoyageWindow.Validate.
WindowValid(q) ==
  /\ q.finish > q.start
  /\ q.finish - q.start <= MaxVoyageDuration
  /\ q.start + Grace >= now
  /\ \A b \in q.vessels : vessel[b].expires > q.finish

\* An idempotency record that still answers retries.
IsLive(k) == idem[k] # None /\ idem[k].expires > now

\* Mutant: an expired record is kept.
PutIdempotencyOnce(k, r) == IF idem[k] = None THEN [idem EXCEPT ![k] = r] ELSE idem

\* PutIdempotency: an upsert that only overwrites an expired record.
PutIdempotency(k, r) ==
  IF idem[k] = None \/ idem[k].expires <= now THEN [idem EXCEPT ![k] = r] ELSE idem

\* UpdateSupportFleet with a new state and assignment.
AssignFleet(f, state, v) == [fleet EXCEPT ![f] = [@ EXCEPT !.state = state, !.voyage = v]]

\* UpdateFishingVessel over the vessels of B: a new state, and perhaps a new voyage.
MoveVessels(B, state) ==
  [b \in Vessels |-> IF b \in B THEN [vessel[b] EXCEPT !.state = state] ELSE vessel[b]]

BookVessels(B, state, v) ==
  [b \in Vessels |-> IF b \in B THEN [vessel[b] EXCEPT !.state = state, !.voyage = v]
                                 ELSE vessel[b]]

\* Mutant: the quarantine note is not written.
MarkVesselsWithoutNote(B, state, note) == MoveVessels(B, state)

\* UpdateFishingVessel over the vessels of B: a new state and quarantine note.
MarkVessels(B, state, note) ==
  [b \in Vessels |-> IF b \in B THEN [vessel[b] EXCEPT !.state = state, !.note = note]
                                 ELSE vessel[b]]

\* UpdateFishingVoyage with a new state.
MoveVoyage(v, state) == [voyage EXCEPT ![v].state = state]

TotalHold(B) == MapThenSumSet(LAMBDA b : HoldOf[b], B)

-----------------------------------------------------------------------------
(* CatalogService.                                                         *)

CreateFishingPermit(p, m) ==
  /\ Can(p, {"voyage_coordinator"})
  /\ permit[m] = "absent"
  /\ permit' = [permit EXCEPT ![m] = "draft"]
  /\ UNCHANGED <<vessel, fleet, voyage, links, task, declared, anomaly, dispositions,
                 idem, outbox, now>>

ActivateFishingPermit(p, m) ==
  /\ Can(p, {"voyage_coordinator"})
  /\ permit[m] = "draft"
  /\ permit' = [permit EXCEPT ![m] = "active"]
  /\ UNCHANGED <<vessel, fleet, voyage, links, task, declared, anomaly, dispositions,
                 idem, outbox, now>>

CreateSupportFleet(p, f, due, inspected) ==
  /\ Can(p, {"voyage_coordinator"})
  /\ fleet[f].state = "absent"
  /\ fleet' = [fleet EXCEPT ![f] = [state |-> "standby", due |-> due,
                                    inspected |-> inspected, voyage |-> None]]
  /\ UNCHANGED <<permit, vessel, voyage, links, task, declared, anomaly, dispositions,
                 idem, outbox, now>>

\* The certificate's expiry is whatever the caller sends; the permit row must exist.
RegisterFishingVessel(p, b, expires) ==
  /\ Can(p, {"voyage_coordinator"})
  /\ permit[PermitOf[b]] # "absent"
  /\ vessel[b].state = "absent"
  /\ vessel' = [vessel EXCEPT ![b] = [state |-> "berthed", expires |-> expires,
                                      voyage |-> None, note |-> None]]
  /\ UNCHANGED <<permit, fleet, voyage, links, task, declared, anomaly, dispositions,
                 idem, outbox, now>>

\* Only the transition table is consulted, so an assigned vessel verifies too.
VerifyFishingVessel(p, b) ==
  /\ Can(p, {"voyage_coordinator"})
  /\ VesselMayMove(b, "sea_ready")
  /\ vessel' = [vessel EXCEPT ![b].state = "sea_ready"]
  /\ UNCHANGED <<permit, fleet, voyage, links, task, declared, anomaly, dispositions,
                 idem, outbox, now>>

-----------------------------------------------------------------------------
(* SupportFleetService.                                                    *)

StartMaintenance(p, f) ==
  /\ Can(p, {"voyage_coordinator"})
  /\ fleet[f].state = "standby"
  /\ fleet' = [fleet EXCEPT ![f].state = "maintenance"]
  /\ UNCHANGED <<permit, vessel, voyage, links, task, declared, anomaly, dispositions,
                 idem, outbox, now>>

CompleteMaintenance(p, f) ==
  /\ Can(p, {"voyage_coordinator"})
  /\ fleet[f].state = "maintenance"
  /\ fleet' = [fleet EXCEPT ![f].state = "standby", ![f].inspected = now]
  /\ UNCHANGED <<permit, vessel, voyage, links, task, declared, anomaly, dispositions,
                 idem, outbox, now>>

RetireFleet(p, f) ==
  /\ Can(p, {"voyage_coordinator"})
  /\ fleet[f].state \in {"standby", "maintenance"}
  /\ fleet' = AssignFleet(f, "retired", None)
  /\ UNCHANGED <<permit, vessel, voyage, links, task, declared, anomaly, dispositions,
                 idem, outbox, now>>

-----------------------------------------------------------------------------
(* VoyageService.                                                          *)

\* The port still has a departure left on the operating day of the request.
WithinDailyLimit(q) ==
  Cardinality(DayVoyages(q.from, OperatingDay(q.start))) < DailyLimit[q.from]

\* The checks of PlanFishingVoyage before it writes, in order: permit, route, daily
\* limit, vessels (each must be able to become assigned), window, fleet.
PlanAccepted(q) ==
  /\ q.vessels # {}
  /\ permit[q.permit] = "active"
  /\ q.from # q.to
  /\ WithinDailyLimit(q)
  /\ \A b \in q.vessels : /\ PermitOf[b] = q.permit /\ PortOf[b] = q.from
                          /\ VesselMayMove(b, "assigned")
  /\ WindowValid(q)
  /\ EligibleFor(q.fleet, q.start, TotalHold(q.vessels))

\* Mutant: a vessel may be linked twice.
PlanInsertableLinked(q) == voyage[q.code].state = "absent"

\* The schema's constraints on what it inserts: a new voyage_code, unlinked vessels.
PlanInsertable(q) ==
  /\ voyage[q.code].state = "absent"
  /\ \A b \in q.vessels : LinkFree(b)

PlanFishingVoyage(p, k, q) ==
  /\ Can(p, {"voyage_coordinator"})
  /\ ~IsLive(k)
  /\ PlanAccepted(q)
  /\ PlanInsertable(q)
  /\ voyage' = [voyage EXCEPT ![q.code] =
                  [state |-> "planned", from |-> q.from, fleet |-> q.fleet,
                   start |-> q.start, finish |-> q.finish, created |-> now, key |-> k]]
  /\ vessel' = BookVessels(q.vessels, "assigned", q.code)
  /\ links' = links \cup ({q.code} \X q.vessels)
  /\ fleet' = AssignFleet(q.fleet, "assigned", q.code)
  /\ idem' = PutIdempotency(k, [hash |-> q, expires |-> now + IdemTTL])
  /\ outbox' = outbox \cup {[kind |-> "fishing_voyage_planned", voyage |-> q.code]}
  /\ UNCHANGED <<permit, task, declared, anomaly, dispositions, now>>

\* A retry under a live key with the same request: the stored response, no write.
ReplayPlan(p, k) ==
  /\ Can(p, {"voyage_coordinator"})
  /\ IsLive(k)
  /\ UNCHANGED vars

\* transitionAny(cleared): vessels untouched, the fleet row is rewritten as it was.
ClearFishingVoyage(p, v) ==
  /\ Can(p, {"voyage_coordinator"})
  /\ VoyageMayMove(v, "cleared")
  /\ voyage' = MoveVoyage(v, "cleared")
  /\ UNCHANGED <<permit, vessel, fleet, links, task, declared, anomaly, dispositions,
                 idem, outbox, now>>

\* transitionAny(at_sea): every linked vessel must be able to go to sea.
DepartureAllowed(v) ==
  /\ VoyageMayMove(v, "at_sea")
  /\ \A b \in VesselsOf(v) : VesselMayMove(b, "at_sea")

DepartureFishingVoyage(p, v) ==
  /\ Can(p, {"vessel_captain", "voyage_coordinator"})
  /\ DepartureAllowed(v)
  /\ voyage' = MoveVoyage(v, "at_sea")
  /\ vessel' = MoveVessels(VesselsOf(v), "at_sea")
  /\ fleet' = [fleet EXCEPT ![voyage[v].fleet].state = "deployed"]
  /\ UNCHANGED <<permit, links, task, declared, anomaly, dispositions, idem, outbox, now>>

\* Mutant: a reinspected vessel is asked to land again.
SkipsLandingReinspected(b) == vessel[b].state \in {"quarantined", "retired"}

\* transitionAny(landed): vessels already out of the voyage are skipped.
SkipsLanding(b) == vessel[b].state \in {"quarantined", "retired", "reinspected"}

LandingAllowed(v) ==
  /\ VoyageMayMove(v, "landed")
  /\ \A b \in VesselsOf(v) : SkipsLanding(b) \/ VesselMayMove(b, "landed")

ConfirmFishingVoyageLanding(p, v) ==
  /\ Can(p, {"vessel_captain", "voyage_coordinator"})
  /\ LandingAllowed(v)
  /\ voyage' = MoveVoyage(v, "landed")
  /\ vessel' = MoveVessels({b \in VesselsOf(v) : ~SkipsLanding(b)}, "landed")
  /\ UNCHANGED <<permit, fleet, links, task, declared, anomaly, dispositions,
                 idem, outbox, now>>

\* Mutant: only landed vessels do not block closure.
CloseAllowedLandedOnly(v) ==
  /\ ~HasPendingTask(v)
  /\ ~HasActiveAnomaly(v)
  /\ VoyageMayMove(v, "closed")
  /\ \A b \in VesselsOf(v) : vessel[b].state = "landed"

\* transitionAny(closed): no pending task, no active anomaly, every vessel settled.
CloseAllowed(v) ==
  /\ ~HasPendingTask(v)
  /\ ~HasActiveAnomaly(v)
  /\ VoyageMayMove(v, "closed")
  /\ \A b \in VesselsOf(v) : vessel[b].state \in {"reinspected", "retired", "landed"}

CloseFishingVoyage(p, v) ==
  /\ Can(p, {"voyage_coordinator"})
  /\ CloseAllowed(v)
  /\ voyage' = MoveVoyage(v, "closed")
  /\ fleet' = AssignFleet(voyage[v].fleet, "standby", None)
  /\ UNCHANGED <<permit, vessel, links, task, declared, anomaly, dispositions,
                 idem, outbox, now>>

\* CancelFishingVoyage: every linked vessel must be able to return to sea_ready; the
\* link rows stay.
CancelAllowed(v) ==
  /\ VoyageMayMove(v, "cancelled")
  /\ \A b \in VesselsOf(v) : VesselMayMove(b, "sea_ready")

CancelFishingVoyage(p, v) ==
  /\ Can(p, {"voyage_coordinator"})
  /\ CancelAllowed(v)
  /\ voyage' = MoveVoyage(v, "cancelled")
  /\ vessel' = BookVessels(VesselsOf(v), "sea_ready", None)
  /\ fleet' = AssignFleet(voyage[v].fleet, "standby", None)
  /\ UNCHANGED <<permit, links, task, declared, anomaly, dispositions, idem, outbox, now>>

-----------------------------------------------------------------------------
(* CatchDeclarationService and ReviewService.                              *)

\* A declaration is accepted: the voyage is out or back, (species, sequence) is new.
DeclarationAccepted(p, v, s) ==
  /\ Can(p, {"vessel_captain", "voyage_coordinator"})
  /\ voyage[v].state \in {"at_sea", "landed"}
  /\ <<v, s>> \notin declared

\* SubmitCatchDeclaration with a variance inside the permit's envelope.
DeclareInRange(p, v, s) ==
  /\ DeclarationAccepted(p, v, s)
  /\ declared' = declared \cup {<<v, s>>}
  /\ UNCHANGED <<permit, vessel, fleet, voyage, links, task, anomaly, dispositions,
                 idem, outbox, now>>

\* Mutant: every declaration opens an anomaly.
TargetAnomalyNew(a, v) == anomaly[a].status = "absent"

\* The row an out-of-envelope declaration goes to: the active anomaly, else a new one.
TargetAnomaly(a, v) ==
  \/ IsActiveAnomaly(a, v)
  \/ anomaly[a].status = "absent" /\ ~HasActiveAnomaly(v)

\* Mutant: reinspected vessels are taken in again.
QuarantinableReinspected(v) ==
  {b \in VesselsOf(v) : vessel[b].state \in {"at_sea", "landed", "reinspected"}}

\* The vessels it quarantines.
Quarantinable(v) == {b \in VesselsOf(v) : vessel[b].state \in {"at_sea", "landed"}}

\* InsertJob of a catch_anomaly_review.
EnqueueReview(a, s) ==
  outbox \cup {[kind |-> "catch_anomaly_review", anomaly |-> a, cause |-> s]}

\* SubmitCatchDeclaration with a variance outside it.
DeclareOutOfRange(p, v, s, a) ==
  /\ DeclarationAccepted(p, v, s)
  /\ TargetAnomaly(a, v)
  /\ declared' = declared \cup {<<v, s>>}
  /\ anomaly' = [anomaly EXCEPT ![a] =
                   [status |-> IF @.status = "absent" THEN "open" ELSE @.status,
                    voyage |-> v, readings |-> @.readings \cup {s}]]
  /\ vessel' = MarkVessels(Quarantinable(v), "quarantined", a)
  /\ outbox' = EnqueueReview(a, s)
  /\ UNCHANGED <<permit, fleet, voyage, links, task, dispositions, idem, now>>

StartReview(p, a) ==
  /\ Can(p, {"fisheries_officer"})
  /\ anomaly[a].status = "open"
  /\ anomaly' = [anomaly EXCEPT ![a].status = "reviewing"]
  /\ UNCHANGED <<permit, vessel, fleet, voyage, links, task, declared, dispositions,
                 idem, outbox, now>>

\* FishingVessel.IsQuarantinedForCatchAnomaly.
QuarantinedFor(b, a) == vessel[b].state = "quarantined" /\ vessel[b].note = a

\* CatchAnomaly.Decide succeeds.
Decidable(a) == anomaly[a].status \in {"open", "reviewing"}

\* Mutants: the outcomes are swapped; the decision itself becomes the vessel's state.
OutcomeSwapped(decision) == IF decision = "cleared" THEN "retired" ELSE "reinspected"

OutcomeIsDecision(decision) == decision

\* What a decision makes of the vessels it settles; the rationale of a rejection becomes
\* a note that names no anomaly.
Outcome(decision) == IF decision = "cleared" THEN "reinspected" ELSE "retired"

Decide(p, a, decision) ==
  /\ Can(p, {"fisheries_officer"})
  /\ Decidable(a)
  /\ anomaly' = [anomaly EXCEPT ![a].status = decision]
  /\ vessel' = MarkVessels({b \in VesselsOf(anomaly[a].voyage) : QuarantinedFor(b, a)},
                           Outcome(decision), None)
  /\ dispositions' = dispositions \cup {[anomaly |-> a, decision |-> decision]}
  /\ UNCHANGED <<permit, fleet, voyage, links, task, declared, idem, outbox, now>>

-----------------------------------------------------------------------------
(* HandoffService and the worker's expiry pass.                            *)

\* Mutant: any voyage takes a task.
TaskAllowedAnyState(v) == voyage[v].state # "absent" /\ ~HasPendingTask(v)

\* The voyage is out or back and has no pending task.
TaskAllowed(v) == voyage[v].state \in {"at_sea", "landed"} /\ ~HasPendingTask(v)

\* Bound: only tasks whose expiry the bounded clock can pass.
CreateCatchLandingTask(p, t, v, coordinator, officer) ==
  /\ now + TaskTTL < MaxTime
  /\ Can(p, {"vessel_captain", "voyage_coordinator"})
  /\ TaskAllowed(v)
  /\ Can(officer, {"fisheries_officer"})
  /\ coordinator # officer
  /\ task[t].status = "absent"
  /\ task' = [task EXCEPT ![t] = [status |-> "pending", voyage |-> v,
                                  coordinator |-> coordinator, officer |-> officer,
                                  expires |-> now + TaskTTL, resolved |-> 0]]
  /\ UNCHANGED <<permit, vessel, fleet, voyage, links, declared, anomaly, dispositions,
                 idem, outbox, now>>

\* The assigned officer resolves it, or any coordinator; not after its expiry.
ResolveAllowed(p, t) ==
  /\ Can(p, {"fisheries_officer", "voyage_coordinator"})
  /\ task[t].officer = p \/ Can(p, {"voyage_coordinator"})
  /\ task[t].status = "pending"
  /\ now <= task[t].expires

ResolveCatchLandingTask(p, t, status) ==
  /\ ResolveAllowed(p, t)
  /\ task' = [task EXCEPT ![t].status = status, ![t].resolved = now]
  /\ UNCHANGED <<permit, vessel, fleet, voyage, links, declared, anomaly, dispositions,
                 idem, outbox, now>>

\* Mutant: the comparison is reversed.
OverdueReversed == {t \in Tasks : task[t].status = "pending" /\ task[t].expires > now}

\* ExpireCatchLandingTasks selects the pending tasks past their expiry, oldest expiry
\* first, at most a batch of them.
Overdue == {t \in Tasks : task[t].status = "pending" /\ task[t].expires < now}

OverdueBatch(S) ==
  /\ S \subseteq Overdue
  /\ Cardinality(S) = Min({Batch, Cardinality(Overdue)})
  /\ \A t \in S, u \in Overdue \ S : task[t].expires <= task[u].expires

\* The part of Worker.RunOnce that writes these tables.
ExpireTasks(S) ==
  /\ S # {}
  /\ OverdueBatch(S)
  /\ task' = [t \in Tasks |-> IF t \in S
                              THEN [task[t] EXCEPT !.status = "expired", !.resolved = now]
                              ELSE task[t]]
  /\ UNCHANGED <<permit, vessel, fleet, voyage, links, declared, anomaly, dispositions,
                 idem, outbox, now>>

Tick ==
  /\ now < MaxTime
  /\ now' = now + 1
  /\ UNCHANGED <<permit, vessel, fleet, voyage, links, task, declared, anomaly,
                 dispositions, idem, outbox>>

-----------------------------------------------------------------------------

CatalogNext(p) ==
  \/ \E m \in Permits : CreateFishingPermit(p, m) \/ ActivateFishingPermit(p, m)
  \/ \E f \in Fleets : \/ \E due, inspected \in CertTimes : CreateSupportFleet(p, f, due, inspected)
                       \/ StartMaintenance(p, f)
                       \/ CompleteMaintenance(p, f)
                       \/ RetireFleet(p, f)
  \/ \E b \in Vessels : \/ \E expires \in CertTimes : RegisterFishingVessel(p, b, expires)
                        \/ VerifyFishingVessel(p, b)

PlanNext(p) ==
  \E k \in Keys :
    \/ ReplayPlan(p, k)
    \/ \E v \in Voyages, m \in Permits, from, to \in Ports, f \in Fleets,
          B \in SUBSET Vessels, start \in StartTimes :
         \E finish \in start + 1 .. start + MaxVoyageDuration :
           PlanFishingVoyage(p, k, [code |-> v, permit |-> m, from |-> from, to |-> to,
                                    fleet |-> f, vessels |-> B,
                                    start |-> start, finish |-> finish])

VoyageNext(p) ==
  \E v \in Voyages :
    \/ ClearFishingVoyage(p, v)
    \/ DepartureFishingVoyage(p, v)
    \/ ConfirmFishingVoyageLanding(p, v)
    \/ CloseFishingVoyage(p, v)
    \/ CancelFishingVoyage(p, v)

ReviewNext(p) ==
  \/ \E v \in Voyages, s \in Seqs : \/ DeclareInRange(p, v, s)
                                    \/ \E a \in Anomalies : DeclareOutOfRange(p, v, s, a)
  \/ \E a \in Anomalies : \/ StartReview(p, a)
                          \/ \E d \in {"cleared", "rejected"} : Decide(p, a, d)

HandoffNext(p) ==
  \E t \in Tasks :
    \/ \E v \in Voyages, c, o \in Users : CreateCatchLandingTask(p, t, v, c, o)
    \/ \E status \in {"approved", "denied"} : ResolveCatchLandingTask(p, t, status)

WorkerPass == \E S \in SUBSET Tasks : ExpireTasks(S)

Next ==
  \/ \E p \in Users : \/ CatalogNext(p) \/ PlanNext(p) \/ VoyageNext(p)
                      \/ ReviewNext(p) \/ HandoffNext(p)
  \/ WorkerPass
  \/ Tick

Spec == Init /\ [][Next]_vars

\* The worker loop runs on a ticker for the life of the process and time passes;
\* operators owe nothing.
FairSpec == Spec /\ WF_vars(WorkerPass) /\ WF_vars(Tick)

-----------------------------------------------------------------------------
(* Properties.                                                             *)

TypeOK ==
  /\ permit \in [Permits -> {"absent", "draft", "active"}]
  /\ vessel \in [Vessels -> Vessel]
  /\ fleet \in [Fleets -> Fleet]
  /\ voyage \in [Voyages -> Voyage]
  /\ links \subseteq Voyages \X Vessels
  /\ task \in [Tasks -> Task]
  /\ declared \subseteq Voyages \X Seqs
  /\ anomaly \in [Anomalies -> Anomaly]
  /\ dispositions \subseteq [anomaly : Anomalies, decision : {"cleared", "rejected"}]
  /\ idem \in [Keys -> Record \cup {None}]
  /\ outbox \subseteq Job
  /\ now \in Time

ActiveStates == {"planned", "cleared", "at_sea", "landed"}

\* Every active voyage holds its fleet, a fleet is held by at most the one active voyage
\* that names it, and its state says how far that voyage has come: assigned before
\* departure, deployed from departure to closure (service/fishing_voyage.go plans,
\* departs, closes and cancels; the fleet service maintains and retires meanwhile).
FleetReservation ==
  /\ \A v \in Voyages : voyage[v].state \in ActiveStates => \E f \in Fleets : fleet[f].voyage = v
  /\ \A f \in Fleets :
       /\ \A v \in Voyages :
            fleet[f].voyage = v <=> voyage[v].fleet = f /\ voyage[v].state \in ActiveStates
       /\ fleet[f].state = "assigned" <=>
            \E v \in Voyages : fleet[f].voyage = v /\ voyage[v].state \in {"planned", "cleared"}
       /\ fleet[f].state = "deployed" <=>
            \E v \in Voyages : fleet[f].voyage = v /\ voyage[v].state \in {"at_sea", "landed"}

\* The states x a linked vessel can be in while its voyage is in state s.
InPhase(s, x) ==
  \/ s \in {"planned", "cleared"} /\ x \in {"assigned", "sea_ready"}
  \/ s = "at_sea" /\ x \in {"at_sea", "quarantined", "reinspected", "retired"}
  \/ s = "landed" /\ x \in {"landed", "quarantined", "reinspected", "retired"}
  \/ s = "closed" /\ x \in {"landed", "reinspected", "retired"}
  \/ s = "cancelled" /\ x = "sea_ready"

FollowsVoyage(b, v) ==
  /\ InPhase(voyage[v].state, vessel[b].state)
  /\ vessel[b].voyage = IF voyage[v].state = "cancelled" THEN None ELSE v

IsIdle(b) ==
  /\ vessel[b].state \in {"absent", "berthed", "sea_ready"}
  /\ vessel[b].voyage = None

\* A vessel is booked on at most one voyage, its row and the link table agree on which,
\* and it moves in step with that voyage, whatever declarations, decisions and
\* verifications arrive in between.
VesselFollowsVoyage ==
  /\ \A v, w \in Voyages, b \in Vessels : b \in VesselsOf(v) /\ b \in VesselsOf(w) => v = w
  /\ \A v \in Voyages, b \in Vessels : b \in VesselsOf(v) => FollowsVoyage(b, v)
  /\ \A b \in Vessels : LinkFree(b) => IsIdle(b)

\* A quarantined vessel is held by an anomaly that is still under review and belongs to
\* the voyage the vessel sails on, so a decision can always release or retire it.
QuarantineOwned ==
  \A b \in Vessels : vessel[b].state = "quarantined" =>
    \E a \in Anomalies, v \in Voyages :
      vessel[b].note = a /\ vessel[b].voyage = v /\ IsActiveAnomaly(a, v)

\* Reviews only exist while the voyage can still wait for them: nothing stays pending or
\* under review on a voyage that is closed, cancelled or not yet at sea
\* (transitionAny's closure checks against later declarations and tasks).
ReviewsBlockClosure ==
  \A v \in Voyages : HasPendingTask(v) \/ HasActiveAnomaly(v) =>
                       voyage[v].state \in {"at_sea", "landed"}

\* At most one active anomaly and one pending task per voyage: the partial unique
\* indexes are never what refuses an insert.
OneReviewAtATime ==
  \A v \in Voyages :
    /\ \A a, c \in Anomalies : IsActiveAnomaly(a, v) /\ IsActiveAnomaly(c, v) => a = c
    /\ \A t, u \in Tasks : IsPending(t, v) /\ IsPending(u, v) => t = u

\* Once landed, only a pending task or an active anomaly can hold a closure back: the
\* vessel check of transitionAny never fails by itself.
ClosureNeverStuck ==
  \A v \in Voyages :
    voyage[v].state = "landed" /\ ~HasPendingTask(v) /\ ~HasActiveAnomaly(v) => CloseAllowed(v)

\* At sea, only an expired certificate of a vessel still at sea can hold a landing back.
LandingNeverStuck ==
  \A v \in Voyages :
    /\ voyage[v].state = "at_sea"
    /\ \A b \in VesselsOf(v) : vessel[b].state = "at_sea" => IsUsable(b)
    => LandingAllowed(v)

\* A voyage planned under a key is what a retry of that key returns for the record's
\* whole lifetime: no later plan takes the key over while it is live.
ReplayableWhileLive ==
  \A v \in Voyages :
    voyage[v].state # "absent" /\ now < voyage[v].created + IdemTTL =>
      idem[voyage[v].key] # None /\ idem[voyage[v].key].hash.code = v

ReleaseByDecision ==
  \A b \in Vessels, a \in Anomalies :
    QuarantinedFor(b, a) /\ vessel'[b].state # "quarantined" =>
      /\ anomaly[a].status \in {"open", "reviewing"}
      /\ \/ anomaly'[a].status = "cleared" /\ vessel'[b].state = "reinspected"
         \/ anomaly'[a].status = "rejected" /\ vessel'[b].state = "retired"

\* A quarantine ends only in the step that decides the anomaly holding the vessel, and
\* the vessel takes the decision's outcome: no landing, cancellation, verification or
\* second anomaly releases it (service/anomaly_review.go, Decide).
QuarantineEndsByDecision == [][ReleaseByDecision]_vars

SettledStay ==
  \A b \in Vessels : vessel[b].state \in {"reinspected", "retired"} =>
                       vessel'[b].state = vessel[b].state

\* Terminal vessel states (FishingVesselState.IsTerminal) are never left: no landing,
\* declaration, verification or later voyage picks a settled vessel up again.
SettledVesselsStay == [][SettledStay]_vars

\* A pending task never blocks its voyage for good: someone resolves it or the worker
\* expires it.
HandoffResolves ==
  \A t \in Tasks : task[t].status = "pending" ~> task[t].status # "pending"

\* README: "Cancellation releases vessel and fleet reservations."
CancellationReleases ==
  \A b \in Vessels : vessel[b].state = "sea_ready" /\ vessel[b].voyage = None => LinkFree(b)

\* README: "planned or cleared voyages may be cancelled"; here with every certificate
\* still good.
CertifiedMayBeCancelled ==
  \A v \in Voyages :
    /\ voyage[v].state \in {"planned", "cleared"}
    /\ \A b \in VesselsOf(v) : IsUsable(b)
    => CancelAllowed(v)

=============================================================================
