---------------------------- MODULE VoyageService ----------------------------
(***************************************************************************)
(* VoyageOps seen from outside, in two ways.  Its bookings implement       *)
(* VoyageBooking.  And a plan, which reads the clock before its            *)
(* transaction begins (service/fishing_voyage.go:46) and may then wait for *)
(* a connection of the pool, judges by a time that has passed when it      *)
(* commits.                                                                *)
(***************************************************************************)
EXTENDS VoyageOps

CONSTANT Lag \* bound: how long a plan may wait between reading the clock and committing

ASSUME LagAssumption == Lag \in Nat

\* How far the booking of a voyage in state s has come; clearing and landing do not show.
PhaseOf(s) ==
  CASE s = "absent" -> "none"
    [] s \in {"planned", "cleared"} -> "booked"
    [] s \in {"at_sea", "landed"} -> "sailing"
    [] s = "cancelled" -> "cancelled"
    [] s = "closed" -> "over"

Booking == INSTANCE VoyageBooking WITH
  phase <- [v \in Voyages |-> PhaseOf(voyage[v].state)],
  escort <- [f \in Fleets |-> fleet[f].voyage],
  crew <- [b \in Vessels |-> vessel[b].voyage]

\* The operations, judging by the clock as it was `lag` ago.
Late(lag) == INSTANCE VoyageOps WITH now <- now - lag

\* A plan commits after the clock it read has moved on: every check, the row it writes
\* and the record it stores use the time it read.
LatePlan(p) ==
  \E lag \in 1 .. Lag :
    /\ lag <= now
    /\ UNCHANGED now
    /\ Late(lag)!PlanNext(p)

LateNext ==
  \/ \E p \in Users : \/ CatalogNext(p) \/ PlanNext(p) \/ LatePlan(p)
                      \/ VoyageNext(p) \/ ReviewNext(p) \/ HandoffNext(p)
  \/ WorkerPass
  \/ Tick

LateSpec == Init /\ [][LateNext]_vars

-----------------------------------------------------------------------------
(* Properties.                                                             *)

\* Every step of the services is a step of VoyageBooking or does not touch a booking:
\* plans take only what is free and take it whole, maintenance, retirement, verification,
\* declarations and decisions never move a held fleet or vessel to another voyage, and
\* only cancelling and closing give anything back.
BooksAsPromised == Booking!Spec

\* Until its landing deadline no certificate stops a voyage, whatever reviews do to its
\* vessels meanwhile and however late its plan committed: it can be cancelled and can
\* depart while its vessels are assigned, and once at sea it can land.  (The plan checks
\* certificates against the deadline, every transition checks them against the clock.)
OnTimeNeverBlocked ==
  \A v \in Voyages : now <= voyage[v].finish =>
    /\ (\A b \in VesselsOf(v) : vessel[b].state = "assigned")
       => /\ voyage[v].state \in {"planned", "cleared"} => CancelAllowed(v)
          /\ voyage[v].state = "cleared" => DepartureAllowed(v)
    /\ voyage[v].state = "at_sea" => LandingAllowed(v)

=============================================================================
