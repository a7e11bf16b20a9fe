---------------------------- MODULE VoyageBooking ----------------------------
(***************************************************************************)
(* What the voyage service promises of its bookings, without catalog,      *)
(* certificates, reviews or time: a voyage takes one escorting fleet and   *)
(* some vessels that nobody holds, all at once; it keeps them until it is  *)
(* cancelled or over; cancelling gives everything back, and a voyage that  *)
(* is over gives back its fleet and keeps its vessels, which never sail    *)
(* again.                                                                  *)
(***************************************************************************)
CONSTANTS Voyages, Fleets, Vessels, None

VARIABLES
  phase,  \* how far each voyage has come
  escort, \* the voyage each fleet is held by
  crew    \* the voyage each vessel is held by

book == <<phase, escort, crew>>

Init ==
  /\ phase = [v \in Voyages |-> "none"]
  /\ escort = [f \in Fleets |-> None]
  /\ crew = [b \in Vessels |-> None]

\* What v holds in `holder` is given back.
Return(holder, v) == [x \in DOMAIN holder |-> IF holder[x] = v THEN None ELSE holder[x]]

Book(v, f, B) ==
  /\ phase[v] = "none"
  /\ B # {}
  /\ escort[f] = None
  /\ \A b \in B : crew[b] = None
  /\ phase' = [phase EXCEPT ![v] = "booked"]
  /\ escort' = [escort EXCEPT ![f] = v]
  /\ crew' = [b \in Vessels |-> IF b \in B THEN v ELSE crew[b]]

Sail(v) ==
  /\ phase[v] = "booked"
  /\ phase' = [phase EXCEPT ![v] = "sailing"]
  /\ UNCHANGED <<escort, crew>>

Cancel(v) ==
  /\ phase[v] = "booked"
  /\ phase' = [phase EXCEPT ![v] = "cancelled"]
  /\ escort' = Return(escort, v)
  /\ crew' = Return(crew, v)

Finish(v) ==
  /\ phase[v] = "sailing"
  /\ phase' = [phase EXCEPT ![v] = "over"]
  /\ escort' = Return(escort, v)
  /\ UNCHANGED crew

Next ==
  \E v \in Voyages :
    \/ \E f \in Fleets, B \in SUBSET Vessels : Book(v, f, B)
    \/ Sail(v)
    \/ Cancel(v)
    \/ Finish(v)

Spec == Init /\ [][Next]_book

=============================================================================
