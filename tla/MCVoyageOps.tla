---------------------------- MODULE MCVoyageOps ----------------------------
(* Small instances of VoyageOps for TLC.                                   *)
EXTENDS VoyageService, TLC

CONSTANTS coord, captain, officer, home, abroad

MCRoleOf ==
  [p \in Users |-> CASE p = coord -> "voyage_coordinator"
                     [] p = captain -> "vessel_captain"
                     [] p = officer -> "fisheries_officer"]

MCPermitOf == [b \in Vessels |-> CHOOSE m \in Permits : TRUE]
MCPortOf == [b \in Vessels |-> home]
MCHoldOf == [b \in Vessels |-> 1]
MCCargoOf == [f \in Fleets |-> 2]
MCLimitOne == [port \in Ports |-> 1]
MCLimitTwo == [port \in Ports |-> 2]

Symmetry == Permutations(Vessels) \cup Permutations(Fleets) \cup Permutations(Voyages)
              \cup Permutations(Tasks) \cup Permutations(Anomalies) \cup Permutations(Keys)

=============================================================================
