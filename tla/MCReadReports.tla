--------------------------- MODULE MCReadReports ---------------------------
(* A small instance of ReadReports for TLC.                                *)
EXTENDS ReadReports, TLC

CONSTANTS coord, officer, home, abroad

MCRoleOf == (coord :> "voyage_coordinator") @@ (officer :> "fisheries_officer")

MCPermitOf == [b \in Vessels |-> CHOOSE m \in Permits : TRUE]
MCPortOf == [b \in Vessels |-> home]
MCHoldOf == [b \in Vessels |-> 1]
MCCargoOf == [f \in Fleets |-> 2]
MCLimit == [port \in Ports |-> 1]

=============================================================================
