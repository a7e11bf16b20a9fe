--------------------------- MODULE MCOutboxWorker ---------------------------
(* Small instances of OutboxWorker for TLC.                                *)
EXTENDS OutboxWorker, TLC

CONSTANTS planned, review

MCKindOf == [j \in Jobs |-> IF j = planned THEN "fishing_voyage_planned"
                                           ELSE "catch_anomaly_review"]

Symmetry == Permutations(Workers)

=============================================================================
