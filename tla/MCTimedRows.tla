---------------------------- MODULE MCTimedRows ----------------------------
(* Small instances of TimedRows for TLC.                                   *)
EXTENDS TimedRows, TLC

Symmetry == Permutations(Slots)

=============================================================================
