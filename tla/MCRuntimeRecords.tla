-------------------------- MODULE MCRuntimeRecords --------------------------
(* Small instances of RuntimeRecords for TLC.                              *)
EXTENDS RuntimeRecords, TLC

Symmetry ==
  UNION {Permutations(S) : S \in {Clients, Permits, Slots, Batches, Events, Streams, Payloads, Keys, Hashes}}

=============================================================================
