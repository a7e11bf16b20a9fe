------------------------- MODULE MCRuntimePipeline -------------------------
(* A small instance of RuntimePipeline for TLC.                            *)
EXTENDS RuntimePipeline

MCStepSets == {1 .. Last, 1 .. Last - 1}

=============================================================================
