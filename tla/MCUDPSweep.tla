----------------------------- MODULE MCUDPSweep -----------------------------
(* A ceiling far above 2^MaxSteps, and one below it. *)
EXTENDS UDPSweep
=============================================================================
