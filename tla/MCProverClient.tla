--------------------------- MODULE MCProverClient ---------------------------
(* Constants for the TLC runs of ProverClient.                             *)
EXTENDS ProverClient, TLC

CONSTANTS k1, k2, k3, t1, t2
=============================================================================
