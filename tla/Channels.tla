------------------------------ MODULE Channels ------------------------------
(***************************************************************************)
(* The bounded channels between the tasks: a send waits while the channel  *)
(* is full (mpsc::channel(100), verifier/src/main.rs).                     *)
(***************************************************************************)
EXTENDS Naturals, Sequences

CONSTANT Capacity   \* 100

ASSUME CapacityAssumption == Capacity \in Nat \ {0}
=============================================================================
