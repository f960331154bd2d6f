-------------------------- MODULE MCVerifierSystem --------------------------
(* Constants for the TLC run of the whole verifier with its clock.         *)
EXTENDS VerifierClock, TLC

CONSTANTS p1, h1, s1, w1

OneName == p1 :> "alice"
ValidProofs == [name : Names, valid : {TRUE}, late : {FALSE}]
=============================================================================
