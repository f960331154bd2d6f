-------------------------- MODULE MCVerifierLives --------------------------
(* Constants and symmetry for the TLC run of VerifierLives.                *)
EXTENDS VerifierLives, TLC

CONSTANTS p1, p2, h1, h2

SharedName == p1 :> "alice" @@ p2 :> "alice"

HandlerSymmetry == Permutations(Handlers)
=============================================================================
