---------------------------- MODULE MCProofCycle ----------------------------
(* Constants for the TLC runs of ProofCycle.                              *)
EXTENDS ProofCycle, TLC

CONSTANTS p1, h1, h2, w1, w2

OneName == p1 :> "alice"

ValidProofs == [name : Names, valid : {TRUE}, late : {FALSE}]

\* A valid proof that is inside the window unless a contest is live, and an
\* invalid one that is always outside it.
MixedProofs == {p \in [name : Names, valid : BOOLEAN, late : BOOLEAN] : p.late # p.valid}

(* Every valid proof is answered, and accepted if it came in time          *)
(* (main.rs:513-557).  The calls of submit_proof are interchangeable, so   *)
(* that what holds of h1 holds of each of them.                            *)
ValidProofsAreAnswered == ValidProofIsAnswered(h1)

\* No proof is submitted before the first contest: what is accepted earlier is
\* credited with the reward of the default contest, which is 0.
ContestFirst == phase = "NotStarted" => UNCHANGED submitters
=============================================================================
