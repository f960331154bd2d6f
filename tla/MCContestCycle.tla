--------------------------- MODULE MCContestCycle ---------------------------
(* Constants and symmetry for the TLC runs of ContestCycle.                *)
EXTENDS ContestCycle, TLC

CONSTANTS p1, p2, h1, h2, h3

\* Two accounts under names of their own, or under one shared name.
OwnNames   == p1 :> "alice" @@ p2 :> "bob"
SharedName == p1 :> "alice" @@ p2 :> "alice"

HandlerSymmetry == Permutations(Handlers)

\* The verifier runs for ever; a bounded run ends with the last contest.
LastContest ==
  /\ contest.id = MaxContest /\ scheduler.pc = "proofWindow"
  /\ UNCHANGED vars

MCNext == Next \/ LastContest

MCSpec == Init /\ [][MCNext]_vars
MCFairSpec == MCSpec /\ Fairness
=============================================================================
