SPECIFICATION FairProofSpec
CONSTANTS
  p1 = p1
  h1 = h1  h2 = h2
  w1 = w1  w2 = w2
  None = None
  Names = {"alice"}
  Provers = {p1}
  NameOf <- OneName
  Persisted = {}
  Registrants = {p1}
  Amounts = {}
  Handlers = {}
  Proofs <- MixedProofs
  Submissions = {h1, h2}
  Watchers = {w1}
  WatchersLeave = TRUE
  StorageFails = TRUE
  Capacity = 1
  Reward = 3
  Slash = 2
  Modulus = 64
INVARIANTS
  ProofTypeOK
  VerdictsInOrder
  CreditsAreEarned
PROPERTY ValidProofsAreAnswered
CHECK_DEADLOCK FALSE
