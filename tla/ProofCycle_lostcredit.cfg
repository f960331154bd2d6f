SPECIFICATION ProofSpec
CONSTANTS
  p1 = p1
  h1 = h1  h2 = h2
  w1 = w1  w2 = w2
  None = None
  Names = {"alice"}
  Provers = {p1}
  NameOf <- OneName
  Persisted = {"alice"}
  Registrants = {}
  Amounts = {}
  Handlers = {}
  Proofs <- ValidProofs
  Submissions = {h1, h2}
  Watchers = {w1, w2}
  WatchersLeave = FALSE
  StorageFails = FALSE
  Capacity = 1
  Reward = 3
  Slash = 2
  Modulus = 64
ACTION_CONSTRAINT ContestFirst
INVARIANT VerdictsAreCredited
