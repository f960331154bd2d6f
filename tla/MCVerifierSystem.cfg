SPECIFICATION FairTimedSpec
CONSTANTS
  p1 = p1  h1 = h1  s1 = s1  w1 = w1
  None = None
  Modulus = 64
  Provers = {p1}
  Names = {"alice"}
  NameOf <- OneName
  Registrants = {p1}
  Persisted = {"alice"}
  Amounts = {1}
  Handlers = {h1}
  Submissions = {s1}
  StorageFails = FALSE
  Capacity = 1
  MaxContest = 1
  Sleep = 2
  Delay = 1
  Proofs <- ValidProofs
  Watchers = {w1}
  WatchersLeave = FALSE
  Reward = 3
  Slash = 2
INVARIANTS
  SystemTypeOK
  ProfilesAreSound
PROPERTIES
  EndsAreSeen
  ContestsAreHeld
CHECK_DEADLOCK FALSE
