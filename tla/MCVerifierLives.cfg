SPECIFICATION LivesSpec
CONSTANTS
  p1 = p1  p2 = p2
  h1 = h1  h2 = h2
  None = None
  Modulus = 16
  Provers = {p1, p2}
  Names = {"alice"}
  NameOf <- SharedName
  Registrants = {p1}
  Submissions = {}
  Amounts = {1}
  Handlers = {h1, h2}
  Capacity = 1
  MaxContest = 1
  MaxLives = 2
  Persisted = {}
  StorageFails = TRUE
SYMMETRY HandlerSymmetry
INVARIANTS
  TypeOK
  PipelineOrdered
  RecordsFollowOn
  VerdictsOutliveCrashes
  BidHasOneFate
CHECK_DEADLOCK FALSE
