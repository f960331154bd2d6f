SPECIFICATION MCFairSpec
CONSTANTS
  p1 = p1  p2 = p2
  h1 = h1  h2 = h2  h3 = h3
  None = None
  Modulus = 16
  Provers = {p1, p2}
  Names = {"alice", "bob"}
  NameOf <- OwnNames
  Registrants = {p1, p2}
  Submissions = {}
  Amounts = {0}
  Handlers = {h1, h2}
  Capacity = 1
  MaxContest = 0
  Persisted = {"alice", "bob"}
  StorageFails = FALSE
PROPERTY WinnerIsSelected
CHECK_DEADLOCK FALSE
