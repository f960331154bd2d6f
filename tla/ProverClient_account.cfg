SPECIFICATION FairSpec
CONSTANTS
  k1 = k1  k2 = k2  k3 = k3
  t1 = t1  t2 = t2
  Main = Main
  None = None
  Keys = {k1, k2, k3}
  Watches = {t1, t2}
  Redis = TRUE
  StorageFails = TRUE
INVARIANTS
  TypeOK
  VerifierKnowsTheKey
  BiddersAreRegistered
PROPERTIES
  AccountLasts
  CommandsReturn
CHECK_DEADLOCK FALSE
