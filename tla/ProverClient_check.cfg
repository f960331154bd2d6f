SPECIFICATION Spec
CONSTANTS
  k1 = k1  k2 = k2  k3 = k3
  t1 = t1  t2 = t2
  Main = Main
  None = None
  Keys = {k1, k2, k3}
  Watches = {}
  Redis = FALSE
  StorageFails = FALSE
INVARIANT ProofsPassTheCheck
CHECK_DEADLOCK FALSE
