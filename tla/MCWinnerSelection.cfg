SPECIFICATION Spec
CONSTANTS
  Modulus = 16
  Names = {"a", "b", "c"}
  MaxAmount = 4
  MaxBids = 3
INVARIANTS
  AlwaysDecided
  ElectsReference
CHECK_DEADLOCK FALSE
