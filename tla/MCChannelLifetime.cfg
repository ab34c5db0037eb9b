CONSTANTS
  Chans = {c1, c2}
  Capacity = 1
  Null = Null
SPECIFICATION Spec
INVARIANT SlotObjectsDestroyedOnce
CHECK_DEADLOCK FALSE
