CONSTANTS
  Groups <- MCFutureAndEmptyRange
SPECIFICATION Spec
INVARIANT WaiterHasWaker
CHECK_DEADLOCK FALSE
