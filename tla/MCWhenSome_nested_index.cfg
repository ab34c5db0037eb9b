CONSTANTS
  Groups <- MCRangeThenFuture
SPECIFICATION Spec
INVARIANT IndicesDistinct
CHECK_DEADLOCK FALSE
