CONSTANTS
  Groups <- MCRangeOfThree
SPECIFICATION Spec
INVARIANT TypeOK
INVARIANT IndicesDistinct
INVARIANT SingleWaker
INVARIANT ReturnOnlyAtGoal
INVARIANT WaiterHasWaker
PROPERTY JoinCompletes
CHECK_DEADLOCK FALSE
