CONSTANTS
  Groups <- MCRangeOfThree
SPECIFICATION Spec
INVARIANT ResultAtMostN
CHECK_DEADLOCK FALSE
