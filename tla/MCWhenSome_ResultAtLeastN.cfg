CONSTANTS
  Groups <- MCRangeOfThree
SPECIFICATION Spec
INVARIANT ResultAtLeastN
CHECK_DEADLOCK FALSE
