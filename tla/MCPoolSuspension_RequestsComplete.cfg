CONSTANTS
  Pools = {"pa", "pb"}
  Units <- MCUnits
  Callers = {"task"}
  Outside = Outside
  CallerPool <- MCTaskOnly
  CallerUnit <- MCTaskUnit
  MaxCalls = 2
SPECIFICATION Spec
PROPERTY RequestsComplete
CHECK_DEADLOCK FALSE
