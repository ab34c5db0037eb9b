CONSTANTS
  Pools = {"pa", "pb"}
  Units <- MCUnits
  Callers = {"thread", "task"}
  Outside = Outside
  CallerPool <- MCCallerPool
  CallerUnit <- MCCallerUnit
  MaxCalls = 1
SPECIFICATION Spec
INVARIANT TypeOK
PROPERTY SelfRequestsKeepCallerRunning
PROPERTY UnitRequestsRespectElasticity
CHECK_DEADLOCK FALSE
