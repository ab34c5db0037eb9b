CONSTANTS
  Threads <- MCTestThreads
  Main = "main"
  Program <- MCTestProgram
  DefaultPermit = {0, 1}
  MaxTime = 44
SPECIFICATION Spec
INVARIANT TypeOK
INVARIANT TestsPass
INVARIANT NoLostWakeup
PROPERTY ProgramsFinish
CHECK_DEADLOCK FALSE
