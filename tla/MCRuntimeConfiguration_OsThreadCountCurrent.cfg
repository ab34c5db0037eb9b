CONSTANTS
  Threads = {t1, t2}
  DefaultText <- MCDefaultText
  EnvKeys = {"small", "huge"}
  EnvTexts <- MCEnvTexts
  CmdlineDefs <- MCCmdlineDefs
  MaxReconfigures = 2
SPECIFICATION Spec
INVARIANT OsThreadCountCurrent
CHECK_DEADLOCK FALSE
