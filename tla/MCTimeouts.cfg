CONSTANTS
  Periodic <- MCPeriodic
  App = {"app"}
  Interval <- MCInterval
  AppTimes = {0, 2, 6}
  AppMax = 1
  MEMP_NUM_SYS_TIMEOUT = 6
  U32 = 8
SPECIFICATION Spec
INVARIANTS
  EveryTimerIsSet
PROPERTIES
  AgendaSpec
