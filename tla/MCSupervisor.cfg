\* The supervisor alone, every step of which may fail.
SPECIFICATION FairSpec
CONSTANTS
  None = None
  Cmds = {}
  Configs <- NonTtyConfigs
  ExitCodes <- MCExitCodes
  MaxPid = 3
  Faults = {"setup", "oom"}
  Ops = {}
INVARIANTS TypeOK RestartsWithinPolicy
PROPERTIES RefinesLifecycle SupervisorEnds
CHECK_DEADLOCK FALSE
