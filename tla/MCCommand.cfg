\* One command of any kind, every fault.
SPECIFICATION FairSpec
CONSTANTS
  None = None
  Cmds = {c1}
  Configs <- CommandConfigs
  ExitCodes <- MCExitCodes
  MaxPid = 2
  Faults = {"setup", "crash", "oom"}
  Ops = {"stop", "kill", "rm", "prune", "down"}
INVARIANT StartsLimited
PROPERTIES StartsConfined PruneSparesLive StopEnds
CHECK_DEADLOCK FALSE
