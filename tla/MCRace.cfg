\* Two commands at once, no faults.
SPECIFICATION Spec
CONSTANTS
  None = None
  Cmds = {c1, c2}
  Configs <- RaceConfigs
  ExitCodes <- MCExitCodes
  MaxPid = 2
  Faults = {}
  Ops = {"stop", "rm", "down"}
SYMMETRY CmdSymmetry
INVARIANTS OneProgram StoppedMeansDead NothingLeft
PROPERTIES NoResurrection
CHECK_DEADLOCK FALSE
