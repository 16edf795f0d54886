\* Two invocations and a container; whatever fails.
SPECIFICATION Spec
CONSTANTS
  Cmds = {c1, c2}
  Users = {u1}
  MaxSize = 3
  MaxFile = 2
  Faults = {"mkfs", "busy", "mount", "full", "killed", "reboot"}
SYMMETRY VolumeSymmetry
VIEW LiveState
CONSTRAINT ResizeAlone
INVARIANTS TypeOK FsFits Whole
PROPERTY LimitEnforced
CHECK_DEADLOCK FALSE
