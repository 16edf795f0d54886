\* Two invocations of each kind and a container.
SPECIFICATION Spec
CONSTANTS
  Cmds = {p1, p2}
  Run = run
  Os = {os1, os2}
  Pkgs = {pkg}
  Savers = {s1, s2}
  Files = {f1, f2}
  Vals = {1}
  Absent = absent
SYMMETRY StorageSymmetry
VIEW LiveState
CONSTRAINTS Apart TwoWrite
INVARIANTS TypeOK Repairs RestoreExact
PROPERTY StartsWhole
CHECK_DEADLOCK FALSE
