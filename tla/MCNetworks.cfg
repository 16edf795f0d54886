\* Two invocations on two networks and the default one, in any order.
SPECIFICATION Spec
CONSTANTS
  Procs = {p1, p2}
  Names = {a}
  Nets = {n1, n2}
  Bridge = bridge
  LastOctet = 44
  LastHost = 2
  Crashes = FALSE
SYMMETRY NetSymmetry
VIEW SubnetsState
CONSTRAINT CreatesAlone
INVARIANTS UniqueSubnetsAlone
CHECK_DEADLOCK FALSE
