\* Two containers that publish a port, one of them on a named network; one flush
\* after the other.
SPECIFICATION Spec
CONSTANTS
  c1 = c1
  c2 = c2
  Conts = {c1, c2}
  Maps <- MCMaps
  Default = {c1}
  MaxIp = 4
  Faults = {"locked", "killed"}
VIEW LiveState
CONSTRAINT FewStale
INVARIANTS TypeOK NoStaleForward Served NewestServed
CHECK_DEADLOCK FALSE
