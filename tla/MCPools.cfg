\* Two invocations that may be killed, one network and the default one: containers of one
\* name or of two, their restarts, and their ends with and without a supervisor.
SPECIFICATION Spec
CONSTANTS
  Procs = {p1, p2}
  Names = {a, b}
  Nets = {n1}
  Bridge = bridge
  LastOctet = 43
  LastHost = 3
  Crashes = TRUE
SYMMETRY NetSymmetry
VIEW LiveState
CONSTRAINT TroubleOnce
INVARIANTS TypeOK PoolsBounded UniqueAddressesAlone RegistryExact DnsRepairable
CHECK_DEADLOCK FALSE
