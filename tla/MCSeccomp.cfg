\* The table of the code on every call.
SPECIFICATION Spec
CONSTANTS
  Blocked <- MCBlocked
  Syscalls <- MCSyscalls
INVARIANT FilterExact
