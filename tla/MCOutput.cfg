\* A program on a PTY, with and without -i, or one that logs, is restarted, and is
\* followed by a command.
SPECIFICATION FairSpec
CONSTANTS
  MaxOut = 5
  MaxIn = 4
  OutCap = 3
  InCap = 2
  BufLen = 2
  Followers = {f1}
  Tail = 2
  MaxLen = 4
  MaxRun = 2
INVARIANTS OutputComplete NothingSkipped
PROPERTY Shown
CHECK_DEADLOCK FALSE
