\* Every file of three services is resolved, a chain of them is started; forge
\* down comes at any time.
SPECIFICATION FairSpec
CONSTANTS
  s1 = s1
  s2 = s2
  s3 = s3
  other = other
  Services <- MCServices
  Others = {other}
  Files <- AnyFile
  MaxContainers = 8
  DownDuringUp = TRUE
CONSTRAINT StartedFiles
INVARIANTS TypeOK OrderSound VerdictJust StartsInOrder CascadeBounded
PROPERTY CommandsReturn
CHECK_DEADLOCK FALSE
