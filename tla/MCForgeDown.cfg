\* Two services; forge down comes after forge up has returned.
SPECIFICATION FairSpec
CONSTANTS
  s1 = s1
  s2 = s2
  s3 = s3
  other = other
  Services <- PairServices
  Others = {}
  Files <- PairFile
  MaxContainers = 4
  DownDuringUp = FALSE
INVARIANT DownIsFinal
CHECK_DEADLOCK FALSE
