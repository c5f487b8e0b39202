CONSTANTS
  p1 = p1
  Procs <- OneProc
  Chunks = 2
  Inodes = {1, 2, 3, 4, 5}

SPECIFICATION FairSpec

PROPERTIES
  NeverHalf
  ChecksumHolds
  EnsureEnds
  Atomic
