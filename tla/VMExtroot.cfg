CONSTANTS
  p1 = p1
  Procs <- OneProc
  HasExtroot = TRUE

SPECIFICATION FairSpec

INVARIANTS
  QemuTracked
  MarkerHonest

PROPERTIES
  MarkerLast
  RebuildProvisions
  ExtrootCopied
  CommandEnds
