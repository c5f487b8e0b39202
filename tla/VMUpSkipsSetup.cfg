CONSTANTS
  p1 = p1
  Procs <- OneProc
  HasExtroot = TRUE

SPECIFICATION Spec

PROPERTIES
  UpSetsUp
