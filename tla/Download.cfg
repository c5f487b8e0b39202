CONSTANTS
  Procs = {f1, f2}
  Attempts = 2
  Pieces = 2
  Versions = 2
SPECIFICATION Spec
INVARIANTS OnlyOverlapTears OutagePersisted
PROPERTIES AnswersStand EveryCallEnds
