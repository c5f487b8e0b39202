CONSTANTS
  Wants = {2, 403}
  Asserts = 3
SPECIFICATION RTSpec
INVARIANTS RTTypeOK VerdictIsRoots AssertedOnlyWhenEquipped PassIsComplete
