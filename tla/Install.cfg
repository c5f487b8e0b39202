CONSTANTS
  N = 2
  Manager <- ManagerDef
  Files = {1, 2, 3}
  Format <- FormatDef
  Dest <- DestDef
  URLs = {"a", "b"}
  Keys = {"k"}
  Entries = 2
SPECIFICATION Spec
INVARIANTS OutOfTheFeed InstalledEverywhere
