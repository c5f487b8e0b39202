CONSTANTS
  Sources = {"menu.js", "style.less"}
  Routers <- TwoRouters
  MaxEdits = 3

SPECIFICATION FairSpec

INVARIANTS
  IdleIsSynced

PROPERTIES
  ReportedPerRouter
  Settles

CHECK_DEADLOCK FALSE
