CONSTANTS
  N = 3
  Registry <- RegistryDef
  Server <- ServerDef
  Release <- ReleaseDef
  Rolling = {"snapshot"}
  Versions = 2
  Manager <- ManagerDef
  Extras = 2
  Published <- PublishedDef
SPECIFICATION Spec
INVARIANTS SilentHostsRest SwitchJustified StagedForBuild
