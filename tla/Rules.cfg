SPECIFICATION CRSpec
CONSTANTS
  Sources <- SourcesMC
  Stock <- StockMC
  Distros <- DistrosMC
  Targets <- TargetsMC
  HostArch = "armv8"
  Snapshots <- SnapshotsMC
  Version <- VersionMC
  Lower <- LowerMC
  BadIds = {"-b"}
  HTTPBase = 80
  SSHBase = 22
  Window = 3
INVARIANTS
  ListsAsAsked
  PortsApart
  OneRelease
