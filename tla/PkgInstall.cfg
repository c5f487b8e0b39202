CONSTANTS
  Packages = {"luci-app", "dnsmasq", "kmod-wg"}
  KmodNames = {"kmod-wg"}
  Feeds = {"base", "kmods"}
  KmodFeeds = {"kmods"}
  Needs <- AppNeeds
  Waits = 2

SPECIFICATION FairSpec

INVARIANTS
  Accounted
  SkipsAreTrue
  CompleteIsComplete
  RecordIsOurs
  OneOutage

PROPERTIES
  ScriptEnds
