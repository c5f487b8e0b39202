CONSTANTS
  Defined = {"app", "libapp"}
  Others = {"app-base"}
  StartsWithName = {"app", "app-base"}
  Archs = {"x86_64", "aarch64"}
  Versions = 2
  Builds = 2
SPECIFICATION SBSpec
INVARIANTS SuccessIsComplete 
