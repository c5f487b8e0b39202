CONSTANTS
  Containers = {2}
  VMs = {1, 3}
  Patience = 2
SPECIFICATION Spec
INVARIANTS ZeroMeansTheLab InterruptShows NothingLeftBehind
