\* lttd with every failure point of startup, discovery and hot-plug, in the
\* default (non-append) mode: CPU 1 comes online at any time, also
\* while the walk runs.  The process really ends (main returns, or the
\* handler faults), so terminal states are not deadlocks.
CONSTANTS
  Root = "ltt"
  Dirs <- MCDirs
  Rings <- MCRings
  Parent <- MCParent
  InitRings <- MCInitRings
  FlightRings <- MCFlightRings
  Mode = "all"
  AppendMode = FALSE
  DaemonMode = TRUE
  Faults = {"stat", "opendir", "mkdir", "open", "sink", "map", "daemon", "alloc"}
SPECIFICATION Spec
CHECK_DEADLOCK FALSE
INVARIANTS TypeOK OnePairPerRing
