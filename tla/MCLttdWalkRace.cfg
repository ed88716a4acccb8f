\* lttd with no failure point, in the default (non-append) mode: CPU 1
\* comes online at any time, also while the walk runs, creating chan/cpu1
\* and flight/flight-cpu1.  The process really ends, so terminal states
\* are not deadlocks.
CONSTANTS
  Root = "ltt"
  Dirs <- MCDirs
  Rings <- MCRings
  Parent <- MCParent
  InitRings <- MCInitRings
  FlightRings <- MCFlightRings
  Mode = "all"
  AppendMode = FALSE
  DaemonMode = TRUE
  Faults = {}
SPECIFICATION Spec
CHECK_DEADLOCK FALSE
INVARIANT RingsTraced
