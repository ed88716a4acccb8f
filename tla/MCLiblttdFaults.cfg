\* Every failure point at once, with hot-plug: the error paths of startup,
\* thread start, open, map and RELAY_GET_SB_SIZE keep the drain safe.
\* NSB = MaxSB = 2 so a ring can be partly full (POLLIN) or full (POLLPRI)
\* and both passes of read_channels run.
CONSTANTS
  NumThreads = 2
  Rings <- MCHotRings
  InitRings <- MCHotInitRings
  FlightRings <- MCHotFlightRings
  Mode = "all"
  NSB = 2
  MaxSB = 2
  Faults = {"open", "sink_open", "map", "sb_size", "thread", "spawn"}
SPECIFICATION Spec
 
PROPERTIES NoCallbackAfterTraceEnd RingDrainSpec
