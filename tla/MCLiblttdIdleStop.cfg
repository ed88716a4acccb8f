\* A stop request while the trace is idle.
CONSTANTS
  NumThreads = 1
  Rings <- MCRings
  InitRings <- MCRings
  FlightRings <- MCFlightRings
  Mode = "all"
  NSB = 2
  MaxSB = 2
  Faults = {}
SPECIFICATION Spec
PROPERTY StopTerminates
