\* Fault-free CPU hot-plug: a flight ring appears while two workers run;
\* NSB = 1 < MaxSB so the full flight ring is overwritten by its producer.
CONSTANTS
  NumThreads = 2
  Rings <- MCHotRings
  InitRings <- MCHotInitRings
  FlightRings <- MCHotFlightRings
  Mode = "all"
  NSB = 1
  MaxSB = 2
  Faults = {}
SPECIFICATION Spec
INVARIANT TypeOK
PROPERTIES TraceStopEnds RingDrainSpec DataDrained
