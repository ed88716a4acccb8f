\* Three applications, a pipe large enough never to block, no failure:
\* SIGTERM while the dispatcher is between its exit test and its futex
\* prepare.
CONSTANTS
  Apps <- MCApps
  PipeCap = 3
  Faults = {}
SPECIFICATION Spec
PROPERTY ShutdownCompletes
\* The hang is what ShutdownCompletes reports, so deadlock is not reported
\* separately.
CHECK_DEADLOCK FALSE
