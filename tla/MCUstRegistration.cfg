\* Three applications, a pipe that holds one command, every failure point.
\* Deadlock is not checked: the lost wake-up of the ust_shutdown run stops
\* sessiond, and it is that run's finding.
CONSTANTS
  Apps <- MCApps
  PipeCap = 1
  Faults = {"accept", "alloc", "fdlimit", "recv", "register", "done", "enomem", "polladd"}
SPECIFICATION Spec
INVARIANTS TypeOK NoLostWakeup
PROPERTY RegistrationDelivered
CHECK_DEADLOCK FALSE
