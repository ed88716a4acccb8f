\* Kernel consumer over three client commands of every kind on one session,
\* with the kernel thread and the apps thread walking the session list, and
\* the failure points of the start path that do not hang or kill sessiond:
\* fork, pthread_create, listen, the reply allocation, the kernel tracer
\* load and the poll-set add may fail (clock_gettime is the consumer_clock
\* hazard; a failed kernel session creation crashes sessiond, see README).
CONSTANTS
  Type = "kernel"
  Faults = {"fork", "thread", "listen", "alloc", "tracer", "polladd"}
  MaxCmds = 3
  Cmds = {"create", "destroy", "enable", "register", "list"}
  Sess = {"s1"}
  Iters = {"kernel", "apps"}
  MaxPolls = 1
  OptNoKernel = FALSE
  IsRoot = TRUE
SPECIFICATION Spec
INVARIANTS TypeOK OneManagerThread
PROPERTY WalkCompletes
