\* REGISTER_CONSUMER refused while the kernel consumer runs: process_client_msg
\* unlocks the session list it never locked, freeing the kernel thread's hold
\* on it, and the next command destroys the session under that thread's walk.
CONSTANTS
  Type = "kernel"
  Faults = {}
  MaxCmds = 4
  Cmds = {"create", "destroy", "enable", "register"}
  Sess = {"s1"}
  Iters = {"kernel"}
  MaxPolls = 0
  OptNoKernel = FALSE
  IsRoot = TRUE
SPECIFICATION Spec
INVARIANT NoFreedSessionUse
