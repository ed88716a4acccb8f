\* A daemon that never connects: the timed-out start cancels the thread,
\* whose exit path never runs.  One session is created, then a kernel
\* command starts the consumer.
CONSTANTS
  Type = "kernel"
  Faults = {}
  MaxCmds = 2
  Cmds = {"create", "enable"}
  Sess = {"s1"}
  Iters = {}
  MaxPolls = 0
  OptNoKernel = FALSE
  IsRoot = TRUE
SPECIFICATION Spec
INVARIANT ConsumerRecoverable
