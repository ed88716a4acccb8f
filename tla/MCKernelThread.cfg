\* Two channels, up to three CPUs (two hot-plugged), a failing
\* update_kernel_poll.
CONSTANTS
  Chans <- MCChans
  MaxCPU = 3
  Faults = {"polladd"}
SPECIFICATION Spec
INVARIANT TypeOK
PROPERTY HotplugHandled
