\* A failing kernel_consumer_send_channel_stream after tracing started:
\* the stream stays opened and unsent while the kernel thread waits in
\* poll, with no further CPU coming online.
CONSTANTS
  Chans <- MCChans
  MaxCPU = 2
  Faults = {"send"}
SPECIFICATION Spec
PROPERTY StreamEventuallySent
