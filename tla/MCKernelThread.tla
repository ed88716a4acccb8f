---------------------------- MODULE MCKernelThread ----------------------------
EXTENDS KernelThread

\* Two kernel channels, so that one can be created while the other is
\* already in the poll set.
MCChans == {"chan1", "chan2"}

====
