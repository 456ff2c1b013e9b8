--------------------------- MODULE MCMutexSignals ---------------------------
\* Two components that share nothing, in one run: each moves while the other is in
\* an initial state.
EXTENDS Mutex, Signals

\* Programs may ask for SIGKILL to be masked, and do not get it.
MCMasks == {{}, {SIGKILL, SIGSEGV}}

\* By symmetry the same task is always the first.
MCMutexInit == MutexInit /\ ready = {CHOOSE t \in Tasks : TRUE}

MCInit == MCMutexInit /\ SignalsInit
MCNext ==
  \/ SignalsInit /\ MutexNext /\ UNCHANGED signalsvars
  \/ MCMutexInit /\ SignalsNext /\ UNCHANGED mutexvars
MCSpec == MCInit /\ [][MCNext]_<<mutexvars, signalsvars>> /\ SignalsFairness
=============================================================================
