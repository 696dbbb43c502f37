CONSTANTS
  CallingThreads = {"t1", "t2"}
  Cpus <- MCCpus
  Requests <- MCRequests
  Programs <- MCPrograms
SPECIFICATION SelectionSpec
INVARIANT SelectionSound
PROPERTY CallsReturn
CHECK_DEADLOCK FALSE
