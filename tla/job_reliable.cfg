SPECIFICATION FairSpec
CONSTANTS
  w1 = w1
  w2 = w2
  j1 = j1
  j2 = j2
  Workers <- TwoWorkers
  NoJob = NoJob
  Jobs <- TwoJobs
  Settable <- OnlyDismissed
  Faults <- DuplicatesOnly
  MaxProcesses = 1
  MaxFaults = 1
INVARIANTS
  OutcomeAnnounced
  AcceptedIsAwaited
PROPERTY ImplementsLifecycle
CHECK_DEADLOCK FALSE
