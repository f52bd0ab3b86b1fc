SPECIFICATION Spec
CONSTANTS
  w1 = w1
  w2 = w2
  j1 = j1
  j2 = j2
  Workers <- TwoWorkers
  NoJob = NoJob
  Jobs <- OneJob
  Settable <- OnlyDismissed
  Faults <- AllFaults
  MaxProcesses = 2
  MaxFaults = 3
SYMMETRY Symmetry
INVARIANTS
  TypeOK
  RunsAtMostOnce
  OutcomeIsOfRun
  JobsBelong
PROPERTY FinalStatusKept
CHECK_DEADLOCK FALSE
