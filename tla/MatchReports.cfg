\* Two reports, two faults of any kind, one restart.
CONSTANTS
  r1 = r1
  r2 = r2
  NoReport = NoReport
  Reports <- MCReports
  Fields = 2
  PipeRoom = 1
  MaxFaults = 2
  MaxRestarts = 1
SPECIFICATION Spec
INVARIANTS TypeOK NothingForgotten CopiesCostFaults
PROPERTIES Implements Settles
\* A server that was stopped for the last time stays so.
CHECK_DEADLOCK FALSE
