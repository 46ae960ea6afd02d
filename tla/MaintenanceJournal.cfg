SPECIFICATION FairSpec
CONSTANTS
  MaxLen = 2
  MaxSubmits = 5
  NoReport = NoReport
INVARIANTS TypeOK EveryRowCounted
PROPERTIES RowsResolve ShutdownReturns
CHECK_DEADLOCK FALSE
