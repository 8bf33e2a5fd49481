CONSTANTS
  NoRun = NoRun
  MaxKey <- MCMaxKey
  MaxData <- MCMaxData
  MaxTime <- MCMaxTime
  MaxFed <- MCMaxFed

SPECIFICATION Spec

INVARIANT TypeOK
INVARIANT RunsMaximal
INVARIANT RunsOrdered

PROPERTY RunsPreserveEntries

\* The walk ends with complete(); after it the builder is dropped.
CHECK_DEADLOCK FALSE
