CONSTANTS
  NoRun = NoRun
  BadNode = BadNode
  MaxKey = 3
  MaxData = 3
  MaxTime = 1
  Locs <- MCLocs
  LeafChoices <- MCLeafChoices
  Layouts <- MCLayouts
  IoErrors = TRUE

SPECIFICATION Spec


INVARIANT NoHalfOpenDevice

\* dump_metadata returns, Ok ("done") or Err ("error").
CHECK_DEADLOCK FALSE
