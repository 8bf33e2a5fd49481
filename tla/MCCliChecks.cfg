\* The command-line checks against the rules they implement.
CONSTANTS
  Chars <- MCChars
  MaxArgLen = 6
  Replies <- MCReplies
  Sizes <- MCSizes
SPECIFICATION Spec
INVARIANTS RangeParsed OverwriteConfirmed
\* Every call returns: the state after it has no successor.
CHECK_DEADLOCK FALSE
