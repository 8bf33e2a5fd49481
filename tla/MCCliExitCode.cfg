\* to_exit_code against the exit codes of spec section 6.
CONSTANTS
  Chars <- MCChars
  MaxArgLen = 0
  Replies <- MCReplies
  Sizes <- MCSizes
SPECIFICATION Spec
INVARIANT ExitCodeAsSpecified
CHECK_DEADLOCK FALSE
