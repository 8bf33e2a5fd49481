CONSTANTS
  EntriesPerBitmap = 4
  Width = 4
  MaxBitmaps = 3
  Locs = {10, 11, 12}
  Bitmaps <- MCBitmaps
  IoErrors = TRUE

SPECIFICATION Spec

INVARIANT AllocatedExact

\* allocated_blocks returns Ok(bits) or Err.
CHECK_DEADLOCK FALSE
