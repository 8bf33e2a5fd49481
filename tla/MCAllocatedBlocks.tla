-------------------------- MODULE MCAllocatedBlocks --------------------------
(***************************************************************************)
(* Model-checking instance of AllocatedBlocks, scaled down: four entries   *)
(* per bitmap, three bitmaps at most, and 4-bit block numbers, keeping     *)
(* the code's ratio MAX_METADATA_BITMAPS * ENTRIES_PER_BITMAP (255 *       *)
(* 16320 = 4161600) <= 2^32.  Bitmaps are empty, or hold free, single,     *)
(* shared and overflow entries at different positions.                     *)
(***************************************************************************)
EXTENDS AllocatedBlocks

MCBitmaps ==
  { [i \in 0..3 |-> 0],
    [i \in 0..3 |-> IF i = 0 THEN 1 ELSE IF i = 2 THEN 2 ELSE 0],
    [i \in 0..3 |-> IF i = 1 THEN 3 ELSE IF i = 3 THEN 1 ELSE 0] }
=============================================================================
