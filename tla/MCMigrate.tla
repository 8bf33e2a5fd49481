------------------------------ MODULE MCMigrate ------------------------------
(***************************************************************************)
(* Model-checking instance of Migrate: data blocks of two sectors, a       *)
(* buffer of one sector (smaller than a block: nr_ops = 0) or of four      *)
(* (nr_ops = 2), and streams that copy around a skipped region, copy more  *)
(* than one batch, hit a Discard, or are empty.                            *)
(***************************************************************************)
EXTENDS Migrate

MCStreams ==
  { << Chunk(0, 4, "Copy"), Chunk(4, 2, "Skip"), Chunk(6, 2, "Copy") >>,
    << Chunk(0, 2, "Skip"), Chunk(2, 6, "Copy") >>,
    << Chunk(0, 2, "Copy"), Chunk(2, 2, "Discard") >>,
    << >> }
=============================================================================
