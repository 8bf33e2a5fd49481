---------------------------- MODULE MCRunBuilder ----------------------------
(***************************************************************************)
(* Model-checking instance of RunBuilder, and the refinement of the        *)
(* coalescer into RunBuilderAbstract: the runs returned so far, followed   *)
(* by the open run, expand to exactly the entries fed.                     *)
(***************************************************************************)
EXTENDS RunBuilder, SequencesExt

MCMaxKey == 3
MCMaxData == 3
MCMaxTime == 1
MCMaxFed == 4

(* The entries a run stands for (how thin_dump's XML reader would expand  *)
(* a range_mapping).                                                       *)
ExpandRun(r) ==
  [i \in 1..r.len |-> [thin |-> r.thin_begin + i - 1,
                       data |-> r.data_begin + i - 1,
                       time |-> r.time]]

Shown == FlattenSeq([i \in 1..Len(RunsSoFar) |-> ExpandRun(RunsSoFar[i])])

Copy == INSTANCE RunBuilderAbstract WITH shown <- Shown

(* The builder loses, duplicates and reorders no entry: it implements the  *)
(* lossless copy of RunBuilderAbstract (spec invariant 8.4).               *)
RunsPreserveEntries == Copy!Spec
=============================================================================
