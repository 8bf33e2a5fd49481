----------------------------- MODULE RunBuilder -----------------------------
(***************************************************************************)
(* The mapping-run coalescer of thin_dump: struct RunBuilder of            *)
(* src/src/thin/dump.rs.  The builder holds at most one open run           *)
(* (ir::Map); next(thin_block, data_block, time) either extends it or      *)
(* replaces it, returning the run it closed, and complete() takes the open *)
(* run.                                                                    *)
(*                                                                         *)
(* The first half of the module gives the two methods as operators, which  *)
(* Dump reuses.  The second half is the builder as a component: its state  *)
(* is the open run, and its environment (the MappingVisitor, which feeds   *)
(* the entries of the leaves it reads in ascending key order) records the  *)
(* entries it fed and the runs the builder handed back.                    *)
(***************************************************************************)
EXTENDS Naturals, Sequences

CONSTANTS
  NoRun,      \* Option::None for the open run
  MaxKey,     \* thin blocks are 0..MaxKey
  MaxData,    \* data blocks are 0..MaxData
  MaxTime,    \* times are 0..MaxTime
  MaxFed      \* bound on the number of entries fed to one builder

(* A leaf entry: key (thin block) and the BlockTime value. *)
Entries == [thin : 0..MaxKey, data : 0..MaxData, time : 0..MaxTime]

(* ir::Map; a run is only ever created with len 1 and then grown. *)
Runs == [thin_begin : Nat, data_begin : Nat, time : 0..MaxTime, len : Nat \ {0}]

ASSUME RunBuilderAssumption ==
  /\ MaxKey \in Nat /\ MaxData \in Nat /\ MaxTime \in Nat
  /\ MaxFed \in Nat
  /\ NoRun \notin Runs

(* Fault-injected variants, for mutation checks of the properties below:  *)
(* a run opened with len 0, an extension test that ignores the time, one   *)
(* off by one in the thin space, and next() handing back the new run.     *)
NewRunLenZero(e) == [thin_begin |-> e.thin, data_begin |-> e.data, time |-> e.time, len |-> 0]
ExtendsNoTime(r, e) ==
  r # NoRun /\ e.thin = r.thin_begin + r.len /\ e.data = r.data_begin + r.len
ExtendsOffByOne(r, e) ==
  /\ r # NoRun
  /\ e.thin = r.thin_begin + r.len - 1
  /\ e.data = r.data_begin + r.len
  /\ r.time = e.time

(* The run RunBuilder::next opens for an entry that does not extend. *)
NewRun(e) == [thin_begin |-> e.thin, data_begin |-> e.data, time |-> e.time, len |-> 1]

(* The condition under which next() grows the open run r by e. *)
Extends(r, e) ==
  /\ r # NoRun
  /\ e.thin = r.thin_begin + r.len
  /\ e.data = r.data_begin + r.len
  /\ r.time = e.time

(* self.run after RunBuilder::next(e) on open run r. *)
NextRun(r, e) ==
  IF Extends(r, e) THEN [r EXCEPT !.len = @ + 1] ELSE NewRun(e)

NextReturnsNew(r, e) ==
  IF r # NoRun /\ ~Extends(r, e) THEN <<NewRun(e)>> ELSE << >>

(* The runs RunBuilder::next(e) returns (as a sequence of 0 or 1 runs). *)
NextReturns(r, e) ==
  IF r # NoRun /\ ~Extends(r, e) THEN <<r>> ELSE << >>

(* The runs RunBuilder::complete() returns. *)
CompleteReturns(r) == IF r = NoRun THEN << >> ELSE <<r>>

-----------------------------------------------------------------------------
VARIABLES
  run,      \* RunBuilder.run
  fed,      \* the entries fed through next(), in order
  emitted,  \* the runs returned by next() and complete(), in order
  ended     \* complete() was called: the walk is over and the builder dropped

vars == <<run, fed, emitted, ended>>

Init ==
  /\ run = NoRun
  /\ fed = << >>
  /\ emitted = << >>
  /\ ended = FALSE

(* The caller feeds the entries of consecutive leaves in ascending key     *)
(* order (keys are strictly increasing in a B-tree walk).                  *)
Ascending(e) == IF fed = << >> THEN TRUE ELSE fed[Len(fed)].thin < e.thin

(* RunBuilder::next, with the caller passing on the run it returns. *)
BuilderNext(e) ==
  /\ ~ended
  /\ Len(fed) < MaxFed
  /\ Ascending(e)
  /\ run' = NextRun(run, e)
  /\ emitted' = emitted \o NextReturns(run, e)
  /\ fed' = Append(fed, e)
  /\ UNCHANGED ended

(* RunBuilder::complete: take the open run (MappingVisitor::end_walk,     *)
(* after which the visitor and its builder are dropped).                   *)
Complete ==
  /\ ~ended
  /\ ended' = TRUE
  /\ run' = NoRun
  /\ emitted' = emitted \o CompleteReturns(run)
  /\ UNCHANGED fed

Next ==
  \/ \E e \in Entries : BuilderNext(e)
  \/ Complete

Spec == Init /\ [][Next]_vars

-----------------------------------------------------------------------------
(* The open run and every returned run are runs of length at least 1. *)
TypeOK ==
  /\ run \in Runs \cup {NoRun}
  /\ fed \in Seq(Entries)
  /\ emitted \in Seq(Runs)
  /\ ended \in BOOLEAN

(* Adjacent is r2 starting exactly where r1 ends, in both the thin and     *)
(* the data space, with the same time: then the two could be one run.      *)
Adjacent(r1, r2) ==
  /\ r2.thin_begin = r1.thin_begin + r1.len
  /\ r2.data_begin = r1.data_begin + r1.len
  /\ r2.time = r1.time

(* The runs handed back, followed by the open run. *)
RunsSoFar == IF run = NoRun THEN emitted ELSE Append(emitted, run)

(* Runs are maximal (spec 4.6): no returned run, nor the open run, could   *)
(* have been merged with the one returned just before it.  This is what    *)
(* the extension test of RunBuilder::next has to get right for the XML to  *)
(* be canonical.                                                           *)
RunsMaximal ==
  \A i \in 1..Len(RunsSoFar) - 1 : ~Adjacent(RunsSoFar[i], RunsSoFar[i + 1])

(* Runs never overlap and come out in ascending thin_begin order (spec     *)
(* section 3 and invariant 8.2), given ascending input: each run ends      *)
(* before the next begins, and the open run ends at the last key fed.      *)
RunsOrdered ==
  /\ \A i \in 1..Len(RunsSoFar) - 1 :
       RunsSoFar[i].thin_begin + RunsSoFar[i].len <= RunsSoFar[i + 1].thin_begin
  /\ run # NoRun => run.thin_begin + run.len = fed[Len(fed)].thin + 1
  /\ emitted # << >> =>
       emitted[Len(emitted)].thin_begin + emitted[Len(emitted)].len
         <= fed[Len(fed)].thin + 1

(* The inductive strengthening of RunsOrdered and RunsMaximal: the builder *)
(* has a run open exactly while it is being fed, and nothing is returned   *)
(* before the first entry.  It is what makes the two properties hold for   *)
(* every bound, not only the ones TLC runs (RunBuilderProofs).             *)
RunBuilderInv ==
  /\ TypeOK
  /\ RunsOrdered
  /\ RunsMaximal
  /\ fed = << >> => emitted = << >> /\ run = NoRun
  /\ ~ended /\ fed # << >> => run # NoRun
=============================================================================
