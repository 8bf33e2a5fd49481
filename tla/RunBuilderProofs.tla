-------------------------- MODULE RunBuilderProofs --------------------------
(***************************************************************************)
(* Proofs, for every value of the constants, that the run coalescer of     *)
(* thin_dump (RunBuilder) is well typed and hands back runs that are       *)
(* ordered, non-overlapping and maximal.  The argument is the inductive    *)
(* invariant RunBuilderInv: a run is open exactly while entries are being  *)
(* fed, it ends at the last key fed, and each new entry either grows it    *)
(* (its begin fields are unchanged, so its relation to the previous run   *)
(* is unchanged) or closes it, and then the new run starts after it and    *)
(* cannot be adjacent to it, since that is exactly the extension test.     *)
(***************************************************************************)
EXTENDS RunBuilder, SequenceTheorems, TLAPS

USE RunBuilderAssumption

(* Appending a run to a sequence whose neighbours are ordered and not      *)
(* adjacent keeps it so, if the new run is ordered after and not adjacent  *)
(* to the last one.                                                        *)
LEMMA AppendKeepsPairs ==
  ASSUME NEW S \in Seq(Runs), NEW x \in Runs,
         \A i \in 1..Len(S) - 1 : S[i].thin_begin + S[i].len <= S[i + 1].thin_begin,
         \A i \in 1..Len(S) - 1 : ~Adjacent(S[i], S[i + 1]),
         S # << >> => S[Len(S)].thin_begin + S[Len(S)].len <= x.thin_begin,
         S # << >> => ~Adjacent(S[Len(S)], x)
  PROVE  LET T == Append(S, x) IN
         /\ \A i \in 1..Len(T) - 1 : T[i].thin_begin + T[i].len <= T[i + 1].thin_begin
         /\ \A i \in 1..Len(T) - 1 : ~Adjacent(T[i], T[i + 1])
<1> DEFINE T == Append(S, x)
<1>1. /\ Len(T) = Len(S) + 1
      /\ \A i \in 1..Len(S) : T[i] = S[i]
      /\ T[Len(S) + 1] = x
      /\ Len(S) \in Nat
  BY AppendProperties, LenProperties
<1>2. ASSUME NEW i \in 1..Len(T) - 1
      PROVE  T[i].thin_begin + T[i].len <= T[i + 1].thin_begin /\ ~Adjacent(T[i], T[i + 1])
  <2>1. CASE i < Len(S)
    BY <1>1, <2>1
  <2>2. CASE i = Len(S)
    BY <1>1, <2>2
  <2>3. QED  BY <1>1, <2>1, <2>2
<1>3. QED  BY <1>2

(* Replacing the last run by one with the same begin fields and time       *)
(* keeps the neighbour relations (the last run may grow).                  *)
LEMMA GrowLastKeepsPairs ==
  ASSUME NEW S \in Seq(Runs), NEW r \in Runs, NEW y \in Runs,
         y.thin_begin = r.thin_begin, y.data_begin = r.data_begin, y.time = r.time,
         LET T == Append(S, r) IN
           /\ \A i \in 1..Len(T) - 1 : T[i].thin_begin + T[i].len <= T[i + 1].thin_begin
           /\ \A i \in 1..Len(T) - 1 : ~Adjacent(T[i], T[i + 1])
  PROVE  LET U == Append(S, y) IN
         /\ \A i \in 1..Len(U) - 1 : U[i].thin_begin + U[i].len <= U[i + 1].thin_begin
         /\ \A i \in 1..Len(U) - 1 : ~Adjacent(U[i], U[i + 1])
<1> DEFINE T == Append(S, r)  U == Append(S, y)
<1>1. /\ Len(T) = Len(S) + 1 /\ Len(U) = Len(S) + 1
      /\ \A i \in 1..Len(S) : T[i] = S[i] /\ U[i] = S[i]
      /\ T[Len(S) + 1] = r /\ U[Len(S) + 1] = y
      /\ Len(S) \in Nat
  BY AppendProperties, LenProperties
<1>2. ASSUME NEW i \in 1..Len(U) - 1
      PROVE  U[i].thin_begin + U[i].len <= U[i + 1].thin_begin /\ ~Adjacent(U[i], U[i + 1])
  <2>1. T[i].thin_begin + T[i].len <= T[i + 1].thin_begin /\ ~Adjacent(T[i], T[i + 1])
    BY <1>1
  <2>2. CASE i < Len(S)
    BY <1>1, <2>1, <2>2
  <2>3. CASE i = Len(S)
    BY <1>1, <2>1, <2>3 DEF Adjacent
  <2>4. QED  BY <1>1, <2>2, <2>3
<1>3. QED  BY <1>2

-----------------------------------------------------------------------------
(* The last element of a non-empty sequence. *)
LEMMA LastOf ==
  ASSUME NEW S, NEW s \in Seq(S), s # << >>
  PROVE  Len(s) \in Nat \ {0} /\ s[Len(s)] \in S
<1>1. Len(s) \in Nat \ {0}  BY EmptySeq
<1>2. Len(s) \in 1..Len(s)  BY <1>1
<1>3. QED  BY <1>1, <1>2, ElementOfSeq

(* The fields of entries and runs are natural numbers. *)
LEMMA EntryFields ==
  ASSUME NEW e \in Entries
  PROVE  e.thin \in Nat /\ e.data \in Nat /\ e.time \in Nat
BY DEF Entries

(* A run's fields are naturals, and a run is never NoRun.          *)
LEMMA RunFields ==
  ASSUME NEW r \in Runs
  PROVE  r.thin_begin \in Nat /\ r.data_begin \in Nat /\ r.len \in Nat /\ r # NoRun
BY DEF Runs

(* Facts about the run next() opens. *)
LEMMA NewRunType ==
  ASSUME NEW e \in Entries
  PROVE  /\ NewRun(e) \in Runs /\ NewRun(e) # NoRun
         /\ e.thin \in Nat
         /\ NewRun(e).thin_begin = e.thin /\ NewRun(e).len = 1
BY DEF Entries, NewRun, Runs

(* An empty RunBuilder satisfies the inductive invariant. *)
LEMMA InitInv == Init => RunBuilderInv
<1> SUFFICES ASSUME Init PROVE RunBuilderInv
  OBVIOUS
<1>1. TypeOK  BY EmptySeq DEF Init, TypeOK
<1>2. RunsSoFar = << >> /\ Len(<< >>) = 0  BY EmptySeq DEF Init, RunsSoFar
<1>3. RunsOrdered  BY <1>2 DEF Init, RunsOrdered
<1>4. RunsMaximal  BY <1>2 DEF RunsMaximal
<1>5. QED  BY <1>1, <1>3, <1>4 DEF Init, RunBuilderInv

(* Every next() and complete() preserves the inductive invariant. *)
LEMMA NextInv == RunBuilderInv /\ [Next]_vars => RunBuilderInv'
<1> SUFFICES ASSUME RunBuilderInv, [Next]_vars PROVE RunBuilderInv'
  OBVIOUS
<1>0. /\ run \in Runs \cup {NoRun}
      /\ fed \in Seq(Entries) /\ emitted \in Seq(Runs) /\ ended \in BOOLEAN
      /\ Len(fed) \in Nat /\ Len(emitted) \in Nat
  BY LenProperties DEF RunBuilderInv, TypeOK
<1>a. /\ RunsOrdered /\ RunsMaximal
      /\ fed = << >> => emitted = << >> /\ run = NoRun
      /\ ~ended /\ fed # << >> => run # NoRun
  BY DEF RunBuilderInv
<1>b. emitted # << >> =>
        /\ emitted[Len(emitted)].thin_begin \in Nat
        /\ emitted[Len(emitted)].len \in Nat
  BY <1>0, LastOf, RunFields
<1>1. ASSUME NEW e \in Entries, BuilderNext(e) PROVE RunBuilderInv'
  <2>0. /\ ~ended /\ ended' = ended
        /\ Ascending(e)
        /\ run' = NextRun(run, e)
        /\ emitted' = emitted \o NextReturns(run, e)
        /\ fed' = Append(fed, e)
    BY <1>1 DEF BuilderNext
  <2>1. /\ fed' \in Seq(Entries) /\ fed' # << >>
        /\ Len(fed') = Len(fed) + 1 /\ fed'[Len(fed')] = e
    BY <2>0, <1>0, AppendProperties
  <2>2. /\ NewRun(e) \in Runs /\ NewRun(e) # NoRun /\ e.thin \in Nat
        /\ NewRun(e).thin_begin = e.thin /\ NewRun(e).len = 1
    BY NewRunType
  <2>3. CASE fed = << >>
    <3>1. run = NoRun /\ emitted = << >>
      BY <2>3, <1>a
    <3>2. run' = NewRun(e) /\ emitted' = << >>
      BY <3>1, <2>0, EmptySeq, ConcatEmptySeq DEF NextRun, NextReturns, Extends
    <3>3. RunsSoFar' = Append(<< >>, NewRun(e))  BY <3>2, <2>2 DEF RunsSoFar
    <3>4. Len(RunsSoFar') = 1  BY <3>3, <2>2, EmptySeq, AppendProperties
    <3>5. TypeOK'  BY <3>2, <2>0, <2>1, <2>2, <1>0, EmptySeq DEF TypeOK
    <3>6. RunsOrdered'  BY <3>2, <3>4, <2>1, <2>2 DEF RunsOrdered
    <3>7. RunsMaximal'  BY <3>4 DEF RunsMaximal
    <3>8. QED  BY <3>2, <3>5, <3>6, <3>7, <2>1, <2>2 DEF RunBuilderInv
  <2>4. CASE fed # << >>
    <3>0. /\ run \in Runs
          /\ run.thin_begin + run.len = fed[Len(fed)].thin + 1
          /\ fed[Len(fed)].thin \in Nat
          /\ fed[Len(fed)].thin < e.thin
          /\ RunsSoFar = Append(emitted, run)
      <4>1. run # NoRun  BY <2>4, <2>0, <1>a
      <4>2. fed[Len(fed)] \in Entries  BY <2>4, <1>0, LastOf
      <4>3. fed[Len(fed)].thin < e.thin  BY <2>0, <2>4 DEF Ascending
      <4>4. run.thin_begin + run.len = fed[Len(fed)].thin + 1
        BY <4>1, <1>a DEF RunsOrdered
      <4>5. QED  BY <4>1, <4>2, <4>3, <4>4, <1>0, EntryFields DEF RunsSoFar
    <3>1. run.thin_begin \in Nat /\ run.len \in Nat  BY <3>0, RunFields
    <3>2. CASE Extends(run, e)
      <4>1. run' = [run EXCEPT !.len = @ + 1] /\ emitted' = emitted
        BY <3>2, <2>0, <1>0, ConcatEmptySeq DEF NextRun, NextReturns
      <4>2. /\ run' \in Runs /\ run' # NoRun
            /\ run'.thin_begin = run.thin_begin /\ run'.data_begin = run.data_begin
            /\ run'.time = run.time /\ run'.len = run.len + 1
        <5>1. run = [thin_begin |-> run.thin_begin, data_begin |-> run.data_begin,
                     time |-> run.time, len |-> run.len]
          BY <3>0 DEF Runs
        <5>2. run' = [thin_begin |-> run.thin_begin, data_begin |-> run.data_begin,
                      time |-> run.time, len |-> run.len + 1]
          BY <4>1, <5>1, Zenon
        <5>3. run.len + 1 \in Nat \ {0} /\ run.time \in 0..MaxTime /\ run.data_begin \in Nat
          BY <3>0 DEF Runs
        <5>4. run' \in Runs  BY <5>2, <5>3, <3>1 DEF Runs
        <5>5. QED  BY <5>2, <5>4, RunBuilderAssumption
      <4>3. RunsSoFar' = Append(emitted, run')
        BY <4>1, <4>2 DEF RunsSoFar
      <4>4. /\ \A i \in 1..Len(RunsSoFar') - 1 :
                 RunsSoFar'[i].thin_begin + RunsSoFar'[i].len <= RunsSoFar'[i + 1].thin_begin
            /\ \A i \in 1..Len(RunsSoFar') - 1 : ~Adjacent(RunsSoFar'[i], RunsSoFar'[i + 1])
        <5>1. /\ \A i \in 1..Len(Append(emitted, run)) - 1 :
                   Append(emitted, run)[i].thin_begin + Append(emitted, run)[i].len
                     <= Append(emitted, run)[i + 1].thin_begin
              /\ \A i \in 1..Len(Append(emitted, run)) - 1 :
                   ~Adjacent(Append(emitted, run)[i], Append(emitted, run)[i + 1])
          BY <3>0, <1>a DEF RunsOrdered, RunsMaximal
        <5>2. QED  BY <5>1, <4>2, <4>3, <3>0, <1>0, GrowLastKeepsPairs
      <4>5. run'.thin_begin + run'.len = e.thin + 1
        BY <4>2, <3>0, <3>1, <3>2, <2>2 DEF Extends
      <4>6. emitted # << >> =>
              emitted[Len(emitted)].thin_begin + emitted[Len(emitted)].len <= e.thin + 1
        <5>1. SUFFICES ASSUME emitted # << >>
                       PROVE  emitted[Len(emitted)].thin_begin + emitted[Len(emitted)].len
                                <= e.thin + 1
          OBVIOUS
        <5>2. emitted[Len(emitted)].thin_begin + emitted[Len(emitted)].len
                <= fed[Len(fed)].thin + 1
          BY <5>1, <1>a DEF RunsOrdered
        <5>3. QED  BY <5>1, <5>2, <1>b, <3>0, <2>2
      <4>7. TypeOK'  BY <4>1, <4>2, <2>0, <2>1, <1>0 DEF TypeOK
      <4>8. RunsOrdered'  BY <4>1, <4>4, <4>5, <4>6, <2>1 DEF RunsOrdered
      <4>9. RunsMaximal'  BY <4>4 DEF RunsMaximal
      <4>10. QED  BY <4>2, <4>7, <4>8, <4>9, <2>1 DEF RunBuilderInv
    <3>3. CASE ~Extends(run, e)
      <4>1. run' = NewRun(e) /\ emitted' = Append(emitted, run)
        BY <3>3, <3>0, <2>0, <1>0, AppendIsConcat DEF NextRun, NextReturns
      <4>2. /\ emitted' \in Seq(Runs) /\ emitted' # << >>
            /\ Len(emitted') = Len(emitted) + 1
            /\ emitted'[Len(emitted')] = run
        BY <4>1, <3>0, <1>0, AppendProperties
      <4>3. RunsSoFar' = Append(RunsSoFar, NewRun(e))
        BY <4>1, <3>0, <2>2 DEF RunsSoFar
      <4>4. RunsSoFar \in Seq(Runs) /\ RunsSoFar # << >>
            /\ RunsSoFar[Len(RunsSoFar)] = run
        BY <3>0, <1>0, AppendProperties
      <4>5. ~Adjacent(run, NewRun(e))
        BY <3>3, <3>0 DEF Adjacent, Extends, NewRun
      <4>6. /\ \A i \in 1..Len(RunsSoFar') - 1 :
                 RunsSoFar'[i].thin_begin + RunsSoFar'[i].len <= RunsSoFar'[i + 1].thin_begin
            /\ \A i \in 1..Len(RunsSoFar') - 1 : ~Adjacent(RunsSoFar'[i], RunsSoFar'[i + 1])
        <5>1. /\ \A i \in 1..Len(RunsSoFar) - 1 :
                   RunsSoFar[i].thin_begin + RunsSoFar[i].len <= RunsSoFar[i + 1].thin_begin
              /\ \A i \in 1..Len(RunsSoFar) - 1 : ~Adjacent(RunsSoFar[i], RunsSoFar[i + 1])
          BY <1>a DEF RunsOrdered, RunsMaximal
        <5>2. run.thin_begin + run.len <= NewRun(e).thin_begin
          BY <3>0, <3>1, <2>2
        <5>3. QED  BY <5>1, <5>2, <4>3, <4>4, <4>5, <2>2, AppendKeepsPairs
      <4>7. TypeOK'  BY <4>1, <4>2, <2>0, <2>1, <2>2, <1>0 DEF TypeOK
      <4>8. RunsOrdered'
        BY <4>1, <4>2, <4>6, <3>0, <3>1, <2>1, <2>2 DEF RunsOrdered
      <4>9. RunsMaximal'  BY <4>6 DEF RunsMaximal
      <4>10. QED  BY <4>1, <4>7, <4>8, <4>9, <2>1, <2>2 DEF RunBuilderInv
    <3>4. QED  BY <3>2, <3>3
  <2>5. QED  BY <2>3, <2>4
<1>2. CASE Complete
  <2>0. /\ ~ended /\ ended' = TRUE /\ run' = NoRun /\ fed' = fed
        /\ emitted' = emitted \o CompleteReturns(run)
    BY <1>2 DEF Complete
  <2>1. CASE run = NoRun
    <3>1. emitted' = emitted  BY <2>0, <2>1, <1>0, ConcatEmptySeq DEF CompleteReturns
    <3>2. RunsSoFar' = RunsSoFar  BY <3>1, <2>0, <2>1 DEF RunsSoFar
    <3>3. QED
      BY <3>1, <3>2, <2>0, <2>1, <1>0, <1>a
      DEF RunBuilderInv, TypeOK, RunsOrdered, RunsMaximal
  <2>2. CASE run # NoRun
    <3>0. run \in Runs /\ fed # << >>  BY <2>2, <1>0, <1>a
    <3>1. emitted' = Append(emitted, run)
      BY <2>0, <2>2, <3>0, <1>0, AppendIsConcat DEF CompleteReturns
    <3>2. /\ emitted' \in Seq(Runs) /\ emitted' # << >>
          /\ Len(emitted') = Len(emitted) + 1 /\ emitted'[Len(emitted')] = run
      BY <3>1, <3>0, <1>0, AppendProperties
    <3>3. RunsSoFar' = RunsSoFar  BY <3>1, <2>0, <2>2 DEF RunsSoFar
    <3>4. run.thin_begin + run.len = fed[Len(fed)].thin + 1
      BY <2>2, <1>a DEF RunsOrdered
    <3>5. TypeOK'  BY <3>2, <2>0, <1>0 DEF TypeOK
    <3>6. RunsOrdered'
      <4>1. fed[Len(fed)].thin \in Nat  BY <3>0, <1>0, LastOf, EntryFields
      <4>2. run.thin_begin \in Nat /\ run.len \in Nat  BY <3>0, RunFields
      <4>3. emitted'[Len(emitted')].thin_begin + emitted'[Len(emitted')].len
              <= fed'[Len(fed')].thin + 1
        BY <3>2, <3>4, <4>1, <4>2, <2>0
      <4>4. \A i \in 1..Len(RunsSoFar') - 1 :
              RunsSoFar'[i].thin_begin + RunsSoFar'[i].len <= RunsSoFar'[i + 1].thin_begin
        BY <3>3, <1>a DEF RunsOrdered
      <4>5. QED  BY <4>3, <4>4, <2>0 DEF RunsOrdered
    <3>7. RunsMaximal'  BY <3>3, <1>a DEF RunsMaximal
    <3>8. QED  BY <3>0, <3>5, <3>6, <3>7, <2>0 DEF RunBuilderInv
  <2>3. QED  BY <2>1, <2>2
<1>3. CASE UNCHANGED vars
  BY <1>3 DEF vars, RunBuilderInv, TypeOK, RunsOrdered, RunsMaximal, RunsSoFar
<1>4. QED  BY <1>1, <1>2, <1>3 DEF Next

-----------------------------------------------------------------------------
(* The inductive invariant of the coalescer holds in every state: a run   *)
(* is open exactly while MappingVisitor::visit is feeding entries, and the *)
(* runs RunBuilder::next and ::complete hand back are ordered and maximal. *)
THEOREM InvariantHolds == Spec => []RunBuilderInv
BY InitInv, NextInv, PTL DEF Spec

(* Type correctness of the coalescer: the open run and every run handed    *)
(* back by RunBuilder::next and ::complete have length at least 1.         *)
THEOREM TypeCorrect == Spec => []TypeOK
<1>1. RunBuilderInv => TypeOK  BY DEF RunBuilderInv
<1>2. QED  BY InitInv, NextInv, <1>1, PTL DEF Spec

(* The runs thin_dump emits for a list of leaves never overlap, come out   *)
(* in ascending order and are maximal (no two consecutive runs could be    *)
(* one), whatever the bounds: RunBuilder::next's extension test and its    *)
(* replace of the open run are correct for every ascending input.          *)
THEOREM RunsCorrect == Spec => [](RunsOrdered /\ RunsMaximal)
<1>1. RunBuilderInv => RunsOrdered /\ RunsMaximal  BY DEF RunBuilderInv
<1>2. QED  BY InitInv, NextInv, <1>1, PTL DEF Spec
(* The runs MappingVisitor passes to map are maximal (spec 4.6): no run  *)
(* returned by next or complete is adjacent to the one before it.         *)
THEOREM MaximalRuns == Spec => []RunsMaximal
BY RunsCorrect, PTL

=============================================================================
