----------------------------- MODULE DumpProofs -----------------------------
(***************************************************************************)
(* Proofs about the emit half of thin_dump (module Dump), for every        *)
(* metadata model, leaf contents and key, data and time bound that         *)
(* DumpAssumption and RunBuilderAssumption allow.                          *)
(*                                                                         *)
(* DumpInv is proved inductive.  It is split into four groups, proved one  *)
(* by one per action: the inputs, which never change; the control state    *)
(* (pc, the section and the entry cursor, in range of the list being       *)
(* emitted); the data (leaves, the read queue, the keys, the open run and  *)
(* the visitor calls); and LeavesFlushed, which ties the visitor's state   *)
(* to where emit_entries is.                                               *)
(***************************************************************************)
EXTENDS Dump, SequenceTheorems, TLAPS

(* The run builder's facts that the dump needs. *)
LEMMA BuilderFacts ==
  /\ MaxKey \in Nat /\ MaxData \in Nat /\ MaxTime \in Nat
  /\ NoRun \notin Runs
BY DumpAssumption

(* An item of an entry list is a leaf with a location or a ref with an id. *)
LEMMA ItemFacts ==
  ASSUME NEW x \in ListItems
  PROVE  /\ x.kind \in {"leaf", "ref"}
         /\ x.kind = "leaf" => x.loc \in Locs
         /\ x.kind = "ref" => x.id \in Nat
BY DEF ListItems

(* Position x of a concatenation of lists of lengths a and b, past the   *)
(* first, is position x - a of the second.                               *)
LEMMA IntervalShift ==
  ASSUME NEW a \in Nat, NEW b \in Nat, NEW x \in 1..(a + b), ~(x <= a)
  PROVE  x - a \in 1..b
OBVIOUS

(* The list emit_entries walks is a list of items. *)
LEMMA CurType ==
  ASSUME md \in Layouts, sect \in 1..NSect
  PROVE  Cur \in Seq(ListItems)
<1>1. md.defs \in Seq(Seq(ListItems)) /\ md.devs \in Seq(Seq(ListItems))
  BY DumpAssumption
<1>2. Len(md.defs) \in Nat /\ Len(md.devs) \in Nat
  BY <1>1, LenProperties
<1>3. NDefs = Len(md.defs) /\ NSect = Len(md.defs) + Len(md.devs)
  BY DEF NDefs, NSect
<1>4. CASE sect <= NDefs
  <2>1. sect \in 1..Len(md.defs)
    BY <1>2, <1>4 DEF NDefs, NSect
  <2>2. md.defs[sect] \in Seq(ListItems)
    BY <1>1, <2>1, ElementOfSeq
  <2> QED
    BY <1>4, <2>2 DEF Cur, SectEntries
<1>5. CASE ~(sect <= NDefs)
  <2>1. sect \in 1..(Len(md.defs) + Len(md.devs))
    BY Zenon DEF NSect
  <2>2. ~(sect <= Len(md.defs))
    BY <1>5, Zenon DEF NDefs
  <2>3. sect - NDefs \in 1..Len(md.devs)
    BY <1>2, <2>1, <2>2, IntervalShift DEF NDefs
  <2>4. md.devs[sect - NDefs] \in Seq(ListItems)
    BY <1>1, <2>3, ElementOfSeq
  <2> QED
    BY <1>5, <2>4 DEF Cur, SectEntries
<1> QED
  BY <1>4, <1>5

(* The calls next() and complete() add to out, and the run next() leaves  *)
(* open, are well typed.                                                   *)
LEMMA NextRunType ==
  ASSUME NEW r \in Runs \cup {NoRun}, NEW e \in Entries
  PROVE  /\ RB!NextRun(r, e) \in Runs
         /\ MapEvents(RB!NextReturns(r, e)) \in Seq(Events)
<1>1. e.thin \in Nat /\ e.data \in Nat /\ e.time \in 0..MaxTime
  BY BuilderFacts DEF Entries, RB!Entries
<1>2. RB!NewRun(e) \in Runs
  BY <1>1 DEF RB!NewRun, Runs, RB!Runs
<1>3. RB!Extends(r, e) => [r EXCEPT !.len = @ + 1] \in Runs
  BY DEF RB!Extends, Runs, RB!Runs
<1>4. RB!NextRun(r, e) \in Runs
  BY <1>2, <1>3 DEF RB!NextRun
<1>5. RB!NextReturns(r, e) \in Seq(Runs)
  BY DEF RB!NextReturns
<1> QED
  BY <1>4, <1>5 DEF MapEvents, Events

(* The events of the run that complete() returns are well-typed. *)
LEMMA CompleteType ==
  ASSUME NEW r \in Runs \cup {NoRun}
  PROVE  MapEvents(RB!CompleteReturns(r)) \in Seq(Events)
BY DEF MapEvents, Events, RB!CompleteReturns

(* The four groups of DumpInv. *)
InputsOK == md \in Layouts /\ leafData \in [Locs -> LeafChoices]
CtlOK ==
  /\ pc \in PCs
  /\ sect \in 1..NSect + 1
  /\ pc \in {"entries", "read", "section_e"} => sect \in 1..NSect
  /\ pc \in {"entries", "read", "section_e"} => ei \in 1..Len(Cur) + 1
DataOK ==
  /\ leaves \in Seq(Locs) /\ queue \in Seq(Locs) /\ keys \in Seq(Entries)
  /\ run \in Runs \cup {NoRun} /\ out \in Seq(Events)

(* The inductive invariant is the conjunction of its groups. *)
LEMMA InvParts == DumpInv <=> InputsOK /\ CtlOK /\ DataOK /\ LeavesFlushed
BY Zenon DEF DumpInv, TypeOK, InputsOK, CtlOK, DataOK

(* Lengths of two lists and of their concatenation. *)
LEMMA SeqLens ==
  ASSUME NEW S, NEW x \in Seq(S), NEW y \in Seq(S)
  PROVE  Len(x) \in Nat /\ Len(x) + Len(y) \in Nat /\ Len(x) <= Len(x) + Len(y)
BY LenProperties

(* The lengths of the metadata model's lists. *)
LEMMA LayoutLens ==
  ASSUME md \in Layouts
  PROVE  /\ md.defs \in Seq(Seq(ListItems)) /\ md.devs \in Seq(Seq(ListItems))
         /\ NDefs \in Nat /\ NSect \in Nat /\ NDefs <= NSect
<1>1. md.defs \in Seq(Seq(ListItems)) /\ md.devs \in Seq(Seq(ListItems))
  BY DumpAssumption
<1>2. Len(md.defs) \in Nat /\ Len(md.devs) \in Nat
  BY <1>1, LenProperties
<1>3. NDefs \in Nat /\ NSect \in Nat /\ NDefs <= NSect
  BY <1>1, SeqLens, Zenon DEF NDefs, NSect
<1> QED
  BY <1>1, <1>3, Zenon

(* Init establishes the invariant. *)
LEMMA InitInv == Init => DumpInv
<1> SUFFICES ASSUME Init PROVE InputsOK /\ CtlOK /\ DataOK /\ LeavesFlushed
  BY InvParts
<1>1. InputsOK
  BY DEF Init, InputsOK
<1>2. NSect \in Nat
  BY <1>1, LayoutLens DEF InputsOK
<1>3. CtlOK
  BY <1>2 DEF Init, CtlOK, PCs
<1>4. DataOK
  BY DEF Init, DataOK
<1>5. LeavesFlushed
  BY DEF Init, LeavesFlushed
<1> QED
  BY <1>1, <1>3, <1>4, <1>5


(* Every step preserves the invariant. *)
LEMMA NextInv == DumpInv /\ [Next]_vars => DumpInv'
<1> SUFFICES ASSUME InputsOK, CtlOK, DataOK, LeavesFlushed, [Next]_vars
             PROVE  InputsOK' /\ CtlOK' /\ DataOK' /\ LeavesFlushed'
  <2>1. DumpInv' <=> (InputsOK /\ CtlOK /\ DataOK /\ LeavesFlushed)'
    BY Zenon DEF DumpInv, TypeOK, InputsOK, CtlOK, DataOK
  <2> QED
    BY <2>1, InvParts
<1>0. /\ md \in Layouts /\ leafData \in [Locs -> LeafChoices]
      /\ NDefs \in Nat /\ NSect \in Nat /\ NDefs <= NSect
  BY LayoutLens DEF InputsOK
<1>1. pc \in {"entries", "read", "section_e"} =>
        /\ sect \in 1..NSect /\ ei \in 1..Len(Cur) + 1
        /\ Cur \in Seq(ListItems) /\ Len(Cur) \in Nat
  BY <1>0, CurType, LenProperties DEF CtlOK
<1>2. md' = md => NSect' = NSect /\ NDefs' = NDefs
  BY Zenon DEF NSect, NDefs
<1>3. md' = md /\ sect' = sect => Cur' = Cur
  BY Zenon DEF Cur, SectEntries, NDefs
<1>4. pc \notin {"read", "error"} => queue = << >> /\ keys = << >> /\ run = NoRun
  BY DEF LeavesFlushed
<1>5. /\ leaves \in Seq(Locs) /\ queue \in Seq(Locs) /\ keys \in Seq(Entries)
      /\ run \in Runs \cup {NoRun} /\ out \in Seq(Events)
      /\ pc \in PCs /\ sect \in 1..NSect + 1
  BY DEF DataOK, CtlOK
<1> USE DEF InputsOK
<1>6. CASE SuperblockB
  <2>1. InputsOK' /\ NSect' = NSect
    BY <1>6, <1>2 DEF SuperblockB
  <2>2. CtlOK'
    BY <1>6, <1>5, <2>1 DEF SuperblockB, CtlOK, PCs
  <2>3. DataOK'
    BY <1>6, <1>5, AppendProperties DEF SuperblockB, Emit, DataOK, Events
  <2>4. LeavesFlushed'
    BY <1>6, <1>4 DEF SuperblockB, LeavesFlushed
  <2> QED
    BY <2>1, <2>2, <2>3, <2>4
<1>7. CASE DefSharedB
  <2>1. InputsOK' /\ NSect' = NSect /\ Cur' = Cur
    BY <1>7, <1>2, <1>3 DEF DefSharedB
  <2>2. sect \in 1..NSect
    BY <1>7, <1>0, <1>5 DEF DefSharedB
  <2>3. Len(Cur) \in Nat
    BY <2>2, <1>0, CurType, LenProperties
  <2>4. CtlOK'
    BY <1>7, <2>1, <2>2, <2>3 DEF DefSharedB, CtlOK, PCs
  <2>5. DataOK'
    BY <1>7, <1>5, AppendProperties DEF DefSharedB, Emit, DataOK, Events
  <2>6. LeavesFlushed'
    BY <1>7, <1>4 DEF DefSharedB, LeavesFlushed
  <2> QED
    BY <2>1, <2>4, <2>5, <2>6
<1>8. CASE DeviceB
  <2>1. InputsOK' /\ NSect' = NSect /\ Cur' = Cur
    BY <1>8, <1>2, <1>3 DEF DeviceB
  <2>2. sect \in 1..NSect /\ sect - NDefs - 1 \in Nat
    BY <1>8, <1>0, <1>5 DEF DeviceB
  <2>3. Len(Cur) \in Nat
    BY <2>2, <1>0, CurType, LenProperties
  <2>4. CtlOK'
    BY <1>8, <2>1, <2>2, <2>3 DEF DeviceB, CtlOK, PCs
  <2>5. DataOK'
    BY <1>8, <1>5, <2>2, AppendProperties DEF DeviceB, Emit, DataOK, Events
  <2>6. LeavesFlushed'
    BY <1>8, <1>4 DEF DeviceB, LeavesFlushed
  <2> QED
    BY <2>1, <2>4, <2>5, <2>6
<1>9. CASE PushLeaf
  <2>1. InputsOK' /\ NSect' = NSect /\ Cur' = Cur
    BY <1>9, <1>2, <1>3 DEF PushLeaf
  <2>2. Cur \in Seq(ListItems) /\ ei \in 1..Len(Cur) /\ sect \in 1..NSect
    BY <1>9, <1>1 DEF PushLeaf
  <2>3. Cur[ei].loc \in Locs
    BY <2>2, <1>9, ElementOfSeq, ItemFacts DEF PushLeaf
  <2>4. CtlOK'
    BY <1>9, <1>5, <2>1, <2>2 DEF PushLeaf, CtlOK
  <2>5. DataOK'
    BY <1>9, <1>5, <2>3, AppendProperties DEF PushLeaf, DataOK
  <2>6. LeavesFlushed'
    BY <1>9 DEF PushLeaf, LeavesFlushed
  <2> QED
    BY <2>1, <2>4, <2>5, <2>6
<1>10. CASE RefShared
  <2>1. InputsOK' /\ NSect' = NSect /\ Cur' = Cur
    BY <1>10, <1>2, <1>3 DEF RefShared
  <2>2. Cur \in Seq(ListItems) /\ ei \in 1..Len(Cur) /\ sect \in 1..NSect
    BY <1>10, <1>1 DEF RefShared
  <2>3. Cur[ei].id \in Nat
    BY <2>2, <1>10, ElementOfSeq, ItemFacts DEF RefShared
  <2>4. CtlOK'
    BY <1>10, <1>5, <2>1, <2>2 DEF RefShared, CtlOK
  <2>5. DataOK'
    BY <1>10, <1>5, <2>3, AppendProperties DEF RefShared, Emit, DataOK, Events
  <2>6. LeavesFlushed'
    BY <1>10, <1>4 DEF RefShared, LeavesFlushed
  <2> QED
    BY <2>1, <2>4, <2>5, <2>6
<1>11. CASE EmitLeaves
  <2>1. InputsOK' /\ NSect' = NSect /\ Cur' = Cur
    BY <1>11, <1>2, <1>3 DEF EmitLeaves
  <2>2. CtlOK'
    BY <1>11, <1>1, <1>5, <2>1 DEF EmitLeaves, CtlOK, PCs
  <2>3. DataOK'
    BY <1>11, <1>5 DEF EmitLeaves, DataOK
  <2>4. LeavesFlushed'
    BY <1>11 DEF EmitLeaves, LeavesFlushed
  <2> QED
    BY <2>1, <2>2, <2>3, <2>4
<1>12. CASE ReadLeaf
  <2>1. InputsOK' /\ NSect' = NSect /\ Cur' = Cur
    BY <1>12, <1>2, <1>3 DEF ReadLeaf
  <2>2. Head(queue) \in Locs /\ Tail(queue) \in Seq(Locs)
    BY <1>12, <1>5, HeadTailProperties DEF ReadLeaf
  <2>3. leafData[Head(queue)] \in Seq(Entries)
    BY <1>12, <1>0, <2>2, DumpAssumption DEF ReadLeaf
  <2>4. CtlOK'
    BY <1>12, <1>1, <1>5, <2>1 DEF ReadLeaf, CtlOK
  <2>5. DataOK'
    BY <1>12, <1>5, <2>2, <2>3 DEF ReadLeaf, DataOK
  <2>6. LeavesFlushed'
    BY <1>12 DEF ReadLeaf, LeavesFlushed
  <2> QED
    BY <2>1, <2>4, <2>5, <2>6
<1>13. CASE LeafRejected
  <2>1. InputsOK' /\ NSect' = NSect
    BY <1>13, <1>2 DEF LeafRejected
  <2>2. CtlOK'
    BY <1>13, <1>5, <2>1 DEF LeafRejected, CtlOK, PCs
  <2>3. DataOK'
    BY <1>13, <1>5 DEF LeafRejected, DataOK
  <2>4. LeavesFlushed'
    BY <1>13 DEF LeafRejected, LeavesFlushed
  <2> QED
    BY <2>1, <2>2, <2>3, <2>4
<1>14. CASE ReadFails
  <2>1. InputsOK' /\ NSect' = NSect
    BY <1>14, <1>2 DEF ReadFails
  <2>2. CtlOK'
    BY <1>14, <1>5, <2>1 DEF ReadFails, CtlOK, PCs
  <2>3. DataOK'
    BY <1>14, <1>5 DEF ReadFails, DataOK
  <2>4. LeavesFlushed'
    BY <1>14 DEF ReadFails, LeavesFlushed
  <2> QED
    BY <2>1, <2>2, <2>3, <2>4
<1>15. CASE VisitKey
  <2>1. InputsOK' /\ NSect' = NSect /\ Cur' = Cur
    BY <1>15, <1>2, <1>3 DEF VisitKey
  <2>2. Head(keys) \in Entries /\ Tail(keys) \in Seq(Entries)
    BY <1>15, <1>5, HeadTailProperties DEF VisitKey
  <2>3. RB!NextRun(run, Head(keys)) \in Runs
        /\ MapEvents(RB!NextReturns(run, Head(keys))) \in Seq(Events)
    BY <1>5, <2>2, NextRunType
  <2>4. out \o MapEvents(RB!NextReturns(run, Head(keys))) \in Seq(Events)
    BY <1>5, <2>3, ConcatProperties
  <2>5. CtlOK'
    BY <1>15, <1>1, <1>5, <2>1 DEF VisitKey, CtlOK
  <2>6. DataOK'
    BY <1>15, <1>5, <2>2, <2>3, <2>4 DEF VisitKey, DataOK
  <2>7. LeavesFlushed'
    BY <1>15 DEF VisitKey, LeavesFlushed
  <2> QED
    BY <2>1, <2>5, <2>6, <2>7
<1>16. CASE EndWalk
  <2>1. InputsOK' /\ NSect' = NSect /\ Cur' = Cur
    BY <1>16, <1>2, <1>3 DEF EndWalk
  <2>2. out \o MapEvents(RB!CompleteReturns(run)) \in Seq(Events)
    BY <1>5, CompleteType, ConcatProperties
  <2>3. CtlOK'
    BY <1>16, <1>1, <1>5, <2>1 DEF EndWalk, CtlOK, PCs
  <2>4. DataOK'
    BY <1>16, <1>5, <2>2 DEF EndWalk, DataOK
  <2>5. LeavesFlushed'
    BY <1>16 DEF EndWalk, LeavesFlushed
  <2> QED
    BY <2>1, <2>3, <2>4, <2>5
<1>17. CASE EntriesEnd
  <2>1. InputsOK' /\ NSect' = NSect /\ Cur' = Cur
    BY <1>17, <1>2, <1>3 DEF EntriesEnd
  <2>2. CtlOK'
    BY <1>17, <1>1, <1>5, <2>1 DEF EntriesEnd, CtlOK, PCs
  <2>3. DataOK'
    BY <1>17, <1>5 DEF EntriesEnd, DataOK
  <2>4. LeavesFlushed'
    BY <1>17, <1>4 DEF EntriesEnd, LeavesFlushed
  <2> QED
    BY <2>1, <2>2, <2>3, <2>4
<1>18. CASE DefSharedE
  <2>1. InputsOK' /\ NSect' = NSect
    BY <1>18, <1>2 DEF DefSharedE
  <2>2. sect \in 1..NSect
    BY <1>18, <1>1 DEF DefSharedE
  <2>3. CtlOK'
    BY <1>18, <1>0, <2>1, <2>2 DEF DefSharedE, CtlOK, PCs
  <2>4. DataOK'
    BY <1>18, <1>5, AppendProperties DEF DefSharedE, Emit, DataOK, Events
  <2>5. LeavesFlushed'
    BY <1>18, <1>4 DEF DefSharedE, LeavesFlushed
  <2> QED
    BY <2>1, <2>3, <2>4, <2>5
<1>19. CASE DeviceE
  <2>1. InputsOK' /\ NSect' = NSect
    BY <1>19, <1>2 DEF DeviceE
  <2>2. sect \in 1..NSect
    BY <1>19, <1>1 DEF DeviceE
  <2>3. CtlOK'
    BY <1>19, <1>0, <2>1, <2>2 DEF DeviceE, CtlOK, PCs
  <2>4. DataOK'
    BY <1>19, <1>5, AppendProperties DEF DeviceE, Emit, DataOK, Events
  <2>5. LeavesFlushed'
    BY <1>19, <1>4 DEF DeviceE, LeavesFlushed
  <2> QED
    BY <2>1, <2>3, <2>4, <2>5
<1>20. CASE SuperblockE
  <2>1. InputsOK' /\ NSect' = NSect
    BY <1>20, <1>2 DEF SuperblockE
  <2>2. CtlOK'
    BY <1>20, <1>5, <2>1 DEF SuperblockE, CtlOK, PCs
  <2>3. DataOK'
    BY <1>20, <1>5, AppendProperties DEF SuperblockE, Emit, DataOK, Events
  <2>4. LeavesFlushed'
    BY <1>20, <1>4 DEF SuperblockE, LeavesFlushed
  <2> QED
    BY <2>1, <2>2, <2>3, <2>4
<1>21. CASE Eof
  <2>1. InputsOK' /\ NSect' = NSect
    BY <1>21, <1>2 DEF Eof
  <2>2. CtlOK'
    BY <1>21, <1>5, <2>1 DEF Eof, CtlOK, PCs
  <2>3. DataOK'
    BY <1>21, <1>5, AppendProperties DEF Eof, Emit, DataOK, Events
  <2>4. LeavesFlushed'
    BY <1>21, <1>4 DEF Eof, LeavesFlushed
  <2> QED
    BY <2>1, <2>2, <2>3, <2>4
<1>22. CASE UNCHANGED vars
  <2>1. InputsOK' /\ NSect' = NSect /\ Cur' = Cur
    BY <1>22, <1>2, <1>3 DEF vars
  <2>2. CtlOK'
    BY <1>22, <2>1 DEF vars, CtlOK
  <2>3. DataOK'
    BY <1>22 DEF vars, DataOK
  <2>4. LeavesFlushed'
    BY <1>22 DEF vars, LeavesFlushed
  <2> QED
    BY <2>1, <2>2, <2>3, <2>4
<1> QED
  BY <1>6, <1>7, <1>8, <1>9, <1>10, <1>11, <1>12, <1>13, <1>14, <1>15,
     <1>16, <1>17, <1>18, <1>19, <1>20, <1>21, <1>22 DEF Next

(* The inductive invariant of dump_metadata holds in every state: types, *)
(* the cursor of emit_entries within its list, and emit_leaves having     *)
(* drained its queue and flushed its run outside a read_for walk.         *)
THEOREM InvariantHolds == Spec => []DumpInv
  BY InitInv, NextInv, PTL DEF Spec

(* Type correctness of the emitter: for every metadata model and leaf    *)
(* contents, the pending leaves, the read queue, the keys fed to the     *)
(* builder, the open run and every visitor call are well typed, and      *)
(* emit_entries' cursor stays within the list it walks.                  *)
THEOREM TypeCorrect == Spec => []TypeOK
  BY InvariantHolds, PTL DEF DumpInv

=============================================================================
