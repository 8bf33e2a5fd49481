-------------------------------- MODULE Dump --------------------------------
(***************************************************************************)
(* The emit half of thin_dump: dump_metadata, emit_entries, emit_leaves,   *)
(* read_for, emit_leaf and the MappingVisitor of src/src/thin/dump.rs.     *)
(*                                                                         *)
(* The metadata model (md.defs, md.devs) built by build_metadata and       *)
(* optimise_metadata is an input: each shared definition and each device   *)
(* is a list of entries Leaf(loc) | Ref(def_id).  dump_metadata walks the  *)
(* definitions, then the devices, calling the MetadataVisitor; within one  *)
(* list emit_entries gathers consecutive leaves and hands them to          *)
(* emit_leaves, which reads them in order and feeds their entries to a     *)
(* fresh RunBuilder, before it emits a Ref or reaches the end of the list. *)
(*                                                                         *)
(* out records the visitor calls.  A dump either reaches "done" or stops   *)
(* at "error" (an I/O failure, or a block that is not a valid leaf node).  *)
(***************************************************************************)
EXTENDS Naturals, Sequences, SequencesExt

CONSTANTS
  NoRun, MaxKey, MaxData, MaxTime,   \* as in RunBuilder
  Locs,         \* metadata block locations of mapping leaves
  BadNode,      \* contents of a block that fails the checksum or is not a leaf
  LeafChoices,  \* possible contents of a leaf block: entry sequences or BadNode
  Layouts,      \* possible metadata models [defs |-> ..., devs |-> ...]
  IoErrors      \* whether block reads may fail

(* Entry::Leaf(loc) and Entry::Ref(def_id) of the metadata model. *)
Leaf(l) == [kind |-> "leaf", loc |-> l]
Ref(i) == [kind |-> "ref", id |-> i]

VARIABLES
  leafData,  \* on-disk contents of each leaf block
  md,        \* the Metadata passed to dump_metadata
  pc,        \* where dump_metadata is
  sect,      \* 1-based index over md.defs followed by md.devs
  ei,        \* index of the next entry of the current list in emit_entries
  leaves,    \* emit_entries' `leaves` vector
  queue,     \* blocks emit_leaves still has to read and visit
  keys,      \* entries of the leaf being visited, not yet fed to the builder
  run,       \* RunBuilder.run of the current MappingVisitor
  out        \* the MetadataVisitor calls made so far

vars == <<leafData, md, pc, sect, ei, leaves, queue, keys, run, out>>

(* Only the operators of RunBuilder (next, complete) are used here. *)
RB == INSTANCE RunBuilder WITH MaxFed <- 0, fed <- << >>, emitted <- << >>, ended <- TRUE

Entries == RB!Entries
Runs == RB!Runs

(* An item of an entry list of the metadata model. *)
ListItems == [kind : {"leaf"}, loc : Locs] \cup [kind : {"ref"}, id : Nat]

(* The run builder's bounds (RunBuilderAssumption); a leaf block holds    *)
(* entries or is bad; the metadata model is two lists (Vec<Vec<Entry>>)    *)
(* of such items.                                                          *)
ASSUME DumpAssumption ==
  /\ MaxKey \in Nat /\ MaxData \in Nat /\ MaxTime \in Nat
  /\ NoRun \notin Runs
  /\ IoErrors \in BOOLEAN
  /\ BadNode \in LeafChoices
  /\ \A c \in LeafChoices : c = BadNode \/ c \in Seq(Entries)
  /\ \A m \in Layouts : m \in [defs : Seq(Seq(ListItems)), devs : Seq(Seq(ListItems))]

NDefs == Len(md.defs)
NSect == Len(md.defs) + Len(md.devs)

(* The entry list emit_entries is given for section s. *)
SectEntries(s) == IF s <= NDefs THEN md.defs[s] ELSE md.devs[s - NDefs]

Cur == SectEntries(sect)

(* The entries a leaf contributes; a bad leaf stands for an entry no run   *)
(* can expand to.                                                          *)
LeafEntries(l) == IF leafData[l] = BadNode THEN <<BadNode>> ELSE leafData[l]

(* The mappings an entry list stands for, refs expanded (defs hold leaves).*)
ListEntries(es) ==
  FlattenSeq([i \in 1..Len(es) |->
                IF es[i].kind = "leaf" THEN LeafEntries(es[i].loc)
                ELSE FlattenSeq([j \in 1..Len(md.defs[es[i].id + 1]) |->
                                   LeafEntries(md.defs[es[i].id + 1][j].loc)])])

-----------------------------------------------------------------------------
(* What build_metadata and optimise_metadata hand to dump_metadata (spec   *)
(* 4.3 and 4.5; that code is not part of this model): definitions hold     *)
(* leaves only, refs name existing definitions, every definition is        *)
(* referenced at least twice, every leaf is owned by one list, and the     *)
(* keys of a list, refs expanded, are strictly increasing.                 *)
AllLists(m) == [i \in 1..Len(m.defs) + Len(m.devs) |->
                  IF i <= Len(m.defs) THEN m.defs[i] ELSE m.devs[i - Len(m.defs)]]

Occurrences(m, e) ==
  {p \in UNION {{i} \X (1..Len(AllLists(m)[i])) : i \in 1..Len(AllLists(m))} :
      AllLists(m)[p[1]][p[2]] = e}

KeysAscending(es) ==
  LET good == SelectSeq(es, LAMBDA x : x # BadNode)
  IN  \A i \in 1..Len(good) - 1 : good[i].thin < good[i + 1].thin

WellFormed ==
  /\ \A d \in 1..Len(md.defs) :
       md.defs[d] # << >> /\ \A j \in 1..Len(md.defs[d]) : md.defs[d][j].kind = "leaf"
  /\ \A s \in 1..NSect : \A j \in 1..Len(SectEntries(s)) :
       SectEntries(s)[j].kind = "ref" => SectEntries(s)[j].id \in 0..NDefs - 1
  /\ \A d \in 1..NDefs : Cardinality(Occurrences(md, Ref(d - 1))) >= 2
  /\ \A l \in Locs : Cardinality(Occurrences(md, Leaf(l))) <= 1
  /\ \A s \in 1..NSect : KeysAscending(ListEntries(SectEntries(s)))

-----------------------------------------------------------------------------
Init ==
  /\ leafData \in [Locs -> LeafChoices]
  /\ md \in Layouts
  /\ WellFormed
  /\ pc = "superblock_b"
  /\ sect = 1
  /\ ei = 1
  /\ leaves = << >>
  /\ queue = << >>
  /\ keys = << >>
  /\ run = NoRun
  /\ out = << >>

MapEvents(rs) == [i \in 1..Len(rs) |-> [ev |-> "map", run |-> rs[i]]]

Emit(e) == out' = Append(out, e)

(* out.superblock_b(&out_sb) *)
SuperblockB ==
  /\ pc = "superblock_b"
  /\ Emit([ev |-> "superblock_b"])
  /\ pc' = "section_b"
  /\ UNCHANGED <<leafData, md, sect, ei, leaves, queue, keys, run>>

(* for d in &md.defs: out.def_shared_b(def_id), then emit_entries *)
DefSharedB ==
  /\ pc = "section_b"
  /\ sect <= NDefs
  /\ Emit([ev |-> "def_shared_b", id |-> sect - 1])
  /\ pc' = "entries"
  /\ ei' = 1
  /\ leaves' = << >>
  /\ UNCHANGED <<leafData, md, sect, queue, keys, run>>

(* Fault-injected variant for mutation checks: emit_entries' cursor not   *)
(* reset for a new device.                                                 *)
DeviceBNoReset ==
  /\ pc = "section_b"
  /\ NDefs < sect /\ sect <= NSect
  /\ Emit([ev |-> "device_b", id |-> sect - NDefs - 1])
  /\ pc' = "entries"
  /\ leaves' = << >>
  /\ UNCHANGED <<leafData, md, sect, ei, queue, keys, run>>

(* for dev in &md.devs: out.device_b(&device), then emit_entries *)
DeviceB ==
  /\ pc = "section_b"
  /\ NDefs < sect /\ sect <= NSect
  /\ Emit([ev |-> "device_b", id |-> sect - NDefs - 1])
  /\ pc' = "entries"
  /\ ei' = 1
  /\ leaves' = << >>
  /\ UNCHANGED <<leafData, md, sect, queue, keys, run>>

(* emit_entries, Entry::Leaf(b): leaves.push(b) *)
PushLeaf ==
  /\ pc = "entries"
  /\ ei <= Len(Cur)
  /\ Cur[ei].kind = "leaf"
  /\ leaves' = Append(leaves, Cur[ei].loc)
  /\ ei' = ei + 1
  /\ UNCHANGED <<leafData, md, pc, sect, queue, keys, run, out>>

(* Fault-injected variant for mutation checks: a ref emitted without      *)
(* first flushing the pending leaves.                                      *)
RefSharedEager ==
  /\ pc = "entries"
  /\ ei <= Len(Cur)
  /\ Cur[ei].kind = "ref"
  /\ Emit([ev |-> "ref_shared", id |-> Cur[ei].id])
  /\ ei' = ei + 1
  /\ UNCHANGED <<leafData, md, pc, sect, leaves, queue, keys, run>>

(* emit_entries, Entry::Ref(id) once no leaves are pending:                *)
(* out.ref_shared(id)                                                      *)
RefShared ==
  /\ pc = "entries"
  /\ ei <= Len(Cur)
  /\ Cur[ei].kind = "ref"
  /\ leaves = << >>
  /\ Emit([ev |-> "ref_shared", id |-> Cur[ei].id])
  /\ ei' = ei + 1
  /\ UNCHANGED <<leafData, md, pc, sect, leaves, queue, keys, run>>

(* emit_entries calls emit_leaves on the pending leaves before a Ref and   *)
(* at the end of the list; emit_leaves makes a fresh MappingVisitor (and   *)
(* RunBuilder) and read_for walks the blocks in order.  emit_entries       *)
(* clears `leaves` when emit_leaves returns (and returns itself if not).   *)
EmitLeaves ==
  /\ pc = "entries"
  /\ leaves # << >>
  /\ IF ei <= Len(Cur) THEN Cur[ei].kind = "ref" ELSE TRUE
  /\ pc' = "read"
  /\ queue' = leaves
  /\ leaves' = << >>
  /\ run' = NoRun
  /\ UNCHANGED <<leafData, md, sect, ei, keys, out>>

(* read_for hands the next block to emit_leaf: its checksum says it is a   *)
(* B-tree node and it unpacks as a leaf; the visitor will walk its keys.   *)
ReadLeaf ==
  /\ pc = "read"
  /\ keys = << >>
  /\ queue # << >>
  /\ leafData[Head(queue)] # BadNode
  /\ keys' = leafData[Head(queue)]
  /\ queue' = Tail(queue)
  /\ UNCHANGED <<leafData, md, pc, sect, ei, leaves, run, out>>

(* emit_leaf rejects the block: checksum failed, or block is not a leaf.   *)
LeafRejected ==
  /\ pc = "read"
  /\ keys = << >>
  /\ queue # << >>
  /\ leafData[Head(queue)] = BadNode
  /\ pc' = "error"
  /\ UNCHANGED <<leafData, md, sect, ei, leaves, queue, keys, run, out>>

(* read_many, or the read of the individual block, fails. *)
ReadFails ==
  /\ IoErrors
  /\ pc = "read"
  /\ keys = << >>
  /\ queue # << >>
  /\ pc' = "error"
  /\ UNCHANGED <<leafData, md, sect, ei, leaves, queue, keys, run, out>>

(* MappingVisitor::visit, one (key, value) of the leaf: builder.next, and  *)
(* md_out.map(&run) for the run it returns.                                *)
VisitKey ==
  /\ pc = "read"
  /\ keys # << >>
  /\ run' = RB!NextRun(run, Head(keys))
  /\ out' = out \o MapEvents(RB!NextReturns(run, Head(keys)))
  /\ keys' = Tail(keys)
  /\ UNCHANGED <<leafData, md, pc, sect, ei, leaves, queue>>

(* MappingVisitor::end_walk: builder.complete() and md_out.map(&run). *)
EndWalk ==
  /\ pc = "read"
  /\ keys = << >>
  /\ queue = << >>
  /\ out' = out \o MapEvents(RB!CompleteReturns(run))
  /\ run' = NoRun
  /\ pc' = "entries"
  /\ UNCHANGED <<leafData, md, sect, ei, leaves, queue, keys>>

(* emit_entries returns: the list is done and no leaves are pending. *)
EntriesEnd ==
  /\ pc = "entries"
  /\ ei > Len(Cur)
  /\ leaves = << >>
  /\ pc' = "section_e"
  /\ UNCHANGED <<leafData, md, sect, ei, leaves, queue, keys, run, out>>

(* out.def_shared_e() *)
DefSharedE ==
  /\ pc = "section_e"
  /\ sect <= NDefs
  /\ Emit([ev |-> "def_shared_e"])
  /\ sect' = sect + 1
  /\ pc' = "section_b"
  /\ UNCHANGED <<leafData, md, ei, leaves, queue, keys, run>>

(* out.device_e() *)
DeviceE ==
  /\ pc = "section_e"
  /\ sect > NDefs
  /\ Emit([ev |-> "device_e"])
  /\ sect' = sect + 1
  /\ pc' = "section_b"
  /\ UNCHANGED <<leafData, md, ei, leaves, queue, keys, run>>

(* out.superblock_e() after the last device *)
SuperblockE ==
  /\ pc = "section_b"
  /\ sect > NSect
  /\ Emit([ev |-> "superblock_e"])
  /\ pc' = "eof"
  /\ UNCHANGED <<leafData, md, sect, ei, leaves, queue, keys, run>>

(* out.eof(); dump_metadata returns Ok *)
Eof ==
  /\ pc = "eof"
  /\ Emit([ev |-> "eof"])
  /\ pc' = "done"
  /\ UNCHANGED <<leafData, md, sect, ei, leaves, queue, keys, run>>

Next ==
  \/ SuperblockB \/ DefSharedB \/ DeviceB
  \/ PushLeaf \/ RefShared \/ EmitLeaves
  \/ ReadLeaf \/ LeafRejected \/ ReadFails \/ VisitKey \/ EndWalk
  \/ EntriesEnd \/ DefSharedE \/ DeviceE \/ SuperblockE \/ Eof

Spec == Init /\ [][Next]_vars

-----------------------------------------------------------------------------
PCs == {"superblock_b", "section_b", "entries", "read", "section_e",
        "eof", "done", "error"}

Events ==
  [ev : {"superblock_b", "def_shared_e", "device_e", "superblock_e", "eof"}]
  \cup [ev : {"def_shared_b", "device_b", "ref_shared"}, id : Nat]
  \cup [ev : {"map"}, run : Runs]

(* Every pending leaf, queued block and fed entry is well typed, and the   *)
(* entry cursor of emit_entries never runs past the end of its list.       *)
TypeOK ==
  /\ pc \in PCs
  /\ sect \in 1..NSect + 1
  /\ pc \in {"entries", "read", "section_e"} => ei \in 1..Len(Cur) + 1
  /\ leaves \in Seq(Locs)
  /\ queue \in Seq(Locs)
  /\ keys \in Seq(Entries)
  /\ run \in Runs \cup {NoRun}
  /\ out \in Seq(Events)

(* emit_leaves runs to completion inside one call of emit_entries: while *)
(* the dump goes on outside a read_for walk, no block is left queued, no  *)
(* key of a visited leaf is left over and end_walk has emitted the        *)
(* MappingVisitor's open run; during a walk every pending leaf has been   *)
(* handed over.  A conjunct of DumpInv, the inductive invariant of the   *)
(* proofs.                                                                 *)
LeavesFlushed ==
  /\ pc \notin {"read", "error"} => queue = << >> /\ keys = << >> /\ run = NoRun
  /\ pc = "read" => leaves = << >>

(* Inductive invariant for the proofs: TypeOK and LeavesFlushed, with the *)
(* inputs' types and the section being emitted in range.                  *)
DumpInv ==
  /\ TypeOK
  /\ LeavesFlushed
  /\ md \in Layouts
  /\ leafData \in [Locs -> LeafChoices]
  /\ pc \in {"entries", "read", "section_e"} => sect \in 1..NSect

(* The entries a run stands for. *)
ExpandRun(r) ==
  [i \in 1..r.len |-> [thin |-> r.thin_begin + i - 1,
                       data |-> r.data_begin + i - 1,
                       time |-> r.time]]

IsBegin(e) == e.ev \in {"def_shared_b", "device_b"}

(* The section the i-th visitor call belongs to. *)
SectionOf(i) == Cardinality({j \in 1..i : IsBegin(out[j])})

(* Positions of the map and ref_shared calls of section s, in order. *)
BodyOf(s) ==
  SelectSeq([i \in 1..Len(out) |-> i],
            LAMBDA i : SectionOf(i) = s /\ out[i].ev \in {"map", "ref_shared"})

(* The mappings a reader of the output sees in section s: runs expanded,  *)
(* a ref replaced by the mappings of the definition it names.              *)
DefShown(s) ==
  FlattenSeq([j \in 1..Len(BodyOf(s)) |->
                IF out[BodyOf(s)[j]].ev = "map" THEN ExpandRun(out[BodyOf(s)[j]].run)
                ELSE << >>])
Shown(s) ==
  FlattenSeq([j \in 1..Len(BodyOf(s)) |->
                IF out[BodyOf(s)[j]].ev = "map" THEN ExpandRun(out[BodyOf(s)[j]].run)
                ELSE DefShown(out[BodyOf(s)[j]].id + 1)])

(* A dump that returns Ok is lossless (spec 4.6, 8.2, 8.4): in every       *)
(* shared definition and every device, the runs and refs emitted expand    *)
(* to exactly the mappings of its leaves, in order.  This rests on         *)
(* emit_entries flushing pending leaves before a ref and at the end, on a  *)
(* fresh RunBuilder per flush, on end_walk emitting the open run, and on   *)
(* every failing block stopping the dump.                                  *)
DumpLossless ==
  pc = "done" =>
    /\ SectionOf(Len(out)) = NSect
    /\ \A s \in 1..NSect : Shown(s) = ListEntries(SectEntries(s))

(* Spec section 7: partial output is never emitted when a fatal error      *)
(* occurs; the emitter must not flush a half-open device record.  Here:    *)
(* when the dump fails, every device_b the visitor saw was closed by a     *)
(* device_e.                                                               *)
NoHalfOpenDevice ==
  pc = "error" =>
    Len(SelectSeq(out, LAMBDA e : e.ev = "device_b"))
      = Len(SelectSeq(out, LAMBDA e : e.ev = "device_e"))
=============================================================================
