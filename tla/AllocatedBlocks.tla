--------------------------- MODULE AllocatedBlocks ---------------------------
(***************************************************************************)
(* allocated_blocks of src/src/pdata/space_map/allocated_blocks.rs: read   *)
(* the metadata space map's index, sort its bitmap locations for           *)
(* sequential I/O, and for each bitmap set bit (key * ENTRIES_PER_BITMAP + *)
(* i) as u32 of the result for every non-zero entry i (spec 4.4).          *)
(*                                                                         *)
(* The on-disk index and bitmaps are inputs.  load_metadata_index holds at *)
(* most MaxBitmaps entries (MAX_METADATA_BITMAPS); block numbers are       *)
(* truncated to Width bits, as the cast to u32 does.                       *)
(***************************************************************************)
EXTENDS Naturals, Sequences, FiniteSets, SequencesExt

CONSTANTS
  EntriesPerBitmap,  \* ENTRIES_PER_BITMAP
  Width,             \* bit width of the result's elements (u32)
  MaxBitmaps,        \* entries of a metadata space-map index
  Locs,              \* metadata block locations that can hold a bitmap
  Bitmaps,           \* possible contents of a bitmap block: [0..E-1 -> 0..3]
  IoErrors           \* whether engine.read may fail

(* Block numbers are u64; a bitmap holds ENTRIES_PER_BITMAP entries; and  *)
(* the largest index, MAX_METADATA_BITMAPS = 255 bitmaps of 16320 entries, *)
(* numbers fewer blocks than a u32 holds.                                  *)
ASSUME AllocatedBlocksAssumption ==
  /\ EntriesPerBitmap \in Nat \ {0}
  /\ Width \in Nat
  /\ MaxBitmaps \in Nat
  /\ MaxBitmaps * EntriesPerBitmap <= 2 ^ Width
  /\ Locs \subseteq Nat
  /\ Bitmaps \subseteq [0..EntriesPerBitmap - 1 -> Nat]
  /\ IoErrors \in BOOLEAN

(* u64 -> u32 *)
AsU32(n) == n % (2 ^ Width)

VARIABLES
  index,   \* the index's bitmap locations: index[key + 1] = blocknr
  disk,    \* contents of the bitmap blocks
  pc,
  infos,   \* IndexInfo { key, loc }, sorted by loc
  pos,     \* next info to read
  bits     \* the RoaringBitmap

vars == <<index, disk, pc, infos, pos, bits>>

(* Index entries: distinct locations, at most MaxBitmaps of them. *)
Indexes == UNION {{s \in [1..n -> Locs] : IsInjective(s)} : n \in 0..MaxBitmaps}

Init ==
  /\ index \in Indexes
  /\ disk \in [Locs -> Bitmaps]
  /\ pc = "index"
  /\ infos = << >>
  /\ pos = 1
  /\ bits = {}

(* IndexInfo for each index entry, enumerate()'s position as key. *)
Infos == [i \in 1..Len(index) |-> [key |-> i - 1, loc |-> index[i]]]

(* infos.sort_by(loc): the permutations of the infos' positions that put *)
(* their locations in ascending order (exactly one, as they are distinct). *)
SortPerms(s) ==
  {p \in Bijection(1..Len(s), 1..Len(s)) :
     \A i, j \in 1..Len(s) : i < j => s[p[i]].loc < s[p[j]].loc}

(* engine.read(sm_root) and load_metadata_index, then the infos sorted    *)
(* by loc.                                                                 *)
ReadIndex ==
  /\ pc = "index"
  /\ \E p \in SortPerms(Infos) : infos' = [i \in 1..Len(Infos) |-> Infos[p[i]]]
  /\ pc' = "bitmaps"
  /\ UNCHANGED <<index, disk, pos, bits>>

(* engine.read(info.loc)? or Bitmap::unpack fails: allocated_blocks       *)
(* returns Err (on the index, or on any bitmap).                           *)
ReadFails ==
  /\ IoErrors
  /\ \/ pc = "index"
     \/ pc = "bitmaps" /\ pos <= Len(infos)
  /\ pc' = "err"
  /\ UNCHANGED <<index, disk, infos, pos, bits>>

(* Fault-injected variant for mutation checks: the base taken from the   *)
(* position in the sorted order instead of the index key.                 *)
BitmapBaseSorted(p) == (p - 1) * EntriesPerBitmap

(* let base = info.key * ENTRIES_PER_BITMAP *)
BitmapBase(p) == infos[p].key * EntriesPerBitmap

(* One bitmap: read it and insert every non-zero entry's block. *)
ReadBitmap ==
  /\ pc = "bitmaps"
  /\ pos <= Len(infos)
  /\ LET bm == disk[infos[pos].loc] IN
       bits' = bits \cup {AsU32(BitmapBase(pos) + i) : i \in {j \in DOMAIN bm : bm[j] # 0}}
  /\ pos' = pos + 1
  /\ UNCHANGED <<index, disk, pc, infos>>

(* Ok(bits) *)
Done ==
  /\ pc = "bitmaps"
  /\ pos > Len(infos)
  /\ pc' = "done"
  /\ UNCHANGED <<index, disk, infos, pos, bits>>

Next == ReadIndex \/ ReadFails \/ ReadBitmap \/ Done

Spec == Init /\ [][Next]_vars

-----------------------------------------------------------------------------
(* Spec 4.4: the blocks the space map records as allocated (non-zero      *)
(* entry, overflow included), numbered by index key.                       *)
KeyBlocks(k) ==
  {k * EntriesPerBitmap + i : i \in {j \in DOMAIN disk[index[k + 1]] : disk[index[k + 1]][j] # 0}}
Allocated == UNION {KeyBlocks(k) : k \in 0..Len(index) - 1}

(* allocated_blocks returns exactly the allocated blocks, whatever order  *)
(* the bitmaps lie on disk in: sorting the infos by location keeps each   *)
(* bitmap's base, and no block number is cut by the cast to u32 because   *)
(* a metadata index holds too few bitmaps to reach 2^32.                   *)
AllocatedExact == pc = "done" => bits = Allocated

(* Inductive invariant of allocated_blocks: once sorted, infos lists every *)
(* index entry once, in some order, each with its own key, and bits holds  *)
(* the blocks of exactly the bitmaps read so far.  It makes AllocatedExact *)
(* inductive: the order of the reads never matters because each bitmap's   *)
(* base comes from its key.                                                *)
AllocInv ==
  /\ index \in Indexes
  /\ disk \in [Locs -> Bitmaps]
  /\ pc \in {"index", "bitmaps", "err", "done"}
  /\ pc = "index" => pos = 1 /\ bits = {}
  /\ pc \in {"bitmaps", "done"} =>
       /\ \E p \in Bijection(1..Len(index), 1..Len(index)) : infos = [i \in 1..Len(index) |-> Infos[p[i]]]
       /\ pos \in 1..Len(infos) + 1
       /\ bits = UNION {KeyBlocks(infos[q].key) : q \in 1..pos - 1}
  /\ pc = "done" => pos = Len(infos) + 1
=============================================================================
