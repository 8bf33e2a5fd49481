------------------------ MODULE AllocatedBlocksProofs ------------------------
(***************************************************************************)
(* Proofs about allocated_blocks (module AllocatedBlocks) for every entry  *)
(* count, width and index size allowed by AllocatedBlocksAssumption.       *)
(*                                                                         *)
(* ReadIndex picks one of SortPerms(Infos), the permutations that put      *)
(* the locations in ascending order, so the sorted infos are the index's   *)
(* infos in some order.  AllocInv then                                     *)
(* carries the union of the bitmaps read so far; at the end the            *)
(* permutation covers every key, and NoTruncation shows the u32 cast is    *)
(* the identity on every block number a metadata index can hold.           *)
(***************************************************************************)
EXTENDS AllocatedBlocks, TLAPS

(* The cast (base + i) as u32 never truncates: every block a metadata     *)
(* index can number is below 2^Width.                                      *)
LEMMA NoTruncation ==
  ASSUME NEW k \in 0..MaxBitmaps - 1, NEW i \in 0..EntriesPerBitmap - 1
  PROVE  AsU32(k * EntriesPerBitmap + i) = k * EntriesPerBitmap + i
<1> DEFINE E == EntriesPerBitmap
           M == MaxBitmaps
<1>1. E \in Nat \ {0} /\ M \in Nat /\ M * E <= 2 ^ Width /\ Width \in Nat
  BY AllocatedBlocksAssumption
<1>2. k * E <= (M - 1) * E
  BY <1>1
<1>3. k * E + i \in 0..(M * E - 1)
  BY <1>1, <1>2
<1>4. 2 ^ Width \in Nat \ {0}
  BY <1>1, <1>3
<1> QED
  BY <1>1, <1>3, <1>4 DEF AsU32


(* What the index and its infos are: distinct locations, at most          *)
(* MaxBitmaps of them, info i holding key i - 1 and location index[i].    *)
LEMMA IndexFacts ==
  ASSUME index \in Indexes
  PROVE  /\ Len(index) \in 0..MaxBitmaps
         /\ index \in [1..Len(index) -> Locs]
         /\ IsInjective(index)
         /\ Len(Infos) = Len(index)
         /\ \A i \in 1..Len(index) : Infos[i] = [key |-> i - 1, loc |-> index[i]]
<1>1. PICK n \in 0..MaxBitmaps : index \in [1..n -> Locs] /\ IsInjective(index)
  BY DEF Indexes
<1>2. n \in Nat /\ Len(index) = n
  BY <1>1, AllocatedBlocksAssumption
<1> QED
  BY <1>1, <1>2 DEF Infos

(* Init establishes the invariant. *)
LEMMA InitInv == Init => AllocInv
BY DEF Init, AllocInv

(* At the end, the bitmaps read are those of every key: the permutation   *)
(* reaches each position, so the union is the allocated set.              *)
LEMMA InvExact == AllocInv => AllocatedExact
<1> SUFFICES ASSUME AllocInv, pc = "done" PROVE bits = Allocated
  BY DEF AllocatedExact
<1> DEFINE n == Len(index)
<1>1. PICK p \in Bijection(1..n, 1..n) : infos = [i \in 1..n |-> Infos[p[i]]]
  BY DEF AllocInv
<1>2. n \in Nat /\ \A i \in 1..n : Infos[i] = [key |-> i - 1, loc |-> index[i]]
  BY IndexFacts DEF AllocInv
<1>3. Len(infos) = n /\ pos = n + 1
  BY <1>1, <1>2 DEF AllocInv
<1>4. bits = UNION {KeyBlocks(infos[q].key) : q \in 1..n}
  BY <1>3 DEF AllocInv
<1>5. \A q \in 1..n : p[q] \in 1..n /\ infos[q].key = p[q] - 1
  <2>1. \A q \in 1..n : p[q] \in 1..n
    BY <1>1 DEF Bijection, Injection
  <2>2. ASSUME NEW q \in 1..n PROVE infos[q].key = p[q] - 1
    <3>1. infos[q] = Infos[p[q]]
      BY <1>1
    <3>2. Infos[p[q]] = [key |-> p[q] - 1, loc |-> index[p[q]]]
      BY <2>1, <1>2
    <3> QED
      BY <3>1, <3>2
  <2> QED
    BY <2>1, <2>2
<1>6. {infos[q].key : q \in 1..n} = 0..n - 1
  <2>1. ASSUME NEW k \in 0..n - 1 PROVE \E q \in 1..n : infos[q].key = k
    <3>1. PICK q \in 1..n : p[q] = k + 1
      BY <1>1, <1>2 DEF Bijection, Surjection
    <3> QED
      BY <3>1, <1>5
  <2>2. ASSUME NEW q \in 1..n PROVE infos[q].key \in 0..n - 1
    BY <1>5, <1>2
  <2> QED
    BY <2>1, <2>2
<1> QED
  <2>1. UNION {KeyBlocks(infos[q].key) : q \in 1..n} = UNION {KeyBlocks(k) : k \in {infos[q].key : q \in 1..n}}
    OBVIOUS
  <2> QED
    BY <1>4, <1>6, <2>1 DEF Allocated


(* Every step preserves the invariant. *)
LEMMA NextInv == AllocInv /\ [Next]_vars => AllocInv'
<1> SUFFICES ASSUME AllocInv, [Next]_vars PROVE AllocInv'
  OBVIOUS
<1> DEFINE n == Len(index)
<1>0. /\ index \in Indexes /\ disk \in [Locs -> Bitmaps]
      /\ n \in 0..MaxBitmaps /\ index \in [1..n -> Locs] /\ Len(Infos) = n
      /\ \A i \in 1..n : Infos[i] = [key |-> i - 1, loc |-> index[i]]
  BY IndexFacts DEF AllocInv
<1>1. CASE ReadIndex
  <2>1. PICK p \in SortPerms(Infos) : infos' = [i \in 1..Len(Infos) |-> Infos[p[i]]]
    BY <1>1 DEF ReadIndex
  <2>2. p \in Bijection(1..n, 1..n)
    BY <1>0, <2>1 DEF SortPerms
  <2>3. /\ pc = "index" /\ pos = 1 /\ bits = {}
        /\ pc' = "bitmaps" /\ pos' = 1 /\ bits' = {} /\ index' = index /\ disk' = disk
    BY <1>1 DEF AllocInv, ReadIndex
  <2>4. infos' = [i \in 1..n |-> Infos[p[i]]] /\ Len(infos') = n
    BY <1>0, <2>1
  <2>5. Infos' = Infos /\ Len(index') = n
    BY <2>3 DEF Infos
  <2>6. \E q \in Bijection(1..Len(index'), 1..Len(index')) :
          infos' = [i \in 1..Len(index') |-> Infos'[q[i]]]
    BY <2>2, <2>4, <2>5
  <2>7. (bits = UNION {KeyBlocks(infos[q].key) : q \in 1..pos - 1})'
    <3>1. 1..pos' - 1 = {}
      BY <2>3
    <3> QED
      BY <2>3, <3>1
  <2>8. pos' \in 1..Len(infos') + 1
    BY <2>3, <2>4
  <2>9. index' \in Indexes /\ disk' \in [Locs -> Bitmaps]
    BY <1>0, <2>3
  <2> QED
    BY <2>3, <2>6, <2>7, <2>8, <2>9, Zenon DEF AllocInv
<1>2. CASE ReadFails
  BY <1>2 DEF ReadFails, AllocInv
<1>3. CASE ReadBitmap
  <2>1. /\ pc = "bitmaps" /\ pos <= Len(infos) /\ pos' = pos + 1 /\ pc' = pc
        /\ UNCHANGED <<index, disk, infos>>
        /\ bits' = bits \cup {AsU32(BitmapBase(pos) + i) :
                                i \in {j \in DOMAIN disk[infos[pos].loc] : disk[infos[pos].loc][j] # 0}}
    BY <1>3 DEF ReadBitmap
  <2>2. PICK p \in Bijection(1..n, 1..n) : infos = [i \in 1..n |-> Infos[p[i]]]
    BY <2>1 DEF AllocInv
  <2>3. /\ Len(infos) = n /\ pos \in 1..n
        /\ bits = UNION {KeyBlocks(infos[q].key) : q \in 1..pos - 1}
    BY <1>0, <2>1, <2>2 DEF AllocInv
  <2> DEFINE k == p[pos] - 1
             bm == disk[index[k + 1]]
  <2>4. p[pos] \in 1..n
    BY <2>2, <2>3 DEF Bijection, Injection
  <2>5. infos[pos] = [key |-> k, loc |-> index[k + 1]] /\ k \in 0..MaxBitmaps - 1
    <3>1. infos[pos] = Infos[p[pos]]
      BY <2>2, <2>3
    <3>2. Infos[p[pos]] = [key |-> p[pos] - 1, loc |-> index[p[pos]]]
      BY <1>0, <2>4
    <3>3. k + 1 = p[pos] /\ k \in 0..MaxBitmaps - 1
      BY <1>0, <2>4, AllocatedBlocksAssumption
    <3> QED
      BY <3>1, <3>2, <3>3
  <2>6. bm \in [0..EntriesPerBitmap - 1 -> Nat]
    <3>1. index[k + 1] \in Locs
      BY <1>0, <2>4, <2>5
    <3>2. bm \in Bitmaps
      BY <1>0, <3>1
    <3> QED
      BY <3>2, AllocatedBlocksAssumption
  <2>7. {AsU32(BitmapBase(pos) + i) : i \in {j \in DOMAIN bm : bm[j] # 0}} = KeyBlocks(k)
    <3>1. BitmapBase(pos) = k * EntriesPerBitmap
      BY <2>5 DEF BitmapBase
    <3>2. \A i \in DOMAIN bm : AsU32(k * EntriesPerBitmap + i) = k * EntriesPerBitmap + i
      BY <2>5, <2>6, NoTruncation
    <3> QED
      BY <3>1, <3>2 DEF KeyBlocks
  <2>8. bits' = UNION {KeyBlocks(infos[q].key) : q \in 1..pos}
    <3>1. 1..pos = (1..pos - 1) \cup {pos}
      BY <2>3
    <3> QED
      BY <2>1, <2>3, <2>5, <2>7, <3>1
  <2> QED
    <3>1. Infos' = Infos /\ Len(index') = n /\ infos' = infos
      BY <2>1 DEF Infos
    <3>2. \E q \in Bijection(1..Len(index'), 1..Len(index')) :
            infos' = [i \in 1..Len(index') |-> Infos'[q[i]]]
      BY <2>2, <3>1
    <3>3. pos' \in 1..Len(infos') + 1
      BY <2>1, <2>3, <3>1
    <3>4. (bits = UNION {KeyBlocks(infos[q].key) : q \in 1..pos - 1})'
      <4>0. pos' - 1 = pos /\ infos' = infos
        BY <2>1, <2>3
      <4>1. ASSUME NEW x PROVE KeyBlocks(x)' = KeyBlocks(x)
        BY <2>1 DEF KeyBlocks
      <4>2. (UNION {KeyBlocks(infos[q].key) : q \in 1..pos - 1})'
              = UNION {KeyBlocks(infos[q].key) : q \in 1..pos}
        BY <4>0, <4>1
      <4> QED
        BY <2>8, <4>2
    <3>5. index' \in Indexes /\ disk' \in [Locs -> Bitmaps] /\ pc' = "bitmaps"
      BY <1>0, <2>1
    <3> QED
      BY <3>2, <3>3, <3>4, <3>5, Zenon DEF AllocInv
<1>4. CASE Done
  BY <1>4 DEF Done, AllocInv, Infos, KeyBlocks
<1>5. CASE UNCHANGED vars
  BY <1>5 DEF vars, AllocInv, Infos, KeyBlocks
<1> QED
  BY <1>1, <1>2, <1>3, <1>4, <1>5 DEF Next

(* In every state the sorted infos hold each index entry once with its    *)
(* own key, and bits holds exactly the blocks of the bitmaps read so far,  *)
(* whatever order the sort put them in.                                    *)
THEOREM InvariantHolds == Spec => []AllocInv
  BY InitInv, NextInv, PTL DEF Spec

(* allocated_blocks returns exactly the allocated blocks: Ok(bits) holds  *)
(* one block per non-zero entry of every bitmap, numbered by its key,      *)
(* for every bitmap size, width and index size the assumption allows.      *)
THEOREM AllocatedCorrect == Spec => []AllocatedExact
  BY InvariantHolds, InvExact, PTL


=============================================================================
