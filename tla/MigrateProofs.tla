---------------------------- MODULE MigrateProofs ----------------------------
(***************************************************************************)
(* Proofs about copy_regions (module Migrate) for every block size, buffer *)
(* size and chunk stream: the sync_channel never holds two batches, the   *)
(* batcher never exceeds nr_ops, and an Ok return leaves nothing in       *)
(* flight.  The argument is the inductive invariant MigrateInv.            *)
(***************************************************************************)
EXTENDS Migrate, SequenceTheorems, TLAPS

(* The blocks of a Copy chunk are a sequence of block numbers. *)
LEMMA ChunkOpsType ==
  ASSUME NEW ch \in Chunks
  PROVE  ChunkOps(ch) \in Seq(Nat)
<1> DEFINE a == ch.offset \div BlockSize
           b == (ch.offset + ch.len) \div BlockSize
<1>1. a \in Nat /\ b \in Nat /\ a <= b
  BY MigrateAssumption DEF Chunks
<1>2. [i \in 1..(b - a) |-> a + i - 1] \in Seq(Nat)
  BY <1>1
<1>3. QED  BY <1>2 DEF ChunkOps

(* A prefix of a sequence of naturals, such as the part of a batch a    *)
(* failed copy wrote, is a sequence of naturals.                           *)
LEMMA PrefixType ==
  ASSUME NEW s \in Seq(Nat), NEW k \in 0..Len(s)
  PROVE  SubSeq(s, 1, k) \in Seq(Nat)
<1>1. \A i \in 1..k : s[i] \in Nat  OBVIOUS
<1>2. QED  BY <1>1, SubSeqProperties

(* nr_ops is a natural number. *)
LEMMA NrOpsType ==
  ASSUME bufSize \in BufferSizes
  PROVE  NrOps \in Nat
BY MigrateAssumption DEF NrOps

(* copy_regions starts in a state of the inductive invariant. *)
LEMMA InitInv == Init => MigrateInv
<1> SUFFICES ASSUME Init PROVE MigrateInv  OBVIOUS
<1>1. stream \in Seq(Chunks)  BY MigrateAssumption DEF Init
<1>2. NrOps \in Nat  BY NrOpsType DEF Init
<1>3. TypeOK
  <2>1. dest \in Dests  BY DEF Init
  <2>2. Len(chan) = 0 /\ Len(batch) = 0  BY DEF Init
  <2>3. ppc = "open" /\ cpc = "none" /\ txAlive = FALSE /\ rxAlive = FALSE  BY DEF Init
  <2>4. NrOps > 0 => Len(batch) <= NrOps  BY <1>2, <2>2
  <2>5. Len(chan) <= 1  BY <2>2
  <2>6. QED  BY <2>1, <2>3, <2>4, <2>5, Zenon DEF TypeOK
<1>4. input \in Streams /\ bufSize \in BufferSizes  BY DEF Init
<1>5. QED  BY <1>1, <1>2, <1>3, <1>4 DEF Init, MigrateInv

(* The conjuncts of MigrateInv, in five groups that the provers take one *)
(* at a time: the destination, the control state, the channel and batch   *)
(* bounds, the sequences' types, and the in-flight facts.                  *)
DestOK == dest \in Dests \cup [kind : {"file"}, create : {TRUE}, len : {SrcLen}]
CtlOK ==
  /\ ppc \in {"open", "start", "stream", "push", "send_push", "complete",
              "send_complete", "join"} \cup Returned
  /\ cpc \in {"none", "recv", "copy", "done", "failed"}
  /\ txAlive \in BOOLEAN /\ rxAlive \in BOOLEAN
BoundsOK == Len(chan) <= 1 /\ (NrOps > 0 => Len(batch) <= NrOps)
SeqsOK ==
  /\ bufSize \in BufferSizes /\ input \in Streams /\ stream \in Seq(Chunks)
  /\ ops \in Seq(Nat) /\ batch \in Seq(Nat) /\ cur \in Seq(Nat) /\ copied \in Seq(Nat)
  /\ chan \in Seq(Seq(Nat))
FlightOK ==
  /\ (NrOps > 0 /\ ppc \in {"stream", "push", "complete", "send_complete"}) => Len(batch) < NrOps
  /\ ppc \in {"open", "start"} => cpc = "none" /\ batch = << >> /\ chan = << >>
  /\ ppc \in {"open", "start", "stream", "complete", "send_complete", "join", "ok"} => ops = << >>
  /\ ppc \in {"complete", "send_complete", "join", "ok"} => stream = << >>
  /\ ppc \in {"join", "ok"} => batch = << >>
  /\ ppc = "ok" => cpc = "done"
  /\ cpc \in {"none", "recv", "done"} => cur = << >>
  /\ cpc = "done" => chan = << >> /\ ~rxAlive

(* The inductive invariant is the conjunction of its groups. *)
LEMMA InvParts == MigrateInv <=> DestOK /\ CtlOK /\ BoundsOK /\ SeqsOK /\ FlightOK
BY Zenon DEF MigrateInv, TypeOK, DestOK, CtlOK, BoundsOK, SeqsOK, FlightOK

(* Every step of the stream, the batcher, the channel and the copier    *)
(* preserves the inductive invariant.                                    *)
LEMMA NextInv == MigrateInv /\ [Next]_vars => MigrateInv'
<1> SUFFICES ASSUME MigrateInv, [Next]_vars PROVE MigrateInv'  OBVIOUS
<1>0. NrOps \in Nat  BY NrOpsType DEF MigrateInv
<1>a. DestOK /\ CtlOK /\ BoundsOK /\ SeqsOK /\ FlightOK  BY InvParts
<1>b. MigrateInv' <=> (DestOK /\ CtlOK /\ BoundsOK /\ SeqsOK /\ FlightOK)'
  BY Zenon DEF MigrateInv, TypeOK, DestOK, CtlOK, BoundsOK, SeqsOK, FlightOK
<1> USE <1>0, <1>a, MigrateAssumption DEF DestOK, CtlOK, BoundsOK, SeqsOK, FlightOK, Returned, NrOps
<1>1. CASE OpenDest
  <2>1. DestOK'  BY <1>1 DEF OpenDest, Dests
  <2>2. CtlOK'  BY <1>1 DEF OpenDest
  <2>3. BoundsOK'  BY <1>1 DEF OpenDest
  <2>4. SeqsOK'  BY <1>1 DEF OpenDest
  <2>5. FlightOK'  BY <1>1 DEF OpenDest
  <2>6. QED  BY <2>1, <2>2, <2>3, <2>4, <2>5, <1>b
<1>2. CASE Start
  <2>1. DestOK'  BY <1>2 DEF Start, Dests
  <2>2. CtlOK'  BY <1>2 DEF Start
  <2>3. BoundsOK'  BY <1>2 DEF Start
  <2>4. SeqsOK'  BY <1>2 DEF Start
  <2>5. FlightOK'  BY <1>2 DEF Start
  <2>6. QED  BY <2>1, <2>2, <2>3, <2>4, <2>5, <1>b
<1>3. CASE NextChunk
  <2> DEFINE ch == Head(stream)
  <2>0. /\ ppc = "stream" /\ stream # << >> /\ ch \in Chunks
        /\ stream' = Tail(stream) /\ Tail(stream) \in Seq(Chunks)
        /\ UNCHANGED <<dest, bufSize, input, batch, chan, cpc, cur, rxAlive, copied>>
    BY <1>3 DEF NextChunk
  <2>1. CASE ch.contents = "Copy"
    <3>1. ops' = ChunkOps(ch) /\ ppc' = "push" /\ txAlive' = txAlive  BY <1>3, <2>1 DEF NextChunk
    <3>2. ChunkOps(ch) \in Seq(Nat)  BY <2>0, ChunkOpsType
    <3>3. (DestOK /\ CtlOK /\ BoundsOK /\ SeqsOK /\ FlightOK)'  BY <2>0, <3>1, <3>2 DEF Dests
    <3>4. QED  BY <3>3, <1>b
  <2>2. CASE ch.contents = "Skip"
    <3>1. ops' = ops /\ ppc' = ppc /\ txAlive' = txAlive  BY <1>3, <2>2 DEF NextChunk
    <3>2. (DestOK /\ CtlOK /\ BoundsOK /\ SeqsOK /\ FlightOK)'  BY <2>0, <3>1 DEF Dests
    <3>3. QED  BY <3>2, <1>b
  <2>3. CASE ch.contents = "Discard"
    <3>1. ops' = ops /\ ppc' = "panic" /\ txAlive' = FALSE  BY <1>3, <2>3 DEF NextChunk
    <3>2. (DestOK /\ CtlOK /\ BoundsOK /\ SeqsOK /\ FlightOK)'  BY <2>0, <3>1 DEF Dests
    <3>3. QED  BY <3>2, <1>b
  <2>4. QED  BY <2>0, <2>1, <2>2, <2>3 DEF Chunks, Contents
<1>4. CASE StreamEnd
  <2>1. DestOK'  BY <1>4 DEF StreamEnd, Dests
  <2>2. CtlOK'  BY <1>4 DEF StreamEnd
  <2>3. BoundsOK'  BY <1>4 DEF StreamEnd
  <2>4. SeqsOK'  BY <1>4 DEF StreamEnd
  <2>5. FlightOK'  BY <1>4 DEF StreamEnd
  <2>6. QED  BY <2>1, <2>2, <2>3, <2>4, <2>5, <1>b
<1>5. CASE StreamFails
  <2>1. DestOK'  BY <1>5 DEF StreamFails, Dests
  <2>2. CtlOK'  BY <1>5 DEF StreamFails
  <2>3. BoundsOK'  BY <1>5 DEF StreamFails
  <2>4. SeqsOK'  BY <1>5 DEF StreamFails
  <2>5. FlightOK'  BY <1>5 DEF StreamFails
  <2>6. QED  BY <2>1, <2>2, <2>3, <2>4, <2>5, <1>b
<1>6. CASE Push
  <2>1. DestOK'  BY <1>6 DEF Push, Dests
  <2>2. CtlOK'  BY <1>6 DEF Push
  <2>3. BoundsOK'  BY <1>6 DEF Push
  <2>4. SeqsOK'  BY <1>6 DEF Push
  <2>5. FlightOK'  BY <1>6 DEF Push
  <2>6. QED  BY <2>1, <2>2, <2>3, <2>4, <2>5, <1>b
<1>7. CASE PushDone
  <2>1. DestOK'  BY <1>7 DEF PushDone, Dests
  <2>2. CtlOK'  BY <1>7 DEF PushDone
  <2>3. BoundsOK'  BY <1>7 DEF PushDone
  <2>4. SeqsOK'  BY <1>7 DEF PushDone
  <2>5. FlightOK'  BY <1>7 DEF PushDone
  <2>6. QED  BY <2>1, <2>2, <2>3, <2>4, <2>5, <1>b
<1>8. CASE Complete
  <2>1. DestOK'  BY <1>8 DEF Complete, Dests
  <2>2. CtlOK'  BY <1>8 DEF Complete
  <2>3. BoundsOK'  BY <1>8 DEF Complete
  <2>4. SeqsOK'  BY <1>8 DEF Complete
  <2>5. FlightOK'  BY <1>8 DEF Complete
  <2>6. QED  BY <2>1, <2>2, <2>3, <2>4, <2>5, <1>b
<1>9. CASE Send
  <2>1. DestOK'  BY <1>9 DEF Send, AfterSend, Dests
  <2>2. CtlOK'  BY <1>9 DEF Send, AfterSend
  <2>3. BoundsOK'  BY <1>9 DEF Send, AfterSend
  <2>4. SeqsOK'  BY <1>9 DEF Send, AfterSend
  <2>5. FlightOK'  BY <1>9 DEF Send, AfterSend
  <2>6. QED  BY <2>1, <2>2, <2>3, <2>4, <2>5, <1>b
<1>10. CASE SendFails
  <2>1. DestOK'  BY <1>10 DEF SendFails, Dests
  <2>2. CtlOK'  BY <1>10 DEF SendFails
  <2>3. BoundsOK'  BY <1>10 DEF SendFails
  <2>4. SeqsOK'  BY <1>10 DEF SendFails
  <2>5. FlightOK'  BY <1>10 DEF SendFails
  <2>6. QED  BY <2>1, <2>2, <2>3, <2>4, <2>5, <1>b
<1>11. CASE Join
  <2>1. DestOK'  BY <1>11 DEF Join, Dests
  <2>2. CtlOK'  BY <1>11 DEF Join
  <2>3. BoundsOK'  BY <1>11 DEF Join
  <2>4. SeqsOK'  BY <1>11 DEF Join
  <2>5. FlightOK'  BY <1>11 DEF Join
  <2>6. QED  BY <2>1, <2>2, <2>3, <2>4, <2>5, <1>b
<1>12. CASE Recv
  <2>1. DestOK'  BY <1>12 DEF Recv, Dests
  <2>2. CtlOK'  BY <1>12 DEF Recv
  <2>3. BoundsOK'  BY <1>12 DEF Recv
  <2>4. SeqsOK'  BY <1>12 DEF Recv
  <2>5. FlightOK'  BY <1>12 DEF Recv
  <2>6. QED  BY <2>1, <2>2, <2>3, <2>4, <2>5, <1>b
<1>13. CASE RecvClosed
  <2>1. DestOK'  BY <1>13 DEF RecvClosed, Dests
  <2>2. CtlOK'  BY <1>13 DEF RecvClosed
  <2>3. BoundsOK'  BY <1>13 DEF RecvClosed
  <2>4. SeqsOK'  BY <1>13 DEF RecvClosed
  <2>5. FlightOK'  BY <1>13 DEF RecvClosed
  <2>6. QED  BY <2>1, <2>2, <2>3, <2>4, <2>5, <1>b
<1>14. CASE CopyBatch
  <2>1. DestOK'  BY <1>14 DEF CopyBatch, Dests
  <2>2. CtlOK'  BY <1>14 DEF CopyBatch
  <2>3. BoundsOK'  BY <1>14 DEF CopyBatch
  <2>4. SeqsOK'  BY <1>14 DEF CopyBatch
  <2>5. FlightOK'  BY <1>14 DEF CopyBatch
  <2>6. QED  BY <2>1, <2>2, <2>3, <2>4, <2>5, <1>b
<1>15. CASE CopyFails
  <2>1. DestOK'  BY <1>15 DEF CopyFails, Dests
  <2>2. CtlOK'  BY <1>15 DEF CopyFails
  <2>3. BoundsOK'  BY <1>15 DEF CopyFails
  <2>4. SeqsOK'
    <3>1. PICK k \in 0..Len(cur) - 1 : copied' = copied \o SubSeq(cur, 1, k)  BY <1>15 DEF CopyFails
    <3>2. SubSeq(cur, 1, k) \in Seq(Nat)  BY <3>1, PrefixType
    <3>3. QED  BY <1>15, <3>1, <3>2 DEF CopyFails
  <2>5. FlightOK'  BY <1>15 DEF CopyFails
  <2>6. QED  BY <2>1, <2>2, <2>3, <2>4, <2>5, <1>b
<1>16. CASE UNCHANGED vars
  <2>1. DestOK'  BY <1>16 DEF vars
  <2>2. CtlOK'  BY <1>16 DEF vars
  <2>3. BoundsOK'  BY <1>16 DEF vars
  <2>4. SeqsOK'  BY <1>16 DEF vars
  <2>5. FlightOK'  BY <1>16 DEF vars
  <2>6. QED  BY <2>1, <2>2, <2>3, <2>4, <2>5, <1>b
<1>17. QED  BY <1>1, <1>2, <1>3, <1>4, <1>5, <1>6, <1>7, <1>8, <1>9, <1>10, <1>11, <1>12, <1>13, <1>14, <1>15, <1>16 DEF Next, Producer, Copier

(* MigrateInv holds in every state copy_regions and its copier reach. *)
THEOREM InvariantHolds == Spec => []MigrateInv
BY InitInv, NextInv, PTL DEF Spec

(* The channel never holds more than one batch (sync_channel(1) blocks   *)
(* the sender), and the batcher never holds more than nr_ops ops.         *)
THEOREM TypeCorrect == Spec => []TypeOK
<1>1. MigrateInv => TypeOK  BY DEF MigrateInv
<1>2. QED  BY InvariantHolds, <1>1, PTL

(* copy_regions returns Ok only when the stream is exhausted, the batcher *)
(* and the channel are empty and the copier thread ended without error.   *)
THEOREM Drained == Spec => []OkMeansDrained
<1>1. MigrateInv => OkMeansDrained  BY InvParts DEF FlightOK, OkMeansDrained
<1>2. QED  BY InvariantHolds, <1>1, PTL

=============================================================================
