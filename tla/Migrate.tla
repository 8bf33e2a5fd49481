------------------------------- MODULE Migrate -------------------------------
(***************************************************************************)
(* thin_migrate's copy driver: migrate and copy_regions of                 *)
(* src/src/thin/migrate/base.rs.                                           *)
(*                                                                         *)
(* Two threads share a sync_channel(1).  The producer (copy_regions) walks *)
(* the chunk stream, turns every Copy chunk into one CopyOp per data       *)
(* block and pushes them into a CopyOpBatcher, which sends a batch when it *)
(* holds nr_ops operations; at the end batcher.complete() sends the last   *)
(* partial batch and drops the sender, and the producer joins the copier.  *)
(* The copier (ThreadedCopier) receives batches until the channel is       *)
(* closed, copying each, and returns the first copy error, dropping the    *)
(* receiver.  The batcher, the copier thread and the stream live outside   *)
(* src/ and are modelled from spec 4.9 and 5.                              *)
(***************************************************************************)
EXTENDS Naturals, Sequences, SequencesExt

CONSTANTS
  BlockSize,    \* src.block_size, data block size in sectors
  BufferSizes,  \* possible opts.buffer_size (in sectors)
  Streams,      \* possible chunk streams of the source thin device
  SrcLen,       \* byte length of the source
  DestLens,     \* possible lengths of an existing destination
  StreamErrors, \* whether stream.next_chunk() may fail
  CopyErrors    \* whether a vectored copy may fail

Contents == {"Skip", "Copy", "Discard"}

(* A stream::Chunk: u64 offset and length, and its contents. *)
Chunks == [offset : Nat, len : Nat, contents : Contents]

ASSUME MigrateAssumption ==
  /\ BlockSize \in Nat \ {0}
  /\ BufferSizes \subseteq Nat
  /\ Streams \subseteq Seq(Chunks)
  /\ StreamErrors \in BOOLEAN /\ CopyErrors \in BOOLEAN

(* stream::Chunk, offsets and lengths in the unit of block_size. *)
Chunk(o, l, c) == [offset |-> o, len |-> l, contents |-> c]

(* copy_regions, ChunkContents::Copy: CopyOp { src: b, dst: b } for b in  *)
(* offset / block_size .. (offset + len) / block_size (the ops are        *)
(* identified by their block b).                                           *)
ChunkOps(ch) == [i \in 1..((ch.offset + ch.len) \div BlockSize) - (ch.offset \div BlockSize)
                   |-> (ch.offset \div BlockSize) + i - 1]

VARIABLES
  dest,      \* the destination: [kind, create, len]
  bufSize,   \* buffer_size chosen by migrate
  stream,    \* chunks stream.next_chunk() has still to return
  input,     \* the whole stream (history, for the properties)
  ops,       \* CopyOps of the current Copy chunk not yet pushed
  batch,     \* the batcher's pending ops
  txAlive,   \* the batcher (holding the Sender) has not been dropped
  chan,      \* batches buffered in the sync_channel (capacity 1)
  ppc,       \* where the producer (migrate / copy_regions) is
  cpc,       \* where the copier thread is
  cur,       \* the batch the copier is copying
  rxAlive,   \* the copier thread holds the Receiver
  copied     \* blocks written to the destination, in order

vars == <<dest, bufSize, stream, input, ops, batch, txAlive, chan, ppc, cpc, cur,
          rxAlive, copied>>

(* CopyOpBatcher::new(buffer_size / block_size, tx) *)
NrOps == bufSize \div BlockSize

Dests == [kind : {"dev", "file"}, create : BOOLEAN, len : DestLens]

Init ==
  /\ dest \in Dests
  /\ bufSize \in BufferSizes
  /\ input \in Streams
  /\ stream = input
  /\ ops = << >> /\ batch = << >> /\ chan = << >> /\ cur = << >>
  /\ txAlive = FALSE /\ rxAlive = FALSE
  /\ ppc = "open" /\ cpc = "none"
  /\ copied = << >>

(* open_dest: a device, or a file opened without create, must already     *)
(* have the source's length; a file opened with create is set_len to it.  *)
OpenDest ==
  /\ ppc = "open"
  /\ IF dest.kind = "file" /\ dest.create
       THEN dest' = [dest EXCEPT !.len = SrcLen] /\ ppc' = "start"
       ELSE /\ ppc' = (IF dest.len = SrcLen THEN "start" ELSE "err")
            /\ UNCHANGED dest
  /\ UNCHANGED <<bufSize, stream, input, ops, batch, txAlive, chan, cpc, cur, rxAlive, copied>>

(* copy_regions up to the loop: the channel, the batcher, and             *)
(* copier.run(rx, progress) spawning the copier thread.                    *)
Start ==
  /\ ppc = "start"
  /\ ppc' = "stream"
  /\ txAlive' = TRUE /\ rxAlive' = TRUE
  /\ cpc' = "recv"
  /\ UNCHANGED <<dest, bufSize, stream, input, ops, batch, chan, cur, copied>>

(* stream.next_chunk() returns Some(chunk).  A Copy chunk starts the push *)
(* loop; Skip does nothing; Discard reaches todo!(), whose panic unwinds  *)
(* copy_regions and drops the batcher (and with it the sender).           *)
NextChunk ==
  /\ ppc = "stream"
  /\ stream # << >>
  /\ stream' = Tail(stream)
  /\ CASE Head(stream).contents = "Copy" ->
            ops' = ChunkOps(Head(stream)) /\ ppc' = "push" /\ UNCHANGED txAlive
       [] Head(stream).contents = "Skip" ->
            UNCHANGED <<ops, ppc, txAlive>>
       [] Head(stream).contents = "Discard" ->
            ppc' = "panic" /\ txAlive' = FALSE /\ UNCHANGED ops
  /\ UNCHANGED <<dest, bufSize, input, batch, chan, cpc, cur, rxAlive, copied>>

(* stream.next_chunk() returns None: batcher.complete() follows. *)
StreamEnd ==
  /\ ppc = "stream"
  /\ stream = << >>
  /\ ppc' = "complete"
  /\ UNCHANGED <<dest, bufSize, stream, input, ops, batch, txAlive, chan, cpc, cur,
                 rxAlive, copied>>

(* stream.next_chunk()? returns Err: copy_regions returns it, dropping the *)
(* batcher and the copier's JoinHandle without a join.                     *)
StreamFails ==
  /\ StreamErrors
  /\ ppc = "stream"
  /\ ppc' = "err"
  /\ txAlive' = FALSE
  /\ UNCHANGED <<dest, bufSize, stream, input, ops, batch, chan, cpc, cur, rxAlive, copied>>

(* batcher.push(CopyOp { src: b, dst: b }): the op joins the batch, and a *)
(* batch of nr_ops ops is sent.                                            *)
Push ==
  /\ ppc = "push"
  /\ ops # << >>
  /\ batch' = Append(batch, Head(ops))
  /\ ops' = Tail(ops)
  /\ ppc' = IF Len(batch') >= NrOps THEN "send_push" ELSE "push"
  /\ UNCHANGED <<dest, bufSize, stream, input, txAlive, chan, cpc, cur, rxAlive, copied>>

(* The for loop over the chunk's blocks ends. *)
PushDone ==
  /\ ppc = "push"
  /\ ops = << >>
  /\ ppc' = "stream"
  /\ UNCHANGED <<dest, bufSize, stream, input, ops, batch, txAlive, chan, cpc, cur,
                 rxAlive, copied>>

(* Fault-injected variants for mutation checks: a complete() that drops  *)
(* the last partial batch, and one that keeps the sender alive.           *)
CompleteDropsLast ==
  /\ ppc = "complete"
  /\ ppc' = "join" /\ txAlive' = FALSE
  /\ UNCHANGED <<dest, bufSize, stream, input, ops, batch, chan, cpc, cur, rxAlive, copied>>

CompleteKeepsSender ==
  /\ ppc = "complete"
  /\ ppc' = IF batch # << >> THEN "send_complete" ELSE "join"
  /\ UNCHANGED <<dest, bufSize, stream, input, ops, batch, txAlive, chan, cpc, cur, rxAlive, copied>>

(* batcher.complete(): a non-empty last batch is sent; an empty one is    *)
(* not, and the batcher is dropped.                                        *)
Complete ==
  /\ ppc = "complete"
  /\ IF batch # << >>
       THEN ppc' = "send_complete" /\ UNCHANGED txAlive
       ELSE ppc' = "join" /\ txAlive' = FALSE
  /\ UNCHANGED <<dest, bufSize, stream, input, ops, batch, chan, cpc, cur, rxAlive, copied>>

(* Where the producer goes once a send succeeds. *)
AfterSend(p) == IF p = "send_push" THEN "push" ELSE "join"

(* Fault-injected variants for mutation checks: a send that does not wait *)
(* for room in the channel, and one that leaves the sent ops in the batch. *)
SendNoBackpressure ==
  /\ ppc \in {"send_push", "send_complete"}
  /\ rxAlive
  /\ chan' = Append(chan, batch)
  /\ batch' = << >>
  /\ ppc' = AfterSend(ppc)
  /\ txAlive' = (ppc = "send_push")
  /\ UNCHANGED <<dest, bufSize, stream, input, ops, cpc, cur, rxAlive, copied>>

SendKeepsBatch ==
  /\ ppc \in {"send_push", "send_complete"}
  /\ rxAlive
  /\ Len(chan) < 1
  /\ chan' = Append(chan, batch)
  /\ ppc' = AfterSend(ppc)
  /\ txAlive' = (ppc = "send_push")
  /\ UNCHANGED <<dest, bufSize, stream, input, ops, batch, cpc, cur, rxAlive, copied>>

(* tx.send(batch) returns once the batch is in the channel; it blocks     *)
(* while the channel holds one.  After complete's send the batcher is     *)
(* dropped.                                                                *)
Send ==
  /\ ppc \in {"send_push", "send_complete"}
  /\ rxAlive
  /\ Len(chan) < 1
  /\ chan' = Append(chan, batch)
  /\ batch' = << >>
  /\ ppc' = AfterSend(ppc)
  /\ txAlive' = (ppc = "send_push")
  /\ UNCHANGED <<dest, bufSize, stream, input, ops, cpc, cur, rxAlive, copied>>

(* The receiver is gone: send returns Err, the push or the complete       *)
(* returns it, and copy_regions returns it without a join.                 *)
SendFails ==
  /\ ppc \in {"send_push", "send_complete"}
  /\ ~rxAlive
  /\ ppc' = "err"
  /\ txAlive' = FALSE
  /\ UNCHANGED <<dest, bufSize, stream, input, ops, batch, chan, cpc, cur, rxAlive, copied>>

(* Fault-injected variant for mutation checks: a join that does not wait *)
(* for the copier thread.                                                  *)
JoinNoWait ==
  /\ ppc = "join"
  /\ ppc' = IF cpc = "failed" THEN "err" ELSE "ok"
  /\ UNCHANGED <<dest, bufSize, stream, input, ops, batch, txAlive, chan, cpc, cur,
                 rxAlive, copied>>

(* handle.join().unwrap()? : Ok only if the copier thread returned Ok. *)
Join ==
  /\ ppc = "join"
  /\ cpc \in {"done", "failed"}
  /\ ppc' = IF cpc = "done" THEN "ok" ELSE "err"
  /\ UNCHANGED <<dest, bufSize, stream, input, ops, batch, txAlive, chan, cpc, cur,
                 rxAlive, copied>>

(* The copier thread: rx.recv() returns the buffered batch. *)
Recv ==
  /\ cpc = "recv"
  /\ chan # << >>
  /\ cur' = Head(chan)
  /\ chan' = Tail(chan)
  /\ cpc' = "copy"
  /\ UNCHANGED <<dest, bufSize, stream, input, ops, batch, txAlive, ppc, rxAlive, copied>>

(* rx.recv() returns Err: the channel is empty and the sender dropped; the *)
(* thread returns Ok.                                                      *)
RecvClosed ==
  /\ cpc = "recv"
  /\ chan = << >>
  /\ ~txAlive
  /\ cpc' = "done"
  /\ rxAlive' = FALSE
  /\ UNCHANGED <<dest, bufSize, stream, input, ops, batch, txAlive, chan, ppc, cur, copied>>

(* The vectored copy of the batch succeeds. *)
CopyBatch ==
  /\ cpc = "copy"
  /\ copied' = copied \o cur
  /\ cur' = << >>
  /\ cpc' = "recv"
  /\ UNCHANGED <<dest, bufSize, stream, input, ops, batch, txAlive, chan, ppc, rxAlive>>

(* The copy fails after writing some prefix of the batch; the thread      *)
(* returns the error, dropping the receiver.                               *)
CopyFails ==
  /\ CopyErrors
  /\ cpc = "copy"
  /\ \E k \in 0..Len(cur) - 1 : copied' = copied \o SubSeq(cur, 1, k)
  /\ cur' = << >>
  /\ cpc' = "failed"
  /\ rxAlive' = FALSE
  /\ UNCHANGED <<dest, bufSize, stream, input, ops, batch, txAlive, chan, ppc>>

Producer ==
  \/ OpenDest \/ Start \/ NextChunk \/ StreamEnd \/ Push \/ PushDone
  \/ Complete \/ Send \/ SendFails \/ Join

Copier == Recv \/ RecvClosed \/ CopyBatch

Next == Producer \/ StreamFails \/ Copier \/ CopyFails

(* Both threads are scheduled by the OS: each, when it can run, runs.     *)
(* Nothing forces a stream or a copy to fail.                              *)
Spec == Init /\ [][Next]_vars /\ WF_vars(Producer) /\ WF_vars(Copier)

-----------------------------------------------------------------------------
Returned == {"ok", "err", "panic"}

TypeOK ==
  /\ dest \in Dests \cup [kind : {"file"}, create : {TRUE}, len : {SrcLen}]
  /\ ppc \in {"open", "start", "stream", "push", "send_push", "complete",
              "send_complete", "join"} \cup Returned
  /\ cpc \in {"none", "recv", "copy", "done", "failed"}
  /\ Len(chan) <= 1
  /\ NrOps > 0 => Len(batch) <= NrOps
  /\ txAlive \in BOOLEAN /\ rxAlive \in BOOLEAN

(* What holds between the two threads at every step, and makes TypeOK   *)
(* and OkMeansDrained inductive: the channel never holds two batches; the *)
(* batcher holds less than a full batch except while sending it; nothing  *)
(* is buffered before the copier is spawned; once the stream ends the     *)
(* producer has no op or chunk left; the copier ends only on an empty,    *)
(* closed channel, and once ended never receives again.                   *)
MigrateInv ==
  /\ TypeOK
  /\ bufSize \in BufferSizes /\ input \in Streams /\ stream \in Seq(Chunks)
  /\ ops \in Seq(Nat) /\ batch \in Seq(Nat) /\ cur \in Seq(Nat) /\ copied \in Seq(Nat)
  /\ chan \in Seq(Seq(Nat))
  /\ (NrOps > 0 /\ ppc \in {"stream", "push", "complete", "send_complete"}) => Len(batch) < NrOps
  /\ ppc \in {"open", "start"} => cpc = "none" /\ batch = << >> /\ chan = << >>
  /\ ppc \in {"open", "start", "stream", "complete", "send_complete", "join", "ok"} => ops = << >>
  /\ ppc \in {"complete", "send_complete", "join", "ok"} => stream = << >>
  /\ ppc \in {"join", "ok"} => batch = << >>
  /\ ppc = "ok" => cpc = "done"
  /\ cpc \in {"none", "recv", "done"} => cur = << >>
  /\ cpc = "done" => chan = << >> /\ ~rxAlive

(* Every block of every Copy chunk of the stream, in stream order. *)
Expected(s) == FlattenSeq([i \in 1..Len(s) |->
                 IF s[i].contents = "Copy" THEN ChunkOps(s[i]) ELSE << >>])

(* The chunks stream.next_chunk() has returned so far. *)
Consumed == SubSeq(input, 1, Len(input) - Len(stream))

(* Batching, the channel and a copy failing part way never duplicate,    *)
(* drop or reorder a block: what the copier has written is always a      *)
(* prefix of the stream's Copy blocks, and exactly the blocks consumed   *)
(* so far once the batches in flight are counted.                         *)
CopiedInOrder ==
  /\ IsPrefix(copied, Expected(input))
  /\ (cpc # "failed" /\ ppc \notin Returned) =>
       copied \o cur \o FlattenSeq(chan) \o batch \o ops = Expected(Consumed)

(* migrate returns Ok only if every block of every Copy chunk has been    *)
(* written to a destination of the source's length (spec 4.9: the driver  *)
(* completes only after the batcher is drained and the copier joins       *)
(* without error; spec 8.10).                                             *)
OkMeansCopied ==
  ppc = "ok" => copied = Expected(input) /\ dest.len = SrcLen

(* copy_regions returns Ok only once nothing is left in flight: the       *)
(* stream is exhausted, no op waits in the batcher or the channel, and    *)
(* the copier thread has copied its last batch and ended without error    *)
(* (spec 4.9: the driver completes only after the batcher is drained and  *)
(* the copier joins).                                                      *)
OkMeansDrained ==
  ppc = "ok" =>
    /\ stream = << >> /\ ops = << >> /\ batch = << >>
    /\ chan = << >> /\ cur = << >> /\ cpc = "done"

(* copy_regions always returns, and the copier thread always ends: the    *)
(* sender is dropped on every path, so recv cannot wait forever, and join *)
(* is only reached after that.                                            *)
Terminates == <>(ppc \in Returned) /\ <>(cpc \in {"none", "done", "failed"})

(* Once migrate has returned, the destination is no longer written (spec  *)
(* 5: file handles are scoped to a single invocation and released on all  *)
(* exit paths).                                                            *)
NoCopyAfterReturn == [][(ppc \in Returned) => (copied' = copied)]_vars

=============================================================================
