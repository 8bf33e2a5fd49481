# TLA+ models of thin-provisioning-tools (thin_dump, thin_migrate, the space map, the CLI checks)

This directory holds TLA+ models of the Rust sources under `src/src/`. It also
holds the TLC configurations that check them on small instances, and TLAPS
proofs of the main safety properties for every value of the constants.
`PROJECT.json` lists:

- the components and their status;
- the runs;
- the mutants that show each property can fail;
- the map from each definition to the source lines it translates;
- the findings;
- the hazards.

## 1. The system and its parts

| Part | Source | State | Operations |
|---|---|---|---|
| RunBuilder | `thin/dump.rs:27-82` | `run: Option<ir::Map>` (the open run) | `new`, `next(thin, data, time)`: extend the run, or replace it and return the closed one. `complete()`: take the open run |
| MappingVisitor | `thin/dump.rs:86-132` | a Mutex around the output visitor and one RunBuilder | `visit(keys, values)`: feeds each (key, value) to `next` and calls `map` for each run returned. `end_walk`: calls `complete` and maps the result |
| emit pipeline | `thin/dump.rs:234-316` | `leaves` (pending leaf blocks) of `emit_entries` | `emit_leaf`: checksum, unpack, not-a-leaf check. `read_for`: reads the blocks in order, in chunks of the engine's batch size. `emit_leaves`: a fresh visitor per batch, then `end_walk`. `emit_entries`: gathers consecutive `Leaf`s and flushes them before each `Ref` and at the end |
| dump_metadata | `thin/dump.rs:346-379` | position in `md.defs` then `md.devs` | `superblock_b`, then per definition `def_shared_b`, entries, `def_shared_e`, then per device `device_b`, entries, `device_e`, then `superblock_e` and `eof`. Every call returns early on error (`?`) |
| thin_dump front end | `thin/dump.rs:383-425` | none | picks the superblock, builds and optimises the metadata, and picks the writer (XML or human readable, behind a BufWriter) |
| copy_regions | `thin/migrate/base.rs:141-191` | the stream, a CopyOpBatcher, a `sync_channel(1)` and a copier thread | a producer loop over chunks (Skip, Copy, Discard), batched sends, `complete`, `join` |
| allocated_blocks | `pdata/space_map/allocated_blocks.rs` | none | sorts index entries by location and sets bit `(base + i) as u32` for each non-zero entry |
| CLI checks | `commands/utils.rs` | none | `RangeU64::from_str`, the file-size checks, XML sniffing, the overwrite prompt, `to_exit_code` |
| test XML generator | `tests/common/thin_xml_generator.rs` | allocator and runs | `alloc`, `split`, snapshot runs |

How they interact:

- `dump_metadata` drives `emit_entries` once per section.
- `emit_entries` drives `emit_leaves` once per batch of consecutive leaves.
- `emit_leaves` creates a MappingVisitor whose RunBuilder turns the leaf entries into `map` calls.
- In thin_migrate, the producer loop and the copier thread share only the capacity-1 channel and the progress counter.

### What is hard, and what makes each part correct

- **RunBuilder.** The extension test (`dump.rs:55-57`) must merge exactly the adjacent entries: same time, and consecutive in both the thin and the data space. Given ascending keys, the runs are then:
  - non-overlapping and ascending (RunsOrdered);
  - maximal, so the output is canonical (RunsMaximal, spec 4.6);
  - lossless (RunsPreserveEntries, spec invariant 8.4).
- **Emit pipeline.** Getting the order of a few steps right is what matters:
  - the pending leaves are flushed before a `ref_shared`;
  - the last run is flushed by `end_walk`;
  - a new builder is used per batch, so no run spans a ref or a section.
  
  A completed dump must show exactly each section's mappings, in order (DumpLossless). Errors cut the walk anywhere, and the spec says no half-open device record is flushed (NoHalfOpenDevice).
- **copy_regions.** Two threads share a `sync_channel(1)`. The hazards are:
  - the producer blocking in `send` while the copier fails and drops the receiver;
  - early returns on stream errors, and the `todo!()` of a Discard chunk, which leave the copier detached;
  - a copier failure partway through a batch;
  - termination of `complete` and `join`;
  - the batch size arithmetic at line 159 (a buffer smaller than a block gives batches of 0 ops).

  Blocks must be copied in stream order (CopiedInOrder), an Ok return must mean every Copy block was written (OkMeansCopied), and both threads must finish (Terminates).
- **allocated_blocks.** Sorting the index entries by location must not change the block numbers, which come from the index key, not the sorted position (AllocatedExact).
- **CLI checks.** Edge cases of parsing and of the overwrite prompt: `"1...2"`, `"1..2.."`, `"..2"`, a reply of `"Yes "` or `"yeah"`. Region parsing and the prompt are checked against declarative definitions of what they should accept (RangeParsed, OverwriteConfirmed). The size checks and the broken-pipe test compare one value with constants; a property of them would only restate the constants, so they are left to unit tests.

The hazards, each at its line, are in `PROJECT.json`.

## 2. Modules

| Module | Models | Kind |
|---|---|---|
| `RunBuilder` | RunBuilder, with MappingVisitor feeding it ascending entries | component spec. Its operators `NewRun`, `Extends`, `NextRun`, `NextReturns` and `CompleteReturns` are reused by Dump |
| `RunBuilderAbstract` | what the coalescer promises: the user-visible mappings are exactly the entries fed, in order | abstract spec |
| `MCRunBuilder` | the TLC instance, and the refinement mapping `Shown` (the runs so far, followed by the open run, expanded into entries) | MC module |
| `RunBuilderProofs` | TLAPS proofs about RunBuilder | proofs |
| `Dump` | `dump_metadata`, `emit_entries`, `emit_leaves`, `read_for`, `emit_leaf`, `MappingVisitor` and `OutputVisitor`, composed with RunBuilder through `INSTANCE` | component spec |
| `DumpProofs` | TLAPS proofs about Dump | proofs |
| `MCDump` | leaf contents and metadata layouts for TLC | MC module |
| `Migrate` | `open_dest`, `migrate`'s buffer size, `copy_regions`, and the CopyOpBatcher and ThreadedCopier it drives | component spec, with fairness |
| `MigrateProofs` | TLAPS proofs about Migrate | proofs |
| `MCMigrate` | chunk streams for TLC | MC module |
| `AllocatedBlocks` | `allocated_blocks` | component spec |
| `AllocatedBlocksProofs` | TLAPS proofs about AllocatedBlocks | proofs |
| `MCAllocatedBlocks` | bitmap contents for TLC | MC module |
| `CliChecks` | `RangeU64::from_str`, `check_file_not_tiny`, `check_output_file`, `is_xml_file`, `check_not_xml`, `yes_no_prompt`, `check_overwrite_metadata`, `to_exit_code` | component spec of pure functions |
| `CliChecksProofs` | TLAPS proofs about CliChecks | proofs |
| `MCCliChecks` | the alphabets, replies and sizes for TLC | MC module |

### Correspondence with the code

**RunBuilder.**

- `run` is `RunBuilder.run`, and `NoRun` is `None`.
- `BuilderNext(e)` is one iteration of the loop in `MappingVisitor::visit`: `next`, plus `md_out.map` of the run it returns.
- `Complete` is `end_walk`.
- `fed` and `emitted` are history variables: the entries fed, and the runs passed to `map`.
- `ended` says the builder was dropped.
- Entries come in strictly ascending key order (`Ascending`). This is a property of a B-tree leaf walk, which is outside `src/`.

**Dump.**

- `pc` follows the statements of `dump_metadata`.
- `sect` indexes `md.defs` followed by `md.devs`.
- `ei` and `leaves` are the loop and the vector of `emit_entries`.
- `queue` holds the blocks `read_for` has still to read.
- `keys` holds the entries of the leaf being visited.
- `run` is the builder of the current visitor.
- `out` is the sequence of visitor calls.
- Each action is one statement or one branch, as `map` in PROJECT.json records:
  - `EmitLeaves` is either call site of `emit_leaves`, and it resets the builder.
  - `ReadLeaf`, `LeafRejected` and `ReadFails` are the three outcomes of reading and unpacking the next block.
  - `VisitKey` is one key of `visit`.
  - `EndWalk` is `end_walk` followed by the return of `emit_leaves`, after which `emit_entries` clears `leaves`.
- The metadata model is an input chosen from `Layouts`, restricted by `WellFormed`. That is what `build_metadata` and `optimise_metadata` produce (spec 4.3, 4.5), and neither is under `src/`:
  - definitions hold leaves only;
  - refs name existing definitions;
  - every definition is referenced at least twice;
  - every leaf belongs to one list;
  - keys ascend within each list, with refs expanded.

**Migrate.**

- `ppc` is the producer's position in `copy_regions`: `open`, `start`, `stream` (the `while let`), `push` (the `for b in begin..end`), `send_push` and `send_complete` (a `tx.send` inside `push` or `complete`), `complete`, `join`, and the returns `ok`, `err`, `panic`.
- `cpc` is the copier thread's position: `recv`, `copy`, and its returns `done` (channel closed) and `failed`.
- `stream` holds the chunks left, `ops` the blocks of the current Copy chunk still to push, `batch` the batcher's vector, `chan` the channel's buffer (capacity 1), `cur` the batch being copied, and `copied` the sequence of blocks written to the destination.
- `txAlive` and `rxAlive` say whether the sender (owned by the batcher) and the receiver (owned by the copier) still exist. Dropping the batcher on any exit of the producer closes the channel, and the copier's exit drops the receiver.
- `Send` blocks while the channel is full. `SendFails` is `send` returning Err once the receiver is gone.
- CopyOpBatcher and ThreadedCopier are not under `src/`. They are modelled from spec 4.9 and 5, and marked `spec_modelled` in the map: the batcher sends a batch of `nr_ops` ops (every op when `nr_ops` is 0) and sends a non-empty remainder on `complete`; the copier receives batches until the channel closes and may fail after writing a prefix of a batch.

**AllocatedBlocks.**

- `index` is the index's list of bitmap locations, and `disk` the bitmap blocks; both are inputs.
- `infos` is the vector of IndexInfo after the sort, `pos` the loop position, and `bits` the RoaringBitmap.
- `sort_by_key` is `SortPerms`: the permutations of the positions that order the entries by location. Because an index never names one block twice, exactly one such permutation exists, so the step is deterministic, as in the code. The model states the sort this way, not with the TLC module's `SortSeq`, because `SortSeq` is opaque to the prover. TLC reaches the same 3510 states with either form.
- `AsU32` is the `as u32` cast, kept at a width `Width`.

**CliChecks.**

- Each function is an operator over its inputs, and one action calls it. `call` holds the function and its inputs, and `result` what it returned.
- A Rust `Result` is a set: `{}` for Err and `{v}` for Ok(v).
- A region argument is a sequence of characters. `SplitDots` is `str::split("..")`, and `ParseU64` is `str::parse::<u64>` (an optional `+`, then digits).
- `SplitDots` and the digit value `DecVal` are recursive functions (`f[s \in Seq(Chars)] == ...`), not RECURSIVE operators, so that the module can be used in proofs. TLC gives the same 45348 states with either form.
- A reply line is a sequence of one-character strings (`CliChecksAssumption`), as `read_line` gives one. `TrimEnd` removes trailing blanks. The code's `trim_end` also removes tabs and newlines, which the replies' alphabet leaves out.
- A file's first 16 bytes are abstracted to the token they start with. `"short"` is a file too short for `read_exact`.

### Fairness

`Migrate`'s Spec has `WF_vars(Producer) /\ WF_vars(Copier)`. Both are OS threads that run whenever they are not blocked: in `send` on a full channel, in `recv` on an empty one, or in `join`. No fairness is assumed for `StreamFails` or `CopyFails`, which are failures that may never happen.

## 3. Runs

| Run | Config | Checks | Result |
|---|---|---|---|
| `rb_coalescer` | `MCRunBuilder.cfg` | TypeOK, RunsMaximal, RunsOrdered, and RunsPreserveEntries as a PROPERTY (refinement) | pass, 13122 states |
| `dump_lossless` | `MCDump.cfg` | TypeOK, DumpLossless | pass, about 2700 states from 171 initial states |
| `dump_half_open` | `MCDumpHalfOpen.cfg` | NoHalfOpenDevice | violation, as expected (see Findings) |
| `migrate_copy` | `MCMigrate.cfg` | TypeOK, CopiedInOrder, OkMeansCopied, OkMeansDrained, and Terminates as a PROPERTY | pass, 1448 states |
| `migrate_detached` | `MCMigrateDetached.cfg` | NoCopyAfterReturn (action property) | violation, as expected (see Findings) |
| `allocated_exact` | `MCAllocatedBlocks.cfg` | AllocatedExact | pass, 3510 states |
| `cli_checks` | `MCCliChecks.cfg` | RangeParsed, OverwriteConfirmed | pass, 45348 states |
| `cli_exit_code` | `MCCliExitCode.cfg` | ExitCodeAsSpecified | violation, as expected (see Findings) |

### Bounds

**MCRunBuilder.**

- Keys and data are 0..3 and times are 0..1.
- Up to 4 entries are fed.
- This covers every case of `next`: the first entry; an extension; and a break on thin, on data or on time. It also covers runs of length 1 to 4, and `complete` with and without an open run.

**MCDump.**

- There are three leaf blocks. Each holds one of:
  - a two-entry run;
  - an entry that continues it;
  - one that breaks it in the data space;
  - one that continues the data space with a new time;
  - a bad node.
- There are four layouts:
  - plain leaves;
  - a one-leaf definition shared by two devices, with leaves before and after the refs;
  - a two-leaf definition;
  - an empty device, a one-leaf device and a two-leaf device.
- I/O errors are enabled.
- Together these reach every action:
  - a flush before a ref and at list end;
  - runs that would merge across a ref if the builder were shared;
  - failures at every read position.

**MCMigrate.**

- The block size is 2 and the source length 8.
- There are four streams:
  - Copy, Skip, Copy;
  - Skip, then a six-block-wide Copy;
  - Copy, then Discard;
  - empty.
- Buffer sizes are 1 and 4, so `nr_ops` is 0 (a send per op) and 2 (full batches and a partial last batch).
- Destination lengths are 6 and 8, so a length mismatch is refused; a created file is set to 8.
- Stream errors and copy errors are both enabled.
- This covers every action: the producer blocked in `send` while the copier fails, and an early return with a batch in the channel.

**MCAllocatedBlocks.**

- Each bitmap has 4 entries, the width is 4 bits (16 block numbers), and an index has up to 3 bitmaps at 3 possible locations, in any order.
- The three bitmap contents are: empty; two entries set; and two entries set, one of them an overflow count of 3.
- The largest block number is 2 * 4 + 3 = 11 < 16. This is the scaled form of the real bound 255 * 16320 < 2^32: an index never reaches the truncation.
- I/O errors are enabled.

**MCCliChecks.**

- Region arguments cover every string of up to six characters over `0 1 . + -`. That includes `1..0`, `1...1`, `1..1..`, `+0..1` and `-1..1`.
- Replies cover every string of up to three characters over `y Y e s n` and a blank, plus a failed prompt.
- The sizes 0, 4095, 4096, 40959 and 40960 sit on both sides of each bound.

Deadlock checking is off in every config, because the modelled procedures terminate:

- `dump_metadata` returns Ok (`done`) or Err (`error`), and the builder is dropped after `complete`.
- `copy_regions` returns; that it does so is checked by Terminates.
- `allocated_blocks` returns.
- Each CLI function returns its result.

### Mutants

Each property has a mutant of a mapped definition that TLC shows violates it.

| Property | Mutation |
|---|---|
| TypeOK (RunBuilder) | a new run of length 0 |
| RunsMaximal | an off-by-one in the extension test |
| RunsOrdered | `next` returning the new run |
| RunsPreserveEntries | the extension test ignoring the time |
| TypeOK (Dump) | `emit_entries`' cursor not reset for a new device |
| DumpLossless | a ref emitted before the pending leaves are flushed |
| TypeOK (Migrate) | `send` not waiting for room in the channel |
| CopiedInOrder | `send` leaving the sent ops in the batch |
| OkMeansCopied | `complete` dropping the last partial batch |
| Terminates | `complete` keeping the sender alive |
| OkMeansDrained | `join` not waiting for the copier thread |
| AllocatedExact | the base taken from the sorted position instead of the index key |
| RangeParsed | `from_str` without the third-piece check |
| OverwriteConfirmed | any reply starting with y taken as yes |

## 4. Findings

**A half-open device record on error.**

- In `dump_metadata` (`dump.rs:371-373`), `out.device_b` is written, then `emit_entries(...)?` returns early on a read, checksum or not-a-leaf failure, so `device_e` is never written.
- The writer is a BufWriter that flushes on drop. The output therefore holds a `<device>` with some of its mappings and no closing record.
- The spec's error-handling section says no half-open device record is flushed.
- TLC finds this in `dump_half_open`.

**The copier thread outlives copy_regions.**

- When `stream.next_chunk()?` fails (`base.rs:168`), or a Discard chunk reaches `todo!()` (`base.rs:182`), `copy_regions` returns or unwinds without `handle.join()`. The JoinHandle is dropped, which detaches the thread.
- A batch already in the channel is still received and written to the destination after `copy_regions` has returned.
- Spec 5 says handles are scoped to one invocation and released on all exit paths.
- TLC finds this in `migrate_detached`.

**A broken pipe exits with 64.**

- `to_exit_code` (`utils.rs:163-186`) suppresses the message for a broken pipe but returns `exitcode::USAGE` for every error.
- Spec 6 says a broken-pipe write failure maps to exit 0 with no stderr output. Spec 7 says only that it is silent.
- TLC finds this in `cli_exit_code`.

## 5. Proofs

**RunBuilder.** `RunBuilderProofs` proves these results for all constants satisfying `RunBuilderAssumption`: naturals for the bounds, and `NoRun` not a run.

- `TypeCorrect`: `Spec => []TypeOK`.
- `RunsCorrect`: `Spec => [](RunsOrdered /\ RunsMaximal)`.
- `MaximalRuns`: `Spec => []RunsMaximal`, as a corollary.

The argument is the inductive invariant `RunBuilderInv`. RunsOrdered and RunsMaximal alone are not inductive: a step needs to know where the open run ends, relative to the last key fed. So `RunBuilderInv` adds that:

- the open run ends at the last key fed (`run.thin_begin + run.len = last + 1`);
- the last returned run ends no later;
- nothing is returned before the first entry;
- a run is open whenever entries have been fed and the builder is live.

`InitInv` and `NextInv` show the invariant holds initially and is preserved by each action:

- **Extension.** Only the length of the last run in `RunsSoFar` changes. Lemma `GrowLastKeepsPairs` shows the neighbour relations are kept.
- **Replacement.** The closed run moves into `emitted` and the new one is appended. Lemma `AppendKeepsPairs` needs two facts:
  - the new run starts after the closed one ends, because the keys ascend;
  - it is not adjacent to it, because that is exactly the failed extension test.
- **Complete.** `RunsSoFar` is unchanged.

`InvariantHolds` (`Spec => []RunBuilderInv`) collects this, and the three theorems follow from it by PTL. The inductive invariant is a step of the proof, not a property of its own: the `rb_coalescer` run checks the properties it implies.

**Migrate.** `MigrateProofs` proves `TypeCorrect` and `Drained` (`Spec => []OkMeansDrained`), through the intermediate theorem `InvariantHolds` (`Spec => []MigrateInv`). This holds for every block size, buffer size and chunk stream allowed by `MigrateAssumption`.

TypeOK alone is not inductive. A `Send` appends to the channel, so type correctness of `chan` needs to know the channel holds at most one batch. `OkMeansDrained` needs to know what each position of the producer has already emptied. `MigrateInv` adds these facts:

- the batcher holds fewer than `nr_ops` ops except while sending;
- nothing is buffered before the copier is spawned;
- after the stream ends, no op or chunk is left;
- the copier ends only on an empty, closed channel and never receives again.

`NextInv` has one case per action. `MigrateInv` is split into five groups (`InvParts`), so each case proves only the groups its action touches. The SMT backend fails on a goal that holds the whole invariant at once.

**AllocatedBlocks.** `AllocatedBlocksProofs` proves `AllocatedCorrect` (`Spec => []AllocatedExact`) for every bitmap size, index and disk allowed by `AllocatedBlocksAssumption`, through the intermediate theorem `InvariantHolds` (`Spec => []AllocInv`).

The assumption `MaxBitmaps * EntriesPerBitmap <= 2^Width` is what the code relies on. The metadata space map has at most 255 index entries of 16320 bits each, which is below 2^32. Lemma `NoTruncation` shows from it that the `as u32` cast never truncates a block number.

The inductive invariant `AllocInv` says three things:

- `infos` is a permutation of the index;
- `pos` is within the vector;
- `bits` is the union of the blocks of the bitmaps before `pos`.

At `done` that union covers every bitmap, and `InvExact` turns it into AllocatedExact.

**Dump.** `DumpProofs` proves `TypeCorrect` (`Spec => []TypeOK`) for every metadata layout, every leaf contents and every builder bound allowed by `DumpAssumption`, through the intermediate theorem `InvariantHolds` (`Spec => []DumpInv`).

`DumpAssumption` types the inputs. `BadNode` is the one leaf choice that is not a sequence of entries, and every layout is a record of lists of leaves and refs. It also restates the bounds of `RunBuilderAssumption`, because an instantiated module's assumption cannot be cited.

`TypeOK` is not inductive:

- `ReadLeaf` needs the block it reads to be in `Locs`;
- `PushLeaf` and `RefShared` need the cursor `sect` to be inside `1..NSect` at `entries`;
- `EndWalk` needs the builder's `run` to be a run.

`DumpInv` adds these facts and `LeavesFlushed`: outside a `read_for` walk no block is queued, no key is left and no run is open, because `emit_leaves` reads its whole queue and `end_walk` flushes the open run. Lemmas `CurType`, `NextRunType` and `CompleteType` give the types of what the RunBuilder operators return. `SeqLens` and `IntervalShift` do the arithmetic on list lengths as separate steps, which the SMT backend does not find by itself.

**CliChecks.** `CliChecksProofs` proves `OverwriteOnlyOnYes` (`Spec => []OverwriteConfirmed`) for every reply line allowed by `CliChecksAssumption`, of any length and over any characters.

The property is about the result of one call, and the call never changes (`CallType`). So it is inductive together with `call \in Calls`, and one step lemma (`OverwriteStep`) suffices.

The work is in `YesIff`: `IsYes` (`trim_end`, then `to_lowercase`, then comparison with "y" and "yes") agrees with `MeansYes` (a yes word in any case, followed by blanks) on every line. The argument:

- `TrimEndParts`: the cut position `m` of `trim_end` exists. It is the least element of a non-empty set of naturals (lemma `NatMin`, from the library's `WFMin` and `NatLessThanWellFounded`). Everything after `m` is blank, and the character at `m` is not.
- `PrefixWord`: a line that lowercases to "y" or "yes" has length 1 or 3 (`IntervalEq`, on the domains), and its letters are y, e and s in either case (`LowerFacts`). So it is a yes word (`TupleShapes`).
- `PadSplit`: a line whose characters after `m` are all blank is its first `m` characters followed by blanks.
- `PadTrim`: a padded word that does not end in a blank trims back to the word, and the cut lands at its last letter.
- `YesCore` puts them together. In one direction the trimmed prefix is a yes word (`PrefixWord`), and the line is that word padded (`PadSplit`). In the other direction, a yes word ends in y or s, which is not a blank, so `PadTrim` applies.

These lemmas are stated for an arbitrary blank `b` and an arbitrary alphabet `S` that contains the letters, and then used with `b = " "`. No backend proves that a string literal is in `STRING`. The SMT backend also fails on some obligations that contain the one-space literal. So the literal only appears in Zenon steps.

The facts are split into small lemmas for a practical reason. The SMT backend loses itself on small arithmetic goals, such as `1..m = 1..3 => m = 3`, when a sequence hypothesis is in the context. Each such goal is therefore proved once, in a lemma with a clean context, and applied with Zenon. For the same reason, `ActionFacts` records each action's guard, and the fact that its `Return` keeps the call. The step lemmas then never expand the result expressions of the other functions.

### What TLC checks only

TLAPS cannot reach these, so they are left to TLC:

- **The refinement `RunsPreserveEntries`.** Its mapping uses `FlattenSeq`. Proving what a fold computes for every input needs induction over data, and the installed provers cannot do that.
- **Dump's `DumpLossless`.** It compares the output with the entries of a layout flattened through `FlattenSeq`, so it needs induction over data too.
- **Migrate's `CopiedInOrder` and `OkMeansCopied`.** They are stated with `FlattenSeq`, for the same reason.
- **Migrate's `Terminates`.** It is liveness under the weak fairness of the two threads, and TLAPS does not handle liveness or ENABLED here.
- **CliChecks' `RangeParsed`.** It depends on what the recursive functions `SplitDots` and `DecVal` compute for every argument. Unfolding a recursive function needs the library's well-founded definition theorem, which takes an operator parameter, so this too is induction over data.

## 6. Not modelled

- **Writer errors** (`out.*()?` failing). Each is another early return at a point where the model already allows `ReadFails` or `LeafRejected`.
- **`to_superblock_ir` and the superblock and metadata construction.** These are outside `src/`, or pure I/O.
- **`read_for`'s chunk size.** Only the order of the blocks and the point of failure matter to the output.
- **Formatting of ids and superblock fields.** These are model values, because no property depends on the text.
- **open_source.** It scans device-mapper tables and opens files: pure I/O.
- **ThinStream, CopyOpBatcher, ThreadedCopier.** These are not under `src/`. The batcher and the copier are modelled from the spec. The stream is an input of block-aligned chunks.
- **Progress reporting, `mk_report`, `check_input_file`.** These choose a reporter or the wording of an error.
- **The XML and human-readable writers, the I/O engine, checksums, the B-tree walker, restore, check and repair.** They are named by the spec but are not under `src/`.
