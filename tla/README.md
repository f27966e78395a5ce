# Verification of the buffered batch-parallel packed memory array

A TLA+ development for this repository. Its subject are the two packed memory arrays
(PMAs) under `dataStructures/`, arrays of blocks into which sorted batches are inserted by
a team of OpenMP threads: the BBPMA, `BatchedSparseArray`, and the GBPMA,
`OverallocatedBatchedSparseArray`. It also covers the search tree they are compared with
(`parallelBST/`), with its thread pool, and the thread coordination of the benchmarks. The
modules are model-checked with TLC; some of the results are proved with TLAPS for all
parameters.

## The system

| Part | Source | Role |
|---|---|---|
| `BatchedSparseArray`, steps A | `batchedSparseArray.hpp` 156-273, 583-1209 | distributes a batch over the threads, which insert it into blocks; blocks that do not fit go to the buffer array |
| `BatchedSparseArray`, steps B | `batchedSparseArray.hpp` 275-510, 1211-1472 | merges the buffer blocks into the pma by rebalancing ranges of it, through the swap array |
| `BinaryRebalancingManager` | `binaryRebalancingManager.hpp` | tree of block counts over the pma; decides which ranges are rebalanced |
| `ConcurrentBucketMap` | `concurrentBucketMap.hpp` | collects the tree nodes to recount, from all threads |
| queries, iterator | `batchedSparseArray.hpp` 514-573, `iterators.hpp` | `contains`, `find`, `lowerBound`, `rangeQuery` |
| `PmaEntryType` | `block.hpp`, `overallocatedBlock.hpp` | a sorted block of elements in an array of fixed length |
| intervals, nodes, tasks | `helpers.hpp` | index arithmetic |
| density thresholds | `densityManager.hpp` | when a range is too full |
| `OverallocatedBatchedSparseArray` | `overallocatedBatchedSparseArray.hpp` | the array without density bounds: inserts in place if there is room, and through the swap array into a longer array if not |
| `HierarchicalBlockSizeManager` | `blockSizeManager.hpp` | block sizes and their sums, for counting elements |
| bulk insertion | `parallelBST/bulk_operations_data_structure.h`, `split_data_structure.h`, `join_data_structure.h` | threads cut a B+ tree into parts, insert their shares of a batch, and join the parts in pairs |
| B+ tree | `parallelBST/btree.h` | the tree and its operations |
| thread pool | `parallelBST/thread_pool.h` | a queue with two mutexes and workers |
| `Context` | `benchmark/thread_coordination.hpp`, `barrier.hpp` | threads that divide a range by a shared index |
| competitors, benchmarks, helpers | `CPMA/`, `benchmark/`, `helpers/`, `lib/` | measurement, vendored libraries |

**State.** Of the BBPMA: the arrays `pma`, `swapPma`, `bufferArray`, `bufferPointers` with
`size` and their capacities; the tree (`aggregates` with a count and a `rebalanced` flag
per node); the recounting maps; `rebalancingNodes` and `rebalancingTasks`; a `TaskInfo` per
thread. Of the GBPMA: `pma` and `swapPma` with their capacities, the aggregates of block
sizes, and the tasks. Of the tree: the nodes, the counters and flags by which the threads
wait for each other, and a `TMetaTree` per thread.

**How the parts of the BBPMA interact.** `insertBatch` is the only operation that changes
the array (`removeBatch` does nothing). It is a sequence of parallel regions, each closed
by a barrier:

1. A-1 to A-5: find the block and the first batch element of each thread, fix the tasks
   that start at the same block, reserve ranges of the buffer array.
2. A-6: every thread inserts its part of the batch. A block that overflows is split into
   buffer blocks; the pointers of its entry name them and its segment goes into the
   recounting map. Threads that share a block merge parts of it with parts of the batch
   ("inverse merge").
3. A-7: the shared blocks are removed and their buffer blocks moved together.
4. B-1, B-2: `update` recounts the tree level by level from the recounting map; a node
   that should be rebalanced is, if it is not too full, and hands the request to its
   parent if it is.
5. B-3: nodes below another rebalanced node are dropped; the others become tasks.
6. B-4 to B-10: the blocks of all tasks are divided evenly among the threads, which move
   them to the swap array, clear the buffer pointers and write the blocks back evenly.

**The GBPMA.** The batch is distributed in the same way. If every task has room for all
the blocks it may need, the threads insert in place and shift blocks to the next free
entry on either side. If not, they write all blocks to parts of the swap array that were
reserved beforehand; what is too small for a block of its own at the end of a task is
carried to the next one; and the blocks are spread over a longer array.

**The tree.** The workers spin on `StartFlag`. For a batch every thread copies and cuts
its part out of the tree, waits until all have cut, frees the nodes it copied, inserts its
share and joins its part with that of its neighbour at distance 1, 2, 4, ... once the
neighbour's `Done` is set. The caller waits for the counter of the workers.

**What makes it hard.** Threads that contend for a bucket or share a block; tasks cut in
the middle of an entry's buffer blocks; counts and flags that survive from batch to batch;
arrays that grow at different moments; room that is computed before the blocks are
written; rounding in every division of work; searches over arrays with gaps; slots above
the size of a block that keep old keys; threads that cut one tree without locks; spinning
on counters that the next batch uses again. The list of hazards, with the line and the
properties for each, is `hazards` in `PROJECT.json`.

## Modules

```
FlagMap                 what the concurrent map promises
  BucketMap             ConcurrentBucketMap                 -> MCBucketMap, BucketMapProofs
Geometry                intervals, tree, densities, indices
  PmaState              the arrays of the BBPMA
    RebalancingManager  update, collection of the tasks
      Rebalance         execution of the tasks
        RebalancingPhase  batch after batch                 -> MCRebalancing, RebalancingProofs
OrderedSet              what both arrays promise
Search                  searches over heads and batches     -> MCSearch, SearchProofs
  BlockArray            blocks, splitting insertion, queries
    BatchInsertion      BBPMA, steps A                      -> MCInsertion
    OverallocatedInsertion  GBPMA, with BlockSizeManager    -> MCOverallocated
Block                   a block with all its slots
  BlockMerge            merging a part of a batch into it   -> BlockProofs
    BlockChain          blocks as the arrays use them       -> MCBlockChain, BlockChainProofs
BulkInserter            control of the bulk insertion       -> BulkInserterProofs
BTree                   the B+ tree
  ParallelSplit         cutting a part out of it
    ParallelBST         the whole, with BulkInserter        -> MCParallelBST
Fifo                    what the queue of the pool promises
  ThreadPool            queue, workers, Resize, destructor  -> MCThreadPool, ThreadPoolProofs
ThreadCoordination      Context of the benchmarks           -> ThreadCoordinationProofs
```

A module further to the right extends the one above it. `BucketMap`, `ThreadPool`,
`BatchInsertion` and `OverallocatedInsertion` instantiate `FlagMap`, `Fifo` and
`OrderedSet` as the specifications they implement. Definitions carry the names of the
code; `map` in `PROJECT.json` gives the lines of each. A definition `f_X` in front of `f`
is `f` with a mistake a programmer could make; it is used by no specification and exists
to show that a property notices the mistake.

Where one instance cannot show everything, the constant `Settings` names several, each a
record of parameters and bounds; the variable `setting` is chosen at the start and never
changes. One run then checks all of them.

**BucketMap.** `pc` is the position of each thread in `insert`: `Call`, `Lock`,
`MapInsert`, `RaiseFlag`, `Unlock` are its steps. `executeInParallel` deals buckets
dynamically (`DealBucket`), visits the entries in any order (`RunOnEntry`) and stays on
the master thread when there are few entries (`Team`); `clear` starts over.
`requested` and `handled` are history variables.

**Search, BlockArray.** The searches as functions of an array of heads (0 for an empty
entry), with the code's interval narrowing, cut-offs and candidates. A loop of a search is
a recursive function from the number of rounds to the state after them (`Halvings`,
`Gallops`, `GallopsDown`), with a body that changes nothing once the loop has ended; it is
applied to a number of rounds that is enough. In `BlockArray` a block is the set of its
keys; `splitLoop` is the insertion of many elements into one block.

**BatchInsertion.** `insertBatch` is A-1 to A-5: the
threads of A-1 write only their own `TaskInfo`, so they are one step. An action of
`startInsertionTask` is one iteration of the loop of `insertBatchRange` (one block), the
filling of an empty array, or one inverse merge; the threads interleave. `postprocess` is
the barrier and A-7. `rebalance` is all of steps B in an array of one segment.

**RebalancingManager, Rebalance, RebalancingPhase.** A block is its rank in the key order,
so that lost, copied and misplaced blocks are visible. `insertBlocks` stands for steps A:
some blocks are replaced by buffer blocks, which is what splits and inverse merges leave
(`BuffersHandedOver`, checked on `BatchInsertion`, is the same contract from the other
side). `updateNode` is one entry of the recounting map, in any order within a level;
insertions into the maps are atomic, which `AtomicMap` justifies. `collectTask` is one node
of the loop of B-3, which the master runs alone. `rebalanceBlocks` moves
one pma entry with its buffer blocks, `clearBufferBlockPointers` handles one piece,
`rewriteBlocks` writes one block; `endRebalance`, `resizeMainPma` and `endRewrite` are the
barriers with the sequential code behind them.

**OverallocatedInsertion, BlockSizeManager.** `insertBatch` distributes the batch and
decides between in place and out of place; `threadStep` is one block of a task in place
(with its shift), one block written to the swap array, one inverse merge, or one task of
the rewriting; `barrier` is the sequential code between the regions: removal of shared
blocks, carries, growth, aggregates.

**Block, BlockMerge, BlockChain.** A block is a record of slots, size and head; slots that
fall out of use keep their keys, as in a build with `NDEBUG`. `BlockChain` makes the calls
that both arrays make, on a chain of blocks: a new block, a merge that fits
(`insertIntoBlockWithoutSplit`), the insertion element by element with splits
(`insertIntoBlockWithSplit`, `insertNext`, `writeBlocks`), and the repair of a small block
by its neighbour (`mergeNeighbours`). A part of a batch is an increasing sequence of keys
(`Batches`); the loops of `merge` and `mergeFaster` are functions of the number of rounds,
as in `Search`. The module justifies the sets of `BlockArray`.

**BulkInserter, BTree, ParallelSplit, ParallelBST.** `BulkInserter` has the control only:
the flags, counters and positions of the threads. `BTree` and `ParallelSplit` are the
operators on trees; a node of the tree being cut is named by its path from the root, so
that freed and moved nodes can be told apart. `ParallelBST` adds to each control step what
it does to the tree. Cutting, inserting and one join are each one step of a thread;
`NodesOnce` shows that what a cut reads is not changed meanwhile.

**ThreadPool.** A task's thread takes the steps of `PushImpl` under `TailMutex`, a worker
those of `PopHead` under `HeadMutex`, with the comparison that locks `TailMutex` for a
moment. `Resize` and the destructor set `Done` and join the workers.

**ThreadCoordination.** Threads make the same sequence of blockwise calls; the function
that completes a barrier is called by one thread after the barrier has opened, while the
others go on. Resetting the shared index there is safe because the next call starts with
a barrier that also waits for this thread.

Only the compiled branches are modelled (`USE_BUCKET_MAP`, `UseInverseMerge`,
`SplitRebalancingTasks`, `UsePrecalculatedInsertionLengths`).

## Runs

| Run | Question | States |
|---|---|---|
| `bucket_map` | Is a bucket exclusive, are all flags combined, is every entry visited once, is `insert` atomic, and does every call end? | 77,252 |
| `searches` | Do the searches find what a scan finds? | 6,498 |
| `insertion` | Is the array an ordered set under batches of two or three threads; are blocks, buffers and queries right, also when threads share a block or run over several? | 226,574 |
| `rebalancing` | Does the parallel rebalance keep every block, the order, the tree and the flags, through growth, and does `insertBatch` return? | 265,171 |
| `overallocated` | Is the GBPMA an ordered set, in place and out of place, for one, two and four threads; are its blocks, aggregates, room and queries right? | 460,008 |
| `block_methods` | Do the methods of a block keep its elements although they read slots above its size? | 212,872 |
| `parallel_bst` | Does the tree hold the batch and stay valid, is every node of the old tree kept or freed once, do range queries follow the links, do threads go on only when they may, and do the calls return? | 207,366 |
| `thread_pool` | Is every task in one place, is the list a queue, are submitted tasks run, do `Resize` and the destructor return? | 18,015 |
| `insertion_room`, `rebalancing_gap`, `rebalancing_last_task`, `rebalancing_growth` | See *Disagreements*. | violated |

Some properties are conjunctions of definitions in the same module, which say in detail
what they mean: `ArrayValid` (types, order and sizes of the blocks; in the GBPMA also that
the swap array is drained), `BuffersUsable`, `ArrayRestored`, `UpdateSound`, `TasksSound`,
`RoomSuffices`, `SearchSound`, `TreeSound`, `NodesOnce`, `PoolConsistent`, `BlockFound`.

**Bounds.**
- Bucket map: two threads, three indices of which two share a bucket, two insertions per
  thread and region. Two threads suffice for contention; the proofs lift the bound.
- Searches: all arrays of up to eight entries over six keys, all batches over the same
  keys. The cut-off to the linear search is 1 instead of the code's constant, so that the
  binary search runs on arrays this small. The proofs hold for every cut-off and length.
- Insertion: in the settings `small` and `groups`, blocks of four keys, the smallest with
  `MinBlockSize` 2, and any two batches over seven keys for two and three threads; with
  three, two threads share a block. In `loops`, blocks of six let a group have "too few
  elements" (one or two), and the array may first be filled with three full blocks, which
  takes a third batch to be of use. Every batch has at least one element per thread; in
  `loops` the first one may have fewer than `MinBlockSize` (see *Disagreements*).
  `SegmentWidth` bounds the number of blocks.
- Rebalancing: three threads, segments of two entries and a tree of height 1 at the start.
  Seven blocks let the tree grow to height 3 and the pma from 2 to 16 entries; a batch
  replaces up to two blocks by up to five each, so that several tasks, tasks split between
  threads and empty shares occur. With one thread `rebalancing_last_task` and
  `rebalancing_growth` need eight and nine blocks.
- Overallocated: `small` has two threads that insert in place when they can; `groups` four
  threads, out of place only, which share blocks; `one` a single thread without
  overallocation, so that every batch needs a new array; `shift` starts with six blocks and
  fills the entries behind some of them, so that later batches shift blocks to both sides.
  Batches have at least `MinBlockSize` elements (see *Disagreements*).
- Blocks: four slots, two blocks, seven keys. The code's blocks have 32 slots; the proofs
  lift these bounds.
- Tree: four threads, so that there are two rounds of joins. `narrow` has nodes of 2 and 3
  slots (inner, leaf), trees of up to three levels and two batches in a row; `wide` has 4
  and 4, more trees and batches, and one batch; `links` has nodes as in `wide` and two
  batches, which leave half-filled leaves at the end and merge them, with `fixLinkedList`
  before, between or after them. The code's nodes have 7 and 8. Batches are shorter than
  the number of threads, have duplicates, and lie before and behind the tree.
- Pool: two tasks, two workers and a third for `Resize`, which is called twice.

`CHECK_DEADLOCK FALSE` is set where the bounds on blocks, batches or array length end a
behaviour, or where the model stops following the array (below). In the other modules
nothing but their last state may stop: deadlock is checked there.

**Fairness.** `BucketMap!FairSpec`: a thread inside a region keeps running and barriers
that everybody has reached open; no thread has to call `insert`. A mutex is held for a
bounded time by a running thread, and the number of calls in a region is finite, so weak
fairness is enough. `RebalancingPhase!FairSpec`: some step of a running batch is taken as
long as there is one; no batch has to be started. (Of the step from the distribution to
the execution only the change of `phase` is named there: it has no other.)
`BulkInserter!Fairness`: weak fairness of the caller inside a call and of every worker,
each being a thread that spins. OpenMP and `std::thread` give every thread a system
thread, which justifies these. `ThreadPool!FairSpec` has weak fairness too: of a submitting
thread that holds `TailMutex`, of every worker, and of the owner that waits for the workers.
Workers poll the queue in a loop, and one that wants a mutex may be passed over for ever;
but any worker may take a task, and after `Done` is set each one locks at most once more.
Nothing is assumed about the order of threads.

## Disagreements between code and comments, assertions or tests

- `insertion_room`: a task may write more buffer blocks than were reserved for it
  (`batchedSparseArray.hpp:1046`), against the assertion in `writeToBufferArray`. A-2
  removes the widths of the tasks that share a block; when these have too little work to
  share, the last of them gets all their elements but not their widths.
- `rebalancing_gap`: a root above its density threshold that still has a free entry for
  every block is rebalanced neither by itself nor by the super root
  (`binaryRebalancingManager.hpp:172`). `insertBatch` returns early with blocks in the buffer.
- `rebalancing_last_task`: the new `size` is the end of the last task in the list, which
  need not be the rightmost (`batchedSparseArray.hpp:355`).
- `rebalancing_growth`: `resizeMainPma` drops the blocks outside the tasks when the swap
  array has grown for a local task (`batchedSparseArray.hpp:1519`).

Five more have no run:

- The comment at `helpers.hpp:124` calls the buffer index of `ExtendedPmaIndex`
  absolute; `rebalanceBlocks` and `findBlockInRebalancingTask` use it relative to the
  entry's first buffer block. The model follows the code.
- `overallocatedBatchedSparseArray.hpp:1025` asserts "Carry was written again.". When a
  first batch of fewer than `MinBlockSize` elements is inserted into the empty array by two
  or more threads, all of it stays in the carry and no task takes it. The batches of
  `overallocated` are long enough for this not to happen.
- `remove` in `block.hpp:238` leaves the last key in its slot, above the new size, where a
  later `insertWithIndex` of that key takes it for an element. Nothing calls `remove`;
  `SearchSound` holds for the methods that are called.
- A first batch of fewer than `MinBlockSize` elements makes a single block of that size. The
  comment at `batchedSparseArray.hpp:32` allows it ("unless there is only one block"); the
  assertion "Block has invalid size." in `writeToBufferArray` (line 1564) and `isValid`
  (lines 1735, 1736 and 1765) do not. The setting `loops` of `insertion` gets there, with
  two elements and a `MinBlockSize` of 3. `BlockSizesValid` demands the minimum as soon as
  the array has that many elements: the next batch mends the block.
- `fixLinkedList` "Constructs the pointers of the linked list in the lowest level. Needed to
  perform any range queries later on." (`parallelBstWrapper.h:83`), but is sure to
  be enough only if it was not called between earlier batches: the one caller,
  `batchRangeQueryBenchmark.cpp:162`, calls it once, after all of them. It never resets the link of the last leaf (`btree.h:5589`). After a call between two batches
  `join_leaves` (`btree.h:2941`) may merge the last leaf into a linked one, which then is
  the last: a query to the end of the tree visits its keys and steps into a leaf that was
  freed (`btree.h:831`). The setting `links` of `parallel_bst` gets there, with leaves of
  four slots: load `2, 4 .. 16`, insert `9, 9, 9`, fix, insert `7`, fix.

`rebalancing_gap`, `rebalancing_last_task` and `rebalancing_growth` need a tree that is
full at least once. The code starts with a tree over
2^14 segments, the model with one over two; nothing but the size of the array differs.
The other properties are stated so that they hold around these cases: `RangeQueries` lets
a query go on at the end of the tree if `fixLinkedList` was called between two batches, and
demands exact answers otherwise, whatever links `bulk_load` left; `BuffersMerged`
leaves out the gap of the root, and the properties that mention `coveredGrowth` leave out
batches of the last two kinds (and growth of the tree while blocks lie outside the tasks,
whose counts the new tree would lack). After such a batch the model takes no further one.

## Proofs

`BucketMapProofs`, for any set of threads, indices, number of buckets and threshold
(assumptions: indices and threads are naturals, 0 is a thread, there is an index and a
bucket):

- `TypeCorrect`, `BucketsExclusive`, `FlagsAlwaysCombined`, `EveryEntryHandledOnce` and
  `ImplementsFlagMap`.
- `FlagsCombined` says nothing while threads insert, so it is not inductive. `InsertInv`
  adds what holds in between: a thread in a bucket holds its mutex; whatever the map holds
  was requested (`NothingInvented`); and whatever was requested is in the map or some
  thread is still before the step that puts it there (`NothingForgotten`). At the barrier
  there is no such thread. `ExclusiveBucket` follows from the mutex alone.
- `ExecuteInv` says the same of `executeInParallel`: the entries of the dealt buckets are
  those visited and those in the hands of exactly one thread.
- For the refinement, `MapInsert` and `RaiseFlag` each map to an insertion or a stutter:
  the first inserts an absent entry, the second raises the flag of one that was there.

`RebalancingProofs`, for any segment width, thresholds, initial height and capacity, any
number of threads and any bounds on blocks and batches (`GeometryAssumption`,
`PmaStateAssumption`, `ManagerAssumption`, `ThreadsAssumption`, `BoundsAssumption`):

- `TasksSoundHolds`: `TasksSound`, an invariant of `rebalancing`. Outside of `update()` the
  tree is consistent; the tasks of B-3 are disjoint and each has room for its blocks; and
  in B-9 no two pieces of work, of one thread or of two, read the same entry of the swap
  array or write the same entry of the pma.
- None of this is inductive: whether two tasks overlap was decided when `update()` set the
  `rebalanced` flags, whether a piece of B-9 fits when B-5 summed the blocks. `InvHolds`
  proves the invariant `Inv`, which carries these decisions from step to step:
  `ArraysOK`, `TreeOK` and `MapsOK` say which indices and counts there are.
  `ConsistentOK`: an inner node that does not count what its children count is in the
  current `todo` or, if it is on the next level, in the map of that level; when `todo` of
  the root is done, there is none. `NodesOK`: a node listed for rebalancing is flagged,
  listed once and holds no more blocks than entries (its threshold is at most its width;
  the super root gets the room it needs). `CollectOK`: the tasks collected so far are
  listed nodes, and no node above them is flagged: two nodes of a binary tree overlap only
  if one is above the other, so the tasks are disjoint (`TasksOK`, with the prefix sums of
  B-5). `EndsOK`: only the task of the super root reaches beyond the tree, it is the last,
  and `resizeMainPma` makes room for it. `WorkOK`: what a thread of B-9 still has to do is
  the rest of its share of tasks.
- `RewritesApart` then follows: pieces of two tasks lie in the ranges of the tasks; pieces
  of one task belong to two threads, whose block ranges are apart, and the index at which
  a block is written grows with its number. TLC has checked `Inv` as an invariant of an
  instance with six blocks.
- `ThreadRangesPartition` (each block of a rebalance belongs to exactly one thread),
  `WriteIndexInRange` and `WriteIndexIncreasing` (spreading blocks over a range that is
  long enough stays inside it and puts no two blocks in one entry) are the arithmetic
  behind it, and rest on three lemmas about Euclidean division.

`BlockProofs`, for blocks of every size (assumption: `MaxSize` is twice `MinSize`, as the
arrays choose them): `InsertExact`, `SplitExact`, `MergeSmallerExact`, `StealExact`,
`StealFromSmallerExact`, `MergeExact` and `MergeFasterExact` say that the methods keep
exactly the keys, in order, whatever the unused slots hold. The invariant of a block is
`WellFormed`; `Tracked` says that every slot, in use or not, holds `NULL_KEY` or a key
stored somewhere in the array. A new key then never looks as if it were there, and a
stored one is sent to the block that holds it. The loop of `merge` keeps that the first
elements of the batch are in the block and that the search position is at the last of
them. The invariant of `mergeFaster` (`Backwards`) says that the written slots above
`writeIndex` are the keys taken from block and batch, in order, that what is left of the
block is below the last one written and what is left of the batch at most equal to it, and
that `writeIndex` has not reached an element of the block that is still to be read; the
gap left by duplicates is counted by the number of writes.

`BlockChainProofs`, for blocks of every size, every finite set of positive keys, any bound
on the number of blocks and any minimum for `mergeFaster` (`SizeAssumption`,
`ChainAssumption`): `ChainTypeOK`, `ChainNothingLost` and `ChainSearchSound`, the
invariants of `block_methods`. None is inductive: `NothingLost` says nothing of the slots
above the sizes, and `SearchSound` nothing of the elements of the batch behind the next
one. `ChainInv` is. Between calls the blocks hold exactly the keys of the set, in order,
and every slot holds `NULL_KEY` or a stored key (`Exactly`). While
`insertIntoBlockWithSplit` runs, the same holds of the blocks before, in and behind the
work, and the rest of the batch lies between its neighbours (`Splitting`). The delicate
part is `lastInsertionIndex`, which the first split does not reset although it may then
point behind the elements of the left half. `Hint` says why this is harmless: all slots up
to a hint other than 0 are below the rest of the batch, and if the hint is behind the
elements that the split has left, the rest of the batch is at or above the head of the
right half, so that `switched` comes first; and a left half that is filled again has moved
the hint along with every element (`HintAfterSplit`), which is why the second split may
send the next element to the new block without a comparison. TLC has checked `ChainInv`
as an invariant of an instance with six keys.

`SearchProofs`, for arrays and batches of every length and every cut-off:
`ContainingBlockIsLast`, `InsertionBlockIsLast` and `FirstElementIsFirst` say that
`findContainingBlock`, `exponentialSearch` and `findFirstBatchElement` return what a scan
would, with empty entries anywhere; the exponential search is covered from the starts that
the tasks use (an entry in use, or one at or before the block that takes the key).
`SearchesAgree` and `SplittersFindTheirElement` are the invariants of `searches` for every
`MaxKey` and `MaxLength`. Each loop has an invariant and a measure: the interval contains
the answer or the candidate is it, and the interval shrinks in every round, so that the
number of rounds is enough.

`ThreadPoolProofs`, for any sets of tasks and workers and any number of calls of `Resize`
(`PoolAssumption`): `PoolIsConsistent`, `TasksInOnePlace` and `ImplementsFifo`. The
inductive invariant `IInv` ties the positions of the threads to the mutexes (`MutexInv`),
says that all nodes from head to tail are linked and full but for one that a worker is
about to leave (`ListInv`), and puts every task in one place (`PlaceInv`). For the
refinement the queue is the data from head to tail, where the first value may already be
with the worker that has taken it and is about to move head (`Waiting`): a task enters the
queue with `moveTail` and leaves it with `moveHead`, and every other step is a stutter.

`BulkInserterProofs`, for any number of threads and batches (assumption: there is a
thread): `NodesAreFreedWhenAllHaveCut` and `CallReturnsWhenAllHaveLeft`, on the control of
the bulk insertion (`ControlSpec`). The counters say how many, the properties who: the
inductive invariant therefore has `Counts` (each counter is the cardinality of the set of
threads it counts), and `Behind` (a worker is at most one batch behind, and has caught up
between batches), without which a late worker could be counted for the next batch.
`Starting` and `Ending` cover constructor and destructor.

`ThreadCoordinationProofs`, for any set of threads, any number of calls, ranges and block
sizes (`CoordinationAssumption`, a hypothesis of each theorem): `NothingIsWorkedOnTwice`,
`NothingIsMissed` and `TimesAreOfTheirCall`. The inductive invariant says that the barriers
keep the threads together but for one that still completes the last call (`Together`),
that the index is 0 once it has (`IndexReset`), that claimed blocks lie apart (`Apart`),
and that what has been worked on is what lies below the index and in nobody's hands
(`Progress`). No benchmark makes these calls, so there is no run for them.

**Induction over data.** The library's induction theorems take a predicate as a parameter
and cannot be applied here. `SearchProofs`, `BlockProofs` and `RebalancingProofs` therefore
begin with the same four statements about sets: a set of naturals has a least element (`LeastNumber`, from the
well-foundedness of `<`), a set that contains 0 and successors contains all naturals
(`InductionOnSet`), and a loop whose body maps states to states has a state after every
number of rounds (`Rounds`, `RoundsExist`). An invariant of a loop is then a set of states.
`Pow2` and `SumOf` of the rebalance are such loops.

Each proof module names the provers and their time limits in
one `USE` line; a leaf that names a prover itself is not given to the others.

Only model-checked: all liveness (out of the prover's reach); both insertions, `BTree`,
`ParallelSplit` and `ParallelBST`, which use recursive operators over trees and sequences;
and the invariants of the rebalance that speak of what the entries hold
(`BlocksConserved`, `ArrayRestored`, `UpdateSound` and the types of the contents), for
which the proof would have to follow every block through the three arrays.

## Abstractions

- Keys are numbers, values are left out; batches are sorted, which `insertBatch`
  asserts, and for the PMAs free of duplicates: `batchSorted` accepts equal neighbours, but
  the interface requires "presorted, duplicate-free batches" (`batchedSparseArray.hpp:1588`).
  0 is `NULL_KEY`. In the tree 0 is the separator before all keys, and the benchmarks draw
  keys from 1 on.
- In `BatchInsertion` the rebalance of the single segment is one step that uses the
  positions a single thread computes. Several threads may place a block in a neighbouring
  entry; the run `searches` covers every spread of empty entries.
- In `RebalancingPhase` the contents of blocks are left out, and blocks created by a batch
  start in a buffer array with room for `MaxSplit` blocks per replaced block. The
  reallocation of the buffer array is left out: it happens while the array is empty, except
  after the early return of `rebalancing_gap`.
- In `OverallocatedInsertion` the aggregates are atomic in the code, so additions to one
  of them by several threads are single steps.
- `TMetaTree::Done` and the counters of the tree are read and written in program order.
  `Done` is `volatile` and not atomic; what that means on weakly ordered hardware is not
  modelled.
- The first batch into the tree is inserted by `insertPrefillBatch`, as the benchmarks do;
  `insertBatch` does not handle an empty tree. `contains` of the wrapper always answers
  false, and its `removeBatch` does nothing; neither changes state.
- Tasks that are still queued when the pool is destroyed are never run; `TasksRun` excepts
  them. The thread that calls `Resize` is the owner of the pool; the benchmarks do not
  call it.
- Densities and the overallocation factor are exact rationals; the code computes with
  doubles.
- Index types are unbounded: arrays are far smaller than their width.
- `BlocksConserved` counts copies between actions; within an action of a thread a block is
  copied and then cleared by that thread only.

## Not modelled

- The iterator's step backwards; the two other density configurations.
- Operations without callers: `recompute` of the manager, `remove` and `removeLast` of a
  block, `overallocationFactorManager.hpp`.
- Of the tree: erasure, single insertion, copies, dumps, spines and the sequential split of
  `btree.h`; `TSequentialSplit`, `TSequentialJoin` and `TParallelJoin` with
  `tree_joiner.h`. The wrapper does not instantiate them.
- The competitor `CPMA/`, the benchmark drivers, input generators, profilers and printing.
- `lib/` and the libraries under `CPMA/`: oneTBB, Catch2, parlaylib and others are projects
  of their own. They are more than nine tenths of the lines in the repository, so the
  share of all lines that `map` covers is small by nature; of the data structures the
  operations that change state are covered but for those named here.

`components` in `PROJECT.json` lists every part with the reason.

## Plan

1. `BatchInsertion` over several segments, composed with `RebalancingManager` and
   `Rebalance` instead of the one-step rebalance.
2. More proofs about `RebalancingPhase`: `FlagsCleared` and `AggregatesExact` of
   `UpdateSound`, and `BlocksConserved` for one region from `TasksSound` and
   `ThreadRangesPartition`.
3. The carry of the GBPMA for batches below `MinBlockSize`, once the code handles them.
