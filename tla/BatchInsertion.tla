--------------------------- MODULE BatchInsertion ---------------------------
(***************************************************************************)
(* The insertion half of BatchedSparseArray's insertBatch (steps A-1 to    *)
(* A-7) and the queries (dataStructures/batchedSparseArray.hpp).  A block  *)
(* is the set of its keys: it stores them sorted and without duplicates.   *)
(* The batch is sorted and free of duplicates.                             *)
(*                                                                         *)
(* The array has a single segment, so that the rebalancing half (modules   *)
(* RebalancingManager and Rebalance) is one step: it spreads all blocks    *)
(* over the segment.                                                       *)
(***************************************************************************)
EXTENDS BlockArray

ASSUME InsertionAssumption ==
    \A s \in DOMAIN Settings : Settings[s].SegmentWidth \in Nat \ {0}

\* The width of the only segment; bound: blocks in the array.
SegmentWidth == Settings[setting].SegmentWidth

VARIABLES
    phase,              \* the step of insertBatch that is executing
    bufferArray,        \* from indices to sets of keys, empty where not in the domain
    bufferPointers,     \* of the pma entries; those not in the domain are empty
    recounted,          \* the entries given to addRecountingNode
    batch,              \* the sorted batch
    tasks,              \* the TaskInfo of every thread, and the sentinel
    progress,           \* per thread, where insertBatchRange is
    batches,            \* batches inserted so far
    before              \* history: the keys before the batch

vars == <<setting, phase, pma, bufferArray, bufferPointers, recounted, batch, tasks,
          progress, batches, before>>

Threads == 0 .. NumThreads - 1
batchSize == Len(batch)
Elements(from, to) == { element(batch, i) : i \in from .. to - 1 }

Range_(l, r) == [left |-> l, right |-> r]
Nothing == [i \in {} |-> {}]
NoTask == [block |-> 0, first |-> 0, type |-> "INSERTION", mergedTasks |-> 0,
           mergedTaskIndex |-> 0, width |-> 0, start |-> 0, written |-> 0]
NoTasks == [t \in 0 .. NumThreads |-> NoTask]
NoProgress == [t \in Threads |-> [active |-> FALSE, batchIndex |-> 0, block |-> 0]]

Init ==
    /\ setting \in DOMAIN Settings
    /\ phase = "idle"
    /\ pma = Nothing
    /\ bufferArray = Nothing
    /\ bufferPointers = Nothing
    /\ recounted = {}
    /\ batch = <<>>
    /\ tasks = NoTasks
    /\ progress = NoProgress
    /\ batches = 0
    /\ before = {}
-----------------------------------------------------------------------------
(* A-1 to A-5: the distribution of the batch.                              *)

\* Mutant: a new element is taken to need one new block at most.
getRequiredWidth_Single(numberOfNewElements) == numberOfNewElements

getRequiredWidth(numberOfNewElements) == 2 * numberOfNewElements

\* A-1, in parallel: every thread looks for the block of its splitter, and for
\* the batch element at which the next thread starts.
findSplitters(b) ==
    LET distance == Len(b) \div NumThreads
        block == [t \in Threads |-> findBlockIndex(heads, element(b, t * distance))]
                 @@ (NumThreads :> pmaSize)
        first == [t \in Threads \ {0} |->
                    findFirstBatchElement(b, t * distance, head(heads, block[t]))]
                 @@ (0 :> 0) @@ (NumThreads :> Len(b))
        start(t) == [NoTask EXCEPT !.block = block[t], !.first = first[t]]
    IN  [t \in Threads |-> [start(t) EXCEPT
            !.width = getRequiredWidth(first[t + 1] - first[t])]]
        @@ (NumThreads :> start(NumThreads))

\* A-2: of the tasks that start at the same block only the last one keeps its
\* width; it counts the others, which become inverse merges.
RECURSIVE fixSharedBlocks(_, _)
\* Mutant: the tasks keep the block that they share.
fixSharedBlocks_Skipped(ts, t) == ts

fixSharedBlocks(ts, t) ==
    IF t = NumThreads THEN ts
    ELSE IF ts[t].block = ts[t - 1].block
    THEN fixSharedBlocks([ts EXCEPT ![t].first = ts[t - 1].first,
                                    ![t].mergedTasks = ts[t - 1].mergedTasks + 1,
                                    ![t - 1].type = "INVERSE_MERGE",
                                    ![t - 1].width = 0], t + 1)
    ELSE fixSharedBlocks(ts, t + 1)

\* A-3 for the last task t of a group that shares a block: the others divide the
\* elements of that block among them and t goes on behind it, unless there are
\* too few elements even for one of them.
distributeGroup(b, ts, t) ==
    LET mergeBlock == ts[t].block
        total == Range_(ts[t].first, ts[t + 1].first)
        firstNormalBlock == findNext(heads, mergeBlock, ts[t + 1].block)
        lastTaskBatchStart ==
            IF empty(heads, firstNormalBlock) THEN total.right
            ELSE Min({lower_bound(b, 0, Len(b), heads[firstNormalBlock]), total.right})
        elements == lastTaskBatchStart - total.left
        merged == ts[t].mergedTasks
        group == t - merged .. t - 1
        idle == [NoTask EXCEPT !.type = "DO_NOTHING", !.first = total.left,
                               !.block = mergeBlock]
        withWork == Min({merged, elements \div MinBlockSize})
        perThread == elements \div withWork
        start(n) == IF n = withWork THEN lastTaskBatchStart
                    ELSE Min({total.left + n * perThread, lastTaskBatchStart})
        worker(n) == [NoTask EXCEPT
            !.type = "INVERSE_MERGE", !.first = start(n), !.block = mergeBlock,
            !.mergedTasks = withWork, !.mergedTaskIndex = n,
            !.width = getRequiredWidth(start(n + 1) - start(n))]
    IN  IF elements < MinBlockSize
        THEN [i \in group |-> idle] @@ (t :> [ts[t] EXCEPT !.mergedTasks = 0]) @@ ts
        ELSE [i \in t - withWork .. t - 1 |-> worker(i - (t - withWork))]
             @@ [i \in group |-> [idle EXCEPT !.mergedTasks = withWork]]
             @@ (t :> [ts[t] EXCEPT !.first = lastTaskBatchStart,
                                    !.block = firstNormalBlock])
             @@ ts

LastOfGroup(ts, t) == ts[t].type = "INSERTION" /\ ts[t].mergedTasks > 0

RECURSIVE distributeWorkInMergedTasks(_, _, _)
distributeWorkInMergedTasks(b, ts, t) ==
    IF t = NumThreads THEN ts
    ELSE distributeWorkInMergedTasks(
            b, IF LastOfGroup(ts, t) THEN distributeGroup(b, ts, t) ELSE ts, t + 1)

\* A-4: where every task writes in the buffer array.
startIndices(ts) ==
    [t \in DOMAIN ts |->
        [ts[t] EXCEPT !.start = ts[0].block + MapThenSumSet(LAMBDA s : ts[s].width,
                                                            0 .. t - 1)]]

\* A-4: a block that is merged inversely points to all its tasks may write.
mergeBlockPointers(ts) ==
    LET last == { t \in Threads : LastOfGroup(ts, t) }
        group(t) == Range_(ts[t - ts[t].mergedTasks].start, ts[t].start)
    IN  [i \in { ts[t - 1].block : t \in last } |->
            group(CHOOSE t \in last : ts[t - 1].block = i)]

\* The parallel insertion of the batch b by the tasks ts starts.
startTasks(b, ts) ==
    /\ batch' = b
    /\ tasks' = ts
    /\ bufferPointers' = mergeBlockPointers(ts) @@ bufferPointers
    /\ progress' = [t \in Threads |-> [active |-> ts[t].type # "DO_NOTHING",
                                      batchIndex |-> ts[t].first,
                                      block |-> ts[t].block]]

distribute(b) ==
    startTasks(b, startIndices(distributeWorkInMergedTasks(
                      b, fixSharedBlocks(findSplitters(b), 1), 1)))

\* insertBatch up to the parallel insertion.
insertBatch(keys) ==
    /\ batches < MaxBatches
    /\ distribute(Sorted(keys))
    /\ batches' = batches + 1
    /\ before' = Contents
    /\ phase' = "insert"
    /\ UNCHANGED <<pma, bufferArray, recounted>>
-----------------------------------------------------------------------------
(* Blocks.                                                                 *)

\* Mutant: counts a key twice that is in the batch and in the block.
minRemainingElements_Both(fromBatch, fromBlock) ==
    Cardinality(fromBatch) + Cardinality(fromBlock)

\* The elements that remain even if all others are duplicates.
minRemainingElements(fromBatch, fromBlock) ==
    Max({Cardinality(fromBatch), Cardinality(fromBlock)})

\* inverseMerge: the keys of the batch part and of the block part in order, cut
\* into full blocks; if too few remain for another one, the last one is split.
RECURSIVE mergeLoop(_, _, _, _)
mergeLoop(block, fromBatch, fromBlock, out) ==
    LET next == Min(fromBatch \cup fromBlock)
        splits == minRemainingElements(fromBatch, fromBlock) < MinBlockSize
    IN  IF fromBatch \cup fromBlock = {}
        THEN out \o (IF block = {} THEN <<>> ELSE <<block>>)
        ELSE IF Cardinality(block) = BlockSize
        THEN mergeLoop(IF splits THEN upperHalf(block) ELSE {}, fromBatch, fromBlock,
                       Append(out, IF splits THEN lowerHalf(block) ELSE block))
        ELSE mergeLoop(block \cup {next}, fromBatch \ {next}, fromBlock \ {next}, out)

inverseMerge(fromBatch, fromBlock) == mergeLoop({}, fromBatch, fromBlock, <<>>)

\* insertIntoEmptyRange is the merge with no block.
insertIntoEmptyRange(fromBatch) == mergeLoop({}, fromBatch, {}, <<>>)
-----------------------------------------------------------------------------
(* A-6: the parallel insertion.                                            *)

Task(t) == [ batchRange |-> Range_(tasks[t].first, tasks[t + 1].first),
             pmaInputRange |-> Range_(tasks[t].block, tasks[t + 1].block),
             bufferRange |-> Range_(tasks[t].start, tasks[t + 1].start) ]
length(r) == r.right - r.left

\* writeToBufferArray, once for every block of a sequence.
writeToBufferArray(t, blocks, originBlock) ==
    LET from == Task(t).bufferRange.left + tasks[t].written
        written == [i \in from .. from + Len(blocks) - 1 |-> blocks[i - from + 1]]
    IN  /\ bufferArray' = written @@ bufferArray
        /\ tasks' = [tasks EXCEPT ![t].written = @ + Len(blocks)]
        /\ recounted' = IF blocks = <<>> THEN recounted ELSE recounted \cup {originBlock}

\* The pointer of a block to the blocks that insertBatchRange wrote for it.
pointTo(t, i, blocks) ==
    LET from == Task(t).bufferRange.left + tasks[t].written
    IN  bufferPointers' = (i :> Range_(from, from + Len(blocks))) @@ bufferPointers

finished(t) == progress' = [progress EXCEPT ![t].active = FALSE]

\* A task with nothing to do, or whose loop has come to the end of its range.
endTask(t) ==
    /\ progress[t].batchIndex = Task(t).batchRange.right
    /\ finished(t)
    /\ UNCHANGED <<pma, bufferArray, bufferPointers, recounted, tasks>>

\* The first insertion into an empty array.
fillEmptyRange(t) ==
    LET r == Task(t)
        blocks == insertIntoEmptyRange(Elements(r.batchRange.left, r.batchRange.right))
    IN  /\ tasks[t].type = "INSERTION"
        /\ length(r.batchRange) > 0 /\ length(r.pmaInputRange) = 0
        /\ writeToBufferArray(t, blocks, r.pmaInputRange.left)
        /\ pointTo(t, r.pmaInputRange.left, blocks)
        /\ finished(t)
        /\ UNCHANGED pma

\* Mutant: all elements of the task go into the block.
findLastBatchElementForBlock_All(from, batchRange, next, right) == batchRange.right

\* Mutant: compares with the head of the block itself, which no element precedes.
findLastBatchElementForBlock_NoStep(from, batchRange, next, right) ==
    IF next = right THEN batchRange.right ELSE from

\* The end of the batch elements that go into the block in front of `next`.
findLastBatchElementForBlock(from, batchRange, next, right) ==
    IF next = right THEN batchRange.right
    ELSE lower_bound(batch, from, batchRange.right, heads[next])

\* The elements go into block i, with or without a split.
insertIntoBlock(t, i, elements, blocks) ==
    LET fits == Cardinality(pma[i]) + Cardinality(elements) <= BlockSize
    IN  \/ /\ fits
           /\ pma' = [pma EXCEPT ![i] = @ \cup elements]
           /\ UNCHANGED <<bufferArray, bufferPointers, recounted, tasks>>
        \/ /\ ~fits
           /\ pma' = [pma EXCEPT ![i] = {}]
           /\ writeToBufferArray(t, blocks, i)
           /\ pointTo(t, i, blocks)

\* The batch elements up to the head of the next block go into block i.
insertUpToNext(t, i) ==
    LET r == Task(t)
        from == progress[t].batchIndex
        right == r.pmaInputRange.right
        last == findLastBatchElementForBlock(from, r.batchRange, findNext(heads, i, right),
                                             right)
        elements == Elements(from, last)
    IN  /\ progress' = [progress EXCEPT ![t].batchIndex = last, ![t].block = i]
        /\ insertIntoBlock(t, i, elements, insertIntoBlockWithSplit(pma[i], elements))

\* One iteration of insertBatchRange: looks for the block of the next batch element.
insertElementsIntoBlock(t) ==
    LET r == Task(t)
        p == progress[t]
    IN  /\ tasks[t].type = "INSERTION"
        /\ length(r.pmaInputRange) # 0 /\ p.batchIndex < r.batchRange.right
        /\ insertUpToNext(t, exponentialSearch(heads, element(batch, p.batchIndex), p.block,
                                               r.pmaInputRange.right))

\* Mutant: the first task of a group starts at its batch element too.
mergeShare_FromBatch(t, mergeBlock, batchRange) ==
    LET toRight == tasks[t].mergedTaskIndex + 1 = tasks[t].mergedTasks
                   \/ batchRange.right = batchSize
    IN  { k \in blockAt(mergeBlock) :
            /\ k >= element(batch, batchRange.left)
            /\ toRight \/ k < element(batch, batchRange.right) }

\* A task's share of the block that several tasks merge with their parts of the
\* batch: from its first to before the next task's first batch element.
mergeShare(t, mergeBlock, batchRange) ==
    LET fromLeft == tasks[t].mergedTaskIndex = 0
        toRight == tasks[t].mergedTaskIndex + 1 = tasks[t].mergedTasks
                   \/ batchRange.right = batchSize
    IN  { k \in blockAt(mergeBlock) :
            /\ fromLeft \/ k >= element(batch, batchRange.left)
            /\ toRight \/ k < element(batch, batchRange.right) }

inverseMergeTask(t) ==
    LET r == Task(t)
        mergeBlock == r.pmaInputRange.left
        blocks == inverseMerge(Elements(r.batchRange.left, r.batchRange.right),
                               mergeShare(t, mergeBlock, r.batchRange))
    IN  /\ tasks[t].type = "INVERSE_MERGE"
        /\ length(r.batchRange) > 0
        /\ writeToBufferArray(t, blocks, mergeBlock)
        /\ finished(t)
        /\ UNCHANGED <<pma, bufferPointers>>

startInsertionTask(t) ==
    /\ phase = "insert"
    /\ progress[t].active
    /\ \/ endTask(t)
       \/ fillEmptyRange(t)
       \/ insertElementsIntoBlock(t)
       \/ inverseMergeTask(t)
    /\ UNCHANGED <<phase, batch, batches, before>>
-----------------------------------------------------------------------------
(* A-7, and the rebalancing half.                                          *)

\* The last tasks of the groups whose block was merged inversely.
MergeGroups == { t \in Threads : t > 0 /\ LastOfGroup(tasks, t)
                                      /\ tasks[t - 1].type = "INVERSE_MERGE" }
\* Mutant: takes the block at which the last task of the group goes on.
mergeBlockOf_Next(t) == tasks[t].block

mergeBlockOf(t) == tasks[t - 1].block

\* The inverse merges of a group, and where they have written.
Workers(t) == t - tasks[t - 1].mergedTasks .. t - 1
WrittenBy(w) == tasks[w].start .. tasks[w].start + tasks[w].written - 1

\* compactifyBufferBlocks: the blocks of a group are moved together.
GroupBlocks(t) ==
    FlattenSeq([n \in 1 .. tasks[t - 1].mergedTasks |->
        LET w == t - tasks[t - 1].mergedTasks + n - 1
        IN  [j \in 1 .. tasks[w].written |-> bufferArray[tasks[w].start + j - 1]]])
GroupRange(t) ==
    LET from == tasks[t - tasks[t - 1].mergedTasks].start
    IN  Range_(from, from + Len(GroupBlocks(t)))
Compacted(t) ==
    LET blocks == GroupBlocks(t)
        range == GroupRange(t)
    IN  [i \in range.left .. range.right - 1 |-> blocks[i - range.left + 1]]

Without(f, S) == [i \in DOMAIN f \ S |-> f[i]]
Overlay(f, g) == g @@ f

\* The barrier, postprocessInverseMergeTasks and compactifyBufferBlocks.
postprocess ==
    LET moved == UNION { UNION { WrittenBy(w) : w \in Workers(t) } : t \in MergeGroups }
        merged == { mergeBlockOf(t) : t \in MergeGroups }
        groupOf(i) == CHOOSE t \in MergeGroups : mergeBlockOf(t) = i
    IN  /\ phase = "insert"
        /\ \A t \in Threads : ~progress[t].active
        /\ pma' = [i \in DOMAIN pma |-> IF i \in merged THEN {} ELSE pma[i]]
        /\ bufferArray' = FoldSet(LAMBDA t, f : Overlay(f, Compacted(t)),
                                  Without(bufferArray, moved), MergeGroups)
        /\ bufferPointers' =
              [i \in merged |-> GroupRange(groupOf(i))]
              @@ bufferPointers
        /\ phase' = "rebalance"
        /\ UNCHANGED <<recounted, batch, tasks, progress, batches, before>>

pointersOf(i) == IF i \in DOMAIN bufferPointers THEN bufferPointers[i] ELSE Range_(0, 0)
bufferBlock(k) == IF k \in DOMAIN bufferArray THEN bufferArray[k] ELSE {}

\* All blocks in the order of the array: the block of an entry, then its buffer
\* blocks.
BlocksInOrder ==
    LET at(i) == <<blockAt(i)>>
                 \o [n \in 1 .. length(pointersOf(i)) |-> bufferBlock(pointersOf(i).left + n - 1)]
    IN  SelectSeq(FlattenSeq([n \in 1 .. Max({1, pmaSize}) |-> at(n - 1)]),
                  LAMBDA b : b # {})

\* The rebalance of the only segment, if an entry was given to addRecountingNode.
rebalance ==
    LET blocks == BlocksInOrder
        n == Len(blocks)
        writeIndex(k) == ((k - 1) * SegmentWidth) \div n
        at(i) == { k \in 1 .. n : writeIndex(k) = i }
        pointed == UNION { pointersOf(i).left .. pointersOf(i).right - 1 :
                             i \in DOMAIN bufferPointers }
    IN  /\ phase = "rebalance"
        /\ n <= SegmentWidth
        /\ pma' = IF recounted = {} THEN pma
                  ELSE [i \in 0 .. SegmentWidth - 1 |->
                          IF at(i) = {} THEN {}
                          ELSE blocks[CHOOSE k \in at(i) : TRUE]]
        /\ bufferArray' = IF recounted = {} THEN bufferArray
                          ELSE Without(bufferArray, pointed)
        /\ bufferPointers' = IF recounted = {} THEN bufferPointers ELSE Nothing
        /\ recounted' = {}
        /\ batch' = <<>>
        /\ tasks' = NoTasks
        /\ progress' = NoProgress
        /\ before' = {}
        /\ phase' = "idle"
        /\ UNCHANGED batches

Next == /\ UNCHANGED setting
        /\ \/ phase = "idle" /\ \E keys \in Batches : insertBatch(keys)
           \/ \E t \in Threads : startInsertionTask(t)
           \/ postprocess
           \/ rebalance

Spec == Init /\ [][Next]_vars

-----------------------------------------------------------------------------
(* Properties.                                                             *)

\* The variables have their types: no empty block is written to the buffer array,
\* and the tasks of findSplitters lie in the pma and in the batch.
TypeOK ==
    /\ phase \in {"idle", "insert", "rebalance"}
    /\ DOMAIN pma \in {{}, 0 .. SegmentWidth - 1}
    /\ \A i \in DOMAIN pma : pma[i] \subseteq Keys
    /\ \A i \in DOMAIN bufferArray : i \in Nat /\ bufferArray[i] \subseteq Keys /\ bufferArray[i] # {}
    /\ DOMAIN bufferPointers \cup recounted \subseteq 0 .. SegmentWidth - 1
    /\ \A t \in 0 .. NumThreads :
          /\ tasks[t].type \in {"INSERTION", "INVERSE_MERGE", "DO_NOTHING"}
          /\ tasks[t].block \in 0 .. SegmentWidth /\ tasks[t].first \in 0 .. batchSize
          /\ tasks[t].width \in Nat /\ tasks[t].written \in Nat

\* The ordered set: its keys are those of the array when no batch is running.
Abstract == INSTANCE OrderedSet WITH
    Batches <- AllBatches,
    keys <- IF phase = "idle" THEN Contents ELSE before,
    pending <- { batch[i] : i \in 1 .. batchSize }

\* insertBatch implements the insertion of a batch into an ordered set: when it
\* returns, the keys of the array are the keys it had before and those of the batch,
\* whichever threads inserted them and however they shared a block.
AtomicBatches == Abstract!Spec

\* After the insertion half the blocks, read entry by entry with their buffer
\* blocks, are in key order: no task has put a key into a block out of its range.
KeysInOrder ==
    phase # "insert" =>
        LET blocks == BlocksInOrder
        IN  \A m \in 1 .. Len(blocks) - 1 : Max(blocks[m]) < Min(blocks[m + 1])

\* No block is larger than BlockSize and, once the array has the elements for one block,
\* none is smaller than MinBlockSize.  A first batch of fewer elements makes one block
\* that is smaller, and the next batch has to mend it.
BlockSizesValid ==
    phase # "insert" =>
        LET blocks == BlocksInOrder
            enough == Cardinality(UNION Range(blocks)) >= MinBlockSize
        IN  \A m \in 1 .. Len(blocks) :
                /\ Cardinality(blocks[m]) <= BlockSize
                /\ enough => Cardinality(blocks[m]) >= MinBlockSize

\* What the insertion half leaves behind is an array: typed, in key order, and of
\* blocks with a valid number of elements, however the threads split and shared them.
ArrayValid == TypeOK /\ KeysInOrder /\ BlockSizesValid

\* What the rebalancing half relies on: an entry with buffer blocks has no block of
\* its own, its pointers enclose blocks only, every buffer block belongs to one
\* entry, and exactly the entries with buffer blocks are to be recounted.
BuffersHandedOver ==
    phase = "rebalance" =>
        LET range(i) == pointersOf(i).left .. pointersOf(i).right - 1
            origins == { i \in DOMAIN bufferPointers : range(i) # {} }
        IN  /\ \A i \in origins : blockAt(i) = {}
            /\ UNION { range(i) : i \in origins } = DOMAIN bufferArray
            /\ \A i, j \in origins : i # j => range(i) \cap range(j) = {}
            /\ recounted = origins

\* writeToBufferArray never writes outside of the range reserved for the task.
BufferRoom ==
    phase # "idle" => \A t \in Threads : tasks[t].written <= length(Task(t).bufferRange)

\* The threads use the buffer array side by side: each keeps to the range reserved for
\* it, and in the end the pointers and the recounting map describe what they wrote.
BuffersUsable == BuffersHandedOver /\ BufferRoom

\* The entry of the pma that a task works on next.
Target(t) ==
    IF tasks[t].type = "INVERSE_MERGE" \/ length(Task(t).pmaInputRange) = 0
    THEN Task(t).pmaInputRange.left
    ELSE exponentialSearch(heads, element(batch, progress[t].batchIndex),
                           progress[t].block, Task(t).pmaInputRange.right)

\* Two tasks work on the same block only if both merge it inversely, which leaves
\* it unchanged: the parallel insertion has no data race on the pma.
NoSharedBlock ==
    phase = "insert" =>
        LET busy == { t \in Threads : progress[t].active
                                      /\ progress[t].batchIndex < Task(t).batchRange.right }
        IN  \A t, u \in busy :
                t # u /\ Target(t) = Target(u) =>
                    tasks[t].type = "INVERSE_MERGE" /\ tasks[u].type = "INVERSE_MERGE"

\* Every iteration of insertBatchRange inserts an element, into the block that has
\* to take it among all blocks and not only those of the task: so the loop ends,
\* and the tasks have cut the array and the batch at the same keys.
LoopsAdvance ==
    phase = "insert" =>
        \A t \in Threads :
            LET right == Task(t).pmaInputRange.right
                i == Target(t)
                from == progress[t].batchIndex
                last == findLastBatchElementForBlock(
                            from, Task(t).batchRange, findNext(heads, i, right), right)
            IN  /\ progress[t].active /\ tasks[t].type = "INSERTION"
                /\ Task(t).pmaInputRange.left < right /\ from < Task(t).batchRange.right
                => /\ last > from
                   /\ i = findBlockIndex(heads, element(batch, from))

\* Between batches contains, find, lowerBound and rangeQuery answer from the keys.
QueriesExact == phase = "idle" => QueriesAnswer
=============================================================================
