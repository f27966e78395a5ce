----------------------- MODULE OverallocatedInsertion -----------------------
(***************************************************************************)
(* OverallocatedBatchedSparseArray's insertBatch, the array without        *)
(* density bounds (dataStructures/overallocatedBatchedSparseArray.hpp).  A *)
(* batch is inserted in place if every task has room for all blocks that   *)
(* it may need; if not, all blocks go to swapPma and are spread from there *)
(* over an array with more room.  The batch is sorted and free of          *)
(* duplicates.                                                             *)
(***************************************************************************)
EXTENDS BlockArray, BlockSizeManager

ASSUME OverallocatedAssumption ==
    \A s \in DOMAIN Settings :
        /\ Settings[s].AllowInPlaceInserts \in BOOLEAN
        /\ Settings[s].OverallocationPercent \in Nat
        /\ Settings[s].OverallocationPercent >= 100
        /\ Settings[s].InitialArrayCapacity \in Nat \ {0}

AllowInPlaceInserts == Settings[setting].AllowInPlaceInserts
OverallocationPercent == Settings[setting].OverallocationPercent  \* the factor, times 100
InitialArrayCapacity == Settings[setting].InitialArrayCapacity

VARIABLES
    phase,          \* the step of insertBatch that is executing
    swapPma,        \* from indices to sets of keys, empty where not in the domain
    capacity,
    swapCapacity,
    aggregates,     \* of sizeManager
    batch,          \* the sorted batch
    tasks,          \* the TaskInfo of every thread, and the sentinel
    progress,       \* per thread, where its task is
    batches,        \* batches inserted so far
    before          \* history: the keys before the batch

vars == <<setting, phase, pma, swapPma, capacity, swapCapacity, aggregates, batch, tasks,
          progress, batches, before>>

Threads == 0 .. NumThreads - 1
batchSize == Len(batch)
Elements(from, to) == { element(batch, i) : i \in from .. to - 1 }
sizesOf(p) == [i \in DOMAIN p |-> Cardinality(p[i])]

Range_(l, r) == [left |-> l, right |-> r]
length(r) == r.right - r.left
Nothing == [i \in {} |-> {}]
NoTask == [block |-> 0, first |-> 0, type |-> "INSERTION", mergedTasks |-> 0,
           mergedTaskIndex |-> 0, width |-> 0, start |-> 0, written |-> 0]
NoTasks == [t \in 0 .. NumThreads |-> NoTask]
NoProgress == [t \in Threads |-> [active |-> FALSE, front |-> FALSE,
                                  batchIndex |-> 0, block |-> 0]]

Init ==
    /\ setting \in DOMAIN Settings
    /\ phase = "idle"
    /\ pma = Nothing
    /\ swapPma = Nothing
    /\ capacity = InitialArrayCapacity
    /\ swapCapacity = InitialArrayCapacity
    /\ aggregates = recompute(Nothing, 0)
    /\ batch = <<>>
    /\ tasks = NoTasks
    /\ progress = NoProgress
    /\ batches = 0
    /\ before = {}
-----------------------------------------------------------------------------
(* Steps 1 to 4: the distribution of the batch.                           *)

\* Walks down from startIndex to the first element that is not below blockHead.
findFirstBatchElementLinear(b, startIndex, blockHead) ==
    startIndex + 1 - Cardinality({ i \in 0 .. startIndex : element(b, i) >= blockHead })

\* Mutant: full blocks are expected.
maxRedistributionWidth_Full(numberOfElements, newElements) ==
    IF numberOfElements + newElements = 0 THEN 0
    ELSE (numberOfElements + newElements) \div BlockSize + 1

\* The blocks that the elements take up at most.
maxRedistributionWidth(numberOfElements, newElements) ==
    IF numberOfElements + newElements = 0 THEN 0
    ELSE (numberOfElements + newElements) \div MinBlockSize + 1

\* Step 1, in parallel: every thread finds the block and the first batch element of
\* its own and of the next splitter, and the width that it requires.
findSplitters(b) ==
    LET distance == Len(b) \div NumThreads
        block == [t \in Threads |-> findBlockIndex(heads, element(b, t * distance))]
                 @@ (NumThreads :> pmaSize)
        first == [t \in Threads |-> findFirstBatchElementLinear(
                                        b, t * distance, head(heads, block[t]))]
                 @@ (NumThreads :> Len(b))
        old(t) == getNumberOfElements(sizesOf(pma), aggregates, block[t], block[t + 1])
    IN  [t \in 0 .. NumThreads |->
            [NoTask EXCEPT !.block = block[t],
                           !.first = IF t = 0 THEN 0 ELSE first[t],
                           !.width = IF t = NumThreads THEN 0
                                     ELSE maxRedistributionWidth(
                                             old(t), first[t + 1] - first[t])]]

\* Step 2: of the tasks that start at the same block only the last one keeps its
\* width; it counts the others, which become inverse merges.
RECURSIVE fixSharedBlocks(_, _)
fixSharedBlocks(ts, t) ==
    IF t = NumThreads THEN ts
    ELSE IF ts[t].block = ts[t - 1].block
    THEN fixSharedBlocks([ts EXCEPT ![t].first = ts[t - 1].first,
                                    ![t].mergedTasks = ts[t - 1].mergedTasks + 1,
                                    ![t - 1].type = "INVERSE_MERGE",
                                    ![t - 1].width = 0], t + 1)
    ELSE fixSharedBlocks(ts, t + 1)

\* For the last task t of a group that shares a block: the others divide the
\* elements of that block among them, and t goes on behind it.
distributeGroup(b, ts, t) ==
    LET mergeBlock == ts[t].block
        total == Range_(ts[t].first, ts[t + 1].first)
        firstNormalBlock == findNext(heads, mergeBlock, ts[t + 1].block)
        lastTaskBatchStart ==
            IF empty(heads, firstNormalBlock) THEN total.right
            ELSE Min({lower_bound(b, 0, Len(b), heads[firstNormalBlock]), total.right})
        merged == ts[t].mergedTasks
        perThread == (lastTaskBatchStart - total.left) \div merged + 1
        worker(n) == [NoTask EXCEPT
            !.type = "INVERSE_MERGE", !.block = mergeBlock,
            !.first = Min({total.left + n * perThread, lastTaskBatchStart}),
            !.mergedTasks = merged, !.mergedTaskIndex = n,
            !.width = maxRedistributionWidth(Cardinality(blockAt(mergeBlock)), perThread)]
        last == IF lastTaskBatchStart = total.left THEN ts[t]
                ELSE [ts[t] EXCEPT !.first = lastTaskBatchStart, !.block = firstNormalBlock]
    IN  [i \in t - merged .. t - 1 |-> worker(i - (t - merged))] @@ (t :> last) @@ ts

LastOfGroup(ts, t) == ts[t].type = "INSERTION" /\ ts[t].mergedTasks > 0

RECURSIVE distributeWorkInMergedTasks(_, _, _)
distributeWorkInMergedTasks(b, ts, t) ==
    IF t = NumThreads THEN ts
    ELSE distributeWorkInMergedTasks(
            b, IF LastOfGroup(ts, t) THEN distributeGroup(b, ts, t) ELSE ts, t + 1)

useInPlaceInserts(ts) ==
    /\ AllowInPlaceInserts
    /\ \A t \in Threads : /\ ts[t].width <= ts[t + 1].block - ts[t].block
                          /\ ts[t].type # "INVERSE_MERGE"

\* B-1: where the task writes, with more room than it needs.
startIndices(ts) ==
    LET allotted(t) == IF AllowInPlaceInserts
                       THEN (OverallocationPercent * ts[t].width) \div 100
                       ELSE ts[t].width
    IN  [t \in DOMAIN ts |->
            [ts[t] EXCEPT !.start = ts[0].block + MapThenSumSet(allotted, 0 .. t - 1)]]

\* The capacity is doubled until it is above the size.
RECURSIVE doubled(_, _)
\* Mutant: the capacity may be the size.
doubled_Tight(c, newSize) == IF c < newSize THEN doubled(2 * c, newSize) ELSE c

doubled(c, newSize) == IF c <= newSize THEN doubled(2 * c, newSize) ELSE c

\* The size itself changes when the blocks are written back: until then the code
\* reads it only in assertions.
increaseSize(newSize) ==
    /\ swapCapacity' = doubled(swapCapacity, newSize)
    /\ swapPma' = IF newSize >= swapCapacity THEN Nothing ELSE swapPma

\* The parallel insertion of b starts, in place (A) or out of place (B).
startTasks(b, ts, inPlace) ==
    /\ batch' = b
    /\ tasks' = ts
    /\ progress' = [t \in Threads |-> [active |-> TRUE, front |-> ~inPlace /\ t = 0,
                                      batchIndex |-> ts[t].first, block |-> ts[t].block]]
    /\ IF inPlace THEN phase' = "inPlace" /\ UNCHANGED <<swapPma, swapCapacity>>
       ELSE phase' = "outOfPlace" /\ increaseSize(ts[NumThreads].start)

decide(b, ts) ==
    IF useInPlaceInserts(ts) THEN startTasks(b, ts, TRUE)
    ELSE startTasks(b, startIndices(ts), FALSE)

distribute(b) ==
    decide(b, distributeWorkInMergedTasks(b, fixSharedBlocks(findSplitters(b), 1), 1))

\* insertBatch up to the parallel insertion.
insertBatch(keys) ==
    /\ phase = "idle" /\ batches < MaxBatches
    /\ distribute(Sorted(keys))
    /\ batches' = batches + 1
    /\ before' = Contents
    /\ UNCHANGED <<pma, capacity, aggregates>>
-----------------------------------------------------------------------------
(* What the parallel insertions have in common.                            *)

Task(t) == [ batchRange |-> Range_(tasks[t].first, tasks[t + 1].first),
             pmaRange |-> Range_(tasks[t].block, tasks[t + 1].block),
             outputRange |-> Range_(tasks[t].start, tasks[t + 1].start) ]

finished(t) == progress' = [progress EXCEPT ![t].active = FALSE]

\* Mutant: compares with the head of the block itself, which no element precedes.
findLastBatchElementForBlock_NoStep(from, batchRange, next, right) ==
    IF next = right THEN batchRange.right ELSE from

\* The end of the batch elements that go into the block in front of `next`.
findLastBatchElementForBlock(from, batchRange, next, right) ==
    IF next = right THEN batchRange.right
    ELSE lower_bound(batch, from, batchRange.right, heads[next])

fits(i, elements) == Cardinality(pma[i]) + Cardinality(elements) <= BlockSize
-----------------------------------------------------------------------------
(* A: the insertion in place.                                              *)

\* Mutant: no block makes room.
writeBlockInPlace_Over(a, block, range) ==
    LET target == Min({a.target, range.right - 1})
    IN  [pma |-> (target :> block) @@ a.pma, target |-> target + 1,
         aggregates |-> adjustBlockSize(a.aggregates, target, 0, Cardinality(block))]

\* writeBlockInPlace, where a is the array, its aggregates and the target index:
\* the block goes to the target and the blocks from there on move right up to the
\* next free entry; if there is none, those in front of the target move left.
writeBlockInPlace(a, block, range) ==
    LET target == a.target
        freeRight == { i \in target .. range.right - 1 : a.pma[i] = {} }
        freeLeft == { i \in range.left .. target - 1 : a.pma[i] = {} }
        up == Min(freeRight)
        down == IF freeLeft = {} THEN range.left ELSE Max(freeLeft)
        right == (target :> block) @@ [i \in target + 1 .. up |-> a.pma[i - 1]] @@ a.pma
        left == (target - 1 :> block) @@ [i \in down .. target - 2 |-> a.pma[i + 1]] @@ a.pma
        adjusted(i) == adjustBlockSize(a.aggregates, i, 0, Cardinality(block))
    IN  IF freeRight # {}
        THEN [pma |-> right, target |-> target + 1,
              aggregates |-> shiftRight(sizesOf(right), adjusted(target), target + 1, up)]
        ELSE [pma |-> left, target |-> target,
              aggregates |-> shiftLeft(sizesOf(left), adjusted(target - 1), down, target - 2)]

\* insertIntoBlockWithSplit<false>: the block is taken out, and what it is split
\* into is written from its place on.
splitInPlace(i, blocks, range) ==
    FoldLeft(LAMBDA a, block : writeBlockInPlace(a, block, range),
             [pma |-> [pma EXCEPT ![i] = {}], target |-> i,
              aggregates |-> adjustBlockSize(aggregates, i, Cardinality(pma[i]), 0)],
             blocks)

\* The batch elements up to `last` go into block i, with or without a split.
insertInPlace(t, i, elements) ==
    LET after == splitInPlace(i, insertIntoBlockWithSplit(pma[i], elements),
                              Task(t).pmaRange)
        merged == pma[i] \cup elements
    IN  \/ /\ fits(i, elements)
           /\ pma' = [pma EXCEPT ![i] = merged]
           /\ aggregates' = adjustBlockSize(aggregates, i, Cardinality(pma[i]),
                                            Cardinality(merged))
        \/ /\ ~fits(i, elements)
           /\ pma' = after.pma
           /\ aggregates' = after.aggregates

\* The batch elements that belong to block i.
insertElementsIntoBlock(t, i) ==
    LET right == Task(t).pmaRange.right
        from == progress[t].batchIndex
        last == findLastBatchElementForBlock(from, Task(t).batchRange,
                                             findNext(heads, i, right), right)
    IN  /\ progress' = [progress EXCEPT ![t].batchIndex = last, ![t].block = i]
        /\ insertInPlace(t, i, Elements(from, last))

\* One iteration of insertBatchRange in place, or its end.  The search starts at
\* the entry of the last insertion, which may hold another block by now.
startTaskInPlace(t) ==
    LET p == progress[t]
    IN  /\ phase = "inPlace" /\ p.active
        /\ \/ /\ p.batchIndex = Task(t).batchRange.right
              /\ finished(t)
              /\ UNCHANGED <<pma, aggregates>>
           \/ /\ p.batchIndex < Task(t).batchRange.right
              /\ insertElementsIntoBlock(t, exponentialSearch(
                     heads, element(batch, p.batchIndex), p.block, Task(t).pmaRange.right))
        /\ UNCHANGED <<phase, swapPma, capacity, swapCapacity, batch, tasks, batches, before>>

return ==
    /\ phase' = "idle"
    /\ batch' = <<>>
    /\ tasks' = NoTasks
    /\ progress' = NoProgress
    /\ before' = {}
    /\ UNCHANGED batches

AllFinished == \A t \in Threads : ~progress[t].active

returnInPlace ==
    /\ phase = "inPlace" /\ AllFinished
    /\ return
    /\ UNCHANGED <<pma, aggregates, swapPma, capacity, swapCapacity>>
-----------------------------------------------------------------------------
(* B-3: the insertion out of place.                                        *)

\* writeBlock to swapPma, for every block of a sequence.
writeBlocks(t, blocks) ==
    LET from == tasks[t].start + tasks[t].written
    IN  /\ swapPma' = [i \in from .. from + Len(blocks) - 1 |-> blocks[i - from + 1]]
                      @@ swapPma
        /\ tasks' = [tasks EXCEPT ![t].written = @ + Len(blocks)]

\* The keys in order, cut into full blocks and the rest.
RECURSIVE Chunks(_)
Chunks(keys) ==
    IF keys = {} THEN <<>>
    ELSE <<Lowest(BlockSize, keys)>> \o Chunks(keys \ Lowest(BlockSize, keys))

\* All blocks that have their place before the first task are moved by thread 0.
copyFront(t) ==
    LET front == { i \in 0 .. tasks[0].block - 1 : blockAt(i) # {} }
    IN  /\ progress[t].front
        /\ swapPma' = [i \in front |-> pma[i]] @@ swapPma
        /\ pma' = [i \in DOMAIN pma |-> IF i \in front THEN {} ELSE pma[i]]
        /\ progress' = [progress EXCEPT ![t].front = FALSE]
        /\ UNCHANGED <<tasks, aggregates>>

\* An insertion without batch elements moves its blocks.
copyBlocks(t) ==
    LET r == Task(t)
        own == { i \in r.pmaRange.left .. r.pmaRange.right - 1 : blockAt(i) # {} }
        blocks == [n \in 1 .. Cardinality(own) |->
                      pma[CHOOSE i \in own : Cardinality({ j \in own : j <= i }) = n]]
    IN  /\ tasks[t].type = "INSERTION" /\ length(r.batchRange) = 0
        /\ writeBlocks(t, blocks)
        /\ pma' = [i \in DOMAIN pma |-> IF i \in own THEN {} ELSE pma[i]]
        /\ finished(t)
        /\ UNCHANGED aggregates

\* Mutant: the last block is never split.
insertIntoEmptyRange_NoSplit(keys) == Chunks(keys)

\* insertIntoEmptyRange: full blocks, but the last one is split if too few elements
\* for another one remain.
insertIntoEmptyRange(keys) ==
    LET chunks == Chunks(keys)
        n == Len(chunks)
    IN  IF n > 1 /\ Cardinality(chunks[n]) < MinBlockSize
        THEN SubSeq(chunks, 1, n - 2)
             \o <<lowerHalf(chunks[n - 1]), upperHalf(chunks[n - 1]) \cup chunks[n]>>
        ELSE chunks

fillEmptyRange(t) ==
    LET r == Task(t)
    IN  /\ tasks[t].type = "INSERTION"
        /\ length(r.batchRange) > 0 /\ length(r.pmaRange) = 0
        /\ writeBlocks(t, insertIntoEmptyRange(Elements(r.batchRange.left, r.batchRange.right)))
        /\ finished(t)
        /\ UNCHANGED <<pma, aggregates>>

\* Mutant: does not ask whether the next block is there any more.
isFor_Head(e, next) == e < head(heads, next)

\* The next block may be the first one of the next thread, which may have moved it
\* already.  If its head is gone at the first comparison, so it is at the second.
isFor(e, next) == e < head(heads, next) \/ empty(heads, next)

\* Block i is moved, after the elements have been inserted into it.
insertAndWrite(t, i, elements) ==
    LET merged == pma[i] \cup elements
        direct == elements = {} \/ fits(i, elements)
    IN  /\ pma' = [pma EXCEPT ![i] = {}]
        /\ \/ /\ direct
              /\ writeBlocks(t, <<merged>>)
              /\ aggregates' = adjustBlockSize(aggregates, i, Cardinality(pma[i]),
                                               Cardinality(merged))
           \/ /\ ~direct
              /\ writeBlocks(t, insertIntoBlockWithSplit(pma[i], elements))
              /\ aggregates' = adjustBlockSize(aggregates, i, Cardinality(pma[i]), 0)

\* The batch elements that belong in front of the next block.
writeNextBlock(t, i, next) ==
    LET r == Task(t)
        from == progress[t].batchIndex
        inserts == from < r.batchRange.right /\ isFor(element(batch, from), next)
        last == IF inserts THEN findLastBatchElementForBlock(
                                    from, r.batchRange, next, r.pmaRange.right)
                ELSE from
    IN  /\ progress' = [progress EXCEPT ![t].batchIndex = last, ![t].block = next]
        /\ insertAndWrite(t, i, Elements(from, last))

\* One iteration of insertBatchRange out of place, or its end.
insertBatchRange(t) ==
    LET r == Task(t)
        i == progress[t].block
    IN  /\ tasks[t].type = "INSERTION"
        /\ length(r.batchRange) > 0 /\ length(r.pmaRange) > 0
        /\ \/ /\ i >= r.pmaRange.right
              /\ finished(t)
              /\ UNCHANGED <<pma, swapPma, aggregates, tasks>>
           \/ /\ i < r.pmaRange.right
              /\ writeNextBlock(t, i, findNext(heads, i, r.pmaRange.right))

\* Mutant: the first task of a group starts at its batch element too.
mergeShare_FromBatch(t, mergeBlock, batchRange) ==
    LET toRight == tasks[t].mergedTaskIndex + 1 = tasks[t].mergedTasks
                   \/ batchRange.right = batchSize
    IN  { k \in blockAt(mergeBlock) :
            /\ k >= element(batch, batchRange.left)
            /\ toRight \/ k < element(batch, batchRange.right) }

\* A task's share of the block that several tasks merge with their parts of the
\* batch: from its first to before the next task's first batch element.
mergeShare(t, mergeBlock, batchRange) ==
    LET fromLeft == tasks[t].mergedTaskIndex = 0
        toRight == tasks[t].mergedTaskIndex + 1 = tasks[t].mergedTasks
                   \/ batchRange.right = batchSize
    IN  { k \in blockAt(mergeBlock) :
            /\ fromLeft \/ k >= element(batch, batchRange.left)
            /\ toRight \/ k < element(batch, batchRange.right) }

\* The keys of the batch part and of the block part, cut into full blocks.
inverseMerge(t) ==
    LET r == Task(t)
        keys == Elements(r.batchRange.left, r.batchRange.right)
                \cup mergeShare(t, r.pmaRange.left, r.batchRange)
    IN  /\ tasks[t].type = "INVERSE_MERGE" /\ length(r.batchRange) > 0
        /\ writeBlocks(t, Chunks(keys))
        /\ finished(t)
        /\ UNCHANGED <<pma, aggregates>>

\* An inverse merge without batch elements has nothing to do.
skipTask(t) ==
    /\ tasks[t].type = "INVERSE_MERGE" /\ length(Task(t).batchRange) = 0
    /\ finished(t)
    /\ UNCHANGED <<pma, swapPma, aggregates, tasks>>

startTaskOutOfPlace(t) ==
    /\ phase = "outOfPlace" /\ progress[t].active
    /\ \/ copyFront(t)
       \/ /\ ~progress[t].front
          /\ \/ copyBlocks(t)
             \/ fillEmptyRange(t)
             \/ insertBatchRange(t)
             \/ inverseMerge(t)
             \/ skipTask(t)
    /\ UNCHANGED <<phase, capacity, swapCapacity, batch, batches, before>>
-----------------------------------------------------------------------------
(* Behind the barrier: blocks that are too small, and the way back.        *)

swapBlock(swap, i) == IF i \in DOMAIN swap THEN swap[i] ELSE {}
lastWrittenBlock(ts, t) == ts[t].start + ts[t].written - 1

\* The n largest keys.
Highest(n, keys) == keys \ Lowest(Cardinality(keys) - n, keys)

\* s is swapPma, the tasks and the carry.  The carry is merged into the first block
\* of task t, or takes elements from it and is written behind the task in front.
giveCarry(s, t) ==
    LET first == swapBlock(s.swap, s.ts[t].start)
        stolen == Lowest(MinBlockSize - Cardinality(s.carry), first)
        previousTaskEnd == s.ts[t - 1].start + s.ts[t - 1].written
    IN  IF s.carry = {} \/ s.ts[t].written = 0 THEN s
        ELSE IF Cardinality(first) + Cardinality(s.carry) < BlockSize
        THEN [s EXCEPT !.swap = (s.ts[t].start :> first \cup s.carry) @@ @, !.carry = {}]
        ELSE [s EXCEPT !.swap = (previousTaskEnd :> s.carry \cup stolen)
                                @@ (s.ts[t].start :> first \ stolen) @@ @,
                       !.ts[t - 1].written = @ + 1, !.carry = {}]

\* Mutant: blocks that are too small stay.
takeCarry_Never(s, t) == s

\* The last block of an inverse merge becomes the carry if it is too small.
takeCarry(s, t) ==
    LET i == lastWrittenBlock(s.ts, t)
    IN  IF /\ s.ts[t].type = "INVERSE_MERGE" /\ s.ts[t].written > 0
           /\ Cardinality(s.swap[i]) < MinBlockSize
        THEN [swap |-> [s.swap EXCEPT ![i] = {}], carry |-> s.swap[i],
              ts |-> [s.ts EXCEPT ![t].written = @ - 1]]
        ELSE s

\* Mutant: the block that is written is not counted.
leaveCarry_Uncounted(s) ==
    LET t == Max({ u \in Threads : s.ts[u].written > 0 })
        i == lastWrittenBlock(s.ts, t)
        stolen == Highest(MinBlockSize - Cardinality(s.carry), s.swap[i])
    IN  IF s.carry = {} \/ \A u \in Threads : s.ts[u].written = 0 THEN s
        ELSE [s EXCEPT !.swap = (i :> s.swap[i] \ stolen)
                                @@ (i + 1 :> s.carry \cup stolen) @@ @, !.carry = {}]

\* If no task to the right could take the carry, it goes to the last block written.
leaveCarry(s) ==
    LET t == Max({ u \in Threads : s.ts[u].written > 0 })
        i == lastWrittenBlock(s.ts, t)
        stolen == Highest(MinBlockSize - Cardinality(s.carry), s.swap[i])
        here == s.ts[t].written < s.ts[t].width
        writeIndex == IF here THEN i + 1 ELSE s.ts[t + 1].start
    IN  IF s.carry = {} \/ \A u \in Threads : s.ts[u].written = 0 THEN s
        ELSE IF Cardinality(s.swap[i]) + Cardinality(s.carry) < BlockSize
        THEN [s EXCEPT !.swap[i] = @ \cup s.carry, !.carry = {}]
        ELSE [s EXCEPT !.swap = (i :> s.swap[i] \ stolen)
                                @@ (writeIndex :> s.carry \cup stolen) @@ @,
                       !.ts[IF here THEN t ELSE t + 1].written = @ + 1, !.carry = {}]

\* The blocks that were merged inversely are deleted.
MergeBlocks == { tasks[t - 1].block : t \in { u \in Threads \ {0} :
                    tasks[u].type = "INSERTION" /\ tasks[u - 1].type = "INVERSE_MERGE" } }

postprocessInverseMergeTasks ==
    LET s == leaveCarry(FoldLeft(LAMBDA a, n : takeCarry(giveCarry(a, n - 1), n - 1),
                                 [swap |-> swapPma, ts |-> tasks, carry |-> {}],
                                 [n \in 1 .. NumThreads |-> n]))
    IN  IF \E t \in Threads : tasks[t].type = "INVERSE_MERGE" THEN s
        ELSE [swap |-> swapPma, ts |-> tasks, carry |-> {}]

\* The barrier, the postprocessing and resizeMainPma, which allocates a new array
\* with the capacity of swapPma.
postprocess ==
    LET s == postprocessInverseMergeTasks
        left == IF swapCapacity = capacity THEN DOMAIN pma \ MergeBlocks ELSE {}
    IN  /\ phase = "outOfPlace" /\ AllFinished
        /\ swapPma' = s.swap
        /\ tasks' = s.ts
        /\ pma' = [i \in 0 .. tasks[NumThreads].start - 1 |->
                      IF i \in left THEN pma[i] ELSE {}]
        /\ capacity' = swapCapacity
        /\ progress' = [t \in Threads |-> [progress[t] EXCEPT !.active = TRUE]]
        /\ phase' = "rewrite"
        /\ UNCHANGED <<swapCapacity, aggregates, batch, batches, before>>

\* Mutant: rounds to the end of the range.
getUniformWriteIndex_Up(outputStart, blockNumber, outputLength, numberOfBlocks) ==
    outputStart + ((blockNumber + 1) * outputLength) \div numberOfBlocks

getUniformWriteIndex(outputStart, blockNumber, outputLength, numberOfBlocks) ==
    outputStart + (blockNumber * outputLength) \div numberOfBlocks

\* The blocks of the task are spread over its range; thread 0 also moves the blocks
\* in front of all tasks.
startRewritingTask(t) ==
    LET range == Task(t).outputRange
        n == tasks[t].written
        target(k) == getUniformWriteIndex(range.left, k, length(range), n)
        spread == [i \in { target(k) : k \in 0 .. n - 1 } |->
                      swapPma[range.left + Max({ k \in 0 .. n - 1 : target(k) = i })]]
        front == IF t = 0 THEN { i \in 0 .. tasks[0].block - 1 : swapBlock(swapPma, i) # {} }
                 ELSE {}
        moved == front \cup range.left .. range.left + n - 1
    IN  /\ phase = "rewrite" /\ progress[t].active
        /\ pma' = [i \in front |-> swapPma[i]] @@ spread @@ pma
        /\ swapPma' = [i \in DOMAIN swapPma \ moved |-> swapPma[i]]
        /\ finished(t)
        /\ UNCHANGED <<phase, capacity, swapCapacity, aggregates, batch, tasks, batches,
                       before>>

returnOutOfPlace ==
    /\ phase = "rewrite" /\ AllFinished
    /\ aggregates' = recompute(sizesOf(pma), pmaSize)
    /\ return
    /\ UNCHANGED <<pma, swapPma, capacity, swapCapacity>>

threadStep(t) == startTaskInPlace(t) \/ startTaskOutOfPlace(t) \/ startRewritingTask(t)
barrier == returnInPlace \/ postprocess \/ returnOutOfPlace

\* No further batch.
stop == phase = "idle" /\ UNCHANGED vars

Next == /\ UNCHANGED setting
        /\ \/ \E keys \in Batches : insertBatch(keys)
           \/ \E t \in Threads : threadStep(t)
           \/ barrier
           \/ stop

Spec == Init /\ [][Next]_vars
-----------------------------------------------------------------------------
(* Properties.                                                             *)

NonEmpty == { i \in DOMAIN pma : pma[i] # {} }

\* The variables have their types; the array has the entries that it was given, so
\* nothing is written behind its size.
TypeOK ==
    /\ phase \in {"idle", "inPlace", "outOfPlace", "rewrite"}
    /\ DOMAIN pma = 0 .. pmaSize - 1
    /\ phase = "rewrite" => pmaSize = tasks[NumThreads].start
    /\ \A i \in DOMAIN pma : pma[i] \subseteq Keys
    /\ \A i \in DOMAIN swapPma : i \in Nat /\ swapPma[i] \subseteq Keys
    /\ \A t \in 0 .. NumThreads :
          /\ tasks[t].type \in {"INSERTION", "INVERSE_MERGE"}
          /\ tasks[t].first \in 0 .. batchSize
          /\ tasks[t].width \in Nat /\ tasks[t].written \in Nat

\* The ordered set: its keys are those of the array when no batch is running.
Abstract == INSTANCE OrderedSet WITH
    Batches <- AllBatches,
    keys <- IF phase = "idle" THEN Contents ELSE before,
    pending <- { batch[i] : i \in 1 .. batchSize }

\* insertBatch implements the insertion of a batch into an ordered set: when it
\* returns, the keys of the array are the keys it had before and those of the batch,
\* whether it worked in place or out of place and however the threads shared blocks.
AtomicBatches == Abstract!Spec

\* isValid: between batches the blocks are in key order, none is larger than
\* BlockSize, and none smaller than MinBlockSize.
isValid ==
    phase = "idle" =>
        /\ \A i, j \in NonEmpty : i < j => Max(pma[i]) < Min(pma[j])
        /\ \A i \in NonEmpty : Cardinality(pma[i]) \in MinBlockSize .. BlockSize

\* The size manager's validate: between batches every aggregate is the sum of its
\* block sizes, after any sequence of shifts that the threads made in parallel.
AggregatesExact ==
    phase = "idle" => aggregates = recompute(sizesOf(pma), pmaSize)

\* A task never writes more blocks than its part of swapPma has entries, neither
\* when it inserts nor when a carry is written to it.
OutputRoom ==
    phase \in {"outOfPlace", "rewrite"} =>
        \A t \in Threads : tasks[t].written <= length(Task(t).outputRange)

\* The array is always longer than its size, so that the entry behind the last one
\* can be read, and the aggregates cover no entry behind the end of the array.
CapacitySuffices ==
    /\ pmaSize < capacity
    /\ tasks[NumThreads].start < swapCapacity
    /\ getBlockIndex(aggregateIndex(pmaSize) + 1) <= capacity

\* Nothing is left in swapPma when insertBatch returns.
SwapDrained == phase = "idle" => \A i \in DOMAIN swapPma : swapPma[i] = {}

\* insertBatch leaves a valid array, and nothing behind its size or in swapPma.
ArrayValid == TypeOK /\ isValid /\ SwapDrained

\* The room suffices that is computed before the blocks are written: that of every task,
\* and that of both arrays with the entries that are read behind their size.
RoomSuffices == OutputRoom /\ CapacitySuffices

\* Between batches contains, find, lowerBound and rangeQuery answer from the keys.
QueriesExact == phase = "idle" => QueriesAnswer

\* Every iteration in place inserts an element, into the block that has to take it
\* among all blocks of the array: although other blocks may have been shifted to the
\* entry where the search starts, and all entries beside the range of the task
\* change meanwhile.  So the loop ends.
LoopsAdvance ==
    phase = "inPlace" =>
        \A t \in Threads :
            LET right == Task(t).pmaRange.right
                from == progress[t].batchIndex
                e == element(batch, from)
                i == exponentialSearch(heads, e, progress[t].block, right)
            IN  progress[t].active /\ from < Task(t).batchRange.right =>
                  /\ i = findBlockIndex(heads, e)
                  /\ findLastBatchElementForBlock(from, Task(t).batchRange,
                                                  findNext(heads, i, right), right) > from
=============================================================================
