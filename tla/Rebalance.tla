------------------------------ MODULE Rebalance ------------------------------
(***************************************************************************)
(* The execution of the rebalancing tasks in BatchedSparseArray's          *)
(* insertBatch (steps B-4 to B-10): the blocks of all tasks together are   *)
(* split evenly among the threads, which move them densely to the swap     *)
(* array, clear the buffer pointers, and write them back spread over the   *)
(* range of their task.  The parallel regions are separated by barriers;   *)
(* within a region the threads interleave.                                 *)
(***************************************************************************)
EXTENDS RebalancingManager

CONSTANT NumThreads     \* numberOfThreads

ASSUME ThreadsAssumption == NumThreads \in Nat \ {0}

VARIABLES
    newPmaSize,     \* the local of insertBatch
    items,          \* per thread, the pieces of tasks it rebalances
    work            \* per thread, what it still has to do in this region

rebalanceVars == <<newPmaSize, items, work>>

Threads == 0 .. NumThreads - 1
NoWork == [t \in Threads |-> <<>>]

InitRebalance ==
    /\ newPmaSize = 0
    /\ items = NoWork
    /\ work = NoWork
-----------------------------------------------------------------------------
(* Which part of which task a thread handles.                              *)

\* ExtendedPmaIndex: the buffer index is relative to the entry's first buffer
\* block, and -1 stands for the pma block itself.
Before(x, y) == x[1] < y[1] \/ (x[1] = y[1] /\ x[2] < y[2])

\* The descent of findBlockInRebalancingTask from a node to level 0.
Descend(node, blockNumber) ==
    LET down(d, l) ==
            LET left == aggregates[Node(l, leftChild(d.index))]
            IN  IF d.remaining > left
                THEN [index |-> rightChild(d.index), remaining |-> d.remaining - left]
                ELSE [index |-> leftChild(d.index), remaining |-> d.remaining]
        at[l \in 0 .. node.level] ==
            IF l = node.level THEN [index |-> node.index, remaining |-> blockNumber]
            ELSE down(at[l + 1], l)
    IN  at[0]

\* The extended index of the block with the given number below a node: on level
\* 0 the first entry at which nothing remains, or whose buffer blocks hold it.
findBlockInRebalancingTask(rootNode, blockNumber) ==
    LET node == Node(Smaller(rootNode.level, logCapacity), rootNode.index)
        d    == Descend(node, blockNumber)
        from == d.index * SegmentWidth
        remaining(i) == d.remaining - BlocksBetween(from, i)
        inBuffer(i) == remaining(i) - (IF empty(i) THEN 0 ELSE 1)
        found(i) == \/ remaining(i) = 0
                    \/ inBuffer(i) \in 0 .. numberOfBufferBlocks(i) - 1
        at == CHOOSE i \in from .. from + SegmentWidth :
                found(i) /\ \A j \in from .. i - 1 : ~found(j)
    IN  IF blockNumber > aggregates[node]
        THEN <<rebalancingRange(node, logCapacity, aggregates[root]).right, -1>>
        ELSE <<at, IF remaining(at) = 0 THEN -1 ELSE inBuffer(at)>>

numberOfBlocksToRebalance == prefixBlocks(Len(rebalancingTasks))

\* lower_bound in the prefix sums.
findRebalancingTask(blockNumber) ==
    CHOOSE k \in 1 .. Len(rebalancingTasks) :
        /\ prefixBlocks(k) >= blockNumber
        /\ \A j \in 1 .. k - 1 : prefixBlocks(j) < blockNumber

\* The blocks of task k that fall into a thread's range, numbered in the task.
localBlockRange(k, blockRange) ==
    LET first == prefixBlocks(k - 1)
        part == cut(Interval(first, prefixBlocks(k)), blockRange)
    IN  IF length(part) = 0 THEN NullInterval
        ELSE Interval(part.left - first, part.right - first)

\* A piece of task k: from `at` up to `end`, written to the swap array from
\* `out` on.  `start` remembers where it began.
Piece(k, from, to, offset) ==
    [ task |-> k, start |-> from, at |-> from, end |-> to,
      out |-> rebalancingTasks[k].pmaRange.left + offset ]

\* Mutant: every piece is written from the start of the task's range on.
getPartialRebalancingRange_NoOffset(k, blockRange) ==
    LET r == localBlockRange(k, blockRange)
        find(n) == findBlockInRebalancingTask(rebalancingTasks[k].rootNode, n)
    IN  Piece(k, find(r.left), find(r.right), 0)

getPartialRebalancingRange(k, blockRange) ==
    LET r == localBlockRange(k, blockRange)
        find == [n \in {r.left, r.right} |->
                    findBlockInRebalancingTask(rebalancingTasks[k].rootNode, n)]
    IN  IF length(r) = 0 THEN Piece(k, <<0, -1>>, <<0, -1>>, 0)
        ELSE Piece(k, find[r.left], find[r.right], r.left)

NoPiece == [task |-> 0]

\* The clipped range of startFullRebalancingTask and startFullClearTask, which do
\* nothing for a task behind the end of the array.
fullRebalancingRange(k) ==
    LET I == rebalancingTasks[k].pmaRange
        right == Smaller(I.right, effectivePmaSize)
    IN  IF I.left >= right THEN NoPiece
        ELSE Piece(k, <<I.left, -1>>, <<right, -1>>, 0)

\* The blocks of a thread, counted over all tasks, and the tasks they lie in.
rebalancingBlockRange(thread) ==
    ThreadBlockRange(thread, NumThreads, numberOfBlocksToRebalance)
rebalancingTaskRange(thread) ==
    LET r == rebalancingBlockRange(thread)
    IN  IF length(r) <= 0 THEN Interval(1, 1)
        ELSE Interval(findRebalancingTask(r.left), findRebalancingTask(r.right) + 1)

\* The first and the last task of a thread are partial, those between full.
partialTasks(range) == {range.left, range.right - 1}

rebalancingPieces(thread) ==
    LET range == rebalancingTaskRange(thread)
        piece(k) == IF k \in partialTasks(range)
                    THEN getPartialRebalancingRange(k, rebalancingBlockRange(thread))
                    ELSE fullRebalancingRange(k)
    IN  SelectSeq([n \in 1 .. length(range) |-> piece(range.left + n - 1)],
                  LAMBDA p : p # NoPiece)

\* while (c <= newSize) c *= 2, if c has to grow at all.
Doubled(c, newSize) ==
    LET powers == { c * Pow2[k] : k \in 0 .. newSize }
    IN  IF newSize < c THEN c
        ELSE CHOOSE d \in powers :
                d > newSize /\ \A e \in powers : e > newSize => d <= e

\* B-4 and B-5(a), first region: the swap array grows to the end of the last
\* task, and every thread computes its pieces.
distribute ==
    LET last == rebalancingTasks[Len(rebalancingTasks)]
        newSize == Larger(size, last.pmaRange.right)
    IN  /\ phase = "distribute"
        /\ newPmaSize' = newSize
        /\ swapCapacity' = Doubled(swapCapacity, newSize)
        /\ swapPma' = IF swapCapacity' # swapCapacity THEN Array(swapCapacity')
                      ELSE swapPma
        /\ items' = [t \in Threads |-> rebalancingPieces(t)]
        /\ work' = items'
        /\ phase' = "rebalance"
        /\ UNCHANGED <<size, capacity, pma, bufferArray, bufferPointers,
                       recountingNodesMap, rebalancingNodes, managerVars>>
-----------------------------------------------------------------------------
(* The parallel regions.                                                   *)

\* Mutant: the blocks of an entry are written in reverse.
Written_Reversed(array, out, blocks) ==
    [i \in DOMAIN array |-> IF i - out \in 0 .. Len(blocks) - 1
                            THEN blocks[Len(blocks) - (i - out)] ELSE array[i]]

\* The array with the blocks of the sequence written from index `out` on.
Written(array, out, blocks) ==
    [i \in DOMAIN array |-> IF i - out \in 0 .. Len(blocks) - 1
                            THEN blocks[i - out + 1] ELSE array[i]]

Removed(array, indices) ==
    [i \in DOMAIN array |-> IF i \in indices THEN 0 ELSE array[i]]

\* rebalanceBlocks: one pma entry of the thread's current piece, with its
\* buffer blocks; or the end of the piece.
rebalanceBlocks(t) ==
    LET piece == Head(work[t])
        i == piece.at[1]
        ownBlock == piece.at[2] = -1 /\ ~empty(i)
        bufferStart == bufferPointers[i].left + Larger(0, piece.at[2])
        bufferEnd == IF i = piece.end[1]
                     THEN bufferPointers[i].left + piece.end[2]
                     ELSE bufferPointers[i].right
        fromBuffer == SelectSeq([k \in 1 .. Larger(0, bufferEnd - bufferStart) |->
                                   bufferArray[bufferStart + k - 1]],
                                LAMBDA b : b # 0)
        blocks == (IF ownBlock THEN <<pma[i]>> ELSE <<>>) \o fromBuffer
    IN  /\ phase = "rebalance"
        /\ work[t] # <<>>
        /\ clearRebalancedFlag(rebalancingTasks[piece.task].rootNode)
        /\ IF Before(piece.at, piece.end)
           THEN /\ swapPma' = Written(swapPma, piece.out, blocks)
                /\ pma' = IF ownBlock THEN [pma EXCEPT ![i] = 0] ELSE pma
                /\ bufferArray' = Removed(bufferArray, bufferStart .. bufferEnd - 1)
                /\ work' = [work EXCEPT ![t][1] =
                              [@ EXCEPT !.at = <<i + 1, -1>>,
                                        !.out = @ + Len(blocks)]]
           ELSE /\ work' = [work EXCEPT ![t] = Tail(@)]
                /\ UNCHANGED <<swapPma, pma, bufferArray>>
        /\ UNCHANGED <<phase, size, capacity, swapCapacity, bufferPointers,
                       recountingNodesMap, rebalancingNodes, aggregates,
                       managerSize, logCapacity, nextLevelRecountingNodes, level,
                       todo, taskVars, newPmaSize, items>>

RegionDone == \A t \in Threads : work[t] = <<>>

\* The barrier after the region, and B-6.
endRebalance ==
    /\ phase = "rebalance"
    /\ RegionDone
    /\ resize(newPmaSize)
    /\ work' = items
    /\ phase' = "clear"
    /\ UNCHANGED <<arrayVars, recountingNodesMap, rebalancingNodes,
                   nextLevelRecountingNodes, level, todo, taskVars,
                   newPmaSize, items>>

\* B-7: the buffer pointers of one piece.
clearBufferBlockPointers(t) ==
    LET piece == Head(work[t])
        cleared == { i \in DOMAIN bufferPointers :
                       /\ i >= piece.start[1]
                       /\ Before(<<i, piece.start[2]>>, piece.end) }
    IN  /\ phase = "clear"
        /\ work[t] # <<>>
        /\ bufferPointers' = [i \in DOMAIN bufferPointers |->
                                IF i \in cleared THEN NullInterval
                                ELSE bufferPointers[i]]
        /\ work' = [work EXCEPT ![t] = Tail(@)]
        /\ UNCHANGED <<phase, size, capacity, swapCapacity, pma, swapPma,
                       bufferArray, recountingNodesMap, rebalancingNodes,
                       managerVars, newPmaSize, items>>

\* Rewriting n blocks from swap index `from` on, spread over a range of the pma; with
\* no blocks there is nothing to do.
Rewrite(from, range, n) ==
    [from |-> from, range |-> range, blocks |-> n, number |-> 0]

partialRewriting(k, blockRange) ==
    LET task == rebalancingTasks[k]
        r == localBlockRange(k, blockRange)
        write(n) == getUniformWriteIndex(task.pmaRange.left, n,
                        length(task.pmaRange), task.numberOfBlocks)
    IN  IF length(r) = 0 THEN Rewrite(0, NullInterval, 0)
        ELSE Rewrite(task.pmaRange.left + r.left,
                     Interval(write(r.left), write(r.right)), length(r))

fullRewriting(k) ==
    Rewrite(rebalancingTasks[k].pmaRange.left, rebalancingTasks[k].pmaRange,
            rebalancingTasks[k].numberOfBlocks)

\* Mutant: the loop over the full tasks includes the last one.
rewritingPiece_LastFull(thread, k) ==
    IF k = rebalancingTaskRange(thread).left
    THEN partialRewriting(k, rebalancingBlockRange(thread))
    ELSE fullRewriting(k)

rewritingPiece(thread, k) ==
    IF k \in partialTasks(rebalancingTaskRange(thread))
    THEN partialRewriting(k, rebalancingBlockRange(thread))
    ELSE fullRewriting(k)

rewritingPieces(thread) ==
    LET range == rebalancingTaskRange(thread)
    IN  [n \in 1 .. length(range) |-> rewritingPiece(thread, range.left + n - 1)]

\* The barrier after the region, B-8, and the start of B-9.  A grown swap array
\* makes resizeMainPma allocate a new pma and new buffer pointers.
resizeMainPma ==
    /\ phase = "clear"
    /\ RegionDone
    /\ size' = newPmaSize
    /\ capacity' = swapCapacity
    /\ pma' = IF swapCapacity # capacity THEN Array(swapCapacity) ELSE pma
    /\ bufferPointers' = IF swapCapacity # capacity THEN Pointers(swapCapacity)
                         ELSE bufferPointers
    /\ work' = [t \in Threads |-> rewritingPieces(t)]
    /\ phase' = "rewrite"
    /\ UNCHANGED <<swapCapacity, swapPma, bufferArray, recountingNodesMap,
                   rebalancingNodes, managerVars, newPmaSize, items>>

\* B-9: one block of the thread's current piece.
rewriteBlocks(t) ==
    LET piece == Head(work[t])
        source == piece.from + piece.number
        writeIndex == getUniformWriteIndex(piece.range.left, piece.number,
                                           length(piece.range), piece.blocks)
    IN  /\ phase = "rewrite"
        /\ work[t] # <<>>
        /\ IF piece.number < piece.blocks
           THEN /\ addRecountingNode(writeIndex, FALSE)
                /\ pma' = [pma EXCEPT ![writeIndex] = swapPma[source]]
                /\ swapPma' = [swapPma EXCEPT ![source] = 0]
                /\ work' = [work EXCEPT ![t][1].number = @ + 1]
           ELSE /\ work' = [work EXCEPT ![t] = Tail(@)]
                /\ UNCHANGED <<recountingNodesMap, pma, swapPma>>
        /\ UNCHANGED <<phase, size, capacity, swapCapacity, bufferArray,
                       bufferPointers, rebalancingNodes, managerVars, newPmaSize,
                       items>>

\* The barrier after the region, and B-10.
endRewrite ==
    /\ phase = "rewrite"
    /\ RegionDone
    /\ rebalancingTasks' = <<>>
    /\ prefixNumberOfRebalancingBlocks' = <<>>
    /\ items' = NoWork
    /\ newPmaSize' = 0
    /\ phase' = "idle"
    /\ UNCHANGED <<arrayVars, recountingNodesMap, rebalancingNodes, aggregates,
                   rebalanced, managerSize, logCapacity,
                   nextLevelRecountingNodes, level, todo, work>>

threadStep(t) ==
    rebalanceBlocks(t) \/ clearBufferBlockPointers(t) \/ rewriteBlocks(t)
=============================================================================
