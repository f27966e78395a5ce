-------------------------- MODULE RebalancingPhase --------------------------
(***************************************************************************)
(* The rebalancing half of insertBatch, repeated: the insertion half is    *)
(* one step that replaces some blocks by buffer blocks; then the manager   *)
(* updates its tree, the tasks are collected and executed, and the next    *)
(* batch follows.                                                          *)
(***************************************************************************)
EXTENDS Rebalance

CONSTANTS
    MaxBlocks,      \* bound: blocks in the array
    MaxSplit,       \* bound: buffer blocks that replace one block
    MaxOrigins      \* bound: blocks replaced by one batch

ASSUME BoundsAssumption == MaxBlocks \in Nat /\ MaxSplit \in Nat /\ MaxOrigins \in Nat

VARIABLES
    blocks,         \* history: the number of blocks created and not yet replaced
    coveredGrowth   \* history: see GrowthCovered

historyVars == <<blocks, coveredGrowth>>
vars == <<phase, arrayVars, recountingNodesMap, rebalancingNodes, managerVars,
          rebalanceVars, historyVars>>

Init ==
    /\ InitArrays
    /\ InitManager
    /\ InitRebalance
    /\ blocks = 0
    /\ coveredGrowth = TRUE

NoBufferBlocks == \A i \in DOMAIN bufferPointers : bufferPointers[i] = NullInterval

\* The insertion half (A): every block of `origins` is emptied and replaced by
\* split[i] buffer blocks; the first batch fills entry 0.  Splitting a block and
\* the inverse merge both leave the arrays in such a state.  The entry's segment
\* is to be recounted and rebalanced.  The ranks are those of the new order.
insertBlocks(origins, split) ==
    LET at(i) == IF i \in origins THEN split[i] ELSE BlocksAt(i)
        first(i) == 1 + SumOf([k \in 1 .. i |-> at(k - 1)], i)
        isOrigin(i) == IF i \in origins THEN 1 ELSE 0
        bufferStart(i) == MaxSplit * SumOf([k \in 1 .. i |-> isOrigin(k - 1)], i)
        segments == { lowestLevelNodeIndex(i) : i \in origins }
    IN  /\ blocks' = first(effectivePmaSize) - 1
        /\ blocks' <= MaxBlocks
        /\ pma' = [i \in DOMAIN pma |->
                     IF i \in origins \/ empty(i) THEN 0 ELSE first(i)]
        /\ bufferPointers' =
              [i \in DOMAIN pma |->
                 IF i \in origins
                 THEN Interval(bufferStart(i), bufferStart(i) + split[i])
                 ELSE NullInterval]
        /\ bufferArray' =
              [k \in 0 .. MaxSplit * Cardinality(origins) - 1 |->
                 LET owner == {i \in origins : contains(bufferPointers'[i], k)}
                 IN  IF owner = {} THEN 0
                     ELSE LET i == CHOOSE o \in owner : TRUE
                          IN  first(i) + k - bufferStart(i)]
        /\ recountingNodesMap' =
              [s \in DOMAIN recountingNodesMap \cup segments |->
                 s \in segments \/ recountingNodesMap[s]]
        /\ phase' = "update"
        /\ StartUpdate
        /\ UNCHANGED <<size, capacity, swapCapacity, swapPma, rebalancingNodes,
                       aggregates, rebalanced, managerSize, logCapacity,
                       nextLevelRecountingNodes, taskVars,
                       rebalanceVars, coveredGrowth>>

\* A batch that lands in the blocks of `origins`.  The model follows the array
\* only while its buffers are merged and its growth was covered.
insertBatch ==
    LET occupied == IF size = 0 THEN {0} ELSE { i \in 0 .. size - 1 : ~empty(i) }
    IN  /\ phase = "idle"
        /\ NoBufferBlocks /\ coveredGrowth
        /\ \E origins \in SUBSET occupied :
              /\ origins # {} /\ Cardinality(origins) <= MaxOrigins
              /\ \E split \in [origins -> 1 .. MaxSplit] : insertBlocks(origins, split)

\* The tasks of this batch leave nothing behind when an array or the tree is
\* replaced by a larger one, and the last task ends no earlier than any other.
GrowthCovered ==
    LET newSize == Larger(size, rebalancingTasks[Len(rebalancingTasks)].pmaRange.right)
        replaced == \/ Doubled(swapCapacity, newSize) # capacity
                    \/ lowestLevelNodeIndex(newSize) + 1 > Pow2[logCapacity]
    IN  /\ \A k \in 1 .. Len(rebalancingTasks) : rebalancingTasks[k].pmaRange.right <= newSize
        /\ replaced => numberOfBlocksToRebalance = blocks

\* The actions of the manager leave the variables of the execution alone.
managerStep ==
    /\ \/ \E i \in todo : updateNode(i)
       \/ nextLevel
       \/ finishUpdate
       \/ collectTask
       \/ endCollect
    /\ UNCHANGED <<rebalanceVars, historyVars>>

executionStep ==
    /\ \/ \E t \in Threads : threadStep(t)
       \/ endRebalance
       \/ resizeMainPma
       \/ endRewrite
    /\ UNCHANGED historyVars

distributeStep ==
    /\ distribute
    /\ coveredGrowth' = GrowthCovered
    /\ UNCHANGED blocks

Next == insertBatch \/ managerStep \/ distributeStep \/ executionStep

Spec == Init /\ [][Next]_vars

\* Once a batch has started, every thread runs to the end of its region and the
\* master goes on; nobody has to insert another batch.  distributeStep can be taken
\* whenever its phase has come, and is what ends that phase.
FairSpec ==
    /\ Spec
    /\ WF_vars(managerStep)
    /\ WF_phase(phase = "distribute" /\ phase' = "rebalance")
    /\ WF_vars(executionStep)
-----------------------------------------------------------------------------
(* Properties.                                                             *)

Blocks == 1 .. blocks
Nodes == TreeNodes(logCapacity)

\* The variables have their types: the arrays are as long as their capacities say,
\* there is one pair of buffer pointers per entry of the pma, and every index that
\* the manager keeps is a node of the tree of the current height, after resize too.
TypeOK ==
    /\ phase \in {"idle", "update", "collect", "distribute", "rebalance", "clear",
                  "rewrite"}
    /\ size \in Nat /\ capacity \in Nat /\ swapCapacity \in Nat
    /\ pma \in [0 .. capacity - 1 -> Blocks \cup {0}]
    /\ swapPma \in [0 .. swapCapacity - 1 -> Blocks \cup {0}]
    /\ \A i \in DOMAIN bufferArray : bufferArray[i] \in Blocks \cup {0}
    /\ DOMAIN bufferPointers = DOMAIN pma
    /\ DOMAIN recountingNodesMap \cup todo \subseteq 0 .. Pow2[logCapacity] - 1
    /\ aggregates \in [Nodes -> 0 .. MaxBlocks]
    /\ rebalanced \subseteq Nodes
    /\ \A k \in 1 .. Len(rebalancingNodes) : rebalancingNodes[k] \in Nodes

\* The number of places in which a block can be found.
Copies(b) ==
    Cardinality({ i \in DOMAIN pma : pma[i] = b /\ i < effectivePmaSize })
    + Cardinality({ i \in DOMAIN bufferArray : bufferArray[i] = b })
    + Cardinality({ i \in DOMAIN swapPma : swapPma[i] = b })

\* At every moment of the parallel rebalance each block is in exactly one of
\* pma, buffer array and swap array: no thread overwrites or forgets a block,
\* and no two threads move the same one.
BlocksConserved == coveredGrowth => \A b \in Blocks : Copies(b) = 1

\* The same without the restriction to covered growth: size, the "end of the region
\* of entries that might be used", lies behind every block written to the pma.
NoBlockLost == \A b \in Blocks : Copies(b) = 1

\* When resizeMainPma replaces the pma by a larger one, no block that
\* insertBatch has inserted is left in the old array.
GrowthKeepsBlocks ==
    phase = "clear" /\ RegionDone /\ swapCapacity # capacity =>
        \A i \in 0 .. size - 1 : pma[i] = 0

\* When insertBatch returns, the visible pma holds all the blocks that are not in
\* the buffer, in key order.
OrderRestored ==
    phase = "idle" /\ coveredGrowth =>
        \A i, j \in 0 .. size - 1 : i < j /\ ~empty(i) /\ ~empty(j) => pma[i] < pma[j]

\* The root is too full to be rebalanced but not full enough for the super root.
RootGap ==
    /\ aggregates[root] > maxBlocks(logCapacity, logCapacity)
    /\ aggregates[root] <= SegmentWidth * levelAggregateWidth(logCapacity)

Merged ==
    /\ NoBufferBlocks
    /\ \A i \in DOMAIN bufferArray : bufferArray[i] = 0
    /\ \A i \in DOMAIN swapPma : swapPma[i] = 0

\* insertBatch returns with every buffer block merged into the pma, all buffer
\* pointers cleared and the swap array empty, unless the root is in the gap.
BuffersMerged == phase = "idle" /\ coveredGrowth => Merged \/ RootGap

\* The same without the exception: the buffer array holds new blocks only "between
\* their creation and insertion and the merge with the pma in rebalancing" of the
\* same insertBatch.
AlwaysMerged == phase = "idle" /\ coveredGrowth => Merged

\* After update() every node of the tree has the number of blocks below it,
\* although only the nodes below which something changed are recounted.
AggregatesExact ==
    phase \in {"collect", "distribute"} /\ coveredGrowth =>
        \A l \in 0 .. logCapacity :
            LET width == SegmentWidth * levelAggregateWidth(l)
            IN  \A i \in 0 .. Pow2[logCapacity - l] - 1 :
                    aggregates[Node(l, i)] = BlocksBetween(i * width, (i + 1) * width)

\* Outside of update() every inner node counts what its two children count: the part
\* of validate() that does not look at the array.
TreeConsistent ==
    phase # "update" =>
        \A l \in 1 .. logCapacity : \A i \in 0 .. Pow2[logCapacity - l] - 1 :
            aggregates[Node(l, i)] = Recount(Node(l, i))

\* The tasks that survive the dominance check are disjoint and each has room for its
\* blocks: "Duplicate rebalancing task!" and "Overlapping rebalancing task!" of B-3.
TasksApart ==
    LET tasks == rebalancingTasks
    IN  /\ \A j, k \in 1 .. Len(tasks) :
              j # k => /\ tasks[j].rootNode # tasks[k].rootNode
                       /\ ~overlaps(tasks[j].pmaRange, tasks[k].pmaRange)
        /\ \A k \in 1 .. Len(tasks) :
              tasks[k].numberOfBlocks <= length(tasks[k].pmaRange)

\* No two pieces of work of B-9, of one thread or of two, read the same entry of the
\* swap array or write the same entry of the pma, and each has room for its blocks: the
\* parallel region has no data race on the arrays, and no block overwrites another.
RewritesApart ==
    LET source(p) == Interval(p.from, p.from + p.blocks)
    IN  phase = "rewrite" =>
            \A t, u \in Threads : \A n \in 1 .. Len(work[t]), m \in 1 .. Len(work[u]) :
                LET p == work[t][n]
                    q == work[u][m]
                IN  /\ p.blocks <= length(p.range)
                    /\ <<t, n>> # <<u, m>> /\ p.blocks > 0 /\ q.blocks > 0 =>
                          ~overlaps(p.range, q.range) /\ ~overlaps(source(p), source(q))

\* Every task has blocks, and every entry with buffer blocks belongs to a task.
TasksCover ==
    phase = "distribute" =>
        /\ \A k \in 1 .. Len(rebalancingTasks) : rebalancingTasks[k].numberOfBlocks > 0
        /\ \A i \in DOMAIN bufferPointers :
              numberOfBufferBlocks(i) > 0 =>
                  \/ RootGap
                  \/ \E k \in 1 .. Len(rebalancingTasks) :
                        contains(rebalancingTasks[k].pmaRange, i)

\* No rebalanced flag outlives the batch: a stale one would keep later requests
\* of the nodes below it from being executed.
FlagsCleared == phase = "idle" => rebalanced = {}

\* A node of the current level with more blocks than its range holds has been asked
\* to rebalance, by the insertions or by its children, and the request has survived
\* the other insertions into the map: such a node is never only recounted.
OverfullRequested ==
    phase = "update" =>
        \A i \in todo :
            Recount(Node(level, i)) <= SegmentWidth * levelAggregateWidth(level)
            \/ recountingNodesMap[i]

\* insertBatch returns: update() reaches the root, every thread of every parallel
\* region comes to the end of its share, and every barrier opens.
BatchReturns == phase # "idle" ~> phase = "idle"

\* When insertBatch returns the blocks are in key order and none is left in the buffer
\* or the swap array: the queries, which read the pma only, see all of them.
ArrayRestored == OrderRestored /\ BuffersMerged

\* update() is right: exact counts when the tasks are chosen, although only changed
\* parts are recounted; no request is lost on the way up, and the tasks that come of
\* them cover every buffer block; and no flag outlives the batch.
UpdateSound == AggregatesExact /\ OverfullRequested /\ TasksCover /\ FlagsCleared

\* The work is divided soundly, among the tasks and among the threads.
TasksSound == TreeConsistent /\ TasksApart /\ RewritesApart
=============================================================================
