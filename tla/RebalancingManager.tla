------------------------- MODULE RebalancingManager -------------------------
(***************************************************************************)
(* BinaryRebalancingManager (dataStructures/binaryRebalancingManager.hpp): *)
(* the binary tree of block counts over the pma.  update() recounts the    *)
(* nodes below which something changed, level by level; on one level the   *)
(* threads update the nodes of the recounting map in any order.  It        *)
(* collects the nodes to rebalance, of which insertBatch (B-3) keeps those *)
(* that no other one contains.                                             *)
(***************************************************************************)
EXTENDS PmaState

CONSTANT LogInitialArrayCapacity

ASSUME ManagerAssumption == LogInitialArrayCapacity \in Nat \ {0}

VARIABLES
    aggregates,                 \* numberOfBlocks of every node
    rebalanced,                 \* the nodes whose rebalanced flag is set
    managerSize, logCapacity,   \* size and logCapacity; capacity is that power of two
    nextLevelRecountingNodes,
    level,                      \* the level update() is working on
    todo,                       \* entries of the map not yet visited on it
    rebalancingTasks,
    prefixNumberOfRebalancingBlocks     \* inclusive prefix sums over the tasks

taskVars == <<rebalancingTasks, prefixNumberOfRebalancingBlocks>>
managerVars == <<aggregates, rebalanced, managerSize, logCapacity,
                 nextLevelRecountingNodes, level, todo, taskVars>>

root == Node(logCapacity, 0)
superRoot == Node(logCapacity + 1, 0)

NoAggregates(log) == [node \in TreeNodes(log) |-> 0]

InitManager ==
    /\ logCapacity = LogInitialArrayCapacity
    /\ aggregates = NoAggregates(logCapacity)
    /\ rebalanced = {}
    /\ managerSize = 1
    /\ nextLevelRecountingNodes = NoNodes
    /\ level = 0
    /\ todo = {}
    /\ rebalancingTasks = <<>>
    /\ prefixNumberOfRebalancingBlocks = <<>>
-----------------------------------------------------------------------------
(* update()                                                                *)

\* The count of a node from the pma (level 0) or from its two children.
Recount(node) ==
    IF node.level = 0
    THEN BlocksBetween(node.index * SegmentWidth, (node.index + 1) * SegmentWidth)
    ELSE aggregates[Node(node.level - 1, leftChild(node.index))]
         + aggregates[Node(node.level - 1, rightChild(node.index))]

\* insertBatch enters update() with the entries the insertions have left.
StartUpdate ==
    /\ level' = 0
    /\ todo' = DOMAIN recountingNodesMap'

\* One entry of the recounting map on the current level.
updateNode(i) ==
    LET node == Node(level, i)
        needsRebalancing == recountingNodesMap[i]
        newNumberOfBlocks == Recount(node)
        withinThreshold == newNumberOfBlocks <= maxBlocks(level, logCapacity)
        changed == newNumberOfBlocks # aggregates[node] \/ ~withinThreshold
        mustBeAdded == needsRebalancing /\ withinThreshold /\ node \notin rebalanced
    IN  /\ phase = "update"
        /\ i \in todo
        /\ todo' = todo \ {i}
        /\ aggregates' = [aggregates EXCEPT ![node] =
                            IF changed THEN newNumberOfBlocks ELSE @]
        /\ nextLevelRecountingNodes' =
              IF changed
              THEN mapInsert(nextLevelRecountingNodes, parent(i),
                             needsRebalancing /\ ~withinThreshold)
              ELSE nextLevelRecountingNodes
        /\ rebalanced' = IF mustBeAdded THEN rebalanced \cup {node} ELSE rebalanced
        /\ rebalancingNodes' = IF mustBeAdded THEN Append(rebalancingNodes, node)
                               ELSE rebalancingNodes
        /\ UNCHANGED <<phase, arrayVars, recountingNodesMap, managerSize,
                       logCapacity, level, taskVars>>

\* Mutant: the maps are swapped but the level stays the same.
nextLevel_SameLevel ==
    /\ phase = "update"
    /\ todo = {}
    /\ level < logCapacity
    /\ recountingNodesMap' = nextLevelRecountingNodes
    /\ todo' = DOMAIN nextLevelRecountingNodes
    /\ nextLevelRecountingNodes' = NoNodes
    /\ UNCHANGED <<phase, arrayVars, rebalancingNodes, aggregates, rebalanced,
                   managerSize, logCapacity, level, taskVars>>

\* All nodes of a level are updated: the two maps are swapped.
nextLevel ==
    /\ phase = "update"
    /\ todo = {}
    /\ level < logCapacity
    /\ level' = level + 1
    /\ recountingNodesMap' = nextLevelRecountingNodes
    /\ todo' = DOMAIN nextLevelRecountingNodes
    /\ nextLevelRecountingNodes' = NoNodes
    /\ UNCHANGED <<phase, arrayVars, rebalancingNodes, aggregates, rebalanced,
                   managerSize, logCapacity, taskVars>>

\* After the root: more blocks than the root has room for need the super root.
finishUpdate ==
    LET overflow == aggregates[root] > SegmentWidth * levelAggregateWidth(logCapacity)
        add == overflow /\ superRoot \notin rebalanced
    IN  /\ phase = "update"
        /\ todo = {}
        /\ level = logCapacity
        /\ rebalanced' = IF add THEN rebalanced \cup {superRoot} ELSE rebalanced
        /\ rebalancingNodes' = IF add THEN Append(rebalancingNodes, superRoot)
                               ELSE rebalancingNodes
        /\ phase' = "collect"
        /\ UNCHANGED <<arrayVars, recountingNodesMap, aggregates, managerSize,
                       logCapacity, nextLevelRecountingNodes, level, todo,
                       taskVars>>
-----------------------------------------------------------------------------
(* B-3: the rebalancing tasks.                                             *)

\* Mutant: only the parent is looked at.
rebalancingNodeDominated_ParentOnly(node, flags) ==
    Node(node.level + 1, parent(node.index)) \in flags

rebalancingNodeDominated(node, flags) ==
    Ancestors(node, logCapacity) \cap flags # {}

\* The super root has no count of its own.
numberOfBlocks(node) ==
    aggregates[Node(Smaller(node.level, logCapacity), node.index)]

getRebalancingTask(node) ==
    [ pmaRange |-> rebalancingRange(node, logCapacity, aggregates[root]),
      numberOfBlocks |-> numberOfBlocks(node),
      rootNode |-> node ]

\* The prefix sums over the tasks; the code's indices start at 0.
prefixBlocks(k) == IF k = 0 THEN 0 ELSE prefixNumberOfRebalancingBlocks[k]

\* One iteration of the loop over the rebalancing nodes: a dominated node loses its
\* flag and makes no task.  The scan that follows the loop adds up the tasks in the
\* same order.
collectTask ==
    LET node == Head(rebalancingNodes)
        task == getRebalancingTask(node)
        sum  == prefixBlocks(Len(rebalancingTasks)) + task.numberOfBlocks
    IN  /\ phase = "collect"
        /\ rebalancingNodes # <<>>
        /\ IF rebalancingNodeDominated(node, rebalanced)
           THEN /\ rebalanced' = rebalanced \ {node}
                /\ UNCHANGED taskVars
           ELSE /\ rebalancingTasks' = Append(rebalancingTasks, task)
                /\ prefixNumberOfRebalancingBlocks' =
                      Append(prefixNumberOfRebalancingBlocks, sum)
                /\ UNCHANGED rebalanced
        /\ rebalancingNodes' = Tail(rebalancingNodes)
        /\ UNCHANGED <<phase, arrayVars, recountingNodesMap, aggregates, managerSize,
                       logCapacity, nextLevelRecountingNodes, level, todo>>

\* Without tasks insertBatch returns.
endCollect ==
    /\ phase = "collect"
    /\ rebalancingNodes = <<>>
    /\ phase' = IF rebalancingTasks = <<>> THEN "idle" ELSE "distribute"
    /\ UNCHANGED <<arrayVars, recountingNodesMap, rebalancingNodes, managerVars>>

\* Mutant: the flag stays set.
clearRebalancedFlag_Skipped(node) == rebalanced' = rebalanced

clearRebalancedFlag(node) == rebalanced' = rebalanced \ {node}
-----------------------------------------------------------------------------
(* B-6: a larger tree starts from nothing.                                 *)

\* Mutant: a grown tree keeps its old aggregates.
resize_KeepAggregates(newSdsSize) ==
    LET newSize == lowestLevelNodeIndex(newSdsSize) + 1
    IN  /\ managerSize' = newSize
        /\ logCapacity' = IF newSize > Pow2[logCapacity] THEN logCapacity + 1 ELSE logCapacity
        /\ UNCHANGED <<aggregates, rebalanced>>

resize(newSdsSize) ==
    LET newSize == lowestLevelNodeIndex(newSdsSize) + 1
        grows == newSize # managerSize /\ newSize > Pow2[logCapacity]
        newLog == CHOOSE l \in logCapacity .. logCapacity + newSize :
                     /\ Pow2[l] > newSize
                     /\ \A k \in logCapacity .. l - 1 : Pow2[k] <= newSize
    IN  /\ managerSize' = newSize
        /\ logCapacity' = IF grows THEN newLog ELSE logCapacity
        /\ aggregates' = IF grows THEN NoAggregates(newLog) ELSE aggregates
        /\ rebalanced' = IF grows THEN {} ELSE rebalanced
=============================================================================
