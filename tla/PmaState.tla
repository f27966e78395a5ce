------------------------------ MODULE PmaState ------------------------------
(***************************************************************************)
(* The arrays of BatchedSparseArray that its rebalancing half and the      *)
(* rebalancing manager share.  Block contents do not matter to them: a     *)
(* block is its rank, 1, 2, ..., in the order of the keys, and 0 is an     *)
(* empty entry.  An array is a function whose domain is what is allocated. *)
(***************************************************************************)
EXTENDS Geometry, Sequences, FiniteSets

CONSTANT InitialArrayCapacity     \* of pma, swap array and buffer array

ASSUME PmaStateAssumption == InitialArrayCapacity \in Nat \ {0}

VARIABLES
    phase,                  \* the step of insertBatch that is executing
    size, capacity, swapCapacity,
    pma, swapPma,
    bufferArray, bufferPointers,
    recountingNodesMap,     \* from level 0 nodes to needsRebalancing
    rebalancingNodes        \* in the order of emplace_back

arrayVars == <<size, capacity, swapCapacity, pma, swapPma, bufferArray,
               bufferPointers>>

Array(length_) == [i \in 0 .. length_ - 1 |-> 0]
Pointers(length_) == [i \in 0 .. length_ - 1 |-> NullInterval]

\* The concurrent map of BucketMap, in which an insertion is atomic.
NoNodes == [i \in {} |-> FALSE]

\* Mutant: an insertion replaces the flag instead of combining it.
mapInsert_Replace(m, index, needsRebalancing) ==
    [i \in DOMAIN m \cup {index} |-> IF i = index THEN needsRebalancing ELSE m[i]]

mapInsert(m, index, needsRebalancing) ==
    [i \in DOMAIN m \cup {index} |->
        \/ i \in DOMAIN m /\ m[i]
        \/ i = index /\ needsRebalancing]

\* Mutant: only segments that need rebalancing are recounted.
addRecountingNode_OnlyRequests(blockIndex, needsRebalancing) ==
    recountingNodesMap' =
        IF needsRebalancing
        THEN mapInsert(recountingNodesMap, lowestLevelNodeIndex(blockIndex), TRUE)
        ELSE recountingNodesMap

addRecountingNode(blockIndex, needsRebalancing) ==
    recountingNodesMap' =
        mapInsert(recountingNodesMap, lowestLevelNodeIndex(blockIndex), needsRebalancing)

\* Entry 0 is in use even while size is 0.
effectivePmaSize == Larger(1, size)

empty(i) == i >= size \/ pma[i] = 0
numberOfBufferBlocks(i) == length(bufferPointers[i])

BlocksAt(i) == (IF empty(i) THEN 0 ELSE 1) + numberOfBufferBlocks(i)

\* The sum of the first n numbers of a sequence, added up one after the other.
SumOf(f, n) ==
    LET sum[k \in 0 .. n] == IF k = 0 THEN 0 ELSE sum[k - 1] + f[k]
    IN  sum[n]

\* The blocks of the pma indices from .. to - 1 that are in use.
BlocksBetween(from, to) ==
    LET n == Larger(0, Smaller(to, effectivePmaSize) - from)
    IN  SumOf([k \in 1 .. n |-> BlocksAt(from + k - 1)], n)

InitArrays ==
    /\ phase = "idle"
    /\ size = 0
    /\ capacity = InitialArrayCapacity
    /\ swapCapacity = InitialArrayCapacity
    /\ pma = Array(capacity)
    /\ swapPma = Array(swapCapacity)
    /\ bufferArray = <<>>
    /\ bufferPointers = Pointers(capacity)
    /\ recountingNodesMap = NoNodes
    /\ rebalancingNodes = <<>>
=============================================================================
