----------------------------- MODULE BlockChain -----------------------------
(***************************************************************************)
(* The blocks of an array in key order, and the calls of their methods     *)
(* that BatchedSparseArray and OverallocatedBatchedSparseArray make: a     *)
(* part of a batch goes to the block whose range of keys contains it.      *)
(* What is at stake are the slots that are not in use: insertWithIndex     *)
(* and merge take a key that they find there for an element of the block.  *)
(***************************************************************************)
EXTENDS BlockMerge, FiniteSets, Functions

CONSTANTS
    FasterMergeMinimum,     \* from this number of elements on mergeFaster is used
    Universe,               \* bound: the keys
    MaxBlocks               \* bound: blocks in the chain

ASSUME ChainAssumption ==
    /\ FasterMergeMinimum \in Nat /\ MaxBlocks \in Nat \ {0}
    /\ Universe \subseteq Nat \ {0} /\ IsFiniteSet(Universe)

VARIABLES
    chain,      \* the blocks in key order
    work,       \* what insertIntoBlockWithSplit holds while it runs
    keys        \* history: the keys of the set that the blocks stand for

vars == <<chain, work, keys>>

Idle == [active |-> FALSE]

\* The parts of a sorted batch.
Batches == UNION { { part \in [1 .. n -> Universe] :
                        \A j \in 1 .. n : \A i \in 1 .. j - 1 : part[i] < part[j] } :
                   n \in 0 .. Cardinality(Universe) }

\* The keys that the searches of the array send to block k: from its head to the
\* next head, for the first block also those below its head.
KeyRange(k) == { e \in Universe : /\ k = 1 \/ chain[k].head <= e
                                  /\ k = Len(chain) \/ e < chain[k + 1].head }

\* The keys between the blocks k and k + 1.
Gap(k) == { e \in Universe : /\ k = 0 \/ LastKey(chain[k]) < e
                             /\ k = Len(chain) \/ e < chain[k + 1].head }

Init == chain = <<>> /\ work = Idle /\ keys = {}

\* A new block between the blocks k and k + 1, filled by merge in BatchedSparseArray
\* and by mergeFaster in OverallocatedBatchedSparseArray (insertIntoEmptyRange).
insertNewBlock(k, part) ==
    /\ ~work.active /\ Len(chain) < MaxBlocks
    /\ Len(part) \in 1 .. MaxSize
    /\ Range(part) \subseteq Gap(k)
    /\ \E filled \in { merge(newBlock, part), mergeFaster(newBlock, part) } :
          chain' = SubSeq(chain, 1, k) \o <<filled>> \o SubSeq(chain, k + 1, Len(chain))
    /\ keys' = keys \cup Range(part)
    /\ UNCHANGED work

insertIntoBlockWithoutSplit(k, part) ==
    /\ ~work.active
    /\ part # <<>> /\ Range(part) \subseteq KeyRange(k)
    /\ chain[k].size + Len(part) <= MaxSize
    /\ chain' = [chain EXCEPT ![k] = IF Len(part) >= FasterMergeMinimum
                                     THEN mergeFaster(@, part)
                                     ELSE merge(@, part)]
    /\ keys' = keys \cup Range(part)
    /\ UNCHANGED work

\* insertIntoBlockWithSplit up to its loop.
insertIntoBlockWithSplit(k, part) ==
    /\ ~work.active
    /\ Range(part) \subseteq KeyRange(k)
    /\ chain[k].size + Len(part) > MaxSize
    /\ work' = [active |-> TRUE, block |-> k, batch |-> part,
                insertionBlock |-> chain[k], rightHalf |-> <<>>,
                lastInsertionIndex |-> 0, written |-> <<>>]
    /\ keys' = keys \cup Range(part)
    /\ UNCHANGED chain

\* Mutant: an element equal to the head of the right half stays with the left one.
switched_Strict(w) ==
    IF w.rightHalf # <<>> /\ w.rightHalf[1].head < Head(w.batch)
    THEN [w EXCEPT !.written = Append(@, w.insertionBlock),
                   !.insertionBlock = w.rightHalf[1],
                   !.rightHalf = <<>>, !.lastInsertionIndex = 0]
    ELSE w

\* The next element goes to the right half: the left one is finished.
switched(w) ==
    IF w.rightHalf # <<>> /\ w.rightHalf[1].head <= Head(w.batch)
    THEN [w EXCEPT !.written = Append(@, w.insertionBlock),
                   !.insertionBlock = w.rightHalf[1],
                   !.rightHalf = <<>>, !.lastInsertionIndex = 0]
    ELSE w

inserted(w) ==
    LET r == insertWithIndex(w.insertionBlock, Head(w.batch), w.lastInsertionIndex)
    IN  [w EXCEPT !.insertionBlock = r.block, !.lastInsertionIndex = r.index,
                  !.batch = Tail(@)]

\* Mutant: the second half of a second split is where the search goes on.
splitFull_KeepIndex(w) ==
    LET halves == split(w.insertionBlock)
    IN  IF w.rightHalf # <<>>
        THEN [w EXCEPT !.written = Append(@, halves.left), !.insertionBlock = halves.right]
        ELSE [w EXCEPT !.insertionBlock = halves.left, !.rightHalf = <<halves.right>>]

\* A full block is split.  If there is a right half already, the next element is
\* known to go to the new block; if not, the new block becomes the right half and
\* lastInsertionIndex stays.
splitFull(w) ==
    LET halves == split(w.insertionBlock)
    IN  IF w.rightHalf # <<>>
        THEN [w EXCEPT !.written = Append(@, halves.left),
                       !.insertionBlock = halves.right, !.lastInsertionIndex = 0]
        ELSE [w EXCEPT !.insertionBlock = halves.left, !.rightHalf = <<halves.right>>]

\* One iteration of the loop of insertIntoBlockWithSplit.
insertNext ==
    /\ work.active /\ work.batch # <<>>
    /\ work' = LET w == switched(work)
               IN  IF w.insertionBlock.size < MaxSize THEN inserted(w) ELSE splitFull(w)
    /\ UNCHANGED <<chain, keys>>

\* The end of insertIntoBlockWithSplit: the blocks take the place of block k.
writeBlocks ==
    /\ work.active /\ work.batch = <<>>
    /\ chain' = SubSeq(chain, 1, work.block - 1) \o Append(work.written, work.insertionBlock)
                \o work.rightHalf \o SubSeq(chain, work.block + 1, Len(chain))
    /\ work' = Idle
    /\ UNCHANGED keys

\* Two neighbours of which one is too small are merged, or share their elements
\* (postprocessInverseMergeTasks).
mergeNeighbours(k) ==
    /\ ~work.active
    /\ chain[k].size < MinSize \/ chain[k + 1].size < MinSize
    /\ chain' = IF chain[k].size + chain[k + 1].size < MaxSize
                THEN SubSeq(chain, 1, k - 1)
                     \o <<mergeSmaller(chain[k + 1], chain[k])>>
                     \o SubSeq(chain, k + 2, Len(chain))
                ELSE IF chain[k].size < MinSize
                THEN LET s == steal(chain[k], chain[k + 1])
                     IN  [chain EXCEPT ![k] = s.this, ![k + 1] = s.right]
                ELSE LET s == stealFromSmaller(chain[k + 1], chain[k])
                     IN  [chain EXCEPT ![k] = s.left, ![k + 1] = s.this]
    /\ UNCHANGED <<work, keys>>

Next ==
    \/ \E k \in 0 .. Len(chain), part \in Batches : insertNewBlock(k, part)
    \/ \E k \in 1 .. Len(chain), part \in Batches : insertIntoBlockWithoutSplit(k, part)
    \/ \E k \in 1 .. Len(chain), part \in Batches : insertIntoBlockWithSplit(k, part)
    \/ insertNext
    \/ writeBlocks
    \/ \E k \in 1 .. Len(chain) - 1 : mergeNeighbours(k)

Spec == Init /\ [][Next]_vars

-----------------------------------------------------------------------------
(* Properties.                                                             *)

Open == IF work.active
        THEN Append(work.written, work.insertionBlock) \o work.rightHalf ELSE <<>>
All == IF work.active
       THEN SubSeq(chain, 1, work.block - 1) \o Open \o SubSeq(chain, work.block + 1, Len(chain))
       ELSE chain

\* Every block, those in work included, is well-formed: its elements increase, are
\* not NULL_KEY, and its head is its first element.
TypeOK ==
    \A k \in 1 .. Len(All) :
        LET b == All[k]
        IN  /\ b \in Blocks /\ b.size > 0 /\ b.head = b.slots[0]
            /\ \A i \in 0 .. b.size - 1 : b.slots[i] # 0
            /\ \A i \in 0 .. b.size - 2 : b.slots[i] < b.slots[i + 1]

\* No element is lost and none appears twice: whatever was merged, inserted, split
\* off or moved to a neighbour, the blocks hold the keys of the set, each in the
\* one block that a search for it ends in.
NothingLost ==
    /\ (UNION { Keys(All[k]) : k \in 1 .. Len(All) })
          \cup (IF work.active THEN Range(work.batch) ELSE {}) = keys
    /\ \A k \in 1 .. Len(All) - 1 : LastKey(All[k]) < All[k + 1].head

\* A slot that is not in use holds nothing that could be mistaken for a key to be
\* inserted behind the last element: NULL_KEY, a key that is not above the last
\* element, or one that belongs to a later block.
StaleSlotsHarmless ==
    \A k \in 1 .. Len(All) :
        \A i \in All[k].size .. MaxSize - 1 :
            LET key == All[k].slots[i]
            IN  \/ key = 0
                \/ key <= LastKey(All[k])
                \/ k < Len(All) /\ All[k + 1].head <= key

\* The search hint is good: when the next element of the batch goes into the
\* insertion block, all elements before lastInsertionIndex are smaller, and the
\* index is not behind the elements that a split has left.
HintValid ==
    work.active /\ work.batch # <<>> =>
        LET w == switched(work)
        IN  w.insertionBlock.size < MaxSize =>
              /\ w.lastInsertionIndex <= w.insertionBlock.size
              /\ \A i \in 0 .. w.lastInsertionIndex - 1 :
                    w.insertionBlock.slots[i] < Head(w.batch)

\* The search of insertWithIndex may be trusted, for all that it reads: neither the
\* hint of the last insertion nor a value left above the size of a block misleads it.
SearchSound == StaleSlotsHarmless /\ HintValid
=============================================================================
