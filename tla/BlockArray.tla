----------------------------- MODULE BlockArray -----------------------------
(***************************************************************************)
(* What BatchedSparseArray and OverallocatedBatchedSparseArray have in     *)
(* common (dataStructures/batchedSparseArray.hpp): the array of blocks,    *)
(* the insertion into a block that has to be split, and the queries.  A    *)
(* block is the set of its keys: it stores them sorted and without         *)
(* duplicates.                                                             *)
(***************************************************************************)
EXTENDS Search, SequencesExt

CONSTANT Settings   \* a record of parameters and bounds for every array that is checked

ASSUME BlockAssumption ==
    \A s \in DOMAIN Settings :
        /\ Settings[s].BlockSize \in Nat \ {0} /\ Settings[s].BlockSize % 2 = 0
        /\ Settings[s].NumThreads \in Nat \ {0} /\ Settings[s].MaxBatches \in Nat
        /\ Settings[s].Keys \cup Settings[s].Queries \subseteq Nat \ {0}
        /\ \A b \in Settings[s].Batches :
              b \subseteq Settings[s].Keys /\ Cardinality(b) >= Settings[s].NumThreads

VARIABLES
    setting,        \* which of the Settings the array has; it never changes
    pma             \* from 0 .. size - 1 to sets of keys

BlockSize == Settings[setting].BlockSize
MinBlockSize == BlockSize \div 2
NumThreads == Settings[setting].NumThreads      \* numberOfThreads
Keys == Settings[setting].Keys                  \* bound: the keys
Queries == Settings[setting].Queries            \* bound: the keys that are looked for
Batches == Settings[setting].Batches            \* bound: the sets of keys that are inserted
MaxBatches == Settings[setting].MaxBatches      \* bound: batches in a behaviour
AllBatches == UNION { Settings[s].Batches : s \in DOMAIN Settings }

pmaSize == Cardinality(DOMAIN pma)
headOf(block) == IF block = {} THEN 0 ELSE Min(block)
heads == [i \in DOMAIN pma |-> headOf(pma[i])]
blockAt(i) == IF i \in DOMAIN pma THEN pma[i] ELSE {}
Contents == UNION { pma[i] : i \in DOMAIN pma }
RECURSIVE Sorted(_)
Sorted(keys) == IF keys = {} THEN <<>> ELSE <<Min(keys)>> \o Sorted(keys \ {Min(keys)})
-----------------------------------------------------------------------------
(* Blocks.                                                                 *)

\* The n smallest keys; a split leaves them and moves the others.
Lowest(n, keys) == { k \in keys : Cardinality({ j \in keys : j < k }) < n }
lowerHalf(keys) == Lowest(BlockSize \div 2, keys)
upperHalf(keys) == keys \ lowerHalf(keys)

\* insertIntoBlockWithSplit: the loop over the elements `todo` that go into the
\* block; `out` are the blocks written so far.
RECURSIVE splitLoop(_, _, _, _)
\* Mutant: the right half is written at the end even if there is none.
splitLoop_AlwaysRight(block, rightHalf, todo, out) ==
    LET next == Min(todo)
    IN  IF todo = {}
        THEN out \o <<block, rightHalf>>
        ELSE IF rightHalf # {} /\ headOf(rightHalf) <= next
        THEN splitLoop(rightHalf, {}, todo, Append(out, block))
        ELSE IF Cardinality(block) < BlockSize
        THEN splitLoop(block \cup {next}, rightHalf, todo \ {next}, out)
        ELSE IF rightHalf # {}
        THEN splitLoop(upperHalf(block), rightHalf, todo, Append(out, lowerHalf(block)))
        ELSE splitLoop(lowerHalf(block), upperHalf(block), todo, out)

splitLoop(block, rightHalf, todo, out) ==
    LET next == Min(todo)
    IN  IF todo = {}
        THEN out \o <<block>> \o (IF rightHalf = {} THEN <<>> ELSE <<rightHalf>>)
        ELSE IF rightHalf # {} /\ headOf(rightHalf) <= next
        THEN splitLoop(rightHalf, {}, todo, Append(out, block))
        ELSE IF Cardinality(block) < BlockSize
        THEN splitLoop(block \cup {next}, rightHalf, todo \ {next}, out)
        ELSE IF rightHalf # {}
        THEN splitLoop(upperHalf(block), rightHalf, todo, Append(out, lowerHalf(block)))
        ELSE splitLoop(lowerHalf(block), upperHalf(block), todo, out)

insertIntoBlockWithSplit(block, elements) == splitLoop(block, {}, elements, <<>>)
-----------------------------------------------------------------------------
(* The queries.  An iterator is an entry and the rank of an element in it. *)

End == <<pmaSize, 0>>
Rank(i, e) == Cardinality({ k \in pma[i] : k < e })
keyAt(pos) == CHOOSE k \in pma[pos[1]] : Rank(pos[1], k) = pos[2]

contains(e) ==
    LET i == findContainingBlock(heads, e)
    IN  i >= 0 /\ ~empty(heads, i) /\ e \in pma[i]

find(e) ==
    LET i == findContainingBlock(heads, e)
    IN  IF i < 0 THEN End
        ELSE IF empty(heads, i) THEN End
        ELSE IF e \in pma[i] THEN <<i, Rank(i, e)>> ELSE End

lowerBound(e) ==
    LET i == findBlockIndex(heads, e)
    IN  IF i >= pmaSize THEN End
        ELSE IF Rank(i, e) >= Cardinality(pma[i])
        THEN <<findNext(heads, i, pmaSize), 0>>
        ELSE <<i, Rank(i, e)>>

\* The iterator's operator++.
following(pos) ==
    IF pos[2] + 1 < Cardinality(pma[pos[1]]) THEN <<pos[1], pos[2] + 1>>
    ELSE <<findNext(heads, pos[1], pmaSize), 0>>

\* rangeQuery: the keys that the evaluator is called with, in order.
RECURSIVE visitFrom(_, _)
\* Mutant: the right end belongs to the range.
visitFrom_Closed(pos, right) ==
    IF pos = End THEN <<>>
    ELSE IF keyAt(pos) > right THEN <<>>
    ELSE <<keyAt(pos)>> \o visitFrom(following(pos), right)

visitFrom(pos, right) ==
    IF pos = End THEN <<>>
    ELSE IF keyAt(pos) >= right THEN <<>>
    ELSE <<keyAt(pos)>> \o visitFrom(following(pos), right)
rangeQuery(left, right) == visitFrom(lowerBound(left), right)

\* contains, find, lowerBound and rangeQuery answer from the keys of the array.
QueriesAnswer ==
    \A e \in Queries :
        /\ contains(e) = (e \in Contents)
        /\ find(e) = (IF e \in Contents THEN lowerBound(e) ELSE End)
        /\ \A r \in Queries :
              rangeQuery(e, r) = Sorted({ k \in Contents : e <= k /\ k < r })
=============================================================================
