-------------------------- MODULE MCOverallocated --------------------------
(* Instances of OverallocatedInsertion for TLC. *)
EXTENDS OverallocatedInsertion

\* The batches with an element for every thread and enough for a block.
BlockBatches(n, keys) == { b \in SUBSET keys : Cardinality(b) >= n /\ Cardinality(b) >= 2 }

Array(n, inPlace, percent, first, keys, queries, bs, max) ==
    [NumThreads |-> n, BlockSize |-> 4, AllowInPlaceInserts |-> inPlace,
     OverallocationPercent |-> percent, InitialArrayCapacity |-> first,
     Keys |-> keys, Queries |-> queries, Batches |-> bs, MaxBatches |-> max]

\* A batch of six blocks, one that fills all entries behind the third and the fourth
\* of them, and small batches with keys for several of the blocks.
Seed == { 10 * k : k \in 1 .. 24 }
Filling == {10} \cup 121 .. 126 \cup 161 .. 167
SomeKeys == {10, 45, 95, 127, 131, 168}

ArraySettings ==
    [small |-> Array(2, TRUE, 180, 4, 1 .. 7, 1 .. 7, BlockBatches(2, 1 .. 7), 2),
     groups |-> Array(4, FALSE, 180, 2, 1 .. 7, 1 .. 7, BlockBatches(4, 1 .. 7), 2),
     one |-> Array(1, TRUE, 100, 2, 1 .. 6, 1 .. 6, BlockBatches(1, 1 .. 6), 3),
     shift |-> Array(2, TRUE, 180, 4, Seed \cup Filling \cup SomeKeys, SomeKeys,
                     {Seed, Filling} \cup { b \in SUBSET SomeKeys : Cardinality(b) = 4 }, 3)]
=============================================================================
