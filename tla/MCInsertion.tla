---------------------------- MODULE MCInsertion ----------------------------
(* Instances of BatchInsertion for TLC. *)
EXTENDS BatchInsertion

\* All batches that have an element for every thread.
Small(n) ==
    [NumThreads |-> n, BlockSize |-> 4, SegmentWidth |-> 5, Keys |-> 1 .. 7,
     Queries |-> 1 .. 7, Batches |-> { b \in SUBSET (1 .. 7) : Cardinality(b) >= n }, MaxBatches |-> 2]

\* A batch that fills three blocks of six, and the batches of two or three keys
\* that lie below them, in them, between them and behind them.
FullBlocks == { 2 * k : k \in 1 .. 18 }
OtherKeys == {1, 3, 13, 15, 25, 37}
Loops ==
    [NumThreads |-> 2, BlockSize |-> 6, SegmentWidth |-> 8,
     Keys |-> FullBlocks \cup OtherKeys, Queries |-> OtherKeys \cup {2, 14, 24, 36},
     Batches |-> {FullBlocks} \cup { b \in SUBSET OtherKeys : Cardinality(b) \in 2 .. 3 },
     MaxBatches |-> 3]

ArraySettings == [small |-> Small(2), groups |-> Small(3), loops |-> Loops]

\* A batch that fills two blocks of six, and one with two keys below them.
FullThenBelow ==
    [full |-> [NumThreads |-> 3, BlockSize |-> 6, SegmentWidth |-> 6,
               Keys |-> 1 .. 16, Queries |-> {},
               Batches |-> {4 .. 15, {1, 2, 16}}, MaxBatches |-> 2]]
=============================================================================
