---------------------------- MODULE MCParallelBST ----------------------------
(* Small instances of ParallelBST. *)
EXTENDS ParallelBST

Evens(n) == [i \in 1 .. n |-> 2 * i]
Ascents(n, S) == { s \in [1 .. n -> S] : Ascending(s) }

\* A leaf, and trees of two and of three levels.  Fewer keys than threads, duplicates of
\* each other and of keys of the tree, keys before and behind all of the tree.
Narrow ==
    [innerslots |-> 2, leafslots |-> 3, Prefills |-> { Evens(n) : n \in {2, 6, 11} },
     Batches |-> { <<1, 12>>, <<12, 12>>, <<4, 4, 26, 26>>, <<4, 9, 9, 26>>,
                   <<4, 9, 26, 26, 26>> },
     Queries |-> {1, 12, MaxKey}, Calls |-> 2]

\* Wider nodes; two keys go behind the last one of a half-empty leaf.
Wide ==
    [innerslots |-> 4, leafslots |-> 4,
     Prefills |-> { Evens(n) : n \in {1, 4, 5, 8, 9, 12, 22, 31} },
     Batches |-> Ascents(3, {1, 13, 41, 62}) \cup Ascents(7, {5, 62})
                 \cup { <<1, 5, 5, 9, 13, 62, 62, 62, 62, 62, 62, 62>> },
     Queries |-> {1, 10, 13, 33, 62, MaxKey}, Calls |-> 1]

\* Half-filled leaves at the end, of which the next batch merges two: the links that a
\* batch finds are those of bulk_load, or those of fixLinkedList.
Links ==
    [innerslots |-> 4, leafslots |-> 4, Prefills |-> { Evens(8) },
     Batches |-> { <<7>>, <<9, 9, 9>>, <<13, 17>> },
     Queries |-> {1, 9, 17, MaxKey}, Calls |-> 2]

Trees == [narrow |-> Narrow, wide |-> Wide, links |-> Links]
=============================================================================
