----------------------------- MODULE ParallelBST -----------------------------
(***************************************************************************)
(* The parallel search tree (parallelBST/parallelBstWrapper.h): the bulk   *)
(* insertion of BulkInserter with what the threads do to the tree, which   *)
(* are operators of BTree and ParallelSplit (TDataInserter in              *)
(* bulk_operations_data_structure.h, TParallelSplit in                     *)
(* split_data_structure.h, TParallelPairwiseJoin in join_data_structure.h).*)
(***************************************************************************)
EXTENDS BulkInserter, ParallelSplit

\* The benchmarks draw keys from 1 on; a key 0 could not be told from MinSep.
Keys == MinKey + 1 .. MaxKey - 1

ASSUME ParallelAssumption ==
    \A s \in DOMAIN Settings :
        /\ \A b \in Settings[s].Prefills \cup Settings[s].Batches :
              b \in Seq(Keys) /\ b # <<>> /\ Ascending(b)
        /\ Settings[s].Queries \subseteq Keys \cup {MaxKey}
        /\ Settings[s].Calls \in Nat

Prefills == Settings[setting].Prefills      \* bound: the first batches, sorted
Batches == Settings[setting].Batches        \* bound: the later ones
Queries == Settings[setting].Queries        \* bound: the keys of range queries
Calls == Settings[setting].Calls            \* bound: calls of insertBatch

VARIABLES
    tree,           \* the tree of the wrapper
    stillEmpty,
    data,           \* the batch being inserted
    trees,          \* the TMetaTrees: Tree and Key
    toDelete,       \* NodesToDelete of every thread, by position
    moved,          \* what every thread moved out of the tree, by position
    held,           \* all keys inserted so far
    linked,         \* fixLinkedList was called since the last batch
    relinked        \* fixLinkedList was called between two calls of insertBatch

wrapper == <<stillEmpty, data, held, linked, relinked>>
vars == <<setting, control, tree, trees, toDelete, moved, wrapper>>

MetaTree == [Tree |-> Empty, Key |-> MinKey]
NoNodes == [i \in Threads |-> {}]

Init ==
    /\ setting \in DOMAIN Settings
    /\ ControlInit
    /\ tree = Empty /\ stillEmpty = TRUE /\ data = <<>>
    /\ trees = [i \in Threads |-> MetaTree]
    /\ toDelete = NoNodes /\ moved = NoNodes
    /\ held = <<>> /\ linked = FALSE /\ relinked = FALSE
-----------------------------------------------------------------------------
(* The calls.  The first batch is loaded by the caller alone.              *)

takeKeys(keys) ==
    /\ data' = keys /\ held' = SortSeq(held \o keys, <)
    /\ linked' = FALSE /\ relinked' = (relinked \/ (linked /\ StartFlag > 0))

insertPrefillBatch(keys) ==
    /\ pc[0] = "idle" /\ stillEmpty
    /\ takeKeys(keys) /\ tree' = bulk_load(keys) /\ stillEmpty' = FALSE
    /\ UNCHANGED <<control, trees, toDelete, moved>>

insertBatch(keys) ==
    /\ ~stillEmpty /\ StartFlag < Calls /\ callBatch /\ takeKeys(keys)
    /\ toDelete' = NoNodes /\ moved' = NoNodes
    /\ UNCHANGED <<tree, stillEmpty, trees>>

fixLinkedList ==
    /\ pc[0] = "idle" /\ ~stillEmpty /\ ~linked
    /\ tree' = fix_leaf_links(tree) /\ linked' = TRUE
    /\ UNCHANGED <<control, trees, toDelete, moved, stillEmpty, data, held, relinked>>

Return ==
    /\ return /\ trees' = [i \in Threads |-> MetaTree]
    /\ UNCHANGED <<tree, toDelete, moved, wrapper>>
-----------------------------------------------------------------------------
(* Start(id).                                                              *)

bulkSize == Len(data) \div numberOfThreads
PrevSep(i) == IF i > 0 THEN data[bulkSize * i + 1] ELSE MinSep
CurSep(i) == IF i + 1 < numberOfThreads THEN data[bulkSize * (i + 1) + 1] ELSE MaxSep

skipSplit(i) ==
    /\ cutNothing(i) /\ PrevSep(i) >= CurSep(i)
    /\ UNCHANGED <<tree, trees, toDelete, moved, wrapper>>

split(i) ==
    /\ cutPart(i) /\ PrevSep(i) < CurSep(i)
    /\ trees' = [trees EXCEPT ![i].Tree = part(tree, PrevSep(i), CurSep(i))]
    /\ toDelete' = [toDelete EXCEPT ![i] = NodesToDelete(tree, PrevSep(i), CurSep(i))]
    /\ moved' = [moved EXCEPT ![i] = Moved(tree, PrevSep(i), CurSep(i))]
    /\ UNCHANGED <<tree, wrapper>>

delete(i) ==
    /\ DeleteNodes(i)
    /\ tree' = IF PrevSep(i) = MinSep THEN Empty ELSE tree
    /\ UNCHANGED <<trees, toDelete, moved, wrapper>>

\* Mutant: the rest of the division is left out.
share_NoRest(i) == SubSeq(data, bulkSize * i + 1, bulkSize * (i + 1))

\* The thread's share of the batch; the last thread has the rest too.
share(i) ==
    SubSeq(data, bulkSize * i + 1,
           IF i = numberOfThreads - 1 THEN Len(data) ELSE bulkSize * (i + 1))

inserted(t, keys) == IF t = Empty THEN bulk_load(keys) ELSE insert_sorted(t, keys)

setTree(i, t) == trees' = [trees EXCEPT ![i] = [Tree |-> t, Key |-> max_key_slow(t)]]

insert(i) ==
    /\ insertShare(i) /\ setTree(i, inserted(trees[i].Tree, share(i)))
    /\ UNCHANGED <<tree, toDelete, moved, wrapper>>

\* Join: the higher tree takes the other one; what is left of the other one is empty.
takeNeighbour(i, o) ==
    IF o >= numberOfThreads \/ trees[o].Tree = Empty THEN trees
    ELSE [trees EXCEPT
            ![i] = [Tree |-> joinByHeight(trees[i].Tree, trees[i].Key, trees[o].Tree, "l"),
                    Key |-> trees[o].Key],
            ![o].Tree = Empty]

join(i) ==
    /\ joinNeighbour(i) /\ trees' = takeNeighbour(i, neighbour(i))
    /\ UNCHANGED <<tree, toDelete, moved, wrapper>>

\* The part is complete; the caller's is the whole tree.
complete(i) ==
    /\ finish(i)
    /\ IF i = 0 THEN tree' = trees[0].Tree /\ trees' = [trees EXCEPT ![0].Tree = tree]
       ELSE UNCHANGED <<tree, trees>>
    /\ UNCHANGED <<toDelete, moved, wrapper>>

Run(i) == skipSplit(i) \/ split(i) \/ delete(i) \/ insert(i) \/ join(i) \/ complete(i)

\* The steps that leave the trees alone.
Elsewhere ==
    /\ construct \/ destroy \/ joinPool \/ \E w \in Workers : Worker(w)
    /\ UNCHANGED <<tree, trees, toDelete, moved, wrapper>>

Next ==
    /\ UNCHANGED setting
    /\ \/ \E keys \in Prefills : insertPrefillBatch(keys)
       \/ \E keys \in Batches : insertBatch(keys)
       \/ fixLinkedList \/ Return \/ Elsewhere
       \/ \E i \in Threads : Run(i)

Spec == Init /\ [][Next]_vars

\* What is done to the tree never keeps a thread from its next step.
FairSpec == Spec /\ Fairness
-----------------------------------------------------------------------------
TypeOK ==
    /\ ControlTypeOK
    /\ tree.level \in -1 .. Len(held)
    /\ \A i \in Threads : trees[i].Tree.level \in -1 .. Len(held) /\ trees[i].Key \in MinKey .. MaxKey
    /\ \A i \in Threads : toDelete[i] \subseteq Seq(Nat) /\ moved[i] \subseteq Seq(Nat)
    /\ stillEmpty \in BOOLEAN /\ linked \in BOOLEAN /\ relinked \in BOOLEAN

\* When a batch has been inserted the tree holds the keys it held before and those of the
\* batch, in order, each as often as it was inserted: cutting the tree at the separators,
\* the shares of the batch and the joins in pairs lose nothing, duplicates of a separator
\* and empty parts included (TBulkInserter::Start).
BatchExact == pc[0] = "idle" => to_vector(tree) = held

\* The assertions of verify_node_no_leaf_links hold between batches, so that the next
\* batch and a range query may rely on them: no node but the root is filled too little,
\* and the key of a slot is the largest key of the child.
TreeValid == pc[0] = "idle" => verify(tree)

\* The tree is well-formed between batches, and the state of the threads at all times.
TreeSound == TypeOK /\ TreeValid

\* The threads that cut the tree up work without locks.  A thread that is still reading
\* the tree (SearchSplitNode, JoinLeftSubtrees, JoinRightSubtrees) never meets a node that
\* another one has freed (DeleteNodes), nor one that another one has moved into its part
\* and joins there.
freed == UNION { toDelete[i] : i \in { j \in Threads : pc[j] \notin {"split", "delete"} } }
reading(i) == pc[i] = "split" /\ PrevSep(i) < CurSep(i)
CutsApart ==
    \A i \in Threads : reading(i) =>
        /\ tree # Empty
        /\ Read(tree, PrevSep(i), CurSep(i)) \cap freed = {}
        /\ \A j \in Threads : Read(tree, PrevSep(i), CurSep(i)) \cap moved[j] = {}

\* When all have cut, every node of the old tree has been moved into one part, or is freed
\* by one thread (NodesToDelete): nothing is freed twice, shared or leaked.
EveryNodeOnce ==
    (cut = numberOfThreads /\ tree # Empty /\ freed = {} /\ \E i \in Threads : toDelete[i] # {}) =>
        /\ UNION { toDelete[i] \cup moved[i] : i \in Threads } = Positions(tree)
        /\ \A i, j \in Threads :
              /\ toDelete[i] \cap moved[j] = {}
              /\ i # j => toDelete[i] \cap toDelete[j] = {} /\ moved[i] \cap moved[j] = {}

\* The nodes of the old tree are in one hand each: no thread reads what another one has
\* freed or taken, and in the end each node is kept in one part or freed by one thread.
NodesOnce == CutsApart /\ EveryNodeOnce

inRange(l, r) == SelectSeq(held, LAMBDA k : l <= k /\ k < r)

\* "Constructs the pointers of the linked list in the lowest level. Needed to perform any
\* range queries later on." (fixLinkedList): every range query visits the keys in its range,
\* in order.  fix_leaf_links never resets the link of the last leaf, and nodes that are
\* merged or copied keep theirs: the links of bulk_load must not make a leaf the last one
\* that has a link.  Those of a call of fixLinkedList between two batches may: then a query
\* to the end visits all its keys, and goes on into a leaf that was freed.
RangeQueries ==
    linked => \A l, r \in Queries :
        \/ rangeQuery(tree, l, r) = inRange(l, r)
        \/ relinked /\ rangeQuery(tree, l, r) = Append(inRange(l, r), Garbage)

\* The calls of the wrapper return: a batch, and the destructor, for which all workers
\* have to leave their loops.
CallsReturn == BatchReturns /\ DestructorReturns
=============================================================================
