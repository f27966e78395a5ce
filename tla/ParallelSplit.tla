---------------------------- MODULE ParallelSplit ----------------------------
(***************************************************************************)
(* How one thread of a bulk insertion cuts its part out of the tree        *)
(* (TParallelSplit of parallelBST/split_data_structure.h): the keys in     *)
(* (PrevSep, CurSep].  The nodes on the paths to the two separators are    *)
(* read and copied, and later freed; whole subtrees between the paths are  *)
(* moved into the part.  A node of the tree that is split is named by its  *)
(* position: the slots of the children on the way from the root.           *)
(***************************************************************************)
EXTENDS BTree

MinSep == MinKey
MaxSep == MaxKey

Child(n, slot) == n.children[slot + 1]

CopyInner(n, begin, end) ==
    IF end = begin THEN Child(n, begin)
    ELSE Inner(n.level, SubSeq(n.keys, begin + 1, end), SubSeq(n.children, begin + 1, end + 1))

\* Mutant: the copy keeps the link of the leaf.
CopyLeaf_Whole(n, begin, end) ==
    IF begin < end THEN [Leaf(SubSeq(n.keys, begin + 1, end)) EXCEPT !.next = n.next] ELSE Empty

CopyLeaf(n, begin, end) == IF begin < end THEN Leaf(SubSeq(n.keys, begin + 1, end)) ELSE Empty

RECURSIVE JoinLeftSubtrees(_, _)
JoinLeftSubtrees(n, CurSep) ==
    LET slot == find_upper(n, CurSep)
    IN  IF isleafnode(n) THEN CopyLeaf(n, 0, slot)
        ELSE LET bottom == JoinLeftSubtrees(Child(n, slot), CurSep)
             IN  IF slot = 0 THEN bottom
                 ELSE join_greater(CopyInner(n, 0, slot - 1), n.keys[slot], bottom)

RECURSIVE JoinRightSubtrees(_, _)
JoinRightSubtrees(n, PrevSep) ==
    LET slot == find_upper(n, PrevSep)
    IN  IF isleafnode(n) THEN CopyLeaf(n, slot, slotuse(n))
        ELSE LET bottom == JoinRightSubtrees(Child(n, slot), PrevSep)
             IN  IF slot = slotuse(n) THEN bottom
                 ELSE join_less(CopyInner(n, slot + 1, slotuse(n)), n.keys[slot + 1], bottom)

\* The higher tree takes the lower one; l has the smaller keys, key is its largest.
joinByHeight(l, key, r, equal) ==
    IF height(l) > height(r) \/ (equal = "l" /\ height(l) = height(r))
      THEN join_greater(l, key, r) ELSE join_less(r, key, l)

StartSplit(n, PrevSep, CurSep) ==
    LET prev == find_upper(n, PrevSep)
        slot == find_upper(n, CurSep)
        central == IF prev + 1 < slot THEN CopyInner(n, prev + 1, slot - 1) ELSE Empty
    IN  IF isleafnode(n) THEN CopyLeaf(n, prev, slot)
        ELSE joinByHeight(JoinRightSubtrees(Child(n, prev), PrevSep), n.keys[prev + 1],
                          joinByHeight(central, n.keys[slot],
                                       JoinLeftSubtrees(Child(n, slot), CurSep), "l"), "r")

\* The separators are in different subtrees of the node, or it is a leaf.
isSplitNode(n, PrevSep, CurSep) == isleafnode(n) \/ find_upper(n, PrevSep) < find_upper(n, CurSep)

RECURSIVE SearchSplitNode(_, _, _)
SearchSplitNode(n, PrevSep, CurSep) ==
    IF isSplitNode(n, PrevSep, CurSep) THEN n
    ELSE SearchSplitNode(Child(n, find_upper(n, CurSep)), PrevSep, CurSep)

part(t, PrevSep, CurSep) == StartSplit(SearchSplitNode(t, PrevSep, CurSep), PrevSep, CurSep)
-----------------------------------------------------------------------------
(* The nodes of the tree that a thread touches, by their positions.        *)

\* The nodes on the way to a separator.
RECURSIVE pathTo(_, _, _)
pathTo(n, sep, pos) ==
    {pos} \cup IF isleafnode(n) THEN {}
               ELSE pathTo(Child(n, find_upper(n, sep)), sep, Append(pos, find_upper(n, sep)))
Path(t, sep) == pathTo(t, sep, <<>>)

RECURSIVE below(_, _)
below(n, pos) ==
    {pos} \cup UNION { below(n.children[i], Append(pos, i - 1)) : i \in DOMAIN n.children }
Positions(t) == below(t, <<>>)

RECURSIVE at(_, _)
at(n, pos) == IF pos = <<>> THEN n ELSE at(Child(n, pos[1]), Tail(pos))

\* How far down the split node is.
splitDepth(t, PrevSep, CurSep) ==
    t.level - SearchSplitNode(t, PrevSep, CurSep).level

Read(t, PrevSep, CurSep) == Path(t, PrevSep) \cup Path(t, CurSep)

\* Mutant: every thread frees its path to PrevSep too.
NodesToDelete_Both(t, PrevSep, CurSep) ==
    { p \in Read(t, PrevSep, CurSep) : Len(p) > splitDepth(t, PrevSep, CurSep) }
      \cup IF PrevSep = MinSep THEN Read(t, PrevSep, CurSep) ELSE {}

\* Whoever has the first part frees the nodes above, and on the way to its PrevSep.
NodesToDelete(t, PrevSep, CurSep) ==
    { p \in Path(t, CurSep) : Len(p) > splitDepth(t, PrevSep, CurSep) }
      \cup IF PrevSep = MinSep THEN Read(t, PrevSep, CurSep) ELSE {}

\* The children that CopyInner takes from a node: all between the paths.
copied(t, p, PrevSep, CurSep) ==
    LET n == at(t, p)
        first == IF p \in Path(t, PrevSep) THEN find_upper(n, PrevSep) + 1 ELSE 0
        last == IF p \in Path(t, CurSep) THEN find_upper(n, CurSep) - 1 ELSE slotuse(n)
    IN  IF isleafnode(n) THEN {} ELSE { Append(p, i) : i \in first .. last }

\* The nodes that become nodes of the part.
Moved(t, PrevSep, CurSep) ==
    LET roots == UNION { copied(t, p, PrevSep, CurSep) : p \in Read(t, PrevSep, CurSep) }
    IN  { p \in Positions(t) : \E r \in roots : IsPrefix(r, p) }
=============================================================================
