-------------------------------- MODULE BTree --------------------------------
(***************************************************************************)
(* The B+ tree of the parallel search tree (parallelBST/btree.h) with the  *)
(* operations that its bulk insertion uses: joining two trees, inserting a *)
(* sorted range, bulk loading, splitting.  Duplicates are allowed.         *)
(*                                                                         *)
(* A tree is its root, a node is a record.  slotkey[s] of the code is      *)
(* keys[s + 1], childid[s] is children[s + 1]; slots count from 0 as in    *)
(* the code.  Of the links between leaves only nextleaf # NULL is kept.    *)
(***************************************************************************)
EXTENDS Integers, SequencesExt

CONSTANTS
    Settings,       \* a record of parameters and bounds for every tree that is checked
    MaxKey          \* the largest value of key_type; the smallest is 0

ASSUME BTreeAssumption ==
    /\ MaxKey \in Nat \ {0}
    /\ \A s \in DOMAIN Settings : /\ Settings[s].innerslots \in Nat \ {0, 1}
                                  /\ Settings[s].leafslots \in Nat \ {0, 1}

VARIABLE setting    \* which of the Settings the tree has; it never changes

innerslots == Settings[setting].innerslots      \* innerslotmax
leafslots == Settings[setting].leafslots        \* leafslotmax
minleafslots == leafslots \div 2
mininnerslots == innerslots \div 2
MinKey == 0

Empty == [level |-> -1, keys |-> <<>>, children |-> <<>>, next |-> FALSE]
Leaf(keys) == [level |-> 0, keys |-> keys, children |-> <<>>, next |-> FALSE]
Inner(level, keys, children) == [level |-> level, keys |-> keys, children |-> children, next |-> FALSE]

isleafnode(n) == n.level = 0
slotuse(n) == Len(n.keys)
isfull(n) == slotuse(n) = IF isleafnode(n) THEN leafslots ELSE innerslots
height(t) == t.level + 1

\* The node n after copy_slots or swap: only its keys and children are replaced.
WithSlots(n, s) == [n EXCEPT !.keys = s.keys, !.children = s.children]
Slots(keys, children) == [keys |-> keys, children |-> children]
First(s, n) == SubSeq(s, 1, n)
From(s, i) == SubSeq(s, i, Len(s))

\* The slot of the first key that is not less, and of the first that is greater.
find_lower(n, key) == Cardinality({ i \in 1 .. slotuse(n) : \A j \in 1 .. i : n.keys[j] < key })
find_upper(n, key) == Cardinality({ i \in 1 .. slotuse(n) : \A j \in 1 .. i : n.keys[j] <= key })

RECURSIVE to_vector(_)
to_vector(n) ==
    IF n.level <= 0 THEN n.keys
    ELSE FlattenSeq([i \in 1 .. Len(n.children) |-> to_vector(n.children[i])])

RECURSIVE lastLeaf(_)
lastLeaf(n) == IF n.level <= 0 THEN n ELSE lastLeaf(Last(n.children))

max_key_slow(t) == IF t = Empty THEN MinKey ELSE Last(lastLeaf(t).keys)
-----------------------------------------------------------------------------
(* Joining: two neighbouring nodes become one, or two that are both filled *)
(* well enough.  The results are [left, right, key]; right is NoSlots if   *)
(* the nodes were merged.                                                  *)

NoSlots == Slots(<<>>, <<>>)
Joined(left, right, key) == [left |-> left, right |-> right, key |-> key]

join_leaves(n, o, key) ==
    LET a == n.keys  b == o.keys
        moveLeft(d) == Joined(Slots(a \o First(b, d), <<>>), Slots(From(b, d + 1), <<>>), b[d])
        moveRight(d) == Joined(Slots(First(a, Len(a) - d), <<>>),
                               Slots(From(a, Len(a) - d + 1) \o b, <<>>), a[Len(a) - d])
    IN  IF leafslots >= Len(a) + Len(b) THEN Joined(Slots(a \o b, <<>>), NoSlots, key)
        ELSE IF Len(a) < minleafslots THEN moveLeft(minleafslots - Len(a))
        ELSE IF Len(b) < minleafslots THEN moveRight(minleafslots - Len(b))
        ELSE Joined(Slots(a, <<>>), Slots(b, <<>>), key)

join_inner(n, o, key) ==
    LET a == n.keys  b == o.keys  c == n.children  e == o.children
        moveLeft(d) == Joined(Slots(a \o <<key>> \o First(b, d - 1), c \o First(e, d)),
                              Slots(From(b, d + 1), From(e, d + 1)), b[d])
        moveRight(d) == Joined(Slots(First(a, Len(a) - d), First(c, Len(c) - d)),
                               Slots(From(a, Len(a) - d + 2) \o <<key>> \o b,
                                     From(c, Len(c) - d + 1) \o e), a[Len(a) - d + 1])
    IN  IF innerslots >= Len(a) + Len(b) + 1
          THEN Joined(Slots(a \o <<key>> \o b, c \o e), NoSlots, key)
        ELSE IF Len(a) < mininnerslots THEN moveLeft(mininnerslots - Len(a))
        ELSE IF Len(b) < mininnerslots THEN moveRight(mininnerslots - Len(b))
        ELSE Joined(Slots(a, c), Slots(b, e), key)

joinNodes(n, o, key) == IF isleafnode(n) THEN join_leaves(n, o, key) ELSE join_inner(n, o, key)

\* What a descent returns: the node, and a new right neighbour of it with the key between.
Result(n, new, key) == [node |-> n, new |-> new, key |-> key]

\* split_inner_node
splitAt(n, mid) ==
    Result(Inner(n.level, First(n.keys, mid), First(n.children, mid + 1)),
           Inner(n.level, From(n.keys, mid + 2), From(n.children, mid + 2)), n.keys[mid + 1])

\* Mutant: an inner node is always cut in the middle.
split_inner_node_Half(n, addslot) == splitAt(n, slotuse(n) \div 2)

split_inner_node(n, addslot) ==
    LET mid == slotuse(n) \div 2
    IN  splitAt(n, IF addslot <= mid /\ mid > slotuse(n) - (mid + 1) THEN mid - 1 ELSE mid)

\* The inner node n with a key and the child to its right put in at a slot.
putChild(n, slot, key, child) ==
    WithSlots(n, Slots(InsertAt(n.keys, slot + 1, key), InsertAt(n.children, slot + 2, child)))
setChild(n, slot, child) == [n EXCEPT !.children[slot + 1] = child]

\* A new root over the two nodes of a result.
newRoot(r) ==
    IF r.new = Empty THEN r.node ELSE Inner(r.node.level + 1, <<r.key>>, <<r.node, r.new>>)

addLast(n, r) ==
    IF r.new = Empty THEN Result(n, Empty, 0)
    ELSE IF ~isfull(n) THEN Result(putChild(n, slotuse(n), r.key, r.new), Empty, 0)
    ELSE LET s == split_inner_node(n, slotuse(n))
         IN  [s EXCEPT !.new = putChild(@, slotuse(@), r.key, r.new)]

addFirst(n, r) ==
    IF r.new = Empty THEN Result(n, Empty, 0)
    ELSE IF ~isfull(n) THEN Result(putChild(n, 0, r.key, r.new), Empty, 0)
    ELSE LET s == split_inner_node(n, 0)
         IN  [s EXCEPT !.node = putChild(@, 0, r.key, r.new)]

\* The slots of a join go to the nodes l and r.
distributed(j, l, r) ==
    Result(WithSlots(l, j.left), IF j.right = NoSlots THEN Empty ELSE WithSlots(r, j.right), j.key)

RECURSIVE join_greater_descend(_, _, _)
join_greater_descend(n, key, other) ==
    IF n.level > other.level
      THEN LET r == join_greater_descend(Last(n.children), key, other)
           IN  addLast(setChild(n, slotuse(n), r.node), r)
      ELSE distributed(joinNodes(n, other, key), n, other)

\* The keys of other come first; the nodes of this tree swap slots with those of other.
RECURSIVE join_less_descend(_, _, _)
join_less_descend(n, key, other) ==
    IF n.level > other.level
      THEN LET r == join_less_descend(n.children[1], key, other)
           IN  addFirst(setChild(n, 0, r.node), r)
      ELSE distributed(joinNodes(other, n, key), n, other)

\* join_greater and join_less: nothing is joined to a lower tree.
join_greater(t, key, other) ==
    IF t = Empty THEN other
    ELSE IF other = Empty \/ t.level < other.level THEN t
    ELSE newRoot(join_greater_descend(t, key, other))
join_less(t, key, other) ==
    IF t = Empty THEN other
    ELSE IF other = Empty \/ t.level < other.level THEN t
    ELSE newRoot(join_less_descend(t, key, other))
-----------------------------------------------------------------------------
(* Inserting a sorted sequence.  A descent takes the keys that belong into *)
(* the subtree and fit; it returns the node, its right neighbour if it was *)
(* split, the rest of the keys, and the last key of a leaf (upper_key).    *)

Descent(r, rest, upper) == [node |-> r.node, new |-> r.new, key |-> r.key, rest |-> rest, upper |-> upper]

\* The number of keys of the sorted sequence s up to and including key.
upTo(s, key) == Cardinality({ i \in DOMAIN s : s[i] <= key })

new_keys(leaf, upper, rest) ==
    LET free == leafslots - slotuse(leaf)
    IN  IF free < upTo(rest, upper) THEN free ELSE upTo(rest, upper)

merge_leaf(leaf, rest, n) == [leaf EXCEPT !.keys = SortSeq(@ \o First(rest, n), <)]

intoLeaf(leaf, new, rest, n) ==
    LET merged == merge_leaf(leaf, rest, n)
    IN  Descent(Result(merged, new, Last(merged.keys)), From(rest, n + 1), Last(merged.keys))

insertIntoLeaf(leaf, rest, upper) ==
    LET mid == leafslots \div 2
        left == [leaf EXCEPT !.keys = First(@, mid)]    \* split_leaf_node
        split == leaf.keys[mid]
    IN  IF isfull(leaf)
          THEN intoLeaf(left, Leaf(From(leaf.keys, mid + 1)), rest, new_keys(left, split, rest))
          ELSE intoLeaf(leaf, Empty, rest, new_keys(leaf, upper, rest))

\* A new child behind the child at slot, the node being split if it is full.
putIntoHalf(s, slot, key, child) ==
    LET used == slotuse(s.node)
    IN  IF slot = used + 1 /\ used < slotuse(s.new)
          THEN Result(putChild(s.node, used, s.key, s.new.children[1]), setChild(s.new, 0, child), key)
        ELSE IF slot >= used + 1
          THEN Result(s.node, putChild(s.new, slot - (used + 1), key, child), s.key)
        ELSE Result(putChild(s.node, slot, key, child), s.new, s.key)
addChild(n, slot, key, child) ==
    IF isfull(n) THEN putIntoHalf(split_inner_node(n, slot), slot, key, child)
    ELSE Result(putChild(n, slot, key, child), Empty, 0)

\* The largest key that the child at slot may take.
upperFor(n, slot, upper) ==
    IF isleafnode(n.children[slot + 1]) /\ slot + 1 < slotuse(n)
      THEN n.children[slot + 2].keys[1]
    ELSE IF slot < slotuse(n) THEN n.keys[slot + 1]
    ELSE upper

\* Mutant: the key of the slot is not updated.
afterChild_OldKey(n, slot, d) ==
    LET m == setChild(n, slot, d.node)
    IN  IF d.new # Empty THEN addChild(m, slot, d.key, d.new) ELSE Result(m, Empty, 0)

\* The inner node after the descent d into its child at slot.
afterChild(n, slot, d) ==
    LET m == setChild(n, slot, d.node)
    IN  IF d.new # Empty THEN addChild(m, slot, d.key, d.new)
        ELSE IF isleafnode(d.node) /\ slot < slotuse(n)
          THEN Result([m EXCEPT !.keys[slot + 1] = d.upper], Empty, 0)
        ELSE Result(m, Empty, 0)

RECURSIVE insert_sorted_descend(_, _, _)
insert_sorted_descend(n, rest, upper) ==
    IF isleafnode(n) THEN insertIntoLeaf(n, rest, upper)
    ELSE IF rest = <<>> \/ rest[1] > upper THEN Descent(Result(n, Empty, 0), rest, upper)
    ELSE LET slot == find_lower(n, rest[1])
             d == insert_sorted_descend(n.children[slot + 1], rest, upperFor(n, slot, upper))
             r == afterChild(n, slot, d)
         IN  IF r.new # Empty THEN Descent(r, d.rest, upper)
             ELSE insert_sorted_descend(r.node, d.rest, upper)

RECURSIVE insert_sorted(_, _)
insert_sorted(t, keys) ==
    IF keys = <<>> THEN t
    ELSE LET d == insert_sorted_descend(IF t = Empty THEN Leaf(<<>>) ELSE t, keys, MaxKey)
         IN  insert_sorted(newRoot(d), d.rest)
-----------------------------------------------------------------------------
(* Bulk loading: evenly filled leaves, and levels of evenly filled nodes.  *)

RECURSIVE evenly(_, _)
evenly(s, pieces) ==
    IF pieces = 0 THEN <<>>
    ELSE LET n == Len(s) \div pieces IN <<First(s, n)>> \o evenly(From(s, n + 1), pieces - 1)
piecesOf(s, max) == evenly(s, (Len(s) + max - 1) \div max)

overChildren(level, c) == Inner(level, [i \in 1 .. Len(c) - 1 |-> max_key_slow(c[i])], c)

RECURSIVE buildLevels(_, _)
buildLevels(level, nodes) ==
    IF Len(nodes) = 1 THEN nodes[1]
    ELSE LET groups == piecesOf(nodes, innerslots + 1)
         IN  buildLevels(level + 1, [i \in DOMAIN groups |-> overChildren(level, groups[i])])

bulk_load(keys) ==
    LET groups == piecesOf(keys, leafslots)
    IN  IF keys = <<>> THEN Empty
        ELSE buildLevels(1, [i \in DOMAIN groups |->
                                [Leaf(groups[i]) EXCEPT !.next = i < Len(groups)]])
-----------------------------------------------------------------------------
(* The links between the leaves, and range queries along them.             *)

\* Every leaf but the last one gets a successor; the last one is not touched.
RECURSIVE fix_leaf_links_rec(_, _)
fix_leaf_links_rec(n, isLast) ==
    IF isleafnode(n) THEN [n EXCEPT !.next = IF isLast THEN @ ELSE TRUE]
    ELSE [n EXCEPT !.children = [i \in DOMAIN @ |->
             fix_leaf_links_rec(@[i], isLast /\ i = Len(n.children))]]
fix_leaf_links(t) == fix_leaf_links_rec(t, TRUE)

RECURSIVE leavesOf(_)
leavesOf(n) ==
    IF n.level <= 0 THEN <<n>>
    ELSE FlattenSeq([i \in DOMAIN n.children |-> leavesOf(n.children[i])])

\* The number of the leaf that lower_bound descends to.
RECURSIVE leafFor(_, _)
leafFor(n, key) ==
    IF isleafnode(n) THEN 1
    ELSE LET slot == find_lower(n, key)
         IN  Len(FlattenSeq([i \in 1 .. slot |-> leavesOf(n.children[i])]))
                + leafFor(n.children[slot + 1], key)

\* What an iterator reads at a slot that holds no key, or in a leaf that was freed.
Garbage == -1

\* The keys visited from a slot of the leaf i on until one is not less than right.
RECURSIVE visit(_, _, _, _)
visit(leaves, i, slot, right) ==
    IF slot < slotuse(leaves[i])
      THEN IF leaves[i].keys[slot + 1] >= right THEN <<>>
           ELSE <<leaves[i].keys[slot + 1]>> \o
                IF slot + 1 < slotuse(leaves[i]) THEN visit(leaves, i, slot + 1, right)
                ELSE IF ~leaves[i].next THEN <<>>
                ELSE IF i = Len(leaves) THEN <<Garbage>>
                ELSE visit(leaves, i + 1, 0, right)
    ELSE IF i = Len(leaves) THEN <<>> ELSE <<Garbage>>

rangeQuery(t, left, right) ==
    LET leaves == leavesOf(t)
        i == leafFor(t, left)
    IN  visit(leaves, i, find_lower(leaves[i], left), right)
-----------------------------------------------------------------------------
(* The assertions of verify_node_no_leaf_links below the root.             *)

Ascending(s) == \A i \in 1 .. Len(s) - 1 : s[i] <= s[i + 1]

RECURSIVE verify_node(_, _)
verify_node(n, isRoot) ==
    /\ slotuse(n) > 0 /\ Ascending(n.keys)
    /\ IF isleafnode(n) THEN (isRoot \/ slotuse(n) >= minleafslots) /\ slotuse(n) <= leafslots
       ELSE /\ isRoot \/ slotuse(n) >= mininnerslots
            /\ slotuse(n) <= innerslots /\ Len(n.children) = slotuse(n) + 1
            /\ \A i \in DOMAIN n.children :
                   /\ n.children[i].level + 1 = n.level
                   /\ verify_node(n.children[i], FALSE)
                   /\ i <= slotuse(n) => n.keys[i] = max_key_slow(n.children[i])
                   /\ i > 1 => to_vector(n.children[i])[1] >= n.keys[i - 1]
verify(t) == t = Empty \/ verify_node(t, TRUE)
=============================================================================
