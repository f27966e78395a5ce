------------------------------- MODULE Block -------------------------------
(***************************************************************************)
(* The block of a PMA entry: an array of MaxSize slots of which the first  *)
(* `size' are in use (PmaEntry in dataStructures/block.hpp and its copy    *)
(* OverallocatedPmaEntry in overallocatedBlock.hpp), as built with NDEBUG: *)
(* a slot that falls out of use keeps its old value.  A slot holds a key;  *)
(* 0 is NULL_KEY, the value of every slot of a new block.                  *)
(***************************************************************************)
EXTENDS Integers

CONSTANTS MinSize, MaxSize

ASSUME SizeAssumption ==
    /\ MinSize \in Nat \ {0} /\ MaxSize \in Nat
    /\ MaxSize = 2 * MinSize

Slots == 0 .. MaxSize - 1
Blocks == [slots : [Slots -> Nat], size : 0 .. MaxSize, head : Nat]

LastKey(b) == IF b.size = 0 THEN 0 ELSE b.slots[b.size - 1]
Keys(b) == { b.slots[i] : i \in 0 .. b.size - 1 }

\* PmaEntry() with allocateBlock().
newBlock == [slots |-> [i \in Slots |-> 0], size |-> 0, head |-> 0]

updateHead(b) == [b EXCEPT !.head = b.slots[0]]

\* The first position from start on that is behind the elements in use or holds a
\* key that is not below e.  A start behind the elements is returned as it is.
linearSearch(b, e, start) ==
    IF start >= b.size THEN start
    ELSE CHOOSE p \in start .. b.size :
            /\ p = b.size \/ b.slots[p] >= e
            /\ \A i \in start .. p - 1 : b.slots[i] < e

\* The slots after makeFree(index) and the write of e: the slots index .. size - 1
\* move up by one.
makeFree(slots, size, e, index) ==
    [i \in Slots |-> IF i = index THEN e
                     ELSE IF index < i /\ i <= size THEN slots[i - 1] ELSE slots[i]]

insertAtIndex(b, e, index) ==
    [slots |-> makeFree(b.slots, b.size, e, index), size |-> b.size + 1, head |-> b.head]

\* The key at the insertion position is looked at even if it is not in use.
alreadyThere(b, e, position) == b.slots[position] = e

\* Mutant: the head is left alone.
insertWithIndex_OldHead(b, e, start) ==
    LET position == linearSearch(b, e, start)
    IN  IF alreadyThere(b, e, position)
        THEN [successful |-> FALSE, index |-> position, block |-> b]
        ELSE [successful |-> TRUE, index |-> position,
              block |-> insertAtIndex(b, e, position)]

insertWithIndex(b, e, start) ==
    LET position == linearSearch(b, e, start)
        inserted == insertAtIndex(b, e, position)
    IN  IF alreadyThere(b, e, position)
        THEN [successful |-> FALSE, index |-> position, block |-> b]
        ELSE [successful |-> TRUE, index |-> position,
              block |-> IF position = 0 THEN updateHead(inserted) ELSE inserted]

\* Mutant: one element too few stays.
split_Short(b) ==
    LET splitPosition == MaxSize \div 2
        rightHalf == [slots |-> [i \in Slots |-> IF i < splitPosition
                                                 THEN b.slots[splitPosition + i] ELSE 0],
                      size |-> splitPosition, head |-> 0]
    IN  [left |-> [b EXCEPT !.size = splitPosition - 1], right |-> updateHead(rightHalf)]

\* The upper half is copied to a new block; here its slots keep their values.
split(b) ==
    LET splitPosition == MaxSize \div 2
        rightHalf == [slots |-> [i \in Slots |-> IF i < splitPosition
                                                 THEN b.slots[splitPosition + i] ELSE 0],
                      size |-> splitPosition, head |-> 0]
    IN  [left |-> [b EXCEPT !.size = splitPosition], right |-> updateHead(rightHalf)]

contains(b, e) ==
    LET position == linearSearch(b, e, 0)
    IN  position < b.size /\ b.slots[position] = e

\* All elements of other, which are smaller than those of b, are put in front.
mergeSmaller(b, other) ==
    updateHead([slots |-> [i \in Slots |->
                              IF i < other.size THEN other.slots[i]
                              ELSE IF i < other.size + b.size
                              THEN b.slots[i - other.size] ELSE b.slots[i]],
                size |-> b.size + other.size, head |-> b.head])

\* b takes the smallest elements of its right neighbour until it has MinSize.
steal(b, right) ==
    LET needed == MinSize - b.size
    IN  [this |-> [slots |-> [i \in Slots |->
                                 IF b.size <= i /\ i < b.size + needed
                                 THEN right.slots[i - b.size] ELSE b.slots[i]],
                   size |-> b.size + needed, head |-> b.head],
         right |-> updateHead([slots |-> [i \in Slots |->
                                             IF i < right.size - needed
                                             THEN right.slots[i + needed]
                                             ELSE right.slots[i]],
                               size |-> right.size - needed, head |-> right.head])]

\* b takes the largest elements of its left neighbour until it has MinSize.
stealFromSmaller(b, left) ==
    LET needed == MinSize - b.size
    IN  [this |-> updateHead([slots |-> [i \in Slots |->
                                            IF i < needed
                                            THEN left.slots[left.size - needed + i]
                                            ELSE IF i < b.size + needed
                                            THEN b.slots[i - needed] ELSE b.slots[i]],
                              size |-> b.size + needed, head |-> b.head]),
         left |-> [left EXCEPT !.size = left.size - needed]]
=============================================================================
