----------------------------- MODULE BlockMerge -----------------------------
(***************************************************************************)
(* The methods of a block that merge a part of the sorted batch into it    *)
(* (dataStructures/block.hpp, overallocatedBlock.hpp).  The batch is a     *)
(* strictly increasing sequence.                                           *)
(***************************************************************************)
EXTENDS Block, Sequences

\* One round of merge: element next of the batch is inserted, and the next search
\* starts where it went.
mergeElement(m, batch) ==
    IF m.next > Len(batch) THEN m
    ELSE LET r == insertWithIndex(m.block, batch[m.next], m.position)
         IN  [block |-> r.block, position |-> r.index, next |-> m.next + 1]

Merges(b, batch) ==
    LET after[k \in Nat] == IF k = 0 THEN [block |-> b, position |-> 0, next |-> 1]
                            ELSE mergeElement(after[k - 1], batch)
    IN  after

\* For few elements: every one is searched and makes its own place.
merge(b, batch) == Merges(b, batch)[Len(batch)].block

-----------------------------------------------------------------------------
(* mergeFaster writes from the back: s holds the slots, the last elements  *)
(* of block and batch that are left, the next slot to write, the key       *)
(* written last and the number of writes.                                  *)

write(s, key) ==
    [s EXCEPT !.slots = [@ EXCEPT ![s.writeIndex] = key],
              !.writeIndex = s.writeIndex - 1,
              !.last = key,
              !.writes = s.writes + 1]

takeFromBatch(s, batch) ==
    LET key == batch[s.batchEnd + 1]
    IN  [(IF key # s.last THEN write(s, key) ELSE s) EXCEPT !.batchEnd = s.batchEnd - 1]

takeFromBlock(s) ==
    LET key == s.slots[s.blockEnd]
    IN  [(IF key # s.last THEN write(s, key) ELSE s) EXCEPT !.blockEnd = s.blockEnd - 1]

\* One round, from the back: the larger of the two last elements is taken, until
\* nothing of the batch is left.
takeLast(s, batch) ==
    IF s.batchEnd < 0 THEN s
    ELSE IF s.blockEnd < 0 \/ s.slots[s.blockEnd] < batch[s.batchEnd + 1]
    THEN takeFromBatch(s, batch)
    ELSE takeFromBlock(s)

MergesBackwards(b, batch) ==
    LET after[k \in Nat] ==
            IF k = 0
            THEN [slots |-> b.slots, blockEnd |-> b.size - 1, batchEnd |-> Len(batch) - 1,
                  writeIndex |-> b.size + Len(batch) - 1, last |-> 0, writes |-> 0]
            ELSE takeLast(after[k - 1], batch)
    IN  after

\* For many elements: every slot is written at most once, then the gap that the
\* duplicates have left is closed.
mergeFaster(b, batch) ==
    LET s == MergesBackwards(b, batch)[b.size + Len(batch)]
        kept == IF s.blockEnd >= 0 /\ s.slots[s.blockEnd] = s.last THEN 1 ELSE 0
        emptyRegionStart == s.blockEnd + 1 - kept
        duplicates == b.size + Len(batch) - (s.blockEnd + 1) - s.writes + kept
        writeIndex == IF s.writeIndex >= emptyRegionStart
                      THEN s.writeIndex - duplicates ELSE s.writeIndex
        result == [b EXCEPT !.slots = [i \in Slots |->
                                          IF emptyRegionStart <= i
                                             /\ i < emptyRegionStart + s.writes
                                          THEN s.slots[i + duplicates] ELSE s.slots[i]],
                            !.size = b.size + Len(batch) - duplicates]
    IN  IF writeIndex + 1 = 0 THEN updateHead(result) ELSE result
=============================================================================
