----------------------------- MODULE OrderedSet -----------------------------
(***************************************************************************)
(* What BatchedSparseArray promises its users: an ordered set of keys, to  *)
(* which a batch of keys is added as a whole when insertBatch returns.     *)
(***************************************************************************)
CONSTANT Batches

VARIABLES
    keys,       \* the keys of the set
    pending     \* the batch that is being inserted, {} if there is none

Init == keys = {} /\ pending = {}

Call(batch) ==
    /\ pending' = batch
    /\ UNCHANGED keys

Return ==
    /\ pending # {}
    /\ keys' = keys \cup pending
    /\ pending' = {}

Next == Return \/ (pending = {} /\ \E batch \in Batches : Call(batch))

Spec == Init /\ [][Next]_<<keys, pending>>
=============================================================================
