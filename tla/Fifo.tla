-------------------------------- MODULE Fifo --------------------------------
(***************************************************************************)
(* What TThreadsafeQueue promises (parallelBST/thread_pool.h): values come *)
(* out once, in the order in which they went in.                           *)
(***************************************************************************)
EXTENDS Sequences

CONSTANT Values

VARIABLES
    pending,    \* the values inside the queue
    delivered   \* the values that came out of it

Init == pending = <<>> /\ delivered = <<>>

Put(x) ==
    /\ pending' = Append(pending, x)
    /\ UNCHANGED delivered

Get ==
    /\ pending # <<>>
    /\ delivered' = Append(delivered, Head(pending))
    /\ pending' = Tail(pending)

Next == (\E x \in Values : Put(x)) \/ Get

Spec == Init /\ [][Next]_<<pending, delivered>>
=============================================================================
