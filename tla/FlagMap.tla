------------------------------- MODULE FlagMap -------------------------------
(***************************************************************************)
(* What ConcurrentBucketMap promises to its callers: a map from node       *)
(* indices to a flag, in which an insertion is one atomic step that never  *)
(* lowers a flag, and which is emptied as a whole.                         *)
(***************************************************************************)
EXTENDS Naturals

CONSTANT Indices    \* node indices used as keys

\* A key is absent, or mapped to false ("recount") or true ("rebalance").
Flags == {"absent", "recount", "rebalance"}

FlagOf(needsRebalancing) == IF needsRebalancing THEN "rebalance" ELSE "recount"

\* The flag after inserting the entry (index, needsRebalancing) over `old`.
Raised(old, needsRebalancing) ==
    IF needsRebalancing \/ old = "absent" THEN FlagOf(needsRebalancing) ELSE old

VARIABLE map

Init == map = [i \in Indices |-> "absent"]

Insert(i, needsRebalancing) ==
    map' = [map EXCEPT ![i] = Raised(@, needsRebalancing)]

Clear == map' = [i \in Indices |-> "absent"]

Next == Clear \/ \E i \in Indices, f \in BOOLEAN : Insert(i, f)

Spec == Init /\ [][Next]_map
=============================================================================
