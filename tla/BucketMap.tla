------------------------------ MODULE BucketMap ------------------------------
(***************************************************************************)
(* ConcurrentBucketMap (dataStructures/concurrentBucketMap.hpp): the map   *)
(* of recounting nodes.  The threads of a parallel region insert entries   *)
(* under one mutex per bucket; after the barrier that ends the region the  *)
(* buckets are dealt to the threads, which run f on every entry without    *)
(* taking a lock; the map is then cleared.                                 *)
(*                                                                         *)
(* Each bucket's unordered_map is the restriction of `map` to the indices  *)
(* that hash to the bucket.                                                *)
(***************************************************************************)
EXTENDS Integers, FiniteSets, Sequences

CONSTANTS
    Threads,            \* the OpenMP team, 0 is the master thread
    Indices,            \* node indices used as keys
    NumBuckets,         \* buckets.size(), 10 * numThreads in the code
    ParThreshold,       \* parallelizationThreshold given to executeInParallel
    MaxCalls            \* bound: insert calls of one thread in one region

ASSUME ThreadsAssumption == Threads \subseteq Nat /\ 0 \in Threads
ASSUME IndicesAssumption == Indices \subseteq Nat /\ Indices # {}
ASSUME BucketsAssumption == NumBuckets \in Nat \ {0}
ASSUME BoundsAssumption == MaxCalls \in Nat /\ ParThreshold \in Nat

VARIABLES
    region,     \* "insert", "execute" or "done": where the team is
    pc,         \* where each thread is inside insert
    entry,      \* newEntry of each thread's current insert call
    inserted,   \* the local `inserted` of each thread
    mutex,      \* holder of each bucket's mutex
    map,        \* the entries of all the buckets
    calls,      \* number of insert calls each thread has made
    dealt,      \* number of buckets the loop schedule has handed out
    mine,       \* entries of its bucket that a thread has still to visit
    requested,  \* history: the flags insert was called with, per index
    handled     \* history: the flags f was called with, per index

vars == <<region, pc, entry, inserted, mutex, map, calls, dealt, mine,
          requested, handled>>

insertVars == <<pc, entry, inserted, mutex, map, calls, requested>>
executeVars == <<dealt, mine, handled>>

Abstract == INSTANCE FlagMap

Flags == Abstract!Flags
FlagOf(needsRebalancing) == Abstract!FlagOf(needsRebalancing)
Nobody == -1
Buckets == 0 .. NumBuckets - 1

\* std::hash of an integer is the integer itself.
getBucket(index) == index % NumBuckets

numberOfElements == Cardinality({i \in Indices : map[i] # "absent"})

EmptyMap == [i \in Indices |-> "absent"]

Init ==
    /\ region = "insert"
    /\ pc = [t \in Threads |-> "idle"]
    /\ entry = [t \in Threads |-> [index |-> CHOOSE i \in Indices : TRUE,
                                  needsRebalancing |-> FALSE]]
    /\ inserted = [t \in Threads |-> FALSE]
    /\ mutex = [b \in Buckets |-> Nobody]
    /\ map = EmptyMap
    /\ calls = [t \in Threads |-> 0]
    /\ dealt = 0
    /\ mine = [t \in Threads |-> {}]
    /\ requested = [i \in Indices |-> {}]
    /\ handled = [i \in Indices |-> <<>>]
-----------------------------------------------------------------------------
(* insert: lock the bucket, map.insert, raise the flag, unlock.            *)

Call(t, i, f) ==
    /\ region = "insert"
    /\ pc[t] = "idle"
    /\ calls[t] < MaxCalls
    /\ calls' = [calls EXCEPT ![t] = @ + 1]
    /\ entry' = [entry EXCEPT ![t] = [index |-> i, needsRebalancing |-> f]]
    /\ requested' = [requested EXCEPT ![i] = @ \cup {f}]
    /\ pc' = [pc EXCEPT ![t] = "lock"]
    /\ UNCHANGED <<region, inserted, mutex, map, executeVars>>

\* Variant of Lock: the bucket is entered without waiting for its mutex.
Lock_NoWait(t) ==
    LET b == getBucket(entry[t].index)
    IN  /\ pc[t] = "lock"
        /\ mutex' = [mutex EXCEPT ![b] = t]
        /\ pc' = [pc EXCEPT ![t] = "insert"]
        /\ UNCHANGED <<region, entry, inserted, map, calls, requested,
                       executeVars>>

Lock(t) ==
    LET b == getBucket(entry[t].index)
    IN  /\ pc[t] = "lock"
        /\ mutex[b] = Nobody
        /\ mutex' = [mutex EXCEPT ![b] = t]
        /\ pc' = [pc EXCEPT ![t] = "insert"]
        /\ UNCHANGED <<region, entry, inserted, map, calls, requested,
                       executeVars>>

\* map.insert leaves an existing entry alone and reports it.
MapInsert(t) ==
    LET i == entry[t].index
    IN  /\ pc[t] = "insert"
        /\ inserted' = [inserted EXCEPT ![t] = (map[i] = "absent")]
        /\ map' = IF map[i] = "absent"
                  THEN [map EXCEPT ![i] = FlagOf(entry[t].needsRebalancing)]
                  ELSE map
        /\ pc' = [pc EXCEPT ![t] = "raise"]
        /\ UNCHANGED <<region, entry, mutex, calls, requested, executeVars>>

\* Variant of RaiseFlag: an existing entry keeps its flag.
RaiseFlag_Lost(t) ==
    /\ pc[t] = "raise"
    /\ pc' = [pc EXCEPT ![t] = "unlock"]
    /\ UNCHANGED <<region, entry, inserted, mutex, map, calls, requested,
                   executeVars>>

\* Variant of RaiseFlag: the last insertion wins.
RaiseFlag_Overwrite(t) ==
    /\ pc[t] = "raise"
    /\ map' = [map EXCEPT ![entry[t].index] = FlagOf(entry[t].needsRebalancing)]
    /\ pc' = [pc EXCEPT ![t] = "unlock"]
    /\ UNCHANGED <<region, entry, inserted, mutex, calls, requested,
                   executeVars>>

\* The entry was already there, but it needs to be rebalanced.
RaiseFlag(t) ==
    LET i == entry[t].index
    IN  /\ pc[t] = "raise"
        /\ map' = IF ~inserted[t] /\ entry[t].needsRebalancing
                  THEN [map EXCEPT ![i] = "rebalance"]
                  ELSE map
        /\ pc' = [pc EXCEPT ![t] = "unlock"]
        /\ UNCHANGED <<region, entry, inserted, mutex, calls, requested,
                       executeVars>>

\* Variant of Unlock: the call is retried until its own entry was inserted.
Unlock_Retry(t) ==
    /\ pc[t] = "unlock"
    /\ mutex' = [mutex EXCEPT ![getBucket(entry[t].index)] = Nobody]
    /\ pc' = [pc EXCEPT ![t] = IF inserted[t] THEN "idle" ELSE "lock"]
    /\ UNCHANGED <<region, entry, inserted, map, calls, requested, executeVars>>

Unlock(t) ==
    /\ pc[t] = "unlock"
    /\ mutex' = [mutex EXCEPT ![getBucket(entry[t].index)] = Nobody]
    /\ pc' = [pc EXCEPT ![t] = "idle"]
    /\ UNCHANGED <<region, entry, inserted, map, calls, requested, executeVars>>

InsertStep(t) == Lock(t) \/ MapInsert(t) \/ RaiseFlag(t) \/ Unlock(t)
-----------------------------------------------------------------------------
(* executeInParallel: omp parallel for schedule(dynamic) over the buckets. *)

\* The barrier at the end of the inserting region.
StartExecute ==
    /\ region = "insert"
    /\ \A t \in Threads : pc[t] = "idle"
    /\ region' = "execute"
    /\ UNCHANGED <<insertVars, executeVars>>

\* With few elements the if clause keeps the loop on the master thread.
Team == IF numberOfElements > ParThreshold THEN Threads ELSE {0}

\* Variant of DealBucket: the schedule does not advance over an empty bucket.
DealBucket_Stuck(t) ==
    LET entries == {i \in Indices : getBucket(i) = dealt /\ map[i] # "absent"}
    IN  /\ region = "execute"
        /\ t \in Team
        /\ mine[t] = {}
        /\ dealt < NumBuckets
        /\ mine' = [mine EXCEPT ![t] = entries]
        /\ dealt' = IF entries = {} THEN dealt ELSE dealt + 1
        /\ UNCHANGED <<region, insertVars, handled>>

DealBucket(t) ==
    /\ region = "execute"
    /\ t \in Team
    /\ mine[t] = {}
    /\ dealt < NumBuckets
    /\ mine' = [mine EXCEPT ![t] =
                  {i \in Indices : getBucket(i) = dealt /\ map[i] # "absent"}]
    /\ dealt' = dealt + 1
    /\ UNCHANGED <<region, insertVars, handled>>

\* The bucket's entries are visited in the unspecified order of its hash map.
RunOnEntry(t, i) ==
    /\ i \in mine[t]
    /\ handled' = [handled EXCEPT ![i] = Append(@, map[i])]
    /\ mine' = [mine EXCEPT ![t] = @ \ {i}]
    /\ UNCHANGED <<region, insertVars, dealt>>

\* The barrier at the end of the loop.
EndExecute ==
    /\ region = "execute"
    /\ dealt = NumBuckets
    /\ \A t \in Threads : mine[t] = {}
    /\ region' = "done"
    /\ UNCHANGED <<insertVars, executeVars>>

\* Variant of clear: the entries of the last region stay in the buckets.
clear_KeepEntries ==
    /\ region = "done"
    /\ region' = "insert"
    /\ dealt' = 0
    /\ calls' = [t \in Threads |-> 0]
    /\ requested' = [i \in Indices |-> {}]
    /\ handled' = [i \in Indices |-> <<>>]
    /\ UNCHANGED <<pc, entry, inserted, mutex, map, mine>>

clear ==
    /\ region = "done"
    /\ region' = "insert"
    /\ map' = EmptyMap
    /\ dealt' = 0
    /\ calls' = [t \in Threads |-> 0]
    /\ requested' = [i \in Indices |-> {}]
    /\ handled' = [i \in Indices |-> <<>>]
    /\ UNCHANGED <<pc, entry, inserted, mutex, mine>>

ThreadStep(t) ==
    InsertStep(t) \/ DealBucket(t) \/ \E i \in Indices : RunOnEntry(t, i)

Next ==
    \/ \E t \in Threads, i \in Indices, f \in BOOLEAN : Call(t, i, f)
    \/ \E t \in Threads : ThreadStep(t)
    \/ StartExecute
    \/ EndExecute
    \/ clear

Spec == Init /\ [][Next]_vars

\* A thread inside a region keeps running and a barrier everybody has reached
\* opens; nobody has to call insert.
FairSpec ==
    /\ Spec
    /\ \A t \in Threads : WF_vars(ThreadStep(t))
    /\ WF_vars(EndExecute)
    /\ WF_vars(StartExecute)
-----------------------------------------------------------------------------
(* Properties.                                                             *)

\* The variables have their types; in particular the loop of executeInParallel
\* hands out no more buckets than there are.
TypeOK ==
    /\ region \in {"insert", "execute", "done"}
    /\ pc \in [Threads -> {"idle", "lock", "insert", "raise", "unlock"}]
    /\ entry \in [Threads -> [index : Indices, needsRebalancing : BOOLEAN]]
    /\ inserted \in [Threads -> BOOLEAN]
    /\ mutex \in [Buckets -> Threads \cup {Nobody}]
    /\ map \in [Indices -> Flags]
    /\ calls \in [Threads -> 0 .. MaxCalls]
    /\ dealt \in 0 .. NumBuckets
    /\ mine \in [Threads -> SUBSET Indices]
    /\ requested \in [Indices -> SUBSET BOOLEAN]
    /\ handled \in [Indices -> Seq(Flags)]

InBucket(t) == pc[t] \in {"insert", "raise", "unlock"}

\* No two threads are between lock and unlock of the same bucket: the plain
\* unordered_map of a bucket is never modified by two threads at once.
ExclusiveBucket ==
    \A s, t \in Threads :
        s # t /\ InBucket(s) /\ InBucket(t)
            => getBucket(entry[s].index) # getBucket(entry[t].index)

\* What the map holds for an index after inserts with the given flags.
Combined(flags) ==
    IF flags = {} THEN "absent" ELSE FlagOf(TRUE \in flags)

\* Once a region of concurrent insert calls is over, an index is in the map iff
\* some call inserted it, and its flag is the disjunction of the flags of all
\* the calls, whatever their order: no request for a rebalance is lost.
FlagsCombined ==
    region # "insert" => \A i \in Indices : map[i] = Combined(requested[i])

\* executeInParallel runs f exactly once for every inserted index, with the
\* disjunction of the requested flags, and for no other index.
HandledOnce ==
    region = "done" =>
        \A i \in Indices :
            handled[i] = IF requested[i] = {} THEN <<>>
                         ELSE << Combined(requested[i]) >>

\* The locked insert implements the atomic insertion of FlagMap.
AtomicMap == Abstract!Spec

\* Every insert call returns: nobody waits forever for a bucket.
CallsReturn == \A t \in Threads : pc[t] # "idle" ~> pc[t] = "idle"

\* executeInParallel ends once it has started.
ExecuteEnds == region = "execute" ~> region = "done"

\* Every call that the threads make of the map comes to its end, insert and
\* executeInParallel alike.
CallsEnd == CallsReturn /\ ExecuteEnds
=============================================================================
