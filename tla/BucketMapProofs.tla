--------------------------- MODULE BucketMapProofs ---------------------------
(***************************************************************************)
(* Proofs about BucketMap for any team of threads, any set of indices and  *)
(* any number of buckets: the flags of concurrent insertions are combined, *)
(* every entry is handled once, and the map implements FlagMap.            *)
(***************************************************************************)
EXTENDS BucketMap, TLAPS

\* The provers that a leaf is given to, and for how long.
USE SMTT(60), ZenonT(60)

(***************************************************************************)
(* The inductive invariant.                                                *)
(***************************************************************************)

\* A thread between lock and unlock holds the mutex of its bucket.
HoldsMutex ==
    \A t \in Threads : InBucket(t) => mutex[getBucket(entry[t].index)] = t

\* Nobody is inside insert once the inserting region is over.
IdleOutsideInsert ==
    region # "insert" => \A t \in Threads : pc[t] = "idle"

\* Whatever the map holds was requested.
NothingInvented ==
    \A i \in Indices :
        /\ map[i] # "absent" => requested[i] # {}
        /\ map[i] = "rebalance" => TRUE \in requested[i]

\* The entry of a running call has been recorded as requested.
CallsRecorded ==
    \A t \in Threads :
        pc[t] # "idle" => entry[t].needsRebalancing \in requested[entry[t].index]

\* Thread t is about to put index i into the map.
WillInsert(t, i) == pc[t] \in {"lock", "insert"} /\ entry[t].index = i

\* Thread t is about to give index i the flag "rebalance".
WillRaise(t, i) ==
    /\ entry[t].index = i
    /\ entry[t].needsRebalancing
    /\ pc[t] \in {"lock", "insert"} \/ (pc[t] = "raise" /\ ~inserted[t])

\* What was requested is in the map, or the call that will put it there is
\* still before the step that does.
NothingForgotten ==
    \A i \in Indices :
        /\ requested[i] # {} =>
              map[i] # "absent" \/ \E t \in Threads : WillInsert(t, i)
        /\ TRUE \in requested[i] =>
              map[i] = "rebalance" \/ \E t \in Threads : WillRaise(t, i)

\* A thread past map.insert finds its index in the map.
PresentAfterInsert ==
    \A t \in Threads :
        pc[t] \in {"raise", "unlock"} => map[entry[t].index] # "absent"

InsertInv ==
    /\ TypeOK
    /\ HoldsMutex
    /\ IdleOutsideInsert
    /\ NothingInvented
    /\ CallsRecorded
    /\ NothingForgotten
    /\ PresentAfterInsert

\* Visited i: f has run on i.
Visited(i) ==
    /\ map[i] # "absent"
    /\ getBucket(i) < dealt
    /\ \A t \in Threads : i \notin mine[t]

\* The entries of the dealt buckets are split among the threads that still
\* have to visit them and the entries already visited.
ExecuteInv ==
    /\ region = "insert" => dealt = 0
    /\ region = "done" => dealt = NumBuckets
    /\ region # "execute" => \A t \in Threads : mine[t] = {}
    /\ \A t \in Threads : \A i \in mine[t] :
          map[i] # "absent" /\ getBucket(i) < dealt
    /\ \A s, t \in Threads : s # t => mine[s] \cap mine[t] = {}
    /\ \A i \in Indices : handled[i] = IF Visited(i) THEN <<map[i]>> ELSE <<>>

-----------------------------------------------------------------------------
\* Every index has a bucket.
LEMMA BucketInRange ==
    \A i \in Indices : getBucket(i) \in Buckets
BY IndicesAssumption, BucketsAssumption DEF getBucket, Buckets

LEMMA InitInsertInv == Init => InsertInv
<1> SUFFICES ASSUME Init PROVE InsertInv
    OBVIOUS
<1>1. (CHOOSE i \in Indices : TRUE) \in Indices
    BY IndicesAssumption
<1>2. TypeOK
    BY <1>1, BoundsAssumption, BucketsAssumption
    DEF Init, TypeOK, EmptyMap, Flags, Abstract!Flags
<1> QED
    BY <1>2 DEF Init, InsertInv, HoldsMutex, IdleOutsideInsert, NothingInvented,
        CallsRecorded, NothingForgotten, PresentAfterInsert, InBucket, EmptyMap

LEMMA InsertInvStep == InsertInv /\ [Next]_vars => InsertInv'
<1> SUFFICES ASSUME InsertInv, [Next]_vars PROVE InsertInv'
    OBVIOUS
<1> USE DEF InsertInv, insertVars, executeVars
<1>1. ASSUME NEW t \in Threads, NEW i \in Indices, NEW f \in BOOLEAN,
             Call(t, i, f)
      PROVE  InsertInv'
    <2>1. TypeOK'
        BY <1>1, BoundsAssumption DEF TypeOK, Call
    <2>2. HoldsMutex' /\ IdleOutsideInsert' /\ PresentAfterInsert'
        BY <1>1 DEF TypeOK, Call, HoldsMutex, IdleOutsideInsert,
            PresentAfterInsert, InBucket
    <2>3. NothingInvented' /\ CallsRecorded'
        BY <1>1, ZenonT(60) DEF TypeOK, Call, NothingInvented, CallsRecorded
    <2>4. NothingForgotten'
        <3>1. /\ WillInsert(t, i)'
              /\ f => WillRaise(t, i)'
            BY <1>1 DEF TypeOK, Call, WillInsert, WillRaise
        <3>2. \A s \in Threads, j \in Indices :
                /\ WillInsert(s, j) => WillInsert(s, j)'
                /\ WillRaise(s, j) => WillRaise(s, j)'
            BY <1>1 DEF TypeOK, Call, WillInsert, WillRaise
        <3>3. /\ map' = map
              /\ \A j \in Indices :
                    j # i => requested'[j] = requested[j]
              /\ TRUE \in requested'[i] => TRUE \in requested[i] \/ f
            BY <1>1, ZenonT(60) DEF Call, TypeOK
        <3> QED
            BY <3>1, <3>2, <3>3, ZenonT(60) DEF TypeOK, NothingForgotten
    <2> QED BY <2>1, <2>2, <2>3, <2>4
<1>2. ASSUME NEW t \in Threads, Lock(t) PROVE InsertInv'
    <2>1. TypeOK'
        BY <1>2, BucketInRange DEF TypeOK, Lock
    <2>2. HoldsMutex'
        BY <1>2, BucketInRange, ThreadsAssumption
        DEF TypeOK, Lock, HoldsMutex, InBucket, Nobody
    <2>3. /\ IdleOutsideInsert' /\ PresentAfterInsert'
          /\ NothingInvented' /\ CallsRecorded'
        BY <1>2, ZenonT(60) DEF TypeOK, Lock, IdleOutsideInsert, PresentAfterInsert,
            NothingInvented, CallsRecorded
    <2>4. NothingForgotten'
        <3>1. \A s \in Threads, j \in Indices :
                /\ WillInsert(s, j) => WillInsert(s, j)'
                /\ WillRaise(s, j) => WillRaise(s, j)'
            BY <1>2 DEF TypeOK, Lock, WillInsert, WillRaise
        <3>2. map' = map /\ requested' = requested
            BY <1>2 DEF Lock
        <3> QED
            BY <3>1, <3>2, ZenonT(60) DEF NothingForgotten
    <2> QED BY <2>1, <2>2, <2>3, <2>4
<1>3. ASSUME NEW t \in Threads, MapInsert(t) PROVE InsertInv'
    <2> DEFINE i == entry[t].index
               f == entry[t].needsRebalancing
    <2>0. i \in Indices /\ f \in BOOLEAN
        BY DEF TypeOK
    <2>1. TypeOK'
        BY <1>3, <2>0 DEF TypeOK, MapInsert, Flags, FlagOf, Abstract!Flags,
            Abstract!FlagOf
    <2>2. HoldsMutex' /\ IdleOutsideInsert'
        BY <1>3 DEF TypeOK, MapInsert, HoldsMutex, IdleOutsideInsert, InBucket
    <2>3. /\ map'[i] # "absent"
          /\ \A j \in Indices : j # i => map'[j] = map[j]
          /\ map[i] # "absent" => map'[i] = map[i]
          /\ map[i] = "absent" => map'[i] = FlagOf(f)
        BY <1>3, <2>0 DEF TypeOK, MapInsert, Flags, FlagOf, Abstract!Flags,
            Abstract!FlagOf
    <2>4. PresentAfterInsert'
        BY <1>3, <2>3, <2>0 DEF TypeOK, MapInsert, PresentAfterInsert
    <2>5. /\ requested' = requested
          /\ requested[i] # {}
          /\ f => TRUE \in requested[i]
        BY <1>3, ZenonT(60) DEF MapInsert, TypeOK, CallsRecorded
    <2>6. NothingInvented' /\ CallsRecorded'
        BY <1>3, <2>0, <2>3, <2>5, ZenonT(60) DEF NothingInvented, CallsRecorded, MapInsert,
            TypeOK, FlagOf, Abstract!FlagOf
    <2>7. NothingForgotten'
        <3>1. \A s \in Threads, j \in Indices :
                /\ WillInsert(s, j) => WillInsert(s, j)' \/ j = i
                /\ WillRaise(s, j) => \/ WillRaise(s, j)'
                                      \/ j = i /\ map'[i] = "rebalance"
            BY <1>3, <2>0, <2>3, ZenonT(60) DEF TypeOK, MapInsert, WillInsert, WillRaise,
                FlagOf, Abstract!FlagOf
        <3> QED
            BY <2>0, <2>3, <2>5, <3>1, ZenonT(60) DEF NothingForgotten
    <2> QED BY <2>1, <2>2, <2>4, <2>6, <2>7
<1>4. ASSUME NEW t \in Threads, RaiseFlag(t) PROVE InsertInv'
    <2> DEFINE i == entry[t].index
               f == entry[t].needsRebalancing
    <2>0. i \in Indices /\ f \in BOOLEAN
        BY DEF TypeOK
    <2>1. TypeOK'
        BY <1>4, <2>0 DEF TypeOK, RaiseFlag, Flags, Abstract!Flags
    <2>2. HoldsMutex' /\ IdleOutsideInsert'
        BY <1>4 DEF TypeOK, RaiseFlag, HoldsMutex, IdleOutsideInsert, InBucket
    <2>3. /\ \A j \in Indices : map[j] # "absent" => map'[j] # "absent"
          /\ \A j \in Indices : map[j] = "rebalance" => map'[j] = "rebalance"
          /\ \A j \in Indices : map'[j] = map[j] \/ (j = i /\ f /\ map'[j] = "rebalance")
          /\ f /\ ~inserted[t] => map'[i] = "rebalance"
        BY <1>4, <2>0 DEF TypeOK, RaiseFlag
    <2>4. PresentAfterInsert'
        BY <1>4, <2>3, <2>0 DEF TypeOK, RaiseFlag, PresentAfterInsert
    <2>5. NothingInvented' /\ CallsRecorded'
        BY <1>4, <2>0, <2>3, ZenonT(60) DEF NothingInvented, CallsRecorded, RaiseFlag, TypeOK
    <2>6. NothingForgotten'
        <3>1. \A s \in Threads, j \in Indices :
                /\ WillInsert(s, j) => WillInsert(s, j)'
                /\ WillRaise(s, j) => \/ WillRaise(s, j)'
                                      \/ j = i /\ map'[i] = "rebalance"
            BY <1>4, <2>0, <2>3 DEF TypeOK, RaiseFlag, WillInsert, WillRaise
        <3>2. requested' = requested
            BY <1>4 DEF RaiseFlag
        <3> QED
            BY <2>0, <2>3, <3>1, <3>2, ZenonT(60) DEF NothingForgotten
    <2> QED BY <2>1, <2>2, <2>4, <2>5, <2>6
<1>5. ASSUME NEW t \in Threads, Unlock(t) PROVE InsertInv'
    <2>1. TypeOK'
        BY <1>5, BucketInRange DEF TypeOK, Unlock
    <2>2. HoldsMutex'
        BY <1>5, BucketInRange DEF TypeOK, Unlock, HoldsMutex, InBucket
    <2>3. /\ IdleOutsideInsert' /\ PresentAfterInsert'
          /\ NothingInvented' /\ CallsRecorded'
        BY <1>5, ZenonT(60) DEF TypeOK, Unlock, IdleOutsideInsert, PresentAfterInsert,
            NothingInvented, CallsRecorded
    <2>4. NothingForgotten'
        <3>1. \A s \in Threads, j \in Indices :
                /\ WillInsert(s, j) => WillInsert(s, j)'
                /\ WillRaise(s, j) => WillRaise(s, j)'
            BY <1>5 DEF TypeOK, Unlock, WillInsert, WillRaise
        <3>2. map' = map /\ requested' = requested
            BY <1>5 DEF Unlock
        <3> QED
            BY <3>1, <3>2, ZenonT(60) DEF NothingForgotten
    <2> QED BY <2>1, <2>2, <2>3, <2>4
<1>6. CASE clear
    <2>1. \A t \in Threads : pc[t] = "idle"
        BY <1>6 DEF clear, IdleOutsideInsert
    <2>2. TypeOK'
        BY <1>6, BoundsAssumption, BucketsAssumption
        DEF TypeOK, clear, EmptyMap, Flags, Abstract!Flags
    <2> QED
        BY <1>6, <2>1, <2>2 DEF clear, EmptyMap, HoldsMutex, IdleOutsideInsert,
            NothingInvented, CallsRecorded, NothingForgotten,
            PresentAfterInsert, InBucket
<1>7. ASSUME UNCHANGED insertVars, TypeOK', region' # "insert" => \A t \in Threads : pc[t] = "idle"
      PROVE  InsertInv'
    BY <1>7, ZenonT(60) DEF HoldsMutex, IdleOutsideInsert, NothingInvented, CallsRecorded,
        NothingForgotten, PresentAfterInsert, InBucket, WillInsert, WillRaise
<1>8. CASE StartExecute
    BY <1>8, <1>7 DEF StartExecute, TypeOK
<1>9. CASE EndExecute
    BY <1>9, <1>7 DEF EndExecute, TypeOK, IdleOutsideInsert
<1>10. ASSUME NEW t \in Threads, DealBucket(t) PROVE InsertInv'
    <2>1. TypeOK'
        BY <1>10, BucketsAssumption DEF DealBucket, TypeOK
    <2> QED
        BY <1>10, <1>7, <2>1 DEF DealBucket, IdleOutsideInsert
<1>11. ASSUME NEW t \in Threads, NEW i \in Indices, RunOnEntry(t, i)
       PROVE  InsertInv'
    <2>1. TypeOK'
        BY <1>11 DEF RunOnEntry, TypeOK
    <2> QED
        BY <1>11, <1>7, <2>1 DEF RunOnEntry, IdleOutsideInsert
<1>12. CASE UNCHANGED vars
    BY <1>12, <1>7 DEF vars, TypeOK, IdleOutsideInsert
<1> QED
    BY <1>1, <1>2, <1>3, <1>4, <1>5, <1>6, <1>8, <1>9, <1>10, <1>11, <1>12
    DEF Next, ThreadStep, InsertStep

\* In every reachable state the variables have their types: in particular the
\* loop over the buckets never deals a bucket that does not exist.
THEOREM TypeCorrect == Spec => []TypeOK
<1>1. InsertInv => TypeOK
    BY DEF InsertInv
<1> QED
    BY <1>1, InitInsertInv, InsertInvStep, PTL DEF Spec

\* The mutexes keep two threads from being in the same bucket.
THEOREM BucketsExclusive == Spec => []ExclusiveBucket
<1>1. InsertInv => ExclusiveBucket
    BY DEF InsertInv, HoldsMutex, ExclusiveBucket
<1> QED
    BY <1>1, InitInsertInv, InsertInvStep, PTL DEF Spec

\* After a region of concurrent insertions every index carries the disjunction
\* of the flags it was inserted with.
THEOREM FlagsAlwaysCombined == Spec => []FlagsCombined
<1>1. InsertInv => FlagsCombined
    <2> SUFFICES ASSUME InsertInv, region # "insert", NEW i \in Indices
                 PROVE  map[i] = Combined(requested[i])
        BY DEF FlagsCombined
    <2>1. \A t \in Threads : ~WillInsert(t, i) /\ ~WillRaise(t, i)
        BY DEF InsertInv, IdleOutsideInsert, WillInsert, WillRaise
    <2>2. map[i] \in {"absent", "recount", "rebalance"}
        BY DEF InsertInv, TypeOK, Flags, Abstract!Flags
    <2> QED
        BY <2>1, <2>2, ZenonT(60) DEF InsertInv, NothingInvented, NothingForgotten, Combined,
            FlagOf, Abstract!FlagOf
<1> QED
    BY <1>1, InitInsertInv, InsertInvStep, PTL DEF Spec

LEMMA InitExecuteInv == Init => ExecuteInv
BY BucketInRange DEF Init, ExecuteInv, Visited, EmptyMap

LEMMA ExecuteInvStep ==
    InsertInv /\ ExecuteInv /\ [Next]_vars => ExecuteInv'
<1> SUFFICES ASSUME InsertInv, ExecuteInv, [Next]_vars PROVE ExecuteInv'
    OBVIOUS
<1>0. TypeOK /\ dealt \in Nat
    BY DEF InsertInv, TypeOK
<1> USE DEF insertVars, executeVars
<1>1. ASSUME region = "insert", UNCHANGED <<region, executeVars>>
      PROVE  ExecuteInv'
    <2>1. \A i \in Indices : ~Visited(i) /\ ~Visited(i)'
        BY <1>1, BucketInRange DEF ExecuteInv, Visited, Buckets
    <2> QED
        BY <1>1, <2>1, ZenonT(60) DEF ExecuteInv
<1>2. ASSUME NEW t \in Threads, NEW i \in Indices, NEW f \in BOOLEAN,
             Call(t, i, f)
      PROVE  ExecuteInv'
    BY <1>1, <1>2 DEF Call
<1>3. ASSUME NEW t \in Threads, InsertStep(t) PROVE ExecuteInv'
    <2>1. region = "insert"
        BY <1>3 DEF InsertInv, IdleOutsideInsert, InsertStep, Lock, MapInsert,
            RaiseFlag, Unlock
    <2> QED
        BY <1>1, <1>3, <2>1 DEF InsertStep, Lock, MapInsert, RaiseFlag, Unlock
<1>4. CASE StartExecute \/ EndExecute \/ UNCHANGED vars
    <2>1. UNCHANGED <<insertVars, executeVars>>
        BY <1>4 DEF StartExecute, EndExecute, vars
    <2>2. \A i \in Indices : Visited(i)' <=> Visited(i)
        BY <2>1 DEF Visited
    <2> QED
        BY <1>4, <2>1, <2>2 DEF ExecuteInv, StartExecute, EndExecute, vars
<1>5. CASE clear
    <2>1. \A i \in Indices : ~Visited(i)'
        BY <1>5 DEF clear, EmptyMap, Visited
    <2> QED
        BY <1>5, <2>1 DEF clear, ExecuteInv
<1>6. ASSUME NEW t \in Threads, DealBucket(t) PROVE ExecuteInv'
    <2> DEFINE dealtNow ==
                 {i \in Indices : getBucket(i) = dealt /\ map[i] # "absent"}
    <2>1. /\ region = "execute" /\ region' = region
          /\ map' = map /\ handled' = handled
          /\ dealt' = dealt + 1
          /\ mine[t] = {}
          /\ mine'[t] = dealtNow
          /\ \A s \in Threads : s # t => mine'[s] = mine[s]
        BY <1>0, <1>6 DEF DealBucket, TypeOK
    <2>2. \A i \in Indices : getBucket(i) \in Nat
        BY BucketInRange, BucketsAssumption DEF Buckets
    <2>3. \A i \in Indices : Visited(i)' <=> Visited(i)
        BY <1>0, <2>1, <2>2 DEF Visited, ExecuteInv
    <2>4. \A s \in Threads : \A i \in mine'[s] :
            map[i] # "absent" /\ getBucket(i) < dealt'
        <3> TAKE s \in Threads
        <3> TAKE i \in mine'[s]
        <3>1. CASE s = t
            BY <1>0, <2>1, <2>2, <3>1
        <3>2. CASE s # t
            <4>1. i \in mine[s] /\ i \in Indices
                BY <1>0, <2>1, <3>2 DEF TypeOK
            <4> QED
                BY <1>0, <2>1, <2>2, <4>1 DEF ExecuteInv
        <3> QED
            BY <3>1, <3>2
    <2>5. \A s, u \in Threads : s # u => mine'[s] \cap mine'[u] = {}
        BY <1>0, <2>1, <2>2 DEF ExecuteInv
    <2> QED
        BY <2>1, <2>3, <2>4, <2>5 DEF ExecuteInv
<1>7. ASSUME NEW t \in Threads, NEW i \in Indices, RunOnEntry(t, i)
      PROVE  ExecuteInv'
    <2>1. /\ region = "execute" /\ region' = region
          /\ map' = map /\ dealt' = dealt
          /\ i \in mine[t]
          /\ mine'[t] = mine[t] \ {i}
          /\ \A s \in Threads : s # t => mine'[s] = mine[s]
        BY <1>0, <1>7 DEF RunOnEntry, TypeOK, ExecuteInv
    <2>2. \A j \in Indices : j # i => (Visited(j)' <=> Visited(j))
        BY <2>1 DEF Visited
    <2>3. ~Visited(i) /\ Visited(i)'
        <3>1. map[i] # "absent" /\ getBucket(i) < dealt
            BY <2>1 DEF ExecuteInv
        <3>2. \A s \in Threads : i \notin mine'[s]
            BY <2>1 DEF ExecuteInv
        <3> QED
            BY <2>1, <3>1, <3>2 DEF Visited
    <2>4. handled'[i] = <<map[i]>>
        <3>1. handled[i] = <<>>
            BY <2>3, ZenonT(60) DEF ExecuteInv
        <3>2. handled'[i] = Append(handled[i], map[i])
            BY <1>0, <1>7 DEF RunOnEntry, TypeOK
        <3> QED
            BY <3>1, <3>2
    <2>5. \A j \in Indices : j # i => handled'[j] = handled[j]
        BY <1>0, <1>7 DEF RunOnEntry, TypeOK
    <2>6. \A j \in Indices :
            handled'[j] = IF Visited(j)' THEN <<map'[j]>> ELSE <<>>
        BY <2>1, <2>2, <2>3, <2>4, <2>5 DEF ExecuteInv
    <2> QED
        BY <2>1, <2>6 DEF ExecuteInv
<1> QED
    BY <1>2, <1>3, <1>4, <1>5, <1>6, <1>7 DEF Next, ThreadStep

\* executeInParallel hands every inserted index to f exactly once, with the
\* combined flag, however the buckets are dealt and the threads interleave.
THEOREM EveryEntryHandledOnce == Spec => []HandledOnce
<1>1. InsertInv /\ ExecuteInv => HandledOnce
    <2> SUFFICES ASSUME InsertInv, ExecuteInv, region = "done",
                        NEW i \in Indices
                 PROVE  handled[i] = IF requested[i] = {} THEN <<>>
                                     ELSE << Combined(requested[i]) >>
        BY DEF HandledOnce
    <2>1. \A t \in Threads : ~WillInsert(t, i) /\ ~WillRaise(t, i)
        BY DEF InsertInv, IdleOutsideInsert, WillInsert, WillRaise
    <2>2. map[i] \in {"absent", "recount", "rebalance"}
        BY DEF InsertInv, TypeOK, Flags, Abstract!Flags
    <2>3. map[i] = Combined(requested[i])
        BY <2>1, <2>2, ZenonT(60) DEF InsertInv, NothingInvented, NothingForgotten,
            Combined, FlagOf, Abstract!FlagOf
    <2>4. Visited(i) <=> map[i] # "absent"
        BY BucketInRange, BucketsAssumption DEF Visited, ExecuteInv, Buckets
    <2>5. requested[i] = {} <=> map[i] = "absent"
        BY <2>3 DEF Combined, FlagOf, Abstract!FlagOf
    <2> QED
        BY <2>3, <2>4, <2>5 DEF ExecuteInv
<1>2. Init => InsertInv /\ ExecuteInv
    BY InitInsertInv, InitExecuteInv
<1>3. (InsertInv /\ ExecuteInv) /\ [Next]_vars => (InsertInv /\ ExecuteInv)'
    BY InsertInvStep, ExecuteInvStep
<1> QED
    BY <1>1, <1>2, <1>3, PTL DEF Spec

\* The bucket map implements the atomic map of FlagMap: of the four steps of an
\* insert at most one changes the map, and it changes it as one insertion does.
THEOREM ImplementsFlagMap == Spec => AtomicMap
<1>1. Init => Abstract!Init
    BY DEF Init, Abstract!Init, EmptyMap
<1>2. InsertInv /\ [Next]_vars => [Abstract!Next]_map
    <2> SUFFICES ASSUME InsertInv, [Next]_vars, map' # map
                 PROVE  Abstract!Next
        OBVIOUS
    <2>1. CASE clear
        BY <2>1 DEF clear, EmptyMap, Abstract!Next, Abstract!Clear
    <2>2. ASSUME NEW t \in Threads, MapInsert(t) PROVE Abstract!Next
        <3>1. /\ entry[t].index \in Indices
              /\ entry[t].needsRebalancing \in BOOLEAN
            BY DEF InsertInv, TypeOK
        <3>2. Abstract!Insert(entry[t].index, entry[t].needsRebalancing)
            BY <2>2, ZenonT(60) DEF MapInsert, Abstract!Insert, Abstract!Raised, FlagOf,
                Abstract!FlagOf
        <3> QED
            BY <3>1, <3>2 DEF Abstract!Next
    <2>3. ASSUME NEW t \in Threads, RaiseFlag(t) PROVE Abstract!Next
        <3>1. /\ entry[t].index \in Indices
              /\ entry[t].needsRebalancing \in BOOLEAN
            BY DEF InsertInv, TypeOK
        <3>2. Abstract!Insert(entry[t].index, entry[t].needsRebalancing)
            BY <2>3, ZenonT(60) DEF RaiseFlag, Abstract!Insert, Abstract!Raised, FlagOf,
                Abstract!FlagOf
        <3> QED
            BY <3>1, <3>2 DEF Abstract!Next
    <2> QED
        BY <2>1, <2>2, <2>3 DEF Next, ThreadStep, InsertStep, Call, Lock,
            Unlock, StartExecute, EndExecute, DealBucket, RunOnEntry,
            insertVars, executeVars, vars
<1> QED
    BY <1>1, <1>2, InitInsertInv, InsertInvStep, PTL
    DEF Spec, AtomicMap, Abstract!Spec
=============================================================================
