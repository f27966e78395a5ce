------------------------- MODULE BulkInserterProofs -------------------------
(***************************************************************************)
(* The two counters on which a bulk insertion relies, for any number of    *)
(* threads and of batches: nodes are freed when no thread reads the tree,  *)
(* and the call returns when no worker is in the batch.  Each counter is   *)
(* shown to be the cardinality of the set of threads that it counts.       *)
(***************************************************************************)
EXTENDS BulkInserter, FiniteSetTheorems, TLAPS

\* The provers that a leaf is given to, and for how long.
USE SMTT(60), ZenonT(60)

Inside == {"split", "delete", "insert", "join", "finish", "finished"}
HasCut == { i \in Threads : hasCut(i) }
HaveLeft == { w \in Workers : left(w) }
Running == { w \in Workers : pc[w] # "new" }

Types ==
    /\ StartFlag \in Nat /\ started \in [Workers -> Nat]
    /\ Counter \in Nat /\ WorkersNumber \in Nat /\ cut \in Nat
    /\ Done \in BOOLEAN /\ pc \in [Threads -> Labels]

\* Only the caller calls the destructor, and a worker returns only after it.
Ending ==
    /\ Done => pc[0] = "destroyed"
    /\ \A w \in Workers : pc[w] # "destroyed" /\ (pc[w] = "returned" => Done)

\* The workers run before the constructor returns.
Starting ==
    /\ WorkersNumber = Cardinality(Running)
    /\ pc[0] # "new" => \A w \in Workers : pc[w] # "new"

\* A worker is at most one batch behind, and has caught up between batches.
Behind ==
    \A w \in Workers :
        /\ started[w] = StartFlag \/ started[w] + 1 = StartFlag
        /\ pc[w] \in Inside => started[w] # StartFlag
        /\ started[w] # StartFlag => inBatch

\* The counters count.
Counts == inBatch => cut = Cardinality(HasCut) /\ Counter = Cardinality(HaveLeft)

IInv == Types /\ Ending /\ Starting /\ Behind /\ Counts
-----------------------------------------------------------------------------
\* The sets that are counted are finite, and the whole ones are as large as the code says.
LEMMA Sizes ==
    /\ IsFiniteSet(Threads) /\ Cardinality(Threads) = numberOfThreads
    /\ IsFiniteSet(Workers) /\ Cardinality(Workers) = numberOfThreads - 1
    /\ Workers \subseteq Threads /\ 0 \in Threads /\ 0 \notin Workers
<1>1. numberOfThreads \in Nat /\ numberOfThreads >= 1
  BY BulkAssumption
<1>2. IsFiniteSet(0 .. numberOfThreads - 1) /\ Cardinality(0 .. numberOfThreads - 1) = numberOfThreads
  BY <1>1, FS_Interval
<1>3. IsFiniteSet(1 .. numberOfThreads - 1) /\ Cardinality(1 .. numberOfThreads - 1) = numberOfThreads - 1
  BY <1>1, FS_Interval
<1> QED
  BY <1>1, <1>2, <1>3 DEF Threads, Workers

\* A subset that is as large as the set is the set.
LEMMA AllOfThem ==
    ASSUME NEW S, NEW T \in SUBSET S, IsFiniteSet(S), Cardinality(T) = Cardinality(S)
    PROVE  T = S
BY FS_Subset

\* One more element.
LEMMA OneMore ==
    ASSUME NEW S, IsFiniteSet(S), NEW T \in SUBSET S, NEW e, e \notin T, NEW U, U = T \cup {e}
    PROVE  Cardinality(U) = Cardinality(T) + 1
<1>1. IsFiniteSet(T)
  BY FS_Subset
<1> QED
  BY <1>1, FS_AddElement

LEMMA SubsetsCounted == HasCut \subseteq Threads /\ HaveLeft \subseteq Workers /\ Running \subseteq Workers
BY DEF HasCut, HaveLeft, Running

LEMMA Initially == ControlInit => IInv
<1> SUFFICES ASSUME ControlInit PROVE IInv
  OBVIOUS
<1> USE Sizes DEF ControlInit
<1>1. Types
  BY ZenonT(60) DEF Types, Labels
<1>2. Ending
  BY DEF Ending
<1>3. Starting
  <2>1. Running = {}
    BY DEF Running
  <2> QED
    BY <2>1, FS_EmptySet DEF Starting
<1>4. Behind
  BY DEF Behind, Inside
<1>5. Counts
  BY DEF Counts, inBatch
<1> QED
  BY <1>1, <1>2, <1>3, <1>4, <1>5 DEF IInv
-----------------------------------------------------------------------------
LEMMA RunWorkerStep ==
    ASSUME IInv, NEW w \in Workers, runWorker(w) PROVE IInv'
<1> USE Sizes DEF IInv, runWorker, goTo
<1>1. Types'
  BY DEF Types, Labels
<1>2. Ending'
  BY DEF Ending, Types
<1>3. Starting'
  <2>1. Running' = Running \cup {w} /\ w \notin Running
    BY DEF Running, Types
  <2>2. Cardinality(Running') = Cardinality(Running) + 1
    BY <2>1, OneMore, SubsetsCounted
  <2> QED
    BY <2>2 DEF Starting, Types
<1>4. pc[0] = "new" /\ pc'[0] = "new"
  BY DEF Starting, Types
<1>5. Behind'
  BY <1>4 DEF Behind, Inside, inBatch, Types
<1>6. Counts'
  BY <1>4 DEF Counts, inBatch
<1> QED
  BY <1>1, <1>2, <1>3, <1>5, <1>6 DEF IInv

LEMMA ConstructStep ==
    ASSUME IInv, construct PROVE IInv'
<1> USE Sizes DEF IInv, construct, goTo, counters
<1>1. Types'
  BY DEF Types, Labels
<1>2. Ending'
  BY DEF Ending, Types
<1>3. Starting'
  <2>0. Cardinality(Running) = Cardinality(Workers)
    BY DEF Starting
  <2>1. Running = Workers
    BY <2>0, AllOfThem, SubsetsCounted
  <2>2. Running' = Running
    BY DEF Running, Types
  <2> QED
    BY <2>1, <2>2, ZenonT(60) DEF Starting, Types, Running
<1>4. Behind'
  BY DEF Behind, Inside, inBatch, Types
<1>5. Counts'
  BY DEF Counts, inBatch, Types
<1> QED
  BY <1>1, <1>2, <1>3, <1>4, <1>5 DEF IInv

LEMMA CallBatchStep ==
    ASSUME IInv, callBatch PROVE IInv'
<1> USE Sizes DEF IInv, callBatch, goTo
<1>1. Types'
  BY DEF Types, Labels
<1>2. Ending'
  BY DEF Ending, Types
<1>3. Starting'
  <2>1. Running' = Running
    BY DEF Running, Types
  <2> QED
    BY <2>1 DEF Starting, Types
<1>4. \A w \in Workers : started[w] = StartFlag /\ pc[w] \notin Inside /\ pc'[w] = pc[w]
  BY DEF Behind, inBatch, Types
<1>5. Behind'
  BY <1>4 DEF Behind, inBatch, Types
<1>6. Counts'
  <2>1. \A w \in Workers : started'[w] # StartFlag'
    BY <1>4 DEF Types
  <2>2. HaveLeft' = {}
    BY <2>1 DEF HaveLeft, left
  <2>3. HasCut' = {}
    <3>1. \A i \in Threads : i = 0 \/ i \in Workers
      BY DEF Threads, Workers
    <3>2. ~hasCut(0)'
      BY DEF hasCut, Types
    <3>3. \A w \in Workers : ~hasCut(w)'
      BY <1>4, <2>1 DEF hasCut, left, Inside
    <3> QED
      BY <3>1, <3>2, <3>3 DEF HasCut
  <2> QED
    BY <2>2, <2>3, FS_EmptySet DEF Counts
<1> QED
  BY <1>1, <1>2, <1>3, <1>5, <1>6 DEF IInv

LEMMA StartWorkerStep ==
    ASSUME IInv, NEW w \in Workers, startWorker(w) PROVE IInv'
<1> USE Sizes DEF IInv, startWorker, goTo, counters
<1>1. Types'
  BY DEF Types, Labels
<1>2. Ending'
  BY DEF Ending, Types
<1>3. Starting'
  <2>1. Running' = Running
    BY DEF Running, Types
  <2> QED
    BY <2>1 DEF Starting, Types
<1>4. started[w] # StartFlag
  BY DEF Types
<1>5. pc'[0] = pc[0] /\ inBatch
  BY <1>4 DEF Behind, Types
<1>6. Behind'
  BY <1>4, <1>5 DEF Behind, inBatch, Types
<1>7. Counts'
  <2>1. HaveLeft' = HaveLeft
    BY <1>4 DEF HaveLeft, left, Types
  <2>2. HasCut' = HasCut
    BY <1>4 DEF HasCut, hasCut, left, Types
  <2> QED
    BY <1>5, <2>1, <2>2 DEF Counts
<1> QED
  BY <1>1, <1>2, <1>3, <1>6, <1>7 DEF IInv
-----------------------------------------------------------------------------
\* A step of a thread inside the batch that counts nothing.
Onward(i) ==
    /\ pc[i] \in Inside \ {"split"} /\ pc'[i] \in Inside \ {"split"}
    /\ pc' = [pc EXCEPT ![i] = pc'[i]]
    /\ UNCHANGED <<counters, cut, Done>>

LEMMA InsideStep ==
    ASSUME IInv, NEW i \in Threads, pc[i] \in Inside, pc'[i] \in Inside,
           pc' = [pc EXCEPT ![i] = pc'[i]], UNCHANGED <<counters, Done>>, cut' \in Nat
    PROVE  Types' /\ Ending' /\ Starting' /\ Behind' /\ inBatch /\ inBatch' /\ HaveLeft' = HaveLeft
<1> USE Sizes DEF IInv, counters
<1>0. i = 0 \/ i \in Workers
  BY DEF Threads, Workers
<1>1. Types'
  BY DEF Types, Labels, Inside
<1>2. Ending'
  BY DEF Ending, Types, Inside
<1>3. Starting'
  <2>1. Running' = Running
    BY DEF Running, Types, Inside
  <2> QED
    BY <2>1 DEF Starting, Types, Inside
<1>4. inBatch
  BY <1>0 DEF Behind, inBatch, Inside
<1>5. inBatch'
  BY <1>4 DEF inBatch, Types, Inside
<1>6. Behind'
  BY <1>4, <1>5 DEF Behind, Types
<1>7. HaveLeft' = HaveLeft
  BY <1>0 DEF HaveLeft, left, Inside, Types
<1> QED
  BY <1>1, <1>2, <1>3, <1>4, <1>5, <1>6, <1>7

LEMMA OnwardStep ==
    ASSUME IInv, NEW i \in Threads, Onward(i) PROVE IInv'
<1>1. Types' /\ Ending' /\ Starting' /\ Behind' /\ inBatch /\ inBatch' /\ HaveLeft' = HaveLeft
  BY InsideStep DEF Onward, IInv, Types
<1>2. HasCut' = HasCut
  BY DEF HasCut, hasCut, left, Onward, Inside, IInv, Types, counters
<1> QED
  BY <1>1, <1>2 DEF IInv, Counts, Onward, counters

\* A thread cuts its part, or nothing.
LEMMA CutStep ==
    ASSUME IInv, NEW i \in Threads, cutNothing(i) \/ cutPart(i) PROVE IInv'
<1> USE DEF cutNothing, cutPart, goTo
<1>1. pc[i] = "split" /\ pc'[i] \in {"insert", "delete"} /\ pc' = [pc EXCEPT ![i] = pc'[i]]
  BY DEF IInv, Types
<1>2. Types' /\ Ending' /\ Starting' /\ Behind' /\ inBatch /\ inBatch' /\ HaveLeft' = HaveLeft
  BY <1>1, InsideStep DEF IInv, Types, Inside
<1>3. HasCut' = HasCut \cup {i} /\ i \notin HasCut
  BY <1>1 DEF HasCut, hasCut, left, IInv, Types, counters
<1>4. Cardinality(HasCut') = Cardinality(HasCut) + 1
  BY <1>3, Sizes, SubsetsCounted, OneMore
<1> QED
  BY <1>2, <1>4 DEF IInv, Counts, counters

LEMMA CountWorkerStep ==
    ASSUME IInv, NEW w \in Workers, countWorker(w) PROVE IInv'
<1> USE Sizes DEF IInv, countWorker, goTo
<1>1. Types'
  BY DEF Types, Labels
<1>2. Ending'
  BY DEF Ending, Types
<1>3. Starting'
  <2>1. Running' = Running
    BY DEF Running, Types
  <2> QED
    BY <2>1 DEF Starting, Types
<1>4. started[w] + 1 = StartFlag /\ started'[w] = StartFlag /\ pc'[w] = "idle" /\ inBatch /\ inBatch'
  BY DEF Behind, Inside, inBatch, Types
<1>5. Behind'
  BY <1>4 DEF Behind, Inside, Types
<1>6. HaveLeft' = HaveLeft \cup {w} /\ w \notin HaveLeft
  BY <1>4 DEF HaveLeft, left, Types
<1>7. Cardinality(HaveLeft') = Cardinality(HaveLeft) + 1
  BY <1>6, SubsetsCounted, OneMore
<1>8. HasCut' = HasCut
  BY <1>4 DEF HasCut, hasCut, left, Types
<1> QED
  BY <1>1, <1>2, <1>3, <1>4, <1>5, <1>7, <1>8 DEF Counts

LEMMA ReturnStep ==
    ASSUME IInv, return PROVE IInv'
<1> USE Sizes DEF IInv, return, goTo, counters
<1>1. Types'
  BY DEF Types, Labels
<1>2. Ending'
  BY DEF Ending, Types
<1>3. Starting'
  <2>1. Running' = Running
    BY DEF Running, Types
  <2> QED
    BY <2>1 DEF Starting, Types
<1>4. HaveLeft = Workers
  BY AllOfThem, SubsetsCounted DEF Counts, inBatch
<1>5. \A w \in Workers : started[w] = StartFlag
  BY <1>4 DEF HaveLeft, left
<1>6. Behind'
  BY <1>5 DEF Behind, Inside, Types
<1>7. Counts'
  BY DEF Counts, inBatch, Types
<1> QED
  BY <1>1, <1>2, <1>3, <1>6, <1>7 DEF IInv

LEMMA DestroyStep ==
    ASSUME IInv, destroy PROVE IInv'
<1> USE Sizes DEF IInv, destroy, goTo, counters
<1>1. Types'
  BY DEF Types, Labels
<1>2. Ending'
  BY DEF Ending, Types
<1>3. Starting'
  <2>1. Running' = Running
    BY DEF Running, Types
  <2> QED
    BY <2>1 DEF Starting, Types
<1>4. Behind'
  BY DEF Behind, Inside, inBatch, Types
<1>5. Counts'
  BY DEF Counts, inBatch, Types
<1> QED
  BY <1>1, <1>2, <1>3, <1>4, <1>5 DEF IInv

LEMMA StopWorkerStep ==
    ASSUME IInv, NEW w \in Workers, stopWorker(w) PROVE IInv'
<1> USE Sizes DEF IInv, stopWorker, goTo, counters
<1>1. Types'
  BY DEF Types, Labels
<1>2. pc[0] = "destroyed" /\ pc'[0] = "destroyed"
  BY DEF Ending, Types
<1>3. Ending'
  BY <1>2 DEF Ending, Types
<1>4. Starting'
  <2>1. Running' = Running
    BY DEF Running, Types
  <2> QED
    BY <2>1 DEF Starting, Types
<1>5. Behind'
  BY <1>2 DEF Behind, Inside, inBatch, Types
<1>6. Counts'
  BY <1>2 DEF Counts, inBatch
<1> QED
  BY <1>1, <1>3, <1>4, <1>5, <1>6 DEF IInv
-----------------------------------------------------------------------------
\* Every step of the batch that counts nothing is one onward.
LEMMA Onwards ==
    ASSUME IInv, NEW i \in Threads,
           DeleteNodes(i) \/ insertShare(i) \/ joinNeighbour(i) \/ finish(i)
    PROVE  Onward(i)
BY DEF IInv, Types, DeleteNodes, insertShare, joinNeighbour, joining, goOn, finish, goTo, Onward, Inside,
       counters

LEMMA Unchanged ==
    ASSUME IInv, UNCHANGED control PROVE IInv'
BY DEF IInv, control, counters, Types, Ending, Starting, Behind, Counts, HasCut, HaveLeft, Running,
       inBatch, hasCut, left

LEMMA Inductive == IInv /\ [ControlNext]_control => IInv'
<1> SUFFICES ASSUME IInv, [ControlNext]_control PROVE IInv'
  OBVIOUS
<1>1. CASE UNCHANGED control
  BY <1>1, Unchanged
<1>2. CASE Caller
  BY <1>2, ConstructStep, ReturnStep, Unchanged DEF Caller, joinPool
<1>3. CASE callBatch
  BY <1>3, CallBatchStep
<1>4. CASE destroy
  BY <1>4, DestroyStep
<1>5. ASSUME NEW i \in Threads, Start(i) PROVE IInv'
  BY <1>5, CutStep, Onwards, OnwardStep DEF Start
<1>6. ASSUME NEW w \in Workers, Worker(w) PROVE IInv'
  BY <1>6, RunWorkerStep, StartWorkerStep, CountWorkerStep, StopWorkerStep DEF Worker
<1> QED
  BY <1>1, <1>2, <1>3, <1>4, <1>5, <1>6 DEF ControlNext

LEMMA Invariance == ControlSpec => []IInv
BY Initially, Inductive, PTL DEF ControlSpec

\* Whatever the number of threads, DeleteNodes frees nodes of the tree only when no thread
\* reads them any more: TParallelSplit::Counter equals the number of threads exactly when
\* every thread has cut its part of this batch, the ones that were slow to start included.
THEOREM NodesAreFreedWhenAllHaveCut == ControlSpec => []FreesWhenAllHaveCut
<1>1. IInv => FreesWhenAllHaveCut
  <2> SUFFICES ASSUME IInv, inBatch, cut = numberOfThreads PROVE \A i \in Threads : hasCut(i)
    BY DEF FreesWhenAllHaveCut
  <2>1. HasCut = Threads
    BY AllOfThem, Sizes, SubsetsCounted DEF IInv, Counts
  <2> QED
    BY <2>1 DEF HasCut
<1> QED
  BY <1>1, Invariance, PTL

\* Whatever the number of threads, the call of TBulkInserter returns, and throws the
\* TMetaTrees away, only when every worker has left the batch.
THEOREM CallReturnsWhenAllHaveLeft == ControlSpec => []ReturnsWhenAllHaveLeft
<1>1. IInv => ReturnsWhenAllHaveLeft
  <2> SUFFICES ASSUME IInv, inBatch, Counter = numberOfThreads - 1 PROVE \A w \in Workers : left(w)
    BY DEF ReturnsWhenAllHaveLeft
  <2>1. HaveLeft = Workers
    BY AllOfThem, Sizes, SubsetsCounted DEF IInv, Counts
  <2> QED
    BY <2>1 DEF HaveLeft
<1> QED
  BY <1>1, Invariance, PTL
=============================================================================
