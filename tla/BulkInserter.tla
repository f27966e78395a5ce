---------------------------- MODULE BulkInserter ----------------------------
(***************************************************************************)
(* How the threads of a bulk insertion into the parallel search tree run   *)
(* together: TBulkInserter in parallelBST/bulk_operations_data_structure.h *)
(* with the counter of TParallelSplit (split_data_structure.h) and the     *)
(* flags of TParallelPairwiseJoin (join_data_structure.h).  What they do   *)
(* to the tree is added by ParallelBST.                                    *)
(*                                                                         *)
(* Thread 0 is the caller, the others are workers of the pool that spin on *)
(* StartFlag.  For a batch every thread cuts its part out of the tree, and *)
(* frees what it copied once all have cut; it inserts its share of the     *)
(* batch, and the parts are joined in pairs, each thread waiting for the   *)
(* Done flag of its neighbour.                                             *)
(***************************************************************************)
EXTENDS Integers, FiniteSets

CONSTANTS
    numberOfThreads,
    MaxBatches          \* how many batches are inserted in parallel

ASSUME BulkAssumption == numberOfThreads \in Nat \ {0} /\ MaxBatches \in Nat

VARIABLES
    StartFlag,      \* the number of batches started
    started,        \* TWorker::Counter: those that the worker has finished
    Counter,        \* the workers that have finished the batch
    WorkersNumber,  \* the workers that run
    cut,            \* TParallelSplit::Counter: the threads that have cut their part
    offset,         \* of the loop of the pairwise join
    TreeDone,       \* TMetaTree::Done
    Done,           \* the destructor was called
    pc

counters == <<StartFlag, started, Counter, WorkersNumber>>
control == <<counters, cut, offset, TreeDone, Done, pc>>

Threads == 0 .. numberOfThreads - 1
Workers == 1 .. numberOfThreads - 1

ControlInit ==
    /\ StartFlag = 0 /\ started = [w \in Workers |-> 0]
    /\ Counter = 0 /\ WorkersNumber = 0 /\ cut = 0
    /\ offset = [i \in Threads |-> 1]
    /\ TreeDone = [i \in Threads |-> FALSE] /\ Done = FALSE
    /\ pc = [i \in Threads |-> "new"]

goTo(i, l) == pc' = [pc EXCEPT ![i] = l]
-----------------------------------------------------------------------------
(* The workers and the caller.                                             *)

\* A worker begins to run; the constructor waits for all of them.
runWorker(w) ==
    /\ pc[w] = "new"
    /\ WorkersNumber' = WorkersNumber + 1 /\ goTo(w, "idle")
    /\ UNCHANGED <<StartFlag, started, Counter, cut, offset, TreeDone, Done>>

construct ==
    /\ pc[0] = "new" /\ WorkersNumber = numberOfThreads - 1
    /\ goTo(0, "idle")
    /\ UNCHANGED <<counters, cut, offset, TreeDone, Done>>

\* Mutant: the counter of the split is not reset.
callBatch_OldCut ==
    /\ pc[0] = "idle" /\ StartFlag < MaxBatches
    /\ Counter' = 0 /\ StartFlag' = StartFlag + 1
    /\ goTo(0, "split")
    /\ UNCHANGED <<started, WorkersNumber, cut, offset, TreeDone, Done>>

\* Mutant: the counter of the workers is not reset.
callBatch_OldCounter ==
    /\ pc[0] = "idle" /\ StartFlag < MaxBatches
    /\ cut' = 0 /\ StartFlag' = StartFlag + 1
    /\ goTo(0, "split")
    /\ UNCHANGED <<started, Counter, WorkersNumber, offset, TreeDone, Done>>

callBatch ==
    /\ pc[0] = "idle" /\ StartFlag < MaxBatches
    /\ cut' = 0 /\ Counter' = 0 /\ StartFlag' = StartFlag + 1
    /\ goTo(0, "split")
    /\ UNCHANGED <<started, WorkersNumber, offset, TreeDone, Done>>

startWorker(w) ==
    /\ pc[w] = "idle" /\ StartFlag > started[w]
    /\ goTo(w, "split")
    /\ UNCHANGED <<counters, cut, offset, TreeDone, Done>>
-----------------------------------------------------------------------------
(* Start(id): split, insert, join.                                         *)

\* A thread whose separators are equal has nothing to cut and waits for nobody.
cutNothing(i) ==
    /\ pc[i] = "split"
    /\ cut' = cut + 1 /\ goTo(i, "insert")
    /\ UNCHANGED <<counters, offset, TreeDone, Done>>

cutPart(i) ==
    /\ pc[i] = "split"
    /\ cut' = cut + 1 /\ goTo(i, "delete")
    /\ UNCHANGED <<counters, offset, TreeDone, Done>>

\* Mutant: nodes are freed before all have cut.
DeleteNodes_NoWait(i) ==
    /\ pc[i] = "delete"
    /\ goTo(i, "insert")
    /\ UNCHANGED <<counters, cut, offset, TreeDone, Done>>

DeleteNodes(i) ==
    /\ pc[i] = "delete" /\ cut = numberOfThreads
    /\ goTo(i, "insert")
    /\ UNCHANGED <<counters, cut, offset, TreeDone, Done>>

\* Mutant: every thread says that its part is complete.
insertShare_AllDone(i) ==
    /\ pc[i] = "insert"
    /\ TreeDone' = [TreeDone EXCEPT ![i] = TRUE]
    /\ offset' = [offset EXCEPT ![i] = 1]
    /\ goTo(i, "join")
    /\ UNCHANGED <<counters, cut, Done>>

insertShare(i) ==
    /\ pc[i] = "insert"
    /\ TreeDone' = [TreeDone EXCEPT ![i] = i % 2 = 1]
    /\ offset' = [offset EXCEPT ![i] = 1]
    /\ goTo(i, "join")
    /\ UNCHANGED <<counters, cut, Done>>

neighbour(i) == i + offset[i]
joining(i) == pc[i] = "join" /\ i % 2 = 0 /\ neighbour(i) <= numberOfThreads

\* Mutant: the join stays at the same neighbour.
goOn_Same(i) ==
    /\ goTo(i, IF (i \div (2 * offset[i])) % 2 = 1 THEN "finish" ELSE "join")
    /\ UNCHANGED <<counters, cut, offset, TreeDone, Done>>

goOn(i) ==
    /\ offset' = [offset EXCEPT ![i] = 2 * @]
    /\ goTo(i, IF (i \div (2 * offset[i])) % 2 = 1 THEN "finish" ELSE "join")
    /\ UNCHANGED <<counters, cut, TreeDone, Done>>

\* Mutant: the neighbour's flag is not waited for.
joinNeighbour_NoWait(i) == joining(i) /\ goOn(i)

joinNeighbour(i) ==
    joining(i) /\ (neighbour(i) < numberOfThreads => TreeDone[neighbour(i)]) /\ goOn(i)

finish(i) ==
    /\ pc[i] = "finish" \/ (pc[i] = "join" /\ ~joining(i))
    /\ TreeDone' = [TreeDone EXCEPT ![i] = TRUE] /\ goTo(i, "finished")
    /\ UNCHANGED <<counters, cut, offset, Done>>

countWorker(w) ==
    /\ pc[w] = "finished"
    /\ started' = [started EXCEPT ![w] = @ + 1] /\ Counter' = Counter + 1
    /\ goTo(w, "idle")
    /\ UNCHANGED <<StartFlag, WorkersNumber, cut, offset, TreeDone, Done>>

\* Mutant: the call does not wait for the workers.
return_Early ==
    /\ pc[0] = "finished"
    /\ TreeDone' = [i \in Threads |-> FALSE] /\ goTo(0, "idle")
    /\ UNCHANGED <<counters, cut, offset, Done>>

return ==
    /\ pc[0] = "finished" /\ Counter = numberOfThreads - 1
    /\ TreeDone' = [i \in Threads |-> FALSE] /\ goTo(0, "idle")
    /\ UNCHANGED <<counters, cut, offset, Done>>
-----------------------------------------------------------------------------
\* The destructor; the pool then waits for the workers.
destroy ==
    /\ pc[0] = "idle"
    /\ Done' = TRUE /\ goTo(0, "destroyed")
    /\ UNCHANGED <<counters, cut, offset, TreeDone>>

\* Mutant: a waiting worker does not leave its loop.
stopWorker_Spin(w) ==
    /\ pc[w] = "idle" /\ Done
    /\ UNCHANGED control

stopWorker(w) ==
    /\ pc[w] = "idle" /\ Done
    /\ goTo(w, "returned")
    /\ UNCHANGED <<counters, cut, offset, TreeDone, Done>>

joinPool ==
    /\ pc[0] = "destroyed" /\ \A w \in Workers : pc[w] = "returned"
    /\ UNCHANGED control

Worker(w) == runWorker(w) \/ startWorker(w) \/ countWorker(w) \/ stopWorker(w)
Caller == construct \/ return \/ joinPool
Start(i) ==
    cutNothing(i) \/ cutPart(i) \/ DeleteNodes(i) \/ insertShare(i) \/ joinNeighbour(i) \/ finish(i)

ControlNext ==
    \/ Caller \/ callBatch \/ destroy
    \/ \E i \in Threads : Start(i)
    \/ \E w \in Workers : Worker(w)

ControlSpec == ControlInit /\ [][ControlNext]_control

\* Every thread runs on; the caller decides for itself what to call next.
Fairness ==
    /\ WF_control(Caller)
    /\ \A i \in Threads : WF_control(Start(i))
    /\ \A w \in Workers : WF_control(Worker(w))
-----------------------------------------------------------------------------
Labels == {"new", "idle", "split", "delete", "insert", "join", "finish", "finished",
           "destroyed", "returned"}

ControlTypeOK ==
    /\ StartFlag \in 0 .. MaxBatches /\ started \in [Workers -> 0 .. MaxBatches]
    /\ Counter \in 0 .. numberOfThreads - 1 /\ WorkersNumber \in 0 .. numberOfThreads - 1
    /\ cut \in 0 .. numberOfThreads
    /\ offset \in [Threads -> Nat \ {0}]
    /\ TreeDone \in [Threads -> BOOLEAN] /\ Done \in BOOLEAN
    /\ pc \in [Threads -> Labels]

\* The thread has cut its part of the current batch, and is done with the batch altogether.
left(w) == pc[w] \in {"idle", "returned"} /\ started[w] = StartFlag
hasCut(i) == pc[i] \in {"delete", "insert", "join", "finish", "finished"} \/ (i \in Workers /\ left(i))
inBatch == pc[0] \notin {"new", "idle", "destroyed"}

\* DeleteNodes frees nodes of the tree when the counter says so; then no thread is reading
\* the tree any more, and none that was slow to start is still to begin.
FreesWhenAllHaveCut == (inBatch /\ cut = numberOfThreads) => \A i \in Threads : hasCut(i)

\* The call returns, and the TMetaTrees are thrown away, when the counter says so; then no
\* worker is in the batch, and none that was slow to start is still to begin.
ReturnsWhenAllHaveLeft ==
    (inBatch /\ Counter = numberOfThreads - 1) => \A w \in Workers : left(w)

\* A batch returns: no thread waits forever for the others to cut (DeleteNodes), for the
\* Done flag of its neighbour (TParallelPairwiseJoin) or for the workers (Counter), and no
\* worker misses a batch (StartFlag).
BatchReturns == (pc[0] = "split") ~> (pc[0] = "idle")

\* The destructor returns: every worker sees Done.
DestructorReturns == (pc[0] = "destroyed") ~> (\A w \in Workers : pc[w] = "returned")
=============================================================================
