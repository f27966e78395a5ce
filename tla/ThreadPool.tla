----------------------------- MODULE ThreadPool -----------------------------
(***************************************************************************)
(* The thread pool of the parallel search tree (parallelBST/thread_pool.h):*)
(* TThreadsafeQueue, a linked list with one mutex for each end and a dummy *)
(* node at its tail, and TThreadPool, whose workers take tasks from it     *)
(* until Done is set, by Resize or by the destructor.                      *)
(*                                                                         *)
(* Nodes are numbered in the order in which they are linked: Next of node  *)
(* n, if it is set, is node n + 1.                                         *)
(***************************************************************************)
EXTENDS Naturals, FiniteSets, Sequences

CONSTANTS
    Tasks,          \* the tasks, each submitted once by a thread of its own
    Workers,        \* names for the threads of the pool
    InitialWorkers, \* threadsCount of the constructor
    MaxResizes,     \* bound: calls of Resize
    None            \* no task, and no holder of a mutex

ASSUME PoolAssumption ==
    /\ IsFiniteSet(Tasks) /\ IsFiniteSet(Workers)
    /\ InitialWorkers \subseteq Workers
    /\ None \notin Tasks \cup Workers
    /\ Tasks \cap Workers = {}
    /\ MaxResizes \in Nat

VARIABLES
    head, tail,             \* the ends of the list
    Data,                   \* TNode::Data
    linked,                 \* the nodes whose Next is set
    HeadMutex, TailMutex,   \* who holds the mutex
    submit,                 \* where the call of Submit for a task is
    pc,                     \* where a worker is
    task,                   \* the variable task of a worker
    ran,                    \* history: how often a task was called
    delivered,              \* history: the tasks taken, in order
    Done,                   \* TThreadPool::Done
    Threads,                \* TThreadPool::Threads
    owner,                  \* what the owner of the pool does
    resizes                 \* history: calls of Resize

queueVars == <<head, tail, Data, linked, HeadMutex, TailMutex>>
historyVars == <<ran, delivered>>
ownerVars == <<Done, Threads, owner, resizes>>
vars == <<queueVars, submit, pc, task, historyVars, ownerVars>>

Nodes == 0 .. Cardinality(Tasks)

Init ==
    /\ head = 0 /\ tail = 0
    /\ Data = [n \in Nodes |-> None]
    /\ linked = {}
    /\ HeadMutex = None /\ TailMutex = None
    /\ submit = [x \in Tasks |-> "before"]
    /\ pc = [w \in Workers |-> IF w \in InitialWorkers THEN "test" ELSE "exited"]
    /\ task = [w \in Workers |-> None]
    /\ ran = [x \in Tasks |-> 0]
    /\ delivered = <<>>
    /\ Done = FALSE
    /\ Threads = InitialWorkers
    /\ owner = "using"
    /\ resizes = 0
-----------------------------------------------------------------------------
(* Submit: PushImpl under TailMutex, one step per assignment.              *)

pushTo(x, place) == submit' = [submit EXCEPT ![x] = place]

\* Mutant: the tail is not locked.
lockTail_Free(x) ==
    /\ submit[x] = "before" /\ owner \in {"using", "resizing"}
    /\ pushTo(x, "data")
    /\ UNCHANGED <<queueVars, pc, task, historyVars, ownerVars>>

lockTail(x) ==
    /\ submit[x] = "before" /\ owner \in {"using", "resizing"}
    /\ TailMutex = None
    /\ TailMutex' = x
    /\ pushTo(x, "data")
    /\ UNCHANGED <<head, tail, Data, linked, HeadMutex, pc, task, historyVars, ownerVars>>

storeData(x) ==
    /\ submit[x] = "data"
    /\ Data' = [Data EXCEPT ![tail] = x]
    /\ pushTo(x, "next")
    /\ UNCHANGED <<head, tail, linked, HeadMutex, TailMutex, pc, task, historyVars, ownerVars>>

storeNext(x) ==
    /\ submit[x] = "next"
    /\ linked' = linked \cup {tail}
    /\ pushTo(x, "tail")
    /\ UNCHANGED <<head, tail, Data, HeadMutex, TailMutex, pc, task, historyVars, ownerVars>>

moveTail(x) ==
    /\ submit[x] = "tail"
    /\ tail' = tail + 1
    /\ TailMutex' = None
    /\ pushTo(x, "submitted")
    /\ UNCHANGED <<head, Data, linked, HeadMutex, pc, task, historyVars, ownerVars>>

Submit(x) == lockTail(x) \/ storeData(x) \/ storeNext(x) \/ moveTail(x)
-----------------------------------------------------------------------------
(* Worker: while (!Done) if (TryPop(task)) task().                         *)

workerTo(w, place) == pc' = [pc EXCEPT ![w] = place]

testDone(w) ==
    /\ pc[w] = "test"
    /\ workerTo(w, IF Done THEN "exited" ELSE "lock")
    /\ UNCHANGED <<queueVars, submit, task, historyVars, ownerVars>>

lockHead(w) ==
    /\ pc[w] = "lock" /\ HeadMutex = None
    /\ HeadMutex' = w
    /\ workerTo(w, "compare")
    /\ UNCHANGED <<head, tail, Data, linked, TailMutex, submit, task, historyVars, ownerVars>>

\* Mutant: a worker that finds the queue empty tries again without testing Done.
compare_Again(w) ==
    /\ pc[w] = "compare" /\ TailMutex = None
    /\ IF head = tail
         THEN HeadMutex' = None /\ workerTo(w, "lock")
         ELSE UNCHANGED HeadMutex /\ workerTo(w, "take")
    /\ UNCHANGED <<head, tail, Data, linked, TailMutex, submit, task, historyVars, ownerVars>>

\* Mutant: there is no test for the empty queue.
compare_Never(w) ==
    /\ pc[w] = "compare"
    /\ workerTo(w, "take")
    /\ UNCHANGED <<queueVars, submit, task, historyVars, ownerVars>>

\* Mutant: the queue is empty when its first node has no data.
compare_Data(w) ==
    /\ pc[w] = "compare"
    /\ IF Data[head] = None
         THEN HeadMutex' = None /\ workerTo(w, "test")
         ELSE UNCHANGED HeadMutex /\ workerTo(w, "take")
    /\ UNCHANGED <<head, tail, Data, linked, TailMutex, submit, task, historyVars, ownerVars>>

\* GetTail takes and releases TailMutex.
compare(w) ==
    /\ pc[w] = "compare" /\ TailMutex = None
    /\ IF head = tail
         THEN HeadMutex' = None /\ workerTo(w, "test")
         ELSE UNCHANGED HeadMutex /\ workerTo(w, "take")
    /\ UNCHANGED <<head, tail, Data, linked, TailMutex, submit, task, historyVars, ownerVars>>

takeData(w) ==
    /\ pc[w] = "take"
    /\ task' = [task EXCEPT ![w] = Data[head]]
    /\ Data' = [Data EXCEPT ![head] = None]
    /\ workerTo(w, "move")
    /\ UNCHANGED <<head, tail, linked, HeadMutex, TailMutex, submit, historyVars, ownerVars>>

moveHead(w) ==
    /\ pc[w] = "move"
    /\ head' = head + 1
    /\ HeadMutex' = None
    /\ delivered' = Append(delivered, task[w])
    /\ workerTo(w, "run")
    /\ UNCHANGED <<tail, Data, linked, TailMutex, submit, task, ran, ownerVars>>

run(w) ==
    /\ pc[w] = "run"
    /\ ran' = [ran EXCEPT ![task[w]] = @ + 1]
    /\ task' = [task EXCEPT ![w] = None]
    /\ workerTo(w, "test")
    /\ UNCHANGED <<queueVars, submit, delivered, ownerVars>>

Worker(w) ==
    testDone(w) \/ lockHead(w) \/ compare(w) \/ takeData(w) \/ moveHead(w) \/ run(w)
-----------------------------------------------------------------------------
(* The owner: Resize, and the destructor, whose last step is that of the   *)
(* member ThreadJoiner.                                                    *)

Resize ==
    /\ owner = "using" /\ resizes < MaxResizes
    /\ Done' = TRUE
    /\ owner' = "resizing"
    /\ resizes' = resizes + 1
    /\ UNCHANGED <<queueVars, submit, pc, task, historyVars, Threads>>

Joined == \A w \in Threads : pc[w] = "exited"

\* Mutant: Done stays set for the new threads.
restart_Done(threads) ==
    /\ owner = "resizing" /\ Joined
    /\ Threads' = threads
    /\ pc' = [w \in Workers |-> IF w \in threads THEN "test" ELSE "exited"]
    /\ owner' = "using"
    /\ UNCHANGED <<queueVars, submit, task, historyVars, Done, resizes>>

\* Clear has joined all threads; new ones are started.
restart(threads) ==
    /\ owner = "resizing" /\ Joined
    /\ Done' = FALSE
    /\ Threads' = threads
    /\ pc' = [w \in Workers |-> IF w \in threads THEN "test" ELSE "exited"]
    /\ owner' = "using"
    /\ UNCHANGED <<queueVars, submit, task, historyVars, resizes>>

\* Nobody may call a member function when the destructor begins.
destroy ==
    /\ owner = "using"
    /\ \A x \in Tasks : submit[x] \in {"before", "submitted"}
    /\ Done' = TRUE
    /\ owner' = "destroying"
    /\ UNCHANGED <<queueVars, submit, pc, task, historyVars, Threads, resizes>>

\* Mutant: the threads are not joined.
joinAll_Detached ==
    /\ owner = "destroying"
    /\ Threads' = {}
    /\ owner' = "destroyed"
    /\ UNCHANGED <<queueVars, submit, pc, task, historyVars, Done, resizes>>

joinAll ==
    /\ owner = "destroying" /\ Joined
    /\ Threads' = {}
    /\ owner' = "destroyed"
    /\ UNCHANGED <<queueVars, submit, pc, task, historyVars, Done, resizes>>

restartAny == \E threads \in SUBSET Workers : restart(threads)

\* The pool is no more.
gone == owner = "destroyed" /\ UNCHANGED vars

Next ==
    \/ \E x \in Tasks : Submit(x)
    \/ \E w \in Workers : Worker(w)
    \/ Resize \/ restartAny \/ destroy \/ joinAll \/ gone

Spec == Init /\ [][Next]_vars

\* Every thread is scheduled.  A worker may be passed over whenever it wants a mutex: the
\* others take the tasks, and once Done is set each of them locks at most once more.
FairSpec ==
    /\ Spec
    /\ \A x \in Tasks : WF_vars(storeData(x) \/ storeNext(x) \/ moveTail(x))
    /\ \A w \in Workers : WF_vars(Worker(w))
    /\ WF_vars(restartAny) /\ WF_vars(joinAll)
-----------------------------------------------------------------------------
(* Properties.                                                             *)

\* The variables have their types.
TypeOK ==
    /\ head \in Nodes /\ tail \in Nodes /\ linked \subseteq Nodes
    /\ Data \in [Nodes -> Tasks \cup {None}]
    /\ HeadMutex \in Workers \cup {None} /\ TailMutex \in Tasks \cup {None}
    /\ submit \in [Tasks -> {"before", "data", "next", "tail", "submitted"}]
    /\ pc \in [Workers -> {"test", "lock", "compare", "take", "move", "run", "exited"}]
    /\ task \in [Workers -> Tasks \cup {None}]
    /\ ran \in [Tasks -> {0, 1}]
    /\ Done \in BOOLEAN /\ Threads \subseteq Workers
    /\ owner \in {"using", "resizing", "destroying", "destroyed"}
    /\ resizes \in 0 .. MaxResizes

Pending(x) == \E n \in head .. tail - 1 : Data[n] = x
Held(x) == { w \in Workers : task[w] = x }

\* A submitted task is in exactly one place: in the queue, with one worker, or it
\* has been called once.  Resize loses none, and none is called twice.
OnePlace ==
    \A x \in Tasks : submit[x] = "submitted" =>
        Cardinality(Held(x)) + ran[x] + (IF Pending(x) THEN 1 ELSE 0) = 1

\* The node that a worker takes is complete: PopHead reads Data and Next without
\* TailMutex, which it has released again after the comparison.
NodeComplete ==
    \A w \in Workers :
        /\ pc[w] = "take" => Data[head] # None /\ head \in linked /\ head < tail
        /\ pc[w] = "move" => task[w] # None /\ head \in linked /\ head < tail

\* The workers are gone when the destructor returns: none touches the queue.
NobodyLeft ==
    owner = "destroyed" => \A w \in Workers : pc[w] = "exited" /\ task[w] = None

\* The pool is consistent: typed, no worker takes a node that is still being filled,
\* and none is left when the destructor has returned.
PoolConsistent == TypeOK /\ NodeComplete /\ NobodyLeft

\* The list with its two mutexes is a queue (Fifo): values come out in the order in
\* which tail moved over them.
inQueue ==
    LET first == IF \E w \in Workers : pc[w] = "move"
                   THEN <<task[CHOOSE w \in Workers : pc[w] = "move"]>> ELSE <<>>
    IN  first \o [i \in 1 .. (tail - head) - Len(first) |-> Data[head + Len(first) + i - 1]]
Queue == INSTANCE Fifo WITH Values <- Tasks, pending <- inQueue
IsQueue == Queue!Spec

\* A submitted task is called, unless the pool has no threads or is destroyed.
TasksRun ==
    \A x \in Tasks :
        submit[x] = "submitted" ~>
            (ran[x] = 1 \/ Threads = {} \/ owner \in {"destroying", "destroyed"})

\* Resize and the destructor return: every worker sees Done.
OwnerReturns == (owner \in {"resizing", "destroying"}) ~> (owner \in {"using", "destroyed"})
=============================================================================
