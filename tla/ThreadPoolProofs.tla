-------------------------- MODULE ThreadPoolProofs --------------------------
(***************************************************************************)
(* Proofs about ThreadPool for any tasks, any workers and any number of    *)
(* resizes: the pool is consistent, every submitted task is in one place,  *)
(* and the list with its two mutexes implements Fifo.                      *)
(***************************************************************************)
EXTENDS ThreadPool, FiniteSetTheorems, TLAPS

\* The provers that a leaf is given to, and for how long.
USE SMTT(60), ZenonT(60)

(***************************************************************************)
(* The inductive invariant.                                                *)
(***************************************************************************)

Submitted == { x \in Tasks : submit[x] = "submitted" }

\* A call of Submit between its first and its last step, and a worker between the
\* two ends of TryPop's critical section.
Pushing(x) == submit[x] \in {"data", "next", "tail"}
Popping(w) == pc[w] \in {"compare", "take", "move"}

\* Both mutexes are held by the one thread that is in their critical section.
MutexInv ==
    /\ \A x \in Tasks : Pushing(x) <=> TailMutex = x
    /\ \A w \in Workers : Popping(w) <=> HeadMutex = w

\* The list: head does not pass tail, the nodes between them are linked and all full
\* but the one a worker has just emptied, and tail counts the submitted tasks.
ListInv ==
    /\ head <= tail
    /\ tail = Cardinality(Submitted)
    /\ head .. tail - 1 \subseteq linked
    /\ \A n \in head .. tail - 1 :
          Data[n] # None \/ (n = head /\ \E w \in Workers : pc[w] = "move")
    /\ \A x \in Tasks : submit[x] \in {"next", "tail"} => Data[tail] = x
    /\ \A x \in Tasks : submit[x] = "tail" => tail \in linked
    /\ \A w \in Workers : pc[w] \in {"take", "move"} => head < tail
    /\ \A w \in Workers : pc[w] = "move" => Data[head] = None
    /\ \A w \in Workers : task[w] # None <=> pc[w] \in {"move", "run"}

\* Where a task can be: data of a node between the ends once it is submitted, of the
\* tail before, a worker's variable, called; no two of these for the same task.
PlaceInv ==
    /\ \A n \in Nodes, x \in Tasks : Data[n] = x =>
          /\ \/ n \in head .. tail - 1 /\ submit[x] = "submitted"
             \/ n = tail /\ submit[x] \in {"next", "tail"}
          /\ ran[x] = 0
          /\ \A w \in Workers : task[w] # x
          /\ \A m \in Nodes : Data[m] = x => m = n
    /\ \A w \in Workers, x \in Tasks : task[w] = x =>
          /\ submit[x] = "submitted"
          /\ ran[x] = 0
          /\ \A v \in Workers : task[v] = x => v = w
    /\ \A x \in Tasks : submit[x] = "submitted" =>
          \/ ran[x] = 1
          \/ \E w \in Workers : task[w] = x
          \/ Pending(x)
    /\ \A x \in Tasks : ran[x] = 1 => submit[x] = "submitted"

\* Workers that are not in Threads have left, and Threads is empty in the end.
OwnerInv ==
    /\ \A w \in Workers : w \notin Threads => pc[w] = "exited"
    /\ owner = "destroyed" => Threads = {}

IInv == TypeOK /\ MutexInv /\ ListInv /\ PlaceInv /\ OwnerInv
-----------------------------------------------------------------------------
LEMMA TasksCounted == Cardinality(Tasks) \in Nat /\ Nodes \subseteq Nat
<1>1. Cardinality(Tasks) \in Nat
    BY PoolAssumption, FS_CardinalityType
<1> QED
    BY <1>1 DEF Nodes

\* A call of Submit that is not over leaves room for one more node.
LEMMA RoomForOne ==
    ASSUME TypeOK, ListInv, NEW x \in Tasks, submit[x] # "submitted"
    PROVE  /\ tail + 1 \in Nodes
           /\ Cardinality(Submitted \cup {x}) = tail + 1
<1>1. Submitted \subseteq Tasks /\ IsFiniteSet(Submitted) /\ x \notin Submitted
    BY PoolAssumption, FS_Subset DEF Submitted
<1>2. Cardinality(Submitted \cup {x}) = tail + 1
    BY <1>1, FS_AddElement, ZenonT(60) DEF ListInv
<1>3. Submitted \cup {x} \in SUBSET Tasks
    BY <1>1
<1>4. tail + 1 <= Cardinality(Tasks)
    BY <1>2, <1>3, PoolAssumption, FS_Subset
<1> QED
    BY <1>2, <1>4, TasksCounted DEF TypeOK, Nodes

LEMMA InitIInv == Init => IInv
<1> SUFFICES ASSUME Init PROVE IInv
    OBVIOUS
<1>1. TypeOK
    <2>1. 0 \in Nodes /\ 0 \in 0 .. MaxResizes
        BY PoolAssumption, TasksCounted DEF Nodes
    <2>2. Done \in BOOLEAN
        BY ZenonT(60) DEF Init
    <2>3. pc \in [Workers -> {"test", "lock", "compare", "take", "move", "run", "exited"}]
        BY DEF Init
    <2> QED
        BY <2>1, <2>2, <2>3, PoolAssumption DEF Init, TypeOK
<1>2. MutexInv
    BY PoolAssumption DEF Init, MutexInv, Pushing, Popping
<1>3. ListInv
    <2>1. Submitted = {}
        BY DEF Init, Submitted
    <2> QED
        BY <2>1, FS_EmptySet DEF Init, ListInv
<1>4. PlaceInv
    BY PoolAssumption DEF Init, PlaceInv
<1>5. OwnerInv
    BY DEF Init, OwnerInv
<1> QED
    BY <1>1, <1>2, <1>3, <1>4, <1>5 DEF IInv

\* The steps of Submit.
LEMMA SubmitStep ==
    ASSUME IInv, NEW x \in Tasks, Submit(x)
    PROVE  IInv'
<1> USE TasksCounted, PoolAssumption DEF IInv, queueVars, historyVars, ownerVars, pushTo
<1>1. CASE lockTail(x)
    <2>1. TypeOK'
        BY <1>1 DEF lockTail, TypeOK
    <2>2. MutexInv'
        BY <1>1 DEF lockTail, TypeOK, MutexInv, Pushing, Popping
    <2>3. ListInv'
        <3>1. Submitted' = Submitted
            BY <1>1 DEF lockTail, TypeOK, Submitted
        <3> QED
            BY <1>1, <3>1 DEF lockTail, TypeOK, ListInv
    <2>4. PlaceInv'
        BY <1>1 DEF lockTail, TypeOK, PlaceInv, Pending
    <2>5. OwnerInv'
        BY <1>1 DEF lockTail, OwnerInv
    <2> QED
        BY <2>1, <2>2, <2>3, <2>4, <2>5
<1>2. CASE storeData(x)
    <2>1. TypeOK'
        BY <1>2 DEF storeData, TypeOK
    <2>2. MutexInv'
        BY <1>2 DEF storeData, TypeOK, MutexInv, Pushing, Popping
    <2>3. ListInv'
        <3>1. Submitted' = Submitted
            BY <1>2 DEF storeData, TypeOK, Submitted
        <3>2. \A y \in Tasks : submit'[y] \in {"next", "tail"} => y = x
            BY <1>2 DEF storeData, TypeOK, MutexInv, Pushing
        <3> QED
            BY <1>2, <3>1, <3>2 DEF storeData, TypeOK, ListInv
    <2>4. PlaceInv'
        <3>1. /\ \A n \in Nodes : Data[n] # x
              /\ ran[x] = 0 /\ \A w \in Workers : task[w] # x
            BY <1>2 DEF storeData, TypeOK, PlaceInv
        <3> QED
            BY <1>2, <3>1 DEF storeData, TypeOK, PlaceInv, Pending
    <2>5. OwnerInv'
        BY <1>2 DEF storeData, OwnerInv
    <2> QED
        BY <2>1, <2>2, <2>3, <2>4, <2>5
<1>3. CASE storeNext(x)
    <2>1. TypeOK'
        BY <1>3 DEF storeNext, TypeOK
    <2>2. MutexInv'
        BY <1>3 DEF storeNext, TypeOK, MutexInv, Pushing, Popping
    <2>3. ListInv'
        <3>1. Submitted' = Submitted
            BY <1>3 DEF storeNext, TypeOK, Submitted
        <3> QED
            BY <1>3, <3>1 DEF storeNext, TypeOK, ListInv
    <2>4. PlaceInv'
        BY <1>3 DEF storeNext, TypeOK, PlaceInv, Pending
    <2>5. OwnerInv'
        BY <1>3 DEF storeNext, OwnerInv
    <2> QED
        BY <2>1, <2>2, <2>3, <2>4, <2>5
<1>4. CASE moveTail(x)
    <2>1. tail + 1 \in Nodes /\ tail' = Cardinality(Submitted')
        <3>1. Submitted' = Submitted \cup {x}
            BY <1>4 DEF moveTail, TypeOK, Submitted
        <3>2. submit[x] # "submitted" /\ tail' = tail + 1
            BY <1>4 DEF moveTail
        <3> QED
            BY <3>1, <3>2, RoomForOne
    <2>2. TypeOK'
        BY <1>4, <2>1 DEF moveTail, TypeOK
    <2>3. MutexInv'
        BY <1>4 DEF moveTail, TypeOK, MutexInv, Pushing, Popping
    <2>4. Data[tail] = x /\ tail \in linked
        BY <1>4 DEF moveTail, ListInv
    <2>5. ListInv'
        <3>1. \A y \in Tasks : submit'[y] \notin {"next", "tail"}
            BY <1>4 DEF moveTail, TypeOK, MutexInv, Pushing
        <3> QED
            BY <1>4, <2>1, <2>4, <3>1 DEF moveTail, TypeOK, ListInv
    <2>6. PlaceInv'
        BY <1>4, <2>4 DEF moveTail, TypeOK, ListInv, PlaceInv, Pending
    <2>7. OwnerInv'
        BY <1>4 DEF moveTail, OwnerInv
    <2> QED
        BY <2>2, <2>3, <2>5, <2>6, <2>7
<1> QED
    BY <1>1, <1>2, <1>3, <1>4 DEF Submit

\* The steps of a worker.
LEMMA WorkerStep ==
    ASSUME IInv, NEW w \in Workers, Worker(w)
    PROVE  IInv'
<1> USE TasksCounted, PoolAssumption DEF IInv, queueVars, historyVars, ownerVars, workerTo
<1>1. CASE testDone(w)
    <2>1. TypeOK'
        BY <1>1 DEF testDone, TypeOK
    <2>2. MutexInv'
        BY <1>1 DEF testDone, TypeOK, MutexInv, Pushing, Popping
    <2>3. ListInv'
        BY <1>1 DEF testDone, TypeOK, ListInv, Submitted
    <2>4. PlaceInv'
        BY <1>1 DEF testDone, TypeOK, PlaceInv, Pending
    <2>5. OwnerInv'
        BY <1>1 DEF testDone, TypeOK, OwnerInv
    <2> QED
        BY <2>1, <2>2, <2>3, <2>4, <2>5
<1>2. CASE lockHead(w)
    <2>1. TypeOK'
        BY <1>2 DEF lockHead, TypeOK
    <2>2. MutexInv'
        BY <1>2 DEF lockHead, TypeOK, MutexInv, Pushing, Popping
    <2>3. ListInv'
        BY <1>2 DEF lockHead, TypeOK, ListInv, Submitted
    <2>4. PlaceInv'
        BY <1>2 DEF lockHead, TypeOK, PlaceInv, Pending
    <2>5. OwnerInv'
        BY <1>2 DEF lockHead, TypeOK, OwnerInv
    <2> QED
        BY <2>1, <2>2, <2>3, <2>4, <2>5
<1>3. CASE compare(w)
    <2>1. TypeOK'
        BY <1>3 DEF compare, TypeOK
    <2>2. MutexInv'
        BY <1>3 DEF compare, TypeOK, MutexInv, Pushing, Popping
    <2>3. ListInv'
        <3>1. /\ \A v \in Workers : pc'[v] = "move" <=> pc[v] = "move"
              /\ \A v \in Workers : pc'[v] = "run" <=> pc[v] = "run"
              /\ \A v \in Workers : pc'[v] = "take" => pc[v] = "take" \/ head # tail
            BY <1>3 DEF compare, TypeOK
        <3>2. head # tail => head < tail
            BY DEF TypeOK, ListInv
        <3> QED
            BY <1>3, <3>1, <3>2 DEF compare, ListInv, Submitted
    <2>4. PlaceInv'
        BY <1>3 DEF compare, TypeOK, PlaceInv, Pending
    <2>5. OwnerInv'
        BY <1>3 DEF compare, TypeOK, OwnerInv
    <2> QED
        BY <2>1, <2>2, <2>3, <2>4, <2>5
<1>4. CASE takeData(w)
    <2>1. \A v \in Workers : Popping(v) => v = w
        BY <1>4 DEF takeData, MutexInv, Popping
    <2>2. head \in head .. tail - 1 /\ head \in Nodes /\ Data[head] \in Tasks
        BY <1>4, <2>1 DEF takeData, TypeOK, ListInv, Popping
    <2>3. TypeOK'
        BY <1>4, <2>2 DEF takeData, TypeOK
    <2>4. MutexInv'
        BY <1>4 DEF takeData, TypeOK, MutexInv, Pushing, Popping
    <2>5. ListInv'
        BY <1>4, <2>2 DEF takeData, TypeOK, ListInv, Submitted
    <2>6. PlaceInv'
        <3> DEFINE x == Data[head]
        <3>1. /\ submit[x] = "submitted" /\ ran[x] = 0
              /\ \A v \in Workers : task[v] # x
              /\ \A m \in Nodes : Data[m] = x => m = head
            BY <2>2, <1>4 DEF takeData, TypeOK, PlaceInv
        <3>2. /\ \A v \in Workers : task'[v] = IF v = w THEN x ELSE task[v]
              /\ \A m \in Nodes : Data'[m] = IF m = head THEN None ELSE Data[m]
              /\ head' = head /\ tail' = tail /\ submit' = submit /\ ran' = ran
            BY <1>4 DEF takeData, TypeOK
        <3>3. \A n \in Nodes, y \in Tasks : Data'[n] = y => n # head /\ Data[n] = y /\ y # x
            BY <3>1, <3>2
        <3>4. \A y \in Tasks : Pending(y) => Pending(y)' \/ y = x
            BY <2>2, <3>2 DEF Pending, TypeOK, Nodes
        <3>5. task[w] = None
            BY <1>4 DEF takeData, ListInv
        <3>6. x \in Tasks
            BY <2>2
        <3> HIDE DEF x
        <3>7. \A n \in Nodes, y \in Tasks : Data'[n] = y =>
                /\ \/ n \in head' .. tail' - 1 /\ submit'[y] = "submitted"
                   \/ n = tail' /\ submit'[y] \in {"next", "tail"}
                /\ ran'[y] = 0
                /\ \A v \in Workers : task'[v] # y
                /\ \A m \in Nodes : Data'[m] = y => m = n
            <4> SUFFICES ASSUME NEW n \in Nodes, NEW y \in Tasks, Data'[n] = y
                         PROVE  /\ \/ n \in head .. tail - 1 /\ submit[y] = "submitted"
                                   \/ n = tail /\ submit[y] \in {"next", "tail"}
                                /\ ran[y] = 0
                                /\ \A v \in Workers : task'[v] # y
                                /\ \A m \in Nodes : Data'[m] = y => m = n
                BY <3>2
            <4>1. Data[n] = y /\ y # x /\ \A m \in Nodes : Data'[m] = y => Data[m] = y
                BY <3>3
            <4>2. \A v \in Workers : task[v] # y => task'[v] # y
                BY <3>2, <4>1
            <4>3. /\ \/ n \in head .. tail - 1 /\ submit[y] = "submitted"
                     \/ n = tail /\ submit[y] \in {"next", "tail"}
                  /\ ran[y] = 0
                  /\ \A v \in Workers : task[v] # y
                  /\ \A m \in Nodes : Data[m] = y => m = n
                BY <4>1, Zenon DEF PlaceInv
            <4> QED
                BY <4>1, <4>2, <4>3
        <3>8. \A v \in Workers, y \in Tasks : task'[v] = y =>
                /\ submit'[y] = "submitted"
                /\ ran'[y] = 0
                /\ \A u \in Workers : task'[u] = y => u = v
            BY <3>1, <3>2, <3>6 DEF PlaceInv
        <3>9. \A y \in Tasks : submit'[y] = "submitted" =>
                \/ ran'[y] = 1
                \/ \E v \in Workers : task'[v] = y
                \/ Pending(y)'
            BY <3>2, <3>4, <3>5, <3>6 DEF PlaceInv
        <3> QED
            BY <3>2, <3>7, <3>8, <3>9 DEF PlaceInv
    <2>7. OwnerInv'
        BY <1>4 DEF takeData, TypeOK, OwnerInv
    <2> QED
        BY <2>3, <2>4, <2>5, <2>6, <2>7
<1>5. CASE moveHead(w)
    <2>1. \A v \in Workers : Popping(v) => v = w
        BY <1>5 DEF moveHead, MutexInv, Popping
    <2>2. head < tail /\ head + 1 \in Nodes
        BY <1>5 DEF moveHead, TypeOK, ListInv, Nodes
    <2>3. Data[head] = None
        BY <1>5 DEF moveHead, ListInv
    <2>4. TypeOK'
        BY <1>5, <2>2 DEF moveHead, TypeOK
    <2>5. MutexInv'
        BY <1>5 DEF moveHead, TypeOK, MutexInv, Pushing, Popping
    <2>6. ListInv'
        BY <1>5, <2>1, <2>2 DEF moveHead, TypeOK, ListInv, Submitted, Popping
    <2>7. PlaceInv'
        BY <1>5, <2>2, <2>3 DEF moveHead, TypeOK, PlaceInv, Pending
    <2>8. OwnerInv'
        BY <1>5 DEF moveHead, TypeOK, OwnerInv
    <2> QED
        BY <2>4, <2>5, <2>6, <2>7, <2>8
<1>6. CASE run(w)
    <2>1. task[w] \in Tasks /\ ran[task[w]] = 0
        BY <1>6 DEF run, TypeOK, ListInv, PlaceInv
    <2>2. TypeOK'
        BY <1>6, <2>1 DEF run, TypeOK
    <2>3. MutexInv'
        BY <1>6 DEF run, TypeOK, MutexInv, Pushing, Popping
    <2>4. ListInv'
        BY <1>6 DEF run, TypeOK, ListInv, Submitted
    <2>5. PlaceInv'
        BY <1>6, <2>1 DEF run, TypeOK, PlaceInv, Pending
    <2>6. OwnerInv'
        BY <1>6 DEF run, TypeOK, OwnerInv
    <2> QED
        BY <2>2, <2>3, <2>4, <2>5, <2>6
<1> QED
    BY <1>1, <1>2, <1>3, <1>4, <1>5, <1>6 DEF Worker

\* The steps of the owner.
LEMMA OwnerStep ==
    ASSUME IInv, Resize \/ restartAny \/ destroy \/ joinAll \/ UNCHANGED vars
    PROVE  IInv'
<1> USE TasksCounted, PoolAssumption DEF IInv, queueVars, historyVars, ownerVars
<1>1. CASE Resize
    BY <1>1 DEF Resize, TypeOK, MutexInv, ListInv, PlaceInv, OwnerInv, Pushing,
        Popping, Submitted, Pending
<1>2. ASSUME NEW threads \in SUBSET Workers, restart(threads) PROVE IInv'
    <2>1. \A w \in Workers : pc[w] = "exited"
        BY <1>2 DEF restart, Joined, OwnerInv
    <2>2. \A w \in Workers : pc'[w] \in {"test", "exited"}
        BY <1>2 DEF restart
    <2>3. TypeOK'
        BY <1>2, ZenonT(60) DEF restart, TypeOK
    <2>4. MutexInv'
        BY <1>2, <2>1, <2>2 DEF restart, MutexInv, Pushing, Popping
    <2>5. ListInv'
        BY <1>2, <2>1, <2>2 DEF restart, ListInv, Submitted
    <2>6. PlaceInv'
        BY <1>2 DEF restart, PlaceInv, Pending
    <2>7. OwnerInv'
        BY <1>2 DEF restart, OwnerInv
    <2> QED
        BY <2>3, <2>4, <2>5, <2>6, <2>7
<1>3. CASE destroy
    BY <1>3 DEF destroy, TypeOK, MutexInv, ListInv, PlaceInv, OwnerInv, Pushing,
        Popping, Submitted, Pending
<1>4. CASE joinAll
    <2>1. OwnerInv'
        BY <1>4 DEF joinAll, OwnerInv, Joined
    <2> QED
        BY <1>4, <2>1 DEF joinAll, TypeOK, MutexInv, ListInv, PlaceInv, Pushing,
            Popping, Submitted, Pending
<1>5. CASE UNCHANGED vars
    BY <1>5 DEF vars, TypeOK, MutexInv, ListInv, PlaceInv, OwnerInv, Pushing,
        Popping, Submitted, Pending
<1> QED
    BY <1>1, <1>2, <1>3, <1>4, <1>5 DEF restartAny

LEMMA IInvStep == IInv /\ [Next]_vars => IInv'
BY SubmitStep, WorkerStep, OwnerStep DEF Next, gone

LEMMA IInvAlways == Spec => []IInv
BY InitIInv, IInvStep, PTL DEF Spec
-----------------------------------------------------------------------------
(* What follows from the invariant.                                        *)

\* PoolConsistent of the runs, for every pool: PopHead, which reads Data and Next
\* outside TailMutex, never takes a node that PushImpl is still filling, and when the
\* destructor has returned no worker is left.
THEOREM PoolIsConsistent == Spec => []PoolConsistent
<1>1. IInv => PoolConsistent
    <2> SUFFICES ASSUME IInv PROVE NodeComplete /\ NobodyLeft
        BY DEF IInv, PoolConsistent
    <2>1. NodeComplete
        <3> SUFFICES ASSUME NEW w \in Workers, pc[w] \in {"take", "move"}
                     PROVE  /\ head \in linked /\ head < tail
                            /\ pc[w] = "take" => Data[head] # None
                            /\ pc[w] = "move" => task[w] # None
            BY DEF NodeComplete
        <3>1. head < tail /\ head \in head .. tail - 1
            BY TasksCounted DEF IInv, TypeOK, ListInv
        <3>2. pc[w] = "take" => \A v \in Workers : pc[v] # "move"
            BY DEF IInv, MutexInv, Popping
        <3> QED
            BY <3>1, <3>2 DEF IInv, ListInv
    <2>2. NobodyLeft
        BY DEF IInv, OwnerInv, ListInv, NobodyLeft
    <2> QED
        BY <2>1, <2>2
<1> QED
    BY <1>1, IInvAlways, PTL

\* OnePlace of the runs, for every pool: across any interleaving of Submit, the
\* workers and Resize, a submitted task is in the queue, or with one worker, or has
\* been called once, and only one of these.
THEOREM TasksInOnePlace == Spec => []OnePlace
<1>1. ASSUME IInv, NEW x \in Tasks, submit[x] = "submitted"
      PROVE  Cardinality(Held(x)) + ran[x] + (IF Pending(x) THEN 1 ELSE 0) = 1
    <2>1. Cardinality({}) = 0 /\ \A w : Cardinality({w}) = 1
        BY FS_EmptySet, FS_Singleton
    <2>2. CASE \E w \in Workers : task[w] = x
        <3>1. PICK w \in Workers : task[w] = x
            BY <2>2
        <3>2. Held(x) = {w} /\ ran[x] = 0
            BY <1>1, <3>1 DEF IInv, PlaceInv, Held
        <3>3. ~ Pending(x)
            BY <1>1, <3>1, TasksCounted DEF IInv, TypeOK, PlaceInv, Pending, Nodes
        <3> QED
            BY <2>1, <3>2, <3>3
    <2>3. CASE ~ \E w \in Workers : task[w] = x
        <3>1. Held(x) = {}
            BY <2>3 DEF Held
        <3>2. Pending(x) => ran[x] = 0
            BY <1>1, TasksCounted DEF IInv, TypeOK, PlaceInv, Pending, Nodes
        <3>3. Pending(x) \/ ran[x] = 1
            BY <1>1, <2>3 DEF IInv, PlaceInv
        <3> QED
            BY <2>1, <3>1, <3>2, <3>3
    <2> QED
        BY <2>2, <2>3
<1>2. IInv => OnePlace
    BY <1>1 DEF OnePlace
<1> QED
    BY <1>2, IInvAlways, PTL
-----------------------------------------------------------------------------
(* The refinement of Fifo.                                                 *)

\* The values from head to tail; the first may already be with the worker that is
\* about to move head.
Moving == \E w \in Workers : pc[w] = "move"
Mover == CHOOSE w \in Workers : pc[w] = "move"
Waiting ==
    [i \in 1 .. tail - head |->
        IF i = 1 /\ Moving THEN task[Mover] ELSE Data[head + i - 1]]

LEMMA InQueueIsWaiting == IInv => inQueue = Waiting
<1> SUFFICES ASSUME IInv PROVE inQueue = Waiting
    OBVIOUS
<1>1. head \in Nat /\ tail \in Nat /\ head <= tail
    BY TasksCounted DEF IInv, TypeOK, ListInv
<1>2. CASE Moving
    <2> DEFINE rest == [i \in 1 .. (tail - head) - 1 |-> Data[head + 1 + i - 1]]
    <2>1. head < tail
        BY <1>2 DEF Moving, IInv, ListInv
    <2>2. inQueue = <<task[Mover]>> \o rest
        BY <1>2, ZenonT(60) DEF Moving, Mover, inQueue
    <2> DEFINE values == Tasks \cup {None}
               length == (tail - head) - 1
    <2>3. length \in Nat /\ task[Mover] \in values
        BY <1>1, <1>2, <2>1 DEF Moving, Mover, IInv, TypeOK
    <2>4. \A i \in 1 .. length : head + 1 + i - 1 \in Nodes /\ head + 1 + i - 1 = head + i
        BY <1>1, <2>1, TasksCounted DEF IInv, TypeOK, Nodes
    <2>5. /\ rest \in [1 .. length -> values]
          /\ \A i \in 1 .. length : rest[i] = Data[head + i]
        BY <2>4 DEF IInv, TypeOK
    <2> HIDE DEF rest
    <2>6. rest \in Seq(values) /\ Len(rest) = length
        BY <2>3, <2>5
    <2> DEFINE all == <<task[Mover]>> \o rest
    <2>7. /\ all \in Seq(values) /\ Len(all) = tail - head
          /\ all[1] = task[Mover]
          /\ \A i \in 2 .. tail - head : all[i] = rest[i - 1]
        BY <1>1, <2>1, <2>3, <2>6
    <2> HIDE DEF all
    <2>8. all = [i \in 1 .. tail - head |-> all[i]]
        BY <2>7
    <2>9. \A i \in 1 .. tail - head : all[i] = IF i = 1 THEN task[Mover] ELSE Data[head + i - 1]
        <3> SUFFICES ASSUME NEW i \in 1 .. tail - head, i # 1
                     PROVE  all[i] = Data[head + i - 1]
            BY <2>7
        <3>1. i \in 2 .. tail - head /\ i - 1 \in 1 .. length
            BY <1>1
        <3>2. all[i] = rest[i - 1] /\ rest[i - 1] = Data[head + (i - 1)]
            BY <2>5, <2>7, <3>1
        <3> QED
            BY <1>1, <3>2
    <2>10. Waiting = [i \in 1 .. tail - head |-> all[i]]
        BY <1>2, <2>9 DEF Waiting
    <2> QED
        BY <2>2, <2>8, <2>10, ZenonT(60) DEF all
<1>3. CASE ~ Moving
    BY <1>1, <1>3 DEF inQueue, Waiting, Moving
<1> QED
    BY <1>2, <1>3

LEMMA InQueueIsWaitingNext == IInv' => (inQueue = Waiting)'
BY InQueueIsWaiting, PTL

\* The values are tasks.
LEMMA WaitingType == IInv => Waiting \in Seq(Tasks) /\ Len(Waiting) = tail - head
<1> SUFFICES ASSUME IInv PROVE Waiting \in Seq(Tasks) /\ Len(Waiting) = tail - head
    OBVIOUS
<1>1. head \in Nat /\ tail \in Nat /\ head <= tail
    BY TasksCounted DEF IInv, TypeOK, ListInv
<1>2. ASSUME NEW i \in 1 .. tail - head PROVE Waiting[i] \in Tasks
    <2>1. CASE i = 1 /\ Moving
        <3>1. Mover \in Workers /\ pc[Mover] = "move"
            BY <2>1 DEF Moving, Mover
        <3> QED
            BY <2>1, <3>1 DEF IInv, TypeOK, ListInv, Waiting
    <2>2. CASE ~ (i = 1 /\ Moving)
        <3>1. head + i - 1 \in head .. tail - 1 /\ head + i - 1 \in Nodes
            BY <1>1, TasksCounted DEF IInv, TypeOK, Nodes
        <3>2. Data[head + i - 1] \in Tasks
            BY <1>1, <2>2, <3>1 DEF IInv, TypeOK, ListInv, Moving
        <3> QED
            BY <2>2, <3>2 DEF Waiting
    <2> QED
        BY <2>1, <2>2
<1>3. Waiting \in [1 .. tail - head -> Tasks]
    BY <1>2 DEF Waiting
<1> QED
    BY <1>1, <1>3

\* Moving tail puts the task of the call at the end.
LEMMA MoveTailPuts ==
    ASSUME IInv, IInv', NEW x \in Tasks, moveTail(x)
    PROVE  Waiting' = Append(Waiting, x)
<1>1. head \in Nat /\ tail \in Nat /\ head <= tail
    BY TasksCounted DEF IInv, TypeOK, ListInv
<1>2. /\ head' = head /\ tail' = tail + 1 /\ Data' = Data /\ Data[tail] = x
      /\ Moving' = Moving /\ task' = task /\ Mover' = Mover
    BY DEF moveTail, IInv, ListInv, Moving, Mover
<1>3. Moving => head < tail
    BY DEF IInv, ListInv, Moving
<1>4. Waiting' = [i \in 1 .. (tail + 1) - head |->
                    IF i = 1 /\ Moving THEN task[Mover] ELSE Data[head + i - 1]]
    BY <1>2 DEF Waiting
<1>5. Waiting \in Seq(Tasks) /\ Len(Waiting) = tail - head
    BY WaitingType
<1>6. Append(Waiting, x) \in Seq(Tasks) /\ Len(Append(Waiting, x)) = (tail + 1) - head
    BY <1>1, <1>5
<1>7. ASSUME NEW i \in 1 .. (tail + 1) - head
      PROVE  Append(Waiting, x)[i] = IF i = 1 /\ Moving THEN task[Mover] ELSE Data[head + i - 1]
    <2>1. CASE i \in 1 .. tail - head
        <3>1. Append(Waiting, x)[i] = Waiting[i]
            BY <1>5, <2>1
        <3> QED
            BY <2>1, <3>1, ZenonT(60) DEF Waiting
    <2>2. CASE i = (tail - head) + 1
        <3>1. Append(Waiting, x)[i] = x /\ head + i - 1 = tail
            BY <1>1, <1>5, <2>2
        <3> QED
            BY <1>1, <1>2, <1>3, <2>2, <3>1
    <2>3. i \in 1 .. tail - head \/ i = (tail - head) + 1
        BY <1>1
    <2> QED
        BY <2>1, <2>2, <2>3, ZenonT(60)
<1> DEFINE result == Append(Waiting, x)
<1>8. /\ result \in Seq(Tasks) /\ Len(result) = (tail + 1) - head
      /\ \A i \in 1 .. (tail + 1) - head :
            result[i] = IF i = 1 /\ Moving THEN task[Mover] ELSE Data[head + i - 1]
    BY <1>6, <1>7
<1> HIDE DEF result
<1>9. result = [i \in 1 .. (tail + 1) - head |-> result[i]]
    BY <1>8
<1>10. result = Waiting'
    BY <1>4, <1>8, <1>9
<1> QED
    BY <1>10 DEF result

\* Moving head gets the first task, which the worker has taken from the node before.
LEMMA MoveHeadGets ==
    ASSUME IInv, IInv', NEW w \in Workers, moveHead(w)
    PROVE  Waiting # <<>> /\ Waiting' = Tail(Waiting) /\ Head(Waiting) = task[w]
<1>1. head \in Nat /\ tail \in Nat /\ head < tail
    BY TasksCounted DEF moveHead, IInv, TypeOK, ListInv
<1>2. \A v \in Workers : pc[v] = "move" => v = w
    BY DEF moveHead, IInv, MutexInv, Popping
<1>3. Moving /\ Mover = w
    BY <1>2 DEF moveHead, Moving, Mover
<1>4. head' = head + 1 /\ tail' = tail /\ Data' = Data
    BY DEF moveHead
<1>5. ~ Moving'
    BY <1>2 DEF moveHead, workerTo, Moving, IInv, TypeOK
<1>6. Waiting \in Seq(Tasks) /\ Len(Waiting) = tail - head
    BY WaitingType
<1>7. Waiting # <<>> /\ Head(Waiting) = Waiting[1] /\ Waiting[1] = task[w]
    BY <1>1, <1>3, <1>6 DEF Waiting
<1>8. Waiting' = [i \in 1 .. tail - (head + 1) |-> Data[(head + 1) + i - 1]]
    BY <1>4, <1>5 DEF Waiting
<1> DEFINE result == Tail(Waiting)
<1>9. result \in Seq(Tasks) /\ Len(result) = tail - (head + 1)
    BY <1>1, <1>6, <1>7
<1>10. ASSUME NEW i \in 1 .. tail - (head + 1)
       PROVE  result[i] = Data[(head + 1) + i - 1]
    <2>1. result[i] = Waiting[i + 1]
        BY <1>1, <1>6, <1>7
    <2>2. i + 1 \in 1 .. tail - head /\ i + 1 # 1 /\ head + (i + 1) - 1 = (head + 1) + i - 1
        BY <1>1
    <2>3. Waiting[i + 1] = Data[head + (i + 1) - 1]
        BY <2>2 DEF Waiting
    <2> QED
        BY <2>1, <2>2, <2>3, ZenonT(60)
<1> HIDE DEF result
<1>11. result = [i \in 1 .. tail - (head + 1) |-> result[i]]
    BY <1>9
<1>12. result = Waiting'
    BY <1>8, <1>10, <1>11
<1> QED
    BY <1>7, <1>12 DEF result

\* Taking from the head node is not seen from outside: the worker that has the first
\* task now is the one at "move".
LEMMA TakeDataStutters ==
    ASSUME IInv, NEW w \in Workers, takeData(w)
    PROVE  Waiting' = Waiting
<1>0. head \in Nat /\ tail \in Nat /\ head <= tail /\ head' = head /\ tail' = tail
    BY TasksCounted DEF takeData, IInv, TypeOK, ListInv
<1>1. \A v \in Workers : Popping(v) => v = w
    BY DEF takeData, IInv, MutexInv, Popping
<1>2. ~ Moving
    BY <1>1 DEF takeData, Moving, Popping
<1>3. \A v \in Workers : pc'[v] = "move" <=> v = w
    BY <1>1 DEF takeData, workerTo, IInv, TypeOK, Popping
<1>4. Moving' /\ Mover' = w
    BY <1>3 DEF Moving, Mover
<1>5. task'[w] = Data[head]
    BY DEF takeData, IInv, TypeOK
<1>6. \A i \in 1 .. tail - head : i # 1 => Data'[head + i - 1] = Data[head + i - 1]
    BY <1>0 DEF takeData, IInv, TypeOK
<1>7. \A i \in 1 .. tail - head :
        (IF i = 1 /\ Moving' THEN task'[Mover'] ELSE Data'[head' + i - 1])
        = (IF i = 1 /\ Moving THEN task[Mover] ELSE Data[head + i - 1])
    BY <1>0, <1>2, <1>4, <1>5, <1>6
<1> QED
    BY <1>0, <1>7 DEF Waiting

\* Every other step that keeps the workers at "move" where they are keeps the queue.
LEMMA OthersStutter ==
    ASSUME head' = head, tail' = tail, Data' = Data,
           \A w \in Workers : (pc'[w] = "move" <=> pc[w] = "move")
                              /\ (pc[w] = "move" => task'[w] = task[w])
    PROVE  Waiting' = Waiting
<1>1. Moving' = Moving /\ Mover' = Mover
    BY DEF Moving, Mover
<1>2. Moving => task'[Mover] = task[Mover]
    BY DEF Moving, Mover
<1> QED
    BY <1>1, <1>2 DEF Waiting

\* The steps in which nothing goes in or out.
Silent ==
    \/ \E x \in Tasks : lockTail(x) \/ storeData(x) \/ storeNext(x)
    \/ \E w \in Workers : testDone(w) \/ lockHead(w) \/ compare(w) \/ takeData(w) \/ run(w)
    \/ Resize \/ restartAny \/ destroy \/ joinAll \/ UNCHANGED vars

LEMMA SilentStutters ==
    ASSUME IInv, IInv', Silent
    PROVE  Waiting' = Waiting /\ delivered' = delivered
<1> USE DEF queueVars, historyVars, ownerVars
<1>1. ASSUME NEW x \in Tasks, lockTail(x) \/ storeNext(x)
      PROVE  Waiting' = Waiting /\ delivered' = delivered
    BY <1>1, OthersStutter DEF lockTail, storeNext
<1>2. ASSUME NEW x \in Tasks, storeData(x)
      PROVE  Waiting' = Waiting /\ delivered' = delivered
    <2>1. delivered' = delivered /\ head' = head /\ tail' = tail
        BY <1>2 DEF storeData
    <2>2. Moving' = Moving /\ Mover' = Mover /\ task' = task
        BY <1>2 DEF storeData, Moving, Mover
    <2>3. \A i \in 1 .. tail - head : Data'[head + i - 1] = Data[head + i - 1]
        BY <1>2, TasksCounted DEF storeData, IInv, TypeOK, ListInv
    <2> QED
        BY <2>1, <2>2, <2>3 DEF Waiting
<1>3. ASSUME NEW w \in Workers, testDone(w) \/ lockHead(w) \/ compare(w) \/ run(w)
      PROVE  Waiting' = Waiting /\ delivered' = delivered
    <2>1. \A v \in Workers : (pc'[v] = "move" <=> pc[v] = "move")
                             /\ (pc[v] = "move" => task'[v] = task[v])
        BY <1>3 DEF testDone, lockHead, compare, run, workerTo, IInv, TypeOK
    <2> QED
        BY <1>3, <2>1, OthersStutter DEF testDone, lockHead, compare, run
<1>4. ASSUME NEW w \in Workers, takeData(w)
      PROVE  Waiting' = Waiting /\ delivered' = delivered
    BY <1>4, TakeDataStutters, ZenonT(60) DEF takeData
<1>5. CASE Resize \/ destroy \/ joinAll \/ UNCHANGED vars
    BY <1>5, OthersStutter DEF Resize, destroy, joinAll, vars
<1>6. ASSUME NEW threads \in SUBSET Workers, restart(threads)
      PROVE  Waiting' = Waiting /\ delivered' = delivered
    <2>1. \A w \in Workers : pc[w] # "move" /\ pc'[w] # "move"
        BY <1>6 DEF restart, Joined, IInv, OwnerInv
    <2> QED
        BY <1>6, <2>1, OthersStutter DEF restart
<1> QED
    BY <1>1, <1>2, <1>3, <1>4, <1>5, <1>6 DEF Silent, restartAny

\* IsQueue of the runs, for every pool: TThreadsafeQueue is a queue.  A task goes in
\* where PushImpl moves Tail and comes out where PopHead moves Head; no other step of
\* the calls that overlap changes what is in it, and the order is that of the former.
THEOREM ImplementsFifo == Spec => IsQueue
<1>1. Init => Queue!Init
    <2> SUFFICES ASSUME Init PROVE inQueue = <<>> /\ delivered = <<>>
        BY DEF Queue!Init
    <2>1. inQueue = Waiting
        BY InitIInv, InQueueIsWaiting
    <2>2. Waiting \in Seq(Tasks) /\ Len(Waiting) = 0
        BY InitIInv, WaitingType DEF Init
    <2> QED
        BY <2>1, <2>2 DEF Init
<1>2. IInv /\ IInv' /\ [Next]_vars => [Queue!Next]_<<inQueue, delivered>>
    <2> SUFFICES ASSUME IInv, IInv', [Next]_vars
                 PROVE  [Queue!Next]_<<inQueue, delivered>>
        OBVIOUS
    <2>1. inQueue = Waiting /\ inQueue' = Waiting'
        BY InQueueIsWaiting, InQueueIsWaitingNext
    <2>2. ASSUME NEW x \in Tasks, moveTail(x) PROVE Queue!Next
        <3>1. inQueue' = Append(inQueue, x) /\ delivered' = delivered
            BY <2>1, <2>2, MoveTailPuts DEF moveTail, historyVars
        <3> QED
            BY <3>1 DEF Queue!Next, Queue!Put
    <2>3. ASSUME NEW w \in Workers, moveHead(w) PROVE Queue!Next
        <3>1. /\ inQueue # <<>> /\ inQueue' = Tail(inQueue)
              /\ delivered' = Append(delivered, Head(inQueue))
            BY <2>1, <2>3, MoveHeadGets DEF moveHead
        <3> QED
            BY <3>1 DEF Queue!Next, Queue!Get
    <2>4. CASE Silent
        BY <2>1, <2>4, SilentStutters
    <2> QED
        BY <2>2, <2>3, <2>4 DEF Silent, Next, Submit, Worker, gone
<1> QED
    BY <1>1, <1>2, IInvAlways, PTL DEF Spec, IsQueue, Queue!Spec
=============================================================================
