---------------------- MODULE ThreadCoordinationProofs ----------------------
(***************************************************************************)
(* Proofs that calls of execute_synchronized_blockwise work on every       *)
(* element exactly once and are timed from their own time stamp, for any   *)
(* number of threads, any number of calls, any ranges and any block size.  *)
(***************************************************************************)
EXTENDS ThreadCoordination, TLAPS

\* The provers that a leaf is given to, and for how long.
USE SMTT(60), ZenonT(60)

\* Places between the barriers of a call, and outside of all calls.
Inside == {"stamp", "claim", "work", "waitEnd"}
Outside == {"ready", "waitStart"}

\* The barriers keep the threads together: they are all inside the same call, or
\* all outside, with the exception of one that still has to complete the last call.
Together ==
    \A t, u \in Threads :
        \/ pc[t] \in Inside /\ pc[u] \in Inside /\ call[t] = call[u]
        \/ pc[t] \in Outside /\ pc[u] \in Outside /\ call[t] = call[u]
        \/ pc[t] = "complete" /\ t = u
        \/ pc[t] = "complete" /\ pc[u] \in Outside /\ call[u] = call[t] + 1
        \/ pc[u] = "complete" /\ pc[t] \in Outside /\ call[t] = call[u] + 1

\* Only a thread outside can have made all calls.
Bounded == \A t \in Threads : pc[t] # "ready" => call[t] <= Calls

\* Outside, the index is 0 as soon as the last call is complete.
IndexReset ==
    (\A t \in Threads : pc[t] \in Outside) => index = 0

\* A thread leaves the loop when no block is left.
NoneLeft == \A t \in Threads : pc[t] = "waitEnd" => Length[call[t]] <= index

\* The blocks of the working threads lie below the index and apart.
Apart ==
    \A t \in Threads : pc[t] = "work" =>
        /\ claimed[t] + BlockSize <= index
        /\ \A u \in Threads \ {t} : pc[u] = "work" =>
              \/ claimed[t] + BlockSize <= claimed[u]
              \/ claimed[u] + BlockSize <= claimed[t]

\* Only elements of the range are worked on, none of them before the call and all
\* of them until it is complete.
InRange == \A c \in 1 .. Calls : worked[c] \subseteq 0 .. Length[c] - 1

NoneBefore ==
    \A t \in Threads : \A c \in 1 .. Calls :
        call[t] < c \/ (c = call[t] /\ pc[t] \in Outside) => worked[c] = {}

AllAfter ==
    \A t \in Threads : \A c \in 1 .. Calls :
        c < call[t] \/ (c = call[t] /\ pc[t] = "complete") => worked[c] = 0 .. Length[c] - 1

\* Within the call the elements worked on are those below the index that are not
\* in the block of a working thread.
Progress ==
    \A t \in Threads : pc[t] \in Inside =>
        \A i \in 0 .. Length[call[t]] - 1 :
            i \in worked[call[t]] <=>
                /\ i < index
                /\ \A u \in Threads : pc[u] = "work" => i \notin Block(call[t], claimed[u])

\* The time stamp is that of the call from when it is taken until the call is complete.
Stamped ==
    \A t \in Threads : call[t] \in Timed =>
        /\ pc[t] = "complete" => timestamp = call[t]
        /\ pc[t] \in Inside /\ (\A u \in Threads : pc[u] # "stamp") => timestamp = call[t]

IInv ==
    /\ TypeOK /\ Together /\ Bounded /\ IndexReset /\ NoneLeft /\ Apart
    /\ InRange /\ NoneBefore /\ AllAfter /\ Progress /\ Stamped /\ TimesOwnCall
-----------------------------------------------------------------------------

\* While a thread is inside a call, all are inside the same call.
LEMMA AllInside ==
    ASSUME CoordinationAssumption, IInv, NEW t \in Threads, pc[t] \in Inside
    PROVE  /\ call[t] \in 1 .. Calls
           /\ \A u \in Threads : pc[u] \in Inside /\ call[u] = call[t]
<1>1. pc[t] # "ready" /\ pc[t] # "waitStart" /\ pc[t] # "complete"
  BY DEF Inside
<1>2. call[t] \in 1 .. Calls + 1 /\ call[t] <= Calls
  BY <1>1 DEF IInv, TypeOK, Bounded
<1>3. \A u \in Threads : pc[u] \in Inside /\ call[u] = call[t]
  BY <1>1 DEF IInv, Together, Outside
<1> QED
  BY <1>2, <1>3 DEF CoordinationAssumption

\* Arriving at the first barrier keeps the invariant.
LEMMA ArriveStep ==
    ASSUME CoordinationAssumption, IInv, NEW t \in Threads, arrive(t)
    PROVE  IInv'
<1> USE DEF CoordinationAssumption, IInv, TypeOK, Places, arrive, goTo
<1>1. TypeOK'
  BY ZenonT(60) DEF Bounded
<1>2. Together'
  <2>1. \A u \in Threads : /\ pc'[u] = pc[u] \/ (u = t /\ pc[u] = "ready" /\ pc'[u] = "waitStart")
                          /\ call'[u] = call[u]
    OBVIOUS
  <2>2. Together
    OBVIOUS
  <2> HIDE DEF IInv, TypeOK, arrive, goTo
  <2> QED
    BY <2>1, <2>2 DEF Together, Inside, Outside
<1>3. Bounded'
  BY DEF Bounded
<1>4. IndexReset'
  BY DEF IndexReset, Outside, Together, Inside
<1>5. NoneLeft'
  BY DEF NoneLeft, Together, Inside, Outside
<1>6. Apart'
  BY DEF Apart, Together, Inside, Outside
<1>7. InRange'
  BY DEF InRange, Block
<1>8. NoneBefore'
  BY ZenonT(60) DEF NoneBefore, Together, Inside, Outside, Bounded
<1>9. AllAfter'
  BY DEF AllAfter, Together, Inside, Outside, Bounded
<1>10. Progress'
  BY ZenonT(60) DEF Progress, Inside, Outside, Together, Bounded
<1>11. Stamped'
  BY DEF Stamped, Inside, Outside, Together
<1>12. TimesOwnCall'
  BY DEF TimesOwnCall, Together, Inside, Outside, Bounded
<1> QED
  BY <1>1, <1>2, <1>3, <1>4, <1>5, <1>6, <1>7, <1>8, <1>9, <1>10, <1>11, <1>12, ZenonT(60)

\* The opening of the first barrier keeps the invariant.
LEMMA OpenStartStep ==
    ASSUME CoordinationAssumption, IInv, NEW s \in Threads, openStart(s)
    PROVE  IInv'
<1> USE DEF CoordinationAssumption, IInv, TypeOK, Places, openStart
<1>1. TypeOK'
  BY DEF Bounded
<1>2. Together'
  BY ZenonT(60) DEF Together, Inside, Outside
<1>3. Bounded'
  BY DEF Bounded
<1>4. IndexReset'
  BY DEF IndexReset, Outside, Together, Inside
<1>5. NoneLeft'
  BY DEF NoneLeft, Together, Inside, Outside
<1>6. Apart'
  BY DEF Apart, Together, Inside, Outside
<1>7. InRange'
  BY DEF InRange, Block
<1>8. NoneBefore'
  BY DEF NoneBefore, Together, Inside, Outside, Bounded
<1>9. AllAfter'
  BY DEF AllAfter, Together, Inside, Outside, Bounded
<1>10. Progress'
  <2>1. index = 0 /\ \A u \in Threads : call[u] \in 1 .. Calls /\ worked[call[u]] = {}
    BY DEF IndexReset, NoneBefore, Outside, Bounded
  <2> QED
    BY <2>1 DEF Progress
<1>11. Stamped'
  BY ZenonT(60) DEF Stamped, Inside, Outside, Together
<1>12. TimesOwnCall'
  BY DEF TimesOwnCall, Together, Inside, Outside, Bounded
<1> QED
  BY <1>1, <1>2, <1>3, <1>4, <1>5, <1>6, <1>7, <1>8, <1>9, <1>10, <1>11, <1>12

\* Taking the time keeps the invariant.
LEMMA TakeTimeStep ==
    ASSUME CoordinationAssumption, IInv, NEW t \in Threads, takeTime(t)
    PROVE  IInv'
<1> USE DEF CoordinationAssumption, IInv, TypeOK, Places, takeTime, goTo
<1>1. TypeOK'
  <2>1. call[t] \in 1 .. Calls
    BY DEF Bounded
  <2>2. pc' \in [Threads -> Places]
    OBVIOUS
  <2>3. timestamp' \in 0 .. Calls
    BY <2>1
  <2> QED
    BY <2>2, <2>3, ZenonT(60)
<1>2. Together'
  BY DEF Together, Inside, Outside
<1>3. Bounded'
  BY DEF Bounded
<1>4. IndexReset'
  BY DEF IndexReset, Outside, Together, Inside
<1>5. NoneLeft'
  BY DEF NoneLeft, Together, Inside, Outside
<1>6. Apart'
  BY DEF Apart, Together, Inside, Outside
<1>7. InRange'
  BY DEF InRange, Block
<1>8. NoneBefore'
  BY DEF NoneBefore, Together, Inside, Outside, Bounded
<1>9. AllAfter'
  BY DEF AllAfter, Together, Inside, Outside, Bounded
<1>10. Progress'
  <2>1. \A u \in Threads : pc'[u] = "work" <=> pc[u] = "work"
    OBVIOUS
  <2>2. \A u \in Threads : pc'[u] \in Inside => pc[u] \in Inside
    BY DEF Inside
  <2> QED
    BY <2>1, <2>2, ZenonT(60) DEF Progress, Block
<1>11. Stamped'
  BY ZenonT(60) DEF Stamped, Inside, Outside, Together
<1>12. TimesOwnCall'
  BY DEF TimesOwnCall, Together, Inside, Outside, Bounded
<1> QED
  BY <1>1, <1>2, <1>3, <1>4, <1>5, <1>6, <1>7, <1>8, <1>9, <1>10, <1>11, <1>12

\* Taking the next block keeps the invariant.
LEMMA ClaimStep ==
    ASSUME CoordinationAssumption, IInv, NEW t \in Threads, claim(t)
    PROVE  IInv'
<1> USE DEF CoordinationAssumption, IInv, TypeOK, Places, claim, goTo
<1>1. TypeOK'
  <2>1. index' \in Nat
    OBVIOUS
  <2>2. claimed' \in [Threads -> Nat]
    OBVIOUS
  <2>3. pc' \in [Threads -> Places]
    OBVIOUS
  <2> QED
    BY <2>1, <2>2, <2>3
<1>2. Together'
  BY DEF Together, Inside, Outside
<1>3. Bounded'
  BY DEF Bounded
<1>4. IndexReset'
  BY DEF IndexReset, Outside, Together, Inside
<1>5. NoneLeft'
  <2> SUFFICES ASSUME NEW u \in Threads, pc'[u] = "waitEnd"
               PROVE  Length[call[u]] <= index + BlockSize
    BY DEF NoneLeft
  <2>1. Length[call[u]] \in Nat
    BY DEF Bounded
  <2>2. Length[call[u]] <= index
    BY <2>1 DEF NoneLeft
  <2> QED
    BY <2>1, <2>2
<1>6. Apart'
  BY SMTT(60) DEF Apart, Together, Inside, Outside
<1>7. InRange'
  BY DEF InRange, Block
<1>8. NoneBefore'
  <2>1. \A u \in Threads : call'[u] = call[u] /\ (pc'[u] \in Outside => pc[u] \in Outside)
    BY DEF Outside
  <2>2. NoneBefore /\ worked' = worked
    OBVIOUS
  <2> HIDE DEF IInv, TypeOK, claim, goTo
  <2> QED
    BY <2>1, <2>2 DEF NoneBefore
<1>9. AllAfter'
  BY DEF AllAfter, Together, Inside, Outside, Bounded
<1>10. Progress'
  <2> SUFFICES ASSUME NEW u \in Threads, pc'[u] \in Inside, NEW i \in 0 .. Length[call[u]] - 1
               PROVE  i \in worked[call[u]] <=>
                        /\ i < index + BlockSize
                        /\ \A v \in Threads : pc'[v] = "work" => i \notin Block(call[u], claimed'[v])
    BY ZenonT(60) DEF Progress, Block
  <2>1. pc[u] \in Inside /\ call[u] = call[t] /\ call[t] \in 1 .. Calls
    <3>1. pc[t] \in Inside
      BY DEF Inside
    <3> QED
      BY <3>1, AllInside, ZenonT(60)
  <2>2. i \in worked[call[u]] <=>
          /\ i < index
          /\ \A v \in Threads : pc[v] = "work" => i \notin Block(call[u], claimed[v])
    BY <2>1, ZenonT(60) DEF Progress
  <2>3. \A v \in Threads \ {t} : pc'[v] = pc[v] /\ claimed'[v] = claimed[v]
    OBVIOUS
  <2>4. claimed'[t] = index /\ pc[t] # "work" /\ (pc'[t] = "work" <=> index < Length[call[t]])
    BY <2>1, SMTT(60)
  <2>5. i \in Block(call[u], index) <=> index <= i /\ i < index + BlockSize
    BY <2>1 DEF Block
  <2>6. i \in Int /\ Length[call[u]] \in Nat /\ i < Length[call[u]]
    BY <2>1
  <2>7. CASE i < index
    <3>1. index \in Nat /\ BlockSize \in Nat
      OBVIOUS
    <3>2. i < index + BlockSize /\ i \notin Block(call[u], index)
      BY <2>5, <2>6, <2>7, <3>1
    <3> HIDE DEF CoordinationAssumption, IInv, TypeOK, claim
    <3> QED
      BY <2>2, <2>3, <2>4, <2>7, <3>2
  <2>8. CASE index <= i
    BY <2>1, <2>2, <2>4, <2>5, <2>6, <2>8
  <2> QED
    BY <2>6, <2>7, <2>8
<1>11. Stamped'
  BY SMTT(60) DEF Stamped, Inside, Outside, Together
<1>12. TimesOwnCall'
  BY DEF TimesOwnCall, Together, Inside, Outside, Bounded
<1> QED
  BY <1>1, <1>2, <1>3, <1>4, <1>5, <1>6, <1>7, <1>8, <1>9, <1>10, <1>11, <1>12

\* Working on a block keeps the invariant.
LEMMA WorkStep ==
    ASSUME CoordinationAssumption, IInv, NEW t \in Threads, work(t)
    PROVE  IInv'
<1> USE DEF CoordinationAssumption, IInv, TypeOK, Places, work, goTo
<1>1. TypeOK'
  <2>1. call[t] \in 1 .. Calls /\ Length[call[t]] \in Nat
    BY DEF Bounded
  <2>2. worked' \in [1 .. Calls -> SUBSET Nat]
    BY <2>1 DEF Block
  <2> QED
    BY <2>2
<1>2. Together'
  BY DEF Together, Inside, Outside
<1>3. Bounded'
  BY DEF Bounded
<1>4. IndexReset'
  BY DEF IndexReset, Outside, Together, Inside
<1>5. NoneLeft'
  BY DEF NoneLeft, Together, Inside, Outside
<1>6. Apart'
  BY DEF Apart, Together, Inside, Outside
<1>7. InRange'
  BY DEF InRange, Block
<1>8. NoneBefore'
  <2>1. pc[t] \in Inside
    BY DEF Inside
  <2>2. call[t] \in 1 .. Calls /\ \A u \in Threads : pc[u] \in Inside /\ call[u] = call[t]
    BY <2>1, AllInside, ZenonT(60)
  <2>3. \A u \in Threads : pc'[u] \in Inside
    BY <2>2 DEF Inside
  <2>4. \A c \in 1 .. Calls : c # call[t] => worked'[c] = worked[c]
    OBVIOUS
  <2> SUFFICES ASSUME NEW u \in Threads, NEW c \in 1 .. Calls,
                      call[u] < c \/ (c = call[u] /\ pc'[u] \in Outside)
               PROVE  worked'[c] = {}
    BY DEF NoneBefore
  <2>5. call[t] < c
    BY <2>2, <2>3, ZenonT(60) DEF Inside, Outside
  <2> QED
    BY <2>2, <2>4, <2>5 DEF NoneBefore
<1>9. AllAfter'
  <2>1. pc[t] \in Inside
    BY DEF Inside
  <2>2. call[t] \in 1 .. Calls /\ \A u \in Threads : pc[u] \in Inside /\ call[u] = call[t]
    BY <2>1, AllInside, ZenonT(60)
  <2>3. \A u \in Threads : pc'[u] \in Inside
    BY <2>2 DEF Inside
  <2>4. \A c \in 1 .. Calls : c # call[t] => worked'[c] = worked[c]
    OBVIOUS
  <2> SUFFICES ASSUME NEW u \in Threads, NEW c \in 1 .. Calls,
                      c < call[u] \/ (c = call[u] /\ pc'[u] = "complete")
               PROVE  worked'[c] = 0 .. Length[c] - 1
    BY ZenonT(60) DEF AllAfter
  <2>5. c < call[t]
    BY <2>2, <2>3, ZenonT(60) DEF Inside, Outside
  <2> QED
    BY <2>2, <2>4, <2>5 DEF AllAfter
<1>10. Progress'
  <2> SUFFICES ASSUME NEW u \in Threads, pc'[u] \in Inside, NEW i \in 0 .. Length[call[u]] - 1
               PROVE  i \in worked'[call[u]] <=>
                        /\ i < index
                        /\ \A v \in Threads : pc'[v] = "work" => i \notin Block(call[u], claimed[v])
    BY ZenonT(60) DEF Progress, Block
  <2>1. pc[u] \in Inside /\ call[u] = call[t] /\ call[t] \in 1 .. Calls
    <3>1. pc[t] \in Inside
      BY DEF Inside
    <3> QED
      BY <3>1, AllInside, ZenonT(60)
  <2>2. i \in worked[call[u]] <=>
          /\ i < index
          /\ \A v \in Threads : pc[v] = "work" => i \notin Block(call[u], claimed[v])
    BY <2>1 DEF Progress
  <2>3. \A v \in Threads : pc'[v] = "work" <=> pc[v] = "work" /\ v # t
    OBVIOUS
  <2>4. worked'[call[u]] = worked[call[u]] \cup Block(call[u], claimed[t])
    BY <2>1
  <2>5. ASSUME i \in Block(call[u], claimed[t]), NEW v \in Threads, v # t, pc[v] = "work"
        PROVE  i \notin Block(call[u], claimed[v])
    <3>1. \/ claimed[t] + BlockSize <= claimed[v]
          \/ claimed[v] + BlockSize <= claimed[t]
      BY <2>5 DEF Apart
    <3>2. claimed[t] <= i /\ i < claimed[t] + BlockSize /\ i \in Int
      BY <2>1, <2>5 DEF Block
    <3>3. claimed[t] \in Nat /\ claimed[v] \in Nat /\ BlockSize \in Nat
      OBVIOUS
    <3>4. ~(claimed[v] <= i /\ i < claimed[v] + BlockSize)
      BY <3>1, <3>2, <3>3
    <3> QED
      BY <3>4 DEF Block
  <2>6. i \in Block(call[u], claimed[t]) => i < index
    BY <2>1 DEF Block, Apart
  <2> QED
    BY <2>2, <2>3, <2>4, <2>5, <2>6, ZenonT(60)
<1>11. Stamped'
  BY DEF Stamped, Inside, Outside, Together
<1>12. TimesOwnCall'
  BY DEF TimesOwnCall, Together, Inside, Outside, Bounded
<1> QED
  BY <1>1, <1>2, <1>3, <1>4, <1>5, <1>6, <1>7, <1>8, <1>9, <1>10, <1>11, <1>12, ZenonT(60)

\* The opening of the second barrier keeps the invariant.
LEMMA OpenEndStep ==
    ASSUME CoordinationAssumption, IInv, NEW s \in Threads, openEnd(s)
    PROVE  IInv'
<1> USE DEF CoordinationAssumption, IInv, TypeOK, Places, openEnd
<1>1. TypeOK'
  <2>1. \A u \in Threads : call[u] + 1 \in 1 .. Calls + 1
    <3> TAKE u \in Threads
    <3>1. call[u] \in 1 .. Calls + 1 /\ call[u] <= Calls
      BY DEF Bounded
    <3> QED
      BY <3>1, SMTT(60)
  <2>2. call' \in [Threads -> 1 .. Calls + 1]
    BY <2>1, ZenonT(60)
  <2> QED
    BY <2>2
<1>2. Together'
  BY ZenonT(60) DEF Together, Inside, Outside
<1>3. Bounded'
  BY DEF Bounded
<1>4. IndexReset'
  BY DEF IndexReset, Outside, Together, Inside
<1>5. NoneLeft'
  BY DEF NoneLeft, Together, Inside, Outside
<1>6. Apart'
  BY DEF Apart, Together, Inside, Outside
<1>7. InRange'
  BY DEF InRange, Block
<1>8. NoneBefore'
  <2>1. call[s] \in 1 .. Calls /\ \A u \in Threads : call[u] = call[s]
    BY AllInside, ZenonT(60) DEF Inside
  <2>2. \A c \in 1 .. Calls : call[s] < c => worked[c] = {}
    BY DEF NoneBefore
  <2> SUFFICES ASSUME NEW u \in Threads, NEW c \in 1 .. Calls,
                      call'[u] < c \/ (c = call'[u] /\ pc'[u] \in Outside)
               PROVE  worked[c] = {}
    BY DEF NoneBefore
  <2>3. call[s] < c
    BY <2>1 DEF Outside
  <2> QED
    BY <2>2, <2>3
<1>9. AllAfter'
  <2>1. call[s] \in 1 .. Calls /\ \A u \in Threads : call[u] = call[s]
    BY AllInside, ZenonT(60) DEF Inside
  <2>2. \A i \in 0 .. Length[call[s]] - 1 : i \in worked[call[s]]
    BY <2>1 DEF Progress, NoneLeft, Inside
  <2>3. worked[call[s]] = 0 .. Length[call[s]] - 1
    BY <2>1, <2>2, ZenonT(60) DEF InRange
  <2>4. \A c \in 1 .. Calls : c < call[s] => worked[c] = 0 .. Length[c] - 1
    BY DEF AllAfter
  <2> SUFFICES ASSUME NEW u \in Threads, NEW c \in 1 .. Calls,
                      c < call'[u] \/ (c = call'[u] /\ pc'[u] = "complete")
               PROVE  worked[c] = 0 .. Length[c] - 1
    BY DEF AllAfter
  <2>5. c <= call[s]
    BY <2>1
  <2> QED
    BY <2>1, <2>3, <2>4, <2>5
<1>10. Progress'
  BY DEF Progress, Inside, Outside, Together, Bounded
<1>11. Stamped'
  BY DEF Stamped, Inside, Outside, Together
<1>12. TimesOwnCall'
  <2> SUFFICES ASSUME NEW c \in Timed, \A u \in Threads : c < call'[u]
               PROVE  times[c] = c
    BY DEF TimesOwnCall
  <2>1. \A u \in Threads : call[u] = call[s]
    BY ZenonT(60) DEF Inside, Outside, Together
  <2>2. c < call[s]
    OBVIOUS
  <2> QED
    BY <2>1, <2>2 DEF TimesOwnCall
<1> QED
  BY <1>1, <1>2, <1>3, <1>4, <1>5, <1>6, <1>7, <1>8, <1>9, <1>10, <1>11, <1>12

\* Completing the call keeps the invariant.
LEMMA CompleteStep ==
    ASSUME CoordinationAssumption, IInv, NEW t \in Threads, complete(t)
    PROVE  IInv'
<1> USE DEF CoordinationAssumption, IInv, TypeOK, Places, complete, goTo
<1>a. /\ call[t] \in 1 .. Calls /\ call[t] + 1 \in 1 .. Calls + 1
      /\ pc[t] = "complete"
  BY SMTT(60) DEF Bounded
<1>b. \A u \in Threads : pc'[u] \in Outside /\ call'[u] = call[t] + 1
  <2>1. \A u \in Threads \ {t} : pc[u] \in Outside /\ call[u] = call[t] + 1
    BY ZenonT(60) DEF Inside, Outside, Together
  <2> QED
    BY <2>1 DEF Outside
<1>1. TypeOK'
  <2>1. call' \in [Threads -> 1 .. Calls + 1]
    BY <1>a
  <2>2. times' \in [1 .. Calls -> 0 .. Calls]
    BY <1>a
  <2> QED
    BY <2>1, <2>2, ZenonT(60)
<1>2. Together'
  BY <1>b DEF Together
<1>3. Bounded'
  BY DEF Bounded
<1>4. IndexReset'
  BY DEF IndexReset
<1>5. NoneLeft'
  BY <1>b, ZenonT(60) DEF NoneLeft, Outside
<1>6. Apart'
  BY <1>b, ZenonT(60) DEF Apart, Outside
<1>7. InRange'
  BY DEF InRange
<1>8. NoneBefore'
  <2>1. \A c \in 1 .. Calls : call[t] < c => worked[c] = {}
    BY DEF NoneBefore
  <2> SUFFICES ASSUME NEW u \in Threads, NEW c \in 1 .. Calls,
                      call'[u] < c \/ (c = call'[u] /\ pc'[u] \in Outside)
               PROVE  worked[c] = {}
    BY DEF NoneBefore
  <2>2. call[t] < c
    <3> HIDE DEF IInv, TypeOK, complete, goTo
    <3> QED
      BY <1>a, <1>b
  <2> QED
    BY <2>1, <2>2
<1>9. AllAfter'
  <2>1. \A c \in 1 .. Calls : c <= call[t] => worked[c] = 0 .. Length[c] - 1
    BY <1>a DEF AllAfter
  <2> SUFFICES ASSUME NEW u \in Threads, NEW c \in 1 .. Calls,
                      c < call'[u] \/ (c = call'[u] /\ pc'[u] = "complete")
               PROVE  worked[c] = 0 .. Length[c] - 1
    BY DEF AllAfter
  <2>2. c <= call[t]
    <3> HIDE DEF IInv, TypeOK, complete, goTo
    <3> QED
      BY <1>a, <1>b DEF Outside
  <2> QED
    BY <2>1, <2>2
<1>10. Progress'
  BY <1>b, ZenonT(60) DEF Progress, Inside, Outside
<1>11. Stamped'
  BY <1>b DEF Stamped, Inside, Outside
<1>12. TimesOwnCall'
  <2> SUFFICES ASSUME NEW c \in Timed, \A u \in Threads : c < call'[u]
               PROVE  times'[c] = c
    BY DEF TimesOwnCall
  <2>1. c \in 1 .. Calls /\ call[t] \in Int /\ c <= call[t]
    OBVIOUS
  <2>2. CASE c = call[t]
    BY <2>1, <2>2 DEF Stamped
  <2>3. CASE c < call[t]
    <3>1. \A u \in Threads : c < call[u]
      BY <2>1, <2>3 DEF Inside, Outside, Together
    <3>2. times[c] = c
      <4>1. IInv => TimesOwnCall
        OBVIOUS
      <4> HIDE DEF IInv, TypeOK, complete, goTo
      <4> QED
        BY <3>1, <4>1 DEF TimesOwnCall
    <3>3. times'[c] = times[c]
      <4>1. times \in [1 .. Calls -> 0 .. Calls]
        OBVIOUS
      <4>2. times' = IF call[t] \in Timed THEN [times EXCEPT ![call[t]] = timestamp] ELSE times
        OBVIOUS
      <4> HIDE DEF IInv, TypeOK, complete, goTo
      <4> QED
        BY <2>1, <2>3, <4>1, <4>2
    <3> QED
      BY <3>2, <3>3
  <2> QED
    BY <2>1, <2>2, <2>3
<1> QED
  BY <1>1, <1>2, <1>3, <1>4, <1>5, <1>6, <1>7, <1>8, <1>9, <1>10, <1>11, <1>12, ZenonT(60)

-----------------------------------------------------------------------------
\* The invariant holds in the initial state and is kept by every step.
LEMMA Invariance ==
    ASSUME CoordinationAssumption
    PROVE  Spec => []IInv
<1>1. Init => IInv
  BY DEF CoordinationAssumption, Init, IInv, TypeOK, Places, Together, Bounded, IndexReset, NoneLeft,
     Apart, InRange, NoneBefore, AllAfter, Progress, Stamped, TimesOwnCall, Inside, Outside
<1>2. IInv /\ [Next]_vars => IInv'
  <2> SUFFICES ASSUME IInv, [Next]_vars PROVE IInv'
    OBVIOUS
  <2>1. ASSUME NEW t \in Threads, step(t) PROVE IInv'
    BY <2>1, ArriveStep, TakeTimeStep, ClaimStep, WorkStep, CompleteStep DEF step
  <2>2. CASE open
    BY <2>2, OpenStartStep, OpenEndStep DEF open
  <2>3. CASE UNCHANGED vars
    BY <2>3 DEF vars, IInv, TypeOK, Together, Bounded, IndexReset, NoneLeft, Apart, InRange,
       NoneBefore, AllAfter, Progress, Stamped, TimesOwnCall, Inside, Outside, Block
  <2> QED
    BY <2>1, <2>2, <2>3 DEF Next, join
<1> QED
  BY <1>1, <1>2, PTL DEF Spec

\* No element is worked on twice in a call of execute_synchronized_blockwise,
\* although fetch_add is the only order between the threads that work.
THEOREM NothingIsWorkedOnTwice ==
    ASSUME CoordinationAssumption
    PROVE  Spec => []NothingTwice
<1>1. IInv => NothingTwice
  <2> SUFFICES ASSUME IInv, NEW t \in Threads, pc[t] = "work"
               PROVE  /\ Block(call[t], claimed[t]) \cap worked[call[t]] = {}
                      /\ \A u \in Threads \ {t} : pc[u] = "work" =>
                            /\ call[u] = call[t]
                            /\ Block(call[t], claimed[t]) \cap Block(call[u], claimed[u]) = {}
    BY DEF NothingTwice
  <2>1. call[t] \in 1 .. Calls /\ \A u \in Threads : pc[u] \in Inside /\ call[u] = call[t]
    BY AllInside DEF Inside
  <2>2. Block(call[t], claimed[t]) \cap worked[call[t]] = {}
    BY <2>1 DEF CoordinationAssumption, IInv, Progress, Block
  <2>3. ASSUME NEW u \in Threads \ {t}, pc[u] = "work", NEW i \in Block(call[t], claimed[t])
        PROVE  i \notin Block(call[t], claimed[u])
    <3>1. \/ claimed[t] + BlockSize <= claimed[u]
          \/ claimed[u] + BlockSize <= claimed[t]
      BY <2>3 DEF IInv, Apart
    <3>2. claimed[t] <= i /\ i < claimed[t] + BlockSize /\ i \in Int
      BY <2>1 DEF CoordinationAssumption, Block
    <3>3. claimed[t] \in Nat /\ claimed[u] \in Nat /\ BlockSize \in Nat
      BY DEF CoordinationAssumption, IInv, TypeOK
    <3>4. ~(claimed[u] <= i /\ i < claimed[u] + BlockSize)
      BY <3>1, <3>2, <3>3
    <3> QED
      BY <3>4 DEF Block
  <2> QED
    BY <2>1, <2>2, <2>3
<1> QED
  BY <1>1, Invariance, PTL

\* A thread returns from a call only when every element of the range has been
\* worked on: the index that the last call left behind is never seen by the next.
THEOREM NothingIsMissed ==
    ASSUME CoordinationAssumption
    PROVE  Spec => []NothingMissed
<1>1. IInv => NothingMissed
  BY DEF IInv, AllAfter, NothingMissed
<1> QED
  BY <1>1, Invariance, PTL

\* The duration of a timed call is measured from its own time stamp, although both
\* are written after their barriers have opened.
THEOREM TimesAreOfTheirCall ==
    ASSUME CoordinationAssumption
    PROVE  Spec => []TimesOwnCall
<1>1. IInv => TimesOwnCall
  BY DEF IInv
<1> QED
  BY <1>1, Invariance, PTL
=============================================================================
