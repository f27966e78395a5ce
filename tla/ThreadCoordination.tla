------------------------- MODULE ThreadCoordination -------------------------
(***************************************************************************)
(* Context of the benchmarks (benchmark/thread_coordination.hpp): threads  *)
(* that make the same calls of execute_synchronized_blockwise, timed or    *)
(* not.  In a call they divide a range into blocks by a shared index.  The *)
(* function given to a barrier (benchmark/barrier.hpp) is called by one of *)
(* the threads after the barrier has opened, while the others go on.       *)
(***************************************************************************)
EXTENDS Integers

CONSTANTS
    Threads,
    Calls,          \* bound: the calls that every thread makes are 1 .. Calls
    Timed,          \* the calls of execute_synchronized_blockwise_timed
    Length,         \* for every call, the length of its range
    BlockSize       \* block_size

\* What the constants are.
CoordinationAssumption ==
    /\ Threads # {}
    /\ Calls \in Nat /\ Timed \subseteq 1 .. Calls
    /\ Length \in [1 .. Calls -> Nat]
    /\ BlockSize \in Nat \ {0}

VARIABLES
    pc,             \* where a thread is
    call,           \* the call that it makes
    index,          \* SharedData::index
    claimed,        \* block_begin of a thread that works
    worked,         \* history: per call the elements worked on
    timestamp,      \* SharedData::timestamp: the call that it belongs to
    times           \* SharedData::times: per call the timestamp it is measured from

vars == <<pc, call, index, claimed, worked, timestamp, times>>

Init ==
    /\ pc = [t \in Threads |-> "ready"]
    /\ call = [t \in Threads |-> 1]
    /\ index = 0
    /\ claimed = [t \in Threads |-> 0]
    /\ worked = [c \in 1 .. Calls |-> {}]
    /\ timestamp = 0
    /\ times = [c \in 1 .. Calls |-> 0]

\* The elements of the block at the given index.
Block(c, begin) == { i \in 0 .. Length[c] - 1 : begin <= i /\ i < begin + BlockSize }
-----------------------------------------------------------------------------
goTo(t, place) == pc' = [pc EXCEPT ![t] = place]

\* The call begins at the first barrier.
arrive(t) ==
    /\ pc[t] = "ready" /\ call[t] <= Calls
    /\ goTo(t, "waitStart")
    /\ UNCHANGED <<call, index, claimed, worked, timestamp, times>>

\* The first barrier opens; in a timed call one thread takes the time.
openStart(serial) ==
    /\ \A t \in Threads : pc[t] = "waitStart"
    /\ pc' = [t \in Threads |-> IF t = serial /\ call[t] \in Timed THEN "stamp" ELSE "claim"]
    /\ UNCHANGED <<call, index, claimed, worked, timestamp, times>>

takeTime(t) ==
    /\ pc[t] = "stamp"
    /\ timestamp' = call[t]
    /\ goTo(t, "claim")
    /\ UNCHANGED <<call, index, claimed, worked, times>>

\* index.fetch_add
claim(t) ==
    /\ pc[t] = "claim"
    /\ index' = index + BlockSize
    /\ claimed' = [claimed EXCEPT ![t] = index]
    /\ goTo(t, IF index >= Length[call[t]] THEN "waitEnd" ELSE "work")
    /\ UNCHANGED <<call, worked, timestamp, times>>

work(t) ==
    /\ pc[t] = "work"
    /\ worked' = [worked EXCEPT ![call[t]] = @ \cup Block(call[t], claimed[t])]
    /\ goTo(t, "claim")
    /\ UNCHANGED <<call, index, claimed, timestamp, times>>

\* The second barrier opens; one thread has to complete the call.
openEnd(serial) ==
    /\ \A t \in Threads : pc[t] = "waitEnd"
    /\ pc' = [t \in Threads |-> IF t = serial THEN "complete" ELSE "ready"]
    /\ call' = [t \in Threads |-> IF t = serial THEN call[t] ELSE call[t] + 1]
    /\ UNCHANGED <<index, claimed, worked, timestamp, times>>

\* The function of the second barrier.
complete(t) ==
    /\ pc[t] = "complete"
    /\ index' = 0
    /\ times' = IF call[t] \in Timed THEN [times EXCEPT ![call[t]] = timestamp] ELSE times
    /\ goTo(t, "ready")
    /\ call' = [call EXCEPT ![t] = @ + 1]
    /\ UNCHANGED <<claimed, worked, timestamp>>

step(t) == arrive(t) \/ takeTime(t) \/ claim(t) \/ work(t) \/ complete(t)
open == \E serial \in Threads : openStart(serial) \/ openEnd(serial)

\* join: every thread has made its calls.
join ==
    /\ \A t \in Threads : pc[t] = "ready" /\ call[t] > Calls
    /\ UNCHANGED vars

Next == (\E t \in Threads : step(t)) \/ open \/ join

Spec == Init /\ [][Next]_vars
-----------------------------------------------------------------------------
(* Properties.                                                             *)

Places == {"ready", "waitStart", "stamp", "claim", "work", "waitEnd", "complete"}

\* The variables have their types.
TypeOK ==
    /\ pc \in [Threads -> Places]
    /\ call \in [Threads -> 1 .. Calls + 1]
    /\ index \in Nat
    /\ claimed \in [Threads -> Nat]
    /\ worked \in [1 .. Calls -> SUBSET Nat]
    /\ timestamp \in 0 .. Calls
    /\ times \in [1 .. Calls -> 0 .. Calls]

\* No element is worked on twice in a call: the block of a thread is disjoint from
\* what has been worked on in its call and from the block of every other thread.
NothingTwice ==
    \A t \in Threads : pc[t] = "work" =>
        LET block == Block(call[t], claimed[t])
        IN  /\ block \cap worked[call[t]] = {}
            /\ \A u \in Threads \ {t} : pc[u] = "work" =>
                  call[u] = call[t] /\ block \cap Block(call[u], claimed[u]) = {}

\* When a thread returns from a call, all elements of the range have been worked
\* on, by whichever threads, although the next call may have begun for others.
NothingMissed ==
    \A t \in Threads : \A c \in 1 .. Calls : c < call[t] => worked[c] = 0 .. Length[c] - 1

\* The duration of a timed call is measured from the time stamp of that call, when
\* all threads have gone on to the next one.
TimesOwnCall ==
    \A c \in Timed : (\A t \in Threads : c < call[t]) => times[c] = c
=============================================================================
