------------------------- MODULE RebalancingProofs -------------------------
(***************************************************************************)
(* Proofs about the rebalancing half of insertBatch, for any widths,       *)
(* thresholds, heights, bounds and numbers of threads: the index           *)
(* arithmetic of Geometry, and the theorem that outside of update() the    *)
(* tree is consistent, that the tasks of B-3 are disjoint and have room,   *)
(* and that the threads of B-9 never share an entry.                       *)
(***************************************************************************)
EXTENDS RebalancingPhase, WellFoundedInduction, TLAPS

\* The provers that a leaf is given to, and for how long.
USE ZenonT(60), SMTT(30), SMTT(60)
-----------------------------------------------------------------------------

(* Induction and loops, stated about sets and functions so that the        *)
(* provers can apply them: a property is the set of the numbers that have  *)
(* it, the body of a loop is a function from states to states.             *)

\* A set of natural numbers has a least element.
LEMMA LeastNumber ==
    ASSUME NEW S \in SUBSET Nat, S # {}
    PROVE  \E n \in S : \A m \in S : n <= m
<1> DEFINE R == OpToRel(<, Nat)
<1>1. IsWellFoundedOn(R, Nat)
    BY NatLessThanWellFounded
<1>2. \A m, n \in Nat : m < n => <<m, n>> \in R
    BY DEF OpToRel
<1> HIDE DEF R
<1>3. PICK n \in S : \A m \in S : ~ (<<m, n>> \in R)
    BY <1>1, WFMin
<1>4. ASSUME NEW m \in S PROVE n <= m
    <2>1. ~ (m < n)
        BY <1>2, <1>3
    <2> QED
        BY <2>1
<1> QED
    BY <1>4

\* A set with 0 and, for each of its numbers, the next one, has all numbers.
LEMMA InductionOnSet ==
    ASSUME NEW S, 0 \in S, \A n \in Nat : n \in S => n + 1 \in S
    PROVE  \A n \in Nat : n \in S
<1> SUFFICES ASSUME { n \in Nat : n \notin S } # {} PROVE FALSE
    OBVIOUS
<1>1. PICK n \in Nat : n \notin S /\ \A m \in Nat : m \notin S => n <= m
    BY LeastNumber
<1>2. n # 0 /\ n - 1 \in Nat /\ n - 1 \in S
    BY <1>1
<1> QED
    BY <1>1, <1>2

\* A loop: after[n] is the state after n rounds.  The body may depend on the round.
Rounds(after, first, body) ==
    after = [n \in Nat |-> IF n = 0 THEN first ELSE body[n][after[n - 1]]]

\* Every loop whose body maps states to states defines its rounds, and all of them
\* are states.
LEMMA RoundsExist ==
    ASSUME NEW V, NEW first \in V, NEW body \in [Nat -> [V -> V]]
    PROVE  \E after \in [Nat -> V] : Rounds(after, first, body)
<1> DEFINE Upto(n, f) == /\ f \in [0 .. n -> V] /\ f[0] = first
                         /\ \A k \in 1 .. n : f[k] = body[k][f[k - 1]]
           S == { n \in Nat : \E f \in [0 .. n -> V] : Upto(n, f) }
<1>1. 0 \in S
    <2>1. Upto(0, [k \in 0 .. 0 |-> first])
        OBVIOUS
    <2> QED
        BY <2>1
<1>2. ASSUME NEW n \in Nat, n \in S PROVE n + 1 \in S
    <2>1. PICK f \in [0 .. n -> V] : Upto(n, f)
        BY <1>2
    <2> DEFINE g == [k \in 0 .. n + 1 |-> IF k = n + 1 THEN body[n + 1][f[n]] ELSE f[k]]
    <2>2. g \in [0 .. n + 1 -> V]
        BY <2>1, SMTT(60)
    <2>3. /\ \A k \in 0 .. n : g[k] = f[k]
          /\ g[n + 1] = body[n + 1][f[n]]
        OBVIOUS
    <2> HIDE DEF g
    <2>4. ASSUME NEW k \in 1 .. n + 1 PROVE g[k] = body[k][g[k - 1]]
        <3>1. CASE k \in 1 .. n
            BY <2>1, <2>3, <3>1, SMTT(60)
        <3>2. CASE k = n + 1
            BY <2>3, <3>2, SMTT(60)
        <3> QED
            BY <3>1, <3>2, SMTT(60)
    <2>5. Upto(n + 1, g)
        BY <2>1, <2>2, <2>3, <2>4, SMTT(60)
    <2> HIDE DEF Upto
    <2> QED
        BY <2>2, <2>5, SMTT(60)
<1> HIDE DEF S
<1>3. \A n \in Nat : n \in S
    BY <1>1, <1>2, InductionOnSet
<1> DEFINE F(n) == CHOOSE f \in [0 .. n -> V] : Upto(n, f)
<1>4. \A n \in Nat : F(n) \in [0 .. n -> V] /\ Upto(n, F(n))
    BY <1>3 DEF S
<1> HIDE DEF F
\* Two of them agree where both are defined.
<1>5. ASSUME NEW n \in Nat PROVE \A k \in 0 .. n : F(n + 1)[k] = F(n)[k]
    <2> DEFINE T == { k \in Nat : k <= n => F(n + 1)[k] = F(n)[k] }
    <2>1. 0 \in T
        BY <1>4, SMTT(60)
    <2>2. ASSUME NEW k \in Nat, k \in T PROVE k + 1 \in T
        <3> SUFFICES ASSUME k + 1 <= n PROVE F(n + 1)[k + 1] = F(n)[k + 1]
            BY SMTT(60)
        <3>1. /\ F(n + 1)[k + 1] = body[k + 1][F(n + 1)[(k + 1) - 1]]
              /\ F(n)[k + 1] = body[k + 1][F(n)[(k + 1) - 1]]
            BY <1>4, SMTT(60)
        <3> QED
            BY <2>2, <3>1
    <2> HIDE DEF T
    <2>3. \A k \in Nat : k \in T
        BY <2>1, <2>2, InductionOnSet
    <2> QED
        BY <2>3 DEF T
<1> DEFINE after == [n \in Nat |-> F(n)[n]]
<1>6. after \in [Nat -> V]
    BY <1>4, SMTT(60)
<1>7. ASSUME NEW n \in Nat
      PROVE  after[n] = IF n = 0 THEN first ELSE body[n][after[n - 1]]
    <2>1. CASE n = 0
        BY <1>4, <2>1
    <2>2. CASE n # 0
        <3>1. F(n)[n] = body[n][F(n)[n - 1]]
            BY <1>4, <2>2, SMTT(60)
        <3>2. n - 1 \in Nat /\ (n - 1) + 1 = n
            BY <2>2
        <3>3. F(n)[n - 1] = F(n - 1)[n - 1]
            BY <1>5, <3>2, SMTT(60)
        <3> QED
            BY <2>2, <3>1, <3>2, <3>3
    <2> QED
        BY <2>1, <2>2
<1> HIDE DEF after
<1>8. Rounds(after, first, body)
    BY <1>6, <1>7 DEF Rounds
<1> QED
    BY <1>6, <1>8
-----------------------------------------------------------------------------
(* The powers of two and the sums of the model.                            *)

\* Pow2, by which the widths of the levels grow, is defined and positive.
LEMMA Pow2Defined ==
    /\ Pow2 \in [Nat -> Nat \ {0}]
    /\ Pow2[0] = 1
    /\ \A n \in Nat : Pow2[n + 1] = 2 * Pow2[n]
<1> DEFINE V == Nat \ {0}
           double == [x \in V |-> 2 * x]
           body == [n \in Nat |-> double]
           Is(f) == f = [k \in Nat |-> IF k = 0 THEN 1 ELSE 2 * f[k - 1]]
<1>1. body \in [Nat -> [V -> V]] /\ 1 \in V
    OBVIOUS
<1> HIDE DEF body
<1>2. PICK after \in [Nat -> V] : Rounds(after, 1, body)
    BY <1>1, RoundsExist
<1>3. Is(after)
    <2>1. \A k \in Nat : after[k] = IF k = 0 THEN 1 ELSE body[k][after[k - 1]]
        BY <1>2 DEF Rounds
    <2>2. ASSUME NEW k \in Nat PROVE after[k] = IF k = 0 THEN 1 ELSE 2 * after[k - 1]
        <3>1. CASE k = 0
            BY <2>1, <3>1
        <3>2. CASE k # 0
            <4>1. after[k - 1] \in V /\ after[k] = body[k][after[k - 1]]
                BY <2>1, <3>2, SMTT(60)
            <4> QED
                BY <3>2, <4>1 DEF body
        <3> QED
            BY <3>1, <3>2
    <2> QED
        BY <2>2
<1>4. Is(Pow2)
    BY <1>3 DEF Pow2
<1> DEFINE S == { n \in Nat : Pow2[n] \in V }
<1>5. Pow2[0] = 1 /\ \A n \in Nat : Pow2[n + 1] = 2 * Pow2[n]
    BY <1>4, SMTT(60)
<1>6. \A n \in Nat : n \in S
    <2>1. 0 \in S
        BY <1>5, SMTT(60)
    <2>2. ASSUME NEW n \in Nat, n \in S PROVE n + 1 \in S
        BY <1>5, <2>2, SMTT(60)
    <2> HIDE DEF S
    <2> QED
        BY <2>1, <2>2, InductionOnSet
<1>7. Pow2 = [k \in Nat |-> Pow2[k]]
    BY <1>4
<1> QED
    BY <1>5, <1>6, <1>7

\* The width of a level is that of a lower one times a power of two.
LEMMA Pow2Sum ==
    ASSUME NEW a \in Nat, NEW b \in Nat
    PROVE  Pow2[a + b] = Pow2[a] * Pow2[b]
<1> DEFINE S == { n \in Nat : Pow2[a + n] = Pow2[a] * Pow2[n] }
<1>1. 0 \in S
    BY Pow2Defined, SMTT(60)
<1>2. ASSUME NEW n \in Nat, n \in S PROVE n + 1 \in S
    <2>1. Pow2[a] \in Nat /\ Pow2[n] \in Nat /\ Pow2[n + 1] = 2 * Pow2[n]
        BY Pow2Defined
    <2>2. Pow2[a + n + 1] = 2 * Pow2[a + n]
        BY Pow2Defined, SMTT(60)
    <2>3. Pow2[a + n] = Pow2[a] * Pow2[n]
        BY <1>2
    <2>4. \A x, y \in Nat : 2 * (x * y) = x * (2 * y)
        OBVIOUS
    <2>5. Pow2[a + (n + 1)] = Pow2[a] * Pow2[n + 1]
        BY <2>1, <2>2, <2>3, <2>4, SMTT(60)
    <2> QED
        BY <2>5
<1> HIDE DEF S
<1>3. b \in S
    BY <1>1, <1>2, InductionOnSet
<1> QED
    BY <1>3 DEF S

\* A number of levels is smaller than the number of segments they make.
LEMMA Pow2Large ==
    ASSUME NEW n \in Nat
    PROVE  n < Pow2[n]
<1> DEFINE S == { k \in Nat : k < Pow2[k] }
<1>1. 0 \in S
    BY Pow2Defined, SMTT(60)
<1>2. ASSUME NEW k \in Nat, k \in S PROVE k + 1 \in S
    <2>1. Pow2[k] \in Nat /\ Pow2[k + 1] = 2 * Pow2[k] /\ k < Pow2[k]
        BY <1>2, Pow2Defined
    <2> QED
        BY <2>1
<1> HIDE DEF S
<1>3. n \in S
    BY <1>1, <1>2, InductionOnSet
<1> QED
    BY <1>3 DEF S

\* Higher levels are wider.
LEMMA Pow2Monotone ==
    ASSUME NEW a \in Nat, NEW b \in Nat, a <= b
    PROVE  Pow2[a] <= Pow2[b]
<1>1. b - a \in Nat /\ Pow2[a + (b - a)] = Pow2[a] * Pow2[b - a]
    BY Pow2Sum, SMTT(60)
<1>2. Pow2[a] \in Nat /\ Pow2[b - a] \in Nat \ {0}
    BY <1>1, Pow2Defined
<1>3. \A x \in Nat, y \in Nat \ {0} : x <= x * y
    OBVIOUS
<1>4. a + (b - a) = b
    OBVIOUS
<1> QED
    BY <1>1, <1>2, <1>3, <1>4

\* The loop that adds up the first n numbers of a sequence.
AddsUp(s, f, n) ==
    s = [k \in 0 .. n |-> IF k = 0 THEN 0 ELSE s[k - 1] + f[k]]

\* A loop that adds up natural numbers computes natural numbers, and only one
\* sequence of them.
LEMMA AddsUpOnce ==
    ASSUME NEW f, NEW n \in Nat, \A k \in 1 .. n : f[k] \in Nat,
           NEW s, AddsUp(s, f, n), NEW m \in 0 .. n, NEW r, AddsUp(r, f, m)
    PROVE  \A k \in 0 .. m : r[k] = s[k] /\ s[k] \in Nat
<1>1. /\ s[0] = 0 /\ r[0] = 0
      /\ \A k \in 0 .. n : k # 0 => s[k] = s[k - 1] + f[k]
      /\ \A k \in 0 .. m : k # 0 => r[k] = r[k - 1] + f[k]
    BY SMTT(60) DEF AddsUp
<1> DEFINE S == { k \in Nat : k <= m => r[k] = s[k] /\ s[k] \in Nat }
<1>2. 0 \in S
    BY <1>1, SMTT(60)
<1>3. ASSUME NEW k \in Nat, k \in S PROVE k + 1 \in S
    <2> SUFFICES ASSUME k + 1 <= m PROVE r[k + 1] = s[k + 1] /\ s[k + 1] \in Nat
        OBVIOUS
    <2>1. r[k] = s[k] /\ s[k] \in Nat
        BY <1>3
    <2>2. k + 1 \in 0 .. n /\ k + 1 \in 0 .. m /\ k + 1 \in 1 .. n /\ (k + 1) - 1 = k
        OBVIOUS
    <2>3. s[k + 1] = s[k] + f[k + 1] /\ r[k + 1] = r[k] + f[k + 1] /\ f[k + 1] \in Nat
        BY <1>1, <2>2, SMTT(60)
    <2> QED
        BY <2>1, <2>3
<1> HIDE DEF S
<1>4. \A k \in Nat : k \in S
    BY <1>2, <1>3, InductionOnSet
<1> QED
    BY <1>4, SMTT(60) DEF S

\* The loop exists.
LEMMA AddsUpExists ==
    ASSUME NEW f, NEW n \in Nat, \A k \in 1 .. n : f[k] \in Nat
    PROVE  \E s \in [0 .. n -> Nat] : AddsUp(s, f, n)
<1> DEFINE add(k) == IF k \in 1 .. n THEN f[k] ELSE 0
           body == [k \in Nat |-> [x \in Nat |-> x + add(k)]]
<1>1. \A k \in Nat : add(k) \in Nat
    OBVIOUS
<1> HIDE DEF add
<1>2. body \in [Nat -> [Nat -> Nat]]
    BY <1>1, SMTT(60)
<1>3. \A k, x \in Nat : body[k][x] = x + add(k)
    OBVIOUS
<1> HIDE DEF body
<1>4. PICK after \in [Nat -> Nat] : Rounds(after, 0, body)
    BY <1>2, RoundsExist
<1>5. \A k \in Nat : after[k] = IF k = 0 THEN 0 ELSE body[k][after[k - 1]]
    BY <1>4 DEF Rounds
<1> DEFINE s == [k \in 0 .. n |-> after[k]]
<1>6. s \in [0 .. n -> Nat]
    BY <1>4, SMTT(60)
<1>7. ASSUME NEW k \in 0 .. n PROVE s[k] = IF k = 0 THEN 0 ELSE s[k - 1] + f[k]
    <2>1. CASE k = 0
        BY <1>5, <2>1
    <2>2. CASE k # 0
        <3>1. k - 1 \in Nat /\ k \in 1 .. n /\ k - 1 \in 0 .. n
            BY <2>2
        <3>2. after[k] = after[k - 1] + add(k)
            BY <1>3, <1>4, <1>5, <3>1, SMTT(60)
        <3> QED
            BY <2>2, <3>1, <3>2 DEF add
    <2> QED
        BY <2>1, <2>2
<1>8. AddsUp(s, f, n)
    BY <1>6, <1>7 DEF AddsUp
<1> QED
    BY <1>6, <1>8

\* SumOf is the last number of the loop, also of a longer one.
LEMMA SumOfIs ==
    ASSUME NEW f, NEW n \in Nat, \A k \in 1 .. n : f[k] \in Nat,
           NEW s, AddsUp(s, f, n), NEW m \in 0 .. n
    PROVE  SumOf(f, m) = s[m] /\ s[m] \in Nat
<1> DEFINE r == CHOOSE t : AddsUp(t, f, m)
<1>1. m \in Nat /\ \A k \in 1 .. m : f[k] \in Nat
    OBVIOUS
<1>2. \E t \in [0 .. m -> Nat] : AddsUp(t, f, m)
    BY <1>1, AddsUpExists
<1>3. AddsUp(r, f, m)
    BY <1>2
<1>4. SumOf(f, m) = r[m]
    BY DEF SumOf, AddsUp
<1> HIDE DEF r
<1> QED
    BY <1>3, <1>4, AddsUpOnce, SMTT(60)

\* What the loop adds: the next number of the sequence.
LEMMA SumOfStep ==
    ASSUME NEW f, NEW n \in Nat, \A k \in 1 .. n : f[k] \in Nat
    PROVE  /\ SumOf(f, 0) = 0
           /\ SumOf(f, n) \in Nat
           /\ n > 0 => SumOf(f, n) = SumOf(f, n - 1) + f[n]
<1>1. PICK s \in [0 .. n -> Nat] : AddsUp(s, f, n)
    BY AddsUpExists
<1>2. SumOf(f, 0) = s[0] /\ SumOf(f, n) = s[n]
    BY <1>1, SumOfIs, SMTT(60)
<1>3. s[0] = 0 /\ s[n] \in Nat
    BY <1>1, SMTT(60) DEF AddsUp
<1>4. ASSUME n > 0 PROVE SumOf(f, n) = SumOf(f, n - 1) + f[n]
    <2>1. n - 1 \in 0 .. n /\ n # 0
        BY <1>4
    <2>2. SumOf(f, n - 1) = s[n - 1]
        BY <1>1, <2>1, SumOfIs
    <2>3. s[n] = s[n - 1] + f[n]
        BY <1>1, <2>1, SMTT(60) DEF AddsUp
    <2> QED
        BY <1>2, <2>2, <2>3
<1> QED
    BY <1>2, <1>3, <1>4

\* The sum depends on the numbers only.
LEMMA SumOfSame ==
    ASSUME NEW f, NEW g, NEW n \in Nat, \A k \in 1 .. n : f[k] = g[k]
    PROVE  SumOf(f, n) = SumOf(g, n)
<1>1. \A s : [k \in 0 .. n |-> IF k = 0 THEN 0 ELSE s[k - 1] + f[k]]
             = [k \in 0 .. n |-> IF k = 0 THEN 0 ELSE s[k - 1] + g[k]]
    OBVIOUS
<1>2. \A s : AddsUp(s, f, n) <=> AddsUp(s, g, n)
    BY <1>1 DEF AddsUp
<1>3. (CHOOSE s : AddsUp(s, f, n)) = (CHOOSE s : AddsUp(s, g, n))
    BY <1>2
<1>4. /\ SumOf(f, n) = (CHOOSE s : AddsUp(s, f, n))[n]
      /\ SumOf(g, n) = (CHOOSE s : AddsUp(s, g, n))[n]
    BY DEF SumOf, AddsUp
<1> QED
    BY <1>3, <1>4
-----------------------------------------------------------------------------
(* The index arithmetic.                                                   *)

\* Euclidean division, as the provers need it.
LEMMA DivBounds ==
    ASSUME NEW a \in Nat, NEW n \in Nat \ {0}
    PROVE  /\ a \div n \in Nat
           /\ n * (a \div n) <= a
           /\ a < n * (a \div n) + n
  OBVIOUS

\* A quotient is at least every q whose multiple fits.
LEMMA DivLeast ==
    ASSUME NEW a \in Nat, NEW n \in Nat \ {0}, NEW q \in Nat, n * q <= a
    PROVE  q <= a \div n
  OBVIOUS

\* A product grows with its first factor.
LEMMA MulMonotone ==
    ASSUME NEW a \in Int, NEW b \in Int, NEW n \in Nat, a <= b
    PROVE  a * n <= b * n
  OBVIOUS
-----------------------------------------------------------------------------
\* startFullRebalancingTask and its siblings: every block of the rebalance is in
\* the range of one thread, so none is left out, and of one thread only, so none
\* is moved twice.
THEOREM ThreadRangesPartition ==
    ASSUME NEW numberOfThreads \in Nat \ {0}, NEW total \in Nat,
           NEW block \in 0 .. total - 1
    PROVE  \E thread \in 0 .. numberOfThreads - 1 :
              /\ contains(ThreadBlockRange(thread, numberOfThreads, total), block)
              /\ \A other \in 0 .. numberOfThreads - 1 :
                    contains(ThreadBlockRange(other, numberOfThreads, total), block)
                        => other = thread
  <1> DEFINE perThread == total \div numberOfThreads + 1
             thread == block \div perThread
  <1>1. /\ perThread \in Nat \ {0}
        /\ total < numberOfThreads * perThread
    BY DivBounds, SMTT(60)
  <1>2. \A t \in Nat : contains(ThreadBlockRange(t, numberOfThreads, total), block)
                         <=> t * perThread <= block /\ block < (t + 1) * perThread
    BY <1>1 DEF contains, ThreadBlockRange, Interval, Smaller
  <1> HIDE DEF perThread
  <1>3. /\ thread \in Nat
        /\ thread * perThread <= block
        /\ block < (thread + 1) * perThread
    BY <1>1, DivBounds, SMTT(60)
  <1> HIDE DEF thread
  <1>4. thread \in 0 .. numberOfThreads - 1
    <2>1. SUFFICES ASSUME numberOfThreads <= thread PROVE FALSE
      BY <1>3
    <2>2. numberOfThreads * perThread <= thread * perThread
      BY <1>1, <1>3, <2>1, MulMonotone
    <2> QED
      BY <1>1, <1>3, <2>2
  <1>5. ASSUME NEW other \in 0 .. numberOfThreads - 1,
               other * perThread <= block, block < (other + 1) * perThread
        PROVE  other = thread
    <2>1. CASE other + 1 <= thread
      <3>1. (other + 1) * perThread <= thread * perThread
        BY <1>1, <1>3, <2>1, MulMonotone
      <3> QED
        BY <1>1, <1>3, <1>5, <3>1
    <2>2. CASE thread + 1 <= other
      <3>1. (thread + 1) * perThread <= other * perThread
        BY <1>1, <1>3, <2>2, MulMonotone
      <3> QED
        BY <1>1, <1>3, <1>5, <3>1
    <2> QED
      BY <1>3, <2>1, <2>2
  <1> QED
    BY <1>2, <1>3, <1>4, <1>5, SMTT(60)

\* rebalanceBlocks writes block number k of a task to getUniformWriteIndex: if the
\* output range is as long as the blocks are many, every index lies in the range.
THEOREM WriteIndexInRange ==
    ASSUME NEW start \in Nat, NEW outputLength \in Nat,
           NEW n \in Nat \ {0}, NEW k \in 0 .. n - 1,
           outputLength >= n
    PROVE  contains(Interval(start, start + outputLength),
                    getUniformWriteIndex(start, k, outputLength, n))
  <1> DEFINE q == (k * outputLength) \div n
  <1>1. k * outputLength \in Nat
    OBVIOUS
  <1>2. q \in Nat /\ n * q <= k * outputLength
    BY <1>1, DivBounds
  <1> HIDE DEF q
  <1>3. q < outputLength
    <2>1. SUFFICES ASSUME outputLength <= q PROVE FALSE
      BY <1>2
    <2>2. outputLength * n <= q * n
      BY <1>2, <2>1, MulMonotone
    <2>3. (k + 1) * outputLength <= n * outputLength
      BY MulMonotone
    <2> QED
      BY <1>2, <2>2, <2>3
  <1> QED
    BY <1>2, <1>3 DEF contains, Interval, getUniformWriteIndex, q

\* ... and a later block is written behind an earlier one: no block is overwritten
\* and the order of the keys is kept.
THEOREM WriteIndexIncreasing ==
    ASSUME NEW start \in Nat, NEW outputLength \in Nat,
           NEW n \in Nat \ {0}, NEW j \in Nat, NEW k \in Nat, j < k,
           outputLength >= n
    PROVE  getUniformWriteIndex(start, j, outputLength, n)
               < getUniformWriteIndex(start, k, outputLength, n)
  <1> DEFINE q == (j * outputLength) \div n
             r == (k * outputLength) \div n
  <1>1. j * outputLength \in Nat /\ k * outputLength \in Nat
    OBVIOUS
  <1>2. q \in Nat /\ r \in Nat /\ n * q <= j * outputLength
    BY <1>1, DivBounds
  <1>3. (j + 1) * outputLength <= k * outputLength
    <2>1. j + 1 \in Int /\ k \in Int /\ j + 1 <= k
      OBVIOUS
    <2> QED
      BY <2>1, MulMonotone
  <1>4. n * (q + 1) <= k * outputLength
    BY <1>2, <1>3
  <1>5. q + 1 <= r
    BY <1>1, <1>2, <1>4, DivLeast
  <1> QED
    BY <1>2, <1>5 DEF getUniformWriteIndex
-----------------------------------------------------------------------------
(* The tree.                                                               *)

\* The index range of a level.
OnLevel(log, l, i) == l \in 0 .. log /\ i \in 0 .. Pow2[log - l] - 1

\* What a node of the tree is: the powers bound the index on every level.
LEMMA NodeIsInTree ==
    ASSUME NEW log \in Nat, NEW l, NEW i, OnLevel(log, l, i)
    PROVE  Node(l, i) \in TreeNodes(log)
<1>1. l \in 0 .. log /\ log - l \in Nat /\ Pow2[log - l] \in Nat /\ Pow2[log] \in Nat
    BY Pow2Defined, SMTT(60) DEF OnLevel
<1>2. Pow2[log - l] <= Pow2[log]
    BY <1>1, Pow2Monotone
<1>3. i \in 0 .. Pow2[log] - 1 /\ i < Pow2[log - l]
    BY <1>1, <1>2 DEF OnLevel
<1> QED
    BY <1>1, <1>3 DEF TreeNodes, Node

\* The super root has an entry in the arrays of the tree.
LEMMA SuperRootIsInTree ==
    ASSUME NEW log \in Nat
    PROVE  Node(log + 1, 0) \in TreeNodes(log)
  BY DEF TreeNodes

\* A node of the tree is on one of its levels, or the super root.
LEMMA NodeOfTree ==
    ASSUME NEW log \in Nat, NEW node \in TreeNodes(log)
    PROVE  /\ node = Node(node.level, node.index)
           /\ node.level \in Nat /\ node.index \in Nat
           /\ node.level \in 0 .. log + 1
           /\ node.level <= log => OnLevel(log, node.level, node.index)
           /\ node.level = log + 1 => node = Node(log + 1, 0)
<1>1. CASE node = Node(log + 1, 0)
    BY <1>1 DEF Node, OnLevel
<1>2. CASE node # Node(log + 1, 0)
    <2>1. /\ node \in [level : 0 .. log, index : 0 .. Pow2[log] - 1]
          /\ node.index < Pow2[log - node.level]
        BY <1>2 DEF TreeNodes
    <2>2. log - node.level \in Nat /\ Pow2[log - node.level] \in Nat
        BY <2>1, Pow2Defined, SMTT(60)
    <2> QED
        BY <2>1, <2>2 DEF OnLevel, Node
<1> QED
    BY <1>1, <1>2

\* parent, leftChild and rightChild stay in the tree.
LEMMA ParentOnLevel ==
    ASSUME NEW log \in Nat, NEW l \in 0 .. log - 1, NEW i, OnLevel(log, l, i)
    PROVE  OnLevel(log, l + 1, parent(i))
<1>1. log - (l + 1) \in Nat /\ log - l = (log - (l + 1)) + 1
    OBVIOUS
<1>2. Pow2[log - l] = 2 * Pow2[log - (l + 1)] /\ Pow2[log - (l + 1)] \in Nat
    BY <1>1, Pow2Defined
<1> QED
    BY <1>2 DEF OnLevel, parent

\* The children of an inner node are on the level below, and it is their parent.
LEMMA ChildrenOnLevel ==
    ASSUME NEW log \in Nat, NEW l \in 1 .. log, NEW i, OnLevel(log, l, i)
    PROVE  /\ OnLevel(log, l - 1, leftChild(i)) /\ OnLevel(log, l - 1, rightChild(i))
           /\ parent(leftChild(i)) = i /\ parent(rightChild(i)) = i
<1>1. log - l \in Nat /\ log - (l - 1) = (log - l) + 1
    OBVIOUS
<1>2. Pow2[log - (l - 1)] = 2 * Pow2[log - l] /\ Pow2[log - l] \in Nat
    BY <1>1, Pow2Defined
<1> QED
    BY <1>2 DEF OnLevel, leftChild, rightChild, parent

\* The range of a node of the tree, and where the tree ends.
LEMMA RangeOfNode ==
    ASSUME NEW log \in Nat, NEW l, NEW i, OnLevel(log, l, i), NEW n
    PROVE  LET w == SegmentWidth * Pow2[l]
           IN  /\ w \in Nat \ {0}
               /\ rebalancingRange(Node(l, i), log, n) = Interval(i * w, (i + 1) * w)
               /\ i * w \in Nat /\ (i + 1) * w \in Nat
               /\ (i + 1) * w = i * w + w
               /\ (i + 1) * w <= SegmentWidth * Pow2[log]
<1> DEFINE w == SegmentWidth * Pow2[l]
<1>1. l \in Nat /\ l <= log /\ i \in Nat /\ SegmentWidth \in Nat \ {0}
    BY GeometryAssumption, Pow2Defined, SMTT(60) DEF OnLevel
<1>2. Pow2[l] \in Nat \ {0} /\ log - l \in Nat /\ Pow2[log - l] \in Nat \ {0}
    BY <1>1, Pow2Defined, SMTT(60)
<1>3. w \in Nat \ {0}
    BY <1>1, <1>2
<1>4. i + 1 <= Pow2[log - l]
    BY <1>1, <1>2 DEF OnLevel
<1>5. Pow2[log] = Pow2[l] * Pow2[log - l]
    <2>1. l + (log - l) = log
        BY <1>1
    <2> QED
        BY <1>1, <1>2, <2>1, Pow2Sum
<1>6. rebalancingRange(Node(l, i), log, n) = Interval(i * w, (i + 1) * w)
    <2>1. Node(l, i).level = l /\ Node(l, i).index = i /\ l # log + 1
        BY <1>1 DEF Node
    <2> QED
        BY <2>1 DEF rebalancingRange, levelAggregateWidth
<1>7. (i + 1) * w <= Pow2[log - l] * w
    BY <1>1, <1>2, <1>3, <1>4, MulMonotone
<1>8. \A s, x, y \in Nat : y * (s * x) = s * (x * y)
    BY SMTT(60)
<1>9. Pow2[log - l] * w = SegmentWidth * Pow2[log]
    BY <1>1, <1>2, <1>5, <1>8, SMTT(60)
<1> HIDE DEF w
<1>10. i * w \in Nat /\ (i + 1) * w = i * w + w
    BY <1>1, <1>3
<1> QED
    BY <1>3, <1>6, <1>7, <1>9, <1>10 DEF w

\* Two nodes of the tree, neither above the other, have disjoint ranges.
LEMMA SameLevelApart ==
    ASSUME NEW w \in Nat \ {0}, NEW i \in Nat, NEW j \in Nat, i < j
    PROVE  (i + 1) * w <= j * w
  BY MulMonotone

\* A node of a lower level lies left or right of every node that is not above it.
LEMMA LowerLevelApart ==
    ASSUME NEW w \in Nat \ {0}, NEW d \in Nat \ {0}, NEW i \in Nat, NEW j \in Nat,
           i \div d # j
    PROVE  \/ (i + 1) * w <= j * (w * d)
           \/ (j + 1) * (w * d) <= i * w
<1> DEFINE q == i \div d
<1>1. q \in Nat /\ d * q <= i /\ i < d * q + d
    BY DivBounds
<1> HIDE DEF q
<1>2. q # j
    BY DEF q
<1>3. \A x \in Nat : x * (w * d) = (x * d) * w
    OBVIOUS
<1>4. CASE q + 1 <= j
    <2>1. (q + 1) * d <= j * d
        BY <1>1, <1>4, MulMonotone
    <2>2. i + 1 <= j * d
        BY <1>1, <2>1
    <2>3. j * d \in Nat
        OBVIOUS
    <2>4. (i + 1) * w <= (j * d) * w
        BY <2>2, <2>3, MulMonotone
    <2> QED
        BY <1>3, <2>4
<1>5. CASE j + 1 <= q
    <2>1. (j + 1) * d <= q * d
        BY <1>1, <1>5, MulMonotone
    <2>2. (j + 1) * d <= i
        BY <1>1, <2>1
    <2>3. (j + 1) * d \in Nat
        OBVIOUS
    <2>4. ((j + 1) * d) * w <= i * w
        BY <2>2, <2>3, MulMonotone
    <2>5. (j + 1) * (w * d) = ((j + 1) * d) * w
        BY <1>3
    <2> QED
        BY <2>4, <2>5
<1> QED
    BY <1>1, <1>2, <1>4, <1>5

\* Intervals of which one ends before the other begins do not overlap.
LEMMA ApartIntervals ==
    ASSUME NEW a \in Int, NEW b \in Int, NEW c \in Int, NEW d \in Int, b <= c \/ d <= a
    PROVE  ~overlaps(Interval(a, b), Interval(c, d))
  BY DEF overlaps, cut, Interval, NullInterval, Larger, Smaller

\* The ancestors of a node: one on every level above it.
LEMMA AncestorIs ==
    ASSUME NEW log \in Nat, NEW l \in Nat, NEW i, NEW m \in l + 1 .. log + 1
    PROVE  Node(m, i \div Pow2[m - l]) \in Ancestors(Node(l, i), log)
  BY DEF Ancestors, Node

\* The super root is above every other node.
LEMMA SuperRootAbove ==
    ASSUME NEW log \in Nat, NEW l, NEW i, OnLevel(log, l, i)
    PROVE  Node(log + 1, 0) \in Ancestors(Node(l, i), log)
<1>1. l \in Nat /\ l <= log /\ log - l \in Nat /\ (log + 1) - l = (log - l) + 1 /\ i \in Nat
    BY Pow2Defined, SMTT(60) DEF OnLevel
<1> DEFINE p == Pow2[log - l]
           r == Pow2[(log + 1) - l]
<1>2. p \in Nat \ {0} /\ r = 2 * p /\ i < p
    BY <1>1, Pow2Defined, SMTT(60) DEF OnLevel
<1> HIDE DEF p, r
<1>3. r \in Nat \ {0} /\ i < r
    BY <1>1, <1>2
<1>4. i \div r = 0
    BY <1>1, <1>3
<1>5. log + 1 \in l + 1 .. log + 1
    BY <1>1
<1>6. Node(log + 1, i \div r) \in Ancestors(Node(l, i), log)
    BY <1>1, <1>5, AncestorIs DEF r
<1> QED
    BY <1>4, <1>6

\* Nodes of which none is above the other have disjoint ranges: the one on the lower
\* level lies below another node of the higher level.
LEMMA HigherApart ==
    ASSUME NEW log \in Nat, NEW l, NEW i, OnLevel(log, l, i),
           NEW m, NEW j, OnLevel(log, m, j), l <= m, NEW n,
           Node(l, i) # Node(m, j), Node(m, j) \notin Ancestors(Node(l, i), log)
    PROVE  /\ ~overlaps(rebalancingRange(Node(l, i), log, n), rebalancingRange(Node(m, j), log, n))
           /\ ~overlaps(rebalancingRange(Node(m, j), log, n), rebalancingRange(Node(l, i), log, n))
<1> DEFINE w == SegmentWidth * Pow2[l]
           v == SegmentWidth * Pow2[m]
<1>1. l \in Nat /\ m \in Nat /\ i \in Nat /\ j \in Nat /\ m <= log
    BY Pow2Defined, SMTT(60) DEF OnLevel
<1>2. /\ w \in Nat \ {0} /\ v \in Nat \ {0}
      /\ rebalancingRange(Node(l, i), log, n) = Interval(i * w, (i + 1) * w)
      /\ rebalancingRange(Node(m, j), log, n) = Interval(j * v, (j + 1) * v)
      /\ i * w \in Nat /\ (i + 1) * w \in Nat /\ j * v \in Nat /\ (j + 1) * v \in Nat
    BY RangeOfNode
<1>3. (i + 1) * w <= j * v \/ (j + 1) * v <= i * w
    <2>1. CASE l = m
        <3>1. i # j /\ w = v
            BY <2>1 DEF Node
        <3> HIDE DEF w, v
        <3>2. CASE i < j
            BY <1>1, <1>2, <3>1, <3>2, SameLevelApart
        <3>3. CASE j < i
            BY <1>1, <1>2, <3>1, <3>3, SameLevelApart
        <3> QED
            BY <1>1, <3>1, <3>2, <3>3
    <2>2. CASE l < m
        <3> DEFINE d == Pow2[m - l]
        <3>1. m - l \in Nat /\ l + (m - l) = m
            BY <1>1, <2>2
        <3>2. d \in Nat \ {0} /\ Pow2[l] \in Nat /\ Pow2[m] = Pow2[l] * d
            <4>1. d \in Nat \ {0} /\ Pow2[l] \in Nat
                BY <1>1, <3>1, Pow2Defined
            <4>2. Pow2[l + (m - l)] = Pow2[l] * Pow2[m - l]
                BY <1>1, <3>1, Pow2Sum
            <4> QED
                BY <3>1, <4>1, <4>2
        <3>3. \A s, x, y \in Nat : s * (x * y) = (s * x) * y
            OBVIOUS
        <3>4. v = w * d
            BY <3>2, <3>3, GeometryAssumption, SMTT(60)
        <3>5. i \div d # j
            <4>1. m \in l + 1 .. log + 1
                BY <1>1, <2>2
            <4>2. Node(m, i \div d) \in Ancestors(Node(l, i), log)
                BY <1>1, <4>1, AncestorIs
            <4> HIDE DEF d
            <4> QED
                BY <4>2
        <3> HIDE DEF w, v, d
        <3> QED
            BY <1>1, <1>2, <3>2, <3>4, <3>5, LowerLevelApart
    <2> QED
        BY <1>1, <2>1, <2>2
<1> HIDE DEF w, v
<1> QED
    BY <1>2, <1>3, ApartIntervals

\* The tasks of B-3: flagged nodes without a flagged node above them.
LEMMA NodesApart ==
    ASSUME NEW log \in Nat, NEW a \in TreeNodes(log), NEW b \in TreeNodes(log), NEW n,
           a # b, a \notin Ancestors(b, log), b \notin Ancestors(a, log)
    PROVE  ~overlaps(rebalancingRange(a, log, n), rebalancingRange(b, log, n))
<1>1. /\ a = Node(a.level, a.index) /\ a.level \in 0 .. log + 1
      /\ a.level <= log => OnLevel(log, a.level, a.index)
      /\ a.level = log + 1 => a = Node(log + 1, 0)
    BY NodeOfTree
<1>2. /\ b = Node(b.level, b.index) /\ b.level \in 0 .. log + 1
      /\ b.level <= log => OnLevel(log, b.level, b.index)
      /\ b.level = log + 1 => b = Node(log + 1, 0)
    BY NodeOfTree
<1>3. a.level # log + 1
    <2> SUFFICES ASSUME a = Node(log + 1, 0) PROVE FALSE
        BY <1>1
    <2>1. OnLevel(log, b.level, b.index)
        BY <1>2
    <2>2. Node(log + 1, 0) \in Ancestors(Node(b.level, b.index), log)
        BY <2>1, SuperRootAbove
    <2> QED
        BY <1>2, <2>2
<1>4. b.level # log + 1
    <2> SUFFICES ASSUME b = Node(log + 1, 0) PROVE FALSE
        BY <1>2
    <2>1. OnLevel(log, a.level, a.index)
        BY <1>1, <1>3
    <2>2. Node(log + 1, 0) \in Ancestors(Node(a.level, a.index), log)
        BY <2>1, SuperRootAbove
    <2> QED
        BY <1>1, <2>2
<1>5. OnLevel(log, a.level, a.index) /\ OnLevel(log, b.level, b.index)
    BY <1>1, <1>2, <1>3, <1>4
<1>6. CASE a.level <= b.level
    BY <1>1, <1>2, <1>5, <1>6, HigherApart
<1>7. CASE b.level <= a.level
    BY <1>1, <1>2, <1>5, <1>7, HigherApart
<1> QED
    BY <1>1, <1>2, <1>6, <1>7

\* The threshold of a level is at most the number of its entries.
LEMMA ThresholdFits ==
    ASSUME NEW height \in Nat \ {0}, NEW l \in 0 .. height
    PROVE  maxBlocks(l, height) \in Nat /\ maxBlocks(l, height) <= SegmentWidth * Pow2[l]
<1> DEFINE w == SegmentWidth * Pow2[l]
           f == 100 * height - (100 - TauMaxPercent) * l
           h == 100 * height
<1>1. w \in Nat
    BY GeometryAssumption, Pow2Defined, SMTT(60)
<1>2. h \in Nat \ {0}
    OBVIOUS
<1>3. f \in Nat /\ f <= h
    <2>1. 100 - TauMaxPercent \in 0 .. 100 /\ l \in Nat /\ height \in Nat
        BY GeometryAssumption
    <2> DEFINE c == 100 - TauMaxPercent
    <2> HIDE DEF c
    <2>2. c * l <= 100 * l /\ c * l >= 0 /\ c * l \in Int
        BY <2>1, MulMonotone DEF c
    <2> QED
        BY <2>1, <2>2 DEF c
<1> HIDE DEF w, f, h
<1>4. w * f \in Nat /\ w * f <= w * h /\ w * h = h * w
    BY <1>1, <1>2, <1>3, MulMonotone
<1> DEFINE q == (w * f) \div h
<1>5. q \in Nat /\ h * q <= w * f
    BY <1>2, <1>4, DivBounds
<1>6. maxBlocks(l, height) = q
    BY DEF maxBlocks, levelAggregateWidth, w, f, h
<1> HIDE DEF q
<1>7. q <= w
    <2> SUFFICES ASSUME w + 1 <= q PROVE FALSE
        BY <1>1, <1>5
    <2>1. (w + 1) * h <= q * h
        BY <1>1, <1>2, <1>5, MulMonotone
    <2>2. (w + 1) * h = w * h + h /\ q * h = h * q /\ w * h \in Nat /\ h * q \in Nat
        BY <1>1, <1>2, <1>5
    <2>3. \A x, y, z, u \in Nat : z + u <= y /\ y <= x /\ x <= z => u = 0
        OBVIOUS
    <2> QED
        BY <1>2, <1>4, <1>5, <2>1, <2>2, <2>3
<1> QED
    BY <1>5, <1>6, <1>7 DEF w

\* The super root gets more entries than it has blocks.
LEMMA GrowthFits ==
    ASSUME NEW n \in Nat
    PROVE  minRangeLength(n) \in Nat /\ n <= minRangeLength(n)
<1>1. n * GrowingPercent \in Nat /\ 100 * n <= n * GrowingPercent
    BY GeometryAssumption
<1> QED
    BY <1>1, DivBounds, DivLeast DEF minRangeLength
-----------------------------------------------------------------------------
(* The inductive invariant of insertBatch.                                 *)

Phases == {"idle", "update", "collect", "distribute", "rebalance", "clear", "rewrite"}
Intervals == { I \in [left : Nat, right : Nat] : I.left <= I.right }

\* The arrays are as long as their capacities say, and longer than the part in use.
ArraysOK ==
    /\ phase \in Phases
    /\ size \in Nat /\ capacity \in Nat /\ swapCapacity \in Nat \ {0} /\ newPmaSize \in Nat
    /\ size < capacity
    /\ phase \in {"rebalance", "clear"} => newPmaSize < swapCapacity
    /\ DOMAIN pma = 0 .. capacity - 1
    /\ bufferPointers \in [0 .. capacity - 1 -> Intervals]
    /\ DOMAIN items = Threads /\ DOMAIN work = Threads

\* The sds size that the manager knows.
sdsSize == IF phase = "clear" THEN newPmaSize ELSE size

\* The nodes that the maps and the flags speak of are nodes of the tree.
TreeOK ==
    /\ logCapacity \in Nat \ {0}
    /\ level \in 0 .. logCapacity
    /\ managerSize = lowestLevelNodeIndex(sdsSize) + 1
    /\ managerSize <= Pow2[logCapacity]
    /\ aggregates \in [TreeNodes(logCapacity) -> Nat]
    /\ rebalanced \subseteq TreeNodes(logCapacity)
    /\ rebalancingNodes \in Seq(TreeNodes(logCapacity))

MapsOK ==
    /\ phase = "update" =>
          /\ DOMAIN recountingNodesMap \subseteq 0 .. Pow2[logCapacity - level] - 1
          /\ todo \subseteq DOMAIN recountingNodesMap
          /\ level < logCapacity =>
                DOMAIN nextLevelRecountingNodes \subseteq 0 .. Pow2[logCapacity - (level + 1)] - 1
          /\ level = logCapacity => DOMAIN nextLevelRecountingNodes \subseteq {0}
    /\ phase # "update" =>
          /\ DOMAIN recountingNodesMap \subseteq 0 .. Pow2[logCapacity] - 1
          /\ DOMAIN nextLevelRecountingNodes \subseteq {0}

\* A node that does not count what its children count is still to be visited.
ConsistentOK ==
    \A l \in 1 .. logCapacity : \A i \in 0 .. Pow2[logCapacity - l] - 1 :
        \/ aggregates[Node(l, i)] = Recount(Node(l, i))
        \/ phase = "update" /\ l = level /\ i \in todo
        \/ phase = "update" /\ l = level + 1 /\ i \in DOMAIN nextLevelRecountingNodes

\* The nodes to rebalance have their flag, are listed once and have room.
NodesOK ==
    /\ phase \notin {"update", "collect"} => rebalancingNodes = <<>>
    /\ \A k \in 1 .. Len(rebalancingNodes) :
          LET node == rebalancingNodes[k]
          IN  /\ node \in rebalanced
              /\ \A j \in 1 .. Len(rebalancingNodes) : rebalancingNodes[j] = node => j = k
              /\ phase = "update" =>
                    /\ node.level <= level
                    /\ aggregates[node] <= maxBlocks(node.level, logCapacity)
                    /\ ~(node.level = level /\ node.index \in todo)
              /\ phase = "collect" =>
                    numberOfBlocks(node)
                        <= length(rebalancingRange(node, logCapacity, aggregates[root]))

\* The tasks collected so far: flagged nodes with no flagged node above them.
CollectOK ==
    phase = "collect" =>
        \A k \in 1 .. Len(rebalancingTasks) :
            LET node == rebalancingTasks[k].rootNode
            IN  /\ rebalancingTasks[k] = getRebalancingTask(node)
                /\ node \in rebalanced
                /\ Ancestors(node, logCapacity) \cap rebalanced = {}
                /\ \A j \in 1 .. Len(rebalancingNodes) : rebalancingNodes[j] # node

Tasks == [pmaRange : Intervals, numberOfBlocks : Nat, rootNode : [level : Nat, index : Nat]]

\* The tasks and their prefix sums.
TasksOK ==
    /\ rebalancingTasks \in Seq(Tasks)
    /\ prefixNumberOfRebalancingBlocks \in Seq(Nat)
    /\ Len(prefixNumberOfRebalancingBlocks) = Len(rebalancingTasks)
    /\ \A k \in 1 .. Len(rebalancingTasks) :
          prefixNumberOfRebalancingBlocks[k]
              = prefixBlocks(k - 1) + rebalancingTasks[k].numberOfBlocks
    /\ phase \in {"idle", "update"} => rebalancingTasks = <<>>
    /\ phase \in {"distribute", "rebalance", "clear", "rewrite"} => rebalancingTasks # <<>>
    /\ TasksApart

\* Where the tasks end: in the tree, which has grown over the task of the super root
\* before anything is written.
EndsOK ==
    \A k \in 1 .. Len(rebalancingTasks) :
        LET right == rebalancingTasks[k].pmaRange.right
        IN  \/ right <= SegmentWidth * Pow2[logCapacity]
            \/ phase = "collect" /\ rebalancingTasks[k].rootNode = superRoot
            \/ phase = "distribute" /\ k = Len(rebalancingTasks)
            \/ phase = "rebalance" /\ right <= newPmaSize

Rewrites == [from : Nat, range : Intervals, blocks : Nat, number : Nat]

\* The task that a piece of B-9 is part of.
taskOf(t, n) == rebalancingTaskRange(t).right - Len(work[t]) + n - 1

\* What is left of a thread's pieces, the first of which may have begun.
IsRest(t, rest) ==
    LET range == rebalancingTaskRange(t)
    IN  /\ rest \in Seq(Rewrites)
        /\ Len(rest) <= length(range)
        /\ \A n \in 1 .. Len(rest) :
              LET piece == rewritingPiece(t, range.right - Len(rest) + n - 1)
              IN  /\ rest[n].from = piece.from
                  /\ rest[n].range = piece.range
                  /\ rest[n].blocks = piece.blocks
                  /\ rest[n].number <= piece.blocks

WorkOK == phase = "rewrite" => \A t \in Threads : IsRest(t, work[t])

Inv == /\ ArraysOK /\ TreeOK /\ MapsOK /\ ConsistentOK /\ NodesOK /\ CollectOK /\ TasksOK
       /\ EndsOK /\ WorkOK
-----------------------------------------------------------------------------
(* Intervals and pieces as records.                                        *)

\* An empty sum.
LEMMA NothingAdded ==
    0 + 0 = 0
BY SMTT(60)

\* The order of the numbers.
LEMMA AtMost ==
    \A a, b, c \in Nat : a <= b /\ b <= c => a <= c
BY SMTT(60)

\* A range that is not empty.
LEMMA SomeLength ==
    \A l, n, r \in Nat : n > 0 /\ l + n <= r => l < r /\ l < l + n /\ l + n \in Nat
BY SMTT(60)

\* A sum of two numbers.
LEMMA SomeMore ==
    \A l, n \in Nat : n > 0 => l < l + n /\ l + n \in Nat
BY SMTT(60)

\* A sequence with another first element.
LEMMA FirstReplaced ==
    ASSUME NEW S, NEW s \in Seq(S), 1 \in 1 .. Len(s), NEW q \in S
    PROVE  /\ [s EXCEPT ![1] = q] \in Seq(S) /\ Len([s EXCEPT ![1] = q]) = Len(s)
           /\ \A n \in 1 .. Len(s) : [s EXCEPT ![1] = q][n] = IF n = 1 THEN q ELSE s[n]
BY SMTT(60)

\* The two ends of an interval.
LEMMA IntervalEnds ==
    \A l, r : Interval(l, r).left = l /\ Interval(l, r).right = r
BY DEF Interval

\* An interval of indices and its length.
LEMMA IntervalIs ==
    \A l, r \in Nat : l <= r => Interval(l, r) \in Intervals /\ length(Interval(l, r)) = r - l
BY DEF Interval, Intervals, length

\* A piece of which one more block is written.
LEMMA OneMoreWritten ==
    ASSUME NEW p \in Rewrites, p.number < p.blocks, NEW q, q = [p EXCEPT !.number = @ + 1]
    PROVE  /\ q \in Rewrites /\ q.from = p.from /\ q.range = p.range
           /\ q.blocks = p.blocks /\ q.number <= p.blocks
BY DEF Rewrites

\* The range of a task as getRebalancingTask makes it.
LEMMA RangeOfTask ==
    \A node : getRebalancingTask(node).pmaRange = rebalancingRange(node, logCapacity, aggregates[root])
BY DEF getRebalancingTask
-----------------------------------------------------------------------------
(* The arrays and the height of the tree.                                  *)

\* The capacity that the swap array grows to exceeds the new size.
LEMMA DoubledLarge ==
    ASSUME NEW c \in Nat \ {0}, NEW n \in Nat
    PROVE  Doubled(c, n) \in Nat \ {0} /\ n < Doubled(c, n)
<1> DEFINE powers == { c * Pow2[k] : k \in 0 .. n }
           S == { d \in powers : d > n }
<1>1. CASE n < c
    BY <1>1 DEF Doubled
<1>2. CASE ~(n < c)
    <2>1. \A k \in 0 .. n : Pow2[k] \in Nat \ {0}
        BY Pow2Defined, SMTT(60)
    <2>2. powers \subseteq Nat \ {0}
        BY <2>1
    <2>3. c * Pow2[n] \in powers
        OBVIOUS
    <2>4. Pow2[n] \in Nat /\ n < Pow2[n]
        BY Pow2Large, Pow2Defined
    <2>5. Pow2[n] <= c * Pow2[n]
        BY <2>4
    <2>6. c * Pow2[n] \in S
        BY <2>2, <2>3, <2>4, <2>5, SMTT(60)
    <2> HIDE DEF powers
    <2>7. PICK d \in S : \A e \in S : d <= e
        BY <2>2, <2>6, LeastNumber
    <2>8. \E f \in powers : f > n /\ \A e \in powers : e > n => f <= e
        BY <2>7
    <2>9. LET f == CHOOSE f \in powers : f > n /\ \A e \in powers : e > n => f <= e
          IN  f \in powers /\ f > n
        BY <2>8
    <2>10. Doubled(c, n) = CHOOSE f \in powers : f > n /\ \A e \in powers : e > n => f <= e
        BY <1>2 DEF Doubled, powers
    <2> QED
        BY <2>2, <2>9, <2>10
<1> QED
    BY <1>1, <1>2

\* resize() finds a height for which the tree has room.
LEMMA HeightFound ==
    ASSUME NEW log \in Nat, NEW n \in Nat
    PROVE  LET l == CHOOSE l \in log .. log + n :
                        /\ Pow2[l] > n
                        /\ \A k \in log .. l - 1 : Pow2[k] <= n
           IN  l \in log .. log + n /\ Pow2[l] > n
<1> DEFINE S == { l \in log .. log + n : Pow2[l] > n }
<1>1. log + n \in S
    <2>1. log + n \in Nat /\ n <= log + n
        OBVIOUS
    <2>2. n < Pow2[n] /\ Pow2[n] <= Pow2[log + n] /\ Pow2[n] \in Nat /\ Pow2[log + n] \in Nat
        BY <2>1, Pow2Large, Pow2Monotone, Pow2Defined
    <2> QED
        BY <2>1, <2>2
<1>2. S \in SUBSET Nat
    BY SMTT(60)
<1>3. PICK l \in S : \A k \in S : l <= k
    BY <1>1, <1>2, LeastNumber
<1>4. \A k \in log .. l - 1 : Pow2[k] <= n
    <2> SUFFICES ASSUME NEW k \in log .. l - 1, ~(Pow2[k] <= n) PROVE FALSE
        OBVIOUS
    <2>1. k \in log .. log + n /\ k < l /\ Pow2[k] \in Nat
        BY <1>3, Pow2Defined, SMTT(60)
    <2> QED
        BY <1>3, <2>1
<1>5. l \in log .. log + n /\ Pow2[l] > n
    BY <1>3
<1> HIDE DEF S
<1> QED
    BY <1>4, <1>5

\* What the pma and the buffer hold between two indices is a number of blocks.
LEMMA CountedBetween ==
    ASSUME ArraysOK, NEW from \in Nat, NEW to \in Nat
    PROVE  BlocksBetween(from, to) \in Nat
<1> DEFINE n == Larger(0, Smaller(to, effectivePmaSize) - from)
           f == [k \in 1 .. n |-> BlocksAt(from + k - 1)]
<1>1. effectivePmaSize \in Nat /\ effectivePmaSize <= capacity
    BY DEF effectivePmaSize, Larger, ArraysOK
<1>2. n \in Nat /\ \A k \in 1 .. n : from + k - 1 \in 0 .. capacity - 1
    BY <1>1, SMTT(60) DEF Larger, Smaller, ArraysOK
<1>3. \A i \in 0 .. capacity - 1 : BlocksAt(i) \in Nat
    BY SMTT(60) DEF BlocksAt, numberOfBufferBlocks, length, ArraysOK, Intervals
<1>4. \A k \in 1 .. n : f[k] \in Nat
    BY <1>2, <1>3
<1> HIDE DEF n, f
<1>5. SumOf(f, n) \in Nat
    BY <1>2, <1>4, SumOfStep
<1> QED
    BY <1>5 DEF BlocksBetween, n, f

\* The entries that a batch may land in are entries of the array.
LEMMA OriginsInArray ==
    ASSUME ArraysOK, NEW origins,
           origins \subseteq (IF size = 0 THEN {0} ELSE { i \in 0 .. size - 1 : ~empty(i) })
    PROVE  /\ \A i \in origins : i \in 0 .. capacity - 1 /\ i < effectivePmaSize
           /\ origins \subseteq 0 .. capacity - 1
<1>1. \A i \in origins : i \in 0 .. capacity - 1 /\ i < effectivePmaSize
    BY SMTT(60) DEF ArraysOK, effectivePmaSize, Larger
<1> QED
    BY <1>1

\* The parts of a task.
LEMMA TaskTyped ==
    ASSUME TasksOK, NEW k \in 1 .. Len(rebalancingTasks)
    PROVE  /\ rebalancingTasks[k].pmaRange.left \in Nat
           /\ rebalancingTasks[k].pmaRange.right \in Nat
           /\ rebalancingTasks[k].pmaRange.left <= rebalancingTasks[k].pmaRange.right
           /\ rebalancingTasks[k].pmaRange
                = Interval(rebalancingTasks[k].pmaRange.left, rebalancingTasks[k].pmaRange.right)
           /\ rebalancingTasks[k].numberOfBlocks \in Nat
           /\ prefixNumberOfRebalancingBlocks[k] \in Nat
           /\ prefixBlocks(k - 1) \in Nat
           /\ prefixBlocks(k) = prefixBlocks(k - 1) + rebalancingTasks[k].numberOfBlocks
<1>1. rebalancingTasks[k] \in Tasks
    BY DEF TasksOK
<1>2. rebalancingTasks[k].pmaRange \in Intervals /\ rebalancingTasks[k].numberOfBlocks \in Nat
    BY <1>1 DEF Tasks
<1>3. \A I \in Intervals : /\ I.left \in Nat /\ I.right \in Nat /\ I.left <= I.right
                           /\ I = Interval(I.left, I.right)
    BY DEF Intervals, Interval
<1>4. \A j \in 1 .. Len(rebalancingTasks) : prefixNumberOfRebalancingBlocks[j] \in Nat
    BY DEF TasksOK
<1>5. prefixNumberOfRebalancingBlocks[k] = prefixBlocks(k - 1) + rebalancingTasks[k].numberOfBlocks
    BY DEF TasksOK
<1>6. prefixBlocks(k - 1) \in Nat
    BY <1>4 DEF prefixBlocks
<1> QED
    BY <1>2, <1>3, <1>4, <1>5, <1>6, SMTT(60) DEF prefixBlocks

\* Every step of insertBatch keeps the arrays as long as their capacities say:
\* resizeMainPma takes over the capacity of the swap array, which exceeds newPmaSize.
LEMMA ArraysStep ==
    ASSUME Inv, [Next]_vars
    PROVE  ArraysOK'
<1> USE DEF Phases, Inv
<1>1. CASE insertBatch
    <2>1. PICK origins, split :
            /\ origins \subseteq (IF size = 0 THEN {0} ELSE { i \in 0 .. size - 1 : ~empty(i) })
            /\ split \in [origins -> 1 .. MaxSplit]
            /\ insertBlocks(origins, split)
        BY <1>1 DEF insertBatch
    <2> DEFINE isOrigin(i) == IF i \in origins THEN 1 ELSE 0
               bufferStart(i) == MaxSplit * SumOf([k \in 1 .. i |-> isOrigin(k - 1)], i)
    <2>2. \A i \in origins : i \in Nat
        BY <2>1, OriginsInArray
    <2>3. \A i \in origins : bufferStart(i) \in Nat
        <3> SUFFICES ASSUME NEW i \in origins PROVE bufferStart(i) \in Nat
            OBVIOUS
        <3> DEFINE f == [k \in 1 .. i |-> isOrigin(k - 1)]
        <3>1. i \in Nat
            BY <2>2
        <3>2. \A k \in 1 .. i : f[k] \in Nat
            BY <3>1
        <3> HIDE DEF f
        <3>3. SumOf(f, i) \in Nat
            BY <3>1, <3>2, SumOfStep
        <3>4. bufferStart(i) = MaxSplit * SumOf(f, i)
            BY DEF f
        <3> HIDE DEF bufferStart
        <3> QED
            BY <3>3, <3>4, BoundsAssumption
    <2>4. bufferPointers' = [i \in DOMAIN pma |->
                 IF i \in origins
                 THEN Interval(bufferStart(i), bufferStart(i) + split[i])
                 ELSE NullInterval]
        BY <2>1 DEF insertBlocks
    <2> HIDE DEF bufferStart
    <2>5. bufferPointers' \in [0 .. capacity - 1 -> Intervals]
        <3>1. \A i \in origins : split[i] \in Nat
            BY <2>1, BoundsAssumption
        <3>2. NullInterval \in Intervals /\ \A a, b \in Nat : Interval(a, a + b) \in Intervals
            BY DEF NullInterval, Interval, Intervals
        <3> QED
            BY <2>3, <2>4, <3>1, <3>2 DEF ArraysOK
    <2>6. DOMAIN pma' = DOMAIN pma
        BY <2>1 DEF insertBlocks
    <2> QED
        BY <2>1, <2>5, <2>6 DEF insertBlocks, rebalanceVars, ArraysOK
<1>2. CASE managerStep
    <2>1. /\ UNCHANGED <<arrayVars, rebalanceVars>>
          /\ phase' \in {"update", "collect", "idle", "distribute"}
        BY <1>2 DEF managerStep, updateNode, nextLevel, finishUpdate, collectTask, endCollect
    <2> QED
        BY <2>1 DEF ArraysOK, arrayVars, rebalanceVars
<1>3. CASE distributeStep
    <2> DEFINE newSize == Larger(size, rebalancingTasks[Len(rebalancingTasks)].pmaRange.right)
    <2>1. newSize \in Nat
        <3>1. Len(rebalancingTasks) \in 1 .. Len(rebalancingTasks)
            BY <1>3 DEF distributeStep, distribute, TasksOK
        <3>2. rebalancingTasks[Len(rebalancingTasks)].pmaRange.right \in Nat
            BY <3>1, TaskTyped
        <3> QED
            BY <3>2 DEF Larger, ArraysOK
    <2> HIDE DEF newSize
    <2>2. /\ newPmaSize' = newSize /\ swapCapacity' = Doubled(swapCapacity, newSize)
          /\ phase' = "rebalance" /\ UNCHANGED <<size, capacity, pma, bufferPointers>>
          /\ DOMAIN work' = Threads /\ DOMAIN items' = Threads
        BY <1>3 DEF distributeStep, distribute, newSize
    <2>3. Doubled(swapCapacity, newSize) \in Nat \ {0} /\ newSize < Doubled(swapCapacity, newSize)
        BY <2>1, DoubledLarge DEF ArraysOK
    <2> QED
        BY <2>1, <2>2, <2>3 DEF ArraysOK
<1>4. ASSUME NEW t \in Threads, rebalanceBlocks(t) PROVE ArraysOK'
    <2>1. DOMAIN pma' = DOMAIN pma /\ DOMAIN work' = DOMAIN work
        BY <1>4 DEF rebalanceBlocks
    <2>2. UNCHANGED <<phase, size, capacity, swapCapacity, bufferPointers, newPmaSize, items>>
        BY <1>4 DEF rebalanceBlocks
    <2> QED
        BY <2>1, <2>2 DEF ArraysOK
<1>5. ASSUME NEW t \in Threads, clearBufferBlockPointers(t) PROVE ArraysOK'
    <2>1. DOMAIN work' = DOMAIN work
        BY <1>5 DEF clearBufferBlockPointers
    <2>2. UNCHANGED <<phase, size, capacity, swapCapacity, pma, newPmaSize, items>>
        BY <1>5 DEF clearBufferBlockPointers
    <2>3. /\ DOMAIN bufferPointers' = DOMAIN bufferPointers
          /\ \A i \in DOMAIN bufferPointers :
                bufferPointers'[i] \in {NullInterval, bufferPointers[i]}
          /\ bufferPointers' = [i \in DOMAIN bufferPointers |-> bufferPointers'[i]]
        BY <1>5 DEF clearBufferBlockPointers
    <2>4. NullInterval \in Intervals
        BY DEF NullInterval, Interval, Intervals
    <2> QED
        BY <2>1, <2>2, <2>3, <2>4 DEF ArraysOK
<1>6. ASSUME NEW t \in Threads, rewriteBlocks(t) PROVE ArraysOK'
    <2>1. DOMAIN pma' = DOMAIN pma /\ DOMAIN work' = DOMAIN work
        BY <1>6 DEF rewriteBlocks
    <2>2. UNCHANGED <<phase, size, capacity, swapCapacity, bufferPointers, newPmaSize, items>>
        BY <1>6 DEF rewriteBlocks
    <2> QED
        BY <2>1, <2>2 DEF ArraysOK
<1>7. CASE endRebalance
    BY <1>7 DEF endRebalance, ArraysOK, arrayVars, WorkOK
<1>8. CASE resizeMainPma
    <2>1. Pointers(swapCapacity) \in [0 .. swapCapacity - 1 -> Intervals]
        BY DEF Pointers, NullInterval, Interval, Intervals
    <2>2. DOMAIN Array(swapCapacity) = 0 .. swapCapacity - 1
        BY DEF Array
    <2> QED
        BY <1>8, <2>1, <2>2 DEF resizeMainPma, ArraysOK
<1>9. CASE endRewrite
    BY <1>9 DEF endRewrite, ArraysOK, arrayVars, NoWork
<1>10. CASE UNCHANGED vars
    BY <1>10 DEF vars, arrayVars, rebalanceVars, ArraysOK
<1> QED
    BY <1>1, <1>2, <1>3, <1>4, <1>5, <1>6, <1>7, <1>8, <1>9, <1>10
    DEF Next, executionStep, threadStep
-----------------------------------------------------------------------------
(* The tree.                                                               *)

\* The count of a node is a number of blocks.
LEMMA Recounted ==
    ASSUME ArraysOK, TreeOK, NEW l, NEW i, OnLevel(logCapacity, l, i)
    PROVE  Recount(Node(l, i)) \in Nat
<1>1. Node(l, i).level = l /\ Node(l, i).index = i /\ logCapacity \in Nat
    BY DEF Node, TreeOK
<1>2. l \in 0 .. logCapacity /\ i \in Nat
    BY <1>1, Pow2Defined, SMTT(60) DEF OnLevel
<1>3. CASE l = 0
    <2>1. i * SegmentWidth \in Nat /\ (i + 1) * SegmentWidth \in Nat
        BY <1>2, GeometryAssumption
    <2> QED
        BY <1>1, <1>3, <2>1, CountedBetween DEF Recount
<1>4. CASE l # 0
    <2>1. l \in 1 .. logCapacity
        BY <1>2, <1>4
    <2>2. /\ Node(l - 1, leftChild(i)) \in TreeNodes(logCapacity)
          /\ Node(l - 1, rightChild(i)) \in TreeNodes(logCapacity)
        BY <1>1, <2>1, ChildrenOnLevel, NodeIsInTree
    <2>3. \A node \in TreeNodes(logCapacity) : aggregates[node] \in Nat
        BY DEF TreeOK
    <2> QED
        BY <1>1, <1>4, <2>2, <2>3 DEF Recount
<1> QED
    BY <1>3, <1>4

\* The entries to be visited are nodes of the current level.
LEMMA TodoOnLevel ==
    ASSUME TreeOK, MapsOK, phase = "update", NEW i \in todo
    PROVE  /\ OnLevel(logCapacity, level, i)
           /\ Node(level, i) \in TreeNodes(logCapacity)
           /\ i \in Nat /\ level \in Nat /\ logCapacity \in Nat /\ level <= logCapacity
<1>1. logCapacity \in Nat /\ level \in 0 .. logCapacity
    BY DEF TreeOK
<1>2. OnLevel(logCapacity, level, i)
    BY <1>1 DEF MapsOK, OnLevel
<1>3. i \in Nat
    BY <1>1, <1>2, Pow2Defined, SMTT(60) DEF OnLevel
<1> QED
    BY <1>1, <1>2, <1>3, NodeIsInTree

\* What one visit of update() does to the counts: the node gets its new count.
LEMMA VisitedCount ==
    ASSUME ArraysOK, TreeOK, MapsOK, NEW i \in todo, updateNode(i)
    PROVE  /\ Recount(Node(level, i)) \in Nat
           /\ aggregates' = [aggregates EXCEPT ![Node(level, i)] = Recount(Node(level, i))]
<1>1. phase = "update"
    BY DEF updateNode
<1>2. OnLevel(logCapacity, level, i) /\ Node(level, i) \in TreeNodes(logCapacity)
    BY <1>1, TodoOnLevel
<1>3. Recount(Node(level, i)) \in Nat
    BY <1>2, Recounted
<1>4. aggregates' = [aggregates EXCEPT ![Node(level, i)] =
          IF Recount(Node(level, i)) # aggregates[Node(level, i)]
             \/ ~(Recount(Node(level, i)) <= maxBlocks(level, logCapacity))
          THEN Recount(Node(level, i)) ELSE @]
    BY DEF updateNode
<1> QED
    BY <1>3, <1>4

\* Every step keeps the nodes and counts in the tree: the loop of resize() ends with
\* a height at which the segments of the new size have a node each.
LEMMA TreeStep ==
    ASSUME Inv, [Next]_vars
    PROVE  TreeOK'
<1> USE DEF Inv
<1>1. CASE insertBatch
    <2>1. PICK origins, split : insertBlocks(origins, split)
        BY <1>1 DEF insertBatch
    <2>2. phase = "idle" /\ phase' = "update" /\ level' = 0
        BY <1>1, <2>1 DEF insertBatch, insertBlocks, StartUpdate
    <2>3. UNCHANGED <<size, rebalancingNodes, aggregates, rebalanced, managerSize, logCapacity>>
        BY <2>1 DEF insertBlocks
    <2>4. sdsSize' = sdsSize
        BY <2>2, <2>3 DEF sdsSize
    <2> QED
        BY <2>2, <2>3, <2>4 DEF TreeOK
<1>2. ASSUME NEW i \in todo, updateNode(i) PROVE TreeOK'
    <2>1. /\ phase = "update" /\ phase' = phase
          /\ UNCHANGED <<size, level, managerSize, logCapacity>>
        BY <1>2 DEF updateNode, arrayVars
    <2>2. Node(level, i) \in TreeNodes(logCapacity)
        BY <2>1, TodoOnLevel
    <2>3. aggregates' \in [TreeNodes(logCapacity) -> Nat]
        BY <1>2, <2>2, VisitedCount DEF TreeOK
    <2>4. rebalanced' \in {rebalanced, rebalanced \cup {Node(level, i)}}
        BY <1>2 DEF updateNode
    <2>5. rebalancingNodes' \in {rebalancingNodes, Append(rebalancingNodes, Node(level, i))}
        BY <1>2 DEF updateNode
    <2>6. rebalancingNodes' \in Seq(TreeNodes(logCapacity))
        <3>1. rebalancingNodes \in Seq(TreeNodes(logCapacity))
            BY DEF TreeOK
        <3> QED
            BY <2>2, <2>5, <3>1
    <2>7. sdsSize' = sdsSize
        BY <2>1 DEF sdsSize
    <2> QED
        BY <2>1, <2>2, <2>3, <2>4, <2>6, <2>7 DEF TreeOK
<1>3. CASE nextLevel
    <2>1. sdsSize' = sdsSize
        BY <1>3 DEF nextLevel, sdsSize, arrayVars
    <2> QED
        BY <1>3, <2>1 DEF nextLevel, TreeOK
<1>4. CASE finishUpdate
    <2>1. superRoot \in TreeNodes(logCapacity)
        BY SuperRootIsInTree DEF superRoot, TreeOK
    <2>2. rebalancingNodes' \in {rebalancingNodes, Append(rebalancingNodes, superRoot)}
        BY <1>4 DEF finishUpdate
    <2>3. rebalanced' \in {rebalanced, rebalanced \cup {superRoot}}
        BY <1>4 DEF finishUpdate
    <2>4. /\ UNCHANGED <<size, aggregates, managerSize, logCapacity, level>>
          /\ phase' = "collect" /\ phase = "update"
        BY <1>4 DEF finishUpdate, arrayVars
    <2>5. sdsSize' = sdsSize
        BY <2>4 DEF sdsSize
    <2>6. rebalancingNodes' \in Seq(TreeNodes(logCapacity))
        BY <2>1, <2>2, SMTT(60) DEF TreeOK
    <2> QED
        BY <2>1, <2>3, <2>4, <2>5, <2>6 DEF TreeOK
<1>5. CASE collectTask
    <2>1. /\ phase = "collect"
          /\ UNCHANGED <<phase, size, aggregates, managerSize, logCapacity, level>>
        BY <1>5 DEF collectTask, arrayVars
    <2>2. rebalanced' \subseteq rebalanced
        BY <1>5 DEF collectTask
    <2>3. rebalancingNodes # <<>> /\ rebalancingNodes' = Tail(rebalancingNodes)
        BY <1>5 DEF collectTask
    <2>4. rebalancingNodes' \in Seq(TreeNodes(logCapacity))
        BY <2>3 DEF TreeOK
    <2>5. sdsSize' = sdsSize
        BY <2>1 DEF sdsSize
    <2> QED
        BY <2>1, <2>2, <2>4, <2>5 DEF TreeOK
<1>6. CASE endCollect
    <2>1. sdsSize' = sdsSize
        BY <1>6 DEF endCollect, sdsSize, arrayVars
    <2> QED
        BY <1>6, <2>1 DEF endCollect, managerVars, TreeOK
<1>7. CASE distributeStep
    <2>1. sdsSize' = sdsSize
        BY <1>7 DEF distributeStep, distribute, sdsSize
    <2> QED
        BY <1>7, <2>1 DEF distributeStep, distribute, managerVars, TreeOK
<1>8. ASSUME NEW t \in Threads, rebalanceBlocks(t) PROVE TreeOK'
    <2>1. UNCHANGED <<phase, size, rebalancingNodes, aggregates, managerSize, logCapacity, level>>
        BY <1>8 DEF rebalanceBlocks
    <2>2. rebalanced' \subseteq rebalanced
        BY <1>8 DEF rebalanceBlocks, clearRebalancedFlag
    <2>3. sdsSize' = sdsSize
        BY <1>8, <2>1 DEF sdsSize, rebalanceBlocks
    <2> QED
        BY <2>1, <2>2, <2>3 DEF TreeOK
<1>9. ASSUME NEW t \in Threads, clearBufferBlockPointers(t) PROVE TreeOK'
    <2>1. UNCHANGED <<phase, size, newPmaSize, rebalancingNodes, managerVars>>
        BY <1>9 DEF clearBufferBlockPointers
    <2>2. sdsSize' = sdsSize
        BY <2>1 DEF sdsSize
    <2> QED
        BY <2>1, <2>2 DEF TreeOK, managerVars
<1>10. ASSUME NEW t \in Threads, rewriteBlocks(t) PROVE TreeOK'
    <2>1. UNCHANGED <<phase, size, newPmaSize, rebalancingNodes, managerVars>>
        BY <1>10 DEF rewriteBlocks
    <2>2. sdsSize' = sdsSize
        BY <2>1 DEF sdsSize
    <2> QED
        BY <2>1, <2>2 DEF TreeOK, managerVars
<1>11. CASE endRebalance
    <2> DEFINE n == lowestLevelNodeIndex(newPmaSize) + 1
    <2>1. /\ phase = "rebalance" /\ phase' = "clear"
          /\ UNCHANGED <<newPmaSize, level, rebalancingNodes>>
        BY <1>11 DEF endRebalance
    <2>2. n \in Nat
        BY DivBounds, GeometryAssumption, SMTT(60) DEF lowestLevelNodeIndex, ArraysOK
    <2>3. /\ sdsSize' = newPmaSize /\ managerSize' = n
          /\ managerSize' = lowestLevelNodeIndex(sdsSize') + 1
        BY <1>11, <2>1 DEF sdsSize, endRebalance, resize
    <2>4. rebalancingNodes' = <<>>
        BY <2>1 DEF NodesOK
    <2> HIDE DEF n
    <2>5. CASE n # managerSize /\ n > Pow2[logCapacity]
        <3> DEFINE newLog == CHOOSE l \in logCapacity .. logCapacity + n :
                     /\ Pow2[l] > n
                     /\ \A k \in logCapacity .. l - 1 : Pow2[k] <= n
        <3>1. /\ logCapacity \in Nat \ {0}
              /\ newLog \in logCapacity .. logCapacity + n /\ Pow2[newLog] > n
            BY <2>2, HeightFound DEF TreeOK
        <3>2. logCapacity' = newLog /\ aggregates' = NoAggregates(newLog) /\ rebalanced' = {}
            BY <1>11, <2>5 DEF endRebalance, resize, n
        <3> HIDE DEF newLog
        <3>3. newLog \in Nat \ {0} /\ level \in 0 .. newLog /\ Pow2[newLog] \in Nat
            <4>1. level \in 0 .. logCapacity
                BY DEF TreeOK
            <4> QED
                BY <2>2, <3>1, <4>1, Pow2Defined, SMTT(60)
        <3> QED
            BY <2>1, <2>2, <2>3, <2>4, <3>1, <3>2, <3>3, SMTT(60) DEF TreeOK, NoAggregates
    <2>6. CASE ~(n # managerSize /\ n > Pow2[logCapacity])
        <3>1. UNCHANGED <<logCapacity, aggregates, rebalanced>>
            BY <1>11, <2>6 DEF endRebalance, resize, n
        <3>2. n <= Pow2[logCapacity]
            <4>1. managerSize <= Pow2[logCapacity] /\ logCapacity \in Nat
                BY DEF TreeOK
            <4> QED
                BY <2>2, <2>6, <4>1, Pow2Defined, SMTT(60)
        <3> QED
            BY <2>1, <2>2, <2>3, <2>4, <3>1, <3>2 DEF TreeOK
    <2> QED
        BY <2>5, <2>6
<1>12. CASE resizeMainPma
    <2>1. sdsSize' = sdsSize
        BY <1>12 DEF resizeMainPma, sdsSize
    <2> QED
        BY <1>12, <2>1 DEF resizeMainPma, managerVars, TreeOK
<1>13. CASE endRewrite
    <2>1. sdsSize' = sdsSize
        BY <1>13 DEF endRewrite, sdsSize, arrayVars
    <2> QED
        BY <1>13, <2>1 DEF endRewrite, TreeOK
<1>14. CASE UNCHANGED vars
    <2>1. sdsSize' = sdsSize
        BY <1>14 DEF vars, sdsSize, arrayVars, rebalanceVars
    <2> QED
        BY <1>14, <2>1 DEF vars, managerVars, TreeOK
<1> QED
    BY <1>1, <1>2, <1>3, <1>4, <1>5, <1>6, <1>7, <1>8, <1>9, <1>10, <1>11, <1>12, <1>13, <1>14
    DEF Next, managerStep, executionStep, threadStep
-----------------------------------------------------------------------------
(* The shares of the threads.                                              *)

\* A share of a task's blocks is spread over at least as many entries, in the range
\* of the task.
LEMMA WriteIndexSpread ==
    ASSUME NEW start \in Nat, NEW outputLength \in Nat, NEW n \in Nat \ {0},
           NEW a \in Nat, NEW b \in Nat, a <= b, b <= n, n <= outputLength
    PROVE  LET write(i) == getUniformWriteIndex(start, i, outputLength, n)
           IN  /\ write(a) \in Nat /\ write(b) \in Nat
               /\ start <= write(a) /\ write(b) <= start + outputLength
               /\ write(a) + (b - a) <= write(b)
<1> DEFINE q == (a * outputLength) \div n
           r == (b * outputLength) \div n
           L == outputLength
<1>1. a * L \in Nat /\ b * L \in Nat
    OBVIOUS
<1>2. q \in Nat /\ r \in Nat /\ n * q <= a * L /\ n * r <= b * L
    BY <1>1, DivBounds
<1> DEFINE d == b - a
<1>3. d \in Nat /\ b = a + d
    OBVIOUS
<1> HIDE DEF q, d
<1>4. \A x, y, z \in Nat : /\ (x + y) * z = x * z + y * z /\ z * (x + y) = z * x + z * y
                          /\ x * z \in Nat /\ z * x \in Nat
    OBVIOUS
<1>5. (a + d) * L = a * L + d * L /\ n * (q + d) = n * q + n * d /\ d * L \in Nat /\ n * d \in Nat
    BY <1>2, <1>3, <1>4, SMTT(60)
<1>6. n * d <= d * L
    BY <1>3
<1>7. n * (q + d) <= b * L
    BY <1>1, <1>2, <1>3, <1>5, <1>6
<1>8. q + d <= r
    BY <1>1, <1>2, <1>3, <1>7, DivLeast
<1> HIDE DEF r
<1>9. r <= L
    <2>1. SUFFICES ASSUME L + 1 <= r PROVE FALSE
        BY <1>2
    <2>2. b * L <= n * L /\ n * L \in Nat
        BY MulMonotone
    <2>3. n * (L + 1) <= n * r /\ n * (L + 1) = n * L + n
        BY <1>2, <2>1
    <2> QED
        BY <1>1, <1>2, <2>2, <2>3
<1> QED
    BY <1>2, <1>3, <1>8, <1>9 DEF getUniformWriteIndex, q, r, d

\* The prefix sums over the tasks do not decrease.
LEMMA PrefixMonotone ==
    ASSUME TasksOK, NEW j \in 0 .. Len(rebalancingTasks), NEW k \in j .. Len(rebalancingTasks)
    PROVE  prefixBlocks(j) \in Nat /\ prefixBlocks(k) \in Nat /\ prefixBlocks(j) <= prefixBlocks(k)
<1> DEFINE N == Len(rebalancingTasks)
           S == { d \in Nat : j + d <= N => /\ prefixBlocks(j + d) \in Nat
                                            /\ prefixBlocks(j) <= prefixBlocks(j + d) }
<1>1. N \in Nat
    BY DEF TasksOK
<1>2. prefixBlocks(j) \in Nat
    <2>1. CASE j = 0
        BY <2>1 DEF prefixBlocks
    <2>2. CASE j # 0
        BY <1>1, <2>2, TaskTyped, SMTT(60) DEF prefixBlocks
    <2> QED
        BY <2>1, <2>2
<1>3. 0 \in S
    BY <1>2
<1>4. ASSUME NEW d \in Nat, d \in S PROVE d + 1 \in S
    <2> SUFFICES ASSUME j + (d + 1) <= N
                 PROVE  /\ prefixBlocks(j + (d + 1)) \in Nat
                        /\ prefixBlocks(j) <= prefixBlocks(j + (d + 1))
        OBVIOUS
    <2>1. prefixBlocks(j + d) \in Nat /\ prefixBlocks(j) <= prefixBlocks(j + d)
        BY <1>1, <1>4
    <2>2. j + (d + 1) \in 1 .. N /\ (j + (d + 1)) - 1 = j + d
        BY <1>1
    <2>3. /\ prefixBlocks(j + (d + 1)) = prefixBlocks(j + d) + rebalancingTasks[j + (d + 1)].numberOfBlocks
          /\ rebalancingTasks[j + (d + 1)].numberOfBlocks \in Nat
        BY <2>2, TaskTyped
    <2> QED
        BY <1>2, <2>1, <2>3
<1> HIDE DEF S
<1>5. k - j \in Nat /\ k - j \in S
    BY <1>1, <1>3, <1>4, InductionOnSet
<1>6. j + (k - j) = k /\ k <= N
    BY <1>1
<1> QED
    BY <1>2, <1>5, <1>6 DEF S

\* findRebalancingTask finds the first task that ends behind a block.
LEMMA TaskFound ==
    ASSUME TasksOK, rebalancingTasks # <<>>, NEW b \in Nat, b <= numberOfBlocksToRebalance
    PROVE  LET k == findRebalancingTask(b)
           IN  /\ k \in 1 .. Len(rebalancingTasks)
               /\ b <= prefixBlocks(k)
               /\ \A j \in 1 .. k - 1 : prefixBlocks(j) < b
<1> DEFINE N == Len(rebalancingTasks)
           S == { k \in 1 .. N : prefixBlocks(k) >= b }
<1>1. N \in Nat \ {0}
    BY DEF TasksOK
<1>2. S \in SUBSET Nat /\ N \in S
    BY <1>1 DEF numberOfBlocksToRebalance
<1>3. PICK k \in S : \A j \in S : k <= j
    BY <1>2, LeastNumber
<1>4. \A j \in 1 .. k - 1 : prefixBlocks(j) < b
    <2> SUFFICES ASSUME NEW j \in 1 .. k - 1, ~(prefixBlocks(j) < b) PROVE FALSE
        OBVIOUS
    <2>1. j \in 0 .. N /\ j \in 1 .. N /\ j < k /\ N \in j .. N
        BY <1>1, <1>3
    <2>2. prefixBlocks(j) \in Nat
        BY <2>1, PrefixMonotone
    <2> QED
        BY <1>3, <2>1, <2>2
<1>5. k \in 1 .. Len(rebalancingTasks) /\ prefixBlocks(k) >= b
    BY <1>3
<1> HIDE DEF S, N
<1>6. LET c == findRebalancingTask(b)
      IN  /\ c \in 1 .. Len(rebalancingTasks) /\ prefixBlocks(c) >= b
          /\ \A j \in 1 .. c - 1 : prefixBlocks(j) < b
    BY <1>4, <1>5 DEF findRebalancingTask
<1>7. LET c == findRebalancingTask(b)
      IN  /\ c \in 0 .. Len(rebalancingTasks)
          /\ Len(rebalancingTasks) \in c .. Len(rebalancingTasks)
    BY <1>1, <1>6 DEF N
<1>8. prefixBlocks(findRebalancingTask(b)) \in Nat
    BY <1>7, PrefixMonotone
<1> QED
    BY <1>6, <1>8

\* The blocks of a thread.
LEMMA BlockRangeIs ==
    ASSUME TasksOK, NEW t \in Threads
    PROVE  LET r == rebalancingBlockRange(t)
           IN  /\ r.left \in Nat /\ r.right \in Nat
               /\ r = Interval(r.left, r.right)
               /\ r.right <= numberOfBlocksToRebalance
               /\ numberOfBlocksToRebalance \in Nat
               /\ length(r) \in Int
<1>1. numberOfBlocksToRebalance \in Nat
    BY PrefixMonotone DEF numberOfBlocksToRebalance, TasksOK
<1> DEFINE total == numberOfBlocksToRebalance
           perThread == total \div NumThreads + 1
<1> HIDE DEF total
<1>2. total \in Nat
    BY <1>1 DEF total
<1>3. perThread \in Nat
    BY <1>2, DivBounds, ThreadsAssumption, SMTT(60)
<1>4. t \in Nat
    BY ThreadsAssumption DEF Threads
<1>5. t * perThread \in Nat /\ (t + 1) * perThread \in Nat
    BY <1>3, <1>4
<1>6. rebalancingBlockRange(t) = Interval(t * perThread, Smaller(total, (t + 1) * perThread))
    BY DEF rebalancingBlockRange, ThreadBlockRange, total
<1> HIDE DEF perThread
<1> QED
    BY <1>2, <1>5, <1>6 DEF Interval, Smaller, length, total

\* The tasks of a thread: those its blocks lie in.
LEMMA TaskRangeIs ==
    ASSUME TasksOK, rebalancingTasks # <<>>, NEW t \in Threads
    PROVE  LET r == rebalancingBlockRange(t)
               range == rebalancingTaskRange(t)
           IN  /\ range.left \in Nat \ {0} /\ range.right \in Nat
               /\ range.left <= range.right /\ range.right - 1 <= Len(rebalancingTasks)
               /\ range = Interval(range.left, range.right)
               /\ \A k \in range.left + 1 .. range.right - 2 :
                     r.left <= prefixBlocks(k - 1) /\ prefixBlocks(k) <= r.right
<1> DEFINE r == rebalancingBlockRange(t)
           range == rebalancingTaskRange(t)
           a == findRebalancingTask(r.left)
           b == findRebalancingTask(r.right)
<1>1. Len(rebalancingTasks) \in Nat
    BY DEF TasksOK
<1>2. /\ r.left \in Nat /\ r.right \in Nat /\ r.right <= numberOfBlocksToRebalance
      /\ numberOfBlocksToRebalance \in Nat
    BY BlockRangeIs
<1>3. CASE length(r) <= 0
    <2>1. range = Interval(1, 1)
        BY <1>3 DEF rebalancingTaskRange
    <2>2. range.left = 1 /\ range.right = 1
        BY <2>1 DEF Interval
    <2> QED
        BY <1>1, <2>1, <2>2
<1>4. CASE ~(length(r) <= 0)
    <2> HIDE DEF r
    <2>1. r.left < r.right
        BY <1>2, <1>4 DEF length
    <2>2. range = Interval(a, b + 1)
        BY <1>4 DEF rebalancingTaskRange, r
    <2>3. a \in 1 .. Len(rebalancingTasks) /\ r.left <= prefixBlocks(a)
          /\ \A j \in 1 .. a - 1 : prefixBlocks(j) < r.left
        BY <1>2, <2>1, TaskFound
    <2>4. b \in 1 .. Len(rebalancingTasks) /\ r.right <= prefixBlocks(b)
          /\ \A j \in 1 .. b - 1 : prefixBlocks(j) < r.right
        BY <1>2, TaskFound
    <2> HIDE DEF a, b
    <2>5. a <= b
        <3> SUFFICES ASSUME b < a PROVE FALSE
            BY <1>1, <2>3, <2>4
        <3>1. prefixBlocks(b) < r.left
            BY <1>1, <2>3, <2>4
        <3>2. prefixBlocks(b) \in Nat
            BY <1>1, <2>4, PrefixMonotone
        <3> QED
            BY <1>2, <2>1, <2>4, <3>1, <3>2
    <2>6. range.left = a /\ range.right = b + 1
        BY <2>2 DEF Interval
    <2>7. ASSUME NEW k \in a + 1 .. b - 1
          PROVE  r.left <= prefixBlocks(k - 1) /\ prefixBlocks(k) <= r.right
        <3>1. a \in 0 .. Len(rebalancingTasks) /\ k - 1 \in a .. Len(rebalancingTasks)
            BY <1>1, <2>3, <2>4
        <3>2. /\ prefixBlocks(a) \in Nat /\ prefixBlocks(k - 1) \in Nat
              /\ prefixBlocks(a) <= prefixBlocks(k - 1)
            BY <3>1, PrefixMonotone
        <3>3. /\ k \in 1 .. b - 1 /\ k \in 0 .. Len(rebalancingTasks)
              /\ Len(rebalancingTasks) \in k .. Len(rebalancingTasks)
            BY <1>1, <2>3, <2>4
        <3>4. prefixBlocks(k) < r.right /\ prefixBlocks(k) \in Nat
            BY <2>4, <3>3, PrefixMonotone
        <3> QED
            BY <1>2, <2>3, <3>2, <3>4
    <2>8. /\ (b + 1) - 2 = b - 1 /\ (b + 1) - 1 = b /\ b + 1 \in Nat
          /\ a \in Nat \ {0} /\ a <= b + 1 /\ b <= Len(rebalancingTasks)
        BY <1>1, <2>3, <2>4, <2>5
    <2> HIDE DEF range
    <2> QED
        BY <2>2, <2>6, <2>7, <2>8 DEF range, r
<1> QED
    BY <1>3, <1>4

\* A piece of B-9 is the part a .. b - 1 of the blocks of task k, and belongs to thread t.
IsShare(t, k, piece, a, b) ==
    LET task == rebalancingTasks[k]
        write(n) == getUniformWriteIndex(task.pmaRange.left, n, length(task.pmaRange),
                                         task.numberOfBlocks)
    IN  /\ a < b /\ b <= task.numberOfBlocks
        /\ rebalancingBlockRange(t).left <= prefixBlocks(k - 1) + a
        /\ prefixBlocks(k - 1) + b <= rebalancingBlockRange(t).right
        /\ piece.from = task.pmaRange.left + a
        /\ piece.range = Interval(write(a), write(b))
        /\ piece.blocks = b - a

\* Where a share of a task is written.
LEMMA ShareSpread ==
    ASSUME TasksOK, NEW k \in 1 .. Len(rebalancingTasks), NEW a \in Nat, NEW b \in Nat,
           a < b, b <= rebalancingTasks[k].numberOfBlocks
    PROVE  LET task == rebalancingTasks[k]
               write(n) == getUniformWriteIndex(task.pmaRange.left, n, length(task.pmaRange),
                                                task.numberOfBlocks)
           IN  /\ write(a) \in Nat /\ write(b) \in Nat
               /\ task.pmaRange.left <= write(a) /\ write(b) <= task.pmaRange.right
               /\ write(a) + (b - a) <= write(b)
               /\ task.numberOfBlocks <= length(task.pmaRange)
<1> DEFINE left == rebalancingTasks[k].pmaRange.left
           right == rebalancingTasks[k].pmaRange.right
           L == length(rebalancingTasks[k].pmaRange)
           N == rebalancingTasks[k].numberOfBlocks
<1>1. left \in Nat /\ right \in Nat /\ left <= right /\ N \in Nat
    BY TaskTyped
<1>2. L = right - left /\ N <= L
    BY DEF length, TasksOK, TasksApart
<1> HIDE DEF left, right, N, L
<1>3. L \in Nat /\ N \in Nat \ {0} /\ left + L = right /\ a <= b
    BY <1>1, <1>2 DEF N
<1>4. b <= N
    BY DEF N
<1>5. LET write(n) == getUniformWriteIndex(left, n, L, N)
      IN  /\ write(a) \in Nat /\ write(b) \in Nat
          /\ left <= write(a) /\ write(b) <= left + L
          /\ write(a) + (b - a) <= write(b)
    BY <1>1, <1>2, <1>3, <1>4, WriteIndexSpread
<1>6. LET write(n) == getUniformWriteIndex(left, n, L, N)
      IN  /\ write(a) \in Nat /\ write(b) \in Nat
          /\ left <= write(a) /\ write(b) <= right
          /\ write(a) + (b - a) <= write(b)
          /\ N <= L
    BY <1>2, <1>3, <1>5
<1> QED
    BY <1>6 DEF left, right, L, N

\* The blocks of a task that a thread handles in part.
LEMMA LocalRangeIs ==
    ASSUME TasksOK, NEW t \in Threads, NEW k \in 1 .. Len(rebalancingTasks)
    PROVE  LET r == localBlockRange(k, rebalancingBlockRange(t))
           IN  /\ r.left \in Nat /\ r.right \in Nat /\ length(r) = r.right - r.left
               /\ r.left <= r.right
               /\ length(r) # 0 =>
                     /\ r.left < r.right
                     /\ r.right <= rebalancingTasks[k].numberOfBlocks
                     /\ rebalancingBlockRange(t).left <= prefixBlocks(k - 1) + r.left
                     /\ prefixBlocks(k - 1) + r.right <= rebalancingBlockRange(t).right
<1> DEFINE R == rebalancingBlockRange(t)
           first == prefixBlocks(k - 1)
           last == prefixBlocks(k)
           part == cut(Interval(first, last), R)
           r == localBlockRange(k, R)
<1>1. R.left \in Nat /\ R.right \in Nat
    BY BlockRangeIs
<1>2. /\ first \in Nat /\ rebalancingTasks[k].numberOfBlocks \in Nat
      /\ last = first + rebalancingTasks[k].numberOfBlocks
    BY TaskTyped
<1> HIDE DEF R, first, last
<1>3. last \in Nat
    BY <1>2
<1>4. \/ part = NullInterval
      \/ /\ part.left \in Nat /\ part.right \in Nat /\ part.left < part.right
         /\ first <= part.left /\ part.right <= last /\ R.left <= part.left /\ part.right <= R.right
    <2>1. PICK a \in Nat, b \in Nat : a = R.left /\ b = R.right
        BY <1>1
    <2> DEFINE x == Larger(first, a)
               y == Smaller(last, b)
    <2>2. part = IF y <= x THEN NullInterval ELSE Interval(x, y)
        BY <2>1, IntervalEnds DEF cut
    <2>3. /\ x \in Nat /\ first <= x /\ a <= x
          /\ y \in Nat /\ y <= last /\ y <= b
          /\ ~(y <= x) => x < y
        BY <1>2, <1>3 DEF Larger, Smaller
    <2> HIDE DEF x, y, part
    <2> QED
        BY <2>1, <2>2, <2>3, IntervalEnds
<1>5. r = IF length(part) = 0 THEN NullInterval
          ELSE Interval(part.left - first, part.right - first)
    BY DEF localBlockRange, R, first, last
<1> HIDE DEF part, r
<1>6. CASE length(part) = 0
    <2>1. r.left = 0 /\ r.right = 0
        BY <1>5, <1>6, IntervalEnds DEF NullInterval
    <2>2. /\ r.left \in Nat /\ r.right \in Nat /\ length(r) = r.right - r.left
          /\ r.left <= r.right /\ length(r) = 0
        BY <2>1 DEF length
    <2> QED
        BY <2>2 DEF r, R
<1>7. CASE length(part) # 0
    <2>1. /\ part.left \in Nat /\ part.right \in Nat /\ part.left < part.right
          /\ first <= part.left /\ part.right <= last /\ R.left <= part.left /\ part.right <= R.right
        BY <1>4, <1>7 DEF NullInterval, Interval, length
    <2>2. r.left = part.left - first /\ r.right = part.right - first
        BY <1>5, <1>7 DEF Interval
    <2>3. length(r) = r.right - r.left
        BY DEF length
    <2>4. /\ r.left \in Nat /\ r.right \in Nat /\ r.left < r.right
          /\ r.right <= rebalancingTasks[k].numberOfBlocks
          /\ R.left <= first + r.left /\ first + r.right <= R.right
        <3>1. PICK pl \in Nat, pr \in Nat, f \in Nat, n \in Nat, Rl \in Nat, Rr \in Nat :
                 /\ pl = part.left /\ pr = part.right /\ f = first
                 /\ n = rebalancingTasks[k].numberOfBlocks
                 /\ Rl = R.left /\ Rr = R.right
            BY <1>1, <1>2, <2>1
        <3>2. pl < pr /\ f <= pl /\ pr <= f + n /\ Rl <= pl /\ pr <= Rr
            BY <1>2, <2>1, <3>1
        <3>3. /\ pl - f \in Nat /\ pr - f \in Nat /\ pl - f < pr - f /\ pr - f <= n
              /\ Rl <= f + (pl - f) /\ f + (pr - f) <= Rr
            BY <3>2
        <3> QED
            BY <2>2, <3>1, <3>3
    <2> QED
        BY <2>3, <2>4 DEF r, R, first
<1> QED
    BY <1>6, <1>7

\* Every piece of B-9 is a share of its task, or empty.
LEMMA PieceIsShare ==
    ASSUME TasksOK, rebalancingTasks # <<>>, NEW t \in Threads,
           NEW k \in rebalancingTaskRange(t).left .. rebalancingTaskRange(t).right - 1
    PROVE  LET piece == rewritingPiece(t, k)
           IN  /\ k \in 1 .. Len(rebalancingTasks)
               /\ piece \in Rewrites
               /\ piece.blocks > 0 => \E a, b \in Nat : IsShare(t, k, piece, a, b)
<1> DEFINE task == rebalancingTasks[k]
           range == rebalancingTaskRange(t)
           piece == rewritingPiece(t, k)
           write(n) == getUniformWriteIndex(task.pmaRange.left, n, length(task.pmaRange),
                                            task.numberOfBlocks)
           r == localBlockRange(k, rebalancingBlockRange(t))
<1>1. /\ range.left \in Nat \ {0} /\ range.right \in Nat
      /\ range.right - 1 <= Len(rebalancingTasks)
      /\ \A i \in range.left + 1 .. range.right - 2 :
            /\ rebalancingBlockRange(t).left <= prefixBlocks(i - 1)
            /\ prefixBlocks(i) <= rebalancingBlockRange(t).right
    BY TaskRangeIs
<1>2. k \in 1 .. Len(rebalancingTasks)
    BY <1>1 DEF TasksOK
<1>3. /\ task.pmaRange.left \in Nat /\ task.pmaRange.right \in Nat
      /\ task.pmaRange.left <= task.pmaRange.right
      /\ task.pmaRange = Interval(task.pmaRange.left, task.pmaRange.right)
      /\ task.numberOfBlocks \in Nat
      /\ prefixBlocks(k - 1) \in Nat
      /\ prefixBlocks(k) = prefixBlocks(k - 1) + task.numberOfBlocks
    BY <1>2, TaskTyped
<1>4. \A a, b \in Nat : a <= b => Interval(a, b) \in Intervals
    BY DEF Interval, Intervals
<1>5. CASE k \in partialTasks(range)
    <2>1. piece = IF length(r) = 0 THEN Rewrite(0, NullInterval, 0)
                  ELSE Rewrite(task.pmaRange.left + r.left,
                               Interval(write(r.left), write(r.right)), length(r))
        BY <1>5 DEF rewritingPiece, partialRewriting
    <2>2. CASE length(r) = 0
        <3>1. piece = Rewrite(0, Interval(0, 0), 0)
            BY <2>1, <2>2 DEF NullInterval
        <3>2. piece \in Rewrites /\ piece.blocks = 0
            BY <1>4, <3>1 DEF Rewrite, Rewrites
        <3> QED
            BY <1>2, <3>2
    <2>3. CASE length(r) # 0
        <3>1. /\ r.left \in Nat /\ r.right \in Nat /\ length(r) = r.right - r.left
              /\ r.left < r.right
              /\ r.right <= task.numberOfBlocks
              /\ rebalancingBlockRange(t).left <= prefixBlocks(k - 1) + r.left
              /\ prefixBlocks(k - 1) + r.right <= rebalancingBlockRange(t).right
            BY <1>2, <2>3, LocalRangeIs
        <3>2. piece = Rewrite(task.pmaRange.left + r.left,
                              Interval(write(r.left), write(r.right)), r.right - r.left)
            BY <2>1, <2>3, <3>1
        <3>3. /\ write(r.left) \in Nat /\ write(r.right) \in Nat
              /\ write(r.left) + (r.right - r.left) <= write(r.right)
            BY <1>2, <3>1, ShareSpread
        <3> HIDE DEF r, piece, write
        <3>4. piece \in Rewrites
            <4>1. Interval(write(r.left), write(r.right)) \in Intervals
                BY <1>4, <3>1, <3>3
            <4>2. task.pmaRange.left + r.left \in Nat /\ r.right - r.left \in Nat
                <5>1. task.pmaRange.left \in Nat /\ r.left \in Nat /\ r.right \in Nat
                    BY <1>3, <3>1
                <5>2. r.left < r.right
                    BY <1>3, <3>1
                <5>3. \A x, y \in Nat : x + y \in Nat /\ (x < y => y - x \in Nat)
                    OBVIOUS
                <5> QED
                    BY <5>1, <5>3, <5>2
            <4> HIDE DEF task
            <4> QED
                BY <3>2, <4>1, <4>2 DEF Rewrite, Rewrites
        <3>5. IsShare(t, k, piece, r.left, r.right)
            BY <3>1, <3>2 DEF IsShare, Rewrite, write
        <3> QED
            BY <1>2, <3>1, <3>4, <3>5 DEF piece
    <2> QED
        BY <2>2, <2>3
<1>6. CASE k \notin partialTasks(range)
    <2>1. k \in range.left + 1 .. range.right - 2
        BY <1>1, <1>6 DEF partialTasks
    <2>2. /\ rebalancingBlockRange(t).left <= prefixBlocks(k - 1)
          /\ prefixBlocks(k) <= rebalancingBlockRange(t).right
        BY <1>1, <2>1
    <2>3. piece = Rewrite(task.pmaRange.left, task.pmaRange, task.numberOfBlocks)
        BY <1>6 DEF rewritingPiece, fullRewriting
    <2>4. piece \in Rewrites /\ piece.blocks = task.numberOfBlocks
        <3>1. task.pmaRange \in Intervals
            BY <1>3, <1>4
        <3> QED
            BY <1>3, <2>3, <3>1 DEF Rewrite, Rewrites
    <2>5. ASSUME piece.blocks > 0
          PROVE  IsShare(t, k, piece, 0, task.numberOfBlocks)
        <3> DEFINE left == task.pmaRange.left
                   right == task.pmaRange.right
                   L == right - left
                   N == task.numberOfBlocks
        <3>1. left \in Nat /\ right \in Nat /\ left <= right /\ N \in Nat \ {0}
              /\ task.pmaRange = Interval(left, right) /\ length(task.pmaRange) = L
            BY <1>3, <2>4, <2>5 DEF length
        <3>2. write(0) = left + (0 * L) \div N /\ write(N) = left + (N * L) \div N
            BY <3>1 DEF getUniformWriteIndex
        <3> HIDE DEF left, right, N
        <3>3. L \in Nat /\ left + L = right
            BY <3>1
        <3> HIDE DEF L
        <3>4. 0 * L = 0 /\ 0 \div N = 0
            BY <3>1, <3>3
        <3>5. (N * L) \div N = L
            <4>1. N * L \in Nat
                BY <3>1, <3>3
            <4> DEFINE q == (N * L) \div N
            <4>2. q \in Nat /\ N * q <= N * L /\ L <= q
                BY <3>1, <3>3, <4>1, DivBounds, DivLeast, SMTT(60)
            <4> HIDE DEF q
            <4>3. L + 1 <= q => N * (L + 1) <= N * q
                BY <3>1, <3>3, <4>2
            <4>4. N * (L + 1) = N * L + N
                BY <3>1, <3>3
            <4>5. q = L
                BY <3>1, <3>3, <4>1, <4>2, <4>3, <4>4
            <4> QED
                BY <4>5 DEF q
        <3>6. task.pmaRange = Interval(write(0), write(N))
            BY <3>1, <3>2, <3>3, <3>4, <3>5, SMTT(60)
        <3>7. /\ rebalancingBlockRange(t).left <= prefixBlocks(k - 1) + 0
              /\ prefixBlocks(k - 1) + N <= rebalancingBlockRange(t).right
              /\ 0 < N /\ N - 0 = N /\ left + 0 = left
            BY <1>3, <2>2, <3>1 DEF N
        <3>8. /\ piece.from = left + 0
              /\ piece.range = Interval(write(0), write(N))
              /\ piece.blocks = N - 0
            BY <2>3, <3>6, <3>7 DEF Rewrite, left, N
        <3>9. 0 < task.numberOfBlocks /\ task.numberOfBlocks <= task.numberOfBlocks
            BY <1>3, <3>7, SMTT(60) DEF N
        <3> QED
            BY <3>7, <3>8, <3>9 DEF IsShare, left, N
    <2> QED
        BY <1>2, <1>3, <2>4, <2>5
<1> QED
    BY <1>5, <1>6

\* The shares of the threads depend on the tasks only.
LEMMA SameShares ==
    ASSUME UNCHANGED taskVars, NEW t \in Threads
    PROVE  /\ rebalancingBlockRange(t)' = rebalancingBlockRange(t)
           /\ rebalancingTaskRange(t)' = rebalancingTaskRange(t)
           /\ \A k : rewritingPiece(t, k)' = rewritingPiece(t, k)
<1>1. /\ rebalancingTasks' = rebalancingTasks
      /\ prefixNumberOfRebalancingBlocks' = prefixNumberOfRebalancingBlocks
    BY DEF taskVars
<1>2. \A k : prefixBlocks(k)' = prefixBlocks(k)
    BY <1>1 DEF prefixBlocks
<1>3. numberOfBlocksToRebalance' = numberOfBlocksToRebalance
    BY <1>1, <1>2 DEF numberOfBlocksToRebalance
<1>4. rebalancingBlockRange(t)' = rebalancingBlockRange(t)
    BY <1>3 DEF rebalancingBlockRange, ThreadBlockRange
<1>5. \A b : findRebalancingTask(b)' = findRebalancingTask(b)
    BY <1>1, <1>2 DEF findRebalancingTask
<1>6. rebalancingTaskRange(t)' = rebalancingTaskRange(t)
    BY <1>4, <1>5 DEF rebalancingTaskRange
<1>7. ASSUME NEW k PROVE rewritingPiece(t, k)' = rewritingPiece(t, k)
    <2>1. \A r : localBlockRange(k, r)' = localBlockRange(k, r)
        BY <1>2 DEF localBlockRange
    <2>2. \A r : partialRewriting(k, r)' = partialRewriting(k, r)
        BY <1>1, <2>1 DEF partialRewriting
    <2>3. fullRewriting(k)' = fullRewriting(k)
        BY <1>1 DEF fullRewriting
    <2> QED
        BY <1>4, <1>6, <2>2, <2>3 DEF rewritingPiece
<1> QED
    BY <1>4, <1>6, <1>7

\* The same for what is left of the pieces of a thread.
LEMMA SameRest ==
    ASSUME UNCHANGED taskVars, NEW t \in Threads
    PROVE  IsRest(t, work[t])' <=> IsRest(t, work'[t])
<1>1. /\ rebalancingTaskRange(t)' = rebalancingTaskRange(t)
      /\ \A k : rewritingPiece(t, k)' = rewritingPiece(t, k)
    BY SameShares
<1> QED
    BY <1>1 DEF IsRest

\* The task of a piece is one of the tasks of its thread.
LEMMA TaskOfPiece ==
    ASSUME TasksOK, rebalancingTasks # <<>>, WorkOK, phase = "rewrite",
           NEW t \in Threads, NEW n \in 1 .. Len(work[t])
    PROVE  /\ taskOf(t, n) \in rebalancingTaskRange(t).left .. rebalancingTaskRange(t).right - 1
           /\ taskOf(t, n) \in 1 .. Len(rebalancingTasks)
           /\ work[t][n] \in Rewrites
           /\ work[t][n].blocks > 0 =>
                 \E a, b \in Nat : IsShare(t, taskOf(t, n), work[t][n], a, b)
<1> DEFINE range == rebalancingTaskRange(t)
           k == taskOf(t, n)
           piece == rewritingPiece(t, k)
<1>1. range.left \in Nat /\ range.right \in Nat
    BY TaskRangeIs
<1>2. /\ work[t] \in Seq(Rewrites) /\ Len(work[t]) <= length(range)
      /\ work[t][n].from = piece.from /\ work[t][n].range = piece.range
      /\ work[t][n].blocks = piece.blocks
    BY DEF WorkOK, IsRest, taskOf
<1>3. Len(work[t]) \in Nat /\ Len(work[t]) <= range.right - range.left
    BY <1>2 DEF length
<1>4. k = range.right - Len(work[t]) + n - 1
    BY DEF taskOf
<1> HIDE DEF range
<1>5. k \in range.left .. range.right - 1
    <2>1. PICK l \in Nat, r \in Nat, m \in Nat : l = range.left /\ r = range.right /\ m = Len(work[t])
        BY <1>1, <1>3
    <2>2. m <= r - l /\ n \in 1 .. m
        BY <1>3, <2>1
    <2>3. r - m + n - 1 \in l .. r - 1
        BY <2>2
    <2> QED
        BY <1>4, <2>1, <2>3
<1> HIDE DEF k
<1>6. /\ k \in 1 .. Len(rebalancingTasks)
      /\ piece.blocks > 0 => \E a, b \in Nat : IsShare(t, k, piece, a, b)
    BY <1>5, PieceIsShare DEF range
<1>7. ASSUME work[t][n].blocks > 0
      PROVE  \E a, b \in Nat : IsShare(t, k, work[t][n], a, b)
    <2>1. PICK a, b \in Nat : IsShare(t, k, piece, a, b)
        BY <1>2, <1>6, <1>7
    <2>2. IsShare(t, k, work[t][n], a, b)
        BY <1>2, <2>1 DEF IsShare
    <2> QED
        BY <2>2
<1>8. work[t][n] \in Rewrites
    BY <1>2
<1> QED
    BY <1>5, <1>6, <1>7, <1>8 DEF k, range

\* A piece with blocks: where it lies in its task, read and written.
LEMMA PieceInTask ==
    ASSUME TasksOK, NEW t \in Threads, NEW k \in 1 .. Len(rebalancingTasks),
           NEW p \in Rewrites, NEW a \in Nat, NEW b \in Nat, IsShare(t, k, p, a, b)
    PROVE  LET task == rebalancingTasks[k]
           IN  /\ p.from \in Nat /\ p.blocks \in Nat
               /\ p.range.left \in Nat /\ p.range.right \in Nat
               /\ p.range = Interval(p.range.left, p.range.right)
               /\ task.pmaRange.left <= p.range.left /\ p.range.right <= task.pmaRange.right
               /\ p.range.left + p.blocks <= p.range.right
               /\ task.pmaRange.left <= p.from /\ p.from + p.blocks <= task.pmaRange.right
<1> DEFINE left == rebalancingTasks[k].pmaRange.left
           right == rebalancingTasks[k].pmaRange.right
           N == rebalancingTasks[k].numberOfBlocks
           L == length(rebalancingTasks[k].pmaRange)
           wa == getUniformWriteIndex(left, a, L, N)
           wb == getUniformWriteIndex(left, b, L, N)
<1>1. /\ a < b /\ b <= N /\ p.from = left + a /\ p.blocks = b - a
      /\ p.range = Interval(wa, wb)
    BY DEF IsShare
<1>2. left \in Nat /\ right \in Nat /\ N \in Nat
    BY TaskTyped
<1>3. /\ wa \in Nat /\ wb \in Nat /\ left <= wa /\ wb <= right
      /\ wa + (b - a) <= wb /\ N <= L
    BY <1>1, ShareSpread
<1>4. L = right - left
    BY DEF length
<1> HIDE DEF left, right, N, L, wa, wb
<1>5. p.range.left = wa /\ p.range.right = wb
    BY <1>1 DEF Interval
<1>6. /\ left + a \in Nat /\ b - a \in Nat /\ left <= left + a /\ (left + a) + (b - a) <= right
    BY <1>1, <1>2, <1>3, <1>4
<1>7. /\ p.from \in Nat /\ p.blocks \in Nat /\ left <= p.from /\ p.from + p.blocks <= right
      /\ wa + p.blocks <= wb
    BY <1>1, <1>3, <1>6
<1> QED
    BY <1>1, <1>3, <1>5, <1>7 DEF left, right

\* B-9 writes in the range of its task, and so asks for nodes of the tree to be
\* recounted.
LEMMA WrittenInTree ==
    ASSUME TasksOK, TreeOK, EndsOK, WorkOK, phase = "rewrite", NEW t \in Threads, work[t] # <<>>,
           Head(work[t]).number < Head(work[t]).blocks
    PROVE  LET piece == Head(work[t])
               writeIndex == getUniformWriteIndex(piece.range.left, piece.number,
                                                  length(piece.range), piece.blocks)
           IN  lowestLevelNodeIndex(writeIndex) \in 0 .. Pow2[logCapacity] - 1
<1> DEFINE p == work[t][1]
           k == taskOf(t, 1)
           i == getUniformWriteIndex(p.range.left, p.number, length(p.range), p.blocks)
<1>1. Head(work[t]) = p /\ 1 \in 1 .. Len(work[t])
    <2>1. work[t] \in Seq(Rewrites)
        BY DEF WorkOK, IsRest
    <2> QED
        BY <2>1
<1>2. rebalancingTasks # <<>>
    BY DEF TasksOK
<1>3. /\ k \in 1 .. Len(rebalancingTasks) /\ p \in Rewrites
      /\ p.blocks > 0 => \E a, b \in Nat : IsShare(t, k, p, a, b)
    BY <1>1, <1>2, TaskOfPiece
<1>4. p.number \in Nat /\ p.blocks \in Nat /\ p.number < p.blocks
    BY <1>1, <1>3 DEF Rewrites
<1>5. PICK a, b \in Nat : IsShare(t, k, p, a, b)
    BY <1>3, <1>4
<1> HIDE DEF p, k
<1>6. /\ p.range.left \in Nat /\ p.range.right \in Nat
      /\ p.range.right <= rebalancingTasks[k].pmaRange.right
      /\ p.range.left + p.blocks <= p.range.right
    BY <1>3, <1>5, PieceInTask
<1>7. /\ rebalancingTasks[k].pmaRange.right <= SegmentWidth * Pow2[logCapacity]
      /\ rebalancingTasks[k].pmaRange.right \in Nat
    BY <1>3, TaskTyped DEF EndsOK
<1> DEFINE l == p.range.left
           n == p.blocks
           L == p.range.right - p.range.left
<1>8. l \in Nat /\ L \in Nat /\ n \in Nat \ {0} /\ L >= n /\ p.number \in 0 .. n - 1
      /\ l + L <= rebalancingTasks[k].pmaRange.right
    <2>1. PICK x \in Nat, y \in Nat, z \in Nat, u \in Nat, v \in Nat :
             /\ x = p.range.left /\ y = p.range.right /\ z = p.blocks /\ u = p.number
             /\ v = rebalancingTasks[k].pmaRange.right
        BY <1>4, <1>6, <1>7
    <2>2. x + z <= y /\ y <= v /\ u < z
        BY <1>4, <1>6, <2>1
    <2>3. y - x \in Nat /\ z \in Nat \ {0} /\ y - x >= z /\ u \in 0 .. z - 1 /\ x + (y - x) <= v
        BY <2>2
    <2> QED
        BY <2>1, <2>3
<1>9. i = getUniformWriteIndex(l, p.number, L, n)
    BY DEF length
<1> HIDE DEF l, n, L, i
<1>10. contains(Interval(l, l + L), i)
    BY <1>8, <1>9, WriteIndexInRange
<1>11. l <= i /\ i < l + L
    BY <1>10 DEF contains, Interval
<1>12. i \in Nat
    <2>1. p.number * L \in Nat
        BY <1>8
    <2>2. (p.number * L) \div n \in Nat
        BY <1>8, <2>1, DivBounds
    <2> QED
        BY <1>8, <1>9, <2>2 DEF getUniformWriteIndex
<1>13. Pow2[logCapacity] \in Nat /\ SegmentWidth \in Nat \ {0}
    BY Pow2Defined, GeometryAssumption DEF TreeOK
<1>14. i < SegmentWidth * Pow2[logCapacity]
    <2>1. SegmentWidth * Pow2[logCapacity] \in Nat
        BY <1>13
    <2> QED
        BY <1>7, <1>8, <1>11, <1>12, <2>1, SMTT(60)
<1> DEFINE q == i \div SegmentWidth
           w == Pow2[logCapacity]
<1>15. q \in Nat /\ SegmentWidth * q <= i
    BY <1>12, <1>13, DivBounds
<1> HIDE DEF q, w
<1>16. q < w
    <2> SUFFICES ASSUME w <= q PROVE FALSE
        BY <1>13, <1>15 DEF w
    <2>1. SegmentWidth * w <= SegmentWidth * q
        BY <1>13, <1>15 DEF w
    <2>2. SegmentWidth * w \in Nat /\ SegmentWidth * q \in Nat
        BY <1>13, <1>15 DEF w
    <2> QED
        BY <1>12, <1>14, <1>15, <2>1, <2>2, SMTT(60) DEF w
<1>17. lowestLevelNodeIndex(i) \in 0 .. Pow2[logCapacity] - 1
    BY <1>13, <1>15, <1>16 DEF lowestLevelNodeIndex, q, w
<1> QED
    BY <1>1, <1>17 DEF i
-----------------------------------------------------------------------------
(* The recounting maps, and the counts of the inner nodes.                 *)

\* An insertion into a recounting map adds one entry.
LEMMA MapInsertDomain ==
    ASSUME NEW m, NEW i, NEW flag
    PROVE  DOMAIN mapInsert(m, i, flag) = DOMAIN m \cup {i}
  BY DEF mapInsert

\* The maps outside of update() need only the tree to be no lower than before.
LEMMA MapsKept ==
    ASSUME TreeOK, MapsOK, phase # "update", phase' # "update", TreeOK',
           logCapacity <= logCapacity',
           UNCHANGED <<recountingNodesMap, nextLevelRecountingNodes>>
    PROVE  MapsOK'
<1>1. /\ Pow2[logCapacity] <= Pow2[logCapacity'] /\ Pow2[logCapacity] \in Nat
      /\ Pow2[logCapacity'] \in Nat
    BY Pow2Monotone, Pow2Defined DEF TreeOK
<1> QED
    BY <1>1 DEF MapsOK

\* Every step keeps the entries of both recounting maps on the levels they are for:
\* a parent is on the next level, and B-9 writes inside the tree.
LEMMA MapsStep ==
    ASSUME Inv, [Next]_vars
    PROVE  MapsOK'
<1> USE DEF Inv
<1>1. TreeOK'
    BY TreeStep
<1>2. /\ logCapacity \in Nat \ {0} /\ level \in 0 .. logCapacity
       /\ Pow2[logCapacity] \in Nat \ {0}
       /\ \A l \in 0 .. logCapacity : logCapacity - l \in Nat /\ Pow2[logCapacity - l] \in Nat \ {0}
    <2>1. logCapacity \in Nat \ {0} /\ level \in 0 .. logCapacity
        BY DEF TreeOK
    <2>2. \A l \in 0 .. logCapacity : logCapacity - l \in Nat
        BY <2>1
    <2> QED
        BY <2>1, <2>2, Pow2Defined
<1>3. CASE insertBatch
    <2>1. PICK origins, split :
            /\ origins \subseteq (IF size = 0 THEN {0} ELSE { i \in 0 .. size - 1 : ~empty(i) })
            /\ insertBlocks(origins, split)
        BY <1>3 DEF insertBatch
    <2> DEFINE segments == { lowestLevelNodeIndex(i) : i \in origins }
    <2>2. /\ phase = "idle" /\ phase' = "update" /\ level' = 0 /\ logCapacity' = logCapacity
          /\ DOMAIN recountingNodesMap' = DOMAIN recountingNodesMap \cup segments
          /\ todo' = DOMAIN recountingNodesMap'
          /\ nextLevelRecountingNodes' = nextLevelRecountingNodes
        BY <1>3, <2>1 DEF insertBatch, insertBlocks, StartUpdate
    <2>3. segments \subseteq 0 .. Pow2[logCapacity] - 1
        <3> SUFFICES ASSUME NEW i \in origins
                     PROVE  lowestLevelNodeIndex(i) \in 0 .. Pow2[logCapacity] - 1
            OBVIOUS
        <3>1. i \in Nat /\ i <= size /\ size \in Nat
            BY <2>1, SMTT(60) DEF ArraysOK
        <3>2. /\ i \div SegmentWidth \in Nat /\ size \div SegmentWidth \in Nat
              /\ SegmentWidth * (i \div SegmentWidth) <= i
            BY <3>1, DivBounds, GeometryAssumption
        <3>3. i \div SegmentWidth <= size \div SegmentWidth
            <4> DEFINE q == i \div SegmentWidth
            <4>1. q \in Nat /\ SegmentWidth * q <= i /\ SegmentWidth * q \in Nat
                BY <3>1, <3>2, GeometryAssumption
            <4> HIDE DEF q
            <4>2. SegmentWidth * q <= size
                BY <3>1, <4>1
            <4>3. q <= size \div SegmentWidth
                BY <3>1, <4>1, <4>2, DivLeast, GeometryAssumption
            <4> QED
                BY <4>3 DEF q
        <3>4. managerSize = size \div SegmentWidth + 1 /\ managerSize <= Pow2[logCapacity]
            BY <2>2 DEF TreeOK, sdsSize, lowestLevelNodeIndex
        <3> QED
            BY <1>2, <3>2, <3>3, <3>4, SMTT(60) DEF lowestLevelNodeIndex
    <2>4. DOMAIN recountingNodesMap' \subseteq 0 .. Pow2[logCapacity] - 1
        BY <2>2, <2>3 DEF MapsOK
    <2>5. DOMAIN nextLevelRecountingNodes \subseteq {0}
        BY <2>2 DEF MapsOK
    <2>6. 0 \in 0 .. Pow2[logCapacity - (0 + 1)] - 1
        BY <1>2
    <2>7. logCapacity - 0 = logCapacity /\ 0 # logCapacity
        BY <1>2
    <2> QED
        BY <2>2, <2>4, <2>5, <2>6, <2>7 DEF MapsOK
<1>4. ASSUME NEW i \in todo, updateNode(i) PROVE MapsOK'
    <2>1. /\ phase = "update" /\ phase' = "update" /\ todo' \subseteq todo
          /\ UNCHANGED <<recountingNodesMap, level, logCapacity>>
        BY <1>4 DEF updateNode
    <2>2. DOMAIN nextLevelRecountingNodes' \subseteq DOMAIN nextLevelRecountingNodes \cup {parent(i)}
        BY <1>4, MapInsertDomain DEF updateNode
    <2>3. OnLevel(logCapacity, level, i)
        BY <2>1, TodoOnLevel
    <2>4. level < logCapacity => parent(i) \in 0 .. Pow2[logCapacity - (level + 1)] - 1
        <3> SUFFICES ASSUME level < logCapacity
                     PROVE  parent(i) \in 0 .. Pow2[logCapacity - (level + 1)] - 1
            OBVIOUS
        <3>1. level \in 0 .. logCapacity - 1
            BY <1>2
        <3>2. OnLevel(logCapacity, level + 1, parent(i))
            BY <1>2, <2>3, <3>1, ParentOnLevel
        <3> QED
            BY <3>2 DEF OnLevel
    <2>5. level = logCapacity => parent(i) = 0
        <3> SUFFICES ASSUME level = logCapacity PROVE parent(i) = 0
            OBVIOUS
        <3>1. logCapacity - level = 0 /\ Pow2[0] = 1
            BY <1>2, Pow2Defined, SMTT(60)
        <3>2. i = 0
            BY <2>3, <3>1 DEF OnLevel
        <3> QED
            BY <3>2 DEF parent
    <2> QED
        BY <2>1, <2>2, <2>4, <2>5 DEF MapsOK
<1>5. CASE nextLevel
    <2>1. /\ phase = "update" /\ phase' = "update" /\ level < logCapacity /\ level' = level + 1
          /\ recountingNodesMap' = nextLevelRecountingNodes /\ logCapacity' = logCapacity
          /\ todo' = DOMAIN nextLevelRecountingNodes /\ nextLevelRecountingNodes' = NoNodes
        BY <1>5 DEF nextLevel
    <2>2. DOMAIN NoNodes = {}
        BY DEF NoNodes
    <2>3. DOMAIN nextLevelRecountingNodes \subseteq 0 .. Pow2[logCapacity - (level + 1)] - 1
        BY <2>1 DEF MapsOK
    <2> QED
        BY <2>1, <2>2, <2>3 DEF MapsOK
<1>6. CASE finishUpdate
    <2>1. /\ phase = "update" /\ phase' = "collect" /\ level = logCapacity
          /\ UNCHANGED <<recountingNodesMap, nextLevelRecountingNodes, logCapacity>>
        BY <1>6 DEF finishUpdate
    <2>2. logCapacity - level = 0 /\ Pow2[0] = 1
        BY <1>2, <2>1, Pow2Defined, SMTT(60)
    <2>3. /\ DOMAIN recountingNodesMap \subseteq 0 .. 1 - 1
          /\ DOMAIN nextLevelRecountingNodes \subseteq {0}
        BY <2>1, <2>2 DEF MapsOK
    <2>4. 0 .. 1 - 1 \subseteq 0 .. Pow2[logCapacity] - 1
        BY <1>2
    <2> QED
        BY <2>1, <2>3, <2>4 DEF MapsOK
<1>7. CASE collectTask \/ endCollect
    BY <1>1, <1>2, <1>7, MapsKept DEF collectTask, endCollect, managerVars
<1>8. CASE distributeStep
    BY <1>1, <1>2, <1>8, MapsKept, SMTT(60) DEF distributeStep, distribute, managerVars
<1>9. ASSUME NEW t \in Threads, rebalanceBlocks(t) \/ clearBufferBlockPointers(t) PROVE MapsOK'
    <2>1. /\ phase \in {"rebalance", "clear"} /\ phase' = phase
          /\ UNCHANGED <<recountingNodesMap, nextLevelRecountingNodes, logCapacity>>
        BY <1>9 DEF rebalanceBlocks, clearBufferBlockPointers, managerVars
    <2> QED
        BY <1>1, <1>2, <2>1, MapsKept, SMTT(60)
<1>10. ASSUME NEW t \in Threads, rewriteBlocks(t) PROVE MapsOK'
    <2> DEFINE piece == Head(work[t])
               index == lowestLevelNodeIndex(getUniformWriteIndex(piece.range.left,
                            piece.number, length(piece.range), piece.blocks))
    <2>1. /\ phase = "rewrite" /\ phase' = phase /\ work[t] # <<>>
          /\ UNCHANGED <<nextLevelRecountingNodes, logCapacity>>
        BY <1>10 DEF rewriteBlocks, managerVars
    <2>2. CASE piece.number < piece.blocks
        <3>1. recountingNodesMap' = mapInsert(recountingNodesMap, index, FALSE)
            BY <1>10, <2>2 DEF rewriteBlocks, addRecountingNode
        <3>2. index \in 0 .. Pow2[logCapacity] - 1
            BY <2>1, <2>2, WrittenInTree
        <3> HIDE DEF index
        <3>3. DOMAIN recountingNodesMap' = DOMAIN recountingNodesMap \cup {index}
            BY <3>1, MapInsertDomain
        <3>4. /\ DOMAIN recountingNodesMap \subseteq 0 .. Pow2[logCapacity] - 1
              /\ DOMAIN nextLevelRecountingNodes \subseteq {0}
            BY <2>1 DEF MapsOK
        <3> QED
            BY <2>1, <3>2, <3>3, <3>4 DEF MapsOK
    <2>3. CASE ~(piece.number < piece.blocks)
        BY <1>10, <2>1, <2>3 DEF rewriteBlocks, MapsOK
    <2> QED
        BY <2>2, <2>3
<1>11. CASE endRebalance
    <2>1. logCapacity <= logCapacity'
        <3> DEFINE n == lowestLevelNodeIndex(newPmaSize) + 1
                   newLog == CHOOSE l \in logCapacity .. logCapacity + n :
                     /\ Pow2[l] > n
                     /\ \A k \in logCapacity .. l - 1 : Pow2[k] <= n
        <3>1. n \in Nat
            BY DivBounds, GeometryAssumption, SMTT(60) DEF lowestLevelNodeIndex, ArraysOK
        <3>2. newLog \in logCapacity .. logCapacity + n
            BY <1>2, <3>1, HeightFound
        <3>3. logCapacity' \in {logCapacity, newLog}
            BY <1>11 DEF endRebalance, resize
        <3> HIDE DEF n, newLog
        <3> QED
            BY <1>2, <3>1, <3>2, <3>3, SMTT(60)
    <2>2. /\ phase # "update" /\ phase' # "update"
          /\ UNCHANGED <<recountingNodesMap, nextLevelRecountingNodes>>
        BY <1>11 DEF endRebalance
    <2> QED
        BY <1>1, <2>1, <2>2, MapsKept
<1>12. CASE resizeMainPma \/ endRewrite
    BY <1>1, <1>2, <1>12, MapsKept DEF resizeMainPma, endRewrite, managerVars
<1>13. CASE UNCHANGED vars
    BY <1>13 DEF vars, managerVars, MapsOK
<1> QED
    BY <1>3, <1>4, <1>5, <1>6, <1>7, <1>8, <1>9, <1>10, <1>11, <1>12, <1>13
    DEF Next, managerStep, executionStep, threadStep

\* An inner node is recounted from its children, whatever the array holds.
LEMMA RecountInner ==
    ASSUME NEW l \in Nat \ {0}, NEW i
    PROVE  Recount(Node(l, i)) = aggregates[Node(l - 1, leftChild(i))]
                                 + aggregates[Node(l - 1, rightChild(i))]
  BY DEF Recount, Node

\* The same in the next state.
LEMMA RecountInnerNext ==
    ASSUME NEW l \in Nat \ {0}, NEW i
    PROVE  Recount(Node(l, i))' = aggregates'[Node(l - 1, leftChild(i))]
                                  + aggregates'[Node(l - 1, rightChild(i))]
  BY DEF Recount, Node

\* Outside of update() the tree is consistent.
LEMMA ConsistentOutside ==
    ASSUME ConsistentOK, phase # "update"
    PROVE  \A l \in 1 .. logCapacity : \A i \in 0 .. Pow2[logCapacity - l] - 1 :
              aggregates[Node(l, i)] = aggregates[Node(l - 1, leftChild(i))]
                                       + aggregates[Node(l - 1, rightChild(i))]
  BY RecountInner, SMTT(60) DEF ConsistentOK

\* A step that leaves the tree alone leaves it consistent.
LEMMA ConsistentKept ==
    ASSUME ConsistentOK, phase # "update", UNCHANGED <<aggregates, logCapacity>>
    PROVE  ConsistentOK'
<1> SUFFICES ASSUME NEW l \in 1 .. logCapacity, NEW i \in 0 .. Pow2[logCapacity - l] - 1
             PROVE  aggregates'[Node(l, i)] = Recount(Node(l, i))'
    BY DEF ConsistentOK
<1> QED
    BY ConsistentOutside, RecountInnerNext, SMTT(60)

\* Every step of update() that changes the count of a node puts its parent into the
\* map of the next level, so that no inner node stays inconsistent unvisited.
LEMMA ConsistentStep ==
    ASSUME Inv, [Next]_vars
    PROVE  ConsistentOK'
<1> USE DEF Inv
<1>1. CASE insertBatch
    <2>1. phase # "update" /\ UNCHANGED <<aggregates, logCapacity>>
        BY <1>1 DEF insertBatch, insertBlocks
    <2> QED
        BY <2>1, ConsistentKept
<1>2. ASSUME NEW j \in todo, updateNode(j) PROVE ConsistentOK'
    <2> DEFINE node == Node(level, j)
               log == logCapacity
    <2>1. /\ phase = "update" /\ phase' = "update" /\ todo' = todo \ {j}
          /\ UNCHANGED <<level, logCapacity>>
        BY <1>2 DEF updateNode
    <2>2. /\ OnLevel(log, level, j) /\ node \in TreeNodes(log) /\ level \in Nat
          /\ j \in Nat /\ log \in Nat
        BY <2>1, TodoOnLevel
    <2>3. /\ Recount(node) \in Nat
          /\ aggregates' = [aggregates EXCEPT ![node] = Recount(node)]
        BY <1>2, VisitedCount
    <2>4. aggregates \in [TreeNodes(log) -> Nat]
        BY DEF TreeOK
    <2>5. aggregates'[node] = Recount(node)
        BY <2>2, <2>3, <2>4
    <2>6. \A m, k : Node(m, k) # node => aggregates'[Node(m, k)] = aggregates[Node(m, k)]
        BY <2>3, <2>4, SMTT(60)
    <2>7. Recount(node) # aggregates[node] => parent(j) \in DOMAIN nextLevelRecountingNodes'
        <3> SUFFICES ASSUME Recount(node) # aggregates[node]
                     PROVE  parent(j) \in DOMAIN nextLevelRecountingNodes'
            OBVIOUS
        <3>1. PICK flag : nextLevelRecountingNodes' = mapInsert(nextLevelRecountingNodes, parent(j), flag)
            BY <1>2 DEF updateNode
        <3>2. DOMAIN nextLevelRecountingNodes' = DOMAIN nextLevelRecountingNodes \cup {parent(j)}
            BY <3>1, MapInsertDomain
        <3> QED
            BY <3>2
    <2>8. DOMAIN nextLevelRecountingNodes \subseteq DOMAIN nextLevelRecountingNodes'
        <3>1. \/ nextLevelRecountingNodes' = nextLevelRecountingNodes
              \/ \E flag : nextLevelRecountingNodes' = mapInsert(nextLevelRecountingNodes, parent(j), flag)
            BY <1>2 DEF updateNode
        <3>2. ASSUME NEW flag,
                     nextLevelRecountingNodes' = mapInsert(nextLevelRecountingNodes, parent(j), flag)
              PROVE  DOMAIN nextLevelRecountingNodes' = DOMAIN nextLevelRecountingNodes \cup {parent(j)}
            BY <3>2, MapInsertDomain
        <3> QED
            BY <3>1, <3>2
    <2> SUFFICES ASSUME NEW l \in 1 .. log, NEW i \in 0 .. Pow2[log - l] - 1
                 PROVE  \/ aggregates'[Node(l, i)] = Recount(Node(l, i))'
                        \/ l = level /\ i \in todo'
                        \/ l = level + 1 /\ i \in DOMAIN nextLevelRecountingNodes'
        BY <2>1 DEF ConsistentOK
    <2>9. l \in Nat \ {0} /\ l - 1 \in Nat
        BY <2>2
    <2>10. OnLevel(log, l, i)
        BY <2>2 DEF OnLevel
    <2>11. \/ aggregates[Node(l, i)] = Recount(Node(l, i))
           \/ l = level /\ i \in todo
           \/ l = level + 1 /\ i \in DOMAIN nextLevelRecountingNodes
        BY DEF ConsistentOK
    <2> HIDE DEF node
    <2>12. \A m, k, n, o : Node(m, k) = Node(n, o) <=> m = n /\ k = o
        BY DEF Node
    <2>13. CASE l = level /\ i = j
        <3>1. Node(l, i) = node
            BY <2>13 DEF node
        <3>2. /\ Node(l - 1, leftChild(i)) # node /\ Node(l - 1, rightChild(i)) # node
            BY <2>2, <2>12, <2>13, SMTT(60) DEF node
        <3>3. Recount(Node(l, i))' = Recount(Node(l, i))
            BY <2>6, <2>9, <3>2, RecountInner, RecountInnerNext, SMTT(60)
        <3> QED
            BY <2>5, <3>1, <3>3
    <2>14. CASE l = level + 1 /\ parent(j) = i
        <3>1. CASE Recount(node) # aggregates[node]
            BY <2>7, <2>14, <3>1
        <3>2. CASE Recount(node) = aggregates[node]
            <4>1. aggregates' = aggregates
                BY <2>2, <2>3, <2>4, <3>2
            <4>2. Recount(Node(l, i))' = Recount(Node(l, i))
                BY <2>9, <4>1, RecountInner, RecountInnerNext, SMTT(60)
            <4>3. l # level
                BY <2>2, <2>14
            <4> QED
                BY <2>8, <2>11, <4>1, <4>2, <4>3
        <3> QED
            BY <3>1, <3>2
    <2>15. CASE ~(l = level /\ i = j) /\ ~(l = level + 1 /\ parent(j) = i)
        <3>1. Node(l, i) # node
            BY <2>12, <2>15, SMTT(60) DEF node
        <3>2. parent(leftChild(i)) = i /\ parent(rightChild(i)) = i
            BY <2>2, <2>10, ChildrenOnLevel
        <3>3. l - 1 = level => l = level + 1
            BY <2>2, <2>9
        <3>4. Node(l - 1, leftChild(i)) # node /\ Node(l - 1, rightChild(i)) # node
            BY <2>12, <2>15, <3>2, <3>3, SMTT(60) DEF node
        <3>5. Recount(Node(l, i))' = Recount(Node(l, i))
            BY <2>6, <2>9, <3>4, RecountInner, RecountInnerNext, SMTT(60)
        <3>6. aggregates'[Node(l, i)] = aggregates[Node(l, i)]
            BY <2>6, <3>1
        <3> QED
            BY <2>1, <2>8, <2>11, <2>15, <3>5, <3>6
    <2> QED
        BY <2>13, <2>14, <2>15
<1>3. CASE nextLevel
    <2>1. /\ phase = "update" /\ phase' = "update" /\ todo = {} /\ level' = level + 1
          /\ todo' = DOMAIN nextLevelRecountingNodes /\ UNCHANGED <<aggregates, logCapacity>>
        BY <1>3 DEF nextLevel
    <2> SUFFICES ASSUME NEW l \in 1 .. logCapacity, NEW i \in 0 .. Pow2[logCapacity - l] - 1
                 PROVE  \/ aggregates'[Node(l, i)] = Recount(Node(l, i))'
                        \/ l = level' /\ i \in todo'
        BY <2>1 DEF ConsistentOK
    <2>2. l \in Nat \ {0}
        BY SMTT(60) DEF TreeOK
    <2>3. Recount(Node(l, i))' = Recount(Node(l, i))
        BY <2>1, <2>2, RecountInner, RecountInnerNext, SMTT(60)
    <2> QED
        BY <2>1, <2>3 DEF ConsistentOK
<1>4. CASE finishUpdate
    <2>1. /\ phase' = "collect" /\ todo = {} /\ level = logCapacity
          /\ UNCHANGED <<aggregates, logCapacity>>
        BY <1>4 DEF finishUpdate
    <2> SUFFICES ASSUME NEW l \in 1 .. logCapacity, NEW i \in 0 .. Pow2[logCapacity - l] - 1
                 PROVE  aggregates'[Node(l, i)] = Recount(Node(l, i))'
        BY <2>1 DEF ConsistentOK
    <2>2. l \in Nat \ {0} /\ l # level + 1
        BY <2>1 DEF TreeOK
    <2>3. Recount(Node(l, i))' = Recount(Node(l, i))
        BY <2>1, <2>2, RecountInner, RecountInnerNext, SMTT(60)
    <2> QED
        BY <2>1, <2>2, <2>3 DEF ConsistentOK
<1>5. CASE collectTask \/ endCollect
    BY <1>5, ConsistentKept DEF collectTask, endCollect, managerVars
<1>6. CASE distributeStep
    BY <1>6, ConsistentKept DEF distributeStep, distribute, managerVars
<1>7. ASSUME NEW t \in Threads, threadStep(t) PROVE ConsistentOK'
    <2>1. phase # "update" /\ UNCHANGED <<aggregates, logCapacity>>
        BY <1>7 DEF threadStep, rebalanceBlocks, clearBufferBlockPointers, rewriteBlocks,
           managerVars
    <2> QED
        BY <2>1, ConsistentKept
<1>8. CASE endRebalance
    <2> DEFINE n == lowestLevelNodeIndex(newPmaSize) + 1
    <2>1. phase # "update"
        BY <1>8 DEF endRebalance
    <2>2. CASE n # managerSize /\ n > Pow2[logCapacity]
        <3>1. aggregates' = NoAggregates(logCapacity') /\ logCapacity' \in Nat
            <4>1. logCapacity' \in Nat
                BY TreeStep DEF TreeOK
            <4> QED
                BY <1>8, <2>2, <4>1 DEF endRebalance, resize
        <3> SUFFICES ASSUME NEW l \in 1 .. logCapacity', NEW i \in 0 .. Pow2[logCapacity' - l] - 1
                     PROVE  aggregates'[Node(l, i)] = Recount(Node(l, i))'
            BY DEF ConsistentOK
        <3>2. OnLevel(logCapacity', l, i) /\ l \in Nat \ {0}
            BY <3>1 DEF OnLevel
        <3>3. /\ Node(l, i) \in TreeNodes(logCapacity')
              /\ Node(l - 1, leftChild(i)) \in TreeNodes(logCapacity')
              /\ Node(l - 1, rightChild(i)) \in TreeNodes(logCapacity')
            BY <3>1, <3>2, ChildrenOnLevel, NodeIsInTree
        <3>4. \A x \in TreeNodes(logCapacity') : aggregates'[x] = 0
            BY <3>1 DEF NoAggregates
        <3> QED
            BY <3>2, <3>3, <3>4, RecountInnerNext, SMTT(60)
    <2>3. CASE ~(n # managerSize /\ n > Pow2[logCapacity])
        <3>1. UNCHANGED <<aggregates, logCapacity>>
            BY <1>8, <2>3 DEF endRebalance, resize
        <3> QED
            BY <2>1, <3>1, ConsistentKept
    <2> QED
        BY <2>2, <2>3
<1>9. CASE resizeMainPma \/ endRewrite
    BY <1>9, ConsistentKept DEF resizeMainPma, endRewrite, managerVars
<1>10. CASE UNCHANGED vars
    <2>1. UNCHANGED <<phase, aggregates, logCapacity, level, todo, nextLevelRecountingNodes>>
        BY <1>10 DEF vars, managerVars
    <2> SUFFICES ASSUME NEW l \in 1 .. logCapacity, NEW i \in 0 .. Pow2[logCapacity - l] - 1
                 PROVE  \/ aggregates'[Node(l, i)] = Recount(Node(l, i))'
                        \/ phase = "update" /\ l = level /\ i \in todo
                        \/ phase = "update" /\ l = level + 1 /\ i \in DOMAIN nextLevelRecountingNodes
        BY <2>1 DEF ConsistentOK
    <2>2. l \in Nat \ {0}
        BY SMTT(60) DEF TreeOK
    <2>3. Recount(Node(l, i))' = Recount(Node(l, i))
        BY <2>1, <2>2, RecountInner, RecountInnerNext, SMTT(60)
    <2> QED
        BY <2>1, <2>3 DEF ConsistentOK
<1> QED
    BY <1>1, <1>2, <1>3, <1>4, <1>5, <1>6, <1>7, <1>8, <1>9, <1>10
    DEF Next, managerStep, executionStep
-----------------------------------------------------------------------------
(* The nodes to rebalance and the tasks.                                   *)

\* The range of a node and its count.
LEMMA TaskOfNode ==
    ASSUME TreeOK, NEW node \in TreeNodes(logCapacity)
    PROVE  LET range == rebalancingRange(node, logCapacity, aggregates[root])
           IN  /\ range \in Intervals /\ numberOfBlocks(node) \in Nat
               /\ getRebalancingTask(node) \in Tasks
               /\ node.level <= logCapacity =>
                     /\ numberOfBlocks(node) = aggregates[node]
                     /\ length(range) = SegmentWidth * Pow2[node.level]
                     /\ range.right <= SegmentWidth * Pow2[logCapacity]
               /\ node.level > logCapacity =>
                     /\ node = superRoot
                     /\ numberOfBlocks(node) = aggregates[root]
                     /\ length(range) = minRangeLength(aggregates[root])
<1> DEFINE log == logCapacity
           range == rebalancingRange(node, log, aggregates[root])
<1>1. log \in Nat /\ log \in Nat \ {0} /\ \A x \in TreeNodes(log) : aggregates[x] \in Nat
    BY DEF TreeOK
<1>2. /\ node = Node(node.level, node.index) /\ node.level \in Nat /\ node.index \in Nat
      /\ node.level \in 0 .. log + 1
      /\ node.level <= log => OnLevel(log, node.level, node.index)
      /\ node.level = log + 1 => node = Node(log + 1, 0)
    BY <1>1, NodeOfTree
<1>3. \A a, b \in Nat : a <= b => Interval(a, b) \in Intervals
    BY DEF Interval, Intervals
<1>4. node \in [level : Nat, index : Nat]
    BY <1>2 DEF Node
<1>5. CASE node.level <= log
    <2> DEFINE w == SegmentWidth * Pow2[node.level]
               i == node.index
    <2>1. OnLevel(log, node.level, i)
        BY <1>2, <1>5
    <2>2. /\ w \in Nat \ {0}
          /\ rebalancingRange(Node(node.level, i), log, aggregates[root]) = Interval(i * w, (i + 1) * w)
          /\ i * w \in Nat /\ (i + 1) * w \in Nat /\ (i + 1) * w = i * w + w
          /\ (i + 1) * w <= SegmentWidth * Pow2[log]
        BY <1>1, <2>1, RangeOfNode
    <2>3. range = Interval(i * w, (i + 1) * w)
        BY <1>2, <2>2
    <2>4. Smaller(node.level, log) = node.level
        BY <1>1, <1>2, <1>5 DEF Smaller
    <2>5. numberOfBlocks(node) = aggregates[node]
        BY <1>2, <2>4 DEF numberOfBlocks
    <2> DEFINE x == i * w
               y == (i + 1) * w
    <2>6. x \in Nat /\ y \in Nat /\ y = x + w /\ y - x = w /\ x <= y
        BY <2>2
    <2> HIDE DEF x, y, w
    <2>7. range = Interval(x, y)
        BY <2>3 DEF x, y
    <2>8. range \in Intervals /\ length(range) = w
        BY <2>6, <2>7, IntervalIs
    <2>9. range.right <= SegmentWidth * Pow2[log]
        BY <2>2, <2>7 DEF Interval, y
    <2> HIDE DEF range
    <2>10. numberOfBlocks(node) \in Nat
        BY <1>1, <2>5
    <2>11. getRebalancingTask(node) \in Tasks
        BY <1>4, <2>8, <2>10 DEF getRebalancingTask, Tasks, range
    <2>12. ~(node.level > log)
        BY <1>1, <1>2, <1>5, SMTT(60)
    <2> QED
        BY <2>5, <2>8, <2>9, <2>10, <2>11, <2>12 DEF range, w
<1>6. CASE ~(node.level <= log)
    <2>1. node.level = log + 1 /\ node = Node(log + 1, 0) /\ node.index = 0 /\ node.level > log
        BY <1>1, <1>2, <1>6, SMTT(60) DEF Node
    <2>2. Smaller(node.level, log) = log
        BY <1>1, <2>1 DEF Smaller
    <2>3. numberOfBlocks(node) = aggregates[root]
        BY <2>1, <2>2 DEF numberOfBlocks, root
    <2>4. root \in TreeNodes(log)
        <3>1. OnLevel(log, log, 0)
            BY <1>1, Pow2Defined, SMTT(60) DEF OnLevel
        <3> QED
            BY <1>1, <3>1, NodeIsInTree DEF root
    <2>5. aggregates[root] \in Nat
        BY <1>1, <2>4
    <2>6. minRangeLength(aggregates[root]) \in Nat
        BY <2>5, GrowthFits
    <2>7. range = Interval(0, minRangeLength(aggregates[root]))
        BY <2>1 DEF rebalancingRange
    <2>8. range \in Intervals /\ length(range) = minRangeLength(aggregates[root])
        BY <1>3, <2>6, <2>7 DEF Interval, length
    <2> HIDE DEF range
    <2>9. getRebalancingTask(node) \in Tasks
        BY <1>4, <2>3, <2>5, <2>8 DEF getRebalancingTask, Tasks, range
    <2> QED
        BY <1>6, <2>1, <2>3, <2>5, <2>8, <2>9 DEF superRoot, range
<1> QED
    BY <1>5, <1>6

\* mustBeAdded adds a node once, with its flag, and only if its blocks fit; visiting
\* other nodes does not change its count.
LEMMA NodesStep ==
    ASSUME Inv, [Next]_vars
    PROVE  NodesOK'
<1> USE DEF Inv
<1>1. /\ rebalancingNodes \in Seq(TreeNodes(logCapacity)) /\ Len(rebalancingNodes) \in Nat
      /\ \A k \in 1 .. Len(rebalancingNodes) : rebalancingNodes[k] \in TreeNodes(logCapacity)
    BY SMTT(60) DEF TreeOK
<1>2. ASSUME rebalancingNodes' = <<>> PROVE NodesOK'
    <2>1. 1 .. Len(rebalancingNodes') = {}
        BY <1>2
    <2> QED
        BY <1>2, <2>1 DEF NodesOK
<1>3. CASE insertBatch
    <2>1. rebalancingNodes' = <<>>
        BY <1>3 DEF insertBatch, insertBlocks, NodesOK
    <2> QED
        BY <1>2, <2>1
<1>4. ASSUME NEW i \in todo, updateNode(i) PROVE NodesOK'
    <2> DEFINE node == Node(level, i)
    <2>1. /\ phase = "update" /\ phase' = "update" /\ todo' = todo \ {i}
          /\ UNCHANGED <<level, logCapacity>>
        BY <1>4 DEF updateNode
    <2>2. node \in TreeNodes(logCapacity) /\ level \in Nat
        BY <2>1, TodoOnLevel
    <2>3. /\ Recount(node) \in Nat
          /\ aggregates' = [aggregates EXCEPT ![node] = Recount(node)]
        BY <1>4, VisitedCount
    <2>4. aggregates \in [TreeNodes(logCapacity) -> Nat]
        BY DEF TreeOK
    <2>5. node.level = level /\ node.index = i
        BY DEF Node
    <2>6. \/ rebalancingNodes' = rebalancingNodes /\ rebalanced' = rebalanced
          \/ /\ rebalancingNodes' = Append(rebalancingNodes, node)
             /\ rebalanced' = rebalanced \cup {node}
             /\ node \notin rebalanced
             /\ Recount(node) <= maxBlocks(level, logCapacity)
        BY <1>4 DEF updateNode
    <2> HIDE DEF node
    <2>7. aggregates'[node] = Recount(node)
        BY <2>2, <2>3, <2>4
    <2>8. ASSUME NEW k \in 1 .. Len(rebalancingNodes)
          PROVE  LET x == rebalancingNodes[k]
                 IN  /\ x \in rebalanced /\ x.level <= level
                     /\ aggregates'[x] <= maxBlocks(x.level, logCapacity)
                     /\ ~(x.level = level /\ x.index \in todo')
                     /\ \A j \in 1 .. Len(rebalancingNodes) : rebalancingNodes[j] = x => j = k
        <3> DEFINE x == rebalancingNodes[k]
        <3>1. /\ x \in rebalanced /\ x.level <= level
              /\ aggregates[x] <= maxBlocks(x.level, logCapacity)
              /\ ~(x.level = level /\ x.index \in todo)
              /\ \A j \in 1 .. Len(rebalancingNodes) : rebalancingNodes[j] = x => j = k
            BY <2>1 DEF NodesOK
        <3>2. x # node
            BY <2>5, <3>1
        <3>3. aggregates'[x] = aggregates[x]
            BY <1>1, <2>3, <2>4, <3>2
        <3> QED
            BY <2>1, <3>1, <3>3
    <2>9. CASE rebalancingNodes' = rebalancingNodes /\ rebalanced' = rebalanced
        BY <2>1, <2>8, <2>9 DEF NodesOK
    <2>10. CASE /\ rebalancingNodes' = Append(rebalancingNodes, node)
                /\ rebalanced' = rebalanced \cup {node}
                /\ node \notin rebalanced
                /\ Recount(node) <= maxBlocks(level, logCapacity)
        <3> DEFINE L == Len(rebalancingNodes)
        <3>1. /\ Len(rebalancingNodes') = L + 1 /\ rebalancingNodes'[L + 1] = node
              /\ \A k \in 1 .. L : rebalancingNodes'[k] = rebalancingNodes[k]
            BY <1>1, <2>2, <2>10
        <3>2. \A k \in 1 .. L : rebalancingNodes'[k] # node
            BY <2>8, <2>10, <3>1
        <3>3. \A k \in 1 .. L + 1 : k \in 1 .. L \/ k = L + 1
            BY <1>1
        <3> HIDE DEF L
        <3>4. ASSUME NEW k \in 1 .. L + 1
              PROVE  LET x == rebalancingNodes'[k]
                     IN  /\ x \in rebalanced' /\ x.level <= level
                         /\ aggregates'[x] <= maxBlocks(x.level, logCapacity)
                         /\ ~(x.level = level /\ x.index \in todo')
                         /\ \A j \in 1 .. L + 1 : rebalancingNodes'[j] = x => j = k
            <4>1. CASE k \in 1 .. L
                <5>1. LET x == rebalancingNodes[k]
                      IN  /\ x \in rebalanced /\ x.level <= level
                          /\ aggregates'[x] <= maxBlocks(x.level, logCapacity)
                          /\ ~(x.level = level /\ x.index \in todo')
                          /\ \A j \in 1 .. L : rebalancingNodes[j] = x => j = k
                    BY <2>8, <4>1 DEF L
                <5>2. rebalancingNodes'[k] = rebalancingNodes[k] /\ rebalancingNodes'[k] # node
                    BY <3>1, <3>2, <4>1
                <5>3. \A j \in 1 .. L + 1 : rebalancingNodes'[j] = rebalancingNodes'[k] => j = k
                    BY <3>1, <3>3, <5>1, <5>2
                <5> QED
                    BY <2>10, <5>1, <5>2, <5>3
            <4>2. CASE k = L + 1
                <5>1. rebalancingNodes'[k] = node
                    BY <3>1, <4>2
                <5>2. \A j \in 1 .. L + 1 : rebalancingNodes'[j] = node => j = k
                    BY <3>2, <3>3, <4>2
                <5>3. node.level <= level /\ ~(node.index \in todo')
                    BY <2>1, <2>2, <2>5
                <5> QED
                    BY <2>5, <2>7, <2>10, <5>1, <5>2, <5>3
            <4> QED
                BY <3>3, <4>1, <4>2
        <3> QED
            BY <2>1, <3>1, <3>4 DEF NodesOK
    <2> QED
        BY <2>6, <2>9, <2>10
<1>5. CASE nextLevel
    <2>1. /\ phase = "update" /\ phase' = "update" /\ level' = level + 1
          /\ UNCHANGED <<aggregates, logCapacity, rebalanced, rebalancingNodes>>
        BY <1>5 DEF nextLevel
    <2>2. level \in Nat
        BY SMTT(60) DEF TreeOK
    <2>3. \A k \in 1 .. Len(rebalancingNodes) :
             rebalancingNodes[k].level \in Nat /\ rebalancingNodes[k].level <= level
        BY <1>1, <2>1, NodeOfTree DEF NodesOK, TreeOK
    <2>4. \A k \in 1 .. Len(rebalancingNodes) :
             rebalancingNodes[k].level <= level + 1 /\ rebalancingNodes[k].level # level + 1
        BY <2>2, <2>3
    <2> QED
        BY <2>1, <2>4, SMTT(60) DEF NodesOK
<1>6. CASE finishUpdate
    <2>1. /\ phase = "update" /\ phase' = "collect" /\ level = logCapacity
          /\ UNCHANGED <<aggregates, logCapacity>>
        BY <1>6 DEF finishUpdate
    <2>2. superRoot \in TreeNodes(logCapacity) /\ logCapacity \in Nat \ {0}
        BY SuperRootIsInTree DEF superRoot, TreeOK
    <2>3. \/ rebalancingNodes' = rebalancingNodes /\ rebalanced' = rebalanced
          \/ /\ rebalancingNodes' = Append(rebalancingNodes, superRoot)
             /\ rebalanced' = rebalanced \cup {superRoot}
             /\ superRoot \notin rebalanced
        BY <1>6 DEF finishUpdate
    <2>4. \A x : /\ numberOfBlocks(x)' = numberOfBlocks(x)
                 /\ rebalancingRange(x, logCapacity, aggregates[root])'
                       = rebalancingRange(x, logCapacity, aggregates[root])
        BY <2>1 DEF numberOfBlocks, root
    <2> DEFINE Fits(x) == numberOfBlocks(x)
                            <= length(rebalancingRange(x, logCapacity, aggregates[root]))
    <2>5. ASSUME NEW k \in 1 .. Len(rebalancingNodes)
          PROVE  LET x == rebalancingNodes[k]
                 IN  /\ x \in rebalanced /\ Fits(x)
                     /\ \A j \in 1 .. Len(rebalancingNodes) : rebalancingNodes[j] = x => j = k
        <3> DEFINE x == rebalancingNodes[k]
        <3>1. /\ x \in rebalanced /\ x.level <= level
              /\ aggregates[x] <= maxBlocks(x.level, logCapacity)
              /\ \A j \in 1 .. Len(rebalancingNodes) : rebalancingNodes[j] = x => j = k
            BY <2>1 DEF NodesOK
        <3>2. x \in TreeNodes(logCapacity)
            BY <1>1
        <3> HIDE DEF x
        <3>3. x.level \in 0 .. logCapacity
            BY <2>1, <2>2, <3>1, <3>2, NodeOfTree, SMTT(60)
        <3>4. /\ numberOfBlocks(x) = aggregates[x] /\ numberOfBlocks(x) \in Nat
              /\ length(rebalancingRange(x, logCapacity, aggregates[root]))
                    = SegmentWidth * Pow2[x.level]
            BY <2>1, <3>1, <3>2, TaskOfNode
        <3>5. /\ maxBlocks(x.level, logCapacity) \in Nat
              /\ maxBlocks(x.level, logCapacity) <= SegmentWidth * Pow2[x.level]
            BY <2>2, <3>3, ThresholdFits
        <3>6. SegmentWidth * Pow2[x.level] \in Nat
            <4>1. x.level \in Nat
                BY <2>2, <3>3, SMTT(60)
            <4>2. Pow2[x.level] \in Nat
                BY <4>1, Pow2Defined
            <4> QED
                BY <4>2, GeometryAssumption, SMTT(60)
        <3>7. Fits(x)
            BY <3>1, <3>4, <3>5, <3>6, AtMost
        <3> QED
            BY <3>1, <3>7 DEF x
    <2>6. Fits(superRoot)
        <3>1. superRoot.level > logCapacity
            BY <2>2, SMTT(60) DEF superRoot, Node
        <3>2. /\ numberOfBlocks(superRoot) = aggregates[root] /\ numberOfBlocks(superRoot) \in Nat
              /\ length(rebalancingRange(superRoot, logCapacity, aggregates[root]))
                    = minRangeLength(aggregates[root])
            BY <2>2, <3>1, TaskOfNode
        <3> QED
            BY <3>2, GrowthFits
    <2> HIDE DEF Fits
    <2>7. CASE rebalancingNodes' = rebalancingNodes /\ rebalanced' = rebalanced
        BY <2>1, <2>4, <2>5, <2>7 DEF NodesOK, Fits
    <2>8. CASE /\ rebalancingNodes' = Append(rebalancingNodes, superRoot)
               /\ rebalanced' = rebalanced \cup {superRoot}
               /\ superRoot \notin rebalanced
        <3> DEFINE L == Len(rebalancingNodes)
        <3>1. /\ Len(rebalancingNodes') = L + 1 /\ rebalancingNodes'[L + 1] = superRoot
              /\ \A k \in 1 .. L : rebalancingNodes'[k] = rebalancingNodes[k]
            BY <1>1, <2>2, <2>8, SMTT(60)
        <3>2. \A k \in 1 .. L : rebalancingNodes'[k] # superRoot
            BY <2>5, <2>8, <3>1
        <3>3. \A k \in 1 .. L + 1 : k \in 1 .. L \/ k = L + 1
            BY <1>1
        <3> HIDE DEF L
        <3>4. ASSUME NEW k \in 1 .. L + 1
              PROVE  LET x == rebalancingNodes'[k]
                     IN  /\ x \in rebalanced' /\ Fits(x)
                         /\ \A j \in 1 .. L + 1 : rebalancingNodes'[j] = x => j = k
            <4>1. CASE k \in 1 .. L
                <5>1. LET x == rebalancingNodes[k]
                      IN  /\ x \in rebalanced /\ Fits(x)
                          /\ \A j \in 1 .. L : rebalancingNodes[j] = x => j = k
                    BY <2>5, <4>1 DEF L
                <5>2. /\ rebalancingNodes'[k] = rebalancingNodes[k]
                      /\ rebalancingNodes'[k] # superRoot
                    BY <3>1, <3>2, <4>1
                <5>3. \A j \in 1 .. L + 1 : rebalancingNodes'[j] = rebalancingNodes'[k] => j = k
                    BY <3>1, <3>3, <5>1, <5>2
                <5> QED
                    BY <2>8, <5>1, <5>2, <5>3
            <4>2. CASE k = L + 1
                <5>1. rebalancingNodes'[k] = superRoot
                    BY <3>1, <4>2
                <5>2. \A j \in 1 .. L + 1 : rebalancingNodes'[j] = superRoot => j = k
                    BY <3>2, <3>3, <4>2
                <5> QED
                    BY <2>6, <2>8, <5>1, <5>2
            <4> QED
                BY <3>3, <4>1, <4>2
        <3> QED
            BY <2>1, <2>4, <3>1, <3>4 DEF NodesOK, Fits
    <2> QED
        BY <2>3, <2>7, <2>8
<1>7. CASE collectTask
    <2> DEFINE L == Len(rebalancingNodes)
    <2>1. /\ phase = "collect" /\ phase' = "collect" /\ rebalancingNodes # <<>>
          /\ rebalancingNodes' = Tail(rebalancingNodes)
          /\ rebalanced' \in {rebalanced, rebalanced \ {Head(rebalancingNodes)}}
          /\ UNCHANGED <<aggregates, logCapacity>>
        BY <1>7 DEF collectTask
    <2>2. /\ L \in Nat \ {0} /\ Len(rebalancingNodes') = L - 1
          /\ \A k \in 1 .. L - 1 : rebalancingNodes'[k] = rebalancingNodes[k + 1]
          /\ Head(rebalancingNodes) = rebalancingNodes[1]
        BY <1>1, <2>1, SMTT(60)
    <2>3. \A x : /\ numberOfBlocks(x)' = numberOfBlocks(x)
                 /\ rebalancingRange(x, logCapacity, aggregates[root])'
                       = rebalancingRange(x, logCapacity, aggregates[root])
        BY <2>1 DEF numberOfBlocks, root
    <2>4. ASSUME NEW k \in 1 .. L - 1
          PROVE  LET x == rebalancingNodes'[k]
                 IN  /\ x \in rebalanced'
                     /\ numberOfBlocks(x) <= length(rebalancingRange(x, logCapacity, aggregates[root]))
                     /\ \A j \in 1 .. L - 1 : rebalancingNodes'[j] = x => j = k
        <3> DEFINE x == rebalancingNodes[k + 1]
        <3>1. k + 1 \in 1 .. L /\ 1 \in 1 .. L /\ k + 1 # 1
            BY <2>2, SMTT(60)
        <3>2. /\ x \in rebalanced
              /\ numberOfBlocks(x) <= length(rebalancingRange(x, logCapacity, aggregates[root]))
              /\ \A j \in 1 .. L : rebalancingNodes[j] = x => j = k + 1
            BY <2>1, <3>1 DEF NodesOK
        <3>3. x # rebalancingNodes[1]
            BY <3>1, <3>2
        <3>4. \A j \in 1 .. L - 1 : rebalancingNodes'[j] = x => j = k
            <4> SUFFICES ASSUME NEW j \in 1 .. L - 1, rebalancingNodes'[j] = x PROVE j = k
                OBVIOUS
            <4>1. j + 1 \in 1 .. L /\ rebalancingNodes[j + 1] = x
                BY <2>2
            <4>2. j + 1 = k + 1
                BY <3>2, <4>1
            <4> QED
                BY <4>2
        <3>5. rebalancingNodes'[k] = x
            BY <2>2
        <3> HIDE DEF x, L
        <3> QED
            BY <2>1, <2>2, <3>2, <3>3, <3>4, <3>5
    <2> HIDE DEF L
    <2> QED
        BY <2>1, <2>2, <2>3, <2>4 DEF NodesOK
<1>8. CASE endCollect
    BY <1>2, <1>8 DEF endCollect
<1>9. CASE distributeStep
    BY <1>2, <1>9 DEF distributeStep, distribute, NodesOK
<1>10. CASE executionStep
    <2>1. phase \in {"rebalance", "clear", "rewrite"} /\ rebalancingNodes' = rebalancingNodes
        BY <1>10 DEF executionStep, threadStep, rebalanceBlocks, clearBufferBlockPointers,
                    rewriteBlocks, endRebalance, resizeMainPma, endRewrite
    <2> QED
        BY <1>2, <2>1 DEF NodesOK
<1>11. CASE UNCHANGED vars
    <2>1. /\ UNCHANGED <<phase, rebalancingNodes, rebalanced, aggregates, logCapacity, level, todo>>
        BY <1>11 DEF vars, managerVars
    <2>2. \A x : /\ numberOfBlocks(x)' = numberOfBlocks(x)
                 /\ rebalancingRange(x, logCapacity, aggregates[root])'
                       = rebalancingRange(x, logCapacity, aggregates[root])
        BY <2>1 DEF numberOfBlocks, root
    <2> QED
        BY <2>1, <2>2 DEF NodesOK
<1> QED
    BY <1>3, <1>4, <1>5, <1>6, <1>7, <1>8, <1>9, <1>10, <1>11 DEF Next, managerStep

\* The dominance check of B-3 keeps the flagged nodes above the tasks away, whatever
\* the order in which update() has appended the nodes.
LEMMA CollectStep ==
    ASSUME Inv, [Next]_vars
    PROVE  CollectOK'
<1> USE DEF Inv
<1>1. /\ rebalancingNodes \in Seq(TreeNodes(logCapacity)) /\ Len(rebalancingNodes) \in Nat
    BY SMTT(60) DEF TreeOK
<1>2. CASE finishUpdate
    <2>1. rebalancingTasks' = <<>>
        BY <1>2 DEF finishUpdate, taskVars, TasksOK
    <2>2. 1 .. Len(rebalancingTasks') = {}
        BY <2>1
    <2> QED
        BY <2>2 DEF CollectOK
<1>3. CASE collectTask
    <2> DEFINE node == Head(rebalancingNodes)
               L == Len(rebalancingNodes)
               K == Len(rebalancingTasks)
    <2>1. /\ phase = "collect" /\ rebalancingNodes # <<>>
          /\ rebalancingNodes' = Tail(rebalancingNodes)
          /\ UNCHANGED <<aggregates, logCapacity>>
        BY <1>3 DEF collectTask
    <2>2. /\ L \in Nat \ {0} /\ Len(rebalancingNodes') = L - 1
          /\ \A k \in 1 .. L - 1 : rebalancingNodes'[k] = rebalancingNodes[k + 1]
          /\ node = rebalancingNodes[1]
          /\ K \in Nat /\ rebalancingTasks \in Seq(Tasks)
        BY <1>1, <2>1 DEF TasksOK
    <2>3. \A j \in 1 .. L - 1 : j + 1 \in 1 .. L /\ j + 1 # 1
        BY <2>2, SMTT(60)
    <2>4. 1 \in 1 .. L
        BY <2>2
    <2>5. node \in rebalanced /\ \A j \in 1 .. L : rebalancingNodes[j] = node => j = 1
        BY <2>2, <2>4 DEF NodesOK
    <2>6. \A j \in 1 .. L - 1 : rebalancingNodes'[j] # node
        BY <2>2, <2>3, <2>5
    <2>7. \A x : /\ getRebalancingTask(x)' = getRebalancingTask(x)
                 /\ Ancestors(x, logCapacity)' = Ancestors(x, logCapacity)
        BY <2>1 DEF getRebalancingTask, numberOfBlocks, root
    <2>8. ASSUME NEW k \in 1 .. K
          PROVE  LET x == rebalancingTasks[k].rootNode
                 IN  /\ rebalancingTasks[k] = getRebalancingTask(x)
                     /\ x \in rebalanced /\ x # node
                     /\ Ancestors(x, logCapacity) \cap rebalanced = {}
                     /\ \A j \in 1 .. L - 1 : rebalancingNodes'[j] # x
        <3> DEFINE x == rebalancingTasks[k].rootNode
        <3>1. /\ rebalancingTasks[k] = getRebalancingTask(x)
              /\ x \in rebalanced
              /\ Ancestors(x, logCapacity) \cap rebalanced = {}
              /\ \A j \in 1 .. L : rebalancingNodes[j] # x
            BY <2>1 DEF CollectOK
        <3> HIDE DEF x, L, node
        <3> QED
            BY <2>2, <2>3, <2>4, <3>1 DEF x
    <2> HIDE DEF L
    <2>9. CASE rebalancingNodeDominated(node, rebalanced)
        <3>1. rebalanced' = rebalanced \ {node} /\ rebalancingTasks' = rebalancingTasks
            BY <1>3, <2>9 DEF collectTask, taskVars
        <3> HIDE DEF node
        <3> QED
            BY <2>2, <2>7, <2>8, <3>1, SMTT(60) DEF CollectOK
    <2>10. CASE ~rebalancingNodeDominated(node, rebalanced)
        <3>1. /\ rebalanced' = rebalanced
              /\ rebalancingTasks' = Append(rebalancingTasks, getRebalancingTask(node))
            BY <1>3, <2>10 DEF collectTask
        <3>2. Ancestors(node, logCapacity) \cap rebalanced = {}
            BY <2>10 DEF rebalancingNodeDominated
        <3> HIDE DEF node
        <3>3. getRebalancingTask(node).rootNode = node
            BY DEF getRebalancingTask
        <3>4. /\ Len(rebalancingTasks') = K + 1
              /\ rebalancingTasks'[K + 1] = getRebalancingTask(node)
              /\ \A k \in 1 .. K : rebalancingTasks'[k] = rebalancingTasks[k]
              /\ \A k \in 1 .. K + 1 : k \in 1 .. K \/ k = K + 1
            BY <2>2, <3>1
        <3> HIDE DEF K
        <3>5. ASSUME NEW k \in 1 .. K + 1
              PROVE  LET x == rebalancingTasks'[k].rootNode
                     IN  /\ rebalancingTasks'[k] = getRebalancingTask(x)
                         /\ x \in rebalanced
                         /\ Ancestors(x, logCapacity) \cap rebalanced = {}
                         /\ \A j \in 1 .. L - 1 : rebalancingNodes'[j] # x
            BY <2>5, <2>6, <2>8, <3>2, <3>3, <3>4
        <3> QED
            BY <2>2, <2>7, <3>1, <3>4, <3>5, SMTT(60) DEF CollectOK
    <2> QED
        BY <2>9, <2>10
<1>4. CASE phase' # "collect"
    BY <1>4 DEF CollectOK
<1>5. CASE UNCHANGED vars
    <2>1. UNCHANGED <<phase, rebalancingTasks, rebalancingNodes, rebalanced, aggregates, logCapacity>>
        BY <1>5 DEF vars, managerVars, taskVars
    <2>2. \A x : getRebalancingTask(x)' = getRebalancingTask(x)
        BY <2>1 DEF getRebalancingTask, numberOfBlocks, root
    <2> QED
        BY <2>1, <2>2 DEF CollectOK
<1>6. finishUpdate \/ collectTask \/ phase' # "collect" \/ UNCHANGED vars
    BY DEF Next, insertBatch, insertBlocks, managerStep, updateNode, nextLevel, endCollect,
           distributeStep, distribute, executionStep, threadStep, rebalanceBlocks,
           clearBufferBlockPointers, rewriteBlocks, endRebalance, resizeMainPma, endRewrite
<1> QED
    BY <1>2, <1>3, <1>4, <1>5, <1>6

\* Tasks that stay the same stay sound.
LEMMA TasksKept ==
    ASSUME TasksOK, UNCHANGED taskVars, phase' \in Phases,
           phase' \in {"idle", "update"} => rebalancingTasks = <<>>,
           phase' \in {"distribute", "rebalance", "clear", "rewrite"} => rebalancingTasks # <<>>
    PROVE  TasksOK'
<1>1. UNCHANGED <<rebalancingTasks, prefixNumberOfRebalancingBlocks>>
    BY DEF taskVars
<1>2. \A k : prefixBlocks(k)' = prefixBlocks(k)
    BY <1>1 DEF prefixBlocks
<1> QED
    BY <1>1, <1>2, SMTT(60) DEF TasksOK, TasksApart

\* Every step keeps the tasks disjoint, with room for their blocks, and their prefix
\* sums right: a node that B-3 makes a task of is not above or below an earlier one.
LEMMA TasksStep ==
    ASSUME Inv, [Next]_vars
    PROVE  TasksOK'
<1> USE DEF Inv
<1>1. ArraysOK'
    BY ArraysStep
<1>2. phase' \in Phases
    BY <1>1 DEF ArraysOK
<1>3. CASE insertBatch
    <2>1. phase = "idle" /\ phase' = "update" /\ UNCHANGED taskVars
        BY <1>3 DEF insertBatch, insertBlocks
    <2> QED
        BY <1>2, <2>1, TasksKept DEF TasksOK
<1>4. ASSUME NEW i \in todo, updateNode(i) PROVE TasksOK'
    <2>1. phase = "update" /\ phase' = "update" /\ UNCHANGED taskVars
        BY <1>4 DEF updateNode
    <2> QED
        BY <1>2, <2>1, TasksKept DEF TasksOK
<1>5. CASE nextLevel \/ finishUpdate
    <2>1. phase = "update" /\ phase' \in {"update", "collect"} /\ UNCHANGED taskVars
        BY <1>5 DEF nextLevel, finishUpdate
    <2> QED
        BY <1>2, <2>1, TasksKept DEF TasksOK
<1>6. CASE collectTask
    <2> DEFINE node == Head(rebalancingNodes)
               task == getRebalancingTask(node)
               K == Len(rebalancingTasks)
    <2>1. phase = "collect" /\ phase' = "collect" /\ rebalancingNodes # <<>>
          /\ UNCHANGED <<aggregates, logCapacity>>
        BY <1>6 DEF collectTask
    <2>2. CASE rebalancingNodeDominated(node, rebalanced)
        <3>1. UNCHANGED taskVars
            BY <1>6, <2>2 DEF collectTask
        <3> QED
            BY <1>2, <2>1, <3>1, TasksKept
    <2>3. CASE ~rebalancingNodeDominated(node, rebalanced)
        <3> DEFINE sum == prefixBlocks(K) + task.numberOfBlocks
        <3>1. /\ rebalancingTasks' = Append(rebalancingTasks, task)
              /\ prefixNumberOfRebalancingBlocks' = Append(prefixNumberOfRebalancingBlocks, sum)
            BY <1>6, <2>3 DEF collectTask
        <3>2. /\ 1 \in 1 .. Len(rebalancingNodes) /\ node = rebalancingNodes[1]
              /\ node \in TreeNodes(logCapacity)
            BY <2>1, SMTT(60) DEF TreeOK
        <3>3. /\ node \in rebalanced
              /\ numberOfBlocks(node) <= length(rebalancingRange(node, logCapacity, aggregates[root]))
            BY <2>1, <3>2 DEF NodesOK
        <3>4. Ancestors(node, logCapacity) \cap rebalanced = {}
            BY <2>3 DEF rebalancingNodeDominated
        <3>5. task \in Tasks
            BY <3>2, TaskOfNode
        <3>6. /\ task.rootNode = node /\ task.numberOfBlocks = numberOfBlocks(node)
              /\ task.pmaRange = rebalancingRange(node, logCapacity, aggregates[root])
            BY DEF getRebalancingTask
        <3>7. /\ rebalancingTasks \in Seq(Tasks) /\ K \in Nat
              /\ prefixNumberOfRebalancingBlocks \in Seq(Nat)
              /\ Len(prefixNumberOfRebalancingBlocks) = K
            BY DEF TasksOK
        <3>8. prefixBlocks(K) \in Nat
            BY <3>7, PrefixMonotone
        <3>9. task.numberOfBlocks \in Nat
            BY <3>5 DEF Tasks
        <3>10. ASSUME NEW k \in 1 .. K
               PROVE  /\ rebalancingTasks[k].rootNode # node
                      /\ ~overlaps(rebalancingTasks[k].pmaRange, task.pmaRange)
                      /\ ~overlaps(task.pmaRange, rebalancingTasks[k].pmaRange)
            <4> DEFINE x == rebalancingTasks[k].rootNode
            <4>1. /\ rebalancingTasks[k] = getRebalancingTask(x)
                  /\ x \in rebalanced
                  /\ Ancestors(x, logCapacity) \cap rebalanced = {}
                  /\ \A j \in 1 .. Len(rebalancingNodes) : rebalancingNodes[j] # x
                BY <2>1 DEF CollectOK
            <4>2. x \in TreeNodes(logCapacity) /\ logCapacity \in Nat
                BY <4>1 DEF TreeOK
            <4>3. rebalancingTasks[k].pmaRange = rebalancingRange(x, logCapacity, aggregates[root])
                BY <4>1, RangeOfTask
            <4> HIDE DEF x, node
            <4>4. /\ x # node /\ x \notin Ancestors(node, logCapacity)
                  /\ node \notin Ancestors(x, logCapacity)
                BY <3>2, <3>3, <3>4, <4>1
            <4>5. /\ ~overlaps(rebalancingRange(x, logCapacity, aggregates[root]),
                               rebalancingRange(node, logCapacity, aggregates[root]))
                  /\ ~overlaps(rebalancingRange(node, logCapacity, aggregates[root]),
                               rebalancingRange(x, logCapacity, aggregates[root]))
                BY <3>2, <4>2, <4>4, NodesApart
            <4> QED
                BY <3>6, <4>3, <4>4, <4>5 DEF x
        <3> HIDE DEF task, sum
        <3>11. sum \in Nat
            BY <3>8, <3>9 DEF sum
        <3>12. /\ rebalancingTasks' \in Seq(Tasks) /\ Len(rebalancingTasks') = K + 1
               /\ rebalancingTasks'[K + 1] = task
               /\ \A k \in 1 .. K : rebalancingTasks'[k] = rebalancingTasks[k]
               /\ rebalancingTasks' # <<>>
            BY <3>1, <3>5, <3>7
        <3>13. /\ prefixNumberOfRebalancingBlocks' \in Seq(Nat)
               /\ Len(prefixNumberOfRebalancingBlocks') = K + 1
               /\ prefixNumberOfRebalancingBlocks'[K + 1] = sum
               /\ \A k \in 1 .. K : prefixNumberOfRebalancingBlocks'[k] = prefixNumberOfRebalancingBlocks[k]
            BY <3>1, <3>7, <3>11, SMTT(60)
        <3>14. \A k \in 1 .. K + 1 : k \in 1 .. K \/ k = K + 1
            BY <3>7
        <3>15. \A k \in 0 .. K : prefixBlocks(k)' = prefixBlocks(k)
            BY <3>7, <3>13 DEF prefixBlocks
        <3>16. ASSUME NEW k \in 1 .. K + 1
               PROVE  prefixNumberOfRebalancingBlocks'[k]
                          = prefixBlocks(k - 1)' + rebalancingTasks'[k].numberOfBlocks
            <4>1. CASE k \in 1 .. K
                <5>1. prefixNumberOfRebalancingBlocks[k]
                          = prefixBlocks(k - 1) + rebalancingTasks[k].numberOfBlocks
                    BY <4>1 DEF TasksOK
                <5>2. k - 1 \in 0 .. K
                    BY <3>7, <4>1
                <5> QED
                    BY <3>12, <3>13, <3>15, <4>1, <5>1, <5>2
            <4>2. CASE k = K + 1
                <5>1. k - 1 = K /\ K \in 0 .. K
                    BY <3>7, <4>2
                <5> QED
                    BY <3>12, <3>13, <3>15, <4>2, <5>1 DEF sum
            <4> QED
                BY <3>14, <4>1, <4>2
        <3>17. TasksApart'
            <4>1. ASSUME NEW j \in 1 .. K + 1, NEW k \in 1 .. K + 1, j # k
                  PROVE  /\ rebalancingTasks'[j].rootNode # rebalancingTasks'[k].rootNode
                         /\ ~overlaps(rebalancingTasks'[j].pmaRange, rebalancingTasks'[k].pmaRange)
                <5>1. CASE j \in 1 .. K /\ k \in 1 .. K
                    BY <3>12, <4>1, <5>1 DEF TasksOK, TasksApart
                <5>2. CASE j \in 1 .. K /\ k = K + 1
                    BY <3>6, <3>10, <3>12, <5>2
                <5>3. CASE j = K + 1 /\ k \in 1 .. K
                    BY <3>6, <3>10, <3>12, <5>3
                <5> QED
                    BY <3>14, <4>1, <5>1, <5>2, <5>3
            <4>2. ASSUME NEW k \in 1 .. K + 1
                  PROVE  rebalancingTasks'[k].numberOfBlocks <= length(rebalancingTasks'[k].pmaRange)
                <5>1. CASE k \in 1 .. K
                    BY <3>12, <5>1 DEF TasksOK, TasksApart
                <5>2. CASE k = K + 1
                    BY <3>3, <3>6, <3>12, <5>2
                <5> QED
                    BY <3>14, <5>1, <5>2
            <4> QED
                BY <3>12, <4>1, <4>2 DEF TasksApart
        <3> QED
            BY <2>1, <3>12, <3>13, <3>16, <3>17 DEF TasksOK
    <2> QED
        BY <2>2, <2>3
<1>7. CASE endCollect
    <2>1. UNCHANGED taskVars /\ phase' = IF rebalancingTasks = <<>> THEN "idle" ELSE "distribute"
        BY <1>7 DEF endCollect, managerVars
    <2> QED
        BY <1>2, <2>1, TasksKept
<1>8. CASE distributeStep
    <2>1. phase = "distribute" /\ phase' = "rebalance" /\ UNCHANGED taskVars
        BY <1>8 DEF distributeStep, distribute, managerVars
    <2> QED
        BY <1>2, <2>1, TasksKept DEF TasksOK
<1>9. ASSUME NEW t \in Threads, threadStep(t) PROVE TasksOK'
    <2>1. phase \in {"rebalance", "clear", "rewrite"} /\ phase' = phase /\ UNCHANGED taskVars
        BY <1>9 DEF threadStep, rebalanceBlocks, clearBufferBlockPointers, rewriteBlocks,
           managerVars
    <2> QED
        BY <1>2, <2>1, TasksKept DEF TasksOK
<1>10. CASE endRebalance \/ resizeMainPma
    <2>1. /\ phase \in {"rebalance", "clear"} /\ phase' \in {"clear", "rewrite"}
          /\ UNCHANGED taskVars
        BY <1>10 DEF endRebalance, resizeMainPma, managerVars
    <2> QED
        BY <1>2, <2>1, TasksKept DEF TasksOK
<1>11. CASE endRewrite
    <2>1. rebalancingTasks' = <<>> /\ prefixNumberOfRebalancingBlocks' = <<>> /\ phase' = "idle"
        BY <1>11 DEF endRewrite
    <2>2. 1 .. Len(<<>>) = {}
        OBVIOUS
    <2> QED
        BY <2>1, <2>2, SMTT(60) DEF TasksOK, TasksApart
<1>12. CASE UNCHANGED vars
    <2>1. UNCHANGED <<phase, taskVars>>
        BY <1>12 DEF vars, managerVars
    <2> QED
        BY <1>2, <2>1, TasksKept DEF TasksOK
<1> QED
    BY <1>3, <1>4, <1>5, <1>6, <1>7, <1>8, <1>9, <1>10, <1>11, <1>12
    DEF Next, managerStep, executionStep
-----------------------------------------------------------------------------
(* Where the tasks end, and the work of B-9.                               *)

\* Only the task of the super root reaches beyond the tree, it is the last one, and
\* resize() has made room for it before B-9 writes.
LEMMA EndsStep ==
    ASSUME Inv, [Next]_vars
    PROVE  EndsOK'
<1> USE DEF Inv
<1>1. /\ TasksOK' /\ TreeOK'
    BY TasksStep, TreeStep
<1>2. logCapacity \in Nat \ {0} /\ Pow2[logCapacity] \in Nat
    BY Pow2Defined DEF TreeOK
<1>3. ASSUME rebalancingTasks' = <<>> PROVE EndsOK'
    <2>1. 1 .. Len(rebalancingTasks') = {}
        BY <1>3
    <2> QED
        BY <2>1 DEF EndsOK
<1>4. CASE phase' \in {"idle", "update"}
    BY <1>1, <1>3, <1>4 DEF TasksOK
<1>5. CASE finishUpdate
    BY <1>3, <1>5 DEF finishUpdate, taskVars, TasksOK
<1>6. CASE collectTask
    <2> DEFINE node == Head(rebalancingNodes)
               task == getRebalancingTask(node)
               K == Len(rebalancingTasks)
    <2>1. /\ phase = "collect" /\ phase' = "collect" /\ rebalancingNodes # <<>>
          /\ UNCHANGED logCapacity
        BY <1>6 DEF collectTask
    <2>2. \A k \in 1 .. K :
             \/ rebalancingTasks[k].pmaRange.right <= SegmentWidth * Pow2[logCapacity]
             \/ rebalancingTasks[k].rootNode = superRoot
        BY <2>1 DEF EndsOK
    <2>3. superRoot' = superRoot
        BY <2>1 DEF superRoot
    <2>4. CASE rebalancingTasks' = rebalancingTasks
        BY <2>1, <2>2, <2>3, <2>4 DEF EndsOK
    <2>5. CASE rebalancingTasks' = Append(rebalancingTasks, task)
        <3>1. node \in TreeNodes(logCapacity)
            BY <2>1, SMTT(60) DEF TreeOK
        <3>2. node.level \in Nat
            BY <1>2, <3>1, NodeOfTree
        <3>3. /\ task.rootNode = node
              /\ task.pmaRange = rebalancingRange(node, logCapacity, aggregates[root])
            BY DEF getRebalancingTask
        <3>4. \/ task.pmaRange.right <= SegmentWidth * Pow2[logCapacity]
              \/ task.rootNode = superRoot
            <4>1. CASE node.level <= logCapacity
                BY <3>1, <3>3, <4>1, TaskOfNode
            <4>2. CASE ~(node.level <= logCapacity)
                <5>1. node.level > logCapacity
                    BY <1>2, <3>2, <4>2, SMTT(60)
                <5> QED
                    BY <3>1, <3>3, <5>1, TaskOfNode
            <4> QED
                BY <4>1, <4>2
        <3> HIDE DEF task
        <3>5. /\ Len(rebalancingTasks') = K + 1 /\ rebalancingTasks'[K + 1] = task
              /\ \A k \in 1 .. K : rebalancingTasks'[k] = rebalancingTasks[k]
              /\ \A k \in 1 .. K + 1 : k \in 1 .. K \/ k = K + 1
            BY <2>5 DEF TasksOK
        <3> HIDE DEF K
        <3> QED
            BY <2>1, <2>2, <2>3, <3>4, <3>5 DEF EndsOK
    <2> QED
        BY <1>6, <2>4, <2>5 DEF collectTask, taskVars
<1>7. CASE endCollect /\ phase' = "distribute"
    <2>1. /\ phase = "collect" /\ UNCHANGED <<rebalancingTasks, logCapacity>>
        BY <1>7 DEF endCollect, managerVars, taskVars
    <2> DEFINE K == Len(rebalancingTasks)
    <2>2. ASSUME NEW k \in 1 .. K, rebalancingTasks[k].rootNode = superRoot
          PROVE  k = K
        <3> SUFFICES ASSUME k # K PROVE FALSE
            OBVIOUS
        <3>1. K \in 1 .. K
            BY DEF TasksOK
        <3> DEFINE x == rebalancingTasks[K].rootNode
        <3>2. /\ x \in rebalanced /\ Ancestors(x, logCapacity) \cap rebalanced = {}
              /\ superRoot \in rebalanced
            BY <2>1, <2>2, <3>1 DEF CollectOK
        <3>3. x # superRoot
            BY <2>2, <3>1 DEF TasksOK, TasksApart
        <3>4. x \in TreeNodes(logCapacity)
            BY <3>2 DEF TreeOK
        <3> HIDE DEF x
        <3>5. x = Node(x.level, x.index) /\ OnLevel(logCapacity, x.level, x.index)
            BY <1>2, <3>3, <3>4, NodeOfTree, SMTT(60) DEF superRoot
        <3>6. superRoot \in Ancestors(x, logCapacity)
            BY <1>2, <3>5, SuperRootAbove DEF superRoot
        <3> QED
            BY <3>2, <3>6
    <2> QED
        BY <1>7, <2>1, <2>2 DEF EndsOK
<1>8. CASE distributeStep
    <2> DEFINE K == Len(rebalancingTasks)
               right == rebalancingTasks[K].pmaRange.right
    <2>1. /\ phase = "distribute" /\ phase' = "rebalance"
          /\ newPmaSize' = Larger(size, right)
          /\ UNCHANGED <<rebalancingTasks, logCapacity>>
        BY <1>8 DEF distributeStep, distribute, managerVars, taskVars
    <2>2. K \in 1 .. K
        BY <2>1 DEF TasksOK
    <2>3. right \in Nat /\ size \in Nat
        BY <2>2, TaskTyped DEF ArraysOK
    <2> HIDE DEF right
    <2>4. right <= newPmaSize'
        BY <2>1, <2>3 DEF Larger
    <2>5. \A k \in 1 .. K : \/ rebalancingTasks[k].pmaRange.right <= SegmentWidth * Pow2[logCapacity]
                            \/ k = K
        BY <2>1 DEF EndsOK
    <2> QED
        BY <2>1, <2>4, <2>5 DEF EndsOK, right
<1>9. ASSUME NEW t \in Threads, threadStep(t) PROVE EndsOK'
    <2>1. /\ phase \in {"rebalance", "clear", "rewrite"} /\ phase' = phase
          /\ UNCHANGED <<rebalancingTasks, logCapacity, newPmaSize>>
        BY <1>9 DEF threadStep, rebalanceBlocks, clearBufferBlockPointers, rewriteBlocks,
           managerVars, taskVars
    <2> QED
        BY <2>1 DEF EndsOK
<1>10. CASE endRebalance
    <2> DEFINE n == newPmaSize
               w == Pow2[logCapacity']
    <2>1. /\ phase = "rebalance" /\ phase' = "clear"
          /\ UNCHANGED <<rebalancingTasks, newPmaSize>>
        BY <1>10 DEF endRebalance, taskVars
    <2>2. /\ n \div SegmentWidth + 1 <= w /\ logCapacity' \in Nat
        BY <1>1, <2>1 DEF TreeOK, sdsSize, lowestLevelNodeIndex
    <2>3. n \in Nat /\ w \in Nat /\ SegmentWidth \in Nat \ {0}
        BY <2>2, Pow2Defined, GeometryAssumption DEF ArraysOK
    <2>4. n <= SegmentWidth * w
        <3> DEFINE q == n \div SegmentWidth
        <3>1. q \in Nat /\ n < SegmentWidth * q + SegmentWidth
            BY <2>3, DivBounds
        <3> HIDE DEF q, n, w
        <3>2. SegmentWidth * q + SegmentWidth = SegmentWidth * (q + 1)
            BY <2>3, <3>1
        <3>3. SegmentWidth * (q + 1) <= SegmentWidth * w
            BY <2>2, <2>3, <3>1 DEF q
        <3>4. SegmentWidth * (q + 1) \in Nat /\ SegmentWidth * w \in Nat
            BY <2>3, <3>1
        <3> QED
            BY <2>3, <3>1, <3>2, <3>3, <3>4, SMTT(60)
    <2>5. SegmentWidth * Pow2[logCapacity] <= SegmentWidth * w
        <3>1. logCapacity <= logCapacity'
            <4> DEFINE m == lowestLevelNodeIndex(newPmaSize) + 1
                       newLog == CHOOSE l \in logCapacity .. logCapacity + m :
                         /\ Pow2[l] > m
                         /\ \A k \in logCapacity .. l - 1 : Pow2[k] <= m
            <4>1. m \in Nat
                BY DivBounds, GeometryAssumption, SMTT(60) DEF lowestLevelNodeIndex, ArraysOK
            <4>2. newLog \in logCapacity .. logCapacity + m
                BY <1>2, <4>1, HeightFound
            <4>3. logCapacity' \in {logCapacity, newLog}
                BY <1>10 DEF endRebalance, resize
            <4> HIDE DEF m, newLog
            <4> QED
                BY <1>2, <4>1, <4>2, <4>3, SMTT(60)
        <3>2. Pow2[logCapacity] <= w
            BY <1>2, <2>2, <3>1, Pow2Monotone
        <3> HIDE DEF w
        <3> QED
            BY <1>2, <2>3, <3>2
    <2>6. SegmentWidth * w \in Nat /\ SegmentWidth * Pow2[logCapacity] \in Nat
        BY <1>2, <2>3
    <2>7. \A k \in 1 .. Len(rebalancingTasks) :
             /\ rebalancingTasks[k].pmaRange.right \in Nat
             /\ \/ rebalancingTasks[k].pmaRange.right <= SegmentWidth * Pow2[logCapacity]
                \/ rebalancingTasks[k].pmaRange.right <= n
        BY <2>1, TaskTyped DEF EndsOK
    <2>8. \A k \in 1 .. Len(rebalancingTasks) :
             rebalancingTasks[k].pmaRange.right <= SegmentWidth * w
        <3> HIDE DEF n, w
        <3> QED
            BY <2>3, <2>4, <2>5, <2>6, <2>7, SMTT(60)
    <2> QED
        BY <2>1, <2>8 DEF EndsOK
<1>11. CASE resizeMainPma
    <2>1. phase = "clear" /\ UNCHANGED <<rebalancingTasks, logCapacity>>
        BY <1>11 DEF resizeMainPma, managerVars, taskVars
    <2> QED
        BY <2>1 DEF EndsOK
<1>12. CASE UNCHANGED vars
    <2>1. UNCHANGED <<phase, rebalancingTasks, logCapacity, newPmaSize>> /\ superRoot' = superRoot
        BY <1>12 DEF vars, managerVars, taskVars, rebalanceVars, superRoot
    <2> QED
        BY <2>1 DEF EndsOK
<1>13. \/ phase' \in {"idle", "update"} \/ finishUpdate \/ collectTask
       \/ (endCollect /\ phase' = "distribute") \/ distributeStep
       \/ (\E t \in Threads : threadStep(t)) \/ endRebalance \/ resizeMainPma \/ UNCHANGED vars
    BY DEF Next, insertBatch, insertBlocks, managerStep, updateNode, nextLevel, endCollect,
           executionStep, endRewrite
<1> QED
    BY <1>4, <1>5, <1>6, <1>7, <1>8, <1>9, <1>10, <1>11, <1>12, <1>13

\* rewriteBlocks works off the pieces of a thread in order and to their end.
LEMMA WorkStep ==
    ASSUME Inv, [Next]_vars
    PROVE  WorkOK'
<1> USE DEF Inv
<1>1. CASE resizeMainPma
    <2>1. /\ phase = "clear" /\ UNCHANGED taskVars
          /\ work' = [t \in Threads |-> rewritingPieces(t)]
        BY <1>1 DEF resizeMainPma, managerVars
    <2>2. rebalancingTasks # <<>>
        BY <2>1 DEF TasksOK
    <2> SUFFICES ASSUME NEW t \in Threads PROVE IsRest(t, work'[t])
        BY <2>1, SameRest DEF WorkOK
    <2> DEFINE range == rebalancingTaskRange(t)
    <2>3. range.left \in Nat \ {0} /\ range.right \in Nat /\ range.left <= range.right
        BY <2>2, TaskRangeIs
    <2>4. work'[t] = [n \in 1 .. length(range) |-> rewritingPiece(t, range.left + n - 1)]
        BY <2>1 DEF rewritingPieces
    <2>5. PICK l \in Nat, r \in Nat : l = range.left /\ r = range.right
        BY <2>3
    <2>6. l <= r /\ length(range) = r - l /\ r - l \in Nat
        BY <2>3, <2>5 DEF length
    <2>7. \A n \in 1 .. r - l : l + n - 1 \in l .. r - 1 /\ r - (r - l) + n - 1 = l + n - 1
        BY <2>6
    <2>8. \A n \in 1 .. r - l : rewritingPiece(t, l + n - 1) \in Rewrites
        BY <2>2, <2>5, <2>7, PieceIsShare
    <2>9. \A n \in 1 .. r - l : rewritingPiece(t, l + n - 1).number = 0
        BY DEF rewritingPiece, partialRewriting, fullRewriting, Rewrite
    <2>10. work'[t] \in Seq(Rewrites) /\ Len(work'[t]) = r - l
          /\ \A n \in 1 .. r - l : work'[t][n] = rewritingPiece(t, l + n - 1)
        BY <2>4, <2>5, <2>6, <2>8, SMTT(60)
    <2>11. \A n \in 1 .. r - l : rewritingPiece(t, l + n - 1).number <= rewritingPiece(t, l + n - 1).blocks
        <3>1. \A p \in Rewrites : p.number = 0 => p.number <= p.blocks
            BY DEF Rewrites
        <3> QED
            BY <2>8, <2>9, <3>1
    <2>12. Len(work'[t]) <= length(range)
        BY <2>6, <2>10
    <2>13. ASSUME NEW n \in 1 .. Len(work'[t])
           PROVE  LET k == range.right - Len(work'[t]) + n - 1
                  IN  work'[t][n] = rewritingPiece(t, k) /\ work'[t][n].number <= rewritingPiece(t, k).blocks
        <3>1. n \in 1 .. r - l
            BY <2>10
        <3>2. range.right - Len(work'[t]) + n - 1 = l + n - 1
            BY <2>5, <2>7, <2>10, <3>1
        <3> QED
            BY <2>10, <2>11, <3>1, <3>2
    <2> QED
        BY <2>10, <2>12, <2>13 DEF IsRest
<1>2. ASSUME NEW u \in Threads, rewriteBlocks(u) PROVE WorkOK'
    <2> DEFINE p == Head(work[u])
    <2>1. /\ phase = "rewrite" /\ work[u] # <<>> /\ UNCHANGED taskVars
        BY <1>2 DEF rewriteBlocks, managerVars
    <2>3. \/ p.number < p.blocks /\ work' = [work EXCEPT ![u][1].number = @ + 1]
          \/ work' = [work EXCEPT ![u] = Tail(@)]
        BY <1>2 DEF rewriteBlocks
    <2>4. DOMAIN work = Threads
        BY DEF ArraysOK
    <2> SUFFICES ASSUME NEW t \in Threads PROVE IsRest(t, work'[t])
        BY <2>1, SameRest DEF WorkOK
    <2> DEFINE range == rebalancingTaskRange(t)
               Is(k) == rewritingPiece(t, k)
    <2>5. /\ work[t] \in Seq(Rewrites)
          /\ Len(work[t]) <= length(range)
          /\ \A n \in 1 .. Len(work[t]) :
                LET k == range.right - Len(work[t]) + n - 1
                IN  /\ work[t][n].from = Is(k).from
                    /\ work[t][n].range = Is(k).range
                    /\ work[t][n].blocks = Is(k).blocks
                    /\ work[t][n].number <= Is(k).blocks
        BY <2>1 DEF WorkOK, IsRest
    <2> HIDE DEF Is
    <2>6. CASE t # u
        <3>1. work'[t] = work[t]
            BY <2>3, <2>4, <2>6
        <3> QED
            BY <2>5, <3>1 DEF Is, IsRest
    <2>7. CASE t = u /\ work' = [work EXCEPT ![u] = Tail(@)]
        <3> DEFINE L == Len(work[t])
        <3>1. /\ rebalancingTasks # <<>>
            BY <2>1 DEF TasksOK
        <3>2. range.left \in Nat /\ range.right \in Nat
            BY <3>1, TaskRangeIs
        <3>3. work'[t] = Tail(work[t])
            BY <2>4, <2>7
        <3>4. /\ L \in Nat \ {0} /\ Len(work'[t]) = L - 1 /\ work'[t] \in Seq(Rewrites)
              /\ \A n \in 1 .. L - 1 : work'[t][n] = work[t][n + 1]
            <4>1. work[t] \in Seq(Rewrites) /\ work[t] # <<>>
                BY <2>1, <2>5, <2>7
            <4>2. \A s \in Seq(Rewrites) : s # <<>> =>
                     /\ Len(s) \in Nat \ {0} /\ Len(Tail(s)) = Len(s) - 1 /\ Tail(s) \in Seq(Rewrites)
                     /\ \A n \in 1 .. Len(s) - 1 : Tail(s)[n] = s[n + 1]
                OBVIOUS
            <4> QED
                BY <3>3, <4>1, <4>2
        <3>5. PICK l \in Nat, r \in Nat : l = range.left /\ r = range.right
            BY <3>2
        <3>6. length(range) = r - l
            BY <3>5 DEF length
        <3> HIDE DEF range, L
        <3>7. L - 1 <= r - l
            BY <2>5, <3>4, <3>6, SMTT(60) DEF L
        <3>8. \A n \in 1 .. L - 1 : n + 1 \in 1 .. L /\ r - (L - 1) + n - 1 = r - L + (n + 1) - 1
            BY <3>4
        <3>9. Len(work'[t]) <= length(range)
            BY <3>4, <3>6, <3>7
        <3>10. ASSUME NEW n \in 1 .. L - 1
              PROVE  LET k == range.right - Len(work'[t]) + n - 1
                     IN  /\ work'[t][n].from = Is(k).from
                         /\ work'[t][n].range = Is(k).range
                         /\ work'[t][n].blocks = Is(k).blocks
                         /\ work'[t][n].number <= Is(k).blocks
            <4>1. PICK m \in 1 .. L : m = n + 1
                BY <3>8
            <4>2. work'[t][n] = work[t][m]
                BY <3>4, <4>1
            <4>3. range.right - Len(work'[t]) + n - 1 = range.right - L + m - 1
                BY <3>4, <3>5, <3>8, <4>1
            <4> QED
                BY <2>5, <4>2, <4>3 DEF L
        <3>11. 1 .. Len(work'[t]) = 1 .. L - 1
            BY <3>4
        <3> QED
            BY <3>4, <3>9, <3>10, <3>11 DEF Is, IsRest, range
    <2>8. CASE t = u /\ p.number < p.blocks /\ work' = [work EXCEPT ![u][1].number = @ + 1]
        <3> DEFINE q == [work[t][1] EXCEPT !.number = @ + 1]
        <3>1. work'[t] = [work[t] EXCEPT ![1] = q]
            BY <2>4, <2>8
        <3>2. 1 \in 1 .. Len(work[t]) /\ work[t][1] \in Rewrites /\ p = work[t][1]
            BY <2>1, <2>5, <2>8, SMTT(60)
        <3>3. /\ q \in Rewrites /\ q.from = work[t][1].from /\ q.range = work[t][1].range
              /\ q.blocks = work[t][1].blocks /\ q.number <= work[t][1].blocks
            <4>1. p \in Rewrites /\ p.number < p.blocks
                BY <2>8, <3>2
            <4> HIDE DEF p
            <4>2. q = [p EXCEPT !.number = @ + 1]
                BY <3>2
            <4> HIDE DEF q
            <4>3. /\ q \in Rewrites /\ q.from = p.from /\ q.range = p.range
                  /\ q.blocks = p.blocks /\ q.number <= p.blocks
                BY <4>1, <4>2, OneMoreWritten
            <4> QED
                BY <3>2, <4>3
        <3> HIDE DEF q
        <3>4. /\ work'[t] \in Seq(Rewrites) /\ Len(work'[t]) = Len(work[t])
              /\ \A n \in 1 .. Len(work[t]) : work'[t][n] = IF n = 1 THEN q ELSE work[t][n]
            <4>1. work[t] \in Seq(Rewrites) /\ 1 \in 1 .. Len(work[t]) /\ q \in Rewrites
                BY <2>5, <3>2, <3>3
            <4>2. LET r == [work[t] EXCEPT ![1] = q]
                  IN  /\ r \in Seq(Rewrites) /\ Len(r) = Len(work[t])
                      /\ \A n \in 1 .. Len(work[t]) : r[n] = IF n = 1 THEN q ELSE work[t][n]
                BY <4>1, FirstReplaced, SMTT(60)
            <4> QED
                BY <3>1, <4>2
        <3> HIDE DEF range
        <3>5. ASSUME NEW n \in 1 .. Len(work[t])
              PROVE  LET k == range.right - Len(work[t]) + n - 1
                     IN  /\ work'[t][n].from = Is(k).from
                         /\ work'[t][n].range = Is(k).range
                         /\ work'[t][n].blocks = Is(k).blocks
                         /\ work'[t][n].number <= Is(k).blocks
            <4>1. CASE n = 1
                BY <2>5, <3>3, <3>4, <4>1
            <4>2. CASE n # 1
                BY <2>5, <3>4, <4>2
            <4> QED
                BY <4>1, <4>2
        <3> QED
            BY <2>5, <3>4, <3>5 DEF Is, IsRest, range
    <2> QED
        BY <2>3, <2>6, <2>7, <2>8
<1>3. CASE UNCHANGED vars
    <2>1. UNCHANGED <<phase, work, taskVars>>
        BY <1>3 DEF vars, managerVars, rebalanceVars
    <2>2. \A t \in Threads : IsRest(t, work[t])' <=> IsRest(t, work[t])
        BY <2>1, SameRest
    <2> QED
        BY <2>1, <2>2 DEF WorkOK
<1>4. CASE phase' # "rewrite"
    BY <1>4 DEF WorkOK
<1>5. resizeMainPma \/ (\E u \in Threads : rewriteBlocks(u)) \/ UNCHANGED vars \/ phase' # "rewrite"
    BY DEF Next, insertBatch, insertBlocks, managerStep, updateNode, nextLevel, finishUpdate,
           collectTask, endCollect, distributeStep, distribute, executionStep, threadStep,
           rebalanceBlocks, clearBufferBlockPointers, endRebalance, endRewrite
<1> QED
    BY <1>1, <1>2, <1>3, <1>4, <1>5
-----------------------------------------------------------------------------
(* The theorems.                                                           *)

\* The threads take their blocks one thread after the other.
LEMMA ThreadsInOrder ==
    ASSUME TasksOK, NEW t \in Threads, NEW u \in Threads, t < u
    PROVE  rebalancingBlockRange(t).right <= rebalancingBlockRange(u).left
<1> DEFINE total == numberOfBlocksToRebalance
           perThread == total \div NumThreads + 1
<1>1. total \in Nat
    BY BlockRangeIs
<1>2. t \in Nat /\ u \in Nat /\ NumThreads \in Nat \ {0}
    BY ThreadsAssumption DEF Threads
<1> HIDE DEF total
<1>3. perThread \in Nat
    BY <1>1, <1>2, DivBounds, SMTT(60)
<1>4. /\ rebalancingBlockRange(t).right = Smaller(total, (t + 1) * perThread)
      /\ rebalancingBlockRange(u).left = u * perThread
    BY DEF rebalancingBlockRange, ThreadBlockRange, Interval, total
<1> HIDE DEF perThread
<1>5. (t + 1) * perThread <= u * perThread
    <2>1. t + 1 \in Int /\ u \in Int /\ t + 1 <= u
        BY <1>2
    <2> QED
        BY <1>3, <2>1, MulMonotone
<1>6. (t + 1) * perThread \in Nat /\ u * perThread \in Nat
    BY <1>2, <1>3
<1> QED
    BY <1>1, <1>4, <1>5, <1>6 DEF Smaller

\* Two shares of one task, the first of which ends before the other begins.
LEMMA SharesApart ==
    ASSUME TasksOK, NEW k \in 1 .. Len(rebalancingTasks),
           NEW t \in Threads, NEW p \in Rewrites, NEW a \in Nat, NEW b \in Nat, IsShare(t, k, p, a, b),
           NEW u \in Threads, NEW q \in Rewrites, NEW c \in Nat, NEW d \in Nat, IsShare(u, k, q, c, d),
           b <= c
    PROVE  /\ p.range.right <= q.range.left
           /\ p.from + p.blocks <= q.from
<1> DEFINE task == rebalancingTasks[k]
           write(n) == getUniformWriteIndex(task.pmaRange.left, n, length(task.pmaRange),
                                            task.numberOfBlocks)
<1>1. /\ p.range.right = write(b) /\ q.range.left = write(c)
      /\ p.from = task.pmaRange.left + a /\ p.blocks = b - a
      /\ q.from = task.pmaRange.left + c
      /\ a < b /\ c < d /\ d <= task.numberOfBlocks
    <2>1. /\ p.range = Interval(write(a), write(b)) /\ q.range = Interval(write(c), write(d))
          /\ p.from = task.pmaRange.left + a /\ p.blocks = b - a
          /\ q.from = task.pmaRange.left + c
          /\ a < b /\ c < d /\ d <= task.numberOfBlocks
        BY DEF IsShare
    <2> HIDE DEF write, task
    <2>2. /\ Interval(write(a), write(b)).right = write(b)
          /\ Interval(write(c), write(d)).left = write(c)
        BY IntervalEnds
    <2> QED
        BY <2>1, <2>2
<1>2. /\ task.pmaRange.left \in Nat /\ task.pmaRange.right \in Nat
      /\ task.pmaRange.left <= task.pmaRange.right /\ task.numberOfBlocks \in Nat
    BY TaskTyped
<1>3. /\ task.numberOfBlocks <= length(task.pmaRange)
      /\ length(task.pmaRange) = task.pmaRange.right - task.pmaRange.left
    BY DEF TasksOK, TasksApart, length
<1>4. PICK left \in Nat, L \in Nat, N \in Nat :
        left = task.pmaRange.left /\ L = length(task.pmaRange) /\ N = task.numberOfBlocks
    <2>1. length(task.pmaRange) \in Nat
        BY <1>2, <1>3
    <2> QED
        BY <1>2, <2>1
<1> HIDE DEF task
<1>5. d <= N /\ c < d /\ N <= L
    BY <1>1, <1>3, <1>4
<1>6. c <= N /\ N \in Nat \ {0}
    BY <1>5
<1>7. /\ write(b) \in Nat /\ write(c) \in Nat
      /\ write(b) + (c - b) <= write(c)
    <2>1. LET w(i) == getUniformWriteIndex(left, i, L, N)
          IN  /\ w(b) \in Nat /\ w(c) \in Nat
              /\ w(b) + (c - b) <= w(c)
        BY <1>5, <1>6, WriteIndexSpread
    <2> QED
        BY <1>4, <2>1
<1> HIDE DEF write
<1>8. write(b) <= write(c)
    BY <1>7
<1>9. (left + a) + (b - a) <= left + c
    OBVIOUS
<1> QED
    BY <1>1, <1>4, <1>8, <1>9

\* Intervals inside disjoint intervals are disjoint.
LEMMA InnerApart ==
    ASSUME NEW a \in Nat, NEW b \in Nat, NEW c \in Nat, NEW d \in Nat,
           ~overlaps(Interval(a, b), Interval(c, d)),
           NEW e \in Nat, NEW f \in Nat, a <= e, f <= b, e < f,
           NEW g \in Nat, NEW h \in Nat, c <= g, h <= d, g < h
    PROVE  ~overlaps(Interval(e, f), Interval(g, h))
  BY DEF overlaps, cut, Interval, NullInterval, Larger, Smaller

\* The pieces of B-9 are apart: those of two tasks because the tasks are, those of one
\* task because they belong to two threads, which share no block.
LEMMA RewritesApartHolds ==
    ASSUME Inv
    PROVE  RewritesApart
<1> USE DEF Inv
<1> DEFINE source(p) == Interval(p.from, p.from + p.blocks)
<1> SUFFICES ASSUME phase = "rewrite",
                    NEW t \in Threads, NEW u \in Threads,
                    NEW n \in 1 .. Len(work[t]), NEW m \in 1 .. Len(work[u])
             PROVE  LET p == work[t][n]
                        q == work[u][m]
                    IN  /\ p.blocks <= length(p.range)
                        /\ <<t, n>> # <<u, m>> /\ p.blocks > 0 /\ q.blocks > 0 =>
                              ~overlaps(p.range, q.range) /\ ~overlaps(source(p), source(q))
    BY DEF RewritesApart
<1> DEFINE p == work[t][n]
           q == work[u][m]
           k == taskOf(t, n)
           j == taskOf(u, m)
<1>1. rebalancingTasks # <<>>
    BY DEF TasksOK
<1>2. /\ k \in 1 .. Len(rebalancingTasks) /\ p \in Rewrites
      /\ p.blocks > 0 => \E a, b \in Nat : IsShare(t, k, p, a, b)
    BY <1>1, TaskOfPiece
<1>3. /\ j \in 1 .. Len(rebalancingTasks) /\ q \in Rewrites
      /\ q.blocks > 0 => \E c, d \in Nat : IsShare(u, j, q, c, d)
    BY <1>1, TaskOfPiece
<1>4. t = u /\ n # m => k # j
    <2> SUFFICES ASSUME t = u, n # m PROVE k # j
        OBVIOUS
    <2>1. rebalancingTaskRange(t).right \in Nat /\ Len(work[t]) \in Nat
        <3>1. work[t] \in Seq(Rewrites)
            BY DEF WorkOK, IsRest
        <3>2. Len(work[t]) \in Nat
            BY <3>1
        <3> QED
            BY <1>1, <3>2, TaskRangeIs
    <2> QED
        BY <2>1 DEF taskOf
<1> HIDE DEF p, q, k, j
<1>5. p.blocks <= length(p.range)
    <2>1. CASE p.blocks > 0
        <3>1. PICK a \in Nat, b \in Nat : IsShare(t, k, p, a, b)
            BY <1>2, <2>1
        <3>2. /\ p.blocks \in Nat /\ p.range.left \in Nat /\ p.range.right \in Nat
              /\ p.range.left + p.blocks <= p.range.right
            BY <1>2, <3>1, PieceInTask
        <3> QED
            BY <3>2 DEF length
    <2>2. CASE ~(p.blocks > 0)
        BY <1>2, <2>2, SMTT(60) DEF Rewrites, Intervals, length
    <2> QED
        BY <2>1, <2>2
<1>6. ASSUME <<t, n>> # <<u, m>>, p.blocks > 0, q.blocks > 0
      PROVE  ~overlaps(p.range, q.range) /\ ~overlaps(source(p), source(q))
    <2>1. PICK a \in Nat, b \in Nat : IsShare(t, k, p, a, b)
        BY <1>2, <1>6
    <2>2. PICK c \in Nat, d \in Nat : IsShare(u, j, q, c, d)
        BY <1>3, <1>6
    <2>3. LET task == rebalancingTasks[k]
          IN  /\ p.from \in Nat /\ p.blocks \in Nat
              /\ p.range.left \in Nat /\ p.range.right \in Nat
              /\ p.range = Interval(p.range.left, p.range.right)
              /\ task.pmaRange.left <= p.range.left /\ p.range.right <= task.pmaRange.right
              /\ p.range.left + p.blocks <= p.range.right
              /\ task.pmaRange.left <= p.from /\ p.from + p.blocks <= task.pmaRange.right
        BY <1>2, <2>1, PieceInTask
    <2>4. LET task == rebalancingTasks[j]
          IN  /\ q.from \in Nat /\ q.blocks \in Nat
              /\ q.range.left \in Nat /\ q.range.right \in Nat
              /\ q.range = Interval(q.range.left, q.range.right)
              /\ task.pmaRange.left <= q.range.left /\ q.range.right <= task.pmaRange.right
              /\ q.range.left + q.blocks <= q.range.right
              /\ task.pmaRange.left <= q.from /\ q.from + q.blocks <= task.pmaRange.right
        BY <1>3, <2>2, PieceInTask
    <2>5. PICK pl \in Nat, pr \in Nat, pf \in Nat, pb \in Nat :
            pl = p.range.left /\ pr = p.range.right /\ pf = p.from /\ pb = p.blocks
        BY <2>3
    <2>6. PICK ql \in Nat, qr \in Nat, qf \in Nat, qb \in Nat :
            ql = q.range.left /\ qr = q.range.right /\ qf = q.from /\ qb = q.blocks
        BY <2>4
    <2>7. pb > 0 /\ qb > 0 /\ pl + pb <= pr /\ ql + qb <= qr
        BY <1>6, <2>3, <2>4, <2>5, <2>6
    <2>8. /\ p.range = Interval(pl, pr) /\ q.range = Interval(ql, qr)
          /\ source(p) = Interval(pf, pf + pb) /\ source(q) = Interval(qf, qf + qb)
        BY <2>3, <2>4, <2>5, <2>6
    <2>9. CASE k = j
        <3>1. t # u
            BY <1>4, <1>6, <2>9
        <3>2. /\ rebalancingBlockRange(t).left <= prefixBlocks(k - 1) + a
              /\ prefixBlocks(k - 1) + b <= rebalancingBlockRange(t).right
              /\ rebalancingBlockRange(u).left <= prefixBlocks(k - 1) + c
              /\ prefixBlocks(k - 1) + d <= rebalancingBlockRange(u).right
            BY <2>1, <2>2, <2>9 DEF IsShare
        <3>3. prefixBlocks(k - 1) \in Nat
            BY <1>2, PrefixMonotone, SMTT(60)
        <3>4. /\ rebalancingBlockRange(t).left \in Nat /\ rebalancingBlockRange(t).right \in Nat
              /\ rebalancingBlockRange(u).left \in Nat /\ rebalancingBlockRange(u).right \in Nat
            BY BlockRangeIs
        <3>5. t < u \/ u < t
            BY <3>1 DEF Threads
        <3>6. b <= c \/ d <= a
            <4>1. \/ rebalancingBlockRange(t).right <= rebalancingBlockRange(u).left
                  \/ rebalancingBlockRange(u).right <= rebalancingBlockRange(t).left
                BY <3>5, ThreadsInOrder
            <4>2. PICK x \in Nat, l \in Nat, r \in Nat, v \in Nat, w \in Nat :
                    /\ x = prefixBlocks(k - 1)
                    /\ l = rebalancingBlockRange(t).left /\ r = rebalancingBlockRange(t).right
                    /\ v = rebalancingBlockRange(u).left /\ w = rebalancingBlockRange(u).right
                BY <3>3, <3>4
            <4>3. l <= x + a /\ x + b <= r /\ v <= x + c /\ x + d <= w /\ (r <= v \/ w <= l)
                BY <3>2, <4>1, <4>2
            <4> QED
                BY <4>3, SMTT(60)
        <3>7. \/ pr <= ql /\ pf + pb <= qf
              \/ qr <= pl /\ qf + qb <= pf
            <4>1. CASE b <= c
                <5>1. p.range.right <= q.range.left /\ p.from + p.blocks <= q.from
                    BY <1>2, <1>3, <2>1, <2>2, <2>9, <4>1, SharesApart
                <5> QED
                    BY <2>5, <2>6, <5>1
            <4>2. CASE d <= a
                <5>1. q.range.right <= p.range.left /\ q.from + q.blocks <= p.from
                    BY <1>2, <1>3, <2>1, <2>2, <2>9, <4>2, SharesApart
                <5> QED
                    BY <2>5, <2>6, <5>1
            <4> QED
                BY <3>6, <4>1, <4>2
        <3>8. ~overlaps(Interval(pl, pr), Interval(ql, qr))
            BY <3>7, ApartIntervals
        <3>9. ~overlaps(Interval(pf, pf + pb), Interval(qf, qf + qb))
            <4>1. pf + pb \in Int /\ qf + qb \in Int
                OBVIOUS
            <4> QED
                BY <3>7, <4>1, ApartIntervals
        <3> QED
            BY <2>8, <3>8, <3>9
    <2>10. CASE k # j
        <3> DEFINE tl == rebalancingTasks[k].pmaRange.left
                   tr == rebalancingTasks[k].pmaRange.right
                   ul == rebalancingTasks[j].pmaRange.left
                   ur == rebalancingTasks[j].pmaRange.right
        <3>1. tl \in Nat /\ tr \in Nat /\ rebalancingTasks[k].pmaRange = Interval(tl, tr)
            BY <1>2, TaskTyped
        <3>2. ul \in Nat /\ ur \in Nat /\ rebalancingTasks[j].pmaRange = Interval(ul, ur)
            BY <1>3, TaskTyped
        <3>3. ~overlaps(Interval(tl, tr), Interval(ul, ur))
            <4>1. ~overlaps(rebalancingTasks[k].pmaRange, rebalancingTasks[j].pmaRange)
                BY <1>2, <1>3, <2>10 DEF TasksOK, TasksApart
            <4> QED
                BY <3>1, <3>2, <4>1
        <3>4. /\ tl <= pl /\ pr <= tr /\ tl <= pf /\ pf + pb <= tr
              /\ ul <= ql /\ qr <= ur /\ ul <= qf /\ qf + qb <= ur
            BY <2>3, <2>4, <2>5, <2>6
        <3> HIDE DEF tl, tr, ul, ur
        <3>5. /\ pl < pr /\ ql < qr /\ pf < pf + pb /\ qf < qf + qb
              /\ pf + pb \in Nat /\ qf + qb \in Nat
            BY <2>7, SomeLength, SomeMore
        <3>6. ~overlaps(Interval(pl, pr), Interval(ql, qr))
            BY <3>1, <3>2, <3>3, <3>4, <3>5, InnerApart, SMTT(60)
        <3>7. ~overlaps(Interval(pf, pf + pb), Interval(qf, qf + qb))
            BY <3>1, <3>2, <3>3, <3>4, <3>5, InnerApart
        <3> QED
            BY <2>8, <3>6, <3>7
    <2> QED
        BY <2>9, <2>10
<1> QED
    BY <1>5, <1>6 DEF p, q

\* The constructors establish the invariant.
LEMMA InitInv ==
    ASSUME Init
    PROVE  Inv
<1> USE DEF Init, InitArrays, InitManager, InitRebalance
<1>1. /\ logCapacity \in Nat \ {0} /\ Pow2[logCapacity] \in Nat \ {0}
      /\ capacity \in Nat \ {0} /\ SegmentWidth \in Nat \ {0}
    BY ManagerAssumption, PmaStateAssumption, GeometryAssumption, Pow2Defined
<1>2. ArraysOK
    <2>1. NullInterval \in Intervals
        BY SMTT(60) DEF NullInterval, Interval, Intervals
    <2> QED
        BY <1>1, <2>1, SMTT(60) DEF ArraysOK, Phases, Array, Pointers, NoWork
<1>3. TreeOK
    <2>1. lowestLevelNodeIndex(sdsSize) = 0
        BY <1>1 DEF lowestLevelNodeIndex, sdsSize
    <2>2. aggregates \in [TreeNodes(logCapacity) -> Nat]
        BY DEF NoAggregates
    <2> QED
        BY <1>1, <2>1, <2>2, SMTT(60) DEF TreeOK
<1>4. MapsOK
    BY DEF MapsOK, NoNodes
<1>5. ConsistentOK
    <2> SUFFICES ASSUME NEW l \in 1 .. logCapacity, NEW i \in 0 .. Pow2[logCapacity - l] - 1
                 PROVE  aggregates[Node(l, i)] = Recount(Node(l, i))
        BY DEF ConsistentOK
    <2>1. OnLevel(logCapacity, l, i)
        BY <1>1 DEF OnLevel
    <2>2. OnLevel(logCapacity, l - 1, leftChild(i)) /\ OnLevel(logCapacity, l - 1, rightChild(i))
        BY <1>1, <2>1, ChildrenOnLevel
    <2>3. /\ Node(l, i) \in TreeNodes(logCapacity)
          /\ Node(l - 1, leftChild(i)) \in TreeNodes(logCapacity)
          /\ Node(l - 1, rightChild(i)) \in TreeNodes(logCapacity)
        BY <1>1, <2>1, <2>2, NodeIsInTree
    <2>4. /\ aggregates[Node(l, i)] = 0
          /\ aggregates[Node(l - 1, leftChild(i))] = 0
          /\ aggregates[Node(l - 1, rightChild(i))] = 0
        BY <2>3 DEF NoAggregates
    <2>5. Node(l, i).level = l /\ Node(l, i).index = i /\ l # 0
        BY DEF Node
    <2>6. Recount(Node(l, i)) = aggregates[Node(l - 1, leftChild(i))]
                                    + aggregates[Node(l - 1, rightChild(i))]
        BY <2>5 DEF Recount
    <2> QED
        BY <2>4, <2>6, NothingAdded
<1>6. NodesOK /\ CollectOK
    BY SMTT(60) DEF NodesOK, CollectOK
<1>7. TasksOK /\ EndsOK
    BY DEF TasksOK, TasksApart, EndsOK
<1>8. WorkOK
    BY DEF WorkOK
<1> QED
    BY <1>2, <1>3, <1>4, <1>5, <1>6, <1>7, <1>8 DEF Inv

\* The invariant holds in every state of every execution of insertBatch.
THEOREM InvHolds == Spec => []Inv
<1>1. Init => Inv
    BY InitInv
<1>2. Inv /\ [Next]_vars => Inv'
    <2> SUFFICES ASSUME Inv, [Next]_vars PROVE Inv'
        OBVIOUS
    <2>1. ArraysOK' /\ TreeOK' /\ MapsOK'
        BY ArraysStep, TreeStep, MapsStep
    <2>2. ConsistentOK' /\ NodesOK' /\ CollectOK'
        BY ConsistentStep, NodesStep, CollectStep
    <2>3. TasksOK' /\ EndsOK' /\ WorkOK'
        BY TasksStep, EndsStep, WorkStep
    <2> QED
        BY <2>1, <2>2, <2>3 DEF Inv
<1> QED
    BY <1>1, <1>2, PTL DEF Spec

\* Outside of update() the tree is consistent, the tasks of B-3 do not overlap ("Duplicate
\* rebalancing task!", "Overlapping rebalancing task!") and have room for their blocks, and
\* in B-9 no two pieces of work, of one thread or of two, read the same entry of the
\* swap array or write the same entry of the pma: for any number of threads, any
\* thresholds and any sequence of batches.
THEOREM TasksSoundHolds == Spec => []TasksSound
<1>1. Inv => TreeConsistent
    BY DEF Inv, ConsistentOK, TreeConsistent
<1>2. Inv => TasksApart
    BY DEF Inv, TasksOK
<1>3. Inv => RewritesApart
    BY RewritesApartHolds
<1>4. Inv => TasksSound
    BY <1>1, <1>2, <1>3 DEF TasksSound
<1> QED
    BY <1>4, InvHolds, PTL
=============================================================================
