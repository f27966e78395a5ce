---------------------------- MODULE SearchProofs ----------------------------
(***************************************************************************)
(* The searches find what they promise in every array of increasing heads  *)
(* and in every sorted batch, of any length and with any cutoff.           *)
(***************************************************************************)
EXTENDS MCSearch, FiniteSetTheorems, WellFoundedInduction, TLAPS

\* The provers that a leaf is given to, and for how long.
USE ZenonT(60), SMTT(60)

\* The heads of n blocks; the ones that are not empty increase.
HeadArray(h, n) ==
    /\ n \in Nat
    /\ h \in [0 .. n - 1 -> Nat]
    /\ \A i, j \in 0 .. n - 1 : i < j /\ h[i] # 0 /\ h[j] # 0 => h[i] < h[j]

\* Entry b is not empty and its head is at most e.
Takes(h, n, e, b) == b \in 0 .. n - 1 /\ h[b] # 0 /\ h[b] <= e

\* No entry of from .. to takes e.
NoneTakes(h, n, e, from, to) == \A j \in from .. to : ~Takes(h, n, e, j)
-----------------------------------------------------------------------------
(* Induction and loops, stated about sets and functions so that the        *)
(* provers can apply them: a property is the set of the numbers that have  *)
(* it, the body of a loop is a function from states to states.             *)

\* A set of natural numbers has a least element.
LEMMA LeastNumber ==
    ASSUME NEW S \in SUBSET Nat, S # {}
    PROVE  \E n \in S : \A m \in S : n <= m
<1> DEFINE R == OpToRel(<, Nat)
<1>1. IsWellFoundedOn(R, Nat)
    BY NatLessThanWellFounded
<1>2. \A m, n \in Nat : m < n => <<m, n>> \in R
    BY DEF OpToRel
<1> HIDE DEF R
<1>3. PICK n \in S : \A m \in S : ~ (<<m, n>> \in R)
    BY <1>1, WFMin
<1>4. ASSUME NEW m \in S PROVE n <= m
    <2>1. ~ (m < n)
        BY <1>2, <1>3
    <2> QED
        BY <2>1
<1> QED
    BY <1>4

\* A set with 0 and, for each of its numbers, the next one, has all numbers.
LEMMA InductionOnSet ==
    ASSUME NEW S, 0 \in S, \A n \in Nat : n \in S => n + 1 \in S
    PROVE  \A n \in Nat : n \in S
<1> SUFFICES ASSUME { n \in Nat : n \notin S } # {} PROVE FALSE
    OBVIOUS
<1>1. PICK n \in Nat : n \notin S /\ \A m \in Nat : m \notin S => n <= m
    BY LeastNumber
<1>2. n # 0 /\ n - 1 \in Nat /\ n - 1 \in S
    BY <1>1
<1> QED
    BY <1>1, <1>2

\* A loop: after[n] is the state after n rounds.  The body may depend on the round.
Rounds(after, first, body) ==
    after = [n \in Nat |-> IF n = 0 THEN first ELSE body[n][after[n - 1]]]

\* Every loop whose body maps states to states defines its rounds, and all of them
\* are states.
LEMMA RoundsExist ==
    ASSUME NEW V, NEW first \in V, NEW body \in [Nat -> [V -> V]]
    PROVE  \E after \in [Nat -> V] : Rounds(after, first, body)
<1> DEFINE Upto(n, f) == /\ f \in [0 .. n -> V] /\ f[0] = first
                         /\ \A k \in 1 .. n : f[k] = body[k][f[k - 1]]
           S == { n \in Nat : \E f \in [0 .. n -> V] : Upto(n, f) }
<1>1. 0 \in S
    <2>1. Upto(0, [k \in 0 .. 0 |-> first])
        OBVIOUS
    <2> QED
        BY <2>1
<1>2. ASSUME NEW n \in Nat, n \in S PROVE n + 1 \in S
    <2>1. PICK f \in [0 .. n -> V] : Upto(n, f)
        BY <1>2
    <2> DEFINE g == [k \in 0 .. n + 1 |-> IF k = n + 1 THEN body[n + 1][f[n]] ELSE f[k]]
    <2>2. g \in [0 .. n + 1 -> V]
        BY <2>1, SMTT(60)
    <2>3. /\ \A k \in 0 .. n : g[k] = f[k]
          /\ g[n + 1] = body[n + 1][f[n]]
        OBVIOUS
    <2> HIDE DEF g
    <2>4. ASSUME NEW k \in 1 .. n + 1 PROVE g[k] = body[k][g[k - 1]]
        <3>1. CASE k \in 1 .. n
            BY <2>1, <2>3, <3>1, SMTT(60)
        <3>2. CASE k = n + 1
            BY <2>3, <3>2, SMTT(60)
        <3> QED
            BY <3>1, <3>2, SMTT(60)
    <2>5. Upto(n + 1, g)
        BY <2>1, <2>2, <2>3, <2>4, SMTT(60)
    <2> HIDE DEF Upto
    <2> QED
        BY <2>2, <2>5, SMTT(60)
<1> HIDE DEF S
<1>3. \A n \in Nat : n \in S
    BY <1>1, <1>2, InductionOnSet
<1> DEFINE F(n) == CHOOSE f \in [0 .. n -> V] : Upto(n, f)
<1>4. \A n \in Nat : F(n) \in [0 .. n -> V] /\ Upto(n, F(n))
    BY <1>3 DEF S
<1> HIDE DEF F
\* Two of them agree where both are defined.
<1>5. ASSUME NEW n \in Nat PROVE \A k \in 0 .. n : F(n + 1)[k] = F(n)[k]
    <2> DEFINE T == { k \in Nat : k <= n => F(n + 1)[k] = F(n)[k] }
    <2>1. 0 \in T
        BY <1>4, SMTT(60)
    <2>2. ASSUME NEW k \in Nat, k \in T PROVE k + 1 \in T
        <3> SUFFICES ASSUME k + 1 <= n PROVE F(n + 1)[k + 1] = F(n)[k + 1]
            BY SMTT(60)
        <3>1. /\ F(n + 1)[k + 1] = body[k + 1][F(n + 1)[(k + 1) - 1]]
              /\ F(n)[k + 1] = body[k + 1][F(n)[(k + 1) - 1]]
            BY <1>4, SMTT(60)
        <3> QED
            BY <2>2, <3>1
    <2> HIDE DEF T
    <2>3. \A k \in Nat : k \in T
        BY <2>1, <2>2, InductionOnSet
    <2> QED
        BY <2>3 DEF T
<1> DEFINE after == [n \in Nat |-> F(n)[n]]
<1>6. after \in [Nat -> V]
    BY <1>4, SMTT(60)
<1>7. ASSUME NEW n \in Nat
      PROVE  after[n] = IF n = 0 THEN first ELSE body[n][after[n - 1]]
    <2>1. CASE n = 0
        BY <1>4, <2>1
    <2>2. CASE n # 0
        <3>1. F(n)[n] = body[n][F(n)[n - 1]]
            BY <1>4, <2>2, SMTT(60)
        <3>2. n - 1 \in Nat /\ (n - 1) + 1 = n
            BY <2>2
        <3>3. F(n)[n - 1] = F(n - 1)[n - 1]
            BY <1>5, <3>2, SMTT(60)
        <3> QED
            BY <2>2, <3>1, <3>2, <3>3
    <2> QED
        BY <2>1, <2>2
<1> HIDE DEF after
<1>8. Rounds(after, first, body)
    BY <1>6, <1>7 DEF Rounds
<1> QED
    BY <1>6, <1>8

-----------------------------------------------------------------------------
\* The set operators Min and Max of bounded sets of integers.
LEMMA MinOfSet ==
    ASSUME NEW S, NEW a \in Int, S # {}, \A x \in S : x \in Int /\ a <= x
    PROVE  Min(S) \in S /\ \A x \in S : Min(S) <= x
<1> DEFINE T == { x - a : x \in S }
<1>1. T \in SUBSET Nat /\ T # {}
    BY SMTT(60)
<1>2. PICK m \in T : \A t \in T : m <= t
    BY <1>1, LeastNumber
<1>3. PICK x \in S : m = x - a
    BY <1>2
<1>4. \A y \in S : x <= y
    <2> TAKE y \in S
    <2>1. y - a \in T
        OBVIOUS
    <2>2. m <= y - a
        BY <1>2, <2>1
    <2> HIDE DEF T
    <2> QED
        BY <1>3, <2>2
<1> QED
    BY <1>4 DEF Min

LEMMA MaxOfSet ==
    ASSUME NEW S, NEW a \in Int, S # {}, \A x \in S : x \in Int /\ x <= a
    PROVE  Max(S) \in S /\ \A x \in S : x <= Max(S)
<1> DEFINE T == { a - x : x \in S }
<1>1. T \in SUBSET Nat /\ T # {}
    BY SMTT(60)
<1>2. PICK m \in T : \A t \in T : m <= t
    BY <1>1, LeastNumber
<1>3. PICK x \in S : m = a - x
    BY <1>2
<1>4. \A y \in S : x >= y
    <2> TAKE y \in S
    <2>1. a - y \in T
        OBVIOUS
    <2>2. m <= a - y
        BY <1>2, <2>1
    <2> HIDE DEF T
    <2> QED
        BY <1>3, <2>2
<1>5. Max(S) \in S /\ \A y \in S : Max(S) >= y
    BY <1>4 DEF Max
<1> QED
    BY <1>5

\* An array of n heads has size n.
LEMMA SizeOfArray ==
    ASSUME NEW n \in Nat, NEW h \in [0 .. n - 1 -> Nat]
    PROVE  size(h) = n
<1>1. Cardinality(0 .. n - 1) = n
    BY FS_Interval
<1> QED
    BY <1>1 DEF size

\* An entry is empty outside the array and where its head is NULL_KEY.
LEMMA EmptyEntry ==
    ASSUME NEW n \in Nat, NEW h, HeadArray(h, n), NEW i \in Int
    PROVE  /\ empty(h, i) <=> ~(i \in 0 .. n - 1 /\ h[i] # 0)
           /\ i \in 0 .. n - 1 => h[i] \in Nat /\ head(h, i) = h[i]
BY DEF HeadArray, empty, head

\* The last entry that takes e is the one with no such entry behind it.
LEMMA LastIs ==
    ASSUME NEW n \in Nat, NEW h, HeadArray(h, n), NEW e \in Nat,
           NEW lower \in Nat, NEW upper \in Nat, upper <= n,
           NEW b \in lower .. upper - 1, Takes(h, n, e, b),
           NoneTakes(h, n, e, b + 1, upper - 1)
    PROVE  LastAtMost(h, e, lower, upper) = b
<1> DEFINE found == { i \in lower .. upper - 1 : ~empty(h, i) /\ h[i] <= e }
<1>1. \A i \in lower .. upper - 1 : ~empty(h, i) /\ h[i] <= e <=> Takes(h, n, e, i)
    BY EmptyEntry, SMTT(60) DEF Takes
<1>2. b \in found /\ b \in Int /\ \A i \in found : i \in Int /\ i <= b
    BY <1>1 DEF NoneTakes
<1>3. found # {}
    BY <1>2
<1> HIDE DEF found
<1>4. Max(found) \in found /\ \A i \in found : i <= Max(found)
    BY <1>2, <1>3, MaxOfSet
<1>5. Max(found) = b
    <2>1. Max(found) \in Int /\ Max(found) <= b /\ b <= Max(found)
        BY <1>2, <1>4
    <2> QED
        BY <1>2, <2>1
<1> QED
    BY <1>3, <1>5 DEF LastAtMost, found

LEMMA LastIsNone ==
    ASSUME NEW n \in Nat, NEW h, HeadArray(h, n), NEW e \in Nat,
           NEW lower \in Nat, NEW upper \in Nat, upper <= n,
           NoneTakes(h, n, e, lower, upper - 1)
    PROVE  LastAtMost(h, e, lower, upper) = -1
<1>1. { i \in lower .. upper - 1 : ~empty(h, i) /\ h[i] <= e } = {}
    BY EmptyEntry, SMTT(60) DEF Takes, NoneTakes
<1> QED
    BY <1>1 DEF LastAtMost
-----------------------------------------------------------------------------
\* findNext stops behind start, on the first entry that is not empty or not below
\* the limit.
LEMMA FindNextStops ==
    ASSUME NEW n \in Nat, NEW h, HeadArray(h, n), NEW start \in Int, NEW limit \in Int
    PROVE  LET r == findNext(h, start, limit)
           IN  /\ r \in Int /\ start < r
               /\ r < limit => ~empty(h, r)
               /\ \A j \in start + 1 .. r - 1 : j < limit => empty(h, j)
<1> DEFINE found == { i \in start + 1 .. limit - 1 : ~empty(h, i) }
<1>1. CASE found = {}
    BY <1>1 DEF findNext
<1>2. CASE found # {}
    <2>1. /\ \A i \in found : i \in Int /\ start + 1 <= i /\ ~empty(h, i)
          /\ \A j \in start + 1 .. limit - 1 : ~empty(h, j) => j \in found
          /\ start + 1 \in Int
        OBVIOUS
    <2>2. findNext(h, start, limit) = Min(found)
        BY <1>2 DEF findNext
    <2> HIDE DEF found
    <2>3. Min(found) \in found /\ \A i \in found : Min(found) <= i
        BY <1>2, <2>1, MinOfSet
    <2>4. Min(found) \in Int /\ start + 1 <= Min(found) /\ ~empty(h, Min(found))
        BY <2>1, <2>3
    <2>5. ASSUME NEW j \in start + 1 .. Min(found) - 1, j < limit, ~empty(h, j)
          PROVE  FALSE
        <3>1. j \in start + 1 .. limit - 1
            BY <2>4, <2>5
        <3>2. Min(found) <= j
            BY <2>1, <2>3, <2>5, <3>1
        <3> QED
            BY <2>4, <3>2
    <2> QED
        BY <2>2, <2>4, <2>5
<1> QED
    BY <1>1, <1>2

\* findPrevious stops at the last entry before start that is not empty, or at the
\* limit.
LEMMA FindPreviousStops ==
    ASSUME NEW n \in Nat, NEW h, HeadArray(h, n), NEW start \in Int, NEW limit \in Int,
           limit < start
    PROVE  LET r == findPrevious(h, start, limit)
           IN  /\ r \in limit .. start - 1
               /\ r = limit \/ ~empty(h, r)
               /\ \A j \in r + 1 .. start - 1 : empty(h, j)
<1> DEFINE found == { i \in limit + 1 .. start - 1 : ~empty(h, i) }
<1>1. CASE found = {}
    BY <1>1 DEF findPrevious
<1>2. CASE found # {}
    <2>1. /\ \A i \in found : i \in Int /\ i <= start - 1 /\ limit + 1 <= i /\ ~empty(h, i)
          /\ \A j \in limit + 1 .. start - 1 : ~empty(h, j) => j \in found
          /\ start - 1 \in Int
        OBVIOUS
    <2>2. findPrevious(h, start, limit) = Max(found)
        BY <1>2 DEF findPrevious
    <2> HIDE DEF found
    <2>3. Max(found) \in found /\ \A i \in found : i <= Max(found)
        BY <1>2, <2>1, MaxOfSet
    <2>4. /\ Max(found) \in Int /\ Max(found) <= start - 1 /\ limit + 1 <= Max(found)
          /\ ~empty(h, Max(found))
        BY <2>1, <2>3
    <2>5. ASSUME NEW j \in Max(found) + 1 .. start - 1, ~empty(h, j)
          PROVE  FALSE
        <3>1. j \in limit + 1 .. start - 1
            BY <2>4
        <3>2. j <= Max(found)
            BY <2>1, <2>3, <2>5, <3>1
        <3> QED
            BY <2>4, <3>2
    <2> QED
        BY <2>2, <2>4, <2>5
<1> QED
    BY <1>1, <1>2

\* linearSearch ends on the last entry of its interval that takes e, or on lower.
LEMMA LinearSearchStops ==
    ASSUME NEW n \in Nat, NEW h, HeadArray(h, n), NEW e \in Nat,
           NEW lower \in Nat, NEW upper \in Nat, upper <= n
    PROVE  LET r == linearSearch(h, e, lower, upper)
           IN  /\ r \in Nat /\ lower <= r
               /\ r = lower \/ (r < upper /\ Takes(h, n, e, r))
               /\ NoneTakes(h, n, e, r + 1, upper - 1)
<1> DEFINE larger == { i \in lower + 1 .. upper - 1 : ~empty(h, i) /\ h[i] > e }
           first == IF larger # {} THEN Min(larger)
                    ELSE IF lower + 1 > upper THEN lower + 1 ELSE upper
           r == findPrevious(h, first, lower)
<1>1. /\ first \in Int /\ lower < first
      /\ first <= upper \/ first = lower + 1
      /\ \A j \in lower + 1 .. upper - 1 : j < first /\ ~empty(h, j) => h[j] <= e
      /\ \A j \in first .. upper - 1 : ~empty(h, j) => h[j] > e
    <2>1. CASE larger = {}
        BY <2>1, EmptyEntry, SMTT(60)
    <2>2. CASE larger # {}
        <3>1. /\ \A i \in larger : /\ i \in Int /\ lower + 1 <= i /\ i <= upper - 1
                                   /\ ~empty(h, i) /\ h[i] > e
              /\ \A j \in lower + 1 .. upper - 1 : ~empty(h, j) /\ h[j] > e => j \in larger
              /\ lower + 1 \in Int
            OBVIOUS
        <3>2. first = Min(larger)
            BY <2>2
        <3> HIDE DEF larger, first
        <3>3. Min(larger) \in larger /\ \A i \in larger : Min(larger) <= i
            BY <2>2, <3>1, MinOfSet
        <3>4. /\ first \in Int /\ lower + 1 <= first /\ first <= upper - 1
              /\ ~empty(h, first) /\ h[first] > e
            BY <3>1, <3>2, <3>3
        <3>5. ASSUME NEW j \in lower + 1 .. upper - 1, j < first, ~empty(h, j)
              PROVE  h[j] <= e
            <4>1. ~(h[j] > e)
                <5> SUFFICES ASSUME h[j] > e PROVE FALSE
                    OBVIOUS
                <5>1. first <= j
                    BY <3>1, <3>2, <3>3, <3>5
                <5> QED
                    BY <3>4, <3>5, <5>1
            <4>2. h[j] \in Nat
                BY <3>5, EmptyEntry
            <4> QED
                BY <4>1, <4>2
        <3>6. ASSUME NEW j \in first .. upper - 1, ~empty(h, j) PROVE h[j] > e
            <4>1. /\ j \in Int /\ j \in 0 .. n - 1 /\ h[j] # 0 /\ h[j] \in Nat
                  /\ first \in 0 .. n - 1 /\ h[first] # 0 /\ h[first] \in Nat
                BY <3>4, <3>6, EmptyEntry, SMTT(60)
            <4>2. CASE j = first
                BY <3>4, <4>2
            <4>3. CASE first < j
                <5>1. h[first] < h[j]
                    BY <4>1, <4>3 DEF HeadArray
                <5> QED
                    BY <3>4, <4>1, <5>1
            <4> QED
                BY <3>4, <4>2, <4>3
        <3> QED
            BY <3>4, <3>5, <3>6
    <2> QED
        BY <2>1, <2>2
<1>2. linearSearch(h, e, lower, upper) = r
    BY DEF linearSearch
<1> HIDE DEF larger, first
<1>3. /\ r \in lower .. first - 1
      /\ r = lower \/ ~empty(h, r)
      /\ \A j \in r + 1 .. first - 1 : empty(h, j)
    BY <1>1, FindPreviousStops, SMTT(60)
<1> HIDE DEF r
<1>4. r \in Nat /\ lower <= r /\ r < first
    BY <1>1, <1>3
<1>5. r = lower \/ (r < upper /\ Takes(h, n, e, r))
    <2> SUFFICES ASSUME r # lower PROVE r < upper /\ Takes(h, n, e, r)
        OBVIOUS
    <2>1. r < upper
        BY <1>1, <1>4
    <2>2. h[r] <= e /\ ~empty(h, r)
        BY <1>1, <1>3, <1>4, <2>1
    <2> QED
        BY <1>4, <2>1, <2>2, EmptyEntry DEF Takes
<1>6. ASSUME NEW j \in r + 1 .. upper - 1, Takes(h, n, e, j) PROVE FALSE
    <2>1. j \in Int /\ h[j] \in Nat /\ ~empty(h, j) /\ h[j] <= e
        BY <1>4, <1>6, EmptyEntry, SMTT(60) DEF Takes
    <2>2. CASE j < first
        <3>1. j \in r + 1 .. first - 1
            BY <1>1, <1>4, <2>1, <2>2
        <3> QED
            BY <1>3, <2>1, <3>1
    <2>3. CASE first <= j
        BY <1>1, <2>1, <2>3
    <2> QED
        BY <1>1, <2>1, <2>2, <2>3
<1> QED
    BY <1>2, <1>4, <1>5, <1>6 DEF NoneTakes
-----------------------------------------------------------------------------
\* The state of a binary search: what lies left of the interval is empty behind
\* the candidate, what lies right of it does not take e.
SearchState == [hit : BOOLEAN, left : Int, right : Int, candidate : Int]

Narrowed(h, n, e, lower, last, s) ==
    /\ lower <= s.left /\ s.left <= last /\ s.right <= last /\ s.left <= s.right + 1
    /\ s.candidate # -1 => s.candidate \in lower .. last /\ Takes(h, n, e, s.candidate)
    /\ s.hit => s.candidate # -1 /\ h[s.candidate] = e
    /\ ~s.hit => /\ s.candidate < s.left
                 /\ \A j \in lower .. s.left - 1 : s.candidate < j => empty(h, j)
                 /\ NoneTakes(h, n, e, s.right + 1, last)

WholeInterval(lower, last) ==
    [hit |-> FALSE, left |-> lower, right |-> last, candidate |-> -1]

NarrowedStates(h, n, e, lower, last) ==
    { s \in SearchState : Narrowed(h, n, e, lower, last, s) }

LEMMA LastNonEmptyStops ==
    ASSUME NEW n \in Nat, NEW h, HeadArray(h, n), NEW left \in Int, NEW mid \in Int, left <= mid
    PROVE  LET r == LastNonEmpty(h, left, mid)
           IN  /\ r \in left - 1 .. mid
               /\ left <= r => ~empty(h, r)
               /\ \A j \in left .. mid : r < j => empty(h, j)
<1> DEFINE found == { i \in left .. mid : ~empty(h, i) }
<1>1. CASE found = {}
    BY <1>1 DEF LastNonEmpty
<1>2. CASE found # {}
    <2>1. /\ \A i \in found : i \in Int /\ i <= mid /\ left <= i /\ ~empty(h, i)
          /\ \A j \in left .. mid : ~empty(h, j) => j \in found
        OBVIOUS
    <2>2. LastNonEmpty(h, left, mid) = Max(found)
        BY <1>2 DEF LastNonEmpty
    <2> HIDE DEF found
    <2>3. Max(found) \in found /\ \A i \in found : i <= Max(found)
        BY <1>2, <2>1, MaxOfSet
    <2>4. /\ Max(found) \in Int /\ Max(found) <= mid /\ left <= Max(found)
          /\ ~empty(h, Max(found))
        BY <2>1, <2>3
    <2>5. ASSUME NEW j \in left .. mid, Max(found) < j, ~empty(h, j)
          PROVE  FALSE
        <3>1. j <= Max(found)
            BY <2>1, <2>3, <2>5
        <3> QED
            BY <2>4, <2>5, <3>1
    <2> QED
        BY <2>2, <2>4, <2>5
<1> QED
    BY <1>1, <1>2

\* Behind an entry whose head is e or more, no entry takes e.
LEMMA NoneTakesBehind ==
    ASSUME NEW n \in Nat, NEW h, HeadArray(h, n), NEW e \in Nat,
           NEW b \in 0 .. n - 1, h[b] # 0, e <= h[b]
    PROVE  \A j \in Int : b < j => ~Takes(h, n, e, j)
BY DEF HeadArray, Takes

\* From s to t the search is over, or its interval gets shorter.
Advances(s, t) ==
    \/ t = s /\ (s.hit \/ s.right - s.left <= BinarySearchCutoff)
    \/ t.hit
    \/ ~s.hit /\ t.right - t.left < s.right - s.left

\* An iteration keeps what is known of the interval, and shortens it unless the
\* search is over.
LEMMA HalveNarrows ==
    ASSUME NEW n \in Nat, NEW h, HeadArray(h, n), NEW e \in Nat, NEW lower \in Nat,
           NEW last \in Nat, lower <= last, last < n, NEW fromPrev,
           NEW s \in NarrowedStates(h, n, e, lower, last)
    PROVE  /\ halve(h, e, fromPrev, s) \in NarrowedStates(h, n, e, lower, last)
           /\ Advances(s, halve(h, e, fromPrev, s))
<1> DEFINE mid == (s.left + s.right) \div 2
           prev == LastNonEmpty(h, s.left, mid)
           t == halve(h, e, fromPrev, s)
<1> SUFFICES /\ t \in NarrowedStates(h, n, e, lower, last)
             /\ \/ t = s /\ (s.hit \/ s.right - s.left <= BinarySearchCutoff)
                \/ t.hit
                \/ ~s.hit /\ t.right - t.left < s.right - s.left
    BY DEF Advances
<1>1. s \in SearchState /\ Narrowed(h, n, e, lower, last, s)
    BY DEF NarrowedStates
<1>2. CASE s.hit \/ s.right - s.left <= BinarySearchCutoff
    <2>1. t = s
        BY <1>2 DEF halve
    <2> QED
        BY <1>2, <2>1
<1>3. CASE ~s.hit /\ ~(s.right - s.left <= BinarySearchCutoff)
    <2>1. /\ s.left \in Int /\ s.right \in Int /\ s.candidate \in Int
          /\ s.left + 2 <= s.right
        BY <1>1, <1>3, CutoffAssumption, SMTT(60) DEF SearchState
    <2>2. mid \in Int /\ s.left <= mid /\ mid < s.right
        BY <2>1
    <2> HIDE DEF mid
    <2>3. /\ prev \in s.left - 1 .. mid
          /\ s.left <= prev => ~empty(h, prev)
          /\ \A j \in s.left .. mid : prev < j => empty(h, j)
        BY <2>1, <2>2, LastNonEmptyStops
    <2>4. t = IF prev < s.left THEN [s EXCEPT !.left = mid + 1]
              ELSE IF h[prev] = e THEN [s EXCEPT !.hit = TRUE, !.candidate = prev]
              ELSE IF e < h[prev] THEN [s EXCEPT !.right = prev - 1]
              ELSE [s EXCEPT !.left = 1 + (IF fromPrev THEN prev ELSE mid),
                             !.candidate = prev]
        BY <1>3 DEF halve, mid
    <2> HIDE DEF prev, t
    <2>5. CASE prev < s.left
        <3>1. /\ t \in SearchState /\ t.left = mid + 1 /\ t.right = s.right
              /\ t.candidate = s.candidate /\ ~t.hit
            BY <1>1, <1>3, <2>1, <2>2, <2>4, <2>5, SMTT(60) DEF SearchState
        <3>2. \A j \in lower .. t.left - 1 : t.candidate < j => empty(h, j)
            BY <1>1, <1>3, <2>1, <2>2, <2>3, <2>5, <3>1 DEF Narrowed
        <3>3. Narrowed(h, n, e, lower, last, t)
            BY <1>1, <1>3, <2>1, <2>2, <3>1, <3>2 DEF Narrowed
        <3> QED
            BY <1>3, <2>1, <2>2, <3>1, <3>3 DEF NarrowedStates
    <2>6. CASE s.left <= prev
        <3>1. /\ prev \in lower .. last /\ prev \in 0 .. n - 1
              /\ h[prev] # 0 /\ h[prev] \in Nat
            <4>1. lower <= s.left /\ s.right <= last
                BY <1>1 DEF Narrowed
            <4>2. prev \in lower .. last /\ prev \in 0 .. n - 1
                BY <2>1, <2>2, <2>3, <2>6, <4>1
            <4> QED
                BY <2>3, <2>6, <4>2, EmptyEntry
        <3>2. CASE h[prev] = e
            <4>1. t = [s EXCEPT !.hit = TRUE, !.candidate = prev]
                BY <2>1, <2>4, <2>6, <3>1, <3>2
            <4>2. /\ t \in SearchState /\ t.left = s.left /\ t.right = s.right
                  /\ t.candidate = prev /\ t.hit
                <5>1. s \in SearchState /\ prev \in Int
                    BY <1>1, <3>1
                <5> QED
                    BY <4>1, <5>1 DEF SearchState
            <4>3. Takes(h, n, e, prev) /\ prev # -1
                BY <3>1, <3>2 DEF Takes
            <4>4. Narrowed(h, n, e, lower, last, t)
                BY <1>1, <3>1, <3>2, <4>2, <4>3 DEF Narrowed
            <4> QED
                BY <4>2, <4>4 DEF NarrowedStates
        <3>3. CASE e < h[prev]
            <4>1. t = [s EXCEPT !.right = prev - 1]
                BY <2>1, <2>4, <2>6, <3>1, <3>3
            <4>2. /\ t \in SearchState /\ t.left = s.left /\ t.right = prev - 1
                  /\ t.candidate = s.candidate /\ ~t.hit
                BY <1>1, <1>3, <2>1, <3>1, <4>1, SMTT(60) DEF SearchState
            <4>3. NoneTakes(h, n, e, prev, last)
                <5>1. \A j \in Int : prev < j => ~Takes(h, n, e, j)
                    BY <3>1, <3>3, NoneTakesBehind
                <5> QED
                    BY <3>1, <3>3, <5>1 DEF NoneTakes, Takes
            <4>4. Narrowed(h, n, e, lower, last, t)
                BY <1>1, <1>3, <2>1, <2>6, <3>1, <4>2, <4>3 DEF Narrowed
            <4> QED
                BY <1>3, <2>1, <2>2, <2>3, <4>2, <4>4 DEF NarrowedStates
        <3>4. CASE h[prev] < e
            <4> DEFINE from == IF fromPrev THEN prev ELSE mid
            <4>1. t = [s EXCEPT !.left = 1 + from, !.candidate = prev]
                BY <2>1, <2>4, <2>6, <3>1, <3>4
            <4>2. from \in Int /\ prev <= from /\ from <= mid
                BY <2>2, <2>3
            <4> HIDE DEF from
            <4>3. /\ t \in SearchState /\ t.left = 1 + from /\ t.right = s.right
                  /\ t.candidate = prev /\ ~t.hit
                <5>1. s \in SearchState /\ prev \in Int /\ 1 + from \in Int /\ ~s.hit
                    BY <1>1, <1>3, <3>1, <4>2
                <5> QED
                    BY <4>1, <5>1 DEF SearchState
            <4>4. Takes(h, n, e, prev)
                BY <3>1, <3>4 DEF Takes
            <4>5. \A j \in lower .. t.left - 1 : t.candidate < j => empty(h, j)
                BY <2>1, <2>2, <2>3, <2>6, <3>1, <4>2, <4>3
            <4>6. Narrowed(h, n, e, lower, last, t)
                BY <1>1, <1>3, <2>1, <2>2, <2>6, <3>1, <4>2, <4>3, <4>4, <4>5 DEF Narrowed
            <4> QED
                BY <1>3, <2>1, <2>2, <2>6, <3>1, <4>2, <4>3, <4>6 DEF NarrowedStates
        <3> QED
            BY <3>1, <3>2, <3>3, <3>4
    <2> QED
        BY <2>1, <2>3, <2>5, <2>6
<1> QED
    BY <1>2, <1>3

\* The loop of a binary search.
LEMMA HalvingsAre ==
    ASSUME NEW n \in Nat, NEW h, HeadArray(h, n), NEW e \in Nat, NEW lower \in Nat,
           NEW last \in Nat, lower <= last, last < n, NEW fromPrev
    PROVE  LET f == Halvings(h, e, lower, last, fromPrev)
           IN  /\ f[0] = WholeInterval(lower, last)
               /\ \A k \in Nat : f[k + 1] = halve(h, e, fromPrev, f[k])
               /\ \A k \in Nat : f[k] \in NarrowedStates(h, n, e, lower, last)
<1> DEFINE V == NarrowedStates(h, n, e, lower, last)
           first == WholeInterval(lower, last)
           Step(v) == halve(h, e, fromPrev, v)
           body == [k \in Nat |-> [v \in V |-> Step(v)]]
           Loop(g) == g = [k \in Nat |-> IF k = 0 THEN first ELSE Step(g[k - 1])]
           f == Halvings(h, e, lower, last, fromPrev)
<1>1. first \in V
    <2>1. first \in SearchState
        BY DEF SearchState, WholeInterval
    <2>2. Narrowed(h, n, e, lower, last, first)
        BY DEF Narrowed, NoneTakes, WholeInterval
    <2> QED
        BY <2>1, <2>2 DEF NarrowedStates
<1>2. \A v \in V : Step(v) \in V
    BY HalveNarrows
<1>3. f = CHOOSE g : Loop(g)
    BY DEF Halvings, WholeInterval
<1> HIDE DEF V, first, Step, f
<1>4. body \in [Nat -> [V -> V]]
    BY <1>2
<1>5. \E g : Loop(g)
    <2>1. PICK g \in [Nat -> V] : Rounds(g, first, body)
        <3> HIDE DEF body
        <3> QED
            BY <1>1, <1>4, RoundsExist
    <2>2. \A k \in Nat : k # 0 => body[k][g[k - 1]] = Step(g[k - 1])
        BY <2>1, SMTT(60)
    <2>3. Loop(g)
        <3> HIDE DEF body
        <3> QED
            BY <2>1, <2>2 DEF Rounds
    <2> QED
        BY <2>3
<1>6. Loop(f)
    BY <1>3, <1>5
<1>7. f[0] = first /\ \A k \in Nat : f[k + 1] = Step(f[k])
    BY <1>6, SMTT(60)
<1>8. \A k \in Nat : f[k] \in V
    <2> DEFINE S == { k \in Nat : f[k] \in V }
    <2>1. 0 \in S
        BY <1>1, <1>7
    <2>2. ASSUME NEW k \in Nat, k \in S PROVE k + 1 \in S
        <3>1. f[k] \in V /\ f[k + 1] = Step(f[k])
            BY <1>7, <2>2
        <3>2. f[k + 1] \in V
            BY <1>2, <3>1
        <3> QED
            BY <3>2
    <2> HIDE DEF S
    <2>3. \A k \in Nat : k \in S
        BY <2>1, <2>2, InductionOnSet
    <2> QED
        BY <2>3 DEF S
<1> QED
    BY <1>7, <1>8 DEF V, first, Step, f

\* No round changes an interval without entries.
LEMMA EmptyHalvings ==
    ASSUME NEW h, NEW e, NEW fromPrev, NEW left \in Int
    PROVE  Halvings(h, e, left, left - 1, fromPrev)[0] = WholeInterval(left, left - 1)
<1> DEFINE first == WholeInterval(left, left - 1)
           Step(v) == halve(h, e, fromPrev, v)
           Loop(g) == g = [k \in Nat |-> IF k = 0 THEN first ELSE Step(g[k - 1])]
           f == Halvings(h, e, left, left - 1, fromPrev)
<1>1. Step(first) = first
    BY CutoffAssumption DEF halve, WholeInterval
<1>2. f = CHOOSE g : Loop(g)
    BY DEF Halvings, WholeInterval
<1> HIDE DEF first, Step, f
<1>3. Loop([k \in Nat |-> first])
    BY <1>1
<1>4. Loop(f)
    BY <1>2, <1>3
<1> QED
    BY <1>4 DEF f, first

\* After as many rounds as there are entries the loop is over, with all that is
\* known of its interval.
LEMMA NarrowEnds ==
    ASSUME NEW n \in Nat, NEW h, HeadArray(h, n), NEW e \in Nat, NEW lower \in Nat,
           NEW last \in Nat, lower <= last, last < n, NEW fromPrev
    PROVE  LET s == Narrow(h, e, lower, last, fromPrev)
           IN  /\ s \in SearchState /\ Narrowed(h, n, e, lower, last, s)
               /\ s.hit \/ s.right - s.left <= BinarySearchCutoff
<1> DEFINE f == Halvings(h, e, lower, last, fromPrev)
           Over(s) == s.hit \/ s.right - s.left <= BinarySearchCutoff
           S == { k \in Nat : Over(f[k]) \/ f[k].right - f[k].left <= last - lower - k }
<1>1. /\ f[0] = WholeInterval(lower, last)
      /\ \A k \in Nat : f[k + 1] = halve(h, e, fromPrev, f[k])
      /\ \A k \in Nat : f[k] \in NarrowedStates(h, n, e, lower, last)
    BY HalvingsAre
<1>2. Narrow(h, e, lower, last, fromPrev) = f[last - lower + 1]
    BY DEF Narrow
<1> HIDE DEF f
<1>3. \A k \in Nat : f[k] \in SearchState /\ Narrowed(h, n, e, lower, last, f[k])
    BY <1>1 DEF NarrowedStates
<1>4. 0 \in S
    BY <1>1 DEF WholeInterval
<1>5. ASSUME NEW k \in Nat, k \in S PROVE k + 1 \in S
    <2>1. \/ f[k + 1] = f[k] /\ Over(f[k])
          \/ f[k + 1].hit
          \/ ~f[k].hit /\ f[k + 1].right - f[k + 1].left < f[k].right - f[k].left
        <3>1. /\ f[k] \in NarrowedStates(h, n, e, lower, last)
              /\ f[k + 1] = halve(h, e, fromPrev, f[k])
            BY <1>1
        <3>2. Advances(f[k], halve(h, e, fromPrev, f[k]))
            BY <3>1, HalveNarrows
        <3> QED
            BY <3>1, <3>2 DEF Advances
    <2>2. /\ f[k].left \in Int /\ f[k].right \in Int
          /\ f[k + 1].left \in Int /\ f[k + 1].right \in Int
        BY <1>3, SMTT(60) DEF SearchState
    <2>3. CASE ~f[k].hit /\ f[k + 1].right - f[k + 1].left < f[k].right - f[k].left
        <3>1. \/ f[k].right - f[k].left <= BinarySearchCutoff
              \/ f[k].right - f[k].left <= last - lower - k
            BY <1>5, <2>3
        <3> QED
            BY <2>2, <2>3, <3>1, CutoffAssumption
    <2> QED
        BY <2>1, <2>3
<1> HIDE DEF S
<1>6. \A k \in Nat : k \in S
    BY <1>4, <1>5, InductionOnSet
<1>7. Over(f[last - lower + 1])
    <2>1. last - lower + 1 \in Nat
        OBVIOUS
    <2>2. f[last - lower + 1].left \in Int /\ f[last - lower + 1].right \in Int
        BY <1>3, <2>1 DEF SearchState
    <2>3. last - lower + 1 \in S
        BY <1>6, <2>1
    <2> QED
        BY <2>2, <2>3, CutoffAssumption DEF S
<1> QED
    BY <1>2, <1>3, <1>7

\* What the end of a binary search says: on a hit the candidate is the last entry
\* that takes e, otherwise it is the last one left of the interval.
LEMMA HitIsLast ==
    ASSUME NEW n \in Nat, NEW h, HeadArray(h, n), NEW e \in Nat, NEW lower \in Nat,
           NEW last \in Nat, lower <= last, last < n,
           NEW s \in SearchState, Narrowed(h, n, e, lower, last, s), s.hit
    PROVE  /\ s.candidate \in lower .. last /\ Takes(h, n, e, s.candidate)
           /\ NoneTakes(h, n, e, s.candidate + 1, last)
<1>1. /\ s.candidate \in lower .. last /\ Takes(h, n, e, s.candidate)
      /\ h[s.candidate] = e
    BY DEF Narrowed
<1>2. \A j \in Int : s.candidate < j => ~Takes(h, n, e, j)
    BY <1>1, NoneTakesBehind DEF Takes
<1> QED
    BY <1>1, <1>2 DEF NoneTakes

LEMMA CandidateIsLast ==
    ASSUME NEW n \in Nat, NEW h, HeadArray(h, n), NEW e \in Nat, NEW lower \in Nat,
           NEW last \in Nat, lower <= last, last < n,
           NEW s \in SearchState, Narrowed(h, n, e, lower, last, s), ~s.hit,
           NoneTakes(h, n, e, s.left, last)
    PROVE  s.candidate = LastAtMost(h, e, lower, last + 1)
<1>1. /\ s.left \in Int /\ s.candidate \in Int /\ lower <= s.left /\ s.left <= last
      /\ s.candidate < s.left
      /\ \A j \in lower .. s.left - 1 : s.candidate < j => empty(h, j)
    BY DEF Narrowed, SearchState
<1>2. \A j \in lower .. last : s.candidate < j => ~Takes(h, n, e, j)
    <2> SUFFICES ASSUME NEW j \in lower .. last, s.candidate < j, Takes(h, n, e, j)
                 PROVE  FALSE
        OBVIOUS
    <2>1. ~empty(h, j)
        BY EmptyEntry DEF Takes
    <2>2. ~(j \in lower .. s.left - 1)
        BY <1>1, <2>1
    <2>3. j \in s.left .. last
        BY <1>1, <2>2
    <2> QED
        BY <2>3 DEF NoneTakes
<1>3. CASE s.candidate = -1
    <2>1. NoneTakes(h, n, e, lower, (last + 1) - 1)
        BY <1>2, <1>3 DEF NoneTakes
    <2> QED
        BY <1>3, <2>1, LastIsNone, SMTT(60)
<1>4. CASE s.candidate # -1
    <2>1. s.candidate \in lower .. (last + 1) - 1 /\ Takes(h, n, e, s.candidate)
        BY <1>4 DEF Narrowed
    <2>2. NoneTakes(h, n, e, s.candidate + 1, (last + 1) - 1)
        BY <1>1, <1>2, <2>1 DEF NoneTakes
    <2>3. last + 1 \in Nat /\ last + 1 <= n
        OBVIOUS
    <2> QED
        BY <2>1, <2>2, <2>3, LastIs, SMTT(60)
<1> QED
    BY <1>3, <1>4

\* findContainingBlock, used by contains, find and the distribution of a batch: in
\* every array of heads, with empty entries anywhere, it returns the last block whose
\* head is at most the key, or -1.
THEOREM ContainingBlockIsLast ==
    ASSUME NEW n \in Nat, NEW h, HeadArray(h, n), NEW e \in Nat
    PROVE  findContainingBlock(h, e) = LastAtMost(h, e, 0, n)
<1>1. size(h) = n
    BY SizeOfArray DEF HeadArray
<1> DEFINE s == Narrow(h, e, 0, n - 1, TRUE)
           r == linearSearch(h, e, s.left, s.right + 1)
<1>2. findContainingBlock(h, e) =
          IF s.hit THEN s.candidate
          ELSE IF empty(h, r) \/ e < h[r] THEN s.candidate ELSE r
    BY <1>1 DEF findContainingBlock
<1>3. CASE n = 0
    <2>1. s = WholeInterval(0, 0 - 1)
        <3>1. s = Halvings(h, e, 0, 0 - 1, TRUE)[0]
            BY <1>3 DEF Narrow
        <3>2. 0 \in Int
            OBVIOUS
        <3>3. Halvings(h, e, 0, 0 - 1, TRUE)[0] = WholeInterval(0, 0 - 1)
            BY <3>2, EmptyHalvings
        <3> HIDE DEF s
        <3> QED
            BY <3>1, <3>3
    <2>2. empty(h, r)
        BY <1>3 DEF empty, head, HeadArray
    <2>3. NoneTakes(h, n, e, 0, n - 1)
        BY <1>3 DEF NoneTakes
    <2>4. LastAtMost(h, e, 0, n) = -1
        BY <2>3, LastIsNone
    <2> HIDE DEF s, r
    <2> QED
        BY <1>2, <2>1, <2>2, <2>4 DEF WholeInterval
<1>4. CASE n # 0
    <2> DEFINE last == n - 1
    <2>1. last \in Nat /\ 0 <= last /\ last < n /\ last + 1 = n
        BY <1>4
    <2>2. s \in SearchState /\ Narrowed(h, n, e, 0, last, s)
        BY <2>1, NarrowEnds
    <2> HIDE DEF last, s
    <2>3. CASE s.hit
        <3>1. /\ s.candidate \in 0 .. last /\ Takes(h, n, e, s.candidate)
              /\ NoneTakes(h, n, e, s.candidate + 1, last)
            BY <2>1, <2>2, <2>3, HitIsLast
        <3>2. LastAtMost(h, e, 0, n) = s.candidate
            BY <2>1, <3>1, LastIs, SMTT(60)
        <3> QED
            BY <1>2, <2>3, <3>2
    <2>4. CASE ~s.hit
        <3>1. /\ s.left \in Nat /\ s.right \in Int /\ s.left <= last /\ s.right <= last
              /\ s.left <= s.right + 1
              /\ NoneTakes(h, n, e, s.right + 1, last)
            BY <2>2, <2>4, SMTT(60) DEF Narrowed, SearchState
        <3>2. s.right + 1 \in Nat /\ s.right + 1 <= n
            BY <2>1, <3>1
        <3>3. /\ r \in Nat /\ s.left <= r
              /\ r = s.left \/ (r < s.right + 1 /\ Takes(h, n, e, r))
              /\ NoneTakes(h, n, e, r + 1, s.right)
            <4>1. /\ r \in Nat /\ s.left <= r
                  /\ r = s.left \/ (r < s.right + 1 /\ Takes(h, n, e, r))
                  /\ NoneTakes(h, n, e, r + 1, (s.right + 1) - 1)
                BY <3>1, <3>2, LinearSearchStops
            <4>2. (s.right + 1) - 1 = s.right
                BY <3>1
            <4> QED
                BY <4>1, <4>2
        <3> HIDE DEF r
        <3>4. NoneTakes(h, n, e, r + 1, last)
            BY <2>1, <3>1, <3>3 DEF NoneTakes
        <3>5. CASE empty(h, r) \/ e < h[r]
            <4>1. ~Takes(h, n, e, r)
                BY <3>3, <3>5, EmptyEntry DEF Takes
            <4>2. NoneTakes(h, n, e, s.left, last)
                BY <2>1, <3>1, <3>3, <3>4, <4>1 DEF NoneTakes
            <4>3. s.candidate = LastAtMost(h, e, 0, n)
                BY <2>1, <2>2, <2>4, <4>2, CandidateIsLast, SMTT(60)
            <4> QED
                BY <1>2, <2>4, <3>5, <4>3
        <3>6. CASE ~(empty(h, r) \/ e < h[r])
            <4>1. Takes(h, n, e, r) /\ r \in 0 .. n - 1
                BY <3>3, <3>6, EmptyEntry, SMTT(60) DEF Takes
            <4>2. LastAtMost(h, e, 0, n) = r
                BY <2>1, <3>4, <4>1, LastIs, SMTT(60) DEF last
            <4> QED
                BY <1>2, <2>4, <3>6, <4>2
        <3> QED
            BY <3>5, <3>6
    <2> QED
        BY <2>3, <2>4
<1> QED
    BY <1>3, <1>4

\* binarySearch from an entry that takes e finds the last such entry.
LEMMA BinarySearchIsLast ==
    ASSUME NEW n \in Nat, NEW h, HeadArray(h, n), NEW e \in Nat, NEW lower \in Nat,
           NEW upper \in Nat, lower < upper, upper <= n, Takes(h, n, e, lower)
    PROVE  binarySearch(h, e, lower, upper) = LastAtMost(h, e, lower, upper)
<1> DEFINE last == upper - 1
           s == Narrow(h, e, lower, last, FALSE)
           r == linearSearch(h, e, s.left, upper)
<1>1. binarySearch(h, e, lower, upper) =
          IF s.hit THEN s.candidate
          ELSE IF empty(h, r) \/ (e < h[r] /\ r # lower) THEN s.candidate
          ELSE r
    BY DEF binarySearch
<1>2. last \in Nat /\ lower <= last /\ last < n /\ last + 1 = upper
    OBVIOUS
<1>3. s \in SearchState /\ Narrowed(h, n, e, lower, last, s)
    BY <1>2, NarrowEnds
<1> HIDE DEF s
<1>4. CASE s.hit
    <2>1. /\ s.candidate \in lower .. last /\ Takes(h, n, e, s.candidate)
          /\ NoneTakes(h, n, e, s.candidate + 1, last)
        BY <1>2, <1>3, <1>4, HitIsLast
    <2>2. LastAtMost(h, e, lower, upper) = s.candidate
        BY <1>2, <2>1, LastIs
    <2> QED
        BY <1>1, <1>4, <2>2
<1>5. CASE ~s.hit
    <2>1. s.left \in Nat /\ lower <= s.left /\ s.left <= last
        BY <1>2, <1>3, SMTT(60) DEF Narrowed, SearchState
    <2>2. /\ r \in Nat /\ s.left <= r
          /\ r = s.left \/ (r < upper /\ Takes(h, n, e, r))
          /\ NoneTakes(h, n, e, r + 1, last)
        BY <2>1, LinearSearchStops
    <2> HIDE DEF r, last
    <2>3. CASE empty(h, r) \/ (e < h[r] /\ r # lower)
        <3>1. ~Takes(h, n, e, r)
            BY <2>2, <2>3, EmptyEntry, SMTT(60) DEF Takes
        <3>2. NoneTakes(h, n, e, s.left, last)
            BY <1>2, <2>1, <2>2, <3>1 DEF NoneTakes
        <3>3. s.candidate = LastAtMost(h, e, lower, upper)
            BY <1>2, <1>3, <1>5, <3>2, CandidateIsLast, SMTT(60)
        <3> QED
            BY <1>1, <1>5, <2>3, <3>3
    <2>4. CASE ~(empty(h, r) \/ (e < h[r] /\ r # lower))
        <3>1. Takes(h, n, e, r) /\ r \in lower .. last
            BY <1>2, <2>1, <2>2, <2>4, EmptyEntry, SMTT(60) DEF Takes
        <3>2. LastAtMost(h, e, lower, upper) = r
            BY <1>2, <2>2, <3>1, LastIs DEF last
        <3> QED
            BY <1>1, <1>5, <2>4, <3>2
    <2> QED
        BY <2>3, <2>4
<1> QED
    BY <1>4, <1>5
-----------------------------------------------------------------------------
\* The state of the galloping: it starts at lower with the first entry that is not
\* empty, later it has just passed an entry that takes e.
GallopState == [start : Int, end : Int, delta : Int]

Galloped(h, n, e, lower, first, upper, g) ==
    /\ lower <= g.start /\ g.start < upper /\ lower <= g.end /\ 0 < g.delta
    /\ \/ g.start = lower /\ g.end = first
       \/ g.start < g.end /\ Takes(h, n, e, g.start)
    /\ g.end < upper => ~empty(h, g.end)

GallopedStates(h, n, e, lower, first, upper) ==
    { g \in GallopState : Galloped(h, n, e, lower, first, upper, g) }

\* A step passes an entry that takes e, unless the galloping is over.
LEMMA GallopSteps ==
    ASSUME NEW n \in Nat, NEW h, HeadArray(h, n), NEW e \in Nat, NEW lower \in Nat,
           NEW upper \in Nat, NEW first \in Nat, lower < upper, upper <= n,
           NEW g \in GallopedStates(h, n, e, lower, first, upper)
    PROVE  LET t == gallop(h, e, upper, g)
           IN  /\ t \in GallopedStates(h, n, e, lower, first, upper)
               /\ \/ t = g /\ ~(g.end < upper /\ head(h, g.end) <= e)
                  \/ g.end < t.end
<1> DEFINE t == gallop(h, e, upper, g)
           next == findNext(h, g.end + g.delta, upper)
<1> SUFFICES /\ t \in GallopedStates(h, n, e, lower, first, upper)
             /\ \/ t = g /\ ~(g.end < upper /\ head(h, g.end) <= e)
                \/ g.end < t.end
    OBVIOUS
<1>1. g \in GallopState /\ Galloped(h, n, e, lower, first, upper, g)
    BY DEF GallopedStates
<1>2. CASE ~(g.end < upper /\ head(h, g.end) <= e)
    <2>1. t = g
        BY <1>2 DEF gallop
    <2> QED
        BY <1>2, <2>1
<1>3. CASE g.end < upper /\ head(h, g.end) <= e
    <2>1. t = [start |-> g.end, end |-> next, delta |-> 2 * g.delta]
        BY <1>3 DEF gallop
    <2>2. /\ g.start \in Int /\ g.end \in Int /\ g.delta \in Int /\ 0 < g.delta
          /\ lower <= g.end /\ ~empty(h, g.end)
        BY <1>1, <1>3 DEF GallopState, Galloped
    <2>3. next \in Int /\ g.end + g.delta < next /\ (next < upper => ~empty(h, next))
        BY <2>2, FindNextStops, SMTT(60)
    <2> HIDE DEF t, next
    <2>4. Takes(h, n, e, g.end)
        BY <1>3, <2>2, EmptyEntry DEF Takes
    <2>5. /\ t \in GallopState /\ t.start = g.end /\ t.end = next
          /\ t.delta = 2 * g.delta
        BY <2>1, <2>2, <2>3 DEF GallopState
    <2>6. Galloped(h, n, e, lower, first, upper, t)
        BY <1>3, <2>2, <2>3, <2>4, <2>5 DEF Galloped
    <2> QED
        BY <2>2, <2>3, <2>5, <2>6 DEF GallopedStates
<1> QED
    BY <1>2, <1>3

FirstGallop(lower, first) == [start |-> lower, end |-> first, delta |-> 1]

\* The loop of exponentialSearch.
LEMMA GallopsAre ==
    ASSUME NEW n \in Nat, NEW h, HeadArray(h, n), NEW e \in Nat, NEW lower \in Nat,
           NEW upper \in Nat, NEW first \in Nat, lower < upper, upper <= n,
           FirstGallop(lower, first) \in GallopedStates(h, n, e, lower, first, upper)
    PROVE  LET f == Gallops(h, e, lower, first, upper)
           IN  /\ f[0] = FirstGallop(lower, first)
               /\ \A k \in Nat : f[k + 1] = gallop(h, e, upper, f[k])
               /\ \A k \in Nat : f[k] \in GallopedStates(h, n, e, lower, first, upper)
<1> DEFINE V == GallopedStates(h, n, e, lower, first, upper)
           begin == FirstGallop(lower, first)
           Step(v) == gallop(h, e, upper, v)
           body == [k \in Nat |-> [v \in V |-> Step(v)]]
           Loop(g) == g = [k \in Nat |-> IF k = 0 THEN begin ELSE Step(g[k - 1])]
           f == Gallops(h, e, lower, first, upper)
<1>1. \A v \in V : Step(v) \in V
    BY GallopSteps
<1>2. f = CHOOSE g : Loop(g)
    BY DEF Gallops, FirstGallop
<1>3. begin \in V
    OBVIOUS
<1> HIDE DEF V, begin, Step, f
<1>4. body \in [Nat -> [V -> V]]
    BY <1>1
<1>5. \E g : Loop(g)
    <2>1. PICK g \in [Nat -> V] : Rounds(g, begin, body)
        <3> HIDE DEF body
        <3> QED
            BY <1>3, <1>4, RoundsExist
    <2>2. \A k \in Nat : k # 0 => body[k][g[k - 1]] = Step(g[k - 1])
        BY <2>1, SMTT(60)
    <2>3. Loop(g)
        <3> HIDE DEF body
        <3> QED
            BY <2>1, <2>2 DEF Rounds
    <2> QED
        BY <2>3
<1>6. Loop(f)
    BY <1>2, <1>5
<1>7. f[0] = begin /\ \A k \in Nat : f[k + 1] = Step(f[k])
    BY <1>6, SMTT(60)
<1>8. \A k \in Nat : f[k] \in V
    <2> DEFINE S == { k \in Nat : f[k] \in V }
    <2>1. 0 \in S
        BY <1>3, <1>7
    <2>2. ASSUME NEW k \in Nat, k \in S PROVE k + 1 \in S
        <3>1. f[k] \in V /\ f[k + 1] = Step(f[k])
            BY <1>7, <2>2
        <3>2. f[k + 1] \in V
            BY <1>1, <3>1
        <3> QED
            BY <3>2
    <2> HIDE DEF S
    <2>3. \A k \in Nat : k \in S
        BY <2>1, <2>2, InductionOnSet
    <2> QED
        BY <2>3 DEF S
<1> QED
    BY <1>7, <1>8 DEF V, begin, Step, f

\* After as many rounds as there are entries the galloping is over.
LEMMA GallopEnds ==
    ASSUME NEW n \in Nat, NEW h, HeadArray(h, n), NEW e \in Nat, NEW lower \in Nat,
           NEW upper \in Nat, NEW first \in Nat, lower < upper, upper <= n,
           lower <= first, first < upper => ~empty(h, first)
    PROVE  LET g == Gallops(h, e, lower, first, upper)[upper - lower]
           IN  /\ g \in GallopState /\ Galloped(h, n, e, lower, first, upper, g)
               /\ ~(g.end < upper /\ head(h, g.end) <= e)
<1> DEFINE f == Gallops(h, e, lower, first, upper)
           Over(g) == ~(g.end < upper /\ head(h, g.end) <= e)
           S == { k \in Nat : Over(f[k]) \/ lower + k <= f[k].end }
<1>1. FirstGallop(lower, first) \in GallopedStates(h, n, e, lower, first, upper)
    BY DEF FirstGallop, GallopedStates, GallopState, Galloped
<1>2. /\ f[0] = FirstGallop(lower, first)
      /\ \A k \in Nat : f[k + 1] = gallop(h, e, upper, f[k])
      /\ \A k \in Nat : f[k] \in GallopedStates(h, n, e, lower, first, upper)
    BY <1>1, GallopsAre
<1> HIDE DEF f
<1>3. \A k \in Nat : f[k] \in GallopState /\ Galloped(h, n, e, lower, first, upper, f[k])
    BY <1>2 DEF GallopedStates
<1>4. 0 \in S
    BY <1>2, SMTT(60) DEF FirstGallop
<1>5. ASSUME NEW k \in Nat, k \in S PROVE k + 1 \in S
    <2>1. \/ f[k + 1] = f[k] /\ Over(f[k])
          \/ f[k].end < f[k + 1].end
        <3>1. /\ f[k] \in GallopedStates(h, n, e, lower, first, upper)
              /\ f[k + 1] = gallop(h, e, upper, f[k])
            BY <1>2
        <3> QED
            BY <3>1, GallopSteps
    <2>2. f[k].end \in Int /\ f[k + 1].end \in Int
        BY <1>3, SMTT(60) DEF GallopState
    <2>3. CASE Over(f[k])
        <3>1. f[k + 1] = f[k]
            BY <1>2, <2>3 DEF gallop
        <3> QED
            BY <2>3, <3>1
    <2>4. CASE ~Over(f[k])
        <3>1. lower + k <= f[k].end /\ f[k].end < f[k + 1].end
            BY <1>5, <2>1, <2>4
        <3> QED
            BY <2>2, <3>1
    <2> QED
        BY <2>3, <2>4
<1> HIDE DEF S
<1>6. \A k \in Nat : k \in S
    BY <1>4, <1>5, InductionOnSet
<1>7. Over(f[upper - lower])
    <2>1. upper - lower \in Nat
        OBVIOUS
    <2>2. f[upper - lower].end \in Int
        BY <1>3, <2>1 DEF GallopState
    <2>3. upper - lower \in S
        BY <1>6, <2>1
    <2> QED
        BY <2>2, <2>3 DEF S
<1> QED
    BY <1>3, <1>7 DEF f

\* An empty interval before an entry above e is answered with that entry.
LEMMA BinarySearchOfNothing ==
    ASSUME NEW n \in Nat, NEW h, HeadArray(h, n), NEW e \in Nat, NEW lower \in 0 .. n - 1,
           ~empty(h, lower)
    PROVE  binarySearch(h, e, lower, lower) = lower
<1> DEFINE s == Narrow(h, e, lower, lower - 1, FALSE)
           r == linearSearch(h, e, s.left, lower)
<1>1. s = WholeInterval(lower, lower - 1)
    <2>1. s = Halvings(h, e, lower, lower - 1, FALSE)[0]
        BY DEF Narrow
    <2>2. lower \in Int
        OBVIOUS
    <2>3. Halvings(h, e, lower, lower - 1, FALSE)[0] = WholeInterval(lower, lower - 1)
        BY <2>2, EmptyHalvings
    <2> HIDE DEF s
    <2> QED
        BY <2>1, <2>3
<1>2. binarySearch(h, e, lower, lower) =
          IF s.hit THEN s.candidate
          ELSE IF empty(h, r) \/ (e < h[r] /\ r # lower) THEN s.candidate
          ELSE r
    BY DEF binarySearch
<1> HIDE DEF s
<1>3. ~s.hit /\ s.left = lower
    BY <1>1 DEF WholeInterval
<1>4. r = lower
    <2>1. r = linearSearch(h, e, lower, lower)
        BY <1>3
    <2>2. lower \in Nat /\ lower <= n
        OBVIOUS
    <2> HIDE DEF r
    <2>3. lower <= r /\ (r = lower \/ (r < lower /\ Takes(h, n, e, r))) /\ r \in Nat
        BY <2>1, <2>2, LinearSearchStops
    <2> QED
        BY <2>2, <2>3
<1> HIDE DEF r
<1> QED
    BY <1>2, <1>3, <1>4

\* exponentialSearch, used by the insertion tasks from their last block on: when that
\* block is not empty, or an entry behind it takes the element, the search returns the
\* last block of the range whose head is at most the element, and the start of the
\* range if there is none.
THEOREM InsertionBlockIsLast ==
    ASSUME NEW n \in Nat, NEW h, HeadArray(h, n), NEW e \in Nat, NEW lower \in Nat,
           NEW upper \in Nat, lower < upper, upper <= n,
           ~empty(h, lower) \/ LastAtMost(h, e, lower, upper) # -1
    PROVE  exponentialSearch(h, e, lower, upper) =
               IF LastAtMost(h, e, lower, upper) = -1 THEN lower
               ELSE LastAtMost(h, e, lower, upper)
<1> DEFINE first == IF lower < upper /\ empty(h, lower) THEN findNext(h, lower, upper)
                    ELSE lower
           g == Gallops(h, e, lower, first, upper)[upper - lower]
           end == IF upper < g.end THEN upper ELSE g.end
<1>1. exponentialSearch(h, e, lower, upper) = binarySearch(h, e, g.start, end)
    BY DEF exponentialSearch
<1>2. /\ first \in Nat /\ lower <= first /\ (first < upper => ~empty(h, first))
      /\ empty(h, lower) =>
             lower < first /\ \A j \in lower + 1 .. first - 1 : j < upper => empty(h, j)
      /\ ~empty(h, lower) => first = lower
    <2>1. CASE empty(h, lower)
        <3>1. first = findNext(h, lower, upper)
            BY <2>1
        <3> HIDE DEF first
        <3>2. /\ first \in Int /\ lower < first /\ (first < upper => ~empty(h, first))
              /\ \A j \in lower + 1 .. first - 1 : j < upper => empty(h, j)
            BY <3>1, FindNextStops, SMTT(60)
        <3> QED
            BY <2>1, <3>2
    <2>2. CASE ~empty(h, lower)
        BY <2>2
    <2> QED
        BY <2>1, <2>2
<1> HIDE DEF first
<1>3. /\ g \in GallopState /\ Galloped(h, n, e, lower, first, upper, g)
      /\ ~(g.end < upper /\ head(h, g.end) <= e)
    BY <1>2, GallopEnds
<1> HIDE DEF g
<1>4. /\ g.start \in Nat /\ g.end \in Nat /\ lower <= g.start /\ g.start < upper
      /\ lower <= g.end /\ (g.end < upper => ~empty(h, g.end))
    BY <1>3 DEF GallopState, Galloped
\* What lies behind the end of the galloping does not take e.
<1>5. \A j \in Int : end <= j /\ j < upper => ~Takes(h, n, e, j)
    <2> SUFFICES ASSUME NEW j \in Int, end <= j, j < upper PROVE ~Takes(h, n, e, j)
        OBVIOUS
    <2>1. g.end < upper /\ end = g.end
        BY <1>4
    <2>2. g.end \in 0 .. n - 1 /\ h[g.end] # 0 /\ h[g.end] \in Nat /\ e < h[g.end]
        BY <1>3, <1>4, <2>1, EmptyEntry, SMTT(60)
    <2>3. \A i \in Int : g.end < i => ~Takes(h, n, e, i)
        BY <2>2, NoneTakesBehind
    <2>4. ~Takes(h, n, e, g.end)
        BY <2>2 DEF Takes
    <2> QED
        BY <1>4, <2>1, <2>3, <2>4
<1>6. end \in Nat /\ end <= upper
    BY <1>4
<1> HIDE DEF end
<1>7. CASE g.start < g.end /\ Takes(h, n, e, g.start)
    <2>1. g.start < end
        BY <1>4, <1>7 DEF end
    <2>2. binarySearch(h, e, g.start, end) = LastAtMost(h, e, g.start, end)
        BY <1>4, <1>6, <1>7, <2>1, BinarySearchIsLast, SMTT(60)
    <2>3. PICK b \in g.start .. end - 1 :
              Takes(h, n, e, b) /\ NoneTakes(h, n, e, b + 1, end - 1)
        <3> DEFINE T == { i \in g.start .. end - 1 : Takes(h, n, e, i) }
        <3>1. T # {} /\ end \in Int /\ \A i \in T : i \in Int /\ i <= end
            BY <1>4, <1>6, <1>7, <2>1
        <3>2. Max(T) \in T /\ \A i \in T : i <= Max(T)
            <4> HIDE DEF T
            <4> QED
                BY <3>1, MaxOfSet
        <3> DEFINE b == Max(T)
        <3>3. b \in T /\ \A i \in T : i <= b
            BY <3>2
        <3> HIDE DEF b
        <3>4. b \in g.start .. end - 1 /\ Takes(h, n, e, b)
            BY <3>3
        <3>5. NoneTakes(h, n, e, b + 1, end - 1)
            BY <1>4, <1>6, <3>3, <3>4 DEF NoneTakes
        <3> QED
            BY <3>4, <3>5
    <2>4. LastAtMost(h, e, g.start, end) = b
        BY <1>4, <1>6, <2>3, LastIs, SMTT(60)
    <2>5. b \in lower .. upper - 1 /\ NoneTakes(h, n, e, b + 1, upper - 1)
        BY <1>4, <1>5, <1>6, <2>3 DEF NoneTakes
    <2>6. LastAtMost(h, e, lower, upper) = b
        BY <2>3, <2>5, LastIs
    <2> QED
        BY <1>1, <1>4, <2>2, <2>3, <2>4, <2>6
<1>8. CASE g.start = lower /\ g.end = first
    <2>1. ~empty(h, lower)
        <3> SUFFICES ASSUME empty(h, lower) PROVE FALSE
            OBVIOUS
        <3>1. \A j \in lower .. upper - 1 : ~Takes(h, n, e, j)
            <4> SUFFICES ASSUME NEW j \in lower .. upper - 1, Takes(h, n, e, j)
                         PROVE  FALSE
                OBVIOUS
            <4>1. ~empty(h, j) /\ j # lower
                BY EmptyEntry, SMTT(60) DEF Takes
            <4>2. first <= j
                BY <1>2, <4>1
            <4>3. end <= j
                BY <1>2, <1>8, <4>2 DEF end
            <4> QED
                BY <1>5, <4>3
        <3>2. NoneTakes(h, n, e, lower, upper - 1)
            BY <3>1 DEF NoneTakes
        <3> QED
            BY <3>2, LastIsNone
    <2>2. first = lower /\ end = lower
        BY <1>2, <1>8, <2>1 DEF end
    <2>3. binarySearch(h, e, lower, lower) = lower
        <3>1. lower \in 0 .. n - 1
            OBVIOUS
        <3> QED
            BY <2>1, <3>1, BinarySearchOfNothing
    <2>4. NoneTakes(h, n, e, lower, upper - 1)
        BY <1>5, <2>2 DEF NoneTakes
    <2>5. LastAtMost(h, e, lower, upper) = -1
        BY <2>4, LastIsNone
    <2> QED
        BY <1>1, <1>8, <2>2, <2>3, <2>5
<1> QED
    BY <1>3, <1>7, <1>8 DEF Galloped
-----------------------------------------------------------------------------
\* A batch: its keys increase.
SortedBatch(b) ==
    /\ b \in Seq(Nat)
    /\ \A i, j \in 1 .. Len(b) : i < j => b[i] < b[j]

\* The state of the galloping down: from current + delta on, the batch up to start
\* either is that one element or begins with a key of at least blockHead.
GallopDownState == [current : Int, delta : Int]

GallopedDown(b, start, key, g) ==
    /\ 0 < g.delta /\ 0 < g.current + g.delta
    /\ (g.current + g.delta) + g.delta = start + 1
    /\ g.current + g.delta = start \/ element(b, g.current + g.delta) >= key

GallopedDownStates(b, start, key) ==
    { g \in GallopDownState : GallopedDown(b, start, key, g) }

\* The element at an index of the batch.
LEMMA ElementOfBatch ==
    ASSUME NEW b, SortedBatch(b), NEW i \in 0 .. Len(b) - 1
    PROVE  /\ element(b, i) \in Nat
           /\ \A j \in 0 .. Len(b) - 1 : i < j => element(b, i) < element(b, j)
<1>1. b \in Seq(Nat) /\ Len(b) \in Nat /\ i + 1 \in 1 .. Len(b)
    BY DEF SortedBatch
<1>2. \A j \in 0 .. Len(b) - 1 : i < j => b[i + 1] < b[j + 1]
    BY <1>1 DEF SortedBatch
<1> QED
    BY <1>1, <1>2 DEF element

\* A step goes below an element of at least blockHead, unless the galloping is over.
LEMMA GallopDownSteps ==
    ASSUME NEW b, SortedBatch(b), NEW start \in 1 .. Len(b) - 1, NEW key \in Nat,
           NEW g \in GallopedDownStates(b, start, key)
    PROVE  LET t == gallopDown(b, key, g)
           IN  /\ t \in GallopedDownStates(b, start, key)
               /\ \/ t = g /\ ~(g.current > 0 /\ element(b, g.current) >= key)
                  \/ t.current < g.current
<1> DEFINE t == gallopDown(b, key, g)
<1> SUFFICES /\ t \in GallopedDownStates(b, start, key)
             /\ \/ t = g /\ ~(g.current > 0 /\ element(b, g.current) >= key)
                \/ t.current < g.current
    OBVIOUS
<1>1. g \in GallopDownState /\ GallopedDown(b, start, key, g)
    BY DEF GallopedDownStates
<1>2. CASE ~(g.current > 0 /\ element(b, g.current) >= key)
    <2>1. t = g
        BY <1>2 DEF gallopDown
    <2> QED
        BY <1>2, <2>1
<1>3. CASE g.current > 0 /\ element(b, g.current) >= key
    <2>1. t = [current |-> g.current - 2 * g.delta, delta |-> 2 * g.delta]
        BY <1>3 DEF gallopDown
    <2> HIDE DEF t
    <2>2. g.current \in Int /\ g.delta \in Int /\ start \in Int
        BY <1>1 DEF GallopDownState
    <2>3. /\ t \in GallopDownState /\ t.current = g.current - 2 * g.delta
          /\ t.delta = 2 * g.delta /\ t.current + t.delta = g.current
        BY <2>1, <2>2 DEF GallopDownState
    <2>4. /\ 0 < g.delta /\ (g.current + g.delta) + g.delta = start + 1
        BY <1>1 DEF GallopedDown
    <2>5. GallopedDown(b, start, key, t)
        BY <1>3, <2>2, <2>3, <2>4 DEF GallopedDown
    <2> QED
        BY <2>2, <2>3, <2>4, <2>5 DEF GallopedDownStates
<1> QED
    BY <1>2, <1>3

FirstGallopDown(current) == [current |-> current, delta |-> 1]

\* The loop of findFirstBatchElement.
LEMMA GallopsDownAre ==
    ASSUME NEW b, SortedBatch(b), NEW start \in 1 .. Len(b) - 1, NEW key \in Nat
    PROVE  LET f == GallopsDown(b, start - 1, key)
           IN  /\ f[0] = FirstGallopDown(start - 1)
               /\ \A k \in Nat : f[k + 1] = gallopDown(b, key, f[k])
               /\ \A k \in Nat : f[k] \in GallopedDownStates(b, start, key)
<1> DEFINE V == GallopedDownStates(b, start, key)
           begin == FirstGallopDown(start - 1)
           Step(v) == gallopDown(b, key, v)
           body == [k \in Nat |-> [v \in V |-> Step(v)]]
           Loop(g) == g = [k \in Nat |-> IF k = 0 THEN begin ELSE Step(g[k - 1])]
           f == GallopsDown(b, start - 1, key)
<1>1. \A v \in V : Step(v) \in V
    BY GallopDownSteps
<1>2. f = CHOOSE g : Loop(g)
    BY DEF GallopsDown, FirstGallopDown
<1>3. begin \in V
    <2>1. Len(b) \in Nat
        BY DEF SortedBatch
    <2> QED
        BY <2>1 DEF FirstGallopDown, GallopedDownStates, GallopDownState, GallopedDown
<1> HIDE DEF V, begin, Step, f
<1>4. body \in [Nat -> [V -> V]]
    BY <1>1
<1>5. \E g : Loop(g)
    <2>1. PICK g \in [Nat -> V] : Rounds(g, begin, body)
        <3> HIDE DEF body
        <3> QED
            BY <1>3, <1>4, RoundsExist
    <2>2. \A k \in Nat : k # 0 => body[k][g[k - 1]] = Step(g[k - 1])
        BY <2>1, SMTT(60)
    <2>3. Loop(g)
        <3> HIDE DEF body
        <3> QED
            BY <2>1, <2>2 DEF Rounds
    <2> QED
        BY <2>3
<1>6. Loop(f)
    BY <1>2, <1>5
<1>7. f[0] = begin /\ \A k \in Nat : f[k + 1] = Step(f[k])
    BY <1>6, SMTT(60)
<1>8. \A k \in Nat : f[k] \in V
    <2> DEFINE S == { k \in Nat : f[k] \in V }
    <2>1. 0 \in S
        BY <1>3, <1>7
    <2>2. ASSUME NEW k \in Nat, k \in S PROVE k + 1 \in S
        <3>1. f[k] \in V /\ f[k + 1] = Step(f[k])
            BY <1>7, <2>2
        <3>2. f[k + 1] \in V
            BY <1>1, <3>1
        <3> QED
            BY <3>2
    <2> HIDE DEF S
    <2>3. \A k \in Nat : k \in S
        BY <2>1, <2>2, InductionOnSet
    <2> QED
        BY <2>3 DEF S
<1> QED
    BY <1>7, <1>8 DEF V, begin, Step, f

\* After startIndex rounds the galloping down is over.
LEMMA GallopDownEnds ==
    ASSUME NEW b, SortedBatch(b), NEW start \in 1 .. Len(b) - 1, NEW key \in Nat
    PROVE  LET g == GallopsDown(b, start - 1, key)[start]
           IN  /\ g \in GallopDownState /\ GallopedDown(b, start, key, g)
               /\ ~(g.current > 0 /\ element(b, g.current) >= key)
<1> DEFINE f == GallopsDown(b, start - 1, key)
           Over(g) == ~(g.current > 0 /\ element(b, g.current) >= key)
           S == { k \in Nat : Over(f[k]) \/ f[k].current <= start - 1 - k }
<1>1. /\ f[0] = FirstGallopDown(start - 1)
      /\ \A k \in Nat : f[k + 1] = gallopDown(b, key, f[k])
      /\ \A k \in Nat : f[k] \in GallopedDownStates(b, start, key)
    BY GallopsDownAre
<1>2. start \in Nat
    BY DEF SortedBatch
<1> HIDE DEF f
<1>3. \A k \in Nat : f[k] \in GallopDownState /\ GallopedDown(b, start, key, f[k])
    BY <1>1 DEF GallopedDownStates
<1>4. 0 \in S
    <2>1. f[0].current = start - 1
        BY <1>1, SMTT(60) DEF FirstGallopDown
    <2> QED
        BY <1>2, <2>1
<1>5. ASSUME NEW k \in Nat, k \in S PROVE k + 1 \in S
    <2>1. \/ f[k + 1] = f[k] /\ Over(f[k])
          \/ f[k + 1].current < f[k].current
        <3>1. /\ f[k] \in GallopedDownStates(b, start, key)
              /\ f[k + 1] = gallopDown(b, key, f[k])
            BY <1>1
        <3> QED
            BY <3>1, GallopDownSteps
    <2>2. f[k].current \in Int /\ f[k + 1].current \in Int
        BY <1>3, SMTT(60) DEF GallopDownState
    <2>3. CASE Over(f[k])
        <3>1. f[k + 1] = f[k]
            BY <1>1, <2>3 DEF gallopDown
        <3> QED
            BY <2>3, <3>1
    <2>4. CASE ~Over(f[k])
        <3>1. f[k].current <= start - 1 - k /\ f[k + 1].current < f[k].current
            BY <1>5, <2>1, <2>4
        <3> QED
            BY <1>2, <2>2, <3>1
    <2> QED
        BY <2>3, <2>4
<1> HIDE DEF S
<1>6. \A k \in Nat : k \in S
    BY <1>4, <1>5, InductionOnSet
<1>7. Over(f[start])
    <2>1. f[start].current \in Int
        BY <1>2, <1>3 DEF GallopDownState
    <2>2. start \in S
        BY <1>2, <1>6
    <2> QED
        BY <1>2, <2>1, <2>2 DEF S
<1> QED
    BY <1>2, <1>3, <1>7 DEF f

\* lower_bound is settled by an index with an element of at least key and only smaller
\* elements before it.
LEMMA LowerBoundIs ==
    ASSUME NEW b, NEW from \in Int, NEW to \in Int, NEW key, NEW m \in from .. to - 1,
           element(b, m) >= key, \A i \in from .. m - 1 : ~(element(b, i) >= key)
    PROVE  lower_bound(b, from, to, key) = m
<1> DEFINE found == { i \in from .. to - 1 : element(b, i) >= key }
<1>1. /\ m \in found /\ found # {}
      /\ \A i \in found : i \in Int /\ m <= i
    OBVIOUS
<1>2. lower_bound(b, from, to, key) = Min(found)
    BY <1>1 DEF lower_bound
<1> HIDE DEF found
<1>3. Min(found) \in found /\ \A i \in found : Min(found) <= i
    BY <1>1, MinOfSet
<1>4. Min(found) \in Int /\ m <= Min(found) /\ Min(found) <= m
    BY <1>1, <1>3
<1> QED
    BY <1>2, <1>4

\* findFirstBatchElement, which places the splitters of a batch: for every sorted batch
\* it returns what a search of all elements up to the splitter returns, and it reads no
\* element behind the splitter's.
THEOREM FirstElementIsFirst ==
    ASSUME NEW b, SortedBatch(b), NEW start \in 1 .. Len(b) - 1, NEW key \in Nat
    PROVE  /\ findFirstBatchElement(b, start, key) = lower_bound(b, 0, start + 1, key)
           /\ LET g == GallopsDown(b, start - 1, key)[start]
              IN  (IF g.current < 0 THEN 0 ELSE g.current) + g.delta <= start
<1> DEFINE g == GallopsDown(b, start - 1, key)[start]
           from == IF g.current < 0 THEN 0 ELSE g.current
           to == from + g.delta + 1
           Large(i) == element(b, i) >= key
<1>1. findFirstBatchElement(b, start, key) = lower_bound(b, from, to, key)
    BY DEF findFirstBatchElement
<1>2. /\ g \in GallopDownState /\ GallopedDown(b, start, key, g)
      /\ ~(g.current > 0 /\ Large(g.current))
    BY GallopDownEnds
<1> HIDE DEF g
<1>3. Len(b) \in Nat /\ start \in Nat /\ 0 < start /\ start < Len(b)
    BY DEF SortedBatch
<1>4. /\ g.current \in Int /\ g.delta \in Int /\ 0 < g.delta /\ 0 < g.current + g.delta
      /\ g.current + g.delta + g.delta = start + 1
      /\ g.current + g.delta = start \/ Large(g.current + g.delta)
    BY <1>2 DEF GallopDownState, GallopedDown
<1>5. from \in Nat /\ to \in Nat /\ from < to /\ to <= start + 1
    BY <1>3, <1>4
<1>6. from + g.delta <= start
    BY <1>3, <1>4
\* All elements before the interval are smaller.
<1>7. \A i \in 0 .. from - 1 : ~Large(i)
    <2> SUFFICES ASSUME NEW i \in 0 .. from - 1 PROVE ~Large(i)
        OBVIOUS
    <2>1. from = g.current /\ g.current > 0 /\ ~Large(g.current)
        BY <1>2, <1>4, <1>5
    <2>2. i \in 0 .. Len(b) - 1 /\ g.current \in 0 .. Len(b) - 1 /\ i < g.current
        BY <1>3, <1>5, <2>1
    <2>3. /\ element(b, i) \in Nat /\ element(b, g.current) \in Nat
          /\ element(b, i) < element(b, g.current)
        BY <2>2, ElementOfBatch
    <2> QED
        BY <2>1, <2>3
\* The interval ends with the splitter, or has an element of at least key.
<1>8. to = start + 1 \/ \E i \in from .. to - 1 : Large(i)
    <2>1. CASE g.current < 0
        <3>1. g.current + g.delta # start
            BY <1>3, <1>4, <2>1
        <3>2. Large(g.current + g.delta) /\ g.current + g.delta \in from .. to - 1
            BY <1>4, <2>1, <3>1
        <3> QED
            BY <3>2
    <2>2. CASE ~(g.current < 0)
        <3>1. to = g.current + g.delta + 1
            BY <2>2
        <3>2. CASE g.current + g.delta = start
            BY <3>1, <3>2
        <3>3. CASE Large(g.current + g.delta)
            <4>1. g.current + g.delta \in from .. to - 1
                BY <1>4, <2>2
            <4> QED
                BY <3>3, <4>1
        <3> QED
            BY <1>4, <3>2, <3>3
    <2> QED
        BY <2>1, <2>2
<1> HIDE DEF from, to
<1>9. CASE \E i \in from .. to - 1 : Large(i)
    <2> DEFINE T == { i \in from .. to - 1 : Large(i) }
    <2>1. T # {} /\ \A i \in T : i \in Int /\ from <= i
        BY <1>5, <1>9
    <2>2. PICK m \in T : \A i \in T : m <= i
        <3>1. T \in SUBSET Nat
            BY <1>5, SMTT(60)
        <3> QED
            BY <2>1, <3>1, LeastNumber
    <2>3. /\ m \in from .. to - 1 /\ Large(m)
          /\ \A i \in from .. m - 1 : ~Large(i)
        BY <1>5, <2>2
    <2>4. lower_bound(b, from, to, key) = m
        BY <1>5, <2>3, LowerBoundIs
    <2>5. m \in 0 .. (start + 1) - 1 /\ \A i \in 0 .. m - 1 : ~Large(i)
        BY <1>3, <1>5, <1>7, <2>3
    <2>6. lower_bound(b, 0, start + 1, key) = m
        BY <1>3, <2>3, <2>5, LowerBoundIs, SMTT(60)
    <2> QED
        BY <1>1, <1>6, <2>4, <2>6 DEF from, g
<1>10. CASE to = start + 1 /\ ~\E i \in from .. to - 1 : Large(i)
    <2>1. { i \in from .. to - 1 : Large(i) } = {}
        BY <1>10
    <2>2. lower_bound(b, from, to, key) = to
        BY <2>1 DEF lower_bound
    <2>3. { i \in 0 .. (start + 1) - 1 : Large(i) } = {}
        BY <1>3, <1>5, <1>7, <1>10
    <2>4. lower_bound(b, 0, start + 1, key) = start + 1
        BY <2>3 DEF lower_bound
    <2> QED
        BY <1>1, <1>6, <1>10, <2>2, <2>4 DEF from, g
<1> QED
    BY <1>8, <1>9, <1>10
-----------------------------------------------------------------------------
\* The arrays and the batches that the runs enumerate.
SearchInv == HeadArray(heads, size(heads)) /\ SortedBatch(batch)

LEMMA SearchInvHolds == Spec => []SearchInv
<1>1. Init => SearchInv
    <2> SUFFICES ASSUME Init PROVE SearchInv
        OBVIOUS
    <2>1. heads \in [0 .. 0 - 1 -> Nat] /\ batch = <<>>
        BY DEF Init, NoHeads
    <2>2. size(heads) = 0
        BY <2>1, SizeOfArray
    <2> QED
        BY <2>1, <2>2 DEF SearchInv, HeadArray, SortedBatch
<1>2. SearchInv /\ [Next]_vars => SearchInv'
    <2> SUFFICES ASSUME SearchInv, [Next]_vars PROVE SearchInv'
        OBVIOUS
    <2> DEFINE n == size(heads)
    <2>1. HeadArray(heads, n) /\ SortedBatch(batch)
        BY DEF SearchInv
    <2>2. ASSUME NEW k \in Keys \cup {0}, AddEntry(k) PROVE SearchInv'
        <3>1. n \in Nat /\ heads \in [0 .. n - 1 -> Nat] /\ k \in Nat
            BY <2>1, BoundsAssumption DEF HeadArray, Keys
        <3>2. heads' = [i \in 0 .. n |-> IF i = n THEN k ELSE heads[i]]
            BY <2>2 DEF AddEntry
        <3>3. k = 0 \/ \A i \in 0 .. n - 1 : heads[i] < k
            BY <2>2, <3>1 DEF AddEntry
        <3> HIDE DEF n
        <3>4. heads' \in [0 .. (n + 1) - 1 -> Nat]
            BY <3>1, <3>2, SMTT(60)
        <3>5. size(heads') = n + 1
            BY <3>1, <3>4, SizeOfArray, SMTT(60)
        <3>6. HeadArray(heads', n + 1)
            BY <2>1, <3>1, <3>2, <3>3, <3>4, SMTT(60) DEF HeadArray
        <3>7. size(heads)' = size(heads')
            BY DEF size
        <3> QED
            BY <2>1, <2>2, <3>5, <3>6, <3>7 DEF SearchInv, AddEntry, SortedBatch, HeadArray
    <2>3. ASSUME NEW k \in Keys, AddElement(k) PROVE SearchInv'
        <3>1. batch \in Seq(Nat) /\ k \in Nat /\ batch' = Append(batch, k)
            BY <2>1, <2>3, BoundsAssumption DEF SortedBatch, AddElement, Keys
        <3>2. \A i \in 1 .. Len(batch) : batch[i] < k
            BY <2>3 DEF AddElement
        <3>3. /\ batch' \in Seq(Nat) /\ Len(batch) \in Nat /\ Len(batch') = Len(batch) + 1
              /\ batch'[Len(batch) + 1] = k
              /\ \A i \in 1 .. Len(batch) : batch'[i] = batch[i]
            BY <3>1
        <3>4. \A i, j \in 1 .. Len(batch) : i < j => batch[i] < batch[j]
            BY <2>1 DEF SortedBatch
        <3>5. ASSUME NEW i \in 1 .. Len(batch'), NEW j \in 1 .. Len(batch'), i < j
              PROVE  batch'[i] < batch'[j]
            <4>1. i \in 1 .. Len(batch) /\ batch'[i] = batch[i]
                BY <3>3, <3>5
            <4>2. CASE j \in 1 .. Len(batch)
                BY <3>3, <3>4, <3>5, <4>1, <4>2
            <4>3. CASE j = Len(batch) + 1
                BY <3>2, <3>3, <4>1, <4>3
            <4> QED
                BY <3>3, <4>2, <4>3
        <3>6. SortedBatch(batch')
            BY <3>3, <3>5 DEF SortedBatch
        <3> QED
            BY <2>1, <2>3, <3>6 DEF SearchInv, AddElement, SortedBatch, HeadArray, size
    <2>4. CASE UNCHANGED vars
        BY <2>1, <2>4 DEF vars, SearchInv, SortedBatch, HeadArray, size
    <2> QED
        BY <2>2, <2>3, <2>4 DEF Next
<1> QED
    BY <1>1, <1>2, PTL DEF Spec

\* Whatever array is built, with any cutoff: the queries, the distribution of a batch
\* and the insertion tasks find the same block for a key.
THEOREM SearchesAgree == Spec => []BlockFound
<1>1. SearchInv => BlockFound
    <2> SUFFICES ASSUME SearchInv PROVE BlockFound
        OBVIOUS
    <2> DEFINE n == size(heads)
    <2>1. n \in Nat /\ HeadArray(heads, n) /\ \A e \in Keys : e \in Nat
        BY BoundsAssumption DEF SearchInv, HeadArray, Keys
    <2> HIDE DEF n
    <2>2. \A e \in Keys : findContainingBlock(heads, e) = LastAtMost(heads, e, 0, n)
        BY <2>1, ContainingBlockIsLast
    <2>3. ASSUME NEW e \in Keys, NEW lower \in 0 .. n, NEW upper \in 0 .. n, lower < upper,
                 ~empty(heads, lower) \/ LastAtMost(heads, e, lower, upper) # -1
          PROVE  exponentialSearch(heads, e, lower, upper) =
                     IF LastAtMost(heads, e, lower, upper) = -1 THEN lower
                     ELSE LastAtMost(heads, e, lower, upper)
        <3>1. e \in Nat /\ lower \in Nat /\ upper \in Nat /\ upper <= n
            BY <2>1
        <3> QED
            BY <2>1, <2>3, <3>1, InsertionBlockIsLast, SMTT(60)
    <2> QED
        BY <2>2, <2>3 DEF BlockFound, ContainingBlockFound, InsertionBlockFound, n
<1> QED
    BY <1>1, SearchInvHolds, PTL

\* Whatever sorted batch is built, the task of a splitter starts at the first element
\* that belongs to the splitter's block or to a later one.
THEOREM SplittersFindTheirElement == Spec => []FirstElementFound
<1>1. SearchInv => FirstElementFound
    <2> SUFFICES ASSUME SearchInv, NEW start \in 1 .. Len(batch) - 1,
                        NEW key \in Keys \cup {0}
                 PROVE  findFirstBatchElement(batch, start, key) =
                            lower_bound(batch, 0, start + 1, key)
        BY DEF FirstElementFound
    <2>1. SortedBatch(batch) /\ key \in Nat
        BY BoundsAssumption DEF SearchInv, Keys
    <2> QED
        BY <2>1, FirstElementIsFirst
<1> QED
    BY <1>1, SearchInvHolds, PTL
=============================================================================
