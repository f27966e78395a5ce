---------------------------- MODULE BlockProofs ----------------------------
(***************************************************************************)
(* The methods of a block are exact although its unused slots keep old     *)
(* values, for blocks of every size.  The argument: every slot, in use or  *)
(* not, holds NULL_KEY or a key that is stored somewhere in the array, for *)
(* keys are moved and never removed.  A key that is new to the array       *)
(* therefore never looks as if it were there, and one that is stored in    *)
(* the array is sent to the block that holds it.                           *)
(***************************************************************************)
EXTENDS BlockMerge, WellFoundedInduction, TLAPS

\* The provers that a leaf is given to, and for how long.
USE ZenonT(60), SMTT(60)

\* The first n entries of an array are keys in increasing order.
Increasing(s, n) ==
    \A j \in 0 .. n - 1 : s[j] # 0 /\ \A i \in 0 .. j - 1 : s[i] < s[j]

Values(s, n) == { s[i] : i \in 0 .. n - 1 }

\* The first m entries of s are smaller than the first n of u.
Below(s, m, u, n) == \A i \in 0 .. m - 1 : \A j \in 0 .. n - 1 : s[i] < u[j]

\* The entries of t from m on are the first n of u.
Copied(t, m, u, n) == \A i \in 0 .. n - 1 : t[m + i] = u[i]

\* A block in use: its elements increase, and its head is the first one.
WellFormed(b) ==
    /\ b \in Blocks
    /\ Increasing(b.slots, b.size)
    /\ b.size > 0 => b.head = b.slots[0]

\* Every slot holds NULL_KEY or one of the stored keys.
Tracked(b, stored) == \A i \in Slots : b.slots[i] \in stored \cup {0}

-----------------------------------------------------------------------------
(* Induction and loops, stated about sets and functions so that the        *)
(* provers can apply them: a property is the set of the numbers that have  *)
(* it, the body of a loop is a function from states to states.             *)

\* A set of natural numbers has a least element.
LEMMA LeastNumber ==
    ASSUME NEW S \in SUBSET Nat, S # {}
    PROVE  \E n \in S : \A m \in S : n <= m
<1> DEFINE R == OpToRel(<, Nat)
<1>1. IsWellFoundedOn(R, Nat)
    BY NatLessThanWellFounded
<1>2. \A m, n \in Nat : m < n => <<m, n>> \in R
    BY DEF OpToRel
<1> HIDE DEF R
<1>3. PICK n \in S : \A m \in S : ~ (<<m, n>> \in R)
    BY <1>1, WFMin
<1>4. ASSUME NEW m \in S PROVE n <= m
    <2>1. ~ (m < n)
        BY <1>2, <1>3
    <2> QED
        BY <2>1
<1> QED
    BY <1>4

\* A set with 0 and, for each of its numbers, the next one, has all numbers.
LEMMA InductionOnSet ==
    ASSUME NEW S, 0 \in S, \A n \in Nat : n \in S => n + 1 \in S
    PROVE  \A n \in Nat : n \in S
<1> SUFFICES ASSUME { n \in Nat : n \notin S } # {} PROVE FALSE
    OBVIOUS
<1>1. PICK n \in Nat : n \notin S /\ \A m \in Nat : m \notin S => n <= m
    BY LeastNumber
<1>2. n # 0 /\ n - 1 \in Nat /\ n - 1 \in S
    BY <1>1
<1> QED
    BY <1>1, <1>2

\* A loop: after[n] is the state after n rounds.  The body may depend on the round.
Rounds(after, first, body) ==
    after = [n \in Nat |-> IF n = 0 THEN first ELSE body[n][after[n - 1]]]

\* Every loop whose body maps states to states defines its rounds, and all of them
\* are states.
LEMMA RoundsExist ==
    ASSUME NEW V, NEW first \in V, NEW body \in [Nat -> [V -> V]]
    PROVE  \E after \in [Nat -> V] : Rounds(after, first, body)
<1> DEFINE Upto(n, f) == /\ f \in [0 .. n -> V] /\ f[0] = first
                         /\ \A k \in 1 .. n : f[k] = body[k][f[k - 1]]
           S == { n \in Nat : \E f \in [0 .. n -> V] : Upto(n, f) }
<1>1. 0 \in S
    <2>1. Upto(0, [k \in 0 .. 0 |-> first])
        OBVIOUS
    <2> QED
        BY <2>1
<1>2. ASSUME NEW n \in Nat, n \in S PROVE n + 1 \in S
    <2>1. PICK f \in [0 .. n -> V] : Upto(n, f)
        BY <1>2
    <2> DEFINE g == [k \in 0 .. n + 1 |-> IF k = n + 1 THEN body[n + 1][f[n]] ELSE f[k]]
    <2>2. g \in [0 .. n + 1 -> V]
        BY <2>1, SMTT(60)
    <2>3. /\ \A k \in 0 .. n : g[k] = f[k]
          /\ g[n + 1] = body[n + 1][f[n]]
        OBVIOUS
    <2> HIDE DEF g
    <2>4. ASSUME NEW k \in 1 .. n + 1 PROVE g[k] = body[k][g[k - 1]]
        <3>1. CASE k \in 1 .. n
            BY <2>1, <2>3, <3>1, SMTT(60)
        <3>2. CASE k = n + 1
            BY <2>3, <3>2, SMTT(60)
        <3> QED
            BY <3>1, <3>2, SMTT(60)
    <2>5. Upto(n + 1, g)
        BY <2>1, <2>2, <2>3, <2>4, SMTT(60)
    <2> HIDE DEF Upto
    <2> QED
        BY <2>2, <2>5, SMTT(60)
<1> HIDE DEF S
<1>3. \A n \in Nat : n \in S
    BY <1>1, <1>2, InductionOnSet
<1> DEFINE F(n) == CHOOSE f \in [0 .. n -> V] : Upto(n, f)
<1>4. \A n \in Nat : F(n) \in [0 .. n -> V] /\ Upto(n, F(n))
    BY <1>3 DEF S
<1> HIDE DEF F
\* Two of them agree where both are defined.
<1>5. ASSUME NEW n \in Nat PROVE \A k \in 0 .. n : F(n + 1)[k] = F(n)[k]
    <2> DEFINE T == { k \in Nat : k <= n => F(n + 1)[k] = F(n)[k] }
    <2>1. 0 \in T
        BY <1>4, SMTT(60)
    <2>2. ASSUME NEW k \in Nat, k \in T PROVE k + 1 \in T
        <3> SUFFICES ASSUME k + 1 <= n PROVE F(n + 1)[k + 1] = F(n)[k + 1]
            BY SMTT(60)
        <3>1. /\ F(n + 1)[k + 1] = body[k + 1][F(n + 1)[(k + 1) - 1]]
              /\ F(n)[k + 1] = body[k + 1][F(n)[(k + 1) - 1]]
            BY <1>4, SMTT(60)
        <3> QED
            BY <2>2, <3>1
    <2> HIDE DEF T
    <2>3. \A k \in Nat : k \in T
        BY <2>1, <2>2, InductionOnSet
    <2> QED
        BY <2>3 DEF T
<1> DEFINE after == [n \in Nat |-> F(n)[n]]
<1>6. after \in [Nat -> V]
    BY <1>4, SMTT(60)
<1>7. ASSUME NEW n \in Nat
      PROVE  after[n] = IF n = 0 THEN first ELSE body[n][after[n - 1]]
    <2>1. CASE n = 0
        BY <1>4, <2>1
    <2>2. CASE n # 0
        <3>1. F(n)[n] = body[n][F(n)[n - 1]]
            BY <1>4, <2>2, SMTT(60)
        <3>2. n - 1 \in Nat /\ (n - 1) + 1 = n
            BY <2>2
        <3>3. F(n)[n - 1] = F(n - 1)[n - 1]
            BY <1>5, <3>2, SMTT(60)
        <3> QED
            BY <2>2, <3>1, <3>2, <3>3
    <2> QED
        BY <2>1, <2>2
<1> HIDE DEF after
<1>8. Rounds(after, first, body)
    BY <1>6, <1>7 DEF Rounds
<1> QED
    BY <1>6, <1>8
-----------------------------------------------------------------------------
(* The methods of a block.                                                 *)

\* linearSearch finds the first position from start on whose key is not below e.
LEMMA SearchFinds ==
    ASSUME NEW b \in Blocks, NEW e \in Nat, NEW start \in 0 .. b.size
    PROVE  LET p == linearSearch(b, e, start)
           IN  /\ p \in start .. b.size
               /\ p = b.size \/ b.slots[p] >= e
               /\ \A i \in start .. p - 1 : b.slots[i] < e
PROOF
<1> USE SizeAssumption
<1>0. b.size \in Nat /\ b.size <= MaxSize /\ b.slots \in [Slots -> Nat]
  BY DEF Blocks
<1>1. CASE start = b.size
  BY <1>0, <1>1 DEF linearSearch
<1>2. CASE start < b.size
  <2> DEFINE S == { p \in start .. b.size : p = b.size \/ b.slots[p] >= e }
  <2>1. S \in SUBSET Nat /\ S # {}
    BY <1>0
  <2>2. PICK p \in S : \A m \in S : p <= m
    BY <2>1, LeastNumber
  <2>3. ASSUME NEW i \in start .. p - 1 PROVE b.slots[i] < e
    <3>1. i \in start .. b.size /\ i # b.size /\ i \notin S /\ i \in Slots
      BY <1>0, <2>2, SMTT(60) DEF Slots
    <3>2. b.slots[i] \in Nat
      BY <1>0, <3>1
    <3> QED BY <3>1, <3>2
  <2> DEFINE Found(q) == /\ q = b.size \/ b.slots[q] >= e
                         /\ \A i \in start .. q - 1 : b.slots[i] < e
  <2>4. \E q \in start .. b.size : Found(q)
    BY <2>2, <2>3
  <2>5. linearSearch(b, e, start) = CHOOSE q \in start .. b.size : Found(q)
    BY <1>0, <1>2 DEF linearSearch
  <2> HIDE DEF Found
  <2>6. /\ linearSearch(b, e, start) \in start .. b.size
        /\ Found(linearSearch(b, e, start))
    BY <2>4, <2>5
  <2> QED BY <2>6 DEF Found
<1> QED BY <1>0, <1>1, <1>2

\* Moving up by one and writing e, as insertAtIndex does, keeps an array increasing
\* and adds e to its values, if e belongs at that position.
LEMMA ShiftIn ==
    ASSUME NEW n \in Nat, n < MaxSize, NEW s \in [Slots -> Nat], Increasing(s, n),
           NEW e \in Nat, e # 0, NEW p \in Nat, p <= n,
           \A i \in 0 .. p - 1 : s[i] < e,
           p < n => s[p] > e
    PROVE  /\ makeFree(s, n, e, p) \in [Slots -> Nat]
           /\ Increasing(makeFree(s, n, e, p), n + 1)
           /\ Values(makeFree(s, n, e, p), n + 1) = Values(s, n) \cup {e}
PROOF
<1> MaxSize \in Nat
  BY SizeAssumption
<1> DEFINE t == makeFree(s, n, e, p)
<1>1. t \in [Slots -> Nat]
  BY SMTT(60) DEF makeFree, Slots
<1>2. ASSUME NEW i \in Nat, i < p PROVE t[i] = s[i] /\ t[i] < e /\ t[i] # 0
  BY <1>2 DEF makeFree, Slots, Increasing
<1>3. t[p] = e
  BY SMTT(60) DEF makeFree, Slots
<1>4. ASSUME NEW i \in Nat, p < i, i <= n
      PROVE  t[i] = s[i - 1] /\ t[i] > e /\ i - 1 \in 0 .. n - 1
  <2>1. t[i] = s[i - 1] /\ i - 1 \in Nat
    BY <1>4 DEF makeFree, Slots
  <2>2. s[p] > e /\ s[i - 1] \in Nat /\ s[p] \in Nat
    BY <1>4, <2>1, SMTT(60) DEF Slots
  <2>3. s[p] <= s[i - 1]
    BY <1>4, <2>1, <2>2 DEF Increasing
  <2> QED BY <1>4, <2>1, <2>2, <2>3
<1> HIDE DEF t
<1>5. Increasing(t, n + 1)
  <2> SUFFICES ASSUME NEW j \in Nat, j <= n
               PROVE  t[j] # 0 /\ \A i \in 0 .. j - 1 : t[i] < t[j]
    BY DEF Increasing
  <2>1. t[j] # 0
    BY <1>2, <1>3, <1>4, SMTT(60)
  <2>2. ASSUME NEW i \in Nat, i < j PROVE t[i] < t[j]
    <3>1. CASE j < p
      BY <1>2, <2>2, <3>1 DEF Increasing
    <3>2. CASE j = p
      BY <1>2, <1>3, <2>2, <3>2
    <3>3. CASE j > p /\ i < p
      <4>1. t[i] < e /\ t[j] > e /\ t[i] \in Nat /\ t[j] \in Nat
        BY <1>1, <1>2, <1>4, <3>3, SMTT(60) DEF Slots
      <4> QED BY <4>1
    <3>4. CASE i = p
      BY <1>3, <1>4, <2>2, <3>4
    <3>5. CASE i > p
      <4>1. t[i] = s[i - 1] /\ t[j] = s[j - 1] /\ i - 1 \in 0 .. (j - 1) - 1
            /\ j - 1 \in 0 .. n - 1
        BY <1>4, <2>2, <3>5
      <4> QED BY <4>1 DEF Increasing
    <3> QED BY <3>1, <3>2, <3>3, <3>4, <3>5
  <2> QED BY <2>1, <2>2
<1>6. { t[i] : i \in 0 .. n } = { s[i] : i \in 0 .. n - 1 } \cup {e}
  <2>1. ASSUME NEW i \in 0 .. n PROVE t[i] \in { s[k] : k \in 0 .. n - 1 } \cup {e}
    <3>1. CASE i < p
      BY <1>2, <3>1, SMTT(60)
    <3>2. CASE i > p
      BY <1>4, <3>2, SMTT(60)
    <3> QED BY <1>3, <3>1, <3>2, SMTT(60)
  <2>2. ASSUME NEW i \in 0 .. n - 1 PROVE s[i] \in { t[k] : k \in 0 .. n }
    <3>1. CASE i < p
      BY <1>2, <3>1, SMTT(60)
    <3>2. CASE i >= p
      <4>1. i + 1 \in 0 .. n /\ t[i + 1] = s[i]
        <5>1. i + 1 \in Nat /\ p < i + 1 /\ i + 1 <= n /\ (i + 1) - 1 = i
          BY <3>2
        <5> QED BY <1>4, <5>1
      <4> QED BY <4>1
    <3> QED BY <3>1, <3>2
  <2>3. e \in { t[k] : k \in 0 .. n }
    BY <1>3
  <2> QED BY <2>1, <2>2, <2>3
<1>7. Values(t, n + 1) = Values(s, n) \cup {e}
  <2>1. (n + 1) - 1 = n
    OBVIOUS
  <2> QED BY <1>6, <2>1 DEF Values
<1> QED BY <1>1, <1>5, <1>7 DEF t

-----------------------------------------------------------------------------
\* The result r of insertWithIndex: e was added to the keys of b unless it was there,
\* r.index is where it is, and all smaller elements are before that place.
AddsExactly(r, b, e, stored) ==
    /\ r.successful <=> e \notin Keys(b)
    /\ Keys(r.block) = Keys(b) \cup {e}
    /\ WellFormed(r.block)
    /\ Tracked(r.block, stored \cup {e})
    /\ r.index \in 0 .. r.block.size - 1 /\ r.block.slots[r.index] = e
    /\ \A i \in 0 .. b.size - 1 : b.slots[i] < e => i < r.index
    /\ r.block.size \in {b.size, b.size + 1}

\* insertWithIndex adds exactly the key it is given, and reports a duplicate exactly
\* if the key was there, although it looks at a slot that may be out of use: if the
\* key is stored in no other block, and the search hint is not behind its position.
THEOREM InsertExact ==
    ASSUME NEW b, WellFormed(b), b.size < MaxSize,
           NEW stored, Tracked(b, stored),
           NEW e \in Nat, e # 0, e \in stored => e \in Keys(b),
           NEW start \in 0 .. b.size,
           \A i \in 0 .. start - 1 : b.slots[i] < e
    PROVE  AddsExactly(insertWithIndex(b, e, start), b, e, stored)
PROOF
<1>1. PICK n, s, h : /\ b.size = n /\ b.slots = s /\ b.head = h
                     /\ b = [slots |-> s, size |-> n, head |-> h]
                     /\ n \in Nat /\ s \in [Slots -> Nat] /\ h \in Nat
  BY SizeAssumption, SMTT(60) DEF WellFormed, Blocks
<1>2. PICK p : /\ p = linearSearch(b, e, start) /\ p \in Nat /\ start <= p /\ p <= n
               /\ p = n \/ s[p] >= e
               /\ \A i \in start .. p - 1 : s[i] < e
  <2>1. b \in Blocks
    BY DEF WellFormed
  <2>2. LET q == linearSearch(b, e, start)
        IN  /\ q \in start .. b.size
            /\ q = b.size \/ b.slots[q] >= e
            /\ \A i \in start .. q - 1 : b.slots[i] < e
    BY <2>1, SearchFinds
  <2> HIDE <2>1
  <2> QED BY <1>1, <2>2
<1>3. \A i \in 0 .. p - 1 : s[i] < e
  BY <1>1, <1>2, SMTT(60)
<1>4. MaxSize \in Nat /\ n < MaxSize
  BY <1>1, SizeAssumption
<1>5. Increasing(s, n) /\ (n > 0 => h = s[0])
  BY <1>1 DEF WellFormed
<1>6. e \in Keys(b) <=> p < n /\ s[p] = e
  <2>1. ASSUME p < n, s[p] = e PROVE e \in Keys(b)
    BY <1>1, <1>2, <2>1, SMTT(60) DEF Keys
  <2>2. ASSUME NEW i \in 0 .. n - 1, s[i] = e PROVE p < n /\ s[p] = e
    <3>1. i >= p
      BY <1>1, <1>2, <1>3, <2>2
    <3>2. CASE i = p
      BY <2>2, <3>2, <1>1
    <3>3. CASE i > p
      <4>1. s[p] < s[i] /\ s[p] \in Nat /\ s[p] >= e
        BY <1>1, <1>2, <1>4, <1>5, <3>3, SMTT(60) DEF Increasing, Slots
      <4> QED BY <2>2, <4>1
    <3> QED BY <1>1, <1>2, <3>1, <3>2, <3>3
  <2> QED BY <1>1, <2>1, <2>2 DEF Keys
<1>7. s[p] = e => p < n
  <2> SUFFICES ASSUME p = n, s[p] = e PROVE FALSE
    BY <1>1, <1>2
  <2>1. n \in Slots
    BY <1>1, <1>4, SMTT(60) DEF Slots
  <2>2. s[n] \in stored \cup {0}
    BY <1>1, <2>1 DEF Tracked
  <2>3. e \in Keys(b)
    BY <2>2
  <2> QED BY <1>1, <1>6, <2>3
<1>10. ASSUME NEW i \in 0 .. b.size - 1, b.slots[i] < e PROVE i < p
  <2> SUFFICES ASSUME p <= i PROVE FALSE
    BY <1>1, <1>2
  <2>1. p < n /\ s[p] >= e /\ s[i] < e /\ s[p] \in Nat /\ s[i] \in Nat /\ i < n
    BY <1>1, <1>2, <1>4, <1>10 DEF Slots
  <2>2. CASE p = i
    BY <2>1, <2>2
  <2>3. CASE p < i
    <3>1. s[p] < s[i]
      BY <1>1, <1>2, <1>5, <2>1, <2>3 DEF Increasing
    <3> QED BY <2>1, <3>1
  <2> QED BY <1>1, <1>2, <2>2, <2>3
<1>8. CASE s[p] = e
  <2>1. insertWithIndex(b, e, start) = [successful |-> FALSE, index |-> p, block |-> b]
    BY <1>1, <1>2, <1>8 DEF insertWithIndex, alreadyThere
  <2>2. e \in Keys(b) /\ p \in 0 .. b.size - 1
    BY <1>1, <1>2, <1>6, <1>7, <1>8
  <2>3. Tracked(b, stored \cup {e})
    BY DEF Tracked
  <2> QED BY <2>1, <2>2, <2>3, <1>1, <1>8, <1>10 DEF AddsExactly
<1>9. CASE s[p] # e
  <2>0. PICK t : t = makeFree(s, n, e, p)
    OBVIOUS
  <2> DEFINE g == IF p = 0 THEN t[0] ELSE h
             d == [slots |-> t, size |-> n + 1, head |-> g]
  <2>1. insertAtIndex(b, e, p) = [slots |-> t, size |-> n + 1, head |-> h]
    BY <1>1, <2>0 DEF insertAtIndex
  <2>2. insertWithIndex(b, e, start) = [successful |-> TRUE, index |-> p, block |-> d]
    <3>1. insertWithIndex(b, e, start)
            = [successful |-> TRUE, index |-> p,
               block |-> IF p = 0 THEN updateHead(insertAtIndex(b, e, p))
                         ELSE insertAtIndex(b, e, p)]
      BY <1>1, <1>2, <1>9 DEF insertWithIndex, alreadyThere
    <3>2. updateHead([slots |-> t, size |-> n + 1, head |-> h])
            = [slots |-> t, size |-> n + 1, head |-> t[0]]
      BY DEF updateHead
    <3> QED BY <2>1, <3>1, <3>2
  <2>3. p < n => s[p] > e
    BY <1>1, <1>2, <1>4, <1>9 DEF Slots
  <2>4. /\ t \in [Slots -> Nat] /\ Increasing(t, n + 1)
        /\ Values(t, n + 1) = Values(s, n) \cup {e}
    <3>1. /\ n \in Nat /\ n < MaxSize /\ s \in [Slots -> Nat] /\ Increasing(s, n)
          /\ p \in Nat /\ p <= n /\ \A i \in 0 .. p - 1 : s[i] < e
      BY <1>1, <1>2, <1>3, <1>4, <1>5
    <3>2. /\ makeFree(s, n, e, p) \in [Slots -> Nat]
          /\ Increasing(makeFree(s, n, e, p), n + 1)
          /\ Values(makeFree(s, n, e, p), n + 1) = Values(s, n) \cup {e}
      BY <2>3, <3>1, ShiftIn, SMTT(60)
    <3> QED BY <2>0, <3>2
  <2>5. \A i \in Slots : t[i] \in stored \cup {e} \cup {0}
    BY <1>1, <1>2, <1>4, <2>0, SMTT(60) DEF makeFree, Slots, Tracked
  <2>6. t[p] = e /\ (p > 0 => t[0] = s[0])
    BY <1>1, <1>2, <1>4, <2>0 DEF makeFree, Slots
  <2>7. g \in Nat /\ g = t[0]
    BY <1>1, <1>2, <1>4, <1>5, <2>4, <2>6 DEF Slots
  <2> HIDE DEF g
  <2>8. WellFormed(d)
    BY <1>1, <1>4, <2>4, <2>7, SMTT(60) DEF WellFormed, Blocks
  <2>9. Tracked(d, stored \cup {e})
    BY <2>5 DEF Tracked
  <2>10. Keys(d) = Keys(b) \cup {e}
    <3>1. Keys(d) = Values(t, n + 1)
      BY <1>1 DEF Keys, Values
    <3>2. Keys(b) = Values(s, n)
      BY <1>1 DEF Keys, Values
    <3> QED BY <2>4, <3>1, <3>2
  <2>11. e \notin Keys(b)
    BY <1>6, <1>9
  <2>12. p \in 0 .. d.size - 1 /\ d.slots[p] = e
    BY <1>1, <1>2, <2>6, SMTT(60)
  <2>13. d.size = b.size + 1
    BY <1>1
  <2> HIDE DEF d
  <2> QED BY <1>10, <2>2, <2>8, <2>9, <2>10, <2>11, <2>12, <2>13, SMTT(60) DEF AddsExactly
<1> QED BY <1>8, <1>9

-----------------------------------------------------------------------------
\* An increasing array cut after m entries: the parts are increasing, and together
\* they have its values.
LEMMA Cut ==
    ASSUME NEW m \in Nat, NEW n \in Nat, NEW s, NEW u, Increasing(s, m + n),
           Copied(s, m, u, n)
    PROVE  /\ Increasing(s, m) /\ Increasing(u, n)
           /\ Values(s, m + n) = Values(s, m) \cup Values(u, n)
           /\ Below(s, m, u, n)
PROOF
<1>0. \A i \in 0 .. n - 1 : u[i] = s[m + i]
  BY DEF Copied
<1>1. Increasing(s, m)
  BY DEF Increasing
<1>2. Increasing(u, n)
  <2> SUFFICES ASSUME NEW j \in 0 .. n - 1
               PROVE  u[j] # 0 /\ \A i \in 0 .. j - 1 : u[i] < u[j]
    BY DEF Increasing
  <2>1. m + j \in 0 .. (m + n) - 1 /\ u[j] = s[m + j]
    BY <1>0
  <2>2. u[j] # 0
    BY <2>1 DEF Increasing
  <2>3. ASSUME NEW i \in 0 .. j - 1 PROVE u[i] < u[j]
    <3>1. m + i \in 0 .. (m + j) - 1 /\ u[i] = s[m + i]
      BY <1>0
    <3> QED BY <2>1, <3>1 DEF Increasing
  <2> QED BY <2>2, <2>3
<1>3. ASSUME NEW i \in 0 .. m - 1, NEW j \in 0 .. n - 1 PROVE s[i] < u[j]
  <2>1. /\ m + j \in 0 .. (m + n) - 1 /\ u[j] = s[m + j]
        /\ i \in 0 .. (m + j) - 1
    BY <1>0
  <2> QED BY <2>1 DEF Increasing
<1>4. Values(s, m + n) = Values(s, m) \cup Values(u, n)
  <2>1. ASSUME NEW i \in 0 .. (m + n) - 1 PROVE s[i] \in Values(s, m) \cup Values(u, n)
    <3>1. CASE i < m
      BY <3>1 DEF Values
    <3>2. CASE i >= m
      <4>1. i - m \in 0 .. n - 1 /\ m + (i - m) = i
        BY <3>2
      <4>2. u[i - m] = s[i]
        BY <1>0, <4>1
      <4> QED BY <4>1, <4>2 DEF Values
    <3> QED BY <3>1, <3>2
  <2>2. ASSUME NEW i \in 0 .. m - 1 PROVE s[i] \in Values(s, m + n)
    BY DEF Values
  <2>3. ASSUME NEW i \in 0 .. n - 1 PROVE u[i] \in Values(s, m + n)
    <3>1. m + i \in 0 .. (m + n) - 1 /\ u[i] = s[m + i]
      BY <1>0
    <3> QED BY <3>1 DEF Values
  <2> QED BY <2>1, <2>2, <2>3 DEF Values
<1> QED BY <1>1, <1>2, <1>3, <1>4 DEF Below

\* Two increasing arrays written one behind the other, all of the first below all of
\* the second, are an increasing array with the values of both.
LEMMA Glue ==
    ASSUME NEW m \in Nat, NEW n \in Nat, NEW s, NEW u, NEW t,
           Increasing(s, m), Increasing(u, n),
           Below(s, m, u, n), Copied(t, 0, s, m), Copied(t, m, u, n)
    PROVE  /\ Increasing(t, m + n)
           /\ Values(t, m + n) = Values(s, m) \cup Values(u, n)
PROOF
<1>0. /\ \A i \in 0 .. m - 1 : \A j \in 0 .. n - 1 : s[i] < u[j]
      /\ \A i \in 0 .. m - 1 : t[i] = s[i]
      /\ \A i \in 0 .. n - 1 : t[m + i] = u[i]
  BY DEF Below, Copied
<1>1. Increasing(t, m + n)
  <2> SUFFICES ASSUME NEW j \in 0 .. (m + n) - 1
               PROVE  t[j] # 0 /\ \A i \in 0 .. j - 1 : t[i] < t[j]
    BY DEF Increasing
  <2>1. CASE j < m
    BY <1>0, <2>1, SMTT(60) DEF Increasing
  <2>2. CASE j >= m
    <3>1. PICK k \in 0 .. n - 1 : j = m + k
      <4>1. j - m \in 0 .. n - 1 /\ j = m + (j - m)
        BY <2>2
      <4> QED BY <4>1
    <3>2. t[j] = u[k] /\ u[k] # 0
      BY <1>0, <3>1 DEF Increasing
    <3>3. ASSUME NEW i \in 0 .. j - 1 PROVE t[i] < t[j]
      <4>1. CASE i < m
        BY <1>0, <3>2, <4>1, SMTT(60)
      <4>2. CASE i >= m
        <5>1. i - m \in 0 .. k - 1 /\ i - m \in 0 .. n - 1 /\ m + (i - m) = i
          BY <3>1, <4>2
        <5>2. t[i] = u[i - m]
          BY <1>0, <5>1
        <5> QED BY <3>2, <5>1, <5>2 DEF Increasing
      <4> QED BY <4>1, <4>2
    <3> QED BY <3>2, <3>3
  <2> QED BY <2>1, <2>2
<1>2. Values(t, m) = Values(s, m)
  BY <1>0 DEF Values
<1>3. Values(t, m + n) = Values(t, m) \cup Values(u, n)
  BY <1>1, Cut
<1> QED BY <1>1, <1>2, <1>3

LEMMA Made ==
    ASSUME NEW t \in [Slots -> Nat], NEW n \in 0 .. MaxSize, Increasing(t, n),
           NEW h \in Nat, n > 0 => h = t[0]
    PROVE  LET b == [slots |-> t, size |-> n, head |-> h]
           IN  WellFormed(b) /\ Keys(b) = Values(t, n)
BY DEF WellFormed, Blocks, Keys, Values

\* split leaves two well-formed blocks of MinSize elements that have the keys of the
\* full block, the left one the smaller keys, and both stay tracked.
THEOREM SplitExact ==
    ASSUME NEW b, WellFormed(b), b.size = MaxSize, NEW stored, Tracked(b, stored)
    PROVE  LET r == split(b)
           IN  /\ WellFormed(r.left) /\ WellFormed(r.right)
               /\ r.left.size = MinSize /\ r.right.size = MinSize
               /\ Keys(r.left) \cup Keys(r.right) = Keys(b)
               /\ \A k \in Keys(r.left), l \in Keys(r.right) : k < l
               /\ Tracked(r.left, stored) /\ Tracked(r.right, stored)
PROOF
<1>1. PICK s, h : /\ b = [slots |-> s, size |-> MaxSize, head |-> h]
                  /\ s \in [Slots -> Nat] /\ h \in Nat /\ Increasing(s, MaxSize) /\ h = s[0]
  BY SizeAssumption, SMTT(60) DEF WellFormed, Blocks
<1>2. PICK u : u = [i \in Slots |-> IF i < MinSize THEN s[MinSize + i] ELSE 0]
  OBVIOUS
<1>3. /\ MinSize \in Nat /\ MinSize # 0 /\ MaxSize \in Nat /\ MaxSize \div 2 = MinSize
      /\ MaxSize = MinSize + MinSize /\ MinSize \in 0 .. MaxSize
  BY SizeAssumption
<1>4. u \in [Slots -> Nat] /\ Copied(s, MinSize, u, MinSize)
  <2>1. ASSUME NEW i \in 0 .. MinSize - 1
        PROVE  i \in Slots /\ i < MinSize /\ MinSize + i \in Slots
    BY <1>3 DEF Slots
  <2>2. u \in [Slots -> Nat]
    BY <1>1, <1>2, <1>3, SMTT(60) DEF Slots
  <2> QED BY <1>2, <2>1, <2>2 DEF Copied
<1>5. /\ Increasing(s, MinSize) /\ Increasing(u, MinSize)
      /\ Values(s, MaxSize) = Values(s, MinSize) \cup Values(u, MinSize)
      /\ Below(s, MinSize, u, MinSize)
  <2>1. Increasing(s, MinSize + MinSize)
    BY <1>1, <1>3
  <2>2. Values(s, MinSize + MinSize) = Values(s, MaxSize)
    BY <1>3
  <2> QED BY <1>3, <1>4, <2>1, <2>2, Cut, SMTT(60)
<1> DEFINE left == [slots |-> s, size |-> MinSize, head |-> h]
           right == [slots |-> u, size |-> MinSize, head |-> u[0]]
<1>6. split(b) = [left |-> left, right |-> right]
  <2>1. [b EXCEPT !.size = MinSize] = left
    BY <1>1
  <2>2. updateHead([slots |-> u, size |-> MinSize, head |-> 0]) = right
    BY DEF updateHead
  <2>3. split(b) = [left |-> [b EXCEPT !.size = MinSize],
                    right |-> updateHead([slots |-> u, size |-> MinSize, head |-> 0])]
    BY <1>1, <1>2, <1>3 DEF split
  <2> QED BY <2>1, <2>2, <2>3
<1>7. WellFormed(left) /\ Keys(left) = Values(s, MinSize)
  BY <1>1, <1>3, <1>5, Made
<1>8. WellFormed(right) /\ Keys(right) = Values(u, MinSize)
  <2>1. u[0] \in Nat
    BY <1>3, <1>4, SMTT(60) DEF Slots
  <2> QED BY <1>3, <1>4, <1>5, <2>1, Made, SMTT(60)
<1>9. Keys(b) = Values(s, MaxSize)
  BY <1>1 DEF Keys, Values
<1>10. Tracked(left, stored) /\ Tracked(right, stored)
  BY <1>1, <1>2, <1>3, SMTT(60) DEF Tracked, Slots
<1>11. \A k \in Keys(left), l \in Keys(right) : k < l
  BY <1>5, <1>7, <1>8 DEF Values, Below
<1>12. left.size = MinSize /\ right.size = MinSize
  OBVIOUS
<1> HIDE DEF left, right
<1> QED BY <1>5, <1>6, <1>7, <1>8, <1>9, <1>10, <1>11, <1>12

\* mergeSmaller makes one well-formed block of two that fit into one, and loses
\* nothing.
THEOREM MergeSmallerExact ==
    ASSUME NEW b, WellFormed(b), NEW other, WellFormed(other),
           other.size > 0, b.size + other.size <= MaxSize,
           \A k \in Keys(other), l \in Keys(b) : k < l,
           NEW stored, Tracked(b, stored), Tracked(other, stored)
    PROVE  LET r == mergeSmaller(b, other)
           IN  /\ WellFormed(r) /\ r.size = b.size + other.size
               /\ Keys(r) = Keys(b) \cup Keys(other)
               /\ Tracked(r, stored)
PROOF
<1>1. PICK n, s, h : /\ b = [slots |-> s, size |-> n, head |-> h] /\ n \in Nat
                     /\ s \in [Slots -> Nat] /\ h \in Nat /\ Increasing(s, n)
  BY SizeAssumption, SMTT(60) DEF WellFormed, Blocks
<1>2. PICK m, u, g : /\ other = [slots |-> u, size |-> m, head |-> g] /\ m \in Nat
                     /\ u \in [Slots -> Nat] /\ g \in Nat /\ Increasing(u, m)
  BY SizeAssumption, SMTT(60) DEF WellFormed, Blocks
<1>3. MaxSize \in Nat /\ m > 0 /\ m + n <= MaxSize /\ m + n = n + m /\ m + n \in 0 .. MaxSize
  BY <1>1, <1>2, SizeAssumption
<1>4. PICK t : t = [i \in Slots |-> IF i < m THEN u[i]
                                    ELSE IF i < m + n THEN s[i - m] ELSE s[i]]
  OBVIOUS
<1>5. /\ t \in [Slots -> Nat]
      /\ Copied(t, 0, u, m)
  BY <1>1, <1>2, <1>3, <1>4, SMTT(60) DEF Slots, Copied
<1>6. Copied(t, m, s, n)
  <2> SUFFICES ASSUME NEW i \in 0 .. n - 1 PROVE t[m + i] = s[i]
    BY DEF Copied
  <2>1. m + i \in Slots /\ ~(m + i < m) /\ m + i < m + n /\ (m + i) - m = i
    BY <1>1, <1>2, <1>3 DEF Slots
  <2> QED BY <1>4, <2>1
<1>7. Keys(b) = Values(s, n) /\ Keys(other) = Values(u, m)
  BY <1>1, <1>2 DEF Keys, Values
<1>8. Below(u, m, s, n)
  BY <1>7 DEF Values, Below
<1>9. Increasing(t, m + n) /\ Values(t, m + n) = Values(u, m) \cup Values(s, n)
  BY <1>1, <1>2, <1>5, <1>6, <1>8, Glue, SMTT(60)
<1> DEFINE r == [slots |-> t, size |-> n + m, head |-> t[0]]
<1>10. mergeSmaller(b, other) = r
  <2>1. updateHead([slots |-> t, size |-> n + m, head |-> h]) = r
    BY DEF updateHead
  <2>2. mergeSmaller(b, other) = updateHead([slots |-> t, size |-> n + m, head |-> h])
    BY <1>1, <1>2, <1>4 DEF mergeSmaller
  <2> QED BY <2>1, <2>2
<1>11. WellFormed(r) /\ Keys(r) = Values(t, m + n)
  <2>1. t[0] \in Nat
    BY <1>1, <1>2, <1>3, <1>5, SMTT(60) DEF Slots
  <2> QED BY <1>3, <1>5, <1>9, <2>1, Made
<1>12. Tracked(r, stored)
  <2>1. ASSUME NEW i \in Slots PROVE t[i] \in stored \cup {0}
    <3>1. CASE i < m
      BY <1>2, <1>4, <3>1 DEF Tracked
    <3>2. CASE i >= m /\ i < m + n
      <4>1. i - m \in Slots /\ t[i] = s[i - m]
        BY <1>1, <1>2, <1>3, <1>4, <3>2 DEF Slots
      <4> QED BY <1>1, <4>1 DEF Tracked
    <3>3. CASE i >= m + n
      BY <1>1, <1>2, <1>4, <3>3, SMTT(60) DEF Tracked, Slots
    <3> QED BY <1>1, <1>2, <1>3, <3>1, <3>2, <3>3, SMTT(60) DEF Slots
  <2> QED BY <2>1 DEF Tracked
<1>13. r.size = b.size + other.size
  BY <1>1, <1>2
<1> HIDE DEF r
<1> QED BY <1>7, <1>9, <1>10, <1>11, <1>12, <1>13

\* steal makes a block that is too small a block of MinSize with the smallest keys
\* of its right neighbour: together they keep their keys, and no other key, and the
\* neighbour is still large enough.
THEOREM StealExact ==
    ASSUME NEW b, WellFormed(b), NEW right, WellFormed(right),
           b.size > 0, b.size < MinSize, b.size + right.size >= MaxSize,
           \A k \in Keys(b), l \in Keys(right) : k < l,
           NEW stored, Tracked(b, stored), Tracked(right, stored)
    PROVE  LET r == steal(b, right)
           IN  /\ WellFormed(r.this) /\ WellFormed(r.right)
               /\ r.this.size = MinSize /\ r.right.size >= MinSize
               /\ Keys(r.this) \cup Keys(r.right) = Keys(b) \cup Keys(right)
               /\ \A k \in Keys(r.this), l \in Keys(r.right) : k < l
               /\ Tracked(r.this, stored) /\ Tracked(r.right, stored)
PROOF
<1>1. PICK n, s, h : /\ b = [slots |-> s, size |-> n, head |-> h] /\ n \in Nat
                     /\ s \in [Slots -> Nat] /\ h \in Nat /\ Increasing(s, n) /\ n > 0
                     /\ h = s[0]
  BY SizeAssumption, SMTT(60) DEF WellFormed, Blocks
<1>2. PICK m, u, g : /\ right = [slots |-> u, size |-> m, head |-> g]
                     /\ m \in 0 .. MaxSize
                     /\ u \in [Slots -> Nat] /\ g \in Nat /\ Increasing(u, m)
  BY SizeAssumption DEF WellFormed, Blocks
<1>3. PICK needed, rest : /\ needed = MinSize - n /\ rest = m - needed
                          /\ needed \in Nat /\ rest \in Nat /\ rest >= MinSize
                          /\ m = needed + rest /\ n + needed = MinSize /\ needed > 0
                          /\ rest <= MaxSize
  BY <1>1, <1>2, SizeAssumption
<1>4. MaxSize \in Nat /\ MinSize \in Nat /\ MinSize > 0 /\ MaxSize = 2 * MinSize
  BY SizeAssumption
<1>5. PICK t, v :
        /\ t = [i \in Slots |-> IF n <= i /\ i < n + needed THEN u[i - n] ELSE s[i]]
        /\ v = [i \in Slots |-> IF i < rest THEN u[i + needed] ELSE u[i]]
  OBVIOUS
<1>6. t \in [Slots -> Nat] /\ v \in [Slots -> Nat]
  BY <1>1, <1>2, <1>3, <1>4, <1>5, SMTT(60) DEF Slots
<1>7. Copied(t, 0, s, n) /\ Copied(t, n, u, needed) /\ Copied(u, needed, v, rest)
  <2>1. ASSUME NEW i \in 0 .. n - 1 PROVE t[0 + i] = s[i]
    BY <1>1, <1>3, <1>4, <1>5 DEF Slots
  <2>2. ASSUME NEW i \in 0 .. needed - 1 PROVE t[n + i] = u[i]
    <3>1. n + i \in Slots /\ n <= n + i /\ n + i < n + needed /\ (n + i) - n = i
      BY <1>1, <1>3, <1>4 DEF Slots
    <3> QED BY <1>5, <3>1
  <2>3. ASSUME NEW i \in 0 .. rest - 1 PROVE u[needed + i] = v[i]
    <3>1. i \in Slots /\ i < rest /\ i + needed = needed + i
      BY <1>3, <1>4 DEF Slots
    <3> QED BY <1>5, <3>1
  <2> QED BY <2>1, <2>2, <2>3 DEF Copied
<1>8. Keys(b) = Values(s, n) /\ Keys(right) = Values(u, m)
  BY <1>1, <1>2 DEF Keys, Values
<1>9. /\ Increasing(u, needed) /\ Increasing(v, rest)
      /\ Values(u, m) = Values(u, needed) \cup Values(v, rest)
      /\ Below(u, needed, v, rest)
  BY <1>2, <1>3, <1>7, Cut, SMTT(60)
<1>10. Below(s, n, u, needed) /\ Below(s, n, v, rest)
  <2>1. \A i \in 0 .. n - 1 : s[i] \in Keys(b)
    BY <1>8 DEF Values
  <2>2. \A i \in 0 .. needed - 1 : u[i] \in Keys(right)
    BY <1>8, <1>9 DEF Values
  <2>3. \A i \in 0 .. rest - 1 : v[i] \in Keys(right)
    BY <1>8, <1>9 DEF Values
  <2> QED BY <2>1, <2>2, <2>3 DEF Below
<1>11. Increasing(t, n + needed) /\ Values(t, n + needed) = Values(s, n) \cup Values(u, needed)
  BY <1>1, <1>3, <1>7, <1>9, <1>10, Glue, SMTT(60)
<1> DEFINE newThis == [slots |-> t, size |-> n + needed, head |-> h]
           newRight == [slots |-> v, size |-> rest, head |-> v[0]]
<1>12. steal(b, right) = [this |-> newThis, right |-> newRight]
  <2>1. updateHead([slots |-> v, size |-> rest, head |-> g]) = newRight
    BY DEF updateHead
  <2>2. steal(b, right)
          = [this |-> newThis,
             right |-> updateHead([slots |-> v, size |-> rest, head |-> g])]
    BY <1>1, <1>2, <1>3, <1>5 DEF steal
  <2> QED BY <2>1, <2>2
<1>13. WellFormed(newThis) /\ Keys(newThis) = Values(t, n + needed)
  <2>1. n + needed \in 0 .. MaxSize /\ h = t[0]
    BY <1>1, <1>3, <1>4, <1>7, SMTT(60) DEF Copied
  <2> QED BY <1>1, <1>6, <1>11, <2>1, Made
<1>14. WellFormed(newRight) /\ Keys(newRight) = Values(v, rest)
  <2>1. v[0] \in Nat /\ rest \in 0 .. MaxSize
    BY <1>3, <1>4, <1>6 DEF Slots
  <2> QED BY <1>6, <1>9, <2>1, Made
<1>15. Tracked(newThis, stored) /\ Tracked(newRight, stored)
  <2>1. \A j \in Slots : s[j] \in stored \cup {0} /\ u[j] \in stored \cup {0}
    BY <1>1, <1>2 DEF Tracked
  <2>2. ASSUME NEW i \in Slots PROVE t[i] \in stored \cup {0}
    <3>1. CASE n <= i /\ i < n + needed
      <4>1. i - n \in Slots /\ t[i] = u[i - n]
        BY <1>1, <1>3, <1>4, <1>5, <3>1, SMTT(60) DEF Slots
      <4> QED BY <2>1, <4>1
    <3> QED BY <1>5, <2>1, <3>1
  <2>3. ASSUME NEW i \in Slots PROVE v[i] \in stored \cup {0}
    <3>1. CASE i < rest
      <4>1. v[i] = u[i + needed]
        BY <1>5, <3>1
      <4>2. i + needed \in Slots
        BY <1>1, <1>2, <1>3, <1>4, <3>1, SMTT(60) DEF Slots
      <4> QED BY <2>1, <4>1, <4>2
    <3> QED BY <1>5, <2>1, <3>1
  <2> QED BY <2>2, <2>3 DEF Tracked
<1>16. \A k \in Keys(newThis), l \in Keys(newRight) : k < l
  <2>1. \A k \in Values(s, n), l \in Values(v, rest) : k < l
    BY <1>10 DEF Below, Values
  <2>2. \A k \in Values(u, needed), l \in Values(v, rest) : k < l
    BY <1>9 DEF Below, Values
  <2> QED BY <1>11, <1>13, <1>14, <2>1, <2>2
<1>17. newThis.size = MinSize /\ newRight.size >= MinSize
  BY <1>3
<1> HIDE DEF newThis, newRight
<1>18. Keys(newThis) \cup Keys(newRight) = Keys(b) \cup Keys(right)
  BY <1>8, <1>9, <1>11, <1>13, <1>14
<1> QED BY <1>12, <1>13, <1>14, <1>15, <1>16, <1>17, <1>18

\* stealFromSmaller makes a block that is too small a block of MinSize with the
\* largest keys of its left neighbour: together they keep their keys, and no other
\* key, and the neighbour is still large enough.
THEOREM StealFromSmallerExact ==
    ASSUME NEW b, WellFormed(b), NEW left, WellFormed(left),
           b.size > 0, b.size < MinSize, b.size + left.size >= MaxSize,
           \A k \in Keys(left), l \in Keys(b) : k < l,
           NEW stored, Tracked(b, stored), Tracked(left, stored)
    PROVE  LET r == stealFromSmaller(b, left)
           IN  /\ WellFormed(r.this) /\ WellFormed(r.left)
               /\ r.this.size = MinSize /\ r.left.size >= MinSize
               /\ Keys(r.left) \cup Keys(r.this) = Keys(left) \cup Keys(b)
               /\ \A k \in Keys(r.left), l \in Keys(r.this) : k < l
               /\ Tracked(r.this, stored) /\ Tracked(r.left, stored)
PROOF
<1>1. PICK n, s, h : /\ b = [slots |-> s, size |-> n, head |-> h] /\ n \in Nat
                     /\ s \in [Slots -> Nat] /\ h \in Nat /\ Increasing(s, n) /\ n > 0
  BY SizeAssumption, SMTT(60) DEF WellFormed, Blocks
<1>2. PICK m, u, g : /\ left = [slots |-> u, size |-> m, head |-> g]
                     /\ m \in 0 .. MaxSize /\ (m > 0 => g = u[0])
                     /\ u \in [Slots -> Nat] /\ g \in Nat /\ Increasing(u, m)
  BY SizeAssumption DEF WellFormed, Blocks
<1>3. PICK needed, rest : /\ needed = MinSize - n /\ rest = m - needed
                          /\ needed \in Nat /\ rest \in Nat /\ rest >= MinSize
                          /\ m = rest + needed /\ n + needed = MinSize
                          /\ needed + n = MinSize /\ needed > 0 /\ rest <= MaxSize
  BY <1>1, <1>2, SizeAssumption
<1>4. MaxSize \in Nat /\ MinSize \in Nat /\ MinSize > 0 /\ MaxSize = 2 * MinSize
  BY SizeAssumption
<1>5. PICK t, v :
        /\ t = [i \in Slots |-> IF i < needed THEN u[rest + i]
                               ELSE IF i < n + needed THEN s[i - needed] ELSE s[i]]
        /\ v = [i \in Slots |-> u[rest + i]]
  OBVIOUS
<1>6. t \in [Slots -> Nat]
  <2> SUFFICES ASSUME NEW i \in Slots PROVE t[i] \in Nat
    BY <1>5
  <2>1. CASE i < needed
    <3>1. rest + i \in Slots /\ t[i] = u[rest + i]
      BY <1>1, <1>2, <1>3, <1>4, <1>5, <2>1, SMTT(60) DEF Slots
    <3> QED BY <1>2, <3>1
  <2>2. CASE i >= needed /\ i < n + needed
    <3>1. i - needed \in Slots /\ t[i] = s[i - needed]
      BY <1>1, <1>3, <1>4, <1>5, <2>2 DEF Slots
    <3> QED BY <1>1, <3>1
  <2>3. CASE i >= n + needed
    BY <1>1, <1>2, <1>3, <1>4, <1>5, <2>3, SMTT(60) DEF Slots
  <2>4. i \in Int /\ n \in Int /\ needed \in Int
    BY <1>1, <1>3 DEF Slots
  <2> QED BY <2>1, <2>2, <2>3, <2>4
<1>7. Copied(u, rest, v, needed) /\ Copied(t, 0, v, needed) /\ Copied(t, needed, s, n)
  <2>1. ASSUME NEW i \in 0 .. needed - 1
        PROVE  i \in Slots /\ i < needed /\ 0 + i = i
    BY <1>1, <1>3, <1>4 DEF Slots
  <2>2. ASSUME NEW i \in 0 .. n - 1 PROVE t[needed + i] = s[i]
    <3>1. /\ needed + i \in Slots /\ ~(needed + i < needed)
          /\ needed + i < n + needed /\ (needed + i) - needed = i
      BY <1>1, <1>3, <1>4 DEF Slots
    <3> QED BY <1>5, <3>1
  <2>3. ASSUME NEW i \in 0 .. needed - 1 PROVE t[0 + i] = v[i] /\ u[rest + i] = v[i]
    BY <1>5, <2>1
  <2> QED BY <2>2, <2>3 DEF Copied
<1>8. Keys(b) = Values(s, n) /\ Keys(left) = Values(u, m)
  BY <1>1, <1>2 DEF Keys, Values
<1>9. /\ Increasing(u, rest) /\ Increasing(v, needed)
      /\ Values(u, m) = Values(u, rest) \cup Values(v, needed)
      /\ Below(u, rest, v, needed)
  BY <1>2, <1>3, <1>7, Cut, SMTT(60)
<1>10. Below(v, needed, s, n) /\ Below(u, rest, s, n)
  <2>1. \A i \in 0 .. n - 1 : s[i] \in Keys(b)
    BY <1>8 DEF Values
  <2>2. \A i \in 0 .. needed - 1 : v[i] \in Keys(left)
    BY <1>8, <1>9 DEF Values
  <2>3. \A i \in 0 .. rest - 1 : u[i] \in Keys(left)
    BY <1>8, <1>9 DEF Values
  <2> QED BY <2>1, <2>2, <2>3 DEF Below
<1>11. Increasing(t, needed + n) /\ Values(t, needed + n) = Values(v, needed) \cup Values(s, n)
  BY <1>1, <1>3, <1>7, <1>9, <1>10, Glue, SMTT(60)
<1> DEFINE newThis == [slots |-> t, size |-> n + needed, head |-> t[0]]
           newLeft == [slots |-> u, size |-> rest, head |-> g]
<1>12. stealFromSmaller(b, left) = [this |-> newThis, left |-> newLeft]
  <2>1. updateHead([slots |-> t, size |-> n + needed, head |-> h]) = newThis
    BY DEF updateHead
  <2>2. [left EXCEPT !.size = rest] = newLeft
    BY <1>2
  <2>3. stealFromSmaller(b, left)
          = [this |-> updateHead([slots |-> t, size |-> n + needed, head |-> h]),
             left |-> [left EXCEPT !.size = rest]]
    BY <1>1, <1>2, <1>3, <1>5 DEF stealFromSmaller
  <2> QED BY <2>1, <2>2, <2>3
<1>13. WellFormed(newThis) /\ Keys(newThis) = Values(t, needed + n)
  <2>1. n + needed \in 0 .. MaxSize /\ t[0] \in Nat /\ n + needed = needed + n
    BY <1>1, <1>3, <1>4, <1>6, SMTT(60) DEF Slots
  <2> QED BY <1>6, <1>11, <2>1, Made
<1>14. WellFormed(newLeft) /\ Keys(newLeft) = Values(u, rest)
  <2>1. rest \in 0 .. MaxSize /\ (rest > 0 => g = u[0])
    BY <1>2, <1>3, <1>4
  <2> QED BY <1>2, <1>9, <2>1, Made
<1>15. Tracked(newThis, stored) /\ Tracked(newLeft, stored)
  <2>1. \A j \in Slots : s[j] \in stored \cup {0} /\ u[j] \in stored \cup {0}
    BY <1>1, <1>2 DEF Tracked
  <2>2. ASSUME NEW i \in Slots PROVE t[i] \in stored \cup {0}
    <3>1. CASE i < needed
      <4>1. rest + i \in Slots /\ t[i] = u[rest + i]
        BY <1>1, <1>2, <1>3, <1>4, <1>5, <3>1, SMTT(60) DEF Slots
      <4> QED BY <2>1, <4>1
    <3>2. CASE i >= needed /\ i < n + needed
      <4>1. i - needed \in Slots /\ t[i] = s[i - needed]
        BY <1>1, <1>3, <1>4, <1>5, <3>2 DEF Slots
      <4> QED BY <2>1, <4>1
    <3>3. CASE i >= n + needed
      <4>1. t[i] = s[i]
        BY <1>1, <1>2, <1>3, <1>4, <1>5, <3>3, SMTT(60) DEF Slots
      <4> QED BY <2>1, <4>1
    <3>4. i \in Int /\ n \in Int /\ needed \in Int
      BY <1>1, <1>3 DEF Slots
    <3> QED BY <3>1, <3>2, <3>3, <3>4
  <2> QED BY <2>1, <2>2 DEF Tracked
<1>16. \A k \in Keys(newLeft), l \in Keys(newThis) : k < l
  <2>1. \A k \in Values(u, rest), l \in Values(v, needed) : k < l
    BY <1>9 DEF Below, Values
  <2>2. \A k \in Values(u, rest), l \in Values(s, n) : k < l
    BY <1>10 DEF Below, Values
  <2> QED BY <1>11, <1>13, <1>14, <2>1, <2>2
<1>17. newThis.size = MinSize /\ newLeft.size >= MinSize
  BY <1>3
<1> HIDE DEF newThis, newLeft
<1>18. Keys(newLeft) \cup Keys(newThis) = Keys(left) \cup Keys(b)
  BY <1>8, <1>9, <1>11, <1>13, <1>14
<1> QED BY <1>12, <1>13, <1>14, <1>15, <1>16, <1>17, <1>18
-----------------------------------------------------------------------------
(* merge: the elements of the batch are inserted one by one.               *)

\* The batch: keys in increasing order.
IsBatch(batch) ==
    /\ batch \in Seq(Nat \ {0})
    /\ \A j \in 1 .. Len(batch) : \A i \in 1 .. j - 1 : batch[i] < batch[j]

\* Its first n keys.
Taken(batch, n) == { batch[i] : i \in 1 .. n }

\* The elements before position p of a block are smaller than the one there.
LEMMA InOrder ==
    ASSUME NEW b, WellFormed(b), NEW p \in 0 .. b.size - 1
    PROVE  /\ b.slots[p] \in Nat /\ b.slots[p] # 0
           /\ \A i \in 0 .. p - 1 : b.slots[i] \in Nat /\ b.slots[i] < b.slots[p]
<1>1. b.size \in 0 .. MaxSize /\ b.slots \in [Slots -> Nat] /\ MaxSize \in Nat
    BY SizeAssumption DEF WellFormed, Blocks
<1>2. Increasing(b.slots, b.size)
    BY DEF WellFormed
<1>3. /\ p \in Slots /\ p \in 0 .. b.size - 1
      /\ \A i \in 0 .. p - 1 : i \in Slots
    BY <1>1, SMTT(60) DEF Slots
<1>4. b.slots[p] # 0 /\ \A i \in 0 .. p - 1 : b.slots[i] < b.slots[p]
    BY <1>2, <1>3 DEF Increasing
<1> QED
    BY <1>1, <1>3, <1>4

\* The batch may be merged into the block: there is room for it, and those of its
\* keys that are stored already are stored in this block.
MayMerge(b, batch, stored) ==
    /\ IsBatch(batch) /\ b.size \in Nat /\ b.size + Len(batch) <= MaxSize
    /\ \A j \in 1 .. Len(batch) : batch[j] \in stored => batch[j] \in Keys(b)

\* What holds before every round of merge.
Merging(m, b, batch, stored) ==
    /\ m.next \in 1 .. Len(batch) + 1
    /\ WellFormed(m.block)
    /\ m.block.size <= b.size + m.next - 1
    /\ Keys(m.block) = Keys(b) \cup Taken(batch, m.next - 1)
    /\ Tracked(m.block, stored \cup Taken(batch, m.next - 1))
    /\ m.position \in 0 .. m.block.size
    /\ \A i \in 0 .. m.position - 1 : \A j \in m.next .. Len(batch) :
          m.block.slots[i] < batch[j]

\* A round of merge takes one more key.
LEMMA MergeRound ==
    ASSUME NEW b, NEW batch, NEW stored, MayMerge(b, batch, stored),
           NEW m, Merging(m, b, batch, stored), m.next <= Len(batch)
    PROVE  Merging(mergeElement(m, batch), b, batch, stored)
<1>0. /\ IsBatch(batch) /\ b.size \in Nat /\ b.size + Len(batch) <= MaxSize
      /\ \A j \in 1 .. Len(batch) : batch[j] \in stored => batch[j] \in Keys(b)
    BY DEF MayMerge
<1> USE <1>0
<1>1. PICK n, e, c : /\ n = m.next /\ n \in Nat /\ n >= 1 /\ n <= Len(batch)
                     /\ e = batch[n] /\ e \in Nat /\ e # 0 /\ c = m.block
    BY DEF Merging, IsBatch
<1>2. PICK r : r = insertWithIndex(c, e, m.position)
    OBVIOUS
<1>3. mergeElement(m, batch) = [block |-> r.block, position |-> r.index, next |-> n + 1]
    BY <1>1, <1>2 DEF mergeElement, IsBatch
<1> DEFINE known == stored \cup Taken(batch, n - 1)
<1>4. /\ WellFormed(c) /\ c.size < MaxSize /\ Tracked(c, known)
      /\ Keys(c) = Keys(b) \cup Taken(batch, n - 1) /\ c.size <= b.size + n - 1
      /\ m.position \in 0 .. c.size /\ c.size \in Nat
    <2>1. c.size \in Nat
        BY <1>1, SizeAssumption, SMTT(60) DEF Merging, WellFormed, Blocks
    <2>2. Len(batch) \in Nat /\ MaxSize \in Nat
        BY SizeAssumption DEF IsBatch
    <2>3. /\ WellFormed(c) /\ Tracked(c, known) /\ c.size <= b.size + n - 1
          /\ Keys(c) = Keys(b) \cup Taken(batch, n - 1) /\ m.position \in 0 .. c.size
        BY <1>1 DEF Merging
    <2>4. c.size < MaxSize
        <3>1. c.size <= b.size + n - 1
            BY <2>3
        <3> QED
            BY <1>1, <2>1, <2>2, <3>1
    <2> QED
        BY <2>1, <2>3, <2>4
<1>5. e \in known => e \in Keys(c)
    <2>1. n \in 1 .. Len(batch) /\ batch[n] = e
        BY <1>1 DEF IsBatch
    <2> QED
        BY <1>4, <2>1
<1>6. \A i \in 0 .. m.position - 1 : c.slots[i] < e
    BY <1>1 DEF Merging, IsBatch
<1>7. /\ Keys(r.block) = Keys(c) \cup {e}
      /\ WellFormed(r.block)
      /\ Tracked(r.block, known \cup {e})
      /\ r.index \in 0 .. r.block.size - 1 /\ r.block.slots[r.index] = e
      /\ r.block.size \in {c.size, c.size + 1}
    <2> HIDE DEF known
    <2>1. AddsExactly(r, c, e, known)
        BY <1>1, <1>2, <1>4, <1>5, <1>6, InsertExact
    <2> QED
        BY <2>1 DEF AddsExactly
<1>8. Taken(batch, n) = Taken(batch, n - 1) \cup {e} /\ (n + 1) - 1 = n
    BY <1>1 DEF Taken
<1>9. ASSUME NEW i \in 0 .. r.index - 1, NEW j \in n + 1 .. Len(batch)
      PROVE  r.block.slots[i] < batch[j]
    <2>1. r.block.slots[i] < e /\ r.block.slots[i] \in Nat
        BY <1>7, InOrder
    <2>2. e < batch[j] /\ batch[j] \in Nat
        BY <1>1 DEF IsBatch
    <2> QED
        BY <1>1, <2>1, <2>2
<1> DEFINE d == [block |-> r.block, position |-> r.index, next |-> n + 1]
<1>10. /\ d.next \in 1 .. Len(batch) + 1
       /\ d.block.size <= b.size + d.next - 1
       /\ d.position \in 0 .. d.block.size
    <2>1. r.block.size \in Nat /\ r.index \in 0 .. r.block.size - 1
          /\ r.block.size <= c.size + 1 /\ Len(batch) \in Nat
        BY <1>4, <1>7, SMTT(60) DEF IsBatch
    <2>2. n + 1 \in 1 .. Len(batch) + 1
        BY <1>1, <2>1
    <2>3. r.block.size <= b.size + (n + 1) - 1
        <3>1. n \in Nat /\ c.size \in Nat /\ c.size <= b.size + n - 1
            BY <1>1, <1>4
        <3>2. \A x, y, z, w \in Nat : x <= y + 1 /\ y <= z + w - 1 => x <= z + (w + 1) - 1
            OBVIOUS
        <3> QED
            BY <2>1, <3>1, <3>2
    <2>4. r.index \in 0 .. r.block.size
        BY <2>1
    <2> QED
        BY <2>2, <2>3, <2>4
<1>11. /\ Keys(d.block) = Keys(b) \cup Taken(batch, d.next - 1)
       /\ Tracked(d.block, stored \cup Taken(batch, d.next - 1))
    <2>1. known \cup {e} = stored \cup Taken(batch, n)
        BY <1>8
    <2> QED
        BY <1>4, <1>7, <1>8, <2>1
<1>12. Merging(d, b, batch, stored)
    BY <1>7, <1>9, <1>10, <1>11 DEF Merging
<1> QED
    BY <1>1, <1>3, <1>12

\* The states of the loop of merge.
MergeStates(b, batch, stored) ==
    { m \in [block : Blocks, position : Nat, next : Nat] : Merging(m, b, batch, stored) }

\* One element of the batch, as the recursive function that stands for the loop of
\* merge takes it: what holds before a round holds after it.
LEMMA MergeStep ==
    ASSUME NEW b, NEW batch, NEW stored, MayMerge(b, batch, stored)
    PROVE  \A m \in MergeStates(b, batch, stored) :
              /\ mergeElement(m, batch) \in MergeStates(b, batch, stored)
              /\ m.next <= Len(batch) => mergeElement(m, batch).next = m.next + 1
<1> SUFFICES ASSUME NEW m \in MergeStates(b, batch, stored)
             PROVE  /\ mergeElement(m, batch) \in MergeStates(b, batch, stored)
                    /\ m.next <= Len(batch) => mergeElement(m, batch).next = m.next + 1
    OBVIOUS
<1>1. PICK d : d = mergeElement(m, batch)
    OBVIOUS
<1>2. Merging(m, b, batch, stored) /\ m.next \in Nat /\ Len(batch) \in Nat
    BY DEF MergeStates, MayMerge, IsBatch
<1>3. CASE m.next <= Len(batch)
    <2>1. Merging(d, b, batch, stored)
        BY <1>1, <1>2, <1>3, MergeRound
    <2>2. PICK r : d = [block |-> r.block, position |-> r.index, next |-> m.next + 1]
        BY <1>1, <1>2, <1>3 DEF mergeElement
    <2>3. r.block \in Blocks /\ r.index \in 0 .. r.block.size /\ m.next + 1 \in Nat
        BY <1>2, <2>1, <2>2 DEF Merging, WellFormed
    <2>4. r.index \in Nat
        BY <2>3, SizeAssumption, SMTT(60) DEF Blocks
    <2>5. d \in [block : Blocks, position : Nat, next : Nat]
        BY <2>2, <2>3, <2>4
    <2> QED
        BY <1>1, <2>1, <2>2, <2>5 DEF MergeStates
<1>4. CASE ~(m.next <= Len(batch))
    <2>1. mergeElement(m, batch) = m
        BY <1>2, <1>4 DEF mergeElement
    <2> QED
        BY <1>4, <2>1
<1> QED
    BY <1>3, <1>4

\* merge adds the keys of the batch and no others, if the block has room for all of
\* them and those that are stored already are stored in this block.
THEOREM MergeExact ==
    ASSUME NEW b, WellFormed(b), NEW batch, NEW stored, Tracked(b, stored),
           MayMerge(b, batch, stored)
    PROVE  LET r == merge(b, batch)
           IN  /\ WellFormed(r)
               /\ Keys(r) = Keys(b) \cup Taken(batch, Len(batch))
               /\ Tracked(r, stored \cup Taken(batch, Len(batch)))
<1> DEFINE V == MergeStates(b, batch, stored)
           begin == [block |-> b, position |-> 0, next |-> 1]
           Step(v) == mergeElement(v, batch)
           body == [k \in Nat |-> [v \in V |-> Step(v)]]
           Loop(g) == g = [k \in Nat |-> IF k = 0 THEN begin ELSE Step(g[k - 1])]
           f == Merges(b, batch)
<1>0. b.size \in Nat /\ b \in Blocks /\ Len(batch) \in Nat
    BY SizeAssumption, SMTT(60) DEF WellFormed, Blocks, MayMerge, IsBatch
<1>1. \A v \in V :
          Step(v) \in V /\ (v.next <= Len(batch) => Step(v).next = v.next + 1)
    BY MergeStep, SMTT(60)
<1>2. f = CHOOSE g : Loop(g)
    BY DEF Merges
<1>3. begin \in V /\ begin.next = 1
    <2>1. Taken(batch, 1 - 1) = {}
        BY DEF Taken
    <2>2. /\ begin.block = b /\ begin.next = 1 /\ begin.position = 0
          /\ 1 \in 1 .. Len(batch) + 1 /\ b.size <= b.size + 1 - 1 /\ 0 \in 0 .. b.size
          /\ \A i \in 0 .. 0 - 1 : FALSE
        BY <1>0
    <2>3. stored \cup {} = stored /\ Keys(b) \cup {} = Keys(b)
        OBVIOUS
    <2>4. Merging(begin, b, batch, stored)
        <3> HIDE DEF begin
        <3> QED
            BY <2>1, <2>2, <2>3 DEF Merging
    <2> QED
        BY <1>0, <2>4 DEF MergeStates
<1> HIDE DEF V, begin, Step, f
<1>4. body \in [Nat -> [V -> V]]
    BY <1>1
<1>5. \E g : Loop(g)
    <2>1. PICK g \in [Nat -> V] : Rounds(g, begin, body)
        <3> HIDE DEF body
        <3> QED
            BY <1>3, <1>4, RoundsExist
    <2>2. \A k \in Nat : k # 0 => body[k][g[k - 1]] = Step(g[k - 1])
        BY <2>1, SMTT(60)
    <2>3. Loop(g)
        <3> HIDE DEF body
        <3> QED
            BY <2>1, <2>2 DEF Rounds
    <2> QED
        BY <2>3
<1>6. Loop(f)
    BY <1>2, <1>5
<1>7. f[0] = begin /\ \A k \in Nat : f[k + 1] = Step(f[k])
    BY <1>6, SMTT(60)
<1> DEFINE S == { k \in Nat : k <= Len(batch) => f[k] \in V /\ f[k].next = k + 1 }
<1>8. 0 \in S
    BY <1>3, <1>7
<1>9. ASSUME NEW k \in Nat, k \in S PROVE k + 1 \in S
    <2> SUFFICES ASSUME k + 1 <= Len(batch)
                 PROVE  f[k + 1] \in V /\ f[k + 1].next = (k + 1) + 1
        OBVIOUS
    <2>0. f[k] \in V /\ f[k].next = k + 1
        BY <1>0, <1>9
    <2>1. f[k + 1] = Step(f[k]) /\ f[k].next <= Len(batch)
        BY <1>7, <2>0
    <2>2. Step(f[k]) \in V /\ Step(f[k]).next = (k + 1) + 1
        BY <1>1, <2>0, <2>1
    <2> QED
        BY <2>1, <2>2
<1> HIDE DEF S
<1>10. \A k \in Nat : k \in S
    BY <1>8, <1>9, InductionOnSet
<1>11. f[Len(batch)] \in V /\ f[Len(batch)].next - 1 = Len(batch)
    BY <1>0, <1>10, SMTT(60) DEF S
<1>12. PICK m : m = f[Len(batch)]
    OBVIOUS
<1>13. Merging(m, b, batch, stored) /\ m.next - 1 = Len(batch) /\ merge(b, batch) = m.block
    BY <1>11, <1>12 DEF V, MergeStates, merge, f
<1> QED
    BY <1>13 DEF Merging

-----------------------------------------------------------------------------
(* mergeFaster: the loops run backwards, from the largest element on.      *)

\* The entries of t from `at' on, `count' of them, are the keys W in increasing order.
Written(t, at, count, W) ==
    /\ \A j \in 0 .. count - 1 :
          t[at + j] # 0 /\ \A i \in 0 .. j - 1 : t[at + i] < t[at + j]
    /\ W = { t[at + j] : j \in 0 .. count - 1 }

\* A key written in front of them continues the order downwards.
LEMMA WriteInFront ==
    ASSUME NEW t \in [Slots -> Nat], NEW w \in Nat, NEW count \in Nat, NEW W,
           Written(t, w + 1, count, W), w + 1 + count <= MaxSize,
           NEW key \in Nat, key # 0, count > 0 => key < t[w + 1]
    PROVE  /\ [t EXCEPT ![w] = key] \in [Slots -> Nat]
           /\ Written([t EXCEPT ![w] = key], w, count + 1, W \cup {key})
<1>0. MaxSize \in Nat
    BY SizeAssumption
<1>1. PICK u : u = [t EXCEPT ![w] = key]
    OBVIOUS
<1>2. w \in Slots /\ u \in [Slots -> Nat] /\ u[w] = key
    BY <1>0, <1>1, SMTT(60) DEF Slots
<1>3. ASSUME NEW j \in 0 .. count - 1
      PROVE  /\ w + (j + 1) \in Slots /\ w + 1 + j = w + (j + 1)
             /\ u[w + (j + 1)] = t[w + 1 + j] /\ t[w + 1 + j] \in Nat
    <2>1. w + (j + 1) \in Slots /\ w + 1 + j = w + (j + 1) /\ w + (j + 1) # w
        BY <1>0 DEF Slots
    <2> QED
        BY <1>1, <2>1
<1>4. ASSUME NEW j \in 0 .. (count + 1) - 1
      PROVE  u[w + j] # 0 /\ \A i \in 0 .. j - 1 : u[w + i] < u[w + j]
    <2>1. CASE j = 0
        BY <1>2, <2>1
    <2>2. CASE j > 0
        <3>1. PICK k \in 0 .. count - 1 : j = k + 1
            <4>1. j - 1 \in 0 .. count - 1 /\ j = (j - 1) + 1
                BY <2>2
            <4> QED
                BY <4>1
        <3>2. u[w + j] = t[w + 1 + k] /\ t[w + 1 + k] # 0
            BY <1>3, <3>1 DEF Written
        <3>3. ASSUME NEW i \in 0 .. j - 1 PROVE u[w + i] < u[w + j]
            <4>1. CASE i = 0
                <5>1. u[w + i] = key /\ key < t[w + 1] /\ t[w + 1 + 0] = t[w + 1]
                    BY <1>2, <3>1, <4>1
                <5>2. CASE k = 0
                    BY <3>2, <5>1, <5>2
                <5>3. CASE k > 0
                    <6>1. 0 \in 0 .. k - 1 /\ 0 \in 0 .. count - 1
                        BY <3>1, <5>3
                    <6>2. t[w + 1 + 0] < t[w + 1 + k]
                        BY <3>1, <6>1 DEF Written
                    <6>3. t[w + 1 + 0] \in Nat /\ t[w + 1 + k] \in Nat
                        BY <1>3, <3>1, <6>1
                    <6> QED
                        BY <3>2, <5>1, <6>2, <6>3
                <5> QED
                    BY <5>2, <5>3
            <4>2. CASE i > 0
                <5>1. PICK h \in 0 .. k - 1 : i = h + 1
                    <6>1. i - 1 \in 0 .. k - 1 /\ i = (i - 1) + 1
                        BY <3>1, <4>2
                    <6> QED
                        BY <6>1
                <5>2. h \in 0 .. count - 1 /\ u[w + i] = t[w + 1 + h]
                    BY <1>3, <5>1, SMTT(60)
                <5>3. t[w + 1 + h] < t[w + 1 + k]
                    BY <3>1, <5>1 DEF Written
                <5> QED
                    BY <3>2, <5>2, <5>3
            <4> QED
                BY <4>1, <4>2
        <3> QED
            BY <3>2, <3>3
    <2> QED
        BY <2>1, <2>2
<1>5. W \cup {key} = { u[w + j] : j \in 0 .. (count + 1) - 1 }
    <2>1. ASSUME NEW j \in 0 .. count - 1
          PROVE  t[w + 1 + j] \in { u[w + i] : i \in 0 .. (count + 1) - 1 }
        <3>1. j + 1 \in 0 .. (count + 1) - 1
            OBVIOUS
        <3> QED
            BY <1>3, <3>1
    <2>2. key \in { u[w + i] : i \in 0 .. (count + 1) - 1 }
        <3>1. 0 \in 0 .. (count + 1) - 1 /\ u[w + 0] = key
            BY <1>2
        <3> QED
            BY <3>1
    <2>3. ASSUME NEW j \in 0 .. (count + 1) - 1
          PROVE  u[w + j] \in { t[w + 1 + i] : i \in 0 .. count - 1 } \cup {key}
        <3>1. CASE j = 0
            BY <1>2, <3>1, SMTT(60)
        <3>2. CASE j > 0
            <4>1. j - 1 \in 0 .. count - 1 /\ (j - 1) + 1 = j
                BY <3>2
            <4>2. u[w + j] = t[w + 1 + (j - 1)]
                BY <1>3, <4>1
            <4> QED
                BY <4>1, <4>2
        <3> QED
            BY <3>1, <3>2, SMTT(60)
    <2> QED
        BY <2>1, <2>2, <2>3 DEF Written
<1> QED
    BY <1>1, <1>2, <1>4, <1>5 DEF Written

\* The state of mergeFaster's loops.
Writing(t, blockEnd, batchEnd, writeIndex, last, writes) ==
    [slots |-> t, blockEnd |-> blockEnd, batchEnd |-> batchEnd,
     writeIndex |-> writeIndex, last |-> last, writes |-> writes]

WritingStates == [slots : [Slots -> Nat], blockEnd : Int, batchEnd : Int,
                  writeIndex : Int, last : Nat, writes : Nat]

\* One slot, or one block of a chain, replaced.
Put(t, w, key) == [t EXCEPT ![w] = key]

\* What write, takeFromBatch, takeFromBlock and takeLast make of the state of
\* mergeFaster's loops, field by field.
LEMMA WriteIs ==
    ASSUME NEW t, NEW p, NEW q, NEW w, NEW l, NEW c, NEW key
    PROVE  write(Writing(t, p, q, w, l, c), key)
             = Writing(Put(t, w, key), p, q, w - 1, key, c + 1)
<1> DEFINE s == Writing(t, p, q, w, l, c)
<1>1. /\ s = [slots |-> t, blockEnd |-> p, batchEnd |-> q, writeIndex |-> w,
              last |-> l, writes |-> c]
      /\ s.slots = t /\ s.writeIndex = w /\ s.writes = c
    BY DEF Writing
<1> HIDE DEF s
<1>2. write(s, key) = [s EXCEPT !.slots = [t EXCEPT ![w] = key], !.writeIndex = w - 1,
                                !.last = key, !.writes = c + 1]
    BY <1>1 DEF write
<1>3. PICK u, x, y : u = [t EXCEPT ![w] = key] /\ x = w - 1 /\ y = c + 1
    OBVIOUS
<1>4. write(s, key) = [s EXCEPT !.slots = u, !.writeIndex = x, !.last = key, !.writes = y]
    BY <1>2, <1>3
<1>5. write(s, key) = [slots |-> u, blockEnd |-> p, batchEnd |-> q, writeIndex |-> x,
                       last |-> key, writes |-> y]
    BY <1>1, <1>4
<1> QED
    BY <1>3, <1>5 DEF s, Writing, Put

\* An element of the batch is written unless it is the one that was written last.
LEMMA TakeFromBatchIs ==
    ASSUME NEW t, NEW p, NEW q, NEW w, NEW l, NEW c, NEW batch
    PROVE  /\ batch[q + 1] # l =>
                 takeFromBatch(Writing(t, p, q, w, l, c), batch)
                   = Writing(Put(t, w, batch[q + 1]), p, q - 1, w - 1,
                             batch[q + 1], c + 1)
           /\ batch[q + 1] = l =>
                 takeFromBatch(Writing(t, p, q, w, l, c), batch)
                   = Writing(t, p, q - 1, w, l, c)
<1> DEFINE s == Writing(t, p, q, w, l, c)
           key == batch[q + 1]
<1>1. s.batchEnd = q /\ s.last = l
    BY DEF Writing
<1>2. write(s, key) = Writing(Put(t, w, key), p, q, w - 1, key, c + 1)
    BY WriteIs, SMTT(60)
<1>3. takeFromBatch(s, batch)
        = [(IF key # l THEN write(s, key) ELSE s) EXCEPT !.batchEnd = q - 1]
    BY <1>1 DEF takeFromBatch
<1> HIDE DEF s, key
<1>5. CASE key # l
    <2>1. takeFromBatch(s, batch) = [write(s, key) EXCEPT !.batchEnd = q - 1]
        BY <1>3, <1>5
    <2>2. PICK u : u = Put(t, w, key)
        OBVIOUS
    <2>3. [write(s, key) EXCEPT !.batchEnd = q - 1] = Writing(u, p, q - 1, w - 1, key, c + 1)
        <3>1. write(s, key) = Writing(u, p, q, w - 1, key, c + 1)
            BY <1>2, <2>2
        <3>2. [Writing(u, p, q, w - 1, key, c + 1) EXCEPT !.batchEnd = q - 1]
                = Writing(u, p, q - 1, w - 1, key, c + 1)
            BY DEF Writing
        <3> QED
            BY <3>1, <3>2
    <2> QED
        BY <1>5, <2>1, <2>2, <2>3 DEF s, key
<1>6. CASE key = l
    <2>1. takeFromBatch(s, batch) = [s EXCEPT !.batchEnd = q - 1]
        BY <1>3, <1>6
    <2>2. [s EXCEPT !.batchEnd = q - 1] = Writing(t, p, q - 1, w, l, c)
        BY DEF s, Writing
    <2> QED
        BY <1>6, <2>1, <2>2 DEF s, key
<1> QED
    BY <1>5, <1>6 DEF s, key

\* An element of the block is written in front of those that are there already.
LEMMA TakeFromBlockIs ==
    ASSUME NEW t, NEW p, NEW q, NEW w, NEW l, NEW c
    PROVE  t[p] # l =>
             takeFromBlock(Writing(t, p, q, w, l, c))
               = Writing(Put(t, w, t[p]), p - 1, q, w - 1, t[p], c + 1)
<1> DEFINE s == Writing(t, p, q, w, l, c)
           key == t[p]
<1>1. s.blockEnd = p /\ s.last = l /\ s.slots = t
    BY DEF Writing
<1>2. write(s, key) = Writing(Put(t, w, key), p, q, w - 1, key, c + 1)
    BY WriteIs, SMTT(60)
<1>3. takeFromBlock(s)
        = [(IF key # l THEN write(s, key) ELSE s) EXCEPT !.blockEnd = p - 1]
    BY <1>1 DEF takeFromBlock
<1> HIDE DEF s, key
<1>5. CASE key # l
    <2>1. takeFromBlock(s) = [write(s, key) EXCEPT !.blockEnd = p - 1]
        BY <1>3, <1>5
    <2>2. PICK u : u = Put(t, w, key)
        OBVIOUS
    <2>3. [write(s, key) EXCEPT !.blockEnd = p - 1] = Writing(u, p - 1, q, w - 1, key, c + 1)
        <3>1. write(s, key) = Writing(u, p, q, w - 1, key, c + 1)
            BY <1>2, <2>2
        <3>2. [Writing(u, p, q, w - 1, key, c + 1) EXCEPT !.blockEnd = p - 1]
                = Writing(u, p - 1, q, w - 1, key, c + 1)
            BY DEF Writing
        <3> QED
            BY <3>1, <3>2
    <2> QED
        BY <1>5, <2>1, <2>2, <2>3 DEF s, key
<1> QED
    BY <1>5 DEF s, key

\* A round of the loops takes the larger one of the last elements that are left.
LEMMA TakeLastIs ==
    ASSUME NEW t, NEW p \in Int, NEW q \in Int, NEW w, NEW l, NEW c, NEW batch
    PROVE  takeLast(Writing(t, p, q, w, l, c), batch)
             = IF q < 0 THEN Writing(t, p, q, w, l, c)
               ELSE IF p < 0 \/ t[p] < batch[q + 1]
               THEN takeFromBatch(Writing(t, p, q, w, l, c), batch)
               ELSE takeFromBlock(Writing(t, p, q, w, l, c))
<1> DEFINE s == Writing(t, p, q, w, l, c)
<1>1. s.blockEnd = p /\ s.batchEnd = q /\ s.slots = t
    BY DEF Writing
<1> HIDE DEF s
<1>2. takeLast(s, batch)
        = IF q < 0 THEN s
          ELSE IF p < 0 \/ t[p] < batch[q + 1]
          THEN takeFromBatch(s, batch) ELSE takeFromBlock(s)
    BY <1>1 DEF takeLast
<1> QED
    BY <1>2 DEF s

\* The elements of the block and of the batch that have been taken.
BlockTail(b, p) == { b.slots[i] : i \in p + 1 .. b.size - 1 }
BatchTail(batch, q) == { batch[j] : j \in q + 2 .. Len(batch) }

\* What holds before every round: the elements of the block up to blockEnd are in
\* their places, the others and those of the batch behind batchEnd are written, in
\* order, from writeIndex + 1 to the end, and what is left is smaller than what was
\* written last, or equal to it if it is in the batch.
Backwards(t, p, q, w, l, c, b, batch, stored) ==
    /\ t \in [Slots -> Nat] /\ p \in -1 .. b.size - 1 /\ q \in -1 .. Len(batch) - 1
    /\ c \in Nat /\ w = b.size + Len(batch) - 1 - c
    /\ p + q + 1 <= w
    /\ \A i \in 0 .. p : t[i] = b.slots[i]
    /\ Written(t, w + 1, c, BlockTail(b, p) \cup BatchTail(batch, q))
    /\ l = IF c = 0 THEN 0 ELSE t[w + 1]
    /\ c > 0 /\ p >= 0 => b.slots[p] < l
    /\ c > 0 /\ q >= 0 => batch[q + 1] <= l
    /\ \A i \in Slots : t[i] \in stored \cup Taken(batch, Len(batch)) \cup {0}

\* The range of an index that has moved down.
LEMMA MovedDown ==
    \A i, j, last \in Int : -1 <= i /\ i <= j /\ j <= last => i \in -1 .. last
OBVIOUS

\* Writing the next smaller key leaves the state that the next round needs.
LEMMA BackwardsWrites ==
    ASSUME NEW b, NEW batch, NEW stored, MayMerge(b, batch, stored),
           NEW t, NEW p, NEW q, NEW w, NEW l, NEW c,
           Backwards(t, p, q, w, l, c, b, batch, stored), q >= 0,
           NEW key \in Nat, key # 0, key \in stored \cup Taken(batch, Len(batch)),
           c > 0 => key < l,
           NEW pn \in Int, NEW qn \in Int, -1 <= pn, pn <= p, -1 <= qn, qn <= q,
           pn + qn = p + q - 1,
           BlockTail(b, pn) \cup BatchTail(batch, qn)
             = BlockTail(b, p) \cup BatchTail(batch, q) \cup {key},
           pn >= 0 => b.slots[pn] < key,
           qn >= 0 => batch[qn + 1] <= key
    PROVE  Backwards(Put(t, w, key), pn, qn, w - 1, key, c + 1, b, batch, stored)
<1>0. /\ b.size \in Nat /\ Len(batch) \in Nat /\ MaxSize \in Nat
      /\ b.size + Len(batch) <= MaxSize
    BY SizeAssumption, SMTT(60) DEF MayMerge, IsBatch
<1>1. /\ t \in [Slots -> Nat] /\ p \in -1 .. b.size - 1 /\ q \in -1 .. Len(batch) - 1
      /\ c \in Nat /\ w = b.size + Len(batch) - 1 - c
      /\ p + q + 1 <= w
      /\ \A i \in 0 .. p : t[i] = b.slots[i]
      /\ Written(t, w + 1, c, BlockTail(b, p) \cup BatchTail(batch, q))
      /\ l = IF c = 0 THEN 0 ELSE t[w + 1]
      /\ \A i \in Slots : t[i] \in stored \cup Taken(batch, Len(batch)) \cup {0}
    BY DEF Backwards
<1>2. /\ w \in Nat /\ w + 1 + c <= MaxSize /\ p < w /\ w \in Slots
      /\ (w - 1) + 1 = w /\ w - 1 = b.size + Len(batch) - 1 - (c + 1)
      /\ pn + qn + 1 <= w - 1 /\ c + 1 > 0 /\ c + 1 # 0 /\ c + 1 \in Nat
      /\ pn \in -1 .. b.size - 1 /\ qn \in -1 .. Len(batch) - 1
    <2>1. /\ p \in Int /\ q \in Int /\ c \in Nat /\ w = b.size + Len(batch) - 1 - c
          /\ p >= -1 /\ p <= b.size - 1 /\ q <= Len(batch) - 1 /\ p + q + 1 <= w
        BY <1>0, <1>1, SMTT(60)
    <2>2. /\ w \in Nat /\ w + 1 + c <= MaxSize /\ p < w
          /\ (w - 1) + 1 = w /\ w - 1 = b.size + Len(batch) - 1 - (c + 1)
        <3>1. w \in Int /\ q \in Int /\ q >= 0
            BY <1>0, <2>1, SMTT(60)
        <3>2. w >= 0 /\ p < w
            BY <2>1, <3>1
        <3>3. w + 1 + c <= MaxSize
            BY <1>0, <2>1, <3>1
        <3>4. (w - 1) + 1 = w
            BY <3>1
        <3>5. w - 1 = b.size + Len(batch) - 1 - (c + 1)
            BY <1>0, <2>1, <3>1
        <3> QED
            BY <3>1, <3>2, <3>3, <3>4, <3>5, SMTT(60)
    <2>3. pn + qn + 1 <= w - 1 /\ c + 1 > 0 /\ c + 1 # 0 /\ c + 1 \in Nat
        <3>1. \A x, y, z, v, r \in Int :
                  x + y = z + v - 1 /\ z + v + 1 <= r => x + y + 1 <= r - 1
            OBVIOUS
        <3>2. w \in Int /\ pn + qn + 1 <= w - 1
            BY <2>1, <2>2, <3>1, SMTT(60)
        <3> QED
            BY <2>1, <3>2, SMTT(60)
    <2>4. pn \in -1 .. b.size - 1 /\ qn \in -1 .. Len(batch) - 1
        <3>1. b.size - 1 \in Int /\ Len(batch) - 1 \in Int
            BY <1>0, SMTT(60)
        <3> QED
            BY <2>1, <3>1, MovedDown
    <2>5. w \in Slots
        BY <1>0, <2>1, <2>2, SMTT(60) DEF Slots
    <2> QED
        BY <2>2, <2>3, <2>4, <2>5
<1>3. PICK u : u = [t EXCEPT ![w] = key]
    OBVIOUS
<1>4. /\ u \in [Slots -> Nat]
      /\ Written(u, w, c + 1, BlockTail(b, pn) \cup BatchTail(batch, qn))
    <2>1. c > 0 => key < t[w + 1]
        BY <1>1, SMTT(60)
    <2>2. PICK W : W = BlockTail(b, p) \cup BatchTail(batch, q)
        OBVIOUS
    <2>3. Written(t, w + 1, c, W)
        BY <1>1, <2>2
    <2>4. t \in [Slots -> Nat] /\ c \in Nat /\ w \in Nat /\ w + 1 + c <= MaxSize
        BY <1>1, <1>2
    <2>5. u \in [Slots -> Nat] /\ Written(u, w, c + 1, W \cup {key})
        BY <1>3, <2>1, <2>3, <2>4, WriteInFront
    <2> QED
        BY <2>2, <2>5
<1>5. \A i \in 0 .. pn : u[i] = b.slots[i]
    <2> SUFFICES ASSUME NEW i \in 0 .. pn PROVE u[i] = b.slots[i]
        OBVIOUS
    <2>1. i \in 0 .. p /\ i # w /\ i \in Slots
        <3>1. i \in Int /\ 0 <= i /\ i <= pn /\ p \in Int /\ p < w /\ w \in Nat
              /\ w <= MaxSize - 1
            BY <1>0, <1>1, <1>2, SMTT(60) DEF Slots
        <3> QED
            BY <1>0, <3>1, SMTT(60) DEF Slots
    <2> QED
        BY <1>1, <1>3, <2>1
<1>6. u[w] = key
    BY <1>1, <1>2, <1>3
<1>7. \A i \in Slots : u[i] \in stored \cup Taken(batch, Len(batch)) \cup {0}
    BY <1>1, <1>2, <1>3
<1>8. Backwards(u, pn, qn, w - 1, key, c + 1, b, batch, stored)
    BY <1>2, <1>4, <1>5, <1>6, <1>7 DEF Backwards
<1> QED
    BY <1>3, <1>8 DEF Put

\* A key of the batch that was written just before is left out.
LEMMA BackwardsSkips ==
    ASSUME NEW b, NEW batch, NEW stored, MayMerge(b, batch, stored),
           NEW t, NEW p, NEW q, NEW w, NEW l, NEW c,
           Backwards(t, p, q, w, l, c, b, batch, stored), q >= 0,
           batch[q + 1] = l
    PROVE  Backwards(t, p, q - 1, w, l, c, b, batch, stored)
<1>0. /\ b.size \in Nat /\ Len(batch) \in Nat /\ IsBatch(batch)
    BY DEF MayMerge, IsBatch
<1>1. /\ p \in -1 .. b.size - 1 /\ q \in -1 .. Len(batch) - 1
      /\ c \in Nat /\ w = b.size + Len(batch) - 1 - c
      /\ p + q + 1 <= w
      /\ Written(t, w + 1, c, BlockTail(b, p) \cup BatchTail(batch, q))
      /\ l = IF c = 0 THEN 0 ELSE t[w + 1]
    BY DEF Backwards
<1>2. q + 1 \in 1 .. Len(batch) /\ l # 0 /\ l \in Nat /\ c > 0
    <2>1. q + 1 \in 1 .. Len(batch)
        BY <1>0, <1>1
    <2>2. l # 0 /\ l \in Nat
        BY <1>0, <2>1 DEF IsBatch
    <2> QED
        BY <1>1, <2>1, <2>2
<1>3. BatchTail(batch, q - 1) = BatchTail(batch, q) \cup {l}
    <2>1. (q - 1) + 2 = q + 1
        BY <1>1
    <2>2. \A j : j \in q + 1 .. Len(batch) <=> j = q + 1 \/ j \in q + 2 .. Len(batch)
        BY <1>0, <1>1, <1>2
    <2> QED
        BY <2>1, <2>2 DEF BatchTail
<1>4. l \in BlockTail(b, p) \cup BatchTail(batch, q)
    <2>1. 0 \in 0 .. c - 1 /\ (w + 1) + 0 = w + 1 /\ l = t[w + 1]
        BY <1>0, <1>1, <1>2
    <2> QED
        BY <1>1, <2>1 DEF Written
<1>5. BlockTail(b, p) \cup BatchTail(batch, q - 1) = BlockTail(b, p) \cup BatchTail(batch, q)
    BY <1>3, <1>4
<1>6. q - 1 >= 0 => batch[(q - 1) + 1] <= l
    <2> SUFFICES ASSUME q - 1 >= 0 PROVE batch[q] <= l
        BY <1>1
    <2>1. q \in 1 .. (q + 1) - 1 /\ q \in 1 .. Len(batch)
        BY <1>0, <1>1
    <2>2. batch[q] < batch[q + 1] /\ batch[q] \in Nat
        BY <1>0, <1>2, <2>1 DEF IsBatch
    <2> QED
        BY <1>2, <2>2
<1>7. q - 1 \in -1 .. Len(batch) - 1 /\ p + (q - 1) + 1 <= w
    BY <1>0, <1>1
<1> QED
    BY <1>5, <1>6, <1>7 DEF Backwards

\* The states of mergeFaster's loops in which Backwards holds.
BackwardsStates(b, batch, stored) ==
    { v \in WritingStates : Backwards(v.slots, v.blockEnd, v.batchEnd, v.writeIndex, v.last,
                                      v.writes, b, batch, stored) }

\* After the first write, the entry written last lies within the slots.
LEMMA LastWritten ==
    ASSUME NEW size \in Nat, NEW n \in Nat, NEW most \in Nat, NEW c \in Nat \ {0},
           NEW w, size + n <= most, w = size + n - 1 - c
    PROVE  w + 1 <= most - 1
OBVIOUS

\* The same invariant, for the fields of a state and for the state.
LEMMA WritingIsState ==
    ASSUME NEW b, NEW batch, NEW stored, MayMerge(b, batch, stored),
           NEW t, NEW p, NEW q, NEW w, NEW l, NEW c,
           Backwards(t, p, q, w, l, c, b, batch, stored)
    PROVE  /\ Writing(t, p, q, w, l, c) \in BackwardsStates(b, batch, stored)
           /\ Writing(t, p, q, w, l, c).blockEnd = p
           /\ Writing(t, p, q, w, l, c).batchEnd = q
<1>1. PICK v : v = Writing(t, p, q, w, l, c)
    OBVIOUS
<1>2. /\ v.slots = t /\ v.blockEnd = p /\ v.batchEnd = q /\ v.writeIndex = w
      /\ v.last = l /\ v.writes = c
    BY <1>1 DEF Writing
<1>3. /\ t \in [Slots -> Nat] /\ p \in Int /\ q \in Int /\ w \in Int /\ c \in Nat
      /\ l = IF c = 0 THEN 0 ELSE t[w + 1]
    BY DEF Backwards, MayMerge, IsBatch
<1>4. l \in Nat
    <2>1. CASE c = 0
        BY <1>3, <2>1
    <2>2. CASE c # 0
        <3>1. w + 1 \in Slots
            <4>1. /\ b.size \in Nat /\ Len(batch) \in Nat /\ MaxSize \in Nat
                  /\ b.size + Len(batch) <= MaxSize
                BY SizeAssumption DEF MayMerge, IsBatch
            <4>2. w = b.size + Len(batch) - 1 - c /\ p >= -1 /\ q >= -1 /\ p + q + 1 <= w
                BY <1>3, <4>1 DEF Backwards
            <4>3. w >= -1
                BY <1>3, <4>2
            <4>4. w + 1 <= MaxSize - 1
                <5>1. c \in Nat \ {0}
                    BY <1>3, <2>2
                <5> QED
                    BY <4>1, <4>2, <5>1, LastWritten
            <4> QED
                BY <1>3, <4>1, <4>3, <4>4, SMTT(60) DEF Slots
        <3> QED
            BY <1>3, <2>2, <3>1
    <2> QED
        BY <2>1, <2>2
<1>5. v \in WritingStates
    BY <1>1, <1>3, <1>4 DEF Writing, WritingStates
<1> QED
    BY <1>1, <1>2, <1>5 DEF BackwardsStates

\* A state is what its fields say.
LEMMA StateIsWriting ==
    ASSUME NEW v \in WritingStates
    PROVE  v = Writing(v.slots, v.blockEnd, v.batchEnd, v.writeIndex, v.last, v.writes)
BY DEF Writing, WritingStates

\* One element less is left.
OneLess(d, v) == d.blockEnd + d.batchEnd = v.blockEnd + v.batchEnd - 1

\* A round that leaves one element less leads from a state to a state.
LEMMA RoundEnds ==
    ASSUME NEW b, NEW batch, NEW stored, MayMerge(b, batch, stored),
           NEW t, NEW p, NEW q, NEW w, NEW l, NEW c,
           NEW tn, NEW pn, NEW qn, NEW wn, NEW ln, NEW cn,
           Backwards(tn, pn, qn, wn, ln, cn, b, batch, stored), pn + qn = p + q - 1,
           NEW d, d = Writing(tn, pn, qn, wn, ln, cn)
    PROVE  d \in BackwardsStates(b, batch, stored) /\ OneLess(d, Writing(t, p, q, w, l, c))
<1>1. d \in BackwardsStates(b, batch, stored)
    BY WritingIsState
<1>2. d.blockEnd = pn /\ d.batchEnd = qn
    BY DEF Writing
<1>3. Writing(t, p, q, w, l, c).blockEnd = p /\ Writing(t, p, q, w, l, c).batchEnd = q
    BY DEF Writing
<1> QED
    BY <1>1, <1>2, <1>3 DEF OneLess

\* A round of mergeFaster takes the larger of the two last elements.
LEMMA BackwardsRound ==
    ASSUME NEW b, WellFormed(b), NEW batch, NEW stored, Tracked(b, stored),
           MayMerge(b, batch, stored),
           NEW t, NEW p, NEW q, NEW w, NEW l, NEW c,
           Backwards(t, p, q, w, l, c, b, batch, stored), q >= 0
    PROVE  /\ takeLast(Writing(t, p, q, w, l, c), batch) \in BackwardsStates(b, batch, stored)
           /\ OneLess(takeLast(Writing(t, p, q, w, l, c), batch), Writing(t, p, q, w, l, c))
<1>0. /\ b.size \in Nat /\ Len(batch) \in Nat /\ IsBatch(batch) /\ MaxSize \in Nat
      /\ b.slots \in [Slots -> Nat] /\ b.size <= MaxSize
    BY SizeAssumption DEF MayMerge, IsBatch, WellFormed, Blocks
<1>1. /\ p \in Int /\ -1 <= p /\ p <= b.size - 1
      /\ q \in Int /\ -1 <= q /\ q <= Len(batch) - 1
      /\ c \in Nat
      /\ \A i \in 0 .. p : t[i] = b.slots[i]
      /\ l = IF c = 0 THEN 0 ELSE t[w + 1]
      /\ c > 0 /\ p >= 0 => b.slots[p] < l
      /\ c > 0 /\ q >= 0 => batch[q + 1] <= l
    BY <1>0 DEF Backwards
<1>2. PICK key : key = batch[q + 1]
    OBVIOUS
<1>3. q + 1 \in 1 .. Len(batch) /\ key \in Nat /\ key # 0 /\ key \in Taken(batch, Len(batch))
    <2>1. q + 1 \in 1 .. Len(batch)
        BY <1>0, <1>1
    <2> QED
        BY <1>0, <1>2, <2>1 DEF IsBatch, Taken
<1>4. l \in Nat
    BY WritingIsState DEF BackwardsStates, WritingStates, Writing
<1>5. CASE p < 0 \/ t[p] < key
    <2>1. takeLast(Writing(t, p, q, w, l, c), batch)
            = takeFromBatch(Writing(t, p, q, w, l, c), batch)
        BY <1>1, <1>2, <1>5, TakeLastIs, SMTT(60)
    <2>2. CASE key = l
        <3>1. takeLast(Writing(t, p, q, w, l, c), batch) = Writing(t, p, q - 1, w, l, c)
            <4>0. batch[q + 1] = l
                BY <1>2, <2>2
            <4>1. takeFromBatch(Writing(t, p, q, w, l, c), batch)
                    = Writing(t, p, q - 1, w, l, c)
                BY <4>0, TakeFromBatchIs, SMTT(60)
            <4> QED
                BY <2>1, <4>1
        <3>2. Backwards(t, p, q - 1, w, l, c, b, batch, stored)
            BY <1>2, <2>2, BackwardsSkips
        <3>3. p + (q - 1) = p + q - 1
            BY <1>1
        <3> QED
            BY <3>1, <3>2, <3>3, RoundEnds
    <2>3. CASE key # l
        <3>1. takeLast(Writing(t, p, q, w, l, c), batch)
                = Writing(Put(t, w, key), p, q - 1, w - 1, key, c + 1)
            <4>1. batch[q + 1] # l
                BY <1>2, <2>3
            <4>2. takeFromBatch(Writing(t, p, q, w, l, c), batch)
                    = Writing(Put(t, w, batch[q + 1]), p, q - 1, w - 1,
                              batch[q + 1], c + 1)
                BY <4>1, TakeFromBatchIs, SMTT(60)
            <4> QED
                BY <1>2, <2>1, <4>2
        <3>2. c > 0 => key < l
            BY <1>1, <1>2, <1>3, <1>4, <2>3
        <3>3. /\ p \in Int /\ q - 1 \in Int /\ -1 <= p /\ p <= p /\ -1 <= q - 1 /\ q - 1 <= q
              /\ p + (q - 1) = p + q - 1
            BY <1>1
        <3>4. BatchTail(batch, q - 1) = BatchTail(batch, q) \cup {key}
            <4>1. (q - 1) + 2 = q + 1
                BY <1>1, SMTT(60)
            <4>2. \A j : j \in q + 1 .. Len(batch) <=> j = q + 1 \/ j \in q + 2 .. Len(batch)
                BY <1>0, <1>1, <1>3, SMTT(60)
            <4> QED
                BY <1>2, <4>1, <4>2 DEF BatchTail
        <3>5. BlockTail(b, p) \cup BatchTail(batch, q - 1)
                = BlockTail(b, p) \cup BatchTail(batch, q) \cup {key}
            BY <3>4
        <3>6. p >= 0 => b.slots[p] < key
            BY <1>1, <1>5
        <3>7. q - 1 >= 0 => batch[(q - 1) + 1] <= key
            <4> SUFFICES ASSUME q - 1 >= 0 PROVE batch[q] <= key
                BY <1>1
            <4>1. q \in 1 .. (q + 1) - 1 /\ q \in 1 .. Len(batch)
                BY <1>0, <1>1
            <4>2. batch[q] < batch[q + 1] /\ batch[q] \in Nat
                BY <1>0, <1>3, <4>1 DEF IsBatch
            <4> QED
                BY <1>2, <1>3, <4>2
        <3>8. Backwards(Put(t, w, key), p, q - 1, w - 1, key, c + 1, b, batch, stored)
            <4>1. key \in stored \cup Taken(batch, Len(batch))
                BY <1>3
            <4> QED
                BY <1>3, <3>2, <3>3, <3>5, <3>6, <3>7, <4>1, BackwardsWrites
        <3> QED
            BY <3>1, <3>3, <3>8, RoundEnds
    <2> QED
        BY <2>2, <2>3
<1>6. CASE ~(p < 0 \/ t[p] < key)
    <2> DEFINE el == b.slots[p]
    <2>1. p \in 0 .. b.size - 1 /\ p \in Slots /\ t[p] = el
        BY <1>0, <1>1, <1>6 DEF Slots
    <2>2. el \in Nat /\ el # 0 /\ \A i \in 0 .. p - 1 : b.slots[i] < el
        BY <2>1, InOrder
    <2>3. el >= key /\ el # l
        BY <1>1, <1>3, <1>4, <1>6, <2>1, <2>2
    <2>4. takeLast(Writing(t, p, q, w, l, c), batch)
            = takeFromBlock(Writing(t, p, q, w, l, c))
        BY <1>1, <1>2, <1>6, TakeLastIs, SMTT(60)
    <2>5. takeLast(Writing(t, p, q, w, l, c), batch)
            = Writing(Put(t, w, el), p - 1, q, w - 1, el, c + 1)
        <3>1. t[p] # l
            BY <2>1, <2>3
        <3>2. takeFromBlock(Writing(t, p, q, w, l, c))
                = Writing(Put(t, w, t[p]), p - 1, q, w - 1, t[p], c + 1)
            BY <3>1, TakeFromBlockIs, SMTT(60)
        <3> HIDE DEF el
        <3> QED
            BY <2>1, <2>4, <3>2
    <2>6. c > 0 => el < l
        BY <1>1, <2>1
    <2>7. /\ p - 1 \in Int /\ q \in Int /\ -1 <= p - 1 /\ p - 1 <= p /\ -1 <= q /\ q <= q
          /\ (p - 1) + q = p + q - 1
        BY <1>1, <2>1
    <2>8. BlockTail(b, p - 1) = BlockTail(b, p) \cup {el}
        <3>1. (p - 1) + 1 = p
            BY <1>1
        <3>2. \A j : j \in p .. b.size - 1 <=> j = p \/ j \in p + 1 .. b.size - 1
            BY <1>0, <2>1
        <3> QED
            BY <3>1, <3>2 DEF BlockTail
    <2>9. BlockTail(b, p - 1) \cup BatchTail(batch, q)
            = BlockTail(b, p) \cup BatchTail(batch, q) \cup {el}
        BY <2>8
    <2>10. p - 1 >= 0 => b.slots[p - 1] < el
        BY <1>1, <2>2
    <2>11. q >= 0 => batch[q + 1] <= el
        BY <1>2, <1>3, <2>2, <2>3
    <2>12. el \in stored \cup Taken(batch, Len(batch))
        BY <2>1, <2>2 DEF Tracked
    <2> HIDE DEF el
    <2>13. Backwards(Put(t, w, el), p - 1, q, w - 1, el, c + 1, b, batch, stored)
        BY <2>2, <2>6, <2>7, <2>9, <2>10, <2>11, <2>12, BackwardsWrites
    <2> QED
        BY <2>5, <2>7, <2>13, RoundEnds
<1> QED
    BY <1>5, <1>6

\* One round of mergeFaster, as the recursive function that stands for its loops
\* takes it: with the batch used up nothing changes any more.
LEMMA BackwardsStep ==
    ASSUME NEW b, WellFormed(b), NEW batch, NEW stored, Tracked(b, stored),
           MayMerge(b, batch, stored),
           NEW v \in BackwardsStates(b, batch, stored)
    PROVE  LET d == takeLast(v, batch)
           IN  /\ d \in BackwardsStates(b, batch, stored)
               /\ v.batchEnd < 0 => d = v
               /\ v.batchEnd >= 0 => d.blockEnd + d.batchEnd = v.blockEnd + v.batchEnd - 1
<1>1. PICK t, p, q, w, l, c :
          /\ t = v.slots /\ p = v.blockEnd /\ q = v.batchEnd /\ w = v.writeIndex
          /\ l = v.last /\ c = v.writes
    OBVIOUS
<1>2. /\ v \in WritingStates /\ q \in Int
      /\ Backwards(t, p, q, w, l, c, b, batch, stored)
    BY <1>1 DEF BackwardsStates, WritingStates
<1>3. v = Writing(t, p, q, w, l, c)
    BY <1>1, <1>2, StateIsWriting
<1>4. CASE q < 0
    <2>1. takeLast(v, batch) = v
        BY <1>1, <1>4 DEF takeLast
    <2> QED
        BY <1>1, <1>2, <1>4, <2>1
<1>5. CASE q >= 0
    <2>1. takeLast(v, batch) \in BackwardsStates(b, batch, stored) /\ OneLess(takeLast(v, batch), v)
        BY <1>2, <1>3, <1>5, BackwardsRound
    <2> QED
        BY <1>1, <1>2, <1>5, <2>1 DEF OneLess
<1> QED
    BY <1>2, <1>4, <1>5

\* The state in which mergeFaster enters its loops.
FirstWriting(b, batch) ==
    [slots |-> b.slots, blockEnd |-> b.size - 1, batchEnd |-> Len(batch) - 1,
     writeIndex |-> b.size + Len(batch) - 1, last |-> 0, writes |-> 0]

\* Backwards holds when mergeFaster enters its loops.
LEMMA BackwardsBegins ==
    ASSUME NEW b, WellFormed(b), NEW batch, NEW stored, Tracked(b, stored),
           MayMerge(b, batch, stored)
    PROVE  FirstWriting(b, batch) \in BackwardsStates(b, batch, stored)
<1>0. b.size \in Nat /\ Len(batch) \in Nat /\ b.slots \in [Slots -> Nat]
    BY SizeAssumption, SMTT(60) DEF WellFormed, Blocks, MayMerge, IsBatch
<1> DEFINE p == b.size - 1
           q == Len(batch) - 1
           w == b.size + Len(batch) - 1
<1>1. p \in -1 .. b.size - 1 /\ q \in -1 .. Len(batch) - 1 /\ w = w - 0 /\ p + q + 1 <= w
    BY <1>0
<1>2. Written(b.slots, w + 1, 0, BlockTail(b, p) \cup BatchTail(batch, q))
    <2>1. \A i : i \notin 0 .. 0 - 1 /\ i \notin p + 1 .. b.size - 1
                 /\ i \notin q + 2 .. Len(batch)
        BY <1>0
    <2>2. BlockTail(b, p) = {} /\ BatchTail(batch, q) = {}
        BY <2>1 DEF BlockTail, BatchTail
    <2> HIDE DEF p, q, w
    <2> QED
        BY <2>1, <2>2 DEF Written
<1>3. \A i \in Slots : b.slots[i] \in stored \cup Taken(batch, Len(batch)) \cup {0}
    BY DEF Tracked
<1>4. Backwards(b.slots, p, q, w, 0, 0, b, batch, stored)
    BY <1>0, <1>1, <1>2, <1>3 DEF Backwards
<1>5. FirstWriting(b, batch) = Writing(b.slots, p, q, w, 0, 0)
    BY DEF FirstWriting, Writing
<1> HIDE DEF p, q, w
<1> QED
    BY <1>4, <1>5, WritingIsState, SMTT(60)

\* After as many rounds as there are elements the batch is written.
LEMMA BackwardsEnds ==
    ASSUME NEW b, WellFormed(b), NEW batch, NEW stored, Tracked(b, stored),
           MayMerge(b, batch, stored)
    PROVE  LET v == MergesBackwards(b, batch)[b.size + Len(batch)]
           IN  v \in BackwardsStates(b, batch, stored) /\ v.batchEnd = -1
<1> DEFINE V == BackwardsStates(b, batch, stored)
           begin == FirstWriting(b, batch)
           Step(v) == takeLast(v, batch)
           body == [k \in Nat |-> [v \in V |-> Step(v)]]
           Loop(g) == g = [k \in Nat |-> IF k = 0 THEN begin ELSE Step(g[k - 1])]
           f == MergesBackwards(b, batch)
<1>0. b.size \in Nat /\ Len(batch) \in Nat
    BY SizeAssumption, SMTT(60) DEF WellFormed, Blocks, MayMerge, IsBatch
<1>1. ASSUME NEW v \in V
      PROVE  /\ Step(v) \in V
             /\ v.batchEnd < 0 => Step(v) = v
             /\ v.batchEnd >= 0 =>
                   Step(v).blockEnd + Step(v).batchEnd = v.blockEnd + v.batchEnd - 1
    BY BackwardsStep, SMTT(60)
<1>2. f = CHOOSE g : Loop(g)
    BY DEF MergesBackwards, FirstWriting
<1>3. begin \in V
    BY BackwardsBegins
<1>a. begin.blockEnd + begin.batchEnd = b.size + Len(batch) - 2
    BY <1>0 DEF FirstWriting
<1>b. \A v \in V : /\ v.blockEnd \in Int /\ v.batchEnd \in Int
                   /\ v.blockEnd >= -1 /\ v.batchEnd >= -1
    BY <1>0, SMTT(60) DEF BackwardsStates, WritingStates, Backwards
<1> HIDE DEF V, begin, Step, f
<1>4. body \in [Nat -> [V -> V]]
    BY <1>1
<1>5. \E g : Loop(g)
    <2>1. PICK g \in [Nat -> V] : Rounds(g, begin, body)
        <3> HIDE DEF body
        <3> QED
            BY <1>3, <1>4, RoundsExist
    <2>2. \A k \in Nat : k # 0 => body[k][g[k - 1]] = Step(g[k - 1])
        BY <2>1, SMTT(60)
    <2>3. Loop(g)
        <3> HIDE DEF body
        <3> QED
            BY <2>1, <2>2 DEF Rounds
    <2> QED
        BY <2>3
<1>6. Loop(f)
    BY <1>2, <1>5
<1>7. f[0] = begin /\ \A k \in Nat : f[k + 1] = Step(f[k])
    BY <1>6, SMTT(60)
<1> DEFINE Ends(v, k) == v.batchEnd < 0 \/ v.blockEnd + v.batchEnd <= b.size + Len(batch) - 2 - k
           S == { k \in Nat : f[k] \in V /\ Ends(f[k], k) }
<1>8. 0 \in S
    <2>1. Ends(begin, 0)
        BY <1>0, <1>a
    <2> HIDE DEF Ends
    <2> QED
        BY <1>3, <1>7, <2>1
<1>9. ASSUME NEW k \in Nat, k \in S PROVE k + 1 \in S
    <2>1. PICK v : v = f[k]
        OBVIOUS
    <2>2. v \in V /\ Ends(v, k) /\ f[k + 1] = Step(v)
        BY <1>7, <1>9, <2>1
    <2>3. Step(v) \in V
        BY <1>1, <2>2
    <2>4. Ends(Step(v), k + 1)
        <3>1. CASE v.batchEnd < 0
            BY <1>1, <2>2, <3>1
        <3>2. CASE v.batchEnd >= 0
            <4>1. /\ v.blockEnd + v.batchEnd <= b.size + Len(batch) - 2 - k
                  /\ v.blockEnd \in Int /\ v.batchEnd \in Int
                BY <1>b, <2>2, <3>2
            <4>2. Step(v).blockEnd + Step(v).batchEnd = v.blockEnd + v.batchEnd - 1
                BY <1>1, <2>2, <3>2
            <4> QED
                BY <1>0, <4>1, <4>2
        <3> QED
            BY <1>b, <2>2, <3>1, <3>2
    <2> QED
        BY <2>2, <2>3, <2>4
<1> HIDE DEF S
<1>10. \A k \in Nat : k \in S
    BY <1>8, <1>9, InductionOnSet
<1>11. PICK v : v = f[b.size + Len(batch)]
    OBVIOUS
<1>12. v \in V /\ Ends(v, b.size + Len(batch))
    BY <1>0, <1>10, <1>11 DEF S
<1>13. v.batchEnd = -1
    BY <1>0, <1>b, <1>12
<1> QED
    BY <1>11, <1>12, <1>13 DEF V, f

\* A block with new slots and a new size.
Resized(b, slots, size) == [b EXCEPT !.slots = slots, !.size = size]

\* Its fields.
LEMMA ResizedIs ==
    ASSUME NEW b, NEW s, NEW n, NEW h, b = [slots |-> s, size |-> n, head |-> h],
           NEW x, NEW y
    PROVE  Resized(b, x, y) = [slots |-> x, size |-> y, head |-> h]
<1>1. PICK d : d = [b EXCEPT !.slots = x]
    OBVIOUS
<1>2. d = [slots |-> x, size |-> n, head |-> h]
    BY <1>1
<1>3. [d EXCEPT !.size = y] = [slots |-> x, size |-> y, head |-> h]
    BY <1>2
<1>4. Resized(b, x, y) = [d EXCEPT !.size = y]
    BY <1>1 DEF Resized
<1> QED
    BY <1>3, <1>4

\* mergeFaster adds the keys of the batch and no others, as merge does, although it
\* writes from the back over slots out of use and closes the gap of the duplicates.
THEOREM MergeFasterExact ==
    ASSUME NEW b, WellFormed(b), NEW batch, NEW stored, Tracked(b, stored),
           MayMerge(b, batch, stored)
    PROVE  LET r == mergeFaster(b, batch)
           IN  /\ WellFormed(r)
               /\ Keys(r) = Keys(b) \cup Taken(batch, Len(batch))
               /\ Tracked(r, stored \cup Taken(batch, Len(batch)))
<1> DEFINE v == MergesBackwards(b, batch)[b.size + Len(batch)]
           t == v.slots
           p == v.blockEnd
           w == v.writeIndex
           l == v.last
           c == v.writes
           n == b.size
           m == Len(batch)
           s == b.slots
           h == b.head
           kept == IF p >= 0 /\ t[p] = l THEN 1 ELSE 0
           R(start, d) == [i \in Slots |-> IF start <= i /\ i < start + c
                                           THEN t[i + d] ELSE t[i]]
           M(start, d, x) == Resized(b, R(start, d), x)
           F(start, d) == IF (IF w >= start THEN w - d ELSE w) + 1 = 0
                          THEN updateHead(M(start, d, n + m - d)) ELSE M(start, d, n + m - d)
<1>1. mergeFaster(b, batch) = F(p + 1 - kept, n + m - (p + 1) - c + kept)
    BY DEF mergeFaster, Resized
<1>2. v \in BackwardsStates(b, batch, stored) /\ v.batchEnd = -1
    BY BackwardsEnds
<1> HIDE DEF v
<1>3. /\ n \in Nat /\ m \in Nat /\ n + m <= MaxSize /\ MaxSize \in Nat /\ MaxSize > 0
    BY SizeAssumption DEF WellFormed, Blocks, MayMerge, IsBatch
<1>4. /\ s \in [Slots -> Nat] /\ h \in Nat
      /\ Increasing(s, n) /\ (n > 0 => h = s[0])
      /\ b = [slots |-> s, size |-> n, head |-> h]
    BY SizeAssumption DEF WellFormed, Blocks
<1>5. Backwards(t, p, -1, w, l, c, b, batch, stored)
    BY <1>2 DEF BackwardsStates
<1>6. /\ t \in [Slots -> Nat] /\ p \in Int /\ -1 <= p /\ p <= n - 1
      /\ c \in Nat /\ w = n + m - 1 - c /\ w \in Int /\ p <= w
    <2>1. /\ t \in [Slots -> Nat] /\ p \in -1 .. b.size - 1
          /\ c \in Nat /\ w = b.size + Len(batch) - 1 - c /\ p + (-1) + 1 <= w
        BY <1>5 DEF Backwards
    <2> HIDE DEF n, m, p, w, c
    <2>2. /\ t \in [Slots -> Nat] /\ p \in -1 .. n - 1
          /\ c \in Nat /\ w = n + m - 1 - c /\ p + (-1) + 1 <= w
        BY <2>1 DEF n, m
    <2> QED
        BY <1>3, <2>2
<1>7. /\ \A i \in 0 .. p : t[i] = s[i]
      /\ Written(t, w + 1, c, BlockTail(b, p) \cup BatchTail(batch, -1))
      /\ l = IF c = 0 THEN 0 ELSE t[w + 1]
      /\ c > 0 /\ p >= 0 => s[p] < l
      /\ \A i \in Slots : t[i] \in stored \cup Taken(batch, Len(batch)) \cup {0}
    BY <1>4, <1>5 DEF Backwards
<1>8. ~(p >= 0 /\ t[p] = l)
    <2> SUFFICES ASSUME p >= 0 PROVE t[p] # l
        OBVIOUS
    <2>1. p \in 0 .. p /\ p \in 0 .. n - 1 /\ p \in Slots
        <3> HIDE DEF n, m, p, w, c
        <3>1. p \in Int /\ p <= n - 1
            BY <1>6
        <3>2. p <= MaxSize - 1
            BY <1>3, <3>1
        <3> QED
            BY <1>3, <3>1, <3>2 DEF Slots
    <2>2. t[p] = s[p] /\ s[p] # 0 /\ s[p] \in Nat
        BY <1>4, <1>7, <2>1 DEF Increasing
    <2>3. CASE c = 0
        BY <1>7, <2>2, <2>3
    <2>4. CASE c > 0
        BY <1>7, <2>2, <2>4, SMTT(60)
    <2> QED
        BY <1>6, <2>3, <2>4
<1> DEFINE dup == w - p
           r == R(p + 1, dup)
           size == p + 1 + c
           result == [slots |-> r, size |-> size, head |-> h]
<1>9. mergeFaster(b, batch) = IF p + 1 = 0 THEN updateHead(result) ELSE result
    <2>1. kept = 0
        BY <1>8
    <2>2. mergeFaster(b, batch) = F(p + 1 - 0, n + m - (p + 1) - c + 0)
        <3> HIDE DEF F, kept, n, m, p, c
        <3> QED
            BY <1>1, <2>1
    <2>3. p + 1 - 0 = p + 1 /\ n + m - (p + 1) - c + 0 = dup /\ n + m - dup = size
        <3> HIDE DEF n, m, p, w, c
        <3> QED
            BY <1>3, <1>6
    <2>4. mergeFaster(b, batch) = F(p + 1, dup)
        <3> HIDE DEF F, n, m, p, w, c, dup
        <3> QED
            BY <2>2, <2>3
    <2>5. (IF w >= p + 1 THEN w - dup ELSE w) = p
        <3> HIDE DEF n, m, p, w, c
        <3> QED
            BY <1>3, <1>6
    <2>6. M(p + 1, dup, n + m - dup) = result
        <3>1. b = [slots |-> s, size |-> n, head |-> h]
            BY <1>4
        <3> HIDE DEF R, n, m, p, w, c, dup, size, s, h
        <3> QED
            BY <2>3, <3>1, ResizedIs, SMTT(60)
    <2> HIDE DEF M, result, n, m, p, w, c, dup
    <2> QED
        BY <2>4, <2>5, <2>6
<1> HIDE DEF R, M, F, kept, t, p, w, l, c, n, m, s, h
<1> DEFINE u == [i \in Nat |-> t[w + 1 + i]]
<1>10. dup \in Nat /\ size \in 0 .. MaxSize /\ p + 1 \in Nat /\ size = (p + 1) + c
    <2>1. dup \in Nat /\ p + 1 \in Nat
        BY <1>6
    <2>2. size \in Nat /\ size <= MaxSize
        BY <1>3, <1>6
    <2> QED
        BY <1>3, <2>1, <2>2
<1>11. ASSUME NEW i \in 0 .. c - 1
       PROVE  /\ i \in Nat /\ w + 1 + i \in Slots /\ p + 1 + i \in Slots
              /\ r[(p + 1) + i] = t[w + 1 + i]
    <2>1. i \in Nat /\ w + 1 + i \in Slots /\ p + 1 + i \in Slots
        BY <1>3, <1>6, SMTT(60) DEF Slots
    <2>2. /\ p + 1 <= p + 1 + i /\ p + 1 + i < p + 1 + c
          /\ (p + 1 + i) + dup = w + 1 + i
        BY <1>6
    <2>3. p + 1 + i = (p + 1) + i /\ p + 1 + c = (p + 1) + c
        BY <1>6
    <2> HIDE DEF dup
    <2> QED
        BY <2>1, <2>2, <2>3 DEF R
<1>12. r \in [Slots -> Nat]
    <2> SUFFICES ASSUME NEW i \in Slots, p + 1 <= i, i < p + 1 + c PROVE i + dup \in Slots
        BY <1>6 DEF R
    <2>1. i \in Int /\ 0 <= i /\ i + dup < n + m /\ 0 <= i + dup
        BY <1>3, <1>6 DEF Slots
    <2> QED
        BY <1>3, <1>6, <2>1, SMTT(60) DEF Slots
<1>13. ASSUME NEW i \in 0 .. (p + 1) - 1 PROVE i \in Slots /\ i \in 0 .. p /\ r[i] = s[i]
    <2>1. i \in Slots /\ i \in 0 .. p /\ ~(p + 1 <= i)
        BY <1>3, <1>6 DEF Slots
    <2> QED
        BY <1>7, <2>1 DEF R
<1>14. ASSUME NEW i \in Slots PROVE r[i] \in stored \cup Taken(batch, Len(batch)) \cup {0}
    <2>1. CASE p + 1 <= i /\ i < p + 1 + c
        <3>1. i + dup \in Slots
            <4>1. i \in Int /\ 0 <= i /\ i + dup < n + m /\ 0 <= i + dup
                BY <1>3, <1>6, <2>1 DEF Slots
            <4> QED
                BY <1>3, <1>6, <4>1, SMTT(60) DEF Slots
        <3> HIDE DEF dup
        <3> QED
            BY <1>7, <2>1, <3>1 DEF R
    <2>2. CASE ~(p + 1 <= i /\ i < p + 1 + c)
        BY <1>7, <2>2 DEF R
    <2> QED
        BY <2>1, <2>2
<1> HIDE DEF r, dup
<1>15. Increasing(u, c) /\ Values(u, c) = BlockTail(b, p) \cup BatchTail(batch, -1)
    BY <1>7, SMTT(60) DEF Increasing, Values, Written
<1>16. Increasing(s, p + 1)
    <2>1. \A i : i \in 0 .. (p + 1) - 1 => i \in 0 .. n - 1
        BY <1>3, <1>6
    <2> QED
        BY <1>4, <2>1 DEF Increasing
<1>17. Below(s, p + 1, u, c)
    <2> SUFFICES ASSUME NEW i \in 0 .. p, NEW j \in 0 .. c - 1 PROVE s[i] < u[j]
        BY <1>6 DEF Below
    <2>0. /\ c > 0 /\ c # 0 /\ p >= 0 /\ 0 \in 0 .. c - 1 /\ j \in Nat /\ w + 1 + 0 = w + 1
          /\ p \in 0 .. n - 1
        BY <1>3, <1>6
    <2>1. u[0] = l /\ s[p] < l /\ u[0] \in Nat
        BY <1>6, <1>7, <1>11, <2>0
    <2>2. u[j] \in Nat /\ u[0] <= u[j]
        BY <1>6, <1>11, <1>15, <2>0, <2>1, SMTT(60) DEF Increasing
    <2>3. s[i] \in Nat /\ s[p] \in Nat /\ s[i] <= s[p]
        BY <1>3, <1>4, <1>6, <2>0 DEF Increasing, Slots
    <2> HIDE DEF u
    <2> QED
        BY <1>6, <2>1, <2>2, <2>3
<1>18. Copied(r, 0, s, p + 1) /\ Copied(r, p + 1, u, c)
    BY <1>11, <1>13 DEF Copied
<1>19. Increasing(r, size) /\ Values(r, size) = Values(s, p + 1) \cup Values(u, c)
    <2>1. /\ Increasing(r, (p + 1) + c)
          /\ Values(r, (p + 1) + c) = Values(s, p + 1) \cup Values(u, c)
        <3> HIDE DEF u
        <3>1. p + 1 \in Nat /\ c \in Nat
            BY <1>6, <1>10
        <3> QED
            BY <1>15, <1>16, <1>17, <1>18, <3>1, Glue, SMTT(60)
    <2> HIDE DEF u, size
    <2> QED
        BY <1>10, <2>1
<1>20. Values(r, size) = Keys(b) \cup Taken(batch, Len(batch))
    <2>1. BatchTail(batch, -1) = Taken(batch, Len(batch))
        BY DEF BatchTail, Taken
    <2>2. Keys(b) = Values(s, p + 1) \cup BlockTail(b, p)
        <3>1. \A i : i \in 0 .. n - 1 <=> i \in 0 .. (p + 1) - 1 \/ i \in p + 1 .. n - 1
            BY <1>3, <1>6
        <3> QED
            BY <3>1 DEF Keys, Values, BlockTail, n, s
    <2> HIDE DEF u, size
    <2> QED
        BY <1>15, <1>19, <2>1, <2>2
<1>21. r[0] \in Nat
    BY <1>3, <1>12, SMTT(60) DEF Slots
<1> DEFINE end == [slots |-> r, size |-> size, head |-> IF p + 1 = 0 THEN r[0] ELSE h]
<1>22. mergeFaster(b, batch) = end
    BY <1>9 DEF updateHead
<1>23. /\ (IF p + 1 = 0 THEN r[0] ELSE h) \in Nat
       /\ (IF p + 1 = 0 THEN r[0] ELSE h) = r[0]
    <2>1. CASE p + 1 = 0
        BY <1>21, <2>1
    <2>2. CASE p + 1 # 0
        <3>1. n > 0 /\ 0 \in 0 .. (p + 1) - 1
            BY <1>3, <1>6, <2>2
        <3> QED
            BY <1>4, <1>13, <2>2, <3>1
    <2> QED
        BY <2>1, <2>2
<1>24. WellFormed(end) /\ Keys(end) = Values(r, size)
    <2> HIDE DEF size
    <2> QED
        BY <1>10, <1>12, <1>19, <1>23, Made
<1>25. Tracked(end, stored \cup Taken(batch, Len(batch)))
    BY <1>14 DEF Tracked
<1> HIDE DEF end
<1> QED
    BY <1>20, <1>22, <1>24, <1>25
=============================================================================
