-------------------------- MODULE BlockChainProofs --------------------------
(***************************************************************************)
(* Whatever calls the array makes, the blocks hold the keys of the set in  *)
(* order, also in the middle of insertIntoBlockWithSplit, for blocks of    *)
(* every size.  The inductive invariant adds to what the runs check why a  *)
(* value left in an unused slot does no harm (it is a key that is stored), *)
(* where the rest of the batch belongs, and what the search hint is worth  *)
(* after the block in work has been split.                                 *)
(***************************************************************************)
EXTENDS BlockProofs, BlockChain

\* The provers that a leaf is given to, and for how long.
USE ZenonT(60), SMTT(60)

-----------------------------------------------------------------------------
(* The invariant of the chain.                                             *)

\* The keys of A are smaller than those of B.
Less(A, B) == \A a \in A, b \in B : a < b

\* The keys of a sequence of blocks.
KeysOf(s) == UNION { Keys(s[k]) : k \in 1 .. Len(s) }

\* Blocks that are not empty, in key order, in whose slots nothing is left but keys
\* that are stored.
InKeyOrder(s, stored) ==
    /\ s \in Seq(Blocks)
    /\ \A k \in 1 .. Len(s) : WellFormed(s[k]) /\ s[k].size > 0 /\ Tracked(s[k], stored)
    /\ \A j \in 1 .. Len(s) : \A i \in 1 .. j - 1 : Less(Keys(s[i]), Keys(s[j]))

\* The blocks hold the stored keys and no others.
Exactly(s, stored) == InKeyOrder(s, stored) /\ KeysOf(s) = stored

\* What insertIntoBlockWithSplit holds.
Work(k, batch, b, rightHalf, index, written) ==
    [active |-> TRUE, block |-> k, batch |-> batch, insertionBlock |-> b,
     rightHalf |-> rightHalf, lastInsertionIndex |-> index, written |-> written]

\* All blocks, between those before and those behind the block that is split.
Line(b, rightHalf, written, lo, hi) == (lo \o written) \o <<b>> \o (rightHalf \o hi)

\* What is known of the search hint when a full block has been split once: it has
\* moved on with every element that came into the left half, and if it is behind the
\* elements that the split has left, the next element goes to the right half.
HintAfterSplit(b, index, right, batch) ==
    /\ b.size >= MinSize
    /\ \/ b.size = MinSize
       \/ index >= b.size - MinSize - 1 /\ \A e \in Range(batch) : b.slots[index] < e
    /\ index >= b.size => \A e \in Range(batch) : right.head <= e

\* What is known of the search hint between two iterations of the loop of
\* insertIntoBlockWithSplit: a hint that is used is behind no element of the batch.
Hint(b, index, rightHalf, batch) ==
    /\ index \in Slots
    /\ index # 0 => \A i \in 0 .. index : \A e \in Range(batch) : b.slots[i] < e
    /\ rightHalf = <<>> => index < b.size
    /\ rightHalf # <<>> => HintAfterSplit(b, index, rightHalf[1], batch)

\* What holds before every iteration of the loop of insertIntoBlockWithSplit.
Splitting(batch, b, rightHalf, index, written, lo, hi, stored) ==
    LET line == Line(b, rightHalf, written, lo, hi)
    IN  /\ IsBatch(batch) /\ b \in Blocks /\ written \in Seq(Blocks)
        /\ rightHalf \in Seq(Blocks) /\ Len(rightHalf) <= 1
        /\ Exactly(line, KeysOf(line)) /\ stored = KeysOf(line) \cup Range(batch)
        /\ Less(KeysOf(lo \o written), Range(batch))
        /\ Less(Range(batch), KeysOf(hi))
        /\ Hint(b, index, rightHalf, batch)

\* The inductive invariant.
ChainInv ==
    /\ chain \in Seq(Blocks)
    /\ \/ work = Idle /\ Exactly(chain, keys)
       \/ /\ work.active
          /\ work = Work(work.block, work.batch, work.insertionBlock, work.rightHalf,
                         work.lastInsertionIndex, work.written)
          /\ work.block \in 1 .. Len(chain)
          /\ Splitting(work.batch, work.insertionBlock, work.rightHalf,
                       work.lastInsertionIndex, work.written,
                       SubSeq(chain, 1, work.block - 1),
                       SubSeq(chain, work.block + 1, Len(chain)), keys)

-----------------------------------------------------------------------------
(* Sequences of blocks.                                                    *)

\* The keys of two sequences of blocks, one behind the other.
LEMMA KeysOfTwo ==
    ASSUME NEW s \in Seq(Blocks), NEW t \in Seq(Blocks)
    PROVE  s \o t \in Seq(Blocks) /\ KeysOf(s \o t) = KeysOf(s) \cup KeysOf(t)
<1> DEFINE u == s \o t
<1>1. /\ u \in Seq(Blocks) /\ Len(u) = Len(s) + Len(t)
      /\ Len(s) \in Nat /\ Len(t) \in Nat
      /\ \A k \in 1 .. Len(s) : u[k] = s[k] /\ k \in 1 .. Len(u)
      /\ \A k \in 1 .. Len(t) : u[Len(s) + k] = t[k] /\ Len(s) + k \in 1 .. Len(u)
      /\ \A k \in 1 .. Len(u) : k \in 1 .. Len(s) \/ k - Len(s) \in 1 .. Len(t)
      /\ \A k \in 1 .. Len(u) : k - Len(s) \in 1 .. Len(t) => u[k] = t[k - Len(s)]
    OBVIOUS
<1> HIDE DEF u
<1>2. ASSUME NEW e \in KeysOf(u) PROVE e \in KeysOf(s) \cup KeysOf(t)
    <2>1. PICK k \in 1 .. Len(u) : e \in Keys(u[k])
        BY DEF KeysOf
    <2> QED
        BY <1>1, <2>1 DEF KeysOf
<1>3. ASSUME NEW e \in KeysOf(s) PROVE e \in KeysOf(u)
    <2>1. PICK k \in 1 .. Len(s) : e \in Keys(s[k])
        BY DEF KeysOf
    <2>2. e \in Keys(u[k]) /\ k \in 1 .. Len(u)
        BY <1>1, <2>1
    <2> QED
        BY <2>2 DEF KeysOf
<1>4. ASSUME NEW e \in KeysOf(t) PROVE e \in KeysOf(u)
    <2>1. PICK k \in 1 .. Len(t) : e \in Keys(t[k])
        BY DEF KeysOf
    <2>2. e \in Keys(u[Len(s) + k]) /\ Len(s) + k \in 1 .. Len(u)
        BY <1>1, <2>1
    <2> QED
        BY <2>2 DEF KeysOf
<1> QED
    BY <1>1, <1>2, <1>3, <1>4 DEF u

\* The keys of a single block.
LEMMA KeysOfOne ==
    ASSUME NEW b
    PROVE  KeysOf(<<b>>) = Keys(b)
<1>1. Len(<<b>>) = 1 /\ <<b>>[1] = b
    OBVIOUS
<1>2. \A k \in 1 .. 1 : k = 1
    OBVIOUS
<1> QED
    BY <1>1, <1>2, SMTT(60) DEF KeysOf

\* Two sequences of blocks in key order are in key order one behind the other if
\* and only if the keys of the first are below those of the second.
LEMMA InKeyOrderTwo ==
    ASSUME NEW s \in Seq(Blocks), NEW t \in Seq(Blocks), NEW stored
    PROVE  InKeyOrder(s \o t, stored)
           <=> /\ InKeyOrder(s, stored) /\ InKeyOrder(t, stored)
               /\ Less(KeysOf(s), KeysOf(t))
<1> DEFINE u == s \o t
<1>1. /\ u \in Seq(Blocks) /\ Len(u) = Len(s) + Len(t)
      /\ Len(s) \in Nat /\ Len(t) \in Nat
      /\ \A k \in 1 .. Len(s) : u[k] = s[k] /\ k \in 1 .. Len(u)
      /\ \A k \in 1 .. Len(t) : u[Len(s) + k] = t[k] /\ Len(s) + k \in 1 .. Len(u)
      /\ \A k \in 1 .. Len(u) : k \in 1 .. Len(s) \/ k - Len(s) \in 1 .. Len(t)
      /\ \A k \in 1 .. Len(u) : k - Len(s) \in 1 .. Len(t) => u[k] = t[k - Len(s)]
    OBVIOUS
<1> HIDE DEF u
<1>2. ASSUME InKeyOrder(u, stored) PROVE InKeyOrder(s, stored)
    <2>1. ASSUME NEW k \in 1 .. Len(s)
          PROVE  WellFormed(s[k]) /\ s[k].size > 0 /\ Tracked(s[k], stored)
        BY <1>1, <1>2 DEF InKeyOrder
    <2>2. ASSUME NEW j \in 1 .. Len(s), NEW i \in 1 .. j - 1
          PROVE  Less(Keys(s[i]), Keys(s[j]))
        <3>1. i \in 1 .. Len(s) /\ j \in 1 .. Len(u) /\ u[i] = s[i] /\ u[j] = s[j]
            BY <1>1, SMTT(60)
        <3>2. Less(Keys(u[i]), Keys(u[j]))
            BY <1>2, <3>1 DEF InKeyOrder
        <3> QED
            BY <3>1, <3>2
    <2> QED
        BY <2>1, <2>2 DEF InKeyOrder
<1>3. ASSUME InKeyOrder(u, stored) PROVE InKeyOrder(t, stored)
    <2>1. ASSUME NEW k \in 1 .. Len(t)
          PROVE  WellFormed(t[k]) /\ t[k].size > 0 /\ Tracked(t[k], stored)
        BY <1>1, <1>3 DEF InKeyOrder
    <2>2. ASSUME NEW j \in 1 .. Len(t), NEW i \in 1 .. j - 1
          PROVE  Less(Keys(t[i]), Keys(t[j]))
        <3>1. /\ i \in 1 .. Len(t) /\ Len(s) + j \in 1 .. Len(u)
              /\ Len(s) + i \in 1 .. (Len(s) + j) - 1
            BY <1>1, SMTT(60)
        <3>2. Less(Keys(u[Len(s) + i]), Keys(u[Len(s) + j]))
            BY <1>3, <3>1 DEF InKeyOrder
        <3> QED
            BY <1>1, <3>1, <3>2
    <2> QED
        BY <2>1, <2>2 DEF InKeyOrder
<1>4. ASSUME InKeyOrder(u, stored) PROVE Less(KeysOf(s), KeysOf(t))
    <2> SUFFICES ASSUME NEW a \in KeysOf(s), NEW b \in KeysOf(t) PROVE a < b
        BY DEF Less
    <2>1. PICK i \in 1 .. Len(s) : a \in Keys(s[i])
        BY DEF KeysOf
    <2>2. PICK j \in 1 .. Len(t) : b \in Keys(t[j])
        BY DEF KeysOf
    <2>3. Len(s) + j \in 1 .. Len(u) /\ i \in 1 .. (Len(s) + j) - 1
        BY <1>1, SMTT(60)
    <2>4. Less(Keys(u[i]), Keys(u[Len(s) + j]))
        BY <1>4, <2>3 DEF InKeyOrder
    <2>5. u[i] = s[i] /\ u[Len(s) + j] = t[j]
        BY <1>1
    <2> QED
        BY <2>1, <2>2, <2>4, <2>5 DEF Less
<1>5. ASSUME InKeyOrder(s, stored), InKeyOrder(t, stored), Less(KeysOf(s), KeysOf(t))
      PROVE  InKeyOrder(u, stored)
    <2>1. ASSUME NEW k \in 1 .. Len(u)
          PROVE  WellFormed(u[k]) /\ u[k].size > 0 /\ Tracked(u[k], stored)
        <3>1. CASE k \in 1 .. Len(s)
            BY <1>1, <1>5, <3>1 DEF InKeyOrder
        <3>2. CASE k - Len(s) \in 1 .. Len(t)
            BY <1>1, <1>5, <3>2 DEF InKeyOrder
        <3> QED
            BY <1>1, <3>1, <3>2
    <2>2. ASSUME NEW j \in 1 .. Len(u), NEW i \in 1 .. j - 1
          PROVE  Less(Keys(u[i]), Keys(u[j]))
        <3>1. i \in 1 .. Len(u)
            BY <1>1, SMTT(60)
        <3>2. CASE j \in 1 .. Len(s)
            <4>1. i \in 1 .. Len(s) /\ u[i] = s[i] /\ u[j] = s[j]
                BY <1>1, <3>2, SMTT(60)
            <4> QED
                BY <1>5, <3>2, <4>1 DEF InKeyOrder
        <3>3. CASE i - Len(s) \in 1 .. Len(t)
            <4>1. /\ j - Len(s) \in 1 .. Len(t) /\ i - Len(s) \in 1 .. (j - Len(s)) - 1
                  /\ u[i] = t[i - Len(s)] /\ u[j] = t[j - Len(s)]
                BY <1>1, <3>1, <3>3, SMTT(60)
            <4>2. Less(Keys(t[i - Len(s)]), Keys(t[j - Len(s)]))
                BY <1>5, <4>1 DEF InKeyOrder
            <4> QED
                BY <4>1, <4>2
        <3>4. CASE i \in 1 .. Len(s) /\ j - Len(s) \in 1 .. Len(t)
            <4>1. u[i] = s[i] /\ u[j] = t[j - Len(s)]
                BY <1>1, <3>4
            <4>2. Keys(u[i]) \subseteq KeysOf(s) /\ Keys(u[j]) \subseteq KeysOf(t)
                BY <3>4, <4>1 DEF KeysOf
            <4> QED
                BY <1>5, <4>2 DEF Less
        <3> QED
            BY <1>1, <3>1, <3>2, <3>3, <3>4
    <2> QED
        BY <1>1, <2>1, <2>2 DEF InKeyOrder
<1> QED
    BY <1>2, <1>3, <1>4, <1>5 DEF u

\* A single block is in key order if it is well-formed and not empty.
LEMMA InKeyOrderOne ==
    ASSUME NEW b, WellFormed(b), b.size > 0, NEW stored, Tracked(b, stored)
    PROVE  InKeyOrder(<<b>>, stored)
<1>1. Len(<<b>>) = 1 /\ <<b>>[1] = b /\ b \in Blocks
    BY DEF WellFormed
<1>2. <<b>> \in Seq(Blocks)
    BY <1>1
<1>3. \A k \in 1 .. 1 : k = 1
    OBVIOUS
<1>4. \A j \in 1 .. 1 : \A i \in 1 .. j - 1 : FALSE
    OBVIOUS
<1> QED
    BY <1>1, <1>2, <1>3, <1>4 DEF InKeyOrder

\* Nothing changes for the blocks when further keys come to be stored.
LEMMA InKeyOrderMore ==
    ASSUME NEW s, NEW stored, NEW more, InKeyOrder(s, stored), stored \subseteq more
    PROVE  InKeyOrder(s, more)
BY DEF InKeyOrder, Tracked

\* The same for three sequences.
LEMMA KeysOfThree ==
    ASSUME NEW lo \in Seq(Blocks), NEW s \in Seq(Blocks), NEW hi \in Seq(Blocks)
    PROVE  /\ lo \o s \o hi \in Seq(Blocks)
           /\ KeysOf(lo \o s \o hi) = KeysOf(lo) \cup KeysOf(s) \cup KeysOf(hi)
<1>1. lo \o s \in Seq(Blocks) /\ KeysOf(lo \o s) = KeysOf(lo) \cup KeysOf(s)
    BY KeysOfTwo
<1> QED
    BY <1>1, KeysOfTwo

\* Three sequences of blocks are in key order if each is and the keys of one are
\* smaller than those of the next.
LEMMA InKeyOrderThree ==
    ASSUME NEW lo \in Seq(Blocks), NEW s \in Seq(Blocks), NEW hi \in Seq(Blocks), NEW stored
    PROVE  InKeyOrder(lo \o s \o hi, stored)
           <=> /\ InKeyOrder(lo, stored) /\ InKeyOrder(s, stored) /\ InKeyOrder(hi, stored)
               /\ Less(KeysOf(lo), KeysOf(s)) /\ Less(KeysOf(s), KeysOf(hi))
               /\ Less(KeysOf(lo), KeysOf(hi))
<1>1. lo \o s \in Seq(Blocks) /\ KeysOf(lo \o s) = KeysOf(lo) \cup KeysOf(s)
    BY KeysOfTwo
<1>2. InKeyOrder(lo \o s \o hi, stored)
      <=> InKeyOrder(lo \o s, stored) /\ InKeyOrder(hi, stored) /\ Less(KeysOf(lo \o s), KeysOf(hi))
    BY <1>1, InKeyOrderTwo
<1>3. InKeyOrder(lo \o s, stored)
      <=> InKeyOrder(lo, stored) /\ InKeyOrder(s, stored) /\ Less(KeysOf(lo), KeysOf(s))
    BY InKeyOrderTwo
<1>4. Less(KeysOf(lo) \cup KeysOf(s), KeysOf(hi))
      <=> Less(KeysOf(lo), KeysOf(hi)) /\ Less(KeysOf(s), KeysOf(hi))
    BY DEF Less
<1> QED
    BY <1>1, <1>2, <1>3, <1>4

\* Blocks in the middle are replaced, while further keys come to be stored.
LEMMA Replaced ==
    ASSUME NEW lo \in Seq(Blocks), NEW s \in Seq(Blocks), NEW hi \in Seq(Blocks),
           NEW stored, InKeyOrder(lo \o s \o hi, stored),
           NEW more, stored \subseteq more, NEW t, InKeyOrder(t, more),
           Less(KeysOf(lo), KeysOf(t)), Less(KeysOf(t), KeysOf(hi))
    PROVE  InKeyOrder(lo \o t \o hi, more)
<1>1. t \in Seq(Blocks)
    BY DEF InKeyOrder
<1>2. InKeyOrder(lo, stored) /\ InKeyOrder(hi, stored) /\ Less(KeysOf(lo), KeysOf(hi))
    BY InKeyOrderThree
<1>3. InKeyOrder(lo, more) /\ InKeyOrder(hi, more)
    BY <1>2, InKeyOrderMore
<1> QED
    BY <1>1, <1>2, <1>3, InKeyOrderThree

\* A sequence of blocks consists of three parts.
Apart(s, lo, middle, hi) ==
    /\ lo \in Seq(Blocks) /\ middle \in Seq(Blocks) /\ hi \in Seq(Blocks)
    /\ s = lo \o middle \o hi

\* The ways in which the chain is taken apart and put together.
LEMMA TakenApart ==
    ASSUME NEW s \in Seq(Blocks), NEW k \in 1 .. Len(s)
    PROVE  /\ Apart(s, SubSeq(s, 1, k - 1), <<s[k]>>, SubSeq(s, k + 1, Len(s)))
           /\ \A b \in Blocks :
                 Apart(Put(s, k, b), SubSeq(s, 1, k - 1), <<b>>, SubSeq(s, k + 1, Len(s)))
<1> DEFINE lo == SubSeq(s, 1, k - 1)
           hi == SubSeq(s, k + 1, Len(s))
<1>1. /\ lo \in Seq(Blocks) /\ Len(lo) = k - 1
      /\ \A i \in 1 .. k - 1 : lo[i] = s[i]
    OBVIOUS
<1>2. /\ hi \in Seq(Blocks) /\ Len(hi) = Len(s) - k
      /\ \A i \in 1 .. Len(s) - k : hi[i] = s[k + i]
    OBVIOUS
<1> HIDE DEF lo, hi
<1>3. ASSUME NEW b \in Blocks
      PROVE  Put(s, k, b) = lo \o <<b>> \o hi
    <2> DEFINE r == lo \o <<b>>
    <2>1. /\ r \in Seq(Blocks) /\ Len(r) = k /\ r[k] = b
          /\ \A i \in 1 .. k - 1 : r[i] = s[i]
        BY <1>1
    <2> HIDE DEF r
    <2> DEFINE u == r \o hi
               v == Put(s, k, b)
    <2>2. /\ u \in Seq(Blocks) /\ Len(u) = Len(s)
          /\ \A i \in 1 .. Len(s) : u[i] = IF i <= k THEN r[i] ELSE hi[i - k]
        <3>0. r \in Seq(Blocks) /\ hi \in Seq(Blocks)
            BY <1>2, <2>1
        <3>1. /\ u \in Seq(Blocks) /\ Len(u) = Len(r) + Len(hi)
              /\ \A i \in 1 .. Len(r) + Len(hi) :
                    u[i] = IF i <= Len(r) THEN r[i] ELSE hi[i - Len(r)]
            BY <3>0, SMTT(60)
        <3>2. Len(r) = k /\ Len(r) + Len(hi) = Len(s)
            BY <1>2, <2>1
        <3> HIDE DEF u
        <3> QED
            BY <3>1, <3>2
    <2>3. v \in Seq(Blocks) /\ Len(v) = Len(s) /\ v[k] = b
          /\ \A i \in 1 .. Len(s) : i # k => v[i] = s[i]
        BY DEF Put
    <2> HIDE DEF u, v
    <2>4. ASSUME NEW i \in 1 .. Len(s) PROVE u[i] = v[i]
        <3>1. CASE i < k
            BY <2>1, <2>2, <2>3, <3>1, SMTT(60)
        <3>2. CASE i = k
            BY <2>1, <2>2, <2>3, <3>2, SMTT(60)
        <3>3. CASE i > k
            <4>1. i - k \in 1 .. Len(s) - k /\ k + (i - k) = i
                BY <3>3
            <4>2. hi[i - k] = s[i]
                BY <1>2, <4>1
            <4> QED
                BY <2>2, <2>3, <3>3, <4>2
        <3> QED
            BY <3>1, <3>2, <3>3
    <2>5. u = v
        BY <2>2, <2>3, <2>4
    <2> QED
        BY <2>5 DEF u, v, r
<1>4. s[k] \in Blocks /\ Put(s, k, s[k]) = s
    BY DEF Put
<1>5. s = lo \o <<s[k]>> \o hi
    BY <1>3, <1>4
<1>6. \A b \in Blocks : <<b>> \in Seq(Blocks)
    OBVIOUS
<1> QED
    BY <1>1, <1>2, <1>3, <1>4, <1>5, <1>6 DEF Apart, lo, hi

\* The same for two neighbours that are replaced.
LEMMA TwoTakenApart ==
    ASSUME NEW s \in Seq(Blocks), NEW k \in 1 .. Len(s) - 1
    PROVE  /\ Apart(s, SubSeq(s, 1, k - 1), <<s[k], s[k + 1]>>, SubSeq(s, k + 2, Len(s)))
           /\ \A a, b \in Blocks :
                 Apart(Put(Put(s, k, a), k + 1, b),
                       SubSeq(s, 1, k - 1), <<a, b>>, SubSeq(s, k + 2, Len(s)))
<1> DEFINE lo == SubSeq(s, 1, k - 1)
           hi == SubSeq(s, k + 2, Len(s))
<1>1. /\ lo \in Seq(Blocks) /\ Len(lo) = k - 1
      /\ \A i \in 1 .. k - 1 : lo[i] = s[i]
    OBVIOUS
<1>2. /\ hi \in Seq(Blocks) /\ Len(hi) = Len(s) - (k + 1)
      /\ \A i \in 1 .. Len(s) - (k + 1) : hi[i] = s[(k + 1) + i]
    OBVIOUS
<1> HIDE DEF lo, hi
<1>3. ASSUME NEW a \in Blocks, NEW b \in Blocks
      PROVE  Put(Put(s, k, a), k + 1, b) = lo \o <<a, b>> \o hi
    <2> DEFINE r == lo \o <<a, b>>
    <2>0. <<a, b>> \in Seq(Blocks) /\ Len(<<a, b>>) = 2 /\ <<a, b>>[1] = a /\ <<a, b>>[2] = b
        OBVIOUS
    <2>1. /\ r \in Seq(Blocks) /\ Len(r) = k + 1 /\ r[k] = a /\ r[k + 1] = b
          /\ \A i \in 1 .. k - 1 : r[i] = s[i]
        BY <1>1, <2>0, SMTT(60)
    <2> HIDE DEF r
    <2> DEFINE u == r \o hi
               v == Put(Put(s, k, a), k + 1, b)
    <2>2. /\ u \in Seq(Blocks) /\ Len(u) = Len(s)
          /\ \A i \in 1 .. Len(s) : u[i] = IF i <= k + 1 THEN r[i] ELSE hi[i - (k + 1)]
        <3>0. r \in Seq(Blocks) /\ hi \in Seq(Blocks)
            BY <1>2, <2>1
        <3>1. /\ u \in Seq(Blocks) /\ Len(u) = Len(r) + Len(hi)
              /\ \A i \in 1 .. Len(r) + Len(hi) :
                    u[i] = IF i <= Len(r) THEN r[i] ELSE hi[i - Len(r)]
            BY <3>0
        <3>2. Len(r) = k + 1 /\ Len(r) + Len(hi) = Len(s)
            BY <1>2, <2>1, SMTT(60)
        <3> HIDE DEF u
        <3> QED
            BY <3>1, <3>2
    <2>3. v \in Seq(Blocks) /\ Len(v) = Len(s) /\ v[k] = a /\ v[k + 1] = b
          /\ \A i \in 1 .. Len(s) : i # k /\ i # k + 1 => v[i] = s[i]
        BY DEF Put
    <2> HIDE DEF u, v
    <2>4. ASSUME NEW i \in 1 .. Len(s) PROVE u[i] = v[i]
        <3>1. CASE i < k
            <4>1. i <= k + 1 /\ i # k /\ i # k + 1 /\ i \in 1 .. k - 1
                BY <3>1
            <4> QED
                BY <2>1, <2>2, <2>3, <4>1
        <3>2. CASE i = k \/ i = k + 1
            BY <2>1, <2>2, <2>3, <3>2, SMTT(60)
        <3>3. CASE i > k + 1
            <4>1. i - (k + 1) \in 1 .. Len(s) - (k + 1) /\ (k + 1) + (i - (k + 1)) = i
                BY <3>3
            <4>2. hi[i - (k + 1)] = s[i]
                BY <1>2, <4>1
            <4>3. ~(i <= k + 1) /\ i # k /\ i # k + 1
                BY <3>3
            <4>4. u[i] = hi[i - (k + 1)]
                BY <2>2, <4>3
            <4>5. v[i] = s[i]
                BY <2>3, <4>3
            <4> QED
                BY <4>2, <4>4, <4>5
        <3> QED
            BY <3>1, <3>2, <3>3
    <2>5. u = v
        BY <2>2, <2>3, <2>4
    <2> QED
        BY <2>5 DEF u, v, r
<1>4. s[k] \in Blocks /\ s[k + 1] \in Blocks 
      /\ Put(Put(s, k, s[k]), k + 1, s[k + 1]) = s
    BY DEF Put
<1>5. s = lo \o <<s[k], s[k + 1]>> \o hi
    BY <1>3, <1>4
<1>6. \A a, b \in Blocks : <<a, b>> \in Seq(Blocks)
    OBVIOUS
<1> QED
    BY <1>1, <1>2, <1>3, <1>4, <1>5, <1>6 DEF Apart, lo, hi

\* The same for a block that is inserted behind block k.
LEMMA GapTakenApart ==
    ASSUME NEW s \in Seq(Blocks), NEW k \in 0 .. Len(s)
    PROVE  /\ Apart(s, SubSeq(s, 1, k), <<>>, SubSeq(s, k + 1, Len(s)))
           /\ \A b \in Blocks :
                 Apart(SubSeq(s, 1, k) \o <<b>> \o SubSeq(s, k + 1, Len(s)),
                       SubSeq(s, 1, k), <<b>>, SubSeq(s, k + 1, Len(s)))
<1> DEFINE lo == SubSeq(s, 1, k)
           hi == SubSeq(s, k + 1, Len(s))
<1>1. /\ lo \in Seq(Blocks) /\ Len(lo) = k
      /\ \A i \in 1 .. k : lo[i] = s[i]
    OBVIOUS
<1>2. /\ hi \in Seq(Blocks) /\ Len(hi) = Len(s) - k
      /\ \A i \in 1 .. Len(s) - k : hi[i] = s[k + i]
    OBVIOUS
<1> HIDE DEF lo, hi
<1>3. s = lo \o hi
    <2> DEFINE u == lo \o hi
    <2>0. lo \in Seq(Blocks) /\ hi \in Seq(Blocks)
        BY <1>1, <1>2
    <2>1. /\ u \in Seq(Blocks) /\ Len(u) = Len(lo) + Len(hi)
          /\ \A i \in 1 .. Len(lo) + Len(hi) :
                u[i] = IF i <= Len(lo) THEN lo[i] ELSE hi[i - Len(lo)]
        BY <2>0
    <2>2. Len(lo) = k /\ Len(lo) + Len(hi) = Len(s)
        BY <1>1, <1>2
    <2> HIDE DEF u
    <2>3. ASSUME NEW i \in 1 .. Len(s) PROVE u[i] = s[i]
        <3>1. CASE i <= k
            BY <1>1, <2>1, <2>2, <3>1
        <3>2. CASE i > k
            <4>1. i - k \in 1 .. Len(s) - k /\ k + (i - k) = i
                BY <3>2
            <4> QED
                BY <1>2, <2>1, <2>2, <3>2, <4>1, SMTT(60)
        <3> QED
            BY <3>1, <3>2
    <2>4. u = s
        BY <2>1, <2>2, <2>3
    <2> QED
        BY <2>4 DEF u
<1>5. lo \o <<>> = lo /\ <<>> \in Seq(Blocks) /\ \A b \in Blocks : <<b>> \in Seq(Blocks)
    BY <1>1
<1> QED
    BY <1>1, <1>2, <1>3, <1>5 DEF Apart, lo, hi

\* The head of a block is its first and smallest key, LastKey its largest.
LEMMA Ends ==
    ASSUME NEW b, WellFormed(b)
    PROVE  /\ Keys(b) \in SUBSET (Nat \ {0})
           /\ b.size > 0 <=> Keys(b) # {}
           /\ b.size > 0 => /\ b.head \in Keys(b) /\ \A e \in Keys(b) : b.head <= e
                            /\ LastKey(b) \in Keys(b) /\ \A e \in Keys(b) : e <= LastKey(b)
<1>1. /\ b.size \in Nat /\ b.size <= MaxSize /\ MaxSize \in Nat /\ b.slots \in [Slots -> Nat]
      /\ Increasing(b.slots, b.size)
      /\ b.size > 0 => b.head = b.slots[0]
    BY SizeAssumption DEF WellFormed, Blocks
<1> DEFINE n == b.size
<1>2. ASSUME NEW i \in 0 .. n - 1 PROVE b.slots[i] \in Nat \ {0}
    BY <1>1, SMTT(60) DEF Increasing, Slots
<1>3. ASSUME NEW i \in 0 .. n - 1
      PROVE  b.slots[0] <= b.slots[i] /\ b.slots[i] <= b.slots[n - 1]
    <2>1. 0 \in 0 .. n - 1 /\ n - 1 \in 0 .. n - 1
        BY <1>1
    <2>2. b.slots[0] \in Nat /\ b.slots[i] \in Nat /\ b.slots[n - 1] \in Nat
        BY <1>2, <2>1
    <2>3. i # 0 => b.slots[0] < b.slots[i]
        BY <1>1 DEF Increasing
    <2>4. i # n - 1 => b.slots[i] < b.slots[n - 1]
        BY <1>1 DEF Increasing
    <2> QED
        BY <2>2, <2>3, <2>4
<1>4. Keys(b) = { b.slots[i] : i \in 0 .. n - 1 }
    BY DEF Keys
<1>5. n > 0 => 0 \in 0 .. n - 1 /\ n - 1 \in 0 .. n - 1 /\ LastKey(b) = b.slots[n - 1]
    BY <1>1 DEF LastKey
<1>6. n = 0 => Keys(b) = {}
    BY <1>4
<1> QED
    BY <1>1, <1>2, <1>3, <1>4, <1>5, <1>6, SMTT(60)

\* What the block at a gap, or the heads of its neighbours, say of a key.
LEMMA Bounds ==
    ASSUME NEW s, NEW stored, InKeyOrder(s, stored), NEW e \in Nat
    PROVE  /\ \A k \in 0 .. Len(s) : k = 0 \/ LastKey(s[k]) < e =>
                 \A a \in KeysOf(SubSeq(s, 1, k)) : a < e
           /\ \A k \in 1 .. Len(s) : k = 1 \/ s[k].head <= e =>
                 \A a \in KeysOf(SubSeq(s, 1, k - 1)) : a < e
           /\ \A k \in 0 .. Len(s) : k = Len(s) \/ e < s[k + 1].head =>
                 \A a \in KeysOf(SubSeq(s, k + 1, Len(s))) : e < a
<1>1. /\ s \in Seq(Blocks) /\ Len(s) \in Nat
      /\ \A k \in 1 .. Len(s) : WellFormed(s[k]) /\ s[k].size > 0
      /\ \A j \in 1 .. Len(s) : \A i \in 1 .. j - 1 : Less(Keys(s[i]), Keys(s[j]))
    BY DEF InKeyOrder
<1>2. ASSUME NEW k \in 1 .. Len(s)
      PROVE  /\ \A a \in Keys(s[k]) : a \in Nat /\ s[k].head <= a /\ a <= LastKey(s[k])
             /\ s[k].head \in Keys(s[k]) /\ LastKey(s[k]) \in Keys(s[k])
             /\ s[k].head \in Nat /\ LastKey(s[k]) \in Nat
    <2>1. WellFormed(s[k]) /\ s[k].size > 0
        BY <1>1
    <2> QED
        BY <2>1, Ends
<1>3. ASSUME NEW k \in 0 .. Len(s), NEW a \in KeysOf(SubSeq(s, 1, k))
      PROVE  \E i \in 1 .. k : a \in Keys(s[i])
    <2>1. Len(SubSeq(s, 1, k)) = k /\ \A i \in 1 .. k : SubSeq(s, 1, k)[i] = s[i]
        BY <1>1
    <2> QED
        BY <2>1 DEF KeysOf
<1>4. ASSUME NEW k \in 0 .. Len(s), k = 0 \/ LastKey(s[k]) < e,
             NEW a \in KeysOf(SubSeq(s, 1, k))
      PROVE  a < e
    <2>1. PICK i \in 1 .. k : a \in Keys(s[i])
        BY <1>3
    <2>2. k \in 1 .. Len(s) /\ i \in 1 .. Len(s) /\ LastKey(s[k]) < e
        BY <1>1, <1>4
    <2>3. a \in Nat /\ LastKey(s[k]) \in Nat /\ LastKey(s[k]) \in Keys(s[k])
        BY <1>2, <2>1, <2>2
    <2>4. a <= LastKey(s[k])
        <3>1. CASE i = k
            BY <1>2, <2>1, <2>2, <3>1
        <3>2. CASE i \in 1 .. k - 1
            <4>1. Less(Keys(s[i]), Keys(s[k]))
                BY <1>1, <2>2, <3>2
            <4> QED
                BY <2>1, <2>3, <4>1 DEF Less
        <3> QED
            BY <2>2, <3>1, <3>2
    <2> QED
        BY <2>2, <2>3, <2>4
<1>5. ASSUME NEW k \in 1 .. Len(s), k = 1 \/ s[k].head <= e,
             NEW a \in KeysOf(SubSeq(s, 1, k - 1))
      PROVE  a < e
    <2>0. k - 1 \in 0 .. Len(s)
        BY <1>1
    <2>1. PICK i \in 1 .. k - 1 : a \in Keys(s[i])
        BY <1>3, <2>0
    <2>2. s[k].head <= e /\ i \in 1 .. Len(s)
        BY <1>1, <1>5
    <2>3. a \in Nat /\ s[k].head \in Nat /\ s[k].head \in Keys(s[k])
        BY <1>2, <2>1, <2>2
    <2>4. Less(Keys(s[i]), Keys(s[k]))
        BY <1>1
    <2>5. a < s[k].head
        BY <2>1, <2>3, <2>4 DEF Less
    <2> QED
        BY <2>2, <2>3, <2>5
<1>6. ASSUME NEW k \in 0 .. Len(s), k = Len(s) \/ e < s[k + 1].head,
             NEW a \in KeysOf(SubSeq(s, k + 1, Len(s)))
      PROVE  e < a
    <2> DEFINE hi == SubSeq(s, k + 1, Len(s))
    <2>1. Len(hi) = Len(s) - k /\ \A i \in 1 .. Len(s) - k : hi[i] = s[k + i]
        BY <1>1
    <2> HIDE DEF hi
    <2>2. PICK i \in 1 .. Len(s) - k : a \in Keys(s[k + i])
        BY <2>1 DEF KeysOf, hi
    <2>3. /\ k + 1 \in 1 .. Len(s) /\ k + i \in 1 .. Len(s) /\ e < s[k + 1].head
          /\ k + i = k + 1 \/ k + 1 \in 1 .. (k + i) - 1
        BY <1>1, <1>6
    <2>4. a \in Nat /\ s[k + 1].head \in Nat /\ s[k + 1].head \in Keys(s[k + 1])
        BY <1>2, <2>2, <2>3
    <2>5. s[k + 1].head <= a
        <3>1. CASE k + i = k + 1
            BY <1>2, <2>2, <2>3, <3>1
        <3>2. CASE k + 1 \in 1 .. (k + i) - 1
            <4>1. Less(Keys(s[k + 1]), Keys(s[k + i]))
                BY <1>1, <2>3, <3>2
            <4>2. s[k + 1].head < a
                BY <2>2, <2>4, <4>1 DEF Less
            <4> QED
                BY <2>4, <4>2
        <3> QED
            BY <2>3, <3>1, <3>2
    <2> QED
        BY <2>3, <2>4, <2>5, SMTT(60)
<1> QED
    BY <1>4, <1>5, <1>6

\* A part of a batch merged into a block.
Filled(r, b, part, stored) ==
    WellFormed(r) /\ Keys(r) = Keys(b) \cup part /\ Tracked(r, stored \cup part)

\* A part of a batch is a batch of keys of the set.
LEMMA PartOfBatch ==
    ASSUME NEW part \in Batches
    PROVE  /\ IsBatch(part) /\ Taken(part, Len(part)) = Range(part)
           /\ Range(part) \subseteq Universe /\ Range(part) \subseteq Nat \ {0}
           /\ part # <<>> => Range(part) # {}
<1>1. PICK n \in Nat : /\ part \in [1 .. n -> Universe]
                       /\ \A j \in 1 .. n : \A i \in 1 .. j - 1 : part[i] < part[j]
    BY SMTT(60) DEF Batches
<1>2. part \in Seq(Universe) /\ Len(part) = n /\ DOMAIN part = 1 .. n
    BY <1>1
<1>3. Range(part) = { part[i] : i \in 1 .. n }
    BY <1>2 DEF Range
<1>4. Range(part) \subseteq Universe /\ Universe \subseteq Nat \ {0}
    BY <1>1, <1>3, ChainAssumption
<1>5. IsBatch(part)
    <2>1. \A i \in 1 .. n : part[i] \in Nat \ {0}
        BY <1>3, <1>4
    <2>2. part \in [1 .. n -> Nat \ {0}]
        BY <1>1, <2>1
    <2>3. part \in Seq(Nat \ {0})
        BY <2>2
    <2> QED
        BY <1>1, <1>2, <2>3 DEF IsBatch
<1>6. ASSUME part # <<>> PROVE Range(part) # {}
    <2>1. n # 0
        BY <1>2, <1>6
    <2>2. 1 \in 1 .. n
        BY <2>1
    <2> QED
        BY <1>3, <2>2
<1> QED
    BY <1>2, <1>3, <1>4, <1>5, <1>6 DEF Taken

\* merge and mergeFaster fill a block with a part of the batch that its range of
\* keys contains, if there is room for it.
LEMMA PartMerged ==
    ASSUME NEW b, WellFormed(b), NEW stored, Tracked(b, stored),
           NEW q \in Batches, b.size + Len(q) <= MaxSize, Range(q) \cap stored \subseteq Keys(b)
    PROVE  /\ Filled(merge(b, q), b, Range(q), stored)
           /\ Filled(mergeFaster(b, q), b, Range(q), stored)
<1>2. PICK part : part = Range(q)
    OBVIOUS
<1>3. IsBatch(q) /\ Taken(q, Len(q)) = part
    BY <1>2, PartOfBatch
<1>4. \A j \in 1 .. Len(q) : q[j] \in part
    BY <1>3 DEF Taken
<1>5. b.size \in Nat
    BY SMTT(60) DEF WellFormed, Blocks
<1>6. MayMerge(b, q, stored)
    BY <1>2, <1>3, <1>4, <1>5 DEF MayMerge
<1>7. Filled(merge(b, q), b, part, stored)
    <2>1. PICK r : r = merge(b, q)
        OBVIOUS
    <2>2. /\ WellFormed(r) /\ Keys(r) = Keys(b) \cup Taken(q, Len(q))
          /\ Tracked(r, stored \cup Taken(q, Len(q)))
        BY <1>6, <2>1, MergeExact
    <2> QED
        BY <1>3, <2>1, <2>2 DEF Filled
<1>8. Filled(mergeFaster(b, q), b, part, stored)
    <2>1. PICK r : r = mergeFaster(b, q)
        OBVIOUS
    <2>2. /\ WellFormed(r) /\ Keys(r) = Keys(b) \cup Taken(q, Len(q))
          /\ Tracked(r, stored \cup Taken(q, Len(q)))
        BY <1>6, <2>1, MergeFasterExact
    <2> QED
        BY <1>3, <2>1, <2>2 DEF Filled
<1> QED
    BY <1>2, <1>7, <1>8

\* A filled block between its neighbours.
LEMMA FilledInPlace ==
    ASSUME NEW s, NEW lo, NEW m, NEW hi, Apart(s, lo, m, hi), NEW stored, Exactly(s, stored),
           NEW b, Keys(b) = KeysOf(m), NEW part, part # {}, NEW r, Filled(r, b, part, stored),
           Less(KeysOf(lo), part), Less(part, KeysOf(hi)), NEW t, Apart(t, lo, <<r>>, hi)
    PROVE  Exactly(t, stored \cup part)
<1>1. WellFormed(r) /\ Keys(r) = Keys(b) \cup part /\ Tracked(r, stored \cup part)
    BY DEF Filled
<1>2. r.size > 0
    BY <1>1, Ends
<1>3. PICK u : u = <<r>>
    OBVIOUS
<1>4. /\ lo \in Seq(Blocks) /\ m \in Seq(Blocks) /\ hi \in Seq(Blocks) /\ u \in Seq(Blocks)
      /\ s = lo \o m \o hi /\ t = lo \o u \o hi
    BY <1>3 DEF Apart
<1>5. InKeyOrder(s, stored) /\ KeysOf(s) = stored
    BY DEF Exactly
<1>6. InKeyOrder(u, stored \cup part)
    BY <1>1, <1>2, <1>3, InKeyOrderOne
<1>7. KeysOf(u) = KeysOf(m) \cup part
    BY <1>1, <1>3, KeysOfOne
<1>8. Less(KeysOf(lo), KeysOf(m)) /\ Less(KeysOf(m), KeysOf(hi))
    BY <1>4, <1>5, InKeyOrderThree
<1>9. Less(KeysOf(lo), KeysOf(u)) /\ Less(KeysOf(u), KeysOf(hi))
    BY <1>7, <1>8 DEF Less
<1>10. InKeyOrder(t, stored \cup part)
    <2>1. stored \subseteq stored \cup part
        OBVIOUS
    <2> QED
        BY <1>4, <1>5, <1>6, <1>9, <2>1, Replaced
<1>11. KeysOf(t) = KeysOf(lo) \cup KeysOf(u) \cup KeysOf(hi)
    BY <1>4, KeysOfThree, SMTT(60)
<1>12. KeysOf(s) = KeysOf(lo) \cup KeysOf(m) \cup KeysOf(hi)
    BY <1>4, KeysOfThree, SMTT(60)
<1>13. KeysOf(t) = stored \cup part
    BY <1>5, <1>7, <1>11, <1>12
<1> QED
    BY <1>10, <1>13 DEF Exactly

-----------------------------------------------------------------------------
(* The steps of the array, while no block is split.                        *)

\* What the invariant says outside of insertIntoBlockWithSplit.
LEMMA WhileIdle ==
    ASSUME ChainInv, ~work.active
    PROVE  /\ work = Idle /\ chain \in Seq(Blocks) /\ Exactly(chain, keys)
           /\ InKeyOrder(chain, keys) /\ keys = KeysOf(chain)
BY DEF ChainInv, Exactly

\* The block that the constructor makes.
LEMMA NewBlockIs == /\ WellFormed(newBlock) /\ newBlock.size = 0 /\ Keys(newBlock) = {}
                    /\ Tracked(newBlock, {})
<1>1. MaxSize \in Nat /\ newBlock = [slots |-> [i \in Slots |-> 0], size |-> 0, head |-> 0]
    BY SizeAssumption DEF newBlock
<1> QED
    BY <1>1 DEF WellFormed, Blocks, Increasing, Keys, Tracked

\* A new block between two blocks keeps the invariant: its keys lie in the gap.
LEMMA NewBlockStep ==
    ASSUME ChainInv, NEW k \in 0 .. Len(chain), NEW q \in Batches,
           insertNewBlock(k, q)
    PROVE  ChainInv'
<1>1. /\ work = Idle /\ chain \in Seq(Blocks) /\ Exactly(chain, keys)
      /\ InKeyOrder(chain, keys) /\ keys = KeysOf(chain)
    BY WhileIdle DEF insertNewBlock
<1>2. PICK lo, hi, part : /\ lo = SubSeq(chain, 1, k) /\ hi = SubSeq(chain, k + 1, Len(chain))
                          /\ part = Range(q)
    OBVIOUS
<1>3. /\ Apart(chain, lo, <<>>, hi)
      /\ \A b \in Blocks : Apart(lo \o <<b>> \o hi, lo, <<b>>, hi)
    BY <1>1, <1>2, GapTakenApart
<1>4. Less(KeysOf(lo), part) /\ Less(part, KeysOf(hi))
    <2>1. ASSUME NEW e \in part
          PROVE  /\ e \in Nat
                 /\ k = 0 \/ LastKey(chain[k]) < e
                 /\ k = Len(chain) \/ e < chain[k + 1].head
        BY <1>2, ChainAssumption DEF insertNewBlock, Gap
    <2>2. ASSUME NEW e \in part
          PROVE  (\A a \in KeysOf(lo) : a < e) /\ (\A a \in KeysOf(hi) : e < a)
        BY <1>1, <1>2, <2>1, Bounds
    <2> QED
        BY <2>2 DEF Less
<1>5. Len(q) \in 1 .. MaxSize /\ part # {}
    <2>1. Len(q) \in 1 .. MaxSize
        BY DEF insertNewBlock
    <2>2. q # <<>>
        BY <2>1
    <2> QED
        BY <1>2, <2>1, <2>2, PartOfBatch
<1>6. PICK r : r \in { merge(newBlock, q), mergeFaster(newBlock, q) }
               /\ chain' = lo \o <<r>> \o hi
    BY <1>2 DEF insertNewBlock
<1>7. Filled(r, newBlock, part, keys)
    <2>1. newBlock.size + Len(q) <= MaxSize /\ part \cap {} \subseteq Keys(newBlock)
        BY <1>5, NewBlockIs, SizeAssumption
    <2>2. Filled(r, newBlock, part, {})
        BY <1>2, <1>6, <2>1, NewBlockIs, PartMerged
    <2> QED
        BY <2>2 DEF Filled, Tracked
<1>8. Exactly(chain', keys \cup part)
    <2>1. Apart(chain', lo, <<r>>, hi)
        <3>1. r \in Blocks
            BY <1>7 DEF Filled, WellFormed
        <3> QED
            BY <1>3, <1>6, <3>1
    <2>2. Keys(newBlock) = KeysOf(<<>>)
        BY NewBlockIs, SMTT(60) DEF KeysOf
    <2> QED
        BY <1>1, <1>3, <1>4, <1>5, <1>7, <2>1, <2>2, FilledInPlace
<1>9. keys' = keys \cup part /\ work' = Idle
    BY <1>1, <1>2 DEF insertNewBlock
<1> QED
    BY <1>8, <1>9 DEF ChainInv, Exactly, InKeyOrder

\* What the searches of the array say of the keys that they send to block k: they are
\* above the keys of the blocks before it and below those of the blocks behind it,
LEMMA SentToBlock ==
    ASSUME Exactly(chain, keys), NEW k \in 1 .. Len(chain),
           NEW part \in SUBSET Universe, part \subseteq KeyRange(k)
    PROVE  /\ Less(KeysOf(SubSeq(chain, 1, k - 1)), part)
           /\ Less(part, KeysOf(SubSeq(chain, k + 1, Len(chain))))
           /\ WellFormed(chain[k]) /\ chain[k].size > 0 /\ Tracked(chain[k], keys)
<1>1. InKeyOrder(chain, keys)
    BY DEF Exactly
<1>2. ASSUME NEW e \in part
      PROVE  /\ e \in Nat
             /\ k = 1 \/ chain[k].head <= e
             /\ k = Len(chain) \/ e < chain[k + 1].head
    BY ChainAssumption DEF KeyRange
<1>3. k \in 0 .. Len(chain)
    OBVIOUS
<1>4. ASSUME NEW e \in part
      PROVE  /\ \A a \in KeysOf(SubSeq(chain, 1, k - 1)) : a < e
             /\ \A a \in KeysOf(SubSeq(chain, k + 1, Len(chain))) : e < a
    BY <1>1, <1>2, <1>3, Bounds
<1>5. WellFormed(chain[k]) /\ chain[k].size > 0 /\ Tracked(chain[k], keys)
    BY <1>1 DEF InKeyOrder
<1> QED
    BY <1>4, <1>5 DEF Less

\* so that those that are stored are stored there.
LEMMA StoredThere ==
    ASSUME NEW s, NEW lo, NEW m, NEW hi, Apart(s, lo, m, hi), NEW part \in SUBSET Nat,
           Less(KeysOf(lo), part), Less(part, KeysOf(hi))
    PROVE  part \cap KeysOf(s) \subseteq KeysOf(m)
<1>1. lo \in Seq(Blocks) /\ m \in Seq(Blocks) /\ hi \in Seq(Blocks) /\ s = lo \o m \o hi
    BY DEF Apart
<1>2. KeysOf(s) = KeysOf(lo) \cup KeysOf(m) \cup KeysOf(hi)
    BY <1>1, KeysOfThree, SMTT(60)
<1>3. ASSUME NEW e \in part PROVE e \notin KeysOf(lo) /\ e \notin KeysOf(hi)
    <2>1. e \in Nat
        OBVIOUS
    <2>2. ~(e < e)
        BY <2>1
    <2> QED
        BY <2>2 DEF Less
<1> QED
    BY <1>2, <1>3

\* insertIntoBlockWithoutSplit keeps the invariant, with either merge.
LEMMA WithoutSplitStep ==
    ASSUME ChainInv, NEW k \in 1 .. Len(chain), NEW q \in Batches,
           insertIntoBlockWithoutSplit(k, q)
    PROVE  ChainInv'
<1>1. work = Idle /\ chain \in Seq(Blocks) /\ Exactly(chain, keys)
    BY WhileIdle DEF insertIntoBlockWithoutSplit
<1>2. PICK b, lo, hi, part : /\ b = chain[k] /\ lo = SubSeq(chain, 1, k - 1)
                             /\ hi = SubSeq(chain, k + 1, Len(chain)) /\ part = Range(q)
    OBVIOUS
<1>3. /\ Apart(chain, lo, <<b>>, hi)
      /\ \A r \in Blocks : Apart(Put(chain, k, r), lo, <<r>>, hi)
    BY <1>1, <1>2, TakenApart
<1>4. part # {} /\ part \subseteq KeyRange(k) /\ b.size + Len(q) <= MaxSize
    BY <1>2, PartOfBatch DEF insertIntoBlockWithoutSplit
<1>5. /\ Less(KeysOf(lo), part) /\ Less(part, KeysOf(hi))
      /\ WellFormed(b) /\ Tracked(b, keys)
    <2>1. part \in SUBSET Universe
        BY <1>2, PartOfBatch
    <2> QED
        BY <1>1, <1>2, <1>4, <2>1, SentToBlock
<1>10. part \cap keys \subseteq Keys(b)
    <2>1. part \cap KeysOf(chain) \subseteq KeysOf(<<b>>)
        <3>1. part \in SUBSET Nat
            BY <1>2, PartOfBatch
        <3> QED
            BY <1>3, <1>5, <3>1, StoredThere
    <2> QED
        BY <1>1, <2>1, KeysOfOne DEF Exactly
<1>6. PICK r : /\ r \in { merge(b, q), mergeFaster(b, q) }
               /\ chain' = Put(chain, k, r)
    BY <1>2 DEF insertIntoBlockWithoutSplit, Put
<1>7. Filled(r, b, part, keys)
    BY <1>2, <1>4, <1>5, <1>6, <1>10, PartMerged
<1>8. Exactly(chain', keys \cup part)
    <2>1. Apart(chain', lo, <<r>>, hi)
        <3>1. r \in Blocks
            BY <1>7 DEF Filled, WellFormed
        <3> QED
            BY <1>3, <1>6, <3>1
    <2>2. Keys(b) = KeysOf(<<b>>)
        BY KeysOfOne
    <2> QED
        BY <1>1, <1>3, <1>4, <1>5, <1>7, <2>1, <2>2, FilledInPlace
<1>9. keys' = keys \cup part /\ work' = Idle
    BY <1>1, <1>2 DEF insertIntoBlockWithoutSplit
<1> QED
    BY <1>8, <1>9 DEF ChainInv, Exactly, InKeyOrder

\* Blocks in the middle are replaced by others with the same keys.
LEMMA SameKeys ==
    ASSUME NEW s, NEW lo, NEW m, NEW hi, Apart(s, lo, m, hi), NEW stored, Exactly(s, stored),
           NEW n, InKeyOrder(n, stored), KeysOf(n) = KeysOf(m), NEW t, Apart(t, lo, n, hi)
    PROVE  Exactly(t, stored)
<1>1. /\ lo \in Seq(Blocks) /\ m \in Seq(Blocks) /\ hi \in Seq(Blocks) /\ n \in Seq(Blocks)
      /\ s = lo \o m \o hi /\ t = lo \o n \o hi
    BY DEF Apart
<1>2. InKeyOrder(s, stored) /\ KeysOf(s) = stored
    BY DEF Exactly
<1>3. Less(KeysOf(lo), KeysOf(m)) /\ Less(KeysOf(m), KeysOf(hi))
    BY <1>1, <1>2, InKeyOrderThree
<1>4. InKeyOrder(t, stored)
    BY <1>1, <1>2, <1>3, Replaced
<1>5. KeysOf(t) = KeysOf(lo) \cup KeysOf(n) \cup KeysOf(hi)
    BY <1>1, KeysOfThree, SMTT(60)
<1>6. KeysOf(s) = KeysOf(lo) \cup KeysOf(m) \cup KeysOf(hi)
    BY <1>1, KeysOfThree, SMTT(60)
<1> QED
    BY <1>2, <1>4, <1>5, <1>6 DEF Exactly

\* Two neighbours.
LEMMA Pair ==
    ASSUME NEW a \in Blocks, NEW b \in Blocks
    PROVE  /\ KeysOf(<<a, b>>) = Keys(a) \cup Keys(b)
           /\ \A stored : InKeyOrder(<<a, b>>, stored)
                 <=> /\ WellFormed(a) /\ a.size > 0 /\ Tracked(a, stored)
                     /\ WellFormed(b) /\ b.size > 0 /\ Tracked(b, stored)
                     /\ Less(Keys(a), Keys(b))
<1>1. Len(<<a, b>>) = 2 /\ <<a, b>>[1] = a /\ <<a, b>>[2] = b /\ <<a, b>> \in Seq(Blocks)
    OBVIOUS
<1> DEFINE s == <<a, b>>
<1>2. 1 .. Len(s) = {1, 2}
    BY <1>1
<1>3. /\ \A i \in 1 .. 1 - 1 : FALSE
      /\ \A i \in 1 .. 2 - 1 : i = 1
      /\ 1 \in 1 .. 2 - 1
    OBVIOUS
<1> HIDE DEF s
<1>4. s[1] = a /\ s[2] = b /\ s \in Seq(Blocks)
    BY <1>1 DEF s
<1>5. KeysOf(s) = Keys(a) \cup Keys(b)
    BY <1>2, <1>4 DEF KeysOf
<1>6. ASSUME NEW stored
      PROVE  InKeyOrder(s, stored)
             <=> /\ WellFormed(a) /\ a.size > 0 /\ Tracked(a, stored)
                 /\ WellFormed(b) /\ b.size > 0 /\ Tracked(b, stored)
                 /\ Less(Keys(a), Keys(b))
    BY <1>2, <1>3, <1>4 DEF InKeyOrder
<1> QED
    BY <1>5, <1>6 DEF s

\* postprocessInverseMergeTasks keeps the invariant, whether the neighbours become
\* one block or one takes elements of the other.
LEMMA MergeNeighboursStep ==
    ASSUME ChainInv, NEW k \in 1 .. Len(chain) - 1, mergeNeighbours(k)
    PROVE  ChainInv'
<1>1. work = Idle /\ chain \in Seq(Blocks) /\ Exactly(chain, keys)
    BY WhileIdle DEF mergeNeighbours
<1>2. PICK a, b, lo, hi : /\ a = chain[k] /\ b = chain[k + 1]
                          /\ lo = SubSeq(chain, 1, k - 1)
                          /\ hi = SubSeq(chain, k + 2, Len(chain))
    OBVIOUS
<1>3. /\ Apart(chain, lo, <<a, b>>, hi)
      /\ \A x, y \in Blocks : Apart(Put(Put(chain, k, x), k + 1, y), lo, <<x, y>>, hi)
    BY <1>1, <1>2, TwoTakenApart
<1>4. /\ WellFormed(a) /\ a.size > 0 /\ Tracked(a, keys)
      /\ WellFormed(b) /\ b.size > 0 /\ Tracked(b, keys)
      /\ Less(Keys(a), Keys(b))
    <2>1. k \in 1 .. Len(chain) /\ k + 1 \in 1 .. Len(chain) /\ k \in 1 .. (k + 1) - 1
        BY <1>1
    <2> QED
        BY <1>1, <1>2, <2>1 DEF Exactly, InKeyOrder
<1>5. /\ a \in Blocks /\ b \in Blocks /\ a.size \in Nat /\ b.size \in Nat
      /\ MinSize \in Nat /\ MaxSize \in Nat /\ MaxSize = 2 * MinSize
    BY <1>4, SizeAssumption, SMTT(60) DEF WellFormed, Blocks
<1>6. KeysOf(<<a, b>>) = Keys(a) \cup Keys(b)
    BY <1>5, Pair
<1>7. a.size < MinSize \/ b.size < MinSize
    BY <1>2 DEF mergeNeighbours
<1>8. Exactly(chain', keys)
    <2>1. CASE a.size + b.size < MaxSize
        <3>1. PICK r : r = mergeSmaller(b, a)
            OBVIOUS
        <3>2. /\ WellFormed(r) /\ r.size = b.size + a.size /\ Keys(r) = Keys(b) \cup Keys(a)
              /\ Tracked(r, keys)
            <4>1. b.size + a.size <= MaxSize /\ \A x \in Keys(a), y \in Keys(b) : x < y
                BY <1>4, <1>5, <2>1 DEF Less
            <4> QED
                BY <1>4, <3>1, <4>1, MergeSmallerExact
        <3>3. chain' = lo \o <<r>> \o hi
            BY <1>2, <2>1, <3>1 DEF mergeNeighbours
        <3>4. Apart(chain', lo, <<r>>, hi)
            <4>1. lo \in Seq(Blocks) /\ hi \in Seq(Blocks)
                BY <1>3 DEF Apart
            <4>2. <<r>> \in Seq(Blocks)
                BY <3>2 DEF WellFormed
            <4> QED
                BY <3>3, <4>1, <4>2 DEF Apart
        <3>5. InKeyOrder(<<r>>, keys)
            BY <1>4, <1>5, <3>2, InKeyOrderOne
        <3>6. KeysOf(<<r>>) = KeysOf(<<a, b>>)
            BY <1>6, <3>2, KeysOfOne
        <3> QED
            BY <1>1, <1>3, <3>4, <3>5, <3>6, SameKeys
    <2>2. ASSUME NEW x, NEW y, WellFormed(x), WellFormed(y), x.size > 0, y.size > 0,
                 Tracked(x, keys), Tracked(y, keys), Less(Keys(x), Keys(y)),
                 Keys(x) \cup Keys(y) = Keys(a) \cup Keys(b),
                 chain' = Put(Put(chain, k, x), k + 1, y)
          PROVE  Exactly(chain', keys)
        <3>1. x \in Blocks /\ y \in Blocks
            BY <2>2 DEF WellFormed
        <3>2. Apart(chain', lo, <<x, y>>, hi)
            BY <1>3, <2>2, <3>1
        <3>3. InKeyOrder(<<x, y>>, keys) /\ KeysOf(<<x, y>>) = KeysOf(<<a, b>>)
            BY <1>6, <2>2, <3>1, Pair
        <3> QED
            BY <1>1, <1>3, <3>2, <3>3, SameKeys
    <2>3. CASE ~(a.size + b.size < MaxSize) /\ a.size < MinSize
        <3>1. PICK r : r = steal(a, b)
            OBVIOUS
        <3>2. /\ WellFormed(r.this) /\ WellFormed(r.right)
              /\ r.this.size = MinSize /\ r.right.size >= MinSize
              /\ Keys(r.this) \cup Keys(r.right) = Keys(a) \cup Keys(b)
              /\ \A x \in Keys(r.this), y \in Keys(r.right) : x < y
              /\ Tracked(r.this, keys) /\ Tracked(r.right, keys)
            <4>1. a.size + b.size >= MaxSize /\ \A x \in Keys(a), y \in Keys(b) : x < y
                BY <1>4, <1>5, <2>3, SMTT(60) DEF Less
            <4> QED
                BY <1>4, <2>3, <3>1, <4>1, StealExact
        <3>3. chain' = Put(Put(chain, k, r.this), k + 1, r.right)
            BY <1>2, <2>3, <3>1 DEF mergeNeighbours, Put
        <3>4. r.this.size > 0 /\ r.right.size > 0
            <4>1. r.right.size \in Nat
                BY <3>2, SMTT(60) DEF WellFormed, Blocks
            <4> QED
                BY <3>2, <4>1, SizeAssumption, SMTT(60)
        <3> QED
            BY <2>2, <3>2, <3>3, <3>4 DEF Less
    <2>4. CASE ~(a.size + b.size < MaxSize) /\ ~(a.size < MinSize)
        <3>1. PICK r : r = stealFromSmaller(b, a)
            OBVIOUS
        <3>2. /\ WellFormed(r.this) /\ WellFormed(r.left)
              /\ r.this.size = MinSize /\ r.left.size >= MinSize
              /\ Keys(r.left) \cup Keys(r.this) = Keys(a) \cup Keys(b)
              /\ \A x \in Keys(r.left), y \in Keys(r.this) : x < y
              /\ Tracked(r.this, keys) /\ Tracked(r.left, keys)
            <4>1. /\ b.size < MinSize /\ b.size + a.size >= MaxSize
                  /\ \A x \in Keys(a), y \in Keys(b) : x < y
                BY <1>4, <1>5, <1>7, <2>4, SMTT(60) DEF Less
            <4> QED
                BY <1>4, <3>1, <4>1, StealFromSmallerExact
        <3>3. chain' = Put(Put(chain, k, r.left), k + 1, r.this)
            BY <1>2, <2>4, <3>1 DEF mergeNeighbours, Put
        <3>4. r.this.size > 0 /\ r.left.size > 0
            <4>1. r.left.size \in Nat
                BY <3>2, SMTT(60) DEF WellFormed, Blocks
            <4> QED
                BY <3>2, <4>1, SizeAssumption, SMTT(60)
        <3> QED
            BY <2>2, <3>2, <3>3, <3>4 DEF Less
    <2> QED
        BY <2>1, <2>3, <2>4
<1>9. keys' = keys /\ work' = Idle
    BY <1>1 DEF mergeNeighbours
<1> QED
    BY <1>8, <1>9 DEF ChainInv, Exactly, InKeyOrder

-----------------------------------------------------------------------------
(* insertIntoBlockWithSplit.                                               *)

\* Concatenation is associative.
Joined(s, t, u) == (s \o t) \o u = s \o (t \o u)

\* Concatenation of sequences of blocks is associative.
LEMMA Associative ==
    \A s, t, u \in Seq(Blocks) : Joined(s, t, u)
<1> SUFFICES ASSUME NEW s \in Seq(Blocks), NEW t \in Seq(Blocks), NEW u \in Seq(Blocks)
             PROVE  Joined(s, t, u)
    OBVIOUS
<1>1. PICK st, tu, v, w : st = s \o t /\ tu = t \o u /\ v = st \o u /\ w = s \o tu
    OBVIOUS
<1>2. /\ st \in Seq(Blocks) /\ Len(st) = Len(s) + Len(t)
      /\ \A i \in 1 .. Len(s) + Len(t) : st[i] = IF i <= Len(s) THEN s[i] ELSE t[i - Len(s)]
    BY <1>1
<1>3. /\ tu \in Seq(Blocks) /\ Len(tu) = Len(t) + Len(u)
      /\ \A i \in 1 .. Len(t) + Len(u) : tu[i] = IF i <= Len(t) THEN t[i] ELSE u[i - Len(t)]
    BY <1>1
<1>4. /\ v \in Seq(Blocks) /\ Len(v) = Len(s) + Len(t) + Len(u)
      /\ \A i \in 1 .. Len(s) + Len(t) + Len(u) :
            v[i] = IF i <= Len(s) + Len(t) THEN st[i] ELSE u[i - (Len(s) + Len(t))]
    BY <1>1, <1>2
<1>5. /\ w \in Seq(Blocks) /\ Len(w) = Len(s) + Len(t) + Len(u)
      /\ \A i \in 1 .. Len(s) + Len(t) + Len(u) :
            w[i] = IF i <= Len(s) THEN s[i] ELSE tu[i - Len(s)]
    BY <1>1, <1>3
<1>6. ASSUME NEW i \in 1 .. Len(s) + Len(t) + Len(u) PROVE v[i] = w[i]
    <2>1. CASE i <= Len(s)
        <3>1. i \in 1 .. Len(s) + Len(t) /\ i <= Len(s) + Len(t)
            BY <2>1
        <3>2. v[i] = st[i] /\ st[i] = s[i]
            BY <1>2, <1>4, <2>1, <3>1
        <3> QED
            BY <1>5, <2>1, <3>2
    <2>2. CASE i > Len(s) /\ i <= Len(s) + Len(t)
        <3>1. i - Len(s) \in 1 .. Len(t) + Len(u) /\ i - Len(s) <= Len(t) /\ ~(i <= Len(s))
            BY <2>2
        <3>2. v[i] = t[i - Len(s)]
            BY <1>2, <1>4, <2>2, <3>1, SMTT(60)
        <3>3. w[i] = t[i - Len(s)]
            BY <1>3, <1>5, <3>1
        <3> QED
            BY <3>2, <3>3
    <2>3. CASE i > Len(s) + Len(t)
        <3>1. /\ i - Len(s) \in 1 .. Len(t) + Len(u) /\ ~(i - Len(s) <= Len(t))
              /\ ~(i <= Len(s)) /\ (i - Len(s)) - Len(t) = i - (Len(s) + Len(t))
            BY <2>3
        <3>2. v[i] = u[i - (Len(s) + Len(t))]
            BY <1>4, <2>3
        <3>3. w[i] = u[i - (Len(s) + Len(t))]
            BY <1>3, <1>5, <3>1
        <3> QED
            BY <3>2, <3>3
    <2> QED
        BY <2>1, <2>2, <2>3
<1>7. v = w
    BY <1>4, <1>5, <1>6
<1> QED
    BY <1>1, <1>7 DEF Joined

\* An empty sequence adds no blocks.
LEMMA NoBlocks ==
    \A s \in Seq(Blocks) : s \o <<>> = s /\ <<>> \o s = s
OBVIOUS

\* Append adds a sequence of one block.
LEMMA AppendedBlock ==
    \A s \in Seq(Blocks), b \in Blocks : Append(s, b) = s \o <<b>>
OBVIOUS

\* Sequences of blocks are closed under concatenation.
LEMMA TypeOfTwo ==
    /\ \A s, t \in Seq(Blocks) : s \o t \in Seq(Blocks)
    /\ \A b \in Blocks : <<b>> \in Seq(Blocks)
    /\ <<>> \in Seq(Blocks)
<1>1. ASSUME NEW s \in Seq(Blocks), NEW t \in Seq(Blocks) PROVE s \o t \in Seq(Blocks)
    BY KeysOfTwo
<1> QED
    BY <1>1

\* Two ways to write down the blocks, those in work included, are the same.
SameLine(lo, wr, b, rh, hi) ==
    /\ lo \o Append(wr, b) \o rh \o hi = (lo \o wr) \o <<b>> \o (rh \o hi)
    /\ lo \o (Append(wr, b) \o rh) \o hi = (lo \o wr) \o <<b>> \o (rh \o hi)

\* The blocks that insertIntoBlockWithSplit writes, between the other blocks.
LEMMA WrittenOut ==
    ASSUME NEW lo \in Seq(Blocks), NEW hi \in Seq(Blocks), NEW wr \in Seq(Blocks),
           NEW b \in Blocks, NEW rh \in Seq(Blocks)
    PROVE  SameLine(lo, wr, b, rh, hi)
<1>1. PICK one : one = <<b>> /\ one \in Seq(Blocks) /\ Append(wr, b) = wr \o one
    BY AppendedBlock, TypeOfTwo
<1>2. /\ lo \o wr \in Seq(Blocks) /\ wr \o one \in Seq(Blocks) /\ rh \o hi \in Seq(Blocks)
      /\ one \in Seq(Blocks)
    BY <1>1, TypeOfTwo
<1>3. Joined(lo, wr, one) /\ lo \o (wr \o one) \in Seq(Blocks)
    BY <1>2, Associative, TypeOfTwo
<1>4. Joined(lo \o (wr \o one), rh, hi) /\ Joined(lo, wr \o one, rh)
    BY <1>2, <1>3, Associative
<1> QED
    BY <1>1, <1>3, <1>4 DEF Joined, SameLine

\* The keys of a batch, written in two ways.
LEMMA BatchKeys ==
    ASSUME NEW q, IsBatch(q)
    PROVE  Range(q) = Taken(q, Len(q)) /\ Range(q) \in SUBSET (Nat \ {0})
<1>1. q \in Seq(Nat \ {0}) /\ DOMAIN q = 1 .. Len(q)
    BY DEF IsBatch
<1> QED
    BY <1>1, SMTT(60) DEF Range, Taken

\* insertIntoBlockWithSplit enters its loop with the invariant of the loop.
LEMMA WithSplitStep ==
    ASSUME ChainInv, NEW k \in 1 .. Len(chain), NEW q \in Batches,
           insertIntoBlockWithSplit(k, q)
    PROVE  ChainInv'
<1>1. work = Idle /\ chain \in Seq(Blocks) /\ Exactly(chain, keys)
    BY WhileIdle DEF insertIntoBlockWithSplit
<1>2. PICK b, lo, hi, part : /\ b = chain[k] /\ lo = SubSeq(chain, 1, k - 1)
                          /\ hi = SubSeq(chain, k + 1, Len(chain)) /\ part = Range(q)
    OBVIOUS
<1>3. Apart(chain, lo, <<b>>, hi)
    BY <1>1, <1>2, TakenApart
<1>4. /\ Less(KeysOf(lo), part) /\ Less(part, KeysOf(hi)) /\ WellFormed(b) /\ b.size > 0
    <2>1. part \subseteq KeyRange(k)
        BY <1>2 DEF insertIntoBlockWithSplit
    <2>2. part \in SUBSET Universe
        BY <1>2, PartOfBatch
    <2> QED
        BY <1>1, <1>2, <2>1, <2>2, SentToBlock
<1>5. IsBatch(q) /\ Range(q) = part
    BY <1>2, PartOfBatch
<1>6. work' = Work(k, q, b, <<>>, 0, <<>>) /\ chain' = chain /\ keys' = keys \cup part
    BY <1>2 DEF insertIntoBlockWithSplit, Work
<1>7. lo \in Seq(Blocks) /\ hi \in Seq(Blocks) /\ chain = lo \o <<b>> \o hi
    BY <1>3 DEF Apart
<1>8. lo \o <<>> = lo /\ <<>> \o hi = hi
    BY <1>7, NoBlocks
<1>9. Line(b, <<>>, <<>>, lo, hi) = chain
    BY <1>7, <1>8 DEF Line
<1>10. Splitting(q, b, <<>>, 0, <<>>, lo, hi, keys \cup part)
    <2>1. b \in Blocks /\ <<>> \in Seq(Blocks) /\ Len(<<>>) <= 1
        BY <1>4 DEF WellFormed
    <2>2. Exactly(chain, KeysOf(chain)) /\ keys = KeysOf(chain)
        BY <1>1 DEF Exactly
    <2>3. Hint(b, 0, <<>>, q)
        <3>1. 0 \in Slots
            BY SizeAssumption DEF Slots
        <3> QED
            BY <1>4, <3>1 DEF Hint
    <2> QED
        BY <1>4, <1>5, <1>8, <1>9, <2>1, <2>2, <2>3 DEF Splitting
<1>11. /\ work'.active /\ work'.block = k /\ work'.batch = q /\ work'.insertionBlock = b
       /\ work'.rightHalf = <<>> /\ work'.lastInsertionIndex = 0 /\ work'.written = <<>>
    BY <1>6 DEF Work
<1> QED
    BY <1>1, <1>2, <1>6, <1>10, <1>11 DEF ChainInv

\* While insertIntoBlockWithSplit runs.
LEMMA WhileActive ==
    ASSUME ChainInv, work.active
    PROVE  \E k, q, b, rh, index, wr, lo, hi :
              /\ chain \in Seq(Blocks) /\ k \in 1 .. Len(chain)
              /\ work = Work(k, q, b, rh, index, wr)
              /\ lo = SubSeq(chain, 1, k - 1) /\ lo \in Seq(Blocks)
              /\ hi = SubSeq(chain, k + 1, Len(chain)) /\ hi \in Seq(Blocks)
              /\ Splitting(q, b, rh, index, wr, lo, hi, keys)
<1>1. PICK k, q, b, rh, index, wr :
         /\ k = work.block /\ q = work.batch /\ b = work.insertionBlock
         /\ rh = work.rightHalf /\ index = work.lastInsertionIndex /\ wr = work.written
    OBVIOUS
<1>2. /\ chain \in Seq(Blocks) /\ k \in 1 .. Len(chain)
      /\ work = Work(k, q, b, rh, index, wr)
      /\ Splitting(q, b, rh, index, wr, SubSeq(chain, 1, k - 1),
                   SubSeq(chain, k + 1, Len(chain)), keys)
    BY <1>1 DEF ChainInv, Idle
<1>3. SubSeq(chain, 1, k - 1) \in Seq(Blocks) /\ SubSeq(chain, k + 1, Len(chain)) \in Seq(Blocks)
    BY <1>2, TakenApart DEF Apart
<1> QED
    BY <1>2, <1>3

\* When the batch is used up, the blocks that are written in the place of block k
\* are in key order with the others and hold all keys.
LEMMA WriteBlocksStep ==
    ASSUME ChainInv, writeBlocks
    PROVE  ChainInv'
<1>1. PICK k, q, b, rh, index, wr, lo, hi :
         /\ chain \in Seq(Blocks) /\ k \in 1 .. Len(chain)
         /\ work = Work(k, q, b, rh, index, wr)
         /\ lo = SubSeq(chain, 1, k - 1) /\ lo \in Seq(Blocks)
         /\ hi = SubSeq(chain, k + 1, Len(chain)) /\ hi \in Seq(Blocks)
         /\ Splitting(q, b, rh, index, wr, lo, hi, keys)
    BY WhileActive DEF writeBlocks
<1>2. /\ work.batch = q /\ work.written = wr /\ work.insertionBlock = b
      /\ work.rightHalf = rh /\ work.block = k
    BY <1>1 DEF Work
<1>3. /\ b \in Blocks /\ wr \in Seq(Blocks) /\ rh \in Seq(Blocks)
      /\ Exactly(Line(b, rh, wr, lo, hi), KeysOf(Line(b, rh, wr, lo, hi)))
      /\ keys = KeysOf(Line(b, rh, wr, lo, hi)) \cup Range(q)
    BY <1>1 DEF Splitting
<1>4. chain' = Line(b, rh, wr, lo, hi)
    <2>1. chain' = lo \o Append(wr, b) \o rh \o hi
        BY <1>1, <1>2 DEF writeBlocks
    <2>2. SameLine(lo, wr, b, rh, hi)
        BY <1>1, <1>3, WrittenOut
    <2> QED
        BY <2>1, <2>2 DEF Line, SameLine
<1>5. Range(q) = {}
    BY <1>2 DEF Range, writeBlocks
<1>6. Exactly(chain', keys)
    BY <1>3, <1>4, <1>5
<1>7. keys' = keys /\ work' = Idle
    BY DEF writeBlocks
<1> QED
    BY <1>6, <1>7 DEF ChainInv, Exactly, InKeyOrder

\* The fields of what insertIntoBlockWithSplit holds.
LEMMA WorkFields ==
    ASSUME NEW k, NEW q, NEW b, NEW rh, NEW index, NEW wr, NEW w,
           w = Work(k, q, b, rh, index, wr)
    PROVE  /\ w.block = k /\ w.batch = q /\ w.insertionBlock = b /\ w.rightHalf = rh
           /\ w.lastInsertionIndex = index /\ w.written = wr /\ w.active
BY DEF Work

\* Two expressions of one value.
Same(x, y) == x = y

\* What the steps of insertIntoBlockWithSplit make of what it holds.
LEMMA SwitchedIs ==
    ASSUME NEW k, NEW q, NEW b, NEW rh, NEW index, NEW wr, NEW w,
           w = Work(k, q, b, rh, index, wr)
    PROVE  Same(switched(w), IF rh # <<>> /\ rh[1].head <= Head(q)
                             THEN Work(k, q, rh[1], <<>>, 0, Append(wr, b))
                             ELSE w)
<1>1. /\ w.batch = q /\ w.insertionBlock = b /\ w.rightHalf = rh
      /\ w.lastInsertionIndex = index /\ w.written = wr
    BY WorkFields, SMTT(60)
<1>2. PICK w1 : w1 = [w EXCEPT !.written = Append(wr, b)]
    OBVIOUS
<1>3. w1 = Work(k, q, b, rh, index, Append(wr, b))
    BY <1>2 DEF Work
<1>4. PICK w2 : w2 = [w1 EXCEPT !.insertionBlock = rh[1]]
    OBVIOUS
<1>5. w2 = Work(k, q, rh[1], rh, index, Append(wr, b))
    BY <1>3, <1>4 DEF Work
<1>6. PICK w3 : w3 = [w2 EXCEPT !.rightHalf = <<>>]
    OBVIOUS
<1>7. w3 = Work(k, q, rh[1], <<>>, index, Append(wr, b))
    BY <1>5, <1>6 DEF Work
<1>8. [w3 EXCEPT !.lastInsertionIndex = 0] = Work(k, q, rh[1], <<>>, 0, Append(wr, b))
    <2>1. PICK u : u = [w3 EXCEPT !.lastInsertionIndex = 0]
        OBVIOUS
    <2>2. u = Work(k, q, rh[1], <<>>, 0, Append(wr, b))
        BY <1>7, <2>1 DEF Work
    <2> QED
        BY <2>1, <2>2
<1>9. [w3 EXCEPT !.lastInsertionIndex = 0]
      = [w EXCEPT !.written = Append(wr, b), !.insertionBlock = rh[1],
                  !.rightHalf = <<>>, !.lastInsertionIndex = 0]
    BY <1>2, <1>4, <1>6
<1> QED
    BY <1>1, <1>8, <1>9 DEF switched, Same

\* insertWithIndex takes the first element of the batch and moves the hint.
LEMMA InsertedIs ==
    ASSUME NEW k, NEW q, NEW b, NEW rh, NEW index, NEW wr, NEW w,
           w = Work(k, q, b, rh, index, wr),
           NEW r, r = insertWithIndex(b, Head(q), index)
    PROVE  Same(inserted(w), Work(k, Tail(q), r.block, rh, r.index, wr))
<1>1. /\ w.batch = q /\ w.insertionBlock = b /\ w.lastInsertionIndex = index
    BY WorkFields, SMTT(60)
<1>2. PICK w1 : w1 = [w EXCEPT !.insertionBlock = r.block]
    OBVIOUS
<1>3. w1 = Work(k, q, r.block, rh, index, wr)
    BY <1>2 DEF Work
<1>4. PICK w2 : w2 = [w1 EXCEPT !.lastInsertionIndex = r.index]
    OBVIOUS
<1>5. w2 = Work(k, q, r.block, rh, r.index, wr)
    BY <1>3, <1>4 DEF Work
<1>6. [w2 EXCEPT !.batch = Tail(q)] = Work(k, Tail(q), r.block, rh, r.index, wr)
    <2>1. PICK u : u = [w2 EXCEPT !.batch = Tail(q)]
        OBVIOUS
    <2>2. u = Work(k, Tail(q), r.block, rh, r.index, wr)
        BY <1>5, <2>1 DEF Work
    <2> QED
        BY <2>1, <2>2
<1>7. [w2 EXCEPT !.batch = Tail(q)]
      = [w EXCEPT !.insertionBlock = r.block, !.lastInsertionIndex = r.index, !.batch = Tail(q)]
    BY <1>2, <1>4
<1> QED
    BY <1>1, <1>6, <1>7 DEF inserted, Same

\* A full block is split: the first split keeps the hint, a second one resets it.
LEMMA SplitFullIs ==
    ASSUME NEW k, NEW q, NEW b, NEW rh, NEW index, NEW wr, NEW w,
           w = Work(k, q, b, rh, index, wr), NEW r, r = split(b)
    PROVE  Same(splitFull(w),
                IF rh # <<>> THEN Work(k, q, r.right, rh, 0, Append(wr, r.left))
                ELSE Work(k, q, r.left, <<r.right>>, index, wr))
<1>1. /\ w.batch = q /\ w.insertionBlock = b /\ w.rightHalf = rh /\ w.written = wr
    BY WorkFields, SMTT(60)
<1>2. PICK w1 : w1 = [w EXCEPT !.written = Append(wr, r.left)]
    OBVIOUS
<1>3. w1 = Work(k, q, b, rh, index, Append(wr, r.left))
    BY <1>2 DEF Work
<1>4. PICK w2 : w2 = [w1 EXCEPT !.insertionBlock = r.right]
    OBVIOUS
<1>5. w2 = Work(k, q, r.right, rh, index, Append(wr, r.left))
    BY <1>3, <1>4 DEF Work
<1>6. [w2 EXCEPT !.lastInsertionIndex = 0] = Work(k, q, r.right, rh, 0, Append(wr, r.left))
    <2>1. PICK u : u = [w2 EXCEPT !.lastInsertionIndex = 0]
        OBVIOUS
    <2>2. u = Work(k, q, r.right, rh, 0, Append(wr, r.left))
        BY <1>5, <2>1 DEF Work
    <2> QED
        BY <2>1, <2>2
<1>7. [w2 EXCEPT !.lastInsertionIndex = 0]
      = [w EXCEPT !.written = Append(wr, r.left), !.insertionBlock = r.right,
                  !.lastInsertionIndex = 0]
    BY <1>2, <1>4
<1>8. PICK v : v = [w EXCEPT !.insertionBlock = r.left]
    OBVIOUS
<1>9. v = Work(k, q, r.left, rh, index, wr)
    BY <1>8 DEF Work
<1>10. [v EXCEPT !.rightHalf = <<r.right>>] = Work(k, q, r.left, <<r.right>>, index, wr)
    <2>1. PICK u : u = [v EXCEPT !.rightHalf = <<r.right>>]
        OBVIOUS
    <2>2. u = Work(k, q, r.left, <<r.right>>, index, wr)
        BY <1>9, <2>1 DEF Work
    <2> QED
        BY <2>1, <2>2
<1>11. [v EXCEPT !.rightHalf = <<r.right>>]
       = [w EXCEPT !.insertionBlock = r.left, !.rightHalf = <<r.right>>]
    BY <1>8
<1> QED
    BY <1>1, <1>6, <1>7, <1>10, <1>11 DEF splitFull, Same

\* The block in work, between the blocks before and behind it.
LineParts(line, q, b, rh, wr, lo, hi, stored) ==
    /\ Apart(line, lo \o wr, <<b>>, rh \o hi)
    /\ Exactly(line, KeysOf(line)) /\ stored = KeysOf(line) \cup Range(q)
    /\ WellFormed(b) /\ b.size > 0 /\ Tracked(b, KeysOf(line))
    /\ Less(KeysOf(lo \o wr), Keys(b)) /\ Less(Keys(b), KeysOf(rh \o hi))
    /\ KeysOf(rh \o hi) = KeysOf(rh) \cup KeysOf(hi) /\ InKeyOrder(rh, KeysOf(line))

\* The invariant of the loop, taken apart around the block in work.
LEMMA SplittingBlocks ==
    ASSUME NEW lo \in Seq(Blocks), NEW hi \in Seq(Blocks), NEW q, NEW b, NEW rh, NEW index,
           NEW wr, NEW stored, Splitting(q, b, rh, index, wr, lo, hi, stored),
           NEW line, line = Line(b, rh, wr, lo, hi)
    PROVE  LineParts(line, q, b, rh, wr, lo, hi, stored)
<1>1. /\ b \in Blocks /\ wr \in Seq(Blocks) /\ rh \in Seq(Blocks)
      /\ Exactly(line, KeysOf(line)) /\ stored = KeysOf(line) \cup Range(q)
    BY DEF Splitting
<1>2. PICK one : one = <<b>>
    OBVIOUS
<1>3. lo \o wr \in Seq(Blocks) /\ rh \o hi \in Seq(Blocks) /\ one \in Seq(Blocks)
    BY <1>1, <1>2, TypeOfTwo
<1>4. line = (lo \o wr) \o one \o (rh \o hi)
    BY <1>2 DEF Line
<1>5. InKeyOrder(line, KeysOf(line))
    BY <1>1 DEF Exactly
<1>6. PICK B, A : B = lo \o wr /\ A = rh \o hi
    OBVIOUS
<1>7. /\ InKeyOrder(one, KeysOf(line)) /\ InKeyOrder(A, KeysOf(line))
      /\ Less(KeysOf(B), KeysOf(one)) /\ Less(KeysOf(one), KeysOf(A))
    <2>1. InKeyOrder(B \o one \o A, KeysOf(line))
        BY <1>4, <1>5, <1>6
    <2>2. B \in Seq(Blocks) /\ A \in Seq(Blocks) /\ one \in Seq(Blocks)
        BY <1>3, <1>6
    <2> QED
        BY <2>1, <2>2, InKeyOrderThree
<1>8. KeysOf(one) = Keys(b)
    BY <1>2, KeysOfOne
<1>9. WellFormed(b) /\ b.size > 0 /\ Tracked(b, KeysOf(line))
    <2>1. Len(one) = 1 /\ one[1] = b /\ 1 \in 1 .. Len(one)
        BY <1>2
    <2> QED
        BY <1>7, <2>1 DEF InKeyOrder
<1>10. KeysOf(rh \o hi) = KeysOf(rh) \cup KeysOf(hi)
    BY <1>1, KeysOfTwo
<1>11. InKeyOrder(rh, KeysOf(line))
    BY <1>1, <1>6, <1>7, InKeyOrderTwo
<1>12. Apart(line, lo \o wr, <<b>>, rh \o hi)
    BY <1>2, <1>3, <1>4 DEF Apart
<1> QED
    BY <1>1, <1>6, <1>7, <1>8, <1>9, <1>10, <1>11, <1>12 DEF LineParts

\* A sequence that is not empty has a first entry.
LEMMA NotEmpty ==
    ASSUME NEW S, NEW s \in Seq(S), s # <<>>
    PROVE  Len(s) \in Nat \ {0}
OBVIOUS

\* If there is a right half, its head is its smallest key.
LEMMA RightHalf ==
    ASSUME NEW rh \in Seq(Blocks), Len(rh) <= 1, rh # <<>>,
           NEW stored, InKeyOrder(rh, stored)
    PROVE  /\ rh = <<rh[1]>> /\ rh[1] \in Blocks /\ WellFormed(rh[1]) /\ rh[1].size > 0
           /\ KeysOf(rh) = Keys(rh[1]) /\ rh[1].head \in KeysOf(rh) /\ rh[1].head \in Nat
           /\ \A e \in KeysOf(rh) : rh[1].head <= e
<1>1. Len(rh) = 1 /\ 1 \in 1 .. Len(rh)
    <2>1. Len(rh) \in Nat \ {0}
        BY NotEmpty
    <2>2. \A n \in Nat \ {0} : n <= 1 => n = 1
        OBVIOUS
    <2>3. Len(rh) = 1
        BY <2>1, <2>2
    <2> QED
        BY <2>3
<1>2. rh = <<rh[1]>> /\ rh[1] \in Blocks
    BY <1>1
<1>3. WellFormed(rh[1]) /\ rh[1].size > 0
    BY <1>1 DEF InKeyOrder
<1>4. KeysOf(rh) = Keys(rh[1])
    BY <1>2, KeysOfOne
<1>5. /\ rh[1].head \in Keys(rh[1]) /\ Keys(rh[1]) \subseteq Nat
      /\ \A e \in Keys(rh[1]) : rh[1].head <= e
    BY <1>3, Ends
<1> QED
    BY <1>2, <1>3, <1>4, <1>5

\* The first key of a batch is the smallest.
LEMMA FirstOfBatch ==
    ASSUME NEW q, IsBatch(q), q # <<>>
    PROVE  /\ Head(q) \in Nat \ {0} /\ Head(q) \in Range(q)
           /\ \A e \in Range(q) : e \in Nat /\ Head(q) <= e
           /\ IsBatch(Tail(q)) /\ Range(q) = {Head(q)} \cup Range(Tail(q))
           /\ \A e \in Range(Tail(q)) : e \in Nat /\ Head(q) < e
<1>1. q \in Seq(Nat \ {0}) /\ \A j \in 1 .. Len(q) : \A i \in 1 .. j - 1 : q[i] < q[j]
    BY DEF IsBatch
<1>2. Len(q) \in Nat /\ Len(q) > 0 /\ Head(q) = q[1] /\ DOMAIN q = 1 .. Len(q)
    BY <1>1, NotEmpty
<1>3. \A j \in 1 .. Len(q) : q[j] \in Nat \ {0}
    BY <1>1
<1>4. PICK t : t = Tail(q)
    OBVIOUS
<1>5. /\ t \in Seq(Nat \ {0}) /\ Len(t) = Len(q) - 1 /\ DOMAIN t = 1 .. Len(q) - 1
      /\ \A i \in 1 .. Len(q) - 1 : t[i] = q[i + 1]
    BY <1>1, <1>2, <1>4
<1>6. IsBatch(t)
    <2>1. ASSUME NEW j \in 1 .. Len(q) - 1, NEW i \in 1 .. j - 1 PROVE t[i] < t[j]
        <3>1. /\ i + 1 \in 1 .. (j + 1) - 1 /\ j + 1 \in 1 .. Len(q) /\ i \in 1 .. Len(q) - 1
            BY <1>2
        <3> QED
            BY <1>1, <1>5, <3>1
    <2> QED
        BY <1>5, <2>1 DEF IsBatch
<1>7. \A j \in 1 .. Len(q) : j = 1 \/ q[1] < q[j]
    BY <1>1
<1>8. Range(t) = { q[j] : j \in 2 .. Len(q) }
    <2>1. ASSUME NEW j \in 2 .. Len(q) PROVE q[j] \in Range(t)
        <3>1. j - 1 \in 1 .. Len(q) - 1 /\ (j - 1) + 1 = j
            BY <1>2
        <3> QED
            BY <1>5, <3>1 DEF Range
    <2>2. ASSUME NEW i \in 1 .. Len(q) - 1 PROVE t[i] \in { q[j] : j \in 2 .. Len(q) }
        <3>1. i + 1 \in 2 .. Len(q)
            BY <1>2
        <3> QED
            BY <1>5, <3>1
    <2> QED
        BY <1>5, <2>1, <2>2 DEF Range
<1>9. Range(q) = { q[j] : j \in 1 .. Len(q) }
    BY <1>2 DEF Range
<1>10. \A j \in 1 .. Len(q) : j = 1 \/ j \in 2 .. Len(q)
    OBVIOUS
<1>11. \A j \in 2 .. Len(q) : j \in 1 .. Len(q) /\ q[1] < q[j] /\ q[j] \in Nat
    BY <1>3, <1>7
<1>12. 1 \in 1 .. Len(q) /\ q[1] \in Nat /\ q[1] # 0
    BY <1>2, <1>3
<1>13. Range(q) = {q[1]} \cup Range(t)
    BY <1>8, <1>9, <1>10, <1>11, <1>12
<1>14. \A e \in Range(t) : e \in Nat /\ q[1] < e
    BY <1>8, <1>11
<1>15. \A e \in Range(q) : e \in Nat /\ q[1] <= e
    BY <1>12, <1>13, <1>14
<1> QED
    BY <1>2, <1>4, <1>6, <1>12, <1>13, <1>14, <1>15

\* The left half is finished and the right half takes its place.
LEMMA SwitchStep ==
    ASSUME NEW lo \in Seq(Blocks), NEW hi \in Seq(Blocks), NEW q, NEW b, NEW rh, NEW index,
           NEW wr, NEW stored, Splitting(q, b, rh, index, wr, lo, hi, stored),
           q # <<>>, rh # <<>>, rh[1].head <= Head(q)
    PROVE  Splitting(q, rh[1], <<>>, 0, Append(wr, b), lo, hi, stored)
<1>1. PICK line : line = Line(b, rh, wr, lo, hi)
    OBVIOUS
<1>2. /\ Exactly(line, KeysOf(line)) /\ stored = KeysOf(line) \cup Range(q)
      /\ WellFormed(b) /\ Less(Keys(b), KeysOf(rh \o hi))
      /\ KeysOf(rh \o hi) = KeysOf(rh) \cup KeysOf(hi) /\ InKeyOrder(rh, KeysOf(line))
    <2>1. LineParts(line, q, b, rh, wr, lo, hi, stored)
        BY <1>1, SplittingBlocks
    <2> QED
        BY <2>1 DEF LineParts
<1>3. /\ IsBatch(q) /\ b \in Blocks /\ wr \in Seq(Blocks) /\ rh \in Seq(Blocks)
      /\ Len(rh) <= 1 /\ Less(KeysOf(lo \o wr), Range(q)) /\ Less(Range(q), KeysOf(hi))
    BY DEF Splitting
<1>4. PICK r : r = rh[1]
    OBVIOUS
<1>5. /\ rh = <<r>> /\ r \in Blocks /\ WellFormed(r) /\ r.size > 0
      /\ r.head \in KeysOf(rh) /\ r.head \in Nat
    BY <1>2, <1>3, <1>4, RightHalf
<1>6. Line(r, <<>>, Append(wr, b), lo, hi) = line
    <2>1. PICK one, two, none : one = <<b>> /\ two = <<r>> /\ none = <<>>
        OBVIOUS
    <2>2. /\ one \in Seq(Blocks) /\ two \in Seq(Blocks) /\ Append(wr, b) = wr \o one
          /\ none \o hi = hi
        BY <1>3, <1>5, <2>1, TypeOfTwo, AppendedBlock, NoBlocks
    <2>3. lo \o wr \in Seq(Blocks)
        BY <1>3, TypeOfTwo
    <2>4. (lo \o wr) \o one \in Seq(Blocks)
        BY <2>2, <2>3, TypeOfTwo
    <2>5. Joined((lo \o wr) \o one, two, hi) /\ Joined(lo, wr, one)
        BY <1>3, <2>2, <2>4, Associative
    <2>6. line = ((lo \o wr) \o one) \o (two \o hi)
        BY <1>1, <1>5, <2>1 DEF Line
    <2>7. Line(r, <<>>, Append(wr, b), lo, hi) = (lo \o (wr \o one)) \o two \o hi
        BY <2>1, <2>2 DEF Line
    <2> QED
        BY <2>5, <2>6, <2>7 DEF Joined
<1>7. Less(KeysOf(lo \o Append(wr, b)), Range(q))
    <2>1. PICK one : one = <<b>>
        OBVIOUS
    <2>2. one \in Seq(Blocks) /\ Append(wr, b) = wr \o one /\ KeysOf(one) = Keys(b)
        BY <1>3, <2>1, TypeOfTwo, AppendedBlock, KeysOfOne
    <2>3. Joined(lo, wr, one) /\ lo \o wr \in Seq(Blocks)
        BY <1>3, <2>2, Associative, TypeOfTwo
    <2>4. KeysOf((lo \o wr) \o one) = KeysOf(lo \o wr) \cup KeysOf(one)
        BY <2>2, <2>3, KeysOfTwo
    <2>5. KeysOf(lo \o Append(wr, b)) = KeysOf(lo \o wr) \cup Keys(b)
        BY <2>2, <2>3, <2>4 DEF Joined
    <2>6. ASSUME NEW a \in Keys(b), NEW e \in Range(q) PROVE a < e
        <3>1. a < r.head
            BY <1>2, <1>5 DEF Less
        <3>2. a \in Nat
            BY <1>2, Ends
        <3>3. e \in Nat /\ Head(q) \in Nat /\ Head(q) <= e
            BY <1>3, FirstOfBatch
        <3>4. r.head <= Head(q) /\ r.head \in Nat
            BY <1>4, <1>5
        <3> QED
            BY <3>1, <3>2, <3>3, <3>4, SMTT(60)
    <2> QED
        BY <1>3, <2>5, <2>6 DEF Less
<1>8. Hint(r, 0, <<>>, q)
    <2>1. 0 \in Slots
        BY SizeAssumption DEF Slots
    <2> QED
        BY <1>5, <2>1 DEF Hint
<1>9. /\ Append(wr, b) \in Seq(Blocks) /\ <<>> \in Seq(Blocks) /\ Len(<<>>) <= 1
    BY <1>3
<1> QED
    BY <1>2, <1>3, <1>4, <1>5, <1>6, <1>7, <1>8, <1>9 DEF Splitting

\* The next key of the batch is inserted.
InsertHint(b, q, rh, index) ==
    /\ index \in 0 .. b.size
    /\ \A i \in 0 .. index - 1 : b.slots[i] < Head(q)
    /\ rh # <<>> /\ b.size # MinSize => index >= b.size - MinSize - 1 /\ index < b.size
                                        /\ b.slots[index] < Head(q)

\* The search hint may be used once it is known that the right half is not meant.
LEMMA HintUsable ==
    ASSUME NEW b, WellFormed(b), b.size > 0, NEW q, IsBatch(q), q # <<>>, NEW rh, NEW index,
           Hint(b, index, rh, q), rh # <<>> => rh[1].head \in Nat /\ Head(q) < rh[1].head
    PROVE  InsertHint(b, q, rh, index)
<1>1. Head(q) \in Nat /\ Head(q) \in Range(q)
    BY FirstOfBatch
<1>2. b.size \in Nat /\ b.size <= MaxSize /\ MaxSize \in Nat /\ MinSize \in Nat
    BY SizeAssumption DEF WellFormed, Blocks
<1>3. index \in Nat
    BY <1>2 DEF Hint, Slots
<1>4. index < b.size
    <2>1. CASE rh = <<>>
        BY <2>1 DEF Hint
    <2>2. CASE rh # <<>>
        <3>1. index >= b.size => rh[1].head <= Head(q)
            BY <1>1, <2>2 DEF Hint, HintAfterSplit
        <3>2. rh[1].head \in Nat /\ Head(q) < rh[1].head
            BY <2>2
        <3> QED
            BY <1>1, <1>2, <1>3, <3>1, <3>2, SMTT(60)
    <2> QED
        BY <2>1, <2>2
<1>5. \A i \in 0 .. index - 1 : b.slots[i] < Head(q)
    <2>1. CASE index = 0
        BY <2>1
    <2>2. CASE index # 0
        <3>1. \A i \in 0 .. index : b.slots[i] < Head(q)
            BY <1>1, <2>2 DEF Hint
        <3> QED
            BY <1>3, <3>1
    <2> QED
        BY <2>1, <2>2
<1>6. rh # <<>> /\ b.size # MinSize => /\ index >= b.size - MinSize - 1
                                       /\ b.slots[index] < Head(q)
    BY <1>1 DEF Hint, HintAfterSplit
<1> QED
    BY <1>2, <1>3, <1>4, <1>5, <1>6, SMTT(60) DEF InsertHint

\* The search hint after an insertion: it has moved on.
LEMMA HintMoves ==
    ASSUME NEW b, WellFormed(b), NEW q, IsBatch(q), q # <<>>, NEW rh, NEW index,
           InsertHint(b, q, rh, index), Hint(b, index, rh, q),
           NEW r, NEW stored, AddsExactly(r, b, Head(q), stored)
    PROVE  Hint(r.block, r.index, rh, Tail(q))
<1>1. PICK e, c, p, n, m : /\ e = Head(q) /\ c = r.block /\ p = r.index
                           /\ n = b.size /\ m = c.size
    OBVIOUS
<1>2. /\ WellFormed(c) /\ p \in 0 .. m - 1 /\ c.slots[p] = e
      /\ \A i \in 0 .. n - 1 : b.slots[i] < e => i < p
      /\ m = n \/ m = n + 1
    BY <1>1 DEF AddsExactly
<1>3. /\ n \in Nat /\ m \in Nat /\ m <= MaxSize /\ MaxSize \in Nat /\ MinSize \in Nat
      /\ MinSize # 0
    BY <1>1, <1>2, SizeAssumption DEF WellFormed, Blocks
<1>4. p \in Nat /\ p < m /\ p \in Slots
    BY <1>2, <1>3 DEF Slots
<1>5. e \in Nat /\ \A f \in Range(Tail(q)) : f \in Nat /\ e < f
    BY <1>1, FirstOfBatch
<1>6. ASSUME NEW i \in 0 .. p, NEW f \in Range(Tail(q)) PROVE c.slots[i] < f
    <2>1. \A j \in 0 .. p - 1 : c.slots[j] \in Nat /\ c.slots[j] < c.slots[p]
        BY <1>1, <1>2, InOrder
    <2>2. i = p \/ i \in 0 .. p - 1
        BY <1>4
    <2>3. c.slots[i] \in Nat /\ c.slots[i] <= e
        BY <1>2, <1>5, <2>1, <2>2
    <2> QED
        BY <1>5, <2>3
<1>7. ASSUME rh # <<>> PROVE HintAfterSplit(c, p, rh[1], Tail(q))
    <2>1. n >= MinSize
        BY <1>1, <1>7 DEF Hint, HintAfterSplit
    <2>2. m >= MinSize
        BY <1>2, <1>3, <2>1
    <2>3. m = MinSize \/ p >= m - MinSize - 1
        <3>1. CASE n = MinSize
            BY <1>2, <1>3, <1>4, <3>1, SMTT(60)
        <3>2. CASE n # MinSize
            <4>1. /\ index >= n - MinSize - 1 /\ index < n /\ b.slots[index] < e
                  /\ index \in 0 .. n
                BY <1>1, <1>7, <3>2 DEF InsertHint
            <4>2. index \in 0 .. n - 1 /\ index \in Int
                BY <1>3, <4>1
            <4>3. index < p
                BY <1>2, <4>1, <4>2
            <4> QED
                BY <1>2, <1>3, <1>4, <4>1, <4>2, <4>3
        <3> QED
            BY <3>1, <3>2
    <2>4. \A f \in Range(Tail(q)) : c.slots[p] < f
        BY <1>2, <1>5
    <2>5. ~(p >= c.size)
        BY <1>1, <1>3, <1>4
    <2> QED
        BY <1>1, <2>2, <2>3, <2>4, <2>5 DEF HintAfterSplit
<1> QED
    BY <1>1, <1>4, <1>6, <1>7 DEF Hint

\* The next key of the batch is inserted.
LEMMA InsertStep ==
    ASSUME NEW lo \in Seq(Blocks), NEW hi \in Seq(Blocks), NEW q, NEW b, NEW rh, NEW index,
           NEW wr, NEW stored, Splitting(q, b, rh, index, wr, lo, hi, stored),
           q # <<>>, rh # <<>> => ~(rh[1].head <= Head(q)), b.size < MaxSize,
           NEW r, r = insertWithIndex(b, Head(q), index)
    PROVE  Splitting(Tail(q), r.block, rh, r.index, wr, lo, hi, stored)
<1>1. PICK line : line = Line(b, rh, wr, lo, hi)
    OBVIOUS
<1>2. /\ Apart(line, lo \o wr, <<b>>, rh \o hi)
      /\ Exactly(line, KeysOf(line)) /\ stored = KeysOf(line) \cup Range(q)
      /\ WellFormed(b) /\ b.size > 0 /\ Tracked(b, KeysOf(line))
      /\ KeysOf(rh \o hi) = KeysOf(rh) \cup KeysOf(hi) /\ InKeyOrder(rh, KeysOf(line))
    <2>1. LineParts(line, q, b, rh, wr, lo, hi, stored)
        BY <1>1, SplittingBlocks
    <2> QED
        BY <2>1 DEF LineParts
<1>3. /\ IsBatch(q) /\ wr \in Seq(Blocks) /\ rh \in Seq(Blocks) /\ Len(rh) <= 1
      /\ Less(KeysOf(lo \o wr), Range(q)) /\ Less(Range(q), KeysOf(hi))
      /\ Hint(b, index, rh, q)
    BY DEF Splitting
<1>4. PICK e, t : e = Head(q) /\ t = Tail(q)
    OBVIOUS
<1>5. /\ e \in Nat \ {0} /\ e \in Range(q) /\ IsBatch(t) /\ Range(q) = {e} \cup Range(t)
      /\ \A f \in Range(t) : f \in Nat /\ e < f
    BY <1>3, <1>4, FirstOfBatch
<1>6. ASSUME rh # <<>>
      PROVE  /\ rh[1].head \in Nat /\ e < rh[1].head
             /\ \A a \in KeysOf(rh) : a \in Nat /\ rh[1].head <= a
    <2>1. /\ rh[1].head \in Nat /\ WellFormed(rh[1]) /\ KeysOf(rh) = Keys(rh[1])
          /\ \A a \in KeysOf(rh) : rh[1].head <= a
        BY <1>2, <1>3, <1>6, RightHalf
    <2>2. KeysOf(rh) \subseteq Nat
        BY <2>1, Ends
    <2> QED
        BY <1>4, <1>5, <1>6, <2>1, <2>2, SMTT(60)
<1>7. Less(KeysOf(lo \o wr), {e}) /\ Less({e}, KeysOf(rh \o hi))
    <2>1. ASSUME NEW a \in KeysOf(rh) PROVE e < a
        <3>1. rh # <<>>
            <4>1. KeysOf(<<>>) = {}
                BY DEF KeysOf
            <4> QED
                BY <4>1
        <3>2. rh[1].head \in Nat /\ e < rh[1].head /\ a \in Nat /\ rh[1].head <= a
            BY <1>6, <3>1
        <3> QED
            BY <1>5, <3>2, SMTT(60)
    <2> QED
        BY <1>2, <1>3, <1>5, <2>1 DEF Less
<1>8. InsertHint(b, q, rh, index)
    BY <1>2, <1>3, <1>4, <1>6, HintUsable
<1>9. AddsExactly(r, b, e, KeysOf(line))
    <2>1. e \in KeysOf(line) => e \in Keys(b)
        <3>1. {e} \in SUBSET Nat
            BY <1>5
        <3>2. {e} \cap KeysOf(line) \subseteq KeysOf(<<b>>)
            BY <1>2, <1>7, <3>1, StoredThere
        <3> QED
            BY <3>2, KeysOfOne
    <2>2. index \in 0 .. b.size /\ \A i \in 0 .. index - 1 : b.slots[i] < e
        BY <1>4, <1>8 DEF InsertHint
    <2>3. e \in Nat /\ e # 0
        BY <1>5
    <2> QED
        BY <1>2, <1>4, <2>1, <2>2, <2>3, InsertExact
<1>10. PICK c : c = r.block
    OBVIOUS
<1>11. WellFormed(c) /\ c \in Blocks /\ Keys(c) = Keys(b) \cup {e} /\ Tracked(c, KeysOf(line) \cup {e})
    BY <1>9, <1>10 DEF AddsExactly, WellFormed
<1>12. PICK next : next = Line(c, rh, wr, lo, hi)
    OBVIOUS
<1>13. Apart(next, lo \o wr, <<c>>, rh \o hi)
    <2>1. lo \o wr \in Seq(Blocks) /\ rh \o hi \in Seq(Blocks) /\ <<c>> \in Seq(Blocks)
        BY <1>3, <1>11, TypeOfTwo
    <2> QED
        BY <1>12, <2>1 DEF Apart, Line
<1>14. Exactly(next, KeysOf(line) \cup {e})
    <2>1. Filled(c, b, {e}, KeysOf(line))
        BY <1>11 DEF Filled
    <2>2. Keys(b) = KeysOf(<<b>>) /\ {e} # {}
        BY KeysOfOne
    <2> QED
        BY <1>2, <1>7, <1>13, <2>1, <2>2, FilledInPlace
<1>15. KeysOf(next) = KeysOf(line) \cup {e} /\ Exactly(next, KeysOf(next))
    BY <1>14 DEF Exactly
<1>16. stored = KeysOf(next) \cup Range(t)
    BY <1>2, <1>5, <1>15
<1>17. Less(KeysOf(lo \o wr), Range(t)) /\ Less(Range(t), KeysOf(hi))
    BY <1>3, <1>5 DEF Less
<1>18. Hint(c, r.index, rh, t)
    BY <1>2, <1>3, <1>4, <1>8, <1>9, <1>10, HintMoves
<1> QED
    BY <1>3, <1>4, <1>5, <1>10, <1>11, <1>12, <1>15, <1>16, <1>17, <1>18 DEF Splitting

\* The halves of a full block, by their slots.
LEMMA Halves ==
    ASSUME NEW b, WellFormed(b), b.size = MaxSize, NEW r, r = split(b)
    PROVE  /\ r.left.slots = b.slots /\ r.left.size = MinSize
           /\ r.right.head = b.slots[MinSize]
           /\ Keys(r.left) = { b.slots[i] : i \in 0 .. MinSize - 1 }
<1>1. PICK s, h : b = [slots |-> s, size |-> MaxSize, head |-> h] /\ s = b.slots
    BY DEF WellFormed, Blocks
<1>2. MinSize \in Nat /\ MinSize # 0 /\ MaxSize = 2 * MinSize /\ MaxSize \div 2 = MinSize
    BY SizeAssumption
<1>3. PICK u : u = [i \in Slots |-> IF i < MinSize THEN s[MinSize + i] ELSE 0]
    OBVIOUS
<1>4. u[0] = s[MinSize]
    <2>1. 0 \in Slots /\ 0 < MinSize /\ MinSize + 0 = MinSize
        BY <1>2 DEF Slots
    <2> QED
        BY <1>3, <2>1
<1>5. /\ r.left = [slots |-> s, size |-> MinSize, head |-> h]
      /\ r.right = updateHead([slots |-> u, size |-> MinSize, head |-> 0])
    BY <1>1, <1>2, <1>3 DEF split
<1>6. r.right.head = u[0]
    BY <1>5 DEF updateHead
<1>7. r.left.slots = s /\ r.left.size = MinSize
    BY <1>5
<1> QED
    BY <1>1, <1>4, <1>6, <1>7 DEF Keys

\* What split makes of a full block.
SplitInto(r, b, stored) ==
    /\ WellFormed(r.left) /\ WellFormed(r.right)
    /\ r.left \in Blocks /\ r.right \in Blocks
    /\ r.left.size = MinSize /\ r.right.size = MinSize
    /\ r.left.size > 0 /\ r.right.size > 0
    /\ Keys(r.left) \cup Keys(r.right) = Keys(b)
    /\ Less(Keys(r.left), Keys(r.right))
    /\ Tracked(r.left, stored) /\ Tracked(r.right, stored)

\* split, in the form in which the steps below use it.
LEMMA SplitIs ==
    ASSUME NEW b, WellFormed(b), b.size = MaxSize, NEW stored, Tracked(b, stored),
           NEW r, r = split(b)
    PROVE  SplitInto(r, b, stored)
<1>1. /\ WellFormed(r.left) /\ WellFormed(r.right)
      /\ r.left.size = MinSize /\ r.right.size = MinSize
      /\ Keys(r.left) \cup Keys(r.right) = Keys(b)
      /\ \A k \in Keys(r.left), l \in Keys(r.right) : k < l
      /\ Tracked(r.left, stored) /\ Tracked(r.right, stored)
    BY SplitExact
<1>2. MinSize > 0
    BY SizeAssumption
<1> QED
    BY <1>1, <1>2 DEF SplitInto, Less, WellFormed

\* The two halves in the place of the block.
LEMMA HalvesInPlace ==
    ASSUME NEW line, NEW lo, NEW b, NEW hi, Apart(line, lo, <<b>>, hi),
           Exactly(line, KeysOf(line)), NEW r, SplitInto(r, b, KeysOf(line)),
           NEW next, Apart(next, lo, <<r.left, r.right>>, hi)
    PROVE  Exactly(next, KeysOf(line))
<1>1. /\ r.left \in Blocks /\ r.right \in Blocks
      /\ InKeyOrder(<<r.left, r.right>>, KeysOf(line))
      /\ KeysOf(<<r.left, r.right>>) = Keys(r.left) \cup Keys(r.right)
    BY Pair DEF SplitInto
<1>2. KeysOf(<<b>>) = Keys(b)
    BY KeysOfOne
<1>3. KeysOf(<<r.left, r.right>>) = KeysOf(<<b>>)
    BY <1>1, <1>2 DEF SplitInto
<1> QED
    BY <1>1, <1>3, SameKeys

\* Two blocks in the place of one, written in two ways.
LEMMA TwoBlocks ==
    ASSUME NEW s \in Seq(Blocks), NEW a \in Blocks, NEW b \in Blocks, NEW t \in Seq(Blocks)
    PROVE  /\ Apart((s \o <<a>>) \o <<b>> \o t, s, <<a, b>>, t)
           /\ Apart(s \o <<a>> \o (<<b>> \o t), s, <<a, b>>, t)
<1>1. PICK x, y, xy : x = <<a>> /\ y = <<b>> /\ xy = <<a, b>>
    OBVIOUS
<1>2. x \in Seq(Blocks) /\ y \in Seq(Blocks) /\ xy \in Seq(Blocks) /\ xy = x \o y
    <2>1. x \in Seq(Blocks) /\ y \in Seq(Blocks) /\ xy \in Seq(Blocks)
        BY <1>1
    <2>2. Append(x, b) = x \o y
        BY <1>1, <2>1, AppendedBlock
    <2>3. Append(x, b) = xy
        <3>1. PICK z : z = Append(x, b)
            OBVIOUS
        <3>2. Len(x) = 1 /\ x[1] = a
            BY <1>1
        <3>3. z \in Seq(Blocks) /\ Len(z) = 2 /\ z[1] = a /\ z[2] = b
            <4>1. /\ z \in Seq(Blocks) /\ Len(z) = Len(x) + 1
                  /\ \A i \in 1 .. Len(x) : z[i] = x[i]
                  /\ z[Len(x) + 1] = b
                BY <2>1, <3>1, SMTT(60)
            <4>2. 1 \in 1 .. Len(x) /\ Len(x) + 1 = 2
                BY <3>2
            <4> QED
                BY <3>2, <4>1, <4>2
        <3>4. z = <<a, b>>
            BY <3>3
        <3> QED
            BY <1>1, <3>1, <3>4
    <2> QED
        BY <2>1, <2>2, <2>3
<1>3. s \o x \in Seq(Blocks)
    BY <1>2, TypeOfTwo
<1>4. Joined(s, x, y) /\ Joined(s \o x, y, t)
    BY <1>2, <1>3, Associative
<1>5. (s \o x) \o y \o t = s \o xy \o t
    BY <1>2, <1>4 DEF Joined
<1>6. s \o x \o (y \o t) = s \o xy \o t
    BY <1>2, <1>4, <1>5 DEF Joined
<1> QED
    BY <1>1, <1>2, <1>5, <1>6 DEF Apart

\* A full block is split for the first time: its upper half becomes the right half.
LEMMA FirstSplitStep ==
    ASSUME NEW lo \in Seq(Blocks), NEW hi \in Seq(Blocks), NEW q, NEW b, NEW index,
           NEW wr, NEW stored, Splitting(q, b, <<>>, index, wr, lo, hi, stored),
           b.size = MaxSize, NEW r, r = split(b)
    PROVE  Splitting(q, r.left, <<r.right>>, index, wr, lo, hi, stored)
<1>1. PICK line, none : none = <<>> /\ line = Line(b, none, wr, lo, hi)
    OBVIOUS
<1>2. /\ Apart(line, lo \o wr, <<b>>, none \o hi)
      /\ Exactly(line, KeysOf(line)) /\ stored = KeysOf(line) \cup Range(q)
      /\ WellFormed(b) /\ Tracked(b, KeysOf(line))
    <2>1. LineParts(line, q, b, none, wr, lo, hi, stored)
        BY <1>1, SplittingBlocks
    <2> QED
        BY <2>1 DEF LineParts
<1>3. /\ IsBatch(q) /\ wr \in Seq(Blocks)
      /\ Less(KeysOf(lo \o wr), Range(q)) /\ Less(Range(q), KeysOf(hi))
      /\ Hint(b, index, <<>>, q)
    BY DEF Splitting
<1>4. SplitInto(r, b, KeysOf(line))
    BY <1>2, SplitIs
<1>5. r.left \in Blocks /\ r.right \in Blocks /\ r.left.size = MinSize
    BY <1>4 DEF SplitInto
<1>6. PICK next, right : right = <<r.right>> /\ next = Line(r.left, right, wr, lo, hi)
    OBVIOUS
<1>7. lo \o wr \in Seq(Blocks) /\ right \in Seq(Blocks) /\ Len(right) <= 1 /\ none \o hi = hi
    BY <1>1, <1>3, <1>5, <1>6, TypeOfTwo, NoBlocks, SMTT(60)
<1>8. Apart(next, lo \o wr, <<r.left, r.right>>, hi)
    BY <1>5, <1>6, <1>7, TwoBlocks DEF Line
<1>9. Exactly(next, KeysOf(line))
    BY <1>2, <1>4, <1>7, <1>8, HalvesInPlace
<1>10. KeysOf(next) = KeysOf(line) /\ Exactly(next, KeysOf(next))
    BY <1>9 DEF Exactly
<1>11. Hint(r.left, index, right, q)
    <2>1. r.left.slots = b.slots /\ r.right.head = b.slots[MinSize]
        BY <1>2, Halves
    <2>2. right # <<>> /\ right[1] = r.right
        BY <1>6
    <2>3. index \in Slots /\ index # 0 => \A i \in 0 .. index : \A e \in Range(q) : b.slots[i] < e
        BY <1>3 DEF Hint
    <2>4. ASSUME index >= MinSize, NEW e \in Range(q) PROVE b.slots[MinSize] <= e
        <3>1. index \in Nat /\ MinSize \in Nat /\ MinSize # 0 /\ index \in Slots
            BY <1>3, SizeAssumption DEF Hint, Slots
        <3>2. index # 0 /\ MinSize \in 0 .. index
            BY <2>4, <3>1, SMTT(60)
        <3>3. b.slots[MinSize] < e
            BY <2>3, <3>1, <3>2
        <3>4. MinSize \in Slots /\ b.slots \in [Slots -> Nat]
            BY <1>2, SizeAssumption, SMTT(60) DEF WellFormed, Blocks, Slots
        <3>5. b.slots[MinSize] \in Nat /\ e \in Nat
            BY <1>3, <3>4, BatchKeys
        <3> QED
            BY <3>3, <3>5, SMTT(60)
    <2>5. HintAfterSplit(r.left, index, r.right, q)
        <3>1. MinSize \in Nat
            BY SizeAssumption
        <3> QED
            BY <1>5, <2>1, <2>4, <3>1 DEF HintAfterSplit
    <2>6. index \in Slots
        BY <1>3 DEF Hint
    <2> QED
        BY <2>1, <2>2, <2>3, <2>5, <2>6 DEF Hint
<1> QED
    BY <1>2, <1>3, <1>5, <1>6, <1>7, <1>10, <1>11 DEF Splitting

\* The left half is full and is split again: the next key of the batch is above all
\* that is left of it.
LEMMA SecondSplitStep ==
    ASSUME NEW lo \in Seq(Blocks), NEW hi \in Seq(Blocks), NEW q, NEW b, NEW rh, NEW index,
           NEW wr, NEW stored, Splitting(q, b, rh, index, wr, lo, hi, stored), rh # <<>>,
           b.size = MaxSize, NEW r, r = split(b)
    PROVE  Splitting(q, r.right, rh, 0, Append(wr, r.left), lo, hi, stored)
<1>1. PICK line : line = Line(b, rh, wr, lo, hi)
    OBVIOUS
<1>2. /\ Apart(line, lo \o wr, <<b>>, rh \o hi)
      /\ Exactly(line, KeysOf(line)) /\ stored = KeysOf(line) \cup Range(q)
      /\ WellFormed(b) /\ Tracked(b, KeysOf(line))
    <2>1. LineParts(line, q, b, rh, wr, lo, hi, stored)
        BY <1>1, SplittingBlocks
    <2> QED
        BY <2>1 DEF LineParts
<1>3. /\ IsBatch(q) /\ wr \in Seq(Blocks) /\ rh \in Seq(Blocks) /\ Len(rh) <= 1
      /\ Less(KeysOf(lo \o wr), Range(q)) /\ Less(Range(q), KeysOf(hi))
      /\ Hint(b, index, rh, q)
    BY DEF Splitting
<1>4. SplitInto(r, b, KeysOf(line))
    BY <1>2, SplitIs
<1>5. r.left \in Blocks /\ r.right \in Blocks /\ r.right.size = MinSize
    BY <1>4 DEF SplitInto
<1>6. PICK next, one : /\ one = <<r.left>> /\ one \in Seq(Blocks)
                       /\ next = Line(r.right, rh, Append(wr, r.left), lo, hi)
    <2>1. <<r.left>> \in Seq(Blocks)
        BY <1>5
    <2> QED
        BY <2>1
<1>7. lo \o wr \in Seq(Blocks) /\ rh \o hi \in Seq(Blocks) /\ Append(wr, r.left) = wr \o one
    BY <1>3, <1>5, <1>6, TypeOfTwo, AppendedBlock
<1>8. Joined(lo, wr, one)
    BY <1>3, <1>6, Associative
<1>9. next = ((lo \o wr) \o <<r.left>>) \o <<r.right>> \o (rh \o hi)
    BY <1>6, <1>7, <1>8 DEF Line, Joined
<1>10. Apart(next, lo \o wr, <<r.left, r.right>>, rh \o hi)
    BY <1>5, <1>7, <1>9, TwoBlocks
<1>11. Exactly(next, KeysOf(line))
    BY <1>2, <1>4, <1>10, HalvesInPlace
<1>12. KeysOf(next) = KeysOf(line) /\ Exactly(next, KeysOf(next))
    BY <1>11 DEF Exactly
<1>13. ASSUME NEW a \in Keys(r.left), NEW e \in Range(q) PROVE a < e
    <2>1. /\ MinSize \in Nat /\ MinSize # 0 /\ MaxSize = 2 * MinSize
          /\ index \in Nat /\ index < MaxSize
        <3>1. index \in Slots
            BY <1>3 DEF Hint
        <3> QED
            BY <3>1, SizeAssumption DEF Slots
    <2>2. index >= MinSize - 1 /\ b.slots[index] < e
        <3>1. b.size # MinSize /\ b.size - MinSize - 1 = MinSize - 1
            BY <2>1
        <3> QED
            BY <1>3, <3>1 DEF Hint, HintAfterSplit
    <2>3. PICK i \in 0 .. MinSize - 1 : a = b.slots[i]
        <3>1. Keys(r.left) = { b.slots[i] : i \in 0 .. MinSize - 1 }
            BY <1>2, Halves
        <3> QED
            BY <3>1
    <2>5. /\ b.slots[index] \in Nat
          /\ \A j \in 0 .. index - 1 : b.slots[j] \in Nat /\ b.slots[j] < b.slots[index]
        <3>1. index \in 0 .. b.size - 1
            BY <2>1
        <3> QED
            BY <1>2, <3>1, InOrder
    <2>6. a \in Nat /\ a <= b.slots[index]
        <3>1. i = index \/ i \in 0 .. index - 1
            BY <2>1, <2>2, SMTT(60)
        <3> QED
            BY <2>3, <2>5, <3>1
    <2>7. e \in Nat
        BY <1>3, BatchKeys
    <2> QED
        BY <2>2, <2>5, <2>6, <2>7, SMTT(60)
<1>14. Less(KeysOf(lo \o Append(wr, r.left)), Range(q))
    <2>1. KeysOf(one) = Keys(r.left)
        BY <1>6, KeysOfOne
    <2>2. KeysOf((lo \o wr) \o one) = KeysOf(lo \o wr) \cup KeysOf(one)
        BY <1>6, <1>7, KeysOfTwo
    <2>3. KeysOf(lo \o Append(wr, r.left)) = KeysOf(lo \o wr) \cup Keys(r.left)
        BY <1>7, <1>8, <2>1, <2>2 DEF Joined
    <2> QED
        BY <1>3, <1>13, <2>3 DEF Less
<1>15. Hint(r.right, 0, rh, q)
    <2>1. 0 \in Slots /\ MinSize \in Nat /\ MinSize # 0
        BY SizeAssumption DEF Slots
    <2>2. HintAfterSplit(r.right, 0, rh[1], q)
        BY <1>5, <2>1 DEF HintAfterSplit
    <2> QED
        BY <1>5, <2>1, <2>2 DEF Hint
<1>16. Append(wr, r.left) \in Seq(Blocks)
    BY <1>3, <1>5, SMTT(60)
<1> QED
    BY <1>2, <1>3, <1>5, <1>6, <1>12, <1>14, <1>15, <1>16 DEF Splitting

-----------------------------------------------------------------------------
(* The invariant holds.                                                    *)

\* The loop goes on with a block to which the next element of the batch belongs.
GoesOn(w, k, q, lo, hi, stored) ==
    \E c, sh, start, out : /\ w = Work(k, q, c, sh, start, out)
                           /\ Splitting(q, c, sh, start, out, lo, hi, stored)
                           /\ sh # <<>> => ~(sh[1].head <= Head(q))

\* Once the loop has looked at the head of the right half.
LEMMA AfterSwitch ==
    ASSUME NEW lo \in Seq(Blocks), NEW hi \in Seq(Blocks), NEW k, NEW q, NEW b, NEW rh,
           NEW index, NEW wr, NEW stored, Splitting(q, b, rh, index, wr, lo, hi, stored),
           q # <<>>, NEW w, w = Work(k, q, b, rh, index, wr)
    PROVE  GoesOn(switched(w), k, q, lo, hi, stored)
<1>1. switched(w) = IF rh # <<>> /\ rh[1].head <= Head(q)
                    THEN Work(k, q, rh[1], <<>>, 0, Append(wr, b)) ELSE w
    <2>1. Same(switched(w), IF rh # <<>> /\ rh[1].head <= Head(q)
                            THEN Work(k, q, rh[1], <<>>, 0, Append(wr, b)) ELSE w)
        BY SwitchedIs
    <2> QED
        BY <2>1 DEF Same
<1>2. CASE rh # <<>> /\ rh[1].head <= Head(q)
    <2>1. switched(w) = Work(k, q, rh[1], <<>>, 0, Append(wr, b))
        BY <1>1, <1>2
    <2>2. Splitting(q, rh[1], <<>>, 0, Append(wr, b), lo, hi, stored)
        BY <1>2, SwitchStep
    <2> QED
        BY <2>1, <2>2 DEF GoesOn
<1>3. CASE ~(rh # <<>> /\ rh[1].head <= Head(q))
    <2>1. switched(w) = Work(k, q, b, rh, index, wr)
        BY <1>1, <1>3
    <2>2. rh # <<>> => ~(rh[1].head <= Head(q))
        BY <1>3
    <2> QED
        BY <2>1, <2>2 DEF GoesOn
<1> QED
    BY <1>2, <1>3

\* An iteration of the loop of insertIntoBlockWithSplit keeps the invariant: the
\* next element is inserted with the hint, or the full block is split.
LEMMA InsertNextStep ==
    ASSUME ChainInv, insertNext
    PROVE  ChainInv'
<1>1. PICK k, q, b, rh, index, wr, lo, hi :
         /\ chain \in Seq(Blocks) /\ k \in 1 .. Len(chain)
         /\ work = Work(k, q, b, rh, index, wr)
         /\ lo = SubSeq(chain, 1, k - 1) /\ lo \in Seq(Blocks)
         /\ hi = SubSeq(chain, k + 1, Len(chain)) /\ hi \in Seq(Blocks)
         /\ Splitting(q, b, rh, index, wr, lo, hi, keys)
    BY WhileActive DEF insertNext
<1>2. q # <<>>
    BY <1>1, WorkFields, SMTT(60) DEF insertNext
<1>5. PICK w : w = switched(work)
    OBVIOUS
<1>3. PICK c, sh, start, out :
         /\ w = Work(k, q, c, sh, start, out)
         /\ Splitting(q, c, sh, start, out, lo, hi, keys)
         /\ sh # <<>> => ~(sh[1].head <= Head(q))
    <2>1. GoesOn(switched(work), k, q, lo, hi, keys)
        BY <1>1, <1>2, AfterSwitch
    <2> QED
        BY <1>5, <2>1 DEF GoesOn
<1>4. WellFormed(c) /\ c.size \in Nat /\ c.size <= MaxSize /\ MaxSize \in Nat
    <2>1. LineParts(Line(c, sh, out, lo, hi), q, c, sh, out, lo, hi, keys)
        BY <1>1, <1>3, SplittingBlocks
    <2>2. WellFormed(c)
        BY <2>1 DEF LineParts
    <2> QED
        BY <2>2, SizeAssumption, SMTT(60) DEF WellFormed, Blocks
<1>6. w.insertionBlock = c
    BY <1>3, WorkFields, SMTT(60)
<1>7. chain' = chain /\ keys' = keys
      /\ work' = IF w.insertionBlock.size < MaxSize THEN inserted(w) ELSE splitFull(w)
    BY <1>5 DEF insertNext
<1>8. \E t, d, th, at, done : /\ work' = Work(k, t, d, th, at, done)
                              /\ Splitting(t, d, th, at, done, lo, hi, keys)
    <2>1. CASE c.size < MaxSize
        <3>1. PICK r : r = insertWithIndex(c, Head(q), start)
            OBVIOUS
        <3>2. inserted(w) = Work(k, Tail(q), r.block, sh, r.index, out)
            <4>1. Same(inserted(w), Work(k, Tail(q), r.block, sh, r.index, out))
                BY <1>3, <3>1, InsertedIs
            <4> QED
                BY <4>1 DEF Same
        <3>3. Splitting(Tail(q), r.block, sh, r.index, out, lo, hi, keys)
            BY <1>1, <1>2, <1>3, <2>1, <3>1, InsertStep
        <3>4. work' = Work(k, Tail(q), r.block, sh, r.index, out)
            BY <1>6, <1>7, <2>1, <3>2
        <3> QED
            BY <3>3, <3>4
    <2>2. CASE ~(c.size < MaxSize)
        <3>1. PICK r : r = split(c)
            OBVIOUS
        <3>2. c.size = MaxSize
            BY <1>4, <2>2
        <3>3. work' = IF sh # <<>> THEN Work(k, q, r.right, sh, 0, Append(out, r.left))
                      ELSE Work(k, q, r.left, <<r.right>>, start, out)
            <4>1. work' = splitFull(w)
                BY <1>6, <1>7, <2>2
            <4>2. splitFull(w) = IF sh # <<>> THEN Work(k, q, r.right, sh, 0, Append(out, r.left))
                                 ELSE Work(k, q, r.left, <<r.right>>, start, out)
                <5>1. Same(splitFull(w),
                           IF sh # <<>> THEN Work(k, q, r.right, sh, 0, Append(out, r.left))
                           ELSE Work(k, q, r.left, <<r.right>>, start, out))
                    <6>1. w = Work(k, q, c, sh, start, out)
                        BY <1>3
                    <6> QED
                        BY <3>1, <6>1, SplitFullIs, SMTT(60)
                <5> QED
                    BY <5>1 DEF Same
            <4> QED
                BY <4>1, <4>2
        <3>4. CASE sh # <<>>
            <4>1. Splitting(q, r.right, sh, 0, Append(out, r.left), lo, hi, keys)
                BY <1>1, <1>3, <3>1, <3>2, <3>4, SecondSplitStep
            <4>2. work' = Work(k, q, r.right, sh, 0, Append(out, r.left))
                BY <3>3, <3>4
            <4> QED
                BY <4>1, <4>2
        <3>5. CASE sh = <<>>
            <4>1. Splitting(q, r.left, <<r.right>>, start, out, lo, hi, keys)
                BY <1>1, <1>3, <3>1, <3>2, <3>5, FirstSplitStep
            <4>2. work' = Work(k, q, r.left, <<r.right>>, start, out)
                BY <3>3, <3>5
            <4> QED
                BY <4>1, <4>2
        <3> QED
            BY <3>4, <3>5
    <2> QED
        BY <2>1, <2>2
<1>9. PICK t, d, th, at, done : /\ work' = Work(k, t, d, th, at, done)
                                /\ Splitting(t, d, th, at, done, lo, hi, keys)
    BY <1>8
<1>10. /\ work'.active /\ work'.block = k /\ work'.batch = t /\ work'.insertionBlock = d
       /\ work'.rightHalf = th /\ work'.lastInsertionIndex = at /\ work'.written = done
    BY <1>9, WorkFields, SMTT(60)
<1> QED
    BY <1>1, <1>7, <1>9, <1>10 DEF ChainInv

\* The inductive invariant holds at all times: between two calls the blocks are in
\* key order and hold the keys of the set; within insertIntoBlockWithSplit this holds
\* of the blocks in work between the others, the rest of the batch fits between the
\* blocks before and behind, and the search hint is good for it.
THEOREM ChainInvHolds == Spec => []ChainInv
<1>1. Init => ChainInv
    <2>1. InKeyOrder(<<>>, {}) /\ KeysOf(<<>>) = {} /\ <<>> \in Seq(Blocks)
        BY DEF InKeyOrder, KeysOf
    <2> QED
        BY <2>1 DEF Init, ChainInv, Exactly
<1>2. ChainInv /\ [Next]_vars => ChainInv'
    <2> SUFFICES ASSUME ChainInv, [Next]_vars PROVE ChainInv'
        OBVIOUS
    <2>1. ASSUME NEW k \in 0 .. Len(chain), NEW part \in Batches,
                 insertNewBlock(k, part)
          PROVE  ChainInv'
        BY <2>1, NewBlockStep
    <2>2. ASSUME NEW k \in 1 .. Len(chain), NEW part \in Batches,
                 insertIntoBlockWithoutSplit(k, part)
          PROVE  ChainInv'
        BY <2>2, WithoutSplitStep
    <2>3. ASSUME NEW k \in 1 .. Len(chain), NEW part \in Batches,
                 insertIntoBlockWithSplit(k, part)
          PROVE  ChainInv'
        BY <2>3, WithSplitStep
    <2>4. CASE insertNext
        BY <2>4, InsertNextStep
    <2>5. CASE writeBlocks
        BY <2>5, WriteBlocksStep
    <2>6. ASSUME NEW k \in 1 .. Len(chain) - 1, mergeNeighbours(k) PROVE ChainInv'
        BY <2>6, MergeNeighboursStep
    <2>7. CASE UNCHANGED vars
        BY <2>7 DEF vars, ChainInv
    <2> QED
        BY <2>1, <2>2, <2>3, <2>4, <2>5, <2>6, <2>7 DEF Next
<1> QED
    BY <1>1, <1>2, PTL DEF Spec

-----------------------------------------------------------------------------
(* What the invariant implies.                                             *)

\* All blocks, those in work included.
LEMMA AllBlocks ==
    ASSUME ChainInv
    PROVE  /\ InKeyOrder(All, KeysOf(All))
           /\ keys = KeysOf(All) \cup (IF work.active THEN Range(work.batch) ELSE {})
<1>1. CASE ~work.active
    <2>1. InKeyOrder(chain, keys) /\ keys = KeysOf(chain)
        BY <1>1, WhileIdle
    <2>2. All = chain
        BY <1>1 DEF All
    <2> QED
        BY <1>1, <2>1, <2>2
<1>2. CASE work.active
    <2>1. PICK k, q, b, rh, index, wr, lo, hi :
             /\ chain \in Seq(Blocks) /\ k \in 1 .. Len(chain)
             /\ work = Work(k, q, b, rh, index, wr)
             /\ lo = SubSeq(chain, 1, k - 1) /\ lo \in Seq(Blocks)
             /\ hi = SubSeq(chain, k + 1, Len(chain)) /\ hi \in Seq(Blocks)
             /\ Splitting(q, b, rh, index, wr, lo, hi, keys)
        BY <1>2, WhileActive
    <2>2. /\ work.batch = q /\ work.written = wr /\ work.insertionBlock = b
          /\ work.rightHalf = rh /\ work.block = k
        BY <2>1, WorkFields, SMTT(60)
    <2>3. PICK line : line = Line(b, rh, wr, lo, hi)
        OBVIOUS
    <2>4. /\ b \in Blocks /\ wr \in Seq(Blocks) /\ rh \in Seq(Blocks)
          /\ InKeyOrder(line, KeysOf(line)) /\ keys = KeysOf(line) \cup Range(q)
        BY <2>1, <2>3 DEF Splitting, Exactly
    <2>5. All = line
        <3>1. All = lo \o (Append(wr, b) \o rh) \o hi
            BY <1>2, <2>1, <2>2 DEF All, Open
        <3>2. SameLine(lo, wr, b, rh, hi)
            BY <2>1, <2>4, WrittenOut
        <3> QED
            BY <2>3, <3>1, <3>2 DEF Line, SameLine
    <2> QED
        BY <1>2, <2>2, <2>4, <2>5
<1> QED
    BY <1>1, <1>2

\* The invariant makes every block well-formed.
LEMMA TypeOKFromInv == ChainInv => TypeOK
<1> SUFFICES ASSUME ChainInv, NEW k \in 1 .. Len(All), NEW b, b = All[k]
             PROVE  /\ b \in Blocks /\ b.size > 0 /\ b.head = b.slots[0]
                    /\ \A i \in 0 .. b.size - 1 : b.slots[i] # 0
                    /\ \A i \in 0 .. b.size - 2 : b.slots[i] < b.slots[i + 1]
    BY DEF TypeOK
<1>1. WellFormed(b) /\ b.size > 0
    BY AllBlocks DEF InKeyOrder
<1>2. b \in Blocks /\ b.size \in Nat /\ Increasing(b.slots, b.size) /\ b.head = b.slots[0]
    BY <1>1, SizeAssumption, SMTT(60) DEF WellFormed, Blocks
<1>3. ASSUME NEW i \in 0 .. b.size - 2 PROVE b.slots[i] < b.slots[i + 1]
    <2>1. i + 1 \in 0 .. b.size - 1 /\ i \in 0 .. (i + 1) - 1
        BY <1>2
    <2> QED
        BY <1>2, <2>1 DEF Increasing
<1> QED
    BY <1>1, <1>2, <1>3 DEF Increasing

\* The invariant keeps every key, in one block.
LEMMA NothingLostFromInv == ChainInv => NothingLost
<1> SUFFICES ASSUME ChainInv PROVE NothingLost
    OBVIOUS
<1>1. /\ InKeyOrder(All, KeysOf(All)) /\ Len(All) \in Nat
      /\ keys = KeysOf(All) \cup (IF work.active THEN Range(work.batch) ELSE {})
    BY AllBlocks DEF InKeyOrder
<1>2. ASSUME NEW k \in 1 .. Len(All) - 1 PROVE LastKey(All[k]) < All[k + 1].head
    <2>1. k \in 1 .. Len(All) /\ k + 1 \in 1 .. Len(All) /\ k \in 1 .. (k + 1) - 1
        BY <1>1
    <2>2. /\ WellFormed(All[k]) /\ All[k].size > 0
          /\ WellFormed(All[k + 1]) /\ All[k + 1].size > 0
          /\ Less(Keys(All[k]), Keys(All[k + 1]))
        BY <1>1, <2>1 DEF InKeyOrder
    <2>3. LastKey(All[k]) \in Keys(All[k]) /\ All[k + 1].head \in Keys(All[k + 1])
        BY <2>2, Ends
    <2> QED
        BY <2>2, <2>3 DEF Less
<1>3. KeysOf(All) = UNION { Keys(All[k]) : k \in 1 .. Len(All) }
    BY DEF KeysOf
<1>4. (UNION { Keys(All[k]) : k \in 1 .. Len(All) })
         \cup (IF work.active THEN Range(work.batch) ELSE {}) = keys
    BY <1>1, <1>3
<1>5. \A k \in 1 .. Len(All) - 1 : LastKey(All[k]) < All[k + 1].head
    BY <1>2
<1> QED
    BY <1>4, <1>5 DEF NothingLost

\* The invariant explains why old values in unused slots do no harm: they are keys
\* that are stored, so they lie in the range of their block below its last key, or
\* belong to another block.
LEMMA StaleSlotsFromInv == ChainInv => StaleSlotsHarmless
<1> SUFFICES ASSUME ChainInv, NEW k \in 1 .. Len(All), NEW i \in All[k].size .. MaxSize - 1,
                    NEW key, key = All[k].slots[i], key # 0
             PROVE  key <= LastKey(All[k]) \/ (k < Len(All) /\ All[k + 1].head <= key)
    BY DEF StaleSlotsHarmless
<1>1. InKeyOrder(All, KeysOf(All)) /\ Len(All) \in Nat
    BY AllBlocks DEF InKeyOrder
<1>2. ASSUME NEW j \in 1 .. Len(All) PROVE WellFormed(All[j]) /\ All[j].size > 0
    BY <1>1 DEF InKeyOrder
<1>3. key \in KeysOf(All)
    <2>1. Tracked(All[k], KeysOf(All))
        BY <1>1 DEF InKeyOrder
    <2>2. i \in Slots
        <3>1. All[k].size \in Nat
            BY <1>2, SMTT(60) DEF WellFormed, Blocks
        <3> QED
            BY <3>1, SizeAssumption, SMTT(60) DEF Slots
    <2> QED
        BY <2>1, <2>2 DEF Tracked
<1>4. PICK j \in 1 .. Len(All) : key \in Keys(All[j])
    BY <1>3 DEF KeysOf
<1>5. key \in Nat
    BY <1>2, <1>4, Ends
<1>6. /\ LastKey(All[k]) \in Keys(All[k]) /\ LastKey(All[k]) \in Nat
      /\ \A e \in Keys(All[k]) : e <= LastKey(All[k])
    BY <1>2, Ends
<1>7. CASE j = k
    BY <1>4, <1>6, <1>7
<1>8. CASE j < k
    <2>1. j \in 1 .. k - 1
        BY <1>8
    <2>2. Less(Keys(All[j]), Keys(All[k]))
        BY <1>1, <2>1 DEF InKeyOrder
    <2>3. key < LastKey(All[k])
        BY <1>4, <1>6, <2>2 DEF Less
    <2> QED
        BY <1>5, <1>6, <2>3, SMTT(60)
<1>9. CASE j > k
    <2>1. k < Len(All) /\ k + 1 \in 1 .. Len(All)
        BY <1>1, <1>9, SMTT(60)
    <2>2. /\ All[k + 1].head \in Keys(All[k + 1]) /\ All[k + 1].head \in Nat
          /\ \A e \in Keys(All[k + 1]) : All[k + 1].head <= e
        BY <1>2, <2>1, Ends
    <2>3. CASE j = k + 1
        BY <1>4, <2>1, <2>2, <2>3
    <2>4. CASE j # k + 1
        <3>1. k + 1 \in 1 .. j - 1
            BY <1>9, <2>4
        <3>2. Less(Keys(All[k + 1]), Keys(All[j]))
            BY <1>1, <3>1 DEF InKeyOrder
        <3>3. All[k + 1].head < key
            BY <1>4, <2>2, <3>2 DEF Less
        <3> QED
            BY <1>5, <2>1, <2>2, <3>3, SMTT(60)
    <2> QED
        BY <2>3, <2>4
<1> QED
    BY <1>7, <1>8, <1>9, SMTT(60)

\* The invariant covers the element that comes next.
LEMMA HintFromInv == ChainInv => HintValid
<1> SUFFICES ASSUME ChainInv, work.active, work.batch # <<>>,
                    NEW w, w = switched(work), w.insertionBlock.size < MaxSize
             PROVE  /\ w.lastInsertionIndex <= w.insertionBlock.size
                    /\ \A i \in 0 .. w.lastInsertionIndex - 1 :
                          w.insertionBlock.slots[i] < Head(w.batch)
    BY DEF HintValid
<1>1. PICK k, q, b, rh, index, wr, lo, hi :
         /\ work = Work(k, q, b, rh, index, wr)
         /\ lo \in Seq(Blocks) /\ hi \in Seq(Blocks)
         /\ Splitting(q, b, rh, index, wr, lo, hi, keys)
    BY WhileActive, SMTT(60)
<1>2. q # <<>>
    BY <1>1, WorkFields, SMTT(60)
<1>3. PICK c, sh, start, out :
         /\ w = Work(k, q, c, sh, start, out)
         /\ Splitting(q, c, sh, start, out, lo, hi, keys)
         /\ sh # <<>> => ~(sh[1].head <= Head(q))
    <2>1. GoesOn(switched(work), k, q, lo, hi, keys)
        BY <1>1, <1>2, AfterSwitch
    <2> QED
        BY <2>1 DEF GoesOn
<1>4. w.insertionBlock = c /\ w.lastInsertionIndex = start /\ w.batch = q
    BY <1>3, WorkFields, SMTT(60)
<1>5. PICK line : line = Line(c, sh, out, lo, hi)
    OBVIOUS
<1>6. WellFormed(c) /\ c.size > 0 /\ InKeyOrder(sh, KeysOf(line))
    <2>1. LineParts(line, q, c, sh, out, lo, hi, keys)
        BY <1>1, <1>3, <1>5, SplittingBlocks
    <2> QED
        BY <2>1 DEF LineParts
<1>7. /\ IsBatch(q) /\ sh \in Seq(Blocks) /\ Len(sh) <= 1 /\ Hint(c, start, sh, q)
    BY <1>3 DEF Splitting
<1>8. sh # <<>> => sh[1].head \in Nat /\ Head(q) < sh[1].head
    <2>1. Head(q) \in Nat
        BY <1>2, <1>7, FirstOfBatch
    <2>2. sh # <<>> => sh[1].head \in Nat
        BY <1>6, <1>7, RightHalf
    <2> QED
        BY <1>3, <2>1, <2>2, SMTT(60)
<1>9. InsertHint(c, q, sh, start)
    BY <1>2, <1>6, <1>7, <1>8, HintUsable
<1>10. c.size \in Nat
    BY <1>6, SMTT(60) DEF WellFormed, Blocks
<1> QED
    BY <1>4, <1>9, <1>10, SMTT(60) DEF InsertHint

\* For blocks of every size: every block is well-formed after every call of merge,
\* mergeFaster, insertWithIndex, split, mergeSmaller, steal and stealFromSmaller that
\* the array makes.
THEOREM ChainTypeOK == Spec => []TypeOK
BY ChainInvHolds, TypeOKFromInv, PTL

\* For blocks of every size: the blocks hold the keys of the set, each in the one
\* block that a search for it ends in, whatever was merged, split or moved.
THEOREM ChainNothingLost == Spec => []NothingLost
BY ChainInvHolds, NothingLostFromInv, PTL

\* For blocks of every size: neither the hint of the last insertion, kept over a
\* split, nor a value left above the size of a block misleads insertWithIndex.
THEOREM ChainSearchSound == Spec => []SearchSound
<1>1. ChainInv => SearchSound
    BY StaleSlotsFromInv, HintFromInv DEF SearchSound
<1> QED
    BY <1>1, ChainInvHolds, PTL
=============================================================================
