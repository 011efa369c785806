---------------------------- MODULE MempoolLemmas ----------------------------
(***************************************************************************)
(* What the operators of ThresholdMempool return, for the proofs about the *)
(* modules that use them.                                                  *)
(***************************************************************************)
EXTENDS ThresholdMempool, FoldLemmas

\* Collecting the bids of a transaction keeps bids only, and all of them.
LEMMA BidsCollected ==
    ASSUME NEW tx, NEW M, tx.msgs \in Seq(M)
    PROVE  /\ BidsOf(tx) \in Seq(Bid)
           /\ ToSet(BidsOf(tx)) = BidSet(tx)
<1> DEFINE ss == [j \in DOMAIN tx.msgs |-> IF IsBid(tx.msgs[j]) THEN <<tx.msgs[j]>> ELSE <<>>]
<1>1. /\ DOMAIN tx.msgs = 1..Len(tx.msgs) /\ Len(tx.msgs) \in Nat
      /\ ss \in Seq(Seq(Bid)) /\ Len(ss) = Len(tx.msgs)
  <2>1. \A j \in DOMAIN tx.msgs :
           (IF IsBid(tx.msgs[j]) THEN <<tx.msgs[j]>> ELSE <<>>) \in Seq(Bid)
    BY DEF IsBid
  <2>2. DOMAIN tx.msgs = 1..Len(tx.msgs) /\ Len(tx.msgs) \in Nat
    BY LenProperties
  <2>3. ss \in [1..Len(tx.msgs) -> Seq(Bid)]
    BY <2>1, <2>2
  <2> HIDE DEF ss
  <2> QED BY <2>2, <2>3, IsASeq, LenProperties
<1>2. /\ FlattenSeq(ss) \in Seq(Bid)
      /\ \A x : x \in ToSet(FlattenSeq(ss)) <=> \E j \in 1..Len(ss) : x \in ToSet(ss[j])
  <2> HIDE DEF ss
  <2> QED BY <1>1, FlattenElements
<1>3. \A j \in 1..Len(ss) : \A x : x \in ToSet(ss[j]) <=> x = tx.msgs[j] /\ IsBid(x)
  <2> SUFFICES ASSUME NEW j \in 1..Len(ss)
               PROVE  \A x : x \in ToSet(ss[j]) <=> x = tx.msgs[j] /\ IsBid(x)
    OBVIOUS
  <2>1. CASE IsBid(tx.msgs[j])
    <3>1. ss[j] = <<tx.msgs[j]>>
      BY <1>1, <2>1
    <3> HIDE DEF ss
    <3>2. ToSet(ss[j]) = {tx.msgs[j]}
      BY <3>1 DEF ToSet
    <3> QED BY <2>1, <3>2
  <2>2. CASE ~IsBid(tx.msgs[j])
    <3>1. ss[j] = <<>>
      BY <1>1, <2>2
    <3> HIDE DEF ss
    <3>2. ToSet(ss[j]) = {}
      BY <3>1 DEF ToSet
    <3> QED BY <2>2, <3>2
  <2> QED BY <2>1, <2>2
<1>4. \A x : x \in ToSet(tx.msgs) <=> \E j \in 1..Len(tx.msgs) : x = tx.msgs[j]
  BY <1>1 DEF ToSet
<1>5. ToSet(FlattenSeq(ss)) = BidSet(tx)
  <2> HIDE DEF ss
  <2> QED BY <1>1, <1>2, <1>3, <1>4 DEF BidSet
<1>6. BidsOf(tx) = FlattenSeq(ss)
  BY DEF BidsOf
<1> QED BY <1>2, <1>5, <1>6

-----------------------------------------------------------------------------
(* The pools *)

\* Removing the element at a position shifts the ones behind it.
LEMMA RemoveAtProperties ==
    ASSUME NEW S, NEW s \in Seq(S), NEW k \in 1..Len(s)
    PROVE  /\ RemoveAt(s, k) \in Seq(S)
           /\ Len(RemoveAt(s, k)) = Len(s) - 1
           /\ \A i \in 1..Len(s) - 1 :
                 RemoveAt(s, k)[i] = IF i < k THEN s[i] ELSE s[i + 1]
<1> DEFINE a == SubSeq(s, 1, k - 1)
           b == SubSeq(s, k + 1, Len(s))
           c == a \o b
<1>0. Len(s) \in Nat /\ k \in Int /\ \A i \in 1..Len(s) : s[i] \in S
  BY LenProperties, ElementOfSeq
<1>1. /\ a \in Seq(S) /\ Len(a) = k - 1
      /\ \A i \in 1..k - 1 : a[i] = s[i]
  BY <1>0, SubSeqProperties
<1>2. /\ b \in Seq(S) /\ Len(b) = Len(s) - k
      /\ \A i \in 1..Len(s) - k : b[i] = s[k + i]
  BY <1>0, SubSeqProperties
<1> HIDE DEF a, b
<1>3. /\ c \in Seq(S) /\ Len(c) = Len(s) - 1
      /\ \A i \in 1..Len(s) - 1 :
            c[i] = IF i <= k - 1 THEN a[i] ELSE b[i - (k - 1)]
  BY <1>0, <1>1, <1>2, ConcatProperties
<1> HIDE DEF c
<1>4. ASSUME NEW i \in 1..Len(s) - 1
      PROVE  c[i] = IF i < k THEN s[i] ELSE s[i + 1]
  <2>1. CASE i < k
    BY <2>1, <1>0, <1>1, <1>3
  <2>2. CASE i >= k
    <3>1. i - (k - 1) \in 1..Len(s) - k /\ k + (i - (k - 1)) = i + 1
      BY <2>2, <1>0
    <3>0. ~(i <= k - 1)
      BY <2>2, <1>0
    <3>2. c[i] = b[i - (k - 1)]
      BY <3>0, <1>3
    <3>3. b[i - (k - 1)] = s[k + (i - (k - 1))]
      BY <3>1, <1>2
    <3> QED BY <2>2, <3>1, <3>2, <3>3, <1>0
  <2> QED BY <2>1, <2>2, <1>0
<1> QED BY <1>3, <1>4 DEF RemoveAt, a, b, c

\* The scan of Update and Remove takes out the first Equal transaction.
LEMMA WithoutHeld ==
    ASSUME NEW p \in Pools, NEW tx, Holds(p, tx)
    PROVE  \E k \in 1..Len(p.txs) :
              /\ Equal(p.txs[k], tx)
              /\ \A j \in 1..k - 1 : ~Equal(p.txs[j], tx)
              /\ Without(p, tx) = [idx |-> p.idx, txs |-> RemoveAt(p.txs, k)]
<1> DEFINE I == {i \in 1..Len(p.txs) : Equal(p.txs[i], tx)}
<1>0. I \in SUBSET Nat /\ I # {}
  BY DEF Holds
<1> HIDE DEF I
<1>1. PICK k \in I : \A j \in I : k <= j
  BY <1>0, LeastNat
<1> USE DEF I
<1>2. \A j \in 1..k - 1 : ~Equal(p.txs[j], tx)
  BY <1>1, LenProperties DEF Pools
<1>3. /\ FirstEqual(p, tx) \in 1..Len(p.txs)
      /\ Equal(p.txs[FirstEqual(p, tx)], tx)
      /\ \A j \in 1..FirstEqual(p, tx) - 1 : ~Equal(p.txs[j], tx)
  BY <1>1, <1>2 DEF FirstEqual
<1> QED BY <1>3 DEF Without, Pools

\* What is left after the scan, whether or not it found something.
LEMMA WithoutProperties ==
    ASSUME NEW p \in Pools, NEW tx
    PROVE  /\ Without(p, tx) \in Pools
           /\ Without(p, tx).idx = p.idx
           /\ \A i \in 1..Len(Without(p, tx).txs) : \E j \in 1..Len(p.txs) :
                 Without(p, tx).txs[i] = p.txs[j]
<1>1. p.txs \in Seq(Tx) /\ p.idx \in Nat /\ Len(p.txs) \in Nat
  BY LenProperties DEF Pools
<1>2. CASE ~Holds(p, tx)
  BY <1>1, <1>2 DEF Without
<1>3. CASE Holds(p, tx)
  <2>1. PICK k \in 1..Len(p.txs) :
            Without(p, tx) = [idx |-> p.idx, txs |-> RemoveAt(p.txs, k)]
    BY <1>3, WithoutHeld
  <2>2. /\ RemoveAt(p.txs, k) \in Seq(Tx)
        /\ Len(RemoveAt(p.txs, k)) = Len(p.txs) - 1
        /\ \A i \in 1..Len(p.txs) - 1 :
              RemoveAt(p.txs, k)[i] = IF i < k THEN p.txs[i] ELSE p.txs[i + 1]
    BY <1>1, RemoveAtProperties
  <2> HIDE DEF RemoveAt
  <2>3. ASSUME NEW i \in 1..Len(p.txs) - 1
        PROVE  \E j \in 1..Len(p.txs) : RemoveAt(p.txs, k)[i] = p.txs[j]
    <3>1. i \in 1..Len(p.txs) /\ i + 1 \in 1..Len(p.txs)
      BY <1>1
    <3> QED BY <3>1, <2>2
  <2> QED BY <1>1, <2>1, <2>2, <2>3 DEF Pools
<1> QED BY <1>2, <1>3

LEMMA WithProperties ==
    ASSUME NEW p \in Pools, NEW tx \in Tx
    PROVE  /\ With(p, tx) \in Pools
           /\ With(p, tx).idx = p.idx
           /\ Len(With(p, tx).txs) = Len(p.txs) + 1
           /\ With(p, tx).txs[Len(p.txs) + 1] = tx
           /\ \A i \in 1..Len(p.txs) : With(p, tx).txs[i] = p.txs[i]
<1>1. p.txs \in Seq(Tx) /\ p.idx \in Nat
  BY DEF Pools
<1>2. /\ Append(p.txs, tx) \in Seq(Tx)
      /\ Len(Append(p.txs, tx)) = Len(p.txs) + 1
      /\ Append(p.txs, tx)[Len(p.txs) + 1] = tx
      /\ \A i \in 1..Len(p.txs) : Append(p.txs, tx)[i] = p.txs[i]
  BY <1>1, AppendProperties
<1> QED BY <1>1, <1>2 DEF With, Pools

LEMMA AdvanceProperties ==
    ASSUME NEW p \in Pools
    PROVE  /\ Advance(p) \in Pools
           /\ Advance(p).txs = p.txs
           /\ Advance(p).idx = IF Exhausted(p) THEN p.idx ELSE p.idx + 1
BY DEF Advance, Pools

LEMMA CurrentProperties ==
    ASSUME NEW p \in Pools, ~OutOfBound(p)
    PROVE  /\ p.idx + 1 \in 1..Len(p.txs)
           /\ Current(p) = p.txs[p.idx + 1]
           /\ Current(p) \in Tx
<1>1. p.txs \in Seq(Tx) /\ p.idx \in Nat /\ Len(p.txs) \in Nat
  BY LenProperties DEF Pools
<1>2. p.idx + 1 \in 1..Len(p.txs)
  BY <1>1 DEF OutOfBound
<1> QED BY <1>1, <1>2, ElementOfSeq DEF Current

\* Every operation maps mempools to mempools.
LEMMA MempoolTypes ==
    ASSUME NEW m \in Mempools, NEW tx \in Tx
    PROVE  /\ Insert(m, tx) \in Mempools
           /\ Update(m, tx) \in Mempools
           /\ RemoveTx(m, tx) \in Mempools
<1>1. m.pendingPool \in Pools /\ m.pool \in Pools
  BY DEF Mempools
<1>2. /\ With(m.pendingPool, tx) \in Pools /\ With(m.pool, tx) \in Pools
      /\ Without(m.pendingPool, tx) \in Pools /\ Without(m.pool, tx) \in Pools
  BY <1>1, WithProperties, WithoutProperties
<1> QED BY <1>1, <1>2 DEF Mempools, Insert, Update, RemoveTx

LEMMA NewMempoolType == NewThresholdMempool \in Mempools
<1>1. EmptyPool \in Pools
  BY EmptySeq DEF EmptyPool, Pools
<1> QED BY <1>1 DEF NewThresholdMempool, Mempools

\* The bids of a transaction of the system.
LEMMA BidsOfTx ==
    ASSUME NEW tx \in Tx
    PROVE  /\ BidsOf(tx) \in Seq(Bid)
           /\ ToSet(BidsOf(tx)) = BidSet(tx)
<1>1. tx.msgs \in Seq(Msg)
  BY TxAssumption
<1> QED BY <1>1, BidsCollected

-----------------------------------------------------------------------------
(* The walks of ExtendVote and PrepareProposal as single steps *)

\* Where the transactions that a walk of ExtendVote leaves were before.
LeftAt(p, i) == IF i <= p.idx THEN i ELSE p.idx + 2 * (i - p.idx)

Left(p) == SubSeq(p.txs, 1, p.idx) \o Skips(p)

LEMMA WalkedProperties ==
    ASSUME NEW p \in Pools
    PROVE  /\ Walked(p) \in Seq(Tx)
           /\ Len(Walked(p)) = (Ahead(p) + 1) \div 2
           /\ \A k \in 1..Len(Walked(p)) : Walked(p)[k] = p.txs[p.idx + 2 * k - 1]
           /\ \A x \in ToSet(Walked(p)) : \E k \in Nat : /\ p.idx + 2 * k - 1 \in 1..Len(p.txs)
                                                       /\ k > 0
                                                       /\ x = p.txs[p.idx + 2 * k - 1]
<1> DEFINE a == Ahead(p)
           n == (a + 1) \div 2
           w == Walked(p)
<1>0. /\ p.txs \in Seq(Tx) /\ p.idx \in Nat /\ Len(p.txs) \in Nat
      /\ \A i \in 1..Len(p.txs) : p.txs[i] \in Tx
  BY LenProperties, ElementOfSeq DEF Pools
<1>1. a \in Nat /\ (a # 0 => a = Len(p.txs) - p.idx)
  BY <1>0 DEF Ahead, OutOfBound
<1>2. n \in Nat /\ \A k \in 1..n : p.idx + 2 * k - 1 \in 1..Len(p.txs)
  <2> HIDE DEF a
  <2> QED BY <1>0, <1>1
<1>3. w = [k \in 1..n |-> p.txs[p.idx + 2 * k - 1]]
  BY DEF Walked
<1> HIDE DEF a, n, w
<1>4. w \in [1..n -> Tx] /\ \A k \in 1..n : w[k] = p.txs[p.idx + 2 * k - 1]
  BY <1>0, <1>2, <1>3
<1>5. w \in Seq(Tx) /\ DOMAIN w = 1..n /\ Len(w) = n
  BY <1>2, <1>4
<1>6. ASSUME NEW x \in ToSet(w)
      PROVE  \E k \in Nat : /\ p.idx + 2 * k - 1 \in 1..Len(p.txs) /\ k > 0
                            /\ x = p.txs[p.idx + 2 * k - 1]
  <2>1. PICK k \in 1..n : x = w[k]
    BY <1>5 DEF ToSet
  <2>2. k \in Nat /\ k > 0
    BY <1>2
  <2> QED BY <1>2, <1>4, <2>1, <2>2
<1> QED BY <1>4, <1>5, <1>6 DEF w, n, a

LEMMA LeftProperties ==
    ASSUME NEW p \in Pools, Ahead(p) # 0
    PROVE  /\ Left(p) \in Seq(Tx)
           /\ Len(Left(p)) = p.idx + Ahead(p) \div 2
           /\ \A i \in 1..Len(Left(p)) : /\ LeftAt(p, i) \in 1..Len(p.txs)
                                         /\ Left(p)[i] = p.txs[LeftAt(p, i)]
<1> DEFINE a == Ahead(p)
           n == a \div 2
           s == Skips(p)
           h == SubSeq(p.txs, 1, p.idx)
           d == p.idx
<1>0. /\ p.txs \in Seq(Tx) /\ d \in Nat /\ Len(p.txs) \in Nat
      /\ \A i \in 1..Len(p.txs) : p.txs[i] \in Tx
  BY LenProperties, ElementOfSeq DEF Pools
<1>1. a \in Nat /\ a = Len(p.txs) - d
  BY <1>0 DEF Ahead, OutOfBound
<1>2. n \in Nat /\ \A k \in 1..n : d + 2 * k \in 1..Len(p.txs)
  <2> HIDE DEF a
  <2> QED BY <1>0, <1>1
<1>3. s = [k \in 1..n |-> p.txs[d + 2 * k]]
  BY DEF Skips
<1>4. d \in 0..Len(p.txs)
  BY <1>0, <1>1
<1>5. h \in Seq(Tx) /\ Len(h) = d /\ \A i \in 1..d : h[i] = p.txs[i]
  <2>1. \A i \in 1..d : p.txs[i] \in Tx
    BY <1>0, <1>4
  <2>2. 1 \in Int /\ d \in Int
    BY <1>0
  <2> HIDE DEF d
  <2>3. CASE d = 0
    <3>1. h = <<>>
      BY <2>3, SubSeqEmpty DEF d
    <3> HIDE DEF h
    <3> QED BY <2>3, <3>1, EmptySeq
  <2>4. CASE d # 0
    <3>1. 1 <= d /\ d - 1 + 1 = d
      BY <1>4, <2>4, <1>0
    <3> QED BY <1>0, <1>4, <2>1, <2>2, <3>1, SubSeqProperties DEF d
  <2> QED BY <2>3, <2>4
<1> HIDE DEF a, n, s, h
<1>6. s \in [1..n -> Tx] /\ \A k \in 1..n : s[k] = p.txs[d + 2 * k]
  BY <1>0, <1>2, <1>3
<1>7. s \in Seq(Tx) /\ Len(s) = n
  BY <1>2, <1>6
<1>8. /\ h \o s \in Seq(Tx) /\ Len(h \o s) = d + n
      /\ \A i \in 1..d + n : (h \o s)[i] = IF i <= d THEN h[i] ELSE s[i - d]
  <2>1. h \in Seq(Tx) /\ s \in Seq(Tx) /\ Len(h) = d /\ Len(s) = n
    BY <1>5, <1>7
  <2>2. /\ h \o s \in Seq(Tx) /\ Len(h \o s) = Len(h) + Len(s)
        /\ \A i \in 1..Len(h) + Len(s) :
              (h \o s)[i] = IF i <= Len(h) THEN h[i] ELSE s[i - Len(h)]
    BY <2>1, ConcatProperties
  <2> HIDE DEF d
  <2> QED BY <2>1, <2>2
<1>9. ASSUME NEW i \in 1..d + n
      PROVE  LeftAt(p, i) \in 1..Len(p.txs) /\ (h \o s)[i] = p.txs[LeftAt(p, i)]
  <2>1. CASE i <= d
    <3>1. LeftAt(p, i) = i /\ i \in 1..d /\ i \in 1..Len(p.txs)
      BY <1>0, <1>4, <2>1 DEF LeftAt
    <3> QED BY <1>5, <1>8, <2>1, <3>1
  <2>2. CASE ~(i <= d)
    <3>1. LeftAt(p, i) = d + 2 * (i - d) /\ i - d \in 1..n
      BY <1>0, <1>2, <2>2 DEF LeftAt
    <3> QED BY <1>2, <1>6, <1>8, <2>2, <3>1
  <2> QED BY <2>1, <2>2
<1>10. Left(p) = h \o s
  BY DEF Left, h, s
<1> QED BY <1>8, <1>9, <1>10 DEF n, a

LEMMA LeftDistinct ==
    ASSUME NEW p \in Pools, Ahead(p) # 0, IsInjective(p.txs)
    PROVE  /\ IsInjective(Left(p))
           /\ ToSet(Left(p)) \cap ToSet(Walked(p)) = {}
<1> DEFINE d == p.idx
<1>0. /\ d \in Nat /\ Left(p) \in Seq(Tx) /\ Len(Left(p)) \in Nat
      /\ DOMAIN Left(p) = 1..Len(Left(p)) /\ DOMAIN p.txs = 1..Len(p.txs)
      /\ \A i \in 1..Len(Left(p)) : /\ LeftAt(p, i) \in 1..Len(p.txs)
                                    /\ Left(p)[i] = p.txs[LeftAt(p, i)]
  BY LeftProperties, LenProperties DEF Pools
<1>1. \A i, j \in 1..Len(p.txs) : p.txs[i] = p.txs[j] => i = j
  BY <1>0 DEF IsInjective
<1>2. \A i, j \in 1..Len(Left(p)) : LeftAt(p, i) = LeftAt(p, j) => i = j
  BY <1>0 DEF LeftAt
<1>3. IsInjective(Left(p))
  BY <1>0, <1>1, <1>2 DEF IsInjective
<1>4. \A i \in 1..Len(Left(p)), k \in Nat : k > 0 => LeftAt(p, i) # d + 2 * k - 1
  <2> SUFFICES ASSUME NEW i \in 1..Len(Left(p)), NEW k \in Nat, k > 0
               PROVE  LeftAt(p, i) # d + 2 * k - 1
    OBVIOUS
  <2>1. i \in Nat
    BY <1>0
  <2> HIDE DEF d
  <2> QED BY <1>0, <2>1 DEF LeftAt, d
<1>5. ASSUME NEW x \in ToSet(Left(p)), x \in ToSet(Walked(p)) PROVE FALSE
  <2>1. PICK i \in 1..Len(Left(p)) : x = Left(p)[i]
    BY <1>0 DEF ToSet
  <2>2. PICK k \in Nat : /\ d + 2 * k - 1 \in 1..Len(p.txs) /\ k > 0
                         /\ x = p.txs[d + 2 * k - 1]
    BY <1>5, WalkedProperties
  <2>3. LeftAt(p, i) = d + 2 * k - 1
    BY <1>0, <1>1, <2>1, <2>2
  <2> QED BY <1>4, <2>2, <2>3
<1> QED BY <1>3, <1>5

\* A single step of ExtendVote leaves some pending transactions, appends the
\* others to the ready pool, and does not touch the cursor of that.
LEMMA ExtendEffect ==
    ASSUME NEW m \in Mempools
    PROVE  LET e == AfterExtend(m)
               w == ToSet(Walked(m.pendingPool))
           IN  /\ e \in Mempools /\ e.pool.idx = m.pool.idx
               /\ ToSet(e.pendingPool.txs) \subseteq ToSet(m.pendingPool.txs)
               /\ w \subseteq ToSet(m.pendingPool.txs)
               /\ \A i \in 1..Len(e.pool.txs) :
                     \/ i \in 1..Len(m.pool.txs) /\ e.pool.txs[i] = m.pool.txs[i]
                     \/ e.pool.txs[i] \in w
               /\ IsInjective(m.pendingPool.txs) =>
                     /\ IsInjective(e.pendingPool.txs)
                     /\ ToSet(e.pendingPool.txs) \cap w = {}
<1> DEFINE p == m.pendingPool
           r == m.pool
           e == AfterExtend(m)
           w == ToSet(Walked(p))
<1>0. /\ p \in Pools /\ r \in Pools /\ r.txs \in Seq(Tx) /\ Len(r.txs) \in Nat
      /\ p.txs \in Seq(Tx) /\ Len(p.txs) \in Nat /\ DOMAIN p.txs = 1..Len(p.txs)
      /\ m = [pendingPool |-> p, pool |-> r]
  BY LenProperties DEF Mempools, Pools
<1>1. Walked(p) \in Seq(Tx) /\ w \subseteq ToSet(p.txs)
  <2>1. \A x \in w : \E i \in 1..Len(p.txs) : x = p.txs[i]
    BY <1>0, WalkedProperties
  <2> HIDE DEF w
  <2> QED BY <1>0, <2>1, WalkedProperties DEF ToSet
<1>2. CASE Ahead(p) = 0
  <2>1. e = m
    BY <1>2 DEF AfterExtend
  <2>2. Walked(p) = <<>>
    BY <1>2 DEF Walked
  <2>3. w = {}
    BY <2>2 DEF ToSet
  <2>4. e \in Mempools /\ e.pool = r /\ e.pendingPool = p
    BY <2>1
  <2> HIDE DEF e, w, p, r
  <2> QED BY <1>0, <1>1, <2>3, <2>4 DEF e, w, p, r
<1>3. CASE Ahead(p) # 0
  <2> DEFINE new == IF ExtendPanics(m) THEN Len(Left(p)) + 1
                    ELSE IF Left(p) = <<>> THEN 0 ELSE Len(Left(p)) - 1
             pe  == [idx |-> new, txs |-> Left(p)]
             re  == [r EXCEPT !.txs = @ \o Walked(p)]
  <2>1. e = [pendingPool |-> pe, pool |-> re]
    BY <1>3 DEF AfterExtend, Left
  <2>2. /\ Left(p) \in Seq(Tx) /\ Len(Left(p)) \in Nat
        /\ \A i \in 1..Len(Left(p)) : /\ LeftAt(p, i) \in 1..Len(p.txs)
                                      /\ Left(p)[i] = p.txs[LeftAt(p, i)]
    BY <1>0, <1>3, LeftProperties, LenProperties
  <2>3. new \in Nat
    BY <2>2, EmptySeq
  <2> HIDE DEF new
  <2>4. pe \in Pools /\ pe.txs = Left(p)
    BY <2>2, <2>3 DEF Pools
  <2> DEFINE ww == Walked(p)
             tt == r.txs
  <2>5. ww \in Seq(Tx) /\ tt \in Seq(Tx) /\ Len(ww) \in Nat /\ Len(tt) \in Nat
        /\ w = ToSet(ww) /\ DOMAIN ww = 1..Len(ww)
    BY <1>0, <1>1, LenProperties
  <2> HIDE DEF ww, w
  <2>6. re = [idx |-> r.idx, txs |-> tt \o ww]
    <3>1. r \in [idx : Nat, txs : Seq(Tx)] /\ re = [r EXCEPT !.txs = r.txs \o ww]
      BY <1>0 DEF Pools, ww
    <3> HIDE DEF r, re
    <3> QED BY <3>1
  <2> HIDE DEF tt
  <2>7. /\ tt \o ww \in Seq(Tx) /\ Len(tt \o ww) = Len(tt) + Len(ww)
        /\ \A i \in 1..Len(tt) + Len(ww) :
              (tt \o ww)[i] = IF i <= Len(tt) THEN tt[i] ELSE ww[i - Len(tt)]
    BY <2>5, ConcatProperties
  <2>8. re \in Pools /\ re.idx = r.idx /\ re.txs = tt \o ww
    BY <1>0, <2>6, <2>7 DEF Pools
  <2>9. ASSUME NEW i \in 1..Len(tt \o ww)
        PROVE  \/ i \in 1..Len(tt) /\ (tt \o ww)[i] = tt[i]
               \/ (tt \o ww)[i] \in w
    <3>1. CASE i <= Len(tt)
      BY <2>5, <2>7, <3>1
    <3>2. CASE ~(i <= Len(tt))
      <4>1. i - Len(tt) \in 1..Len(ww)
        BY <2>5, <2>7, <3>2
      <4>2. (tt \o ww)[i] = ww[i - Len(tt)]
        BY <2>7, <3>2
      <4> QED BY <2>5, <4>1, <4>2 DEF ToSet
    <3> QED BY <3>1, <3>2
  <2>10. ToSet(Left(p)) \subseteq ToSet(p.txs)
    <3>1. DOMAIN Left(p) = 1..Len(Left(p))
      BY <2>2, LenProperties
    <3> QED BY <1>0, <2>2, <3>1 DEF ToSet
  <2>11. IsInjective(p.txs) => IsInjective(Left(p)) /\ ToSet(Left(p)) \cap w = {}
    BY <1>0, <1>3, LeftDistinct DEF w
  <2>12. /\ e \in Mempools /\ e.pendingPool = pe /\ e.pool = re
    <3> HIDE DEF pe, re, e
    <3> QED BY <2>1, <2>4, <2>8 DEF Mempools
  <2>13. /\ e.pool.idx = r.idx /\ e.pool.txs = tt \o ww /\ e.pendingPool.txs = Left(p)
    BY <2>4, <2>8, <2>12
  <2> HIDE DEF e, pe, re, p, r
  <2> QED BY <1>1, <2>9, <2>10, <2>11, <2>12, <2>13 DEF e, w, p, r, tt
<1> QED BY <1>2, <1>3

\* The bids that it reports are bids.
LEMMA ExtendBidsType ==
    ASSUME NEW m \in Mempools
    PROVE  ExtendBids(m) \in Seq(Bid)
<1> DEFINE w  == Walked(m.pendingPool)
           ss == [k \in DOMAIN w |-> BidsOf(w[k])]
<1>1. w \in Seq(Tx)
  BY WalkedProperties DEF Mempools
<1>2. ExtendBids(m) = FlattenSeq(ss)
  BY DEF ExtendBids
<1> HIDE DEF w
<1>3. DOMAIN w = 1..Len(w) /\ Len(w) \in Nat /\ \A k \in 1..Len(w) : w[k] \in Tx
  BY <1>1, LenProperties, ElementOfSeq
<1>4. ss \in [1..Len(w) -> Seq(Bid)]
  BY <1>3, BidsOfTx
<1> HIDE DEF ss
<1>5. ss \in Seq(Seq(Bid))
  BY <1>3, <1>4
<1> QED BY <1>2, <1>5, FlattenElements

\* A single step of PrepareProposal leaves the cursor on the last transaction,
\* or where it was when there is nothing ahead of it.
LEMMA PrepareEffect ==
    ASSUME NEW m \in Mempools
    PROVE  LET e == AfterPrepare(m)
               t == PrepareTxs(m)
           IN  /\ e \in Mempools /\ e.pendingPool = m.pendingPool /\ e.pool.txs = m.pool.txs
               /\ e.pool.idx >= m.pool.idx
               /\ t \in Seq(Tx) /\ Len(t) = Ahead(m.pool)
               /\ \A i \in 1..Ahead(m.pool) : t[i] = m.pool.txs[m.pool.idx + i]
               /\ \A x \in ToSet(t) : \E i \in 1..Len(m.pool.txs) : i > m.pool.idx /\ x = m.pool.txs[i]
               /\ t # <<>> => e.pool.idx = Len(m.pool.txs) - 1
<1> DEFINE r == m.pool
           n == Len(r.txs)
           d == r.idx
           e == AfterPrepare(m)
           t == PrepareTxs(m)
<1>0. /\ r \in Pools /\ r.txs \in Seq(Tx) /\ n \in Nat /\ d \in Nat /\ r = [idx |-> d, txs |-> r.txs]
      /\ \A i \in 1..n : r.txs[i] \in Tx
      /\ m = [pendingPool |-> m.pendingPool, pool |-> r] /\ m.pendingPool \in Pools
  BY LenProperties, ElementOfSeq DEF Mempools, Pools
<1>1. t = SubSeq(r.txs, d + 1, n)
  BY DEF PrepareTxs
<1>2. CASE Ahead(r) = 0
  <2>1. e = m
    BY <1>2 DEF AfterPrepare
  <2>2. d >= n
    BY <1>0, <1>2 DEF Ahead, OutOfBound
  <2>3. t = <<>>
    <3>1. d + 1 \in Int /\ n \in Int /\ d + 1 > n
      BY <1>0, <2>2
    <3> QED BY <1>1, <3>1, SubSeqEmpty
  <2>4. ToSet(t) = {} /\ t \in Seq(Tx)
    BY <2>3, EmptySeq DEF ToSet
  <2>5. Len(t) = 0 /\ 1..Ahead(r) = {}
    BY <1>2, <2>3, EmptySeq
  <2> HIDE DEF e, t
  <2> QED BY <1>0, <1>2, <2>1, <2>3, <2>4, <2>5 DEF e, t
<1>3. CASE Ahead(r) # 0
  <2>1. d < n /\ Ahead(r) = n - d
    BY <1>0, <1>3 DEF Ahead, OutOfBound
  <2>2. e = [m EXCEPT !.pool.idx = n - 1]
    BY <1>3 DEF AfterPrepare
  <2>3. e = [pendingPool |-> m.pendingPool, pool |-> [idx |-> n - 1, txs |-> r.txs]]
    BY <1>0, <2>2
  <2>4. n - 1 \in Nat /\ n - 1 >= d
    BY <1>0, <2>1
  <2>5. e \in Mempools
    BY <1>0, <2>3, <2>4 DEF Mempools, Pools
  <2>6. /\ t \in Seq(Tx) /\ Len(t) = n - d
        /\ \A i \in 1..n - d : t[i] = r.txs[d + i]
    <3>1. d + 1 \in Int /\ n \in Int /\ d + 1 <= n /\ n - (d + 1) + 1 = n - d
      BY <1>0, <2>1
    <3>2. \A i \in d + 1..n : r.txs[i] \in Tx
      BY <1>0
    <3> HIDE DEF n, d
    <3>3. /\ t \in Seq(Tx) /\ Len(t) = n - d
          /\ \A i \in 1..n - d : t[i] = r.txs[(d + 1) + i - 1]
      BY <1>1, <3>1, <3>2, SubSeqProperties
    <3>4. \A i \in 1..n - d : (d + 1) + i - 1 = d + i
      BY <1>0
    <3> QED BY <3>3, <3>4
  <2>7. ASSUME NEW x \in ToSet(t) PROVE \E i \in 1..n : i > d /\ x = r.txs[i]
    <3>1. PICK i \in 1..n - d : x = t[i]
      BY <2>6, LenProperties DEF ToSet
    <3>2. d + i \in 1..n /\ d + i > d
      BY <1>0, <2>1
    <3> QED BY <2>6, <3>1, <3>2
  <2> HIDE DEF e, t
  <2> QED BY <2>1, <2>3, <2>4, <2>5, <2>6, <2>7 DEF e, t
<1> QED BY <1>2, <1>3

\* Remove moves the transactions behind the one it takes out one place to the
\* front, among them the transaction it was called for, if it is left.
LEMMA RemoveEffect ==
    ASSUME NEW m \in Mempools, NEW tx
    PROVE  LET e == RemoveTx(m, tx)
           IN  /\ e \in Mempools /\ e.pendingPool = m.pendingPool /\ e.pool.idx = m.pool.idx
               /\ \A i \in 1..Len(e.pool.txs) :
                     \E j \in 1..Len(m.pool.txs) :
                        /\ j \in {i, i + 1} /\ e.pool.txs[i] = m.pool.txs[j]
                        /\ e.pool.txs[i] = tx => j = i + 1
<1> DEFINE r == m.pool
           q == Without(r, tx)
           e == RemoveTx(m, tx)
<1>0. /\ r \in Pools /\ r.txs \in Seq(Tx) /\ Len(r.txs) \in Nat
      /\ m = [pendingPool |-> m.pendingPool, pool |-> r] /\ m.pendingPool \in Pools
  BY LenProperties DEF Mempools, Pools
<1>1. e = [pendingPool |-> m.pendingPool, pool |-> q]
  BY <1>0 DEF RemoveTx
<1>2. q \in Pools /\ q.idx = r.idx
  BY <1>0, WithoutProperties
<1>3. ASSUME NEW i \in 1..Len(q.txs)
      PROVE  \E j \in 1..Len(r.txs) : /\ j \in {i, i + 1} /\ q.txs[i] = r.txs[j]
                                      /\ q.txs[i] = tx => j = i + 1
  <2>1. CASE ~Holds(r, tx)
    <3>1. q = r
      BY <2>1 DEF Without
    <3>2. \A j \in 1..Len(r.txs) : r.txs[j] # tx
      BY <2>1 DEF Holds, Equal
    <3> HIDE DEF q, r
    <3> QED BY <3>1, <3>2
  <2>2. CASE Holds(r, tx)
    <3>1. PICK k \in 1..Len(r.txs) :
              /\ Equal(r.txs[k], tx)
              /\ \A j \in 1..k - 1 : ~Equal(r.txs[j], tx)
              /\ q = [idx |-> r.idx, txs |-> RemoveAt(r.txs, k)]
      BY <1>0, <2>2, WithoutHeld
    <3>2. /\ Len(RemoveAt(r.txs, k)) = Len(r.txs) - 1
          /\ \A j \in 1..Len(r.txs) - 1 :
                RemoveAt(r.txs, k)[j] = IF j < k THEN r.txs[j] ELSE r.txs[j + 1]
      BY <1>0, RemoveAtProperties
    <3>3. q.txs = RemoveAt(r.txs, k)
      BY <3>1
    <3> HIDE DEF q, r
    <3>4. i \in 1..Len(r.txs) - 1 /\ i \in 1..Len(r.txs) /\ i + 1 \in 1..Len(r.txs)
      BY <1>0, <3>2, <3>3
    <3>5. CASE i < k
      <4>1. q.txs[i] = r.txs[i]
        BY <3>2, <3>3, <3>4, <3>5
      <4>2. i \in 1..k - 1
        BY <3>4, <3>5
      <4>3. q.txs[i] # tx
        BY <3>1, <4>1, <4>2 DEF Equal
      <4> QED BY <3>4, <4>1, <4>3
    <3>6. CASE ~(i < k)
      <4>1. q.txs[i] = r.txs[i + 1]
        BY <3>2, <3>3, <3>4, <3>6
      <4> QED BY <3>4, <4>1
    <3> QED BY <3>5, <3>6
  <2> QED BY <2>1, <2>2
<1>4. e \in Mempools
  <2> HIDE DEF q
  <2> QED BY <1>0, <1>1, <1>2 DEF Mempools
<1> HIDE DEF q, e
<1> QED BY <1>1, <1>2, <1>3, <1>4 DEF e
=============================================================================
