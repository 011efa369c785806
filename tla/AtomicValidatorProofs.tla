------------------------ MODULE AtomicValidatorProofs ------------------------
(***************************************************************************)
(* The proof that ValidatorMempool, whose handlers take one step for each  *)
(* iteration of their loops, implements AtomicValidator, whose handlers    *)
(* are single steps.                                                       *)
(***************************************************************************)
EXTENDS ValidatorMempoolProofs

-----------------------------------------------------------------------------
(* The walk of ExtendVote *)

AllBids(w) == FlattenSeq([k \in DOMAIN w |-> BidsOf(w[k])])

LEMMA BidsFirst ==
    ASSUME NEW tx \in Tx, NEW w \in Seq(Tx)
    PROVE  /\ AllBids(w) \in Seq(Bid)
           /\ AllBids(<<tx>> \o w) = BidsOf(tx) \o AllBids(w)
<1> DEFINE v  == <<tx>> \o w
           n  == Len(w)
           ss == [k \in DOMAIN w |-> BidsOf(w[k])]
           tt == [k \in DOMAIN v |-> BidsOf(v[k])]
           uu == <<BidsOf(tx)>> \o ss
<1>1. n \in Nat /\ DOMAIN w = 1..n /\ \A k \in 1..n : w[k] \in Tx
  BY LenProperties, ElementOfSeq
<1>2. /\ v \in Seq(Tx) /\ Len(v) = n + 1 /\ DOMAIN v = 1..n + 1
      /\ v[1] = tx /\ \A k \in 2..n + 1 : v[k] = w[k - 1]
  BY <1>1
<1>3. ss \in [1..n -> Seq(Bid)]
  BY <1>1, BidsOfTx
<1>4. ss \in Seq(Seq(Bid)) /\ Len(ss) = n
  BY <1>1, <1>3
<1>5. BidsOf(tx) \in Seq(Bid)
  BY BidsOfTx
<1> DEFINE b == BidsOf(tx)
<1> HIDE DEF v, n, b
<1>6. /\ tt \in Seq(Seq(Bid)) /\ Len(tt) = n + 1
      /\ \A k \in 1..n + 1 : tt[k] = BidsOf(v[k])
  <2>1. \A k \in 1..n + 1 : v[k] \in Tx
    BY <1>2, ElementOfSeq
  <2>2. tt \in [1..n + 1 -> Seq(Bid)]
    BY <1>2, <2>1, BidsOfTx
  <2> QED BY <1>1, <1>2, <2>2
<1>7. \A k \in 1..n : ss[k] = BidsOf(w[k])
  BY <1>1
<1> HIDE DEF ss, tt
<1>8. /\ uu \in Seq(Seq(Bid)) /\ Len(uu) = n + 1
      /\ uu[1] = b /\ \A k \in 2..n + 1 : uu[k] = ss[k - 1]
  BY <1>1, <1>4, <1>5 DEF b
<1> HIDE DEF uu
<1>9. tt = uu
  <2>1. \A k \in 1..n + 1 : tt[k] = uu[k]
    <3> SUFFICES ASSUME NEW k \in 1..n + 1 PROVE tt[k] = uu[k]
      OBVIOUS
    <3>1. CASE k = 1
      BY <1>2, <1>6, <1>8, <3>1 DEF b
    <3>2. CASE k # 1
      <4>1. k \in 2..n + 1 /\ k - 1 \in 1..n
        BY <1>1, <3>2
      <4> QED BY <1>2, <1>6, <1>7, <1>8, <4>1
    <3> QED BY <3>1, <3>2
  <2> QED BY <1>6, <1>8, <2>1, SeqEqual
<1>10. FlattenSeq(uu) = b \o FlattenSeq(ss)
  BY <1>4, <1>5, FlattenFirst DEF uu, b
<1>11. AllBids(w) = FlattenSeq(ss) /\ AllBids(v) = FlattenSeq(tt)
  BY DEF AllBids, ss, tt
<1>12. AllBids(w) \in Seq(Bid)
  BY <1>4, <1>11, FlattenElements
<1> QED BY <1>9, <1>10, <1>11, <1>12 DEF b, v

LEMMA BidsOfNone == AllBids(<<>>) = <<>>
<1>1. [k \in DOMAIN <<>> |-> BidsOf(<<>>[k])] = <<>>
  OBVIOUS
<1> QED BY <1>1, EmptySeq DEF AllBids, FlattenSeq

LEMMA BidsOfOne ==
    ASSUME NEW tx \in Tx
    PROVE  AllBids(<<tx>>) = BidsOf(tx)
<1>1. <<>> \in Seq(Tx) /\ <<tx>> \o <<>> = <<tx>>
  BY EmptySeq, ConcatEmptySeq
<1>2. AllBids(<<tx>> \o <<>>) = BidsOf(tx) \o AllBids(<<>>)
  BY <1>1, BidsFirst
<1>3. BidsOf(tx) \o <<>> = BidsOf(tx)
  BY BidsOfTx, ConcatEmptySeq
<1> QED BY <1>1, <1>2, <1>3, BidsOfNone

\* With one or two transactions ahead the walk takes the one under the cursor.
LEMMA ShortWalk ==
    ASSUME NEW p \in Pools, Ahead(p) \in {1, 2}
    PROVE  /\ p.idx + 1 \in 1..Len(p.txs)
           /\ Left(p) = RemoveAt(p.txs, p.idx + 1)
           /\ Walked(p) = <<p.txs[p.idx + 1]>>
<1> DEFINE s == p.txs
           n == Len(s)
           d == p.idx
           a == Ahead(p)
           l == Left(p)
           w == Walked(p)
           r == RemoveAt(s, d + 1)
<1>1. s \in Seq(Tx) /\ n \in Nat /\ d \in Nat /\ \A i \in 1..n : s[i] \in Tx
  BY LenProperties, ElementOfSeq DEF Pools
<1>2. a = n - d /\ d + 1 \in 1..n
  BY <1>1 DEF Ahead, OutOfBound
<1>3. l \in Seq(Tx) /\ Len(l) = d + a \div 2
      /\ \A i \in 1..Len(l) : l[i] = s[LeftAt(p, i)]
  BY LeftProperties
<1>4. w \in Seq(Tx) /\ Len(w) = (a + 1) \div 2
      /\ \A k \in 1..Len(w) : w[k] = s[d + 2 * k - 1]
  BY WalkedProperties
<1>5. r \in Seq(Tx) /\ Len(r) = n - 1
      /\ \A i \in 1..n - 1 : r[i] = IF i < d + 1 THEN s[i] ELSE s[i + 1]
  BY <1>1, <1>2, RemoveAtProperties
<1>6. a \in {1, 2}
  OBVIOUS
<1> HIDE DEF n, a, l, w, r
<1>7. Len(w) = 1 /\ w[1] = s[d + 1]
  <2>1. Len(w) = 1
    BY <1>4, <1>6
  <2>2. d + 2 * 1 - 1 = d + 1
    BY <1>1
  <2> QED BY <1>4, <2>1, <2>2
<1>8. w = <<s[d + 1]>>
  BY <1>1, <1>2, <1>4, <1>7
<1>9. Len(l) = n - 1 /\ \A i \in 1..n - 1 : l[i] = r[i]
  <2>1. Len(l) = n - 1
    BY <1>1, <1>2, <1>3, <1>6
  <2>2. ASSUME NEW i \in 1..n - 1
        PROVE  LeftAt(p, i) = IF i < d + 1 THEN i ELSE i + 1
    BY <1>1, <1>2, <1>6 DEF LeftAt
  <2> QED BY <1>1, <1>3, <1>5, <2>1, <2>2
<1>10. l = r
  BY <1>3, <1>5, <1>9, SeqEqual
<1> QED BY <1>2, <1>8, <1>10 DEF l, w, r, n

\* With more than two it goes on, past the next one, as a walk of the shorter
\* pool would.
LEMMA LongWalk ==
    ASSUME NEW p \in Pools, NEW q \in Pools, Ahead(p) >= 3,
           q.txs = RemoveAt(p.txs, p.idx + 1), q.idx = p.idx + 1
    PROVE  /\ p.idx + 1 \in 1..Len(p.txs)
           /\ Ahead(q) = Ahead(p) - 2
           /\ Left(q) = Left(p)
           /\ Walked(p) = <<p.txs[p.idx + 1]>> \o Walked(q)
<1> DEFINE s == p.txs
           n == Len(s)
           d == p.idx
           a == Ahead(p)
           c == Ahead(q)
           l == Left(p)
           k == Left(q)
           w == Walked(p)
           v == Walked(q)
           u == <<s[d + 1]>> \o v
<1>1. s \in Seq(Tx) /\ n \in Nat /\ d \in Nat /\ \A i \in 1..n : s[i] \in Tx
  BY LenProperties, ElementOfSeq DEF Pools
<1>2. a = n - d /\ d + 1 \in 1..n
  BY <1>1 DEF Ahead, OutOfBound
<1>3. /\ q.txs \in Seq(Tx) /\ Len(q.txs) = n - 1 /\ q.idx = d + 1
      /\ \A i \in 1..n - 1 : q.txs[i] = IF i < d + 1 THEN s[i] ELSE s[i + 1]
  <2> DEFINE here == d + 1
  <2>1. s \in Seq(Tx) /\ here \in 1..Len(s) /\ q.txs = RemoveAt(s, here)
    BY <1>1, <1>2
  <2> HIDE DEF here
  <2>2. /\ RemoveAt(s, here) \in Seq(Tx) /\ Len(RemoveAt(s, here)) = Len(s) - 1
        /\ \A i \in 1..Len(s) - 1 : RemoveAt(s, here)[i] = IF i < here THEN s[i] ELSE s[i + 1]
    BY <2>1, RemoveAtProperties
  <2> QED BY <2>1, <2>2 DEF here
<1>4. c = a - 2
  BY <1>1, <1>2, <1>3 DEF Ahead, OutOfBound
<1>5. a >= 3 /\ a \in Nat
  BY <1>1, <1>2
<1>6. l \in Seq(Tx) /\ Len(l) = d + a \div 2
      /\ \A i \in 1..Len(l) : LeftAt(p, i) \in 1..n /\ l[i] = s[LeftAt(p, i)]
  <2>1. a # 0
    BY <1>5
  <2> QED BY <2>1, LeftProperties
<1>7. k \in Seq(Tx) /\ Len(k) = (d + 1) + c \div 2
      /\ \A i \in 1..Len(k) : LeftAt(q, i) \in 1..n - 1 /\ k[i] = q.txs[LeftAt(q, i)]
  <2>1. c # 0
    BY <1>4, <1>5
  <2> QED BY <1>3, <2>1, LeftProperties
<1>8. w \in Seq(Tx) /\ Len(w) = (a + 1) \div 2
      /\ \A i \in 1..Len(w) : w[i] = s[d + 2 * i - 1]
  BY WalkedProperties
<1>9. v \in Seq(Tx) /\ Len(v) = (c + 1) \div 2
      /\ \A i \in 1..Len(v) : v[i] = q.txs[(d + 1) + 2 * i - 1]
  BY <1>3, WalkedProperties
<1> HIDE DEF n, a, c, l, k, w, v
<1>10. l = k
  <2>1. Len(l) = Len(k)
    BY <1>1, <1>4, <1>5, <1>6, <1>7
  <2>2. ASSUME NEW i \in 1..Len(l) PROVE l[i] = k[i]
    <3>1. i \in Nat /\ i > 0 /\ i <= d + a \div 2
      BY <1>1, <1>5, <1>6
    <3>2. CASE i < d + 1
      <4>1. LeftAt(p, i) = i /\ LeftAt(q, i) = i
        BY <1>1, <1>3, <3>1, <3>2 DEF LeftAt
      <4> QED BY <1>3, <1>6, <1>7, <2>1, <3>2, <4>1
    <3>3. CASE i = d + 1
      <4>1. LeftAt(p, i) = d + 2 /\ LeftAt(q, i) = d + 1
        BY <1>1, <1>3, <3>1, <3>3 DEF LeftAt
      <4>2. q.txs[d + 1] = s[d + 2]
        <5>1. d + 1 \in 1..n - 1 /\ ~(d + 1 < d + 1) /\ (d + 1) + 1 = d + 2
          BY <1>1, <1>2, <1>5
        <5> QED BY <1>3, <5>1
      <4> QED BY <1>6, <1>7, <2>1, <4>1, <4>2
    <3>4. CASE i > d + 1
      <4> DEFINE j == d + 1 + 2 * (i - (d + 1))
      <4>1. LeftAt(p, i) = j + 1 /\ LeftAt(q, i) = j /\ ~(j < d + 1)
        <5>1. LeftAt(p, i) = d + 2 * (i - d)
          BY <1>1, <3>1, <3>4 DEF LeftAt
        <5>2. LeftAt(q, i) = (d + 1) + 2 * (i - (d + 1))
          BY <1>1, <1>3, <3>1, <3>4 DEF LeftAt
        <5> HIDE DEF d
        <5>3. d + 2 * (i - d) = j + 1 /\ ~(j < d + 1)
          BY <1>1, <3>1, <3>4
        <5> QED BY <5>1, <5>2, <5>3
      <4>2. j \in 1..n - 1
        BY <1>7, <2>1, <4>1
      <4> HIDE DEF j
      <4>3. q.txs[j] = s[j + 1]
        BY <1>3, <4>1, <4>2
      <4> QED BY <1>6, <1>7, <2>1, <4>1, <4>3
    <3> QED BY <1>1, <3>1, <3>2, <3>3, <3>4
  <2> QED BY <1>6, <1>7, <2>1, <2>2, SeqEqual
<1>11. w = u
  <2>1. /\ u \in Seq(Tx) /\ Len(u) = 1 + Len(v) /\ u[1] = s[d + 1]
        /\ \A i \in 2..1 + Len(v) : u[i] = v[i - 1]
    BY <1>1, <1>2, <1>9
  <2> HIDE DEF u
  <2>2. Len(w) = Len(u)
    BY <1>4, <1>5, <1>8, <1>9, <2>1
  <2>3. ASSUME NEW i \in 1..Len(w) PROVE w[i] = u[i]
    <3>0. i \in Nat /\ i > 0 /\ i <= (a + 1) \div 2
      BY <1>5, <1>8
    <3>1. CASE i = 1
      <4>1. d + 2 * 1 - 1 = d + 1
        BY <1>1
      <4> QED BY <1>8, <2>1, <3>1, <4>1
    <3>2. CASE i # 1
      <4> DEFINE j == (d + 1) + 2 * (i - 1) - 1
      <4>1. i \in 2..1 + Len(v) /\ i - 1 \in 1..Len(v)
        BY <1>4, <1>5, <1>9, <3>0, <3>2
      <4>2. j + 1 = d + 2 * i - 1 /\ j \in 1..n - 1 /\ ~(j < d + 1)
        <5> HIDE DEF d
        <5>1. 2 * i <= a + 1
          BY <1>5, <3>0
        <5>2. i >= 2
          BY <3>0, <3>2
        <5> QED BY <1>1, <1>2, <3>0, <5>1, <5>2
      <4>3. v[i - 1] = q.txs[j]
        BY <1>9, <4>1
      <4> HIDE DEF j
      <4>4. q.txs[j] = s[j + 1]
        BY <1>3, <4>2
      <4>5. w[i] = s[j + 1]
        BY <1>8, <4>2
      <4> QED BY <2>1, <4>1, <4>3, <4>4, <4>5
    <3> QED BY <3>1, <3>2
  <2> QED BY <1>8, <2>1, <2>2, <2>3, SeqEqual
<1> QED BY <1>2, <1>4, <1>10, <1>11 DEF l, k, w, v, u, a, c, n

LEMMA SameMempool ==
    ASSUME NEW e \in Mempools, NEW f \in Mempools,
           e.pendingPool.txs = f.pendingPool.txs, e.pendingPool.idx = f.pendingPool.idx,
           e.pool.txs = f.pool.txs, e.pool.idx = f.pool.idx
    PROVE  e = f
<1>1. e.pendingPool = f.pendingPool /\ e.pool = f.pool
  BY DEF Mempools, Pools
<1> QED BY <1>1 DEF Mempools

\* Where ExtendVote leaves the cursor of the pending pool.
Cursor(m) ==
    LET l == Left(m.pendingPool)
    IN  IF ExtendPanics(m) THEN Len(l) + 1 ELSE IF l = <<>> THEN 0 ELSE Len(l) - 1

LEMMA ExtendParts ==
    ASSUME NEW m \in Mempools, Ahead(m.pendingPool) # 0
    PROVE  LET e == AfterExtend(m)
           IN  /\ e \in Mempools
               /\ e.pendingPool.txs = Left(m.pendingPool) /\ e.pendingPool.idx = Cursor(m)
               /\ e.pool.idx = m.pool.idx /\ e.pool.txs = m.pool.txs \o Walked(m.pendingPool)
<1> DEFINE e  == AfterExtend(m)
           r  == m.pool
           tt == r.txs \o Walked(m.pendingPool)
           re == [r EXCEPT !.txs = @ \o Walked(m.pendingPool)]
           pe == [idx |-> Cursor(m), txs |-> Left(m.pendingPool)]
<1>1. e \in Mempools
  BY ExtendEffect
<1>2. e = [pendingPool |-> pe, pool |-> re]
  BY DEF AfterExtend, Left, Cursor
<1>3. re.idx = r.idx /\ re.txs = tt
  <2>1. r \in [idx : Nat, txs : Seq(Tx)] /\ re = [r EXCEPT !.txs = tt]
    BY DEF Mempools, Pools
  <2> HIDE DEF r, re, tt
  <2> QED BY <2>1
<1>4. pe.idx = Cursor(m) /\ pe.txs = Left(m.pendingPool)
  OBVIOUS
<1> HIDE DEF e, pe, re
<1>5. e.pendingPool = pe /\ e.pool = re
  BY <1>2
<1> QED BY <1>1, <1>3, <1>4, <1>5 DEF e

\* Whether and how a walk ends depends on how many transactions are ahead.
LEMMA PanicsByAhead ==
    ASSUME NEW m \in Mempools
    PROVE  LET p == m.pendingPool
           IN  /\ Len(p.txs) \in Nat /\ Ahead(p) \in Nat /\ Ahead(p) <= Len(p.txs)
               /\ Ahead(p) # 0 => Ahead(p) = Len(p.txs) - p.idx
               /\ OutOfBound(p) <=> Ahead(p) = 0
               /\ ExtendPanics(m) <=> /\ Len(p.txs) > 0
                                      /\ \/ Ahead(p) = 0
                                         \/ Len(p.txs) # 1 /\ Ahead(p) % 2 = 1
<1> DEFINE p == m.pendingPool
           n == Len(p.txs)
<1>1. p.idx \in Nat /\ p.txs \in Seq(Tx) /\ n \in Nat
  BY LenProperties DEF Mempools, Pools
<1>2. p.txs # <<>> <=> n > 0
  BY <1>1, EmptySeq
<1> HIDE DEF p, n
<1>3. /\ Ahead(p) \in Nat /\ Ahead(p) <= n /\ (Ahead(p) # 0 => Ahead(p) = n - p.idx)
      /\ OutOfBound(p) <=> Ahead(p) = 0
  BY <1>1 DEF Ahead, OutOfBound, n
<1>4. ExtendPanics(m) <=> p.txs # <<>> /\ (OutOfBound(p) \/ (n # 1 /\ Ahead(p) % 2 = 1))
  BY DEF ExtendPanics, SelectPending, p, n
<1> QED BY <1>1, <1>2, <1>3, <1>4 DEF p, n

(***************************************************************************)
(* The mempool m before and e after an iteration.  If the iterator is not  *)
(* nil then, the rest of the walk has the effect on e that the whole walk  *)
(* has on m; if it is nil, e is that effect.                               *)
(***************************************************************************)
LEMMA ExtendIteration ==
    ASSUME NEW m \in Mempools, NEW e \in Mempools, NEW goes \in BOOLEAN,
           ~OutOfBound(m.pendingPool),
           goes <=> ~(Len(m.pendingPool.txs) = 1
                      \/ Len(m.pendingPool.txs) = m.pendingPool.idx + 2),
           e.pendingPool.txs = RemoveAt(m.pendingPool.txs, m.pendingPool.idx + 1),
           e.pendingPool.idx = IF goes THEN m.pendingPool.idx + 1 ELSE m.pendingPool.idx,
           e.pool = With(m.pool, Current(m.pendingPool))
    PROVE  LET b == BidsOf(Current(m.pendingPool))
           IN  /\ goes => /\ AfterExtend(e) = AfterExtend(m)
                          /\ ExtendPanics(e) <=> ExtendPanics(m)
                          /\ ExtendBids(m) = b \o ExtendBids(e)
               /\ ~goes => /\ AfterExtend(m) = e /\ ~ExtendPanics(m)
                           /\ ExtendBids(m) = b
<1> DEFINE p  == m.pendingPool
           q  == e.pendingPool
           d  == p.idx
           n  == Len(p.txs)
           a  == Ahead(p)
           c  == Ahead(q)
           tx == Current(p)
           f  == AfterExtend(m)
           g  == AfterExtend(e)
<1>1. /\ p \in Pools /\ q \in Pools /\ p.txs \in Seq(Tx) /\ d \in Nat /\ q.idx \in Nat
      /\ m.pool \in Pools /\ m.pool.txs \in Seq(Tx)
  BY DEF Mempools, Pools
<1>2. d + 1 \in 1..n /\ tx = p.txs[d + 1] /\ tx \in Tx
  BY <1>1, CurrentProperties
<1>3. /\ n \in Nat /\ a \in Nat /\ a # 0 /\ a = n - d
      /\ ExtendPanics(m) <=> n # 1 /\ a % 2 = 1
  <2> HIDE DEF p
  <2>1. /\ n \in Nat /\ a \in Nat /\ (a # 0 => a = n - d) /\ a <= n
        /\ OutOfBound(p) <=> a = 0
        /\ ExtendPanics(m) <=> n > 0 /\ (a = 0 \/ (n # 1 /\ a % 2 = 1))
    BY PanicsByAhead DEF p
  <2>2. a # 0
    BY <2>1 DEF p
  <2>3. n > 0
    BY <2>1, <2>2
  <2> QED BY <2>1, <2>2, <2>3
<1>4. Len(q.txs) = n - 1
  <2>1. q.txs = RemoveAt(p.txs, d + 1)
    OBVIOUS
  <2> HIDE DEF p, q, d
  <2> QED BY <1>1, <1>2, <2>1, RemoveAtProperties DEF n
<1>5. /\ c \in Nat
      /\ ExtendPanics(e) <=> n - 1 > 0 /\ (c = 0 \/ (n - 1 # 1 /\ c % 2 = 1))
  <2> HIDE DEF q
  <2>1. /\ Ahead(q) \in Nat
        /\ ExtendPanics(e) <=> /\ Len(q.txs) > 0
                               /\ Ahead(q) = 0 \/ (Len(q.txs) # 1 /\ Ahead(q) % 2 = 1)
    BY PanicsByAhead DEF q
  <2> QED BY <1>4, <2>1
<1>6. /\ f \in Mempools /\ f.pendingPool.txs = Left(p) /\ f.pendingPool.idx = Cursor(m)
      /\ f.pool.idx = m.pool.idx /\ f.pool.txs = m.pool.txs \o Walked(p)
  BY <1>3, ExtendParts
<1>7. e.pool.idx = m.pool.idx /\ e.pool.txs = Append(m.pool.txs, tx)
  <2>1. e.pool = With(m.pool, tx)
    OBVIOUS
  <2> DEFINE r == m.pool
  <2> HIDE DEF tx, r
  <2>2. With(r, tx).idx = r.idx /\ With(r, tx).txs = Append(r.txs, tx)
    <3>1. r \in Pools
      BY <1>1 DEF r
    <3> QED BY <3>1 DEF With, Pools
  <2> QED BY <2>1, <2>2 DEF r
<1>8. Append(m.pool.txs, tx) = m.pool.txs \o <<tx>>
  BY <1>1, <1>2, AppendIsConcat
<1>9. ExtendBids(m) = AllBids(Walked(p)) /\ ExtendBids(e) = AllBids(Walked(q))
  BY DEF ExtendBids, AllBids
<1>10. BidsOf(tx) \in Seq(Bid)
  BY <1>2, BidsOfTx
<1>11. goes <=> ~(n = 1 \/ n = d + 2)
  OBVIOUS
<1>12. /\ q.txs = RemoveAt(p.txs, d + 1)
       /\ q.idx = IF goes THEN d + 1 ELSE d
  OBVIOUS
<1>13. Walked(q) \in Seq(Tx)
  BY <1>1, WalkedProperties
<1> HIDE DEF p, q, d, n, a, c, tx, f, g
<1>14. CASE a \in {1, 2}
  <2>1. Left(p) = q.txs /\ Walked(p) = <<tx>>
    BY <1>1, <1>2, <1>12, <1>14, ShortWalk DEF a, d
  <2>2. ExtendBids(m) = BidsOf(tx)
    BY <1>2, <1>9, <2>1, BidsOfOne
  <2>3. /\ f.pendingPool.txs = q.txs /\ f.pool.txs = e.pool.txs /\ f.pool.idx = e.pool.idx
    BY <1>6, <1>7, <1>8, <2>1
  <2>4. CASE ~goes
    <3>1. ~ExtendPanics(m)
      BY <1>3, <1>11, <1>14, <2>4, <1>1
    <3>2. Len(Left(p)) = n - 1 /\ (Left(p) = <<>> <=> n - 1 = 0)
      <4>1. q.txs \in Seq(Tx)
        BY <1>1 DEF Pools
      <4> QED BY <1>4, <2>1, <4>1, EmptySeq
    <3>3. Cursor(m) = d
      <4>1. Cursor(m) = IF n - 1 = 0 THEN 0 ELSE (n - 1) - 1
        BY <3>1, <3>2 DEF Cursor, p
      <4> QED BY <1>1, <1>2, <1>3, <1>11, <2>4, <4>1
    <3>4. f = e
      BY <1>6, <1>12, <2>3, <2>4, <3>3, SameMempool DEF q
    <3> QED BY <2>2, <2>4, <3>1, <3>4 DEF f, tx, p
  <2>5. CASE goes
    <3>1. a = 1 /\ n # 1 /\ d + 1 = n
      BY <1>1, <1>3, <1>11, <1>14, <2>5
    <3>2. ExtendPanics(m)
      BY <1>3, <3>1
    <3>3. c = 0
      BY <1>4, <1>12, <2>5, <3>1, <1>3 DEF c, Ahead, OutOfBound
    <3>4. ExtendPanics(e)
      BY <1>1, <1>3, <1>5, <3>1, <3>3
    <3>5. g = e
      BY <3>3 DEF g, AfterExtend, c, q
    <3>6. Cursor(m) = n
      <4>1. Len(Left(p)) = n - 1
        BY <1>4, <2>1
      <4> QED BY <1>3, <3>2, <4>1 DEF Cursor, p
    <3>7. f = e
      BY <1>6, <1>12, <2>3, <2>5, <3>1, <3>6, SameMempool DEF q
    <3>8. ExtendBids(e) = <<>>
      <4>1. Walked(q) = <<>>
        <5>1. Len(Walked(q)) = 0
          BY <1>1, <3>3, WalkedProperties DEF c
        <5> QED BY <1>13, <5>1, EmptySeq
      <4> QED BY <1>9, <4>1, BidsOfNone
    <3>9. ExtendBids(m) = BidsOf(tx) \o ExtendBids(e)
      BY <1>10, <2>2, <3>8, ConcatEmptySeq
    <3> QED BY <2>5, <3>2, <3>4, <3>5, <3>7, <3>9 DEF f, g, tx, p
  <2> QED BY <2>4, <2>5
<1>15. CASE a >= 3
  <2>1. goes /\ q.idx = d + 1
    BY <1>1, <1>2, <1>3, <1>11, <1>12, <1>15
  <2>2. c = a - 2 /\ Left(q) = Left(p) /\ Walked(p) = <<tx>> \o Walked(q)
    <3>1. Ahead(p) >= 3 /\ q.txs = RemoveAt(p.txs, p.idx + 1) /\ q.idx = p.idx + 1
      BY <1>12, <1>15, <2>1 DEF a, d
    <3> QED BY <1>1, <1>2, <3>1, LongWalk DEF a, c, d
  <2>3. ExtendPanics(e) <=> ExtendPanics(m)
    BY <1>1, <1>2, <1>3, <1>5, <1>15, <2>2
  <2>4. /\ g \in Mempools /\ g.pendingPool.txs = Left(q) /\ g.pendingPool.idx = Cursor(e)
        /\ g.pool.idx = e.pool.idx /\ g.pool.txs = e.pool.txs \o Walked(q)
    <3>1. c # 0
      BY <1>3, <1>15, <2>2
    <3> QED BY <3>1, ExtendParts DEF c, q, g
  <2>5. Cursor(e) = Cursor(m)
    BY <2>2, <2>3 DEF Cursor, p, q
  <2>6. g.pool.txs = f.pool.txs
    <3>1. <<tx>> \in Seq(Tx)
      BY <1>2
    <3> DEFINE x == m.pool.txs
               y == <<tx>>
               z == Walked(q)
    <3>2. (x \o y) \o z = x \o (y \o z)
      <4>1. x \in Seq(Tx) /\ y \in Seq(Tx) /\ z \in Seq(Tx)
        BY <1>1, <1>13, <3>1
      <4> HIDE DEF x, y, z
      <4> QED BY <4>1, ConcatAssociative
    <3> QED BY <1>6, <1>7, <1>8, <2>2, <2>4, <3>2
  <2>7. g = f
    <3>1. g.pendingPool.txs = f.pendingPool.txs /\ g.pendingPool.idx = f.pendingPool.idx
      BY <1>6, <2>2, <2>4, <2>5
    <3>2. g.pool.txs = f.pool.txs /\ g.pool.idx = f.pool.idx
      BY <1>6, <1>7, <2>4, <2>6
    <3>3. g \in Mempools /\ f \in Mempools
      BY <1>6, <2>4
    <3> QED BY <3>1, <3>2, <3>3, SameMempool
  <2>8. ExtendBids(m) = BidsOf(tx) \o ExtendBids(e)
    BY <1>2, <1>9, <1>13, <2>2, BidsFirst
  <2> QED BY <2>1, <2>3, <2>7, <2>8 DEF f, g, tx, p
<1>16. a \in {1, 2} \/ a >= 3
  BY <1>3
<1> QED BY <1>14, <1>15, <1>16

-----------------------------------------------------------------------------
(* The walk of PrepareProposal *)

LEMMA PrepareIteration ==
    ASSUME NEW m \in Mempools, NEW e \in Mempools, ~OutOfBound(m.pool),
           e.pendingPool = m.pendingPool, e.pool = Advance(m.pool)
    PROVE  LET tx == Current(m.pool)
           IN  /\ ~Exhausted(m.pool) => /\ ~OutOfBound(e.pool)
                                        /\ AfterPrepare(e) = AfterPrepare(m)
                                        /\ PrepareTxs(m) = <<tx>> \o PrepareTxs(e)
               /\ Exhausted(m.pool) => /\ AfterPrepare(m) = e
                                       /\ PrepareTxs(m) = <<tx>>
<1> DEFINE r  == m.pool
           q  == e.pool
           d  == r.idx
           n  == Len(r.txs)
           tx == Current(r)
           f  == AfterPrepare(m)
           g  == AfterPrepare(e)
           t  == PrepareTxs(m)
           u  == PrepareTxs(e)
           v  == <<tx>> \o u
<1>1. r \in Pools /\ q \in Pools /\ d \in Nat /\ n \in Nat
  BY LenProperties DEF Mempools, Pools
<1>2. d + 1 \in 1..n /\ tx = r.txs[d + 1] /\ tx \in Tx
  BY <1>1, CurrentProperties
<1>3. q.txs = r.txs /\ q.idx = IF Exhausted(r) THEN d ELSE d + 1
  BY <1>1, AdvanceProperties
<1>4. Exhausted(r) <=> n = d + 1
  BY <1>1, <1>2 DEF Exhausted
<1>5. Ahead(r) = n - d /\ Ahead(r) # 0
  BY <1>1, <1>2 DEF Ahead, OutOfBound
<1>6. /\ f \in Mempools /\ f.pendingPool = m.pendingPool /\ f.pool.txs = r.txs
      /\ t \in Seq(Tx) /\ Len(t) = Ahead(r)
      /\ \A i \in 1..Ahead(r) : t[i] = r.txs[d + i]
      /\ t # <<>> => f.pool.idx = n - 1
  BY PrepareEffect
<1>7. /\ g \in Mempools /\ g.pendingPool = e.pendingPool /\ g.pool.txs = q.txs
      /\ u \in Seq(Tx) /\ Len(u) = Ahead(q)
      /\ \A i \in 1..Ahead(q) : u[i] = q.txs[q.idx + i]
      /\ u # <<>> => g.pool.idx = Len(q.txs) - 1
  BY PrepareEffect
<1>8. e.pendingPool = m.pendingPool
  OBVIOUS
<1> HIDE DEF r, q, d, n, tx, f, g, t, u
<1>9. f.pool.idx = n - 1
  BY <1>1, <1>2, <1>5, <1>6, EmptySeq
<1>10. CASE Exhausted(r)
  <2>1. q.idx = n - 1 /\ q.txs = r.txs
    BY <1>1, <1>3, <1>4, <1>10
  <2>2. f = e
    <3>1. f.pool.txs = e.pool.txs /\ f.pool.idx = e.pool.idx
      BY <1>6, <1>9, <2>1 DEF q
    <3> QED BY <1>6, <1>8, <3>1, SameMempool
  <2>3. t = <<tx>>
    <3>1. Len(t) = 1 /\ t[1] = tx
      <4>1. Ahead(r) = 1
        BY <1>1, <1>4, <1>5, <1>10
      <4> QED BY <1>2, <1>6, <4>1
    <3> QED BY <1>2, <1>6, <3>1
  <2> QED BY <1>10, <2>2, <2>3 DEF f, t, tx, r
<1>11. CASE ~Exhausted(r)
  <2>1. q.idx = d + 1 /\ q.txs = r.txs
    BY <1>3, <1>11
  <2>2. d + 1 < n
    BY <1>1, <1>2, <1>4, <1>11
  <2>3. ~OutOfBound(q) /\ Ahead(q) = n - (d + 1)
    BY <1>1, <2>1, <2>2 DEF Ahead, OutOfBound, n
  <2>4. g = f
    <3>1. g.pool.idx = n - 1
      BY <1>1, <1>7, <2>1, <2>2, <2>3, EmptySeq DEF n
    <3>2. g.pool.txs = f.pool.txs /\ g.pool.idx = f.pool.idx
      BY <1>6, <1>7, <1>9, <2>1, <3>1
    <3> QED BY <1>6, <1>7, <1>8, <3>2, SameMempool
  <2>5. t = v
    <3>1. /\ v \in Seq(Tx) /\ Len(v) = 1 + Len(u) /\ v[1] = tx
          /\ \A i \in 2..1 + Len(u) : v[i] = u[i - 1]
      BY <1>2, <1>7
    <3> HIDE DEF v
    <3>2. Len(t) = Len(v)
      BY <1>1, <1>5, <1>6, <1>7, <2>3, <3>1
    <3>3. ASSUME NEW i \in 1..Len(t) PROVE t[i] = v[i]
      <4>1. CASE i = 1
        <5>1. 1 \in 1..Ahead(r)
          BY <1>1, <1>2, <1>5
        <5> QED BY <1>2, <1>6, <3>1, <4>1, <5>1
      <4>2. CASE i # 1
        <5>1. i \in 2..1 + Len(u) /\ i - 1 \in 1..Ahead(q) /\ d + i = q.idx + (i - 1)
          BY <1>1, <1>5, <1>6, <1>7, <2>1, <2>3, <4>2
        <5> QED BY <1>6, <1>7, <2>1, <3>1, <5>1
      <4> QED BY <4>1, <4>2
    <3> QED BY <1>6, <3>1, <3>2, <3>3, SeqEqual
  <2> QED BY <1>11, <2>3, <2>4, <2>5 DEF f, g, t, u, v, tx, r, q
<1> QED BY <1>10, <1>11 DEF r

-----------------------------------------------------------------------------
(* The state of AtomicValidator *)

\* A handler that runs has left the other one's variables as they are when
\* none runs, and an iterator is not nil only as long as there is a list.
HandlersInv ==
    /\ pc \in {"idle", "prepare"} => bids = <<>>
    /\ pc # "prepare" => txs = <<>>
    /\ Extending => pending.txs # <<>>
    /\ Preparing => ready.txs # <<>>

LEMMA HandlersInit == Init => HandlersInv
BY DEF Init, HandlersInv, Extending, Preparing

LEMMA HandlersNext == TypeOK /\ HandlersInv /\ [Next]_vars => HandlersInv'
<1> SUFFICES ASSUME TypeOK, HandlersInv, [Next]_vars PROVE HandlersInv'
  OBVIOUS
<1>1. ASSUME NEW tx \in Tx, CheckTx(tx) \/ FinalizeTx(tx) PROVE HandlersInv'
  BY <1>1 DEF CheckTx, FinalizeTx, handlerVars, HandlersInv, Extending, Preparing
<1>2. CASE ExtendVote
  BY <1>2 DEF ExtendVote, history, HandlersInv, Extending, Preparing, SelectPending, pending
<1>3. CASE ExtendStep
  <2>1. /\ Len(pending'.txs) = Len(pending.txs) - 1 /\ Len(pending.txs) \in Nat
        /\ itr' => Len(pending.txs) # 1
        /\ pending.idx + 1 \in 1..Len(pending.txs) /\ pending.idx \in Nat
    BY <1>3, ExtendStepEffect, LenProperties DEF TypeOK, Mempools, Pools, pending
  <2>2. itr' => pending'.txs # <<>>
    <3>1. itr' => Len(pending'.txs) # 0
      BY <2>1
    <3> QED BY <3>1, EmptySeq
  <2> QED BY <1>3, <2>2 DEF ExtendStep, HandlersInv, Extending, Preparing
<1>4. CASE ExtendPanic \/ ExtendReturn
  BY <1>4 DEF ExtendPanic, ExtendReturn, history, HandlersInv, Extending, Preparing
<1>5. CASE PrepareProposal
  BY <1>5 DEF PrepareProposal, history, HandlersInv, Extending, Preparing, Select, ready
<1>6. CASE PrepareStep
  <2>1. ready'.txs = ready.txs
    <3>1. mp' = [mp EXCEPT !.pool = Advance(@)] /\ mp \in Mempools
      BY <1>6 DEF PrepareStep, TypeOK
    <3>2. ready' = Advance(ready) /\ ready \in Pools
      BY <3>1 DEF ready, Mempools
    <3> QED BY <3>2, AdvanceProperties
  <2> QED BY <1>6, <2>1 DEF PrepareStep, history, HandlersInv, Extending, Preparing
<1>7. CASE PreparePanic \/ PrepareReturn
  BY <1>7 DEF PreparePanic, PrepareReturn, history, HandlersInv, Extending, Preparing
<1>8. CASE Restart
  BY <1>8 DEF Restart, HandlersInv, Extending, Preparing
<1>9. CASE UNCHANGED vars
  BY <1>9 DEF vars, HandlersInv, Extending, Preparing, pending, ready
<1> QED BY <1>1, <1>2, <1>3, <1>4, <1>5, <1>6, <1>7, <1>8, <1>9 DEF Next

\* The refinement mapping (ValidatorMempool!Atomic), variable by variable.
AtomicMp ==
    IF Extending THEN AfterExtend(mp) ELSE IF Preparing THEN AfterPrepare(mp) ELSE mp

AtomicPhase ==
    CASE pc = "extend"  -> IF Fails THEN "down" ELSE "extended"
      [] pc = "prepare" -> IF Fails THEN "idle" ELSE "prepared"
      [] OTHER          -> pc

AtomicBids ==
    IF Fails \/ pc = "down" THEN <<>>
    ELSE IF Extending THEN bids \o ExtendBids(mp) ELSE bids

AtomicTxs ==
    IF Fails THEN <<>> ELSE IF Preparing THEN txs \o PrepareTxs(mp) ELSE txs

\* The operators of ThresholdMempool are the same in both specifications.
LEMMA SameOperators ==
    /\ \A m, tx : Atomic!Insert(m, tx) = Insert(m, tx)
    /\ \A m, tx : Atomic!RemoveTx(m, tx) = RemoveTx(m, tx)
    /\ \A m : Atomic!ExtendPanics(m) <=> ExtendPanics(m)
    /\ \A m : Atomic!AfterExtend(m) = AfterExtend(m)
    /\ \A m : Atomic!ExtendBids(m) = ExtendBids(m)
    /\ \A m : Atomic!PreparePanics(m) <=> PreparePanics(m)
    /\ \A m : Atomic!PrepareTxs(m) = PrepareTxs(m)
    /\ \A m : Atomic!AfterPrepare(m) = AfterPrepare(m)
    /\ Atomic!NewThresholdMempool = NewThresholdMempool
    /\ \A tx : Atomic!Signed(tx) <=> Signed(tx)
<1>1. ASSUME NEW m, NEW tx PROVE Atomic!Insert(m, tx) = Insert(m, tx)
  BY DEF Atomic!Insert, Atomic!With, Insert, With
<1>2. ASSUME NEW m, NEW tx PROVE Atomic!RemoveTx(m, tx) = RemoveTx(m, tx)
  BY DEF Atomic!RemoveTx, Atomic!Without, Atomic!Holds, Atomic!FirstEqual, Atomic!Equal,
         Atomic!RemoveAt, RemoveTx, Without, Holds, FirstEqual, Equal, RemoveAt
<1>3. ASSUME NEW m PROVE Atomic!ExtendPanics(m) <=> ExtendPanics(m)
  BY DEF Atomic!ExtendPanics, Atomic!SelectPending, Atomic!OutOfBound, Atomic!Ahead,
         ExtendPanics, SelectPending, OutOfBound, Ahead
<1>4. ASSUME NEW m PROVE Atomic!AfterExtend(m) = AfterExtend(m)
  BY DEF Atomic!AfterExtend, Atomic!Skips, Atomic!Walked, Atomic!ExtendPanics,
         Atomic!SelectPending, Atomic!OutOfBound, Atomic!Ahead,
         AfterExtend, Skips, Walked, ExtendPanics, SelectPending, OutOfBound, Ahead
<1>5. ASSUME NEW m PROVE Atomic!ExtendBids(m) = ExtendBids(m)
  BY DEF Atomic!ExtendBids, Atomic!Walked, Atomic!OutOfBound, Atomic!Ahead, Atomic!FlattenSeq,
         Atomic!BidsOf, Atomic!IsBid, ExtendBids, Walked, OutOfBound, Ahead, FlattenSeq,
         BidsOf, IsBid
<1>6. ASSUME NEW m PROVE Atomic!PreparePanics(m) <=> PreparePanics(m)
  BY DEF Atomic!PreparePanics, Atomic!Select, Atomic!OutOfBound,
         PreparePanics, Select, OutOfBound
<1>7. ASSUME NEW m PROVE Atomic!PrepareTxs(m) = PrepareTxs(m)
  BY DEF Atomic!PrepareTxs, PrepareTxs
<1>8. ASSUME NEW m PROVE Atomic!AfterPrepare(m) = AfterPrepare(m)
  BY DEF Atomic!AfterPrepare, Atomic!Ahead, Atomic!OutOfBound, AfterPrepare, Ahead, OutOfBound
<1>9. Atomic!NewThresholdMempool = NewThresholdMempool
  BY DEF Atomic!NewThresholdMempool, Atomic!EmptyPool, NewThresholdMempool, EmptyPool
<1>10. ASSUME NEW tx PROVE Atomic!Signed(tx) <=> Signed(tx)
  BY DEF Atomic!Signed, Signed
<1> QED BY <1>1, <1>2, <1>3, <1>4, <1>5, <1>6, <1>7, <1>8, <1>9, <1>10

\* What the mapping is in which states.
Mapping ==
    /\ pc \notin {"extend", "prepare"} =>
          /\ AtomicMp = mp /\ AtomicPhase = pc /\ AtomicTxs = txs
          /\ AtomicBids = IF pc = "down" THEN <<>> ELSE bids
    /\ pc = "extend" /\ ~itr =>
          AtomicMp = mp /\ AtomicPhase = "extended" /\ AtomicBids = bids /\ AtomicTxs = txs
    /\ pc = "prepare" /\ ~itr =>
          AtomicMp = mp /\ AtomicPhase = "prepared" /\ AtomicBids = bids /\ AtomicTxs = txs
    /\ pc = "extend" /\ itr =>
          /\ AtomicMp = AfterExtend(mp)
          /\ ExtendPanics(mp) => /\ AtomicPhase = "down"
                                 /\ AtomicBids = <<>> /\ AtomicTxs = <<>>
          /\ ~ExtendPanics(mp) => /\ AtomicPhase = "extended" /\ AtomicTxs = txs
                                  /\ AtomicBids = bids \o ExtendBids(mp)
    /\ pc = "prepare" /\ itr =>
          /\ AtomicMp = AfterPrepare(mp)
          /\ PreparePanics(mp) => /\ AtomicPhase = "idle"
                                  /\ AtomicBids = <<>> /\ AtomicTxs = <<>>
          /\ ~PreparePanics(mp) => /\ AtomicPhase = "prepared" /\ AtomicBids = bids
                                   /\ AtomicTxs = txs \o PrepareTxs(mp)

LEMMA MappingHolds == Mapping
<1>1. CASE pc \notin {"extend", "prepare"}
  <2>1. ~Extending /\ ~Preparing /\ ~Fails /\ pc # "extend" /\ pc # "prepare"
    BY <1>1 DEF Extending, Preparing, Fails
  <2> QED BY <2>1 DEF Mapping, AtomicMp, AtomicPhase, AtomicBids, AtomicTxs
<1>2. CASE pc = "extend" /\ ~itr
  <2>1. ~Extending /\ ~Preparing /\ ~Fails
    BY <1>2 DEF Extending, Preparing, Fails
  <2> QED BY <1>2, <2>1 DEF Mapping, AtomicMp, AtomicPhase, AtomicBids, AtomicTxs
<1>3. CASE pc = "prepare" /\ ~itr
  <2>1. ~Extending /\ ~Preparing /\ ~Fails
    BY <1>3 DEF Extending, Preparing, Fails
  <2> QED BY <1>3, <2>1 DEF Mapping, AtomicMp, AtomicPhase, AtomicBids, AtomicTxs
<1>4. CASE pc = "extend" /\ itr
  <2>1. Extending /\ ~Preparing /\ (Fails <=> ExtendPanics(mp))
    BY <1>4 DEF Extending, Preparing, Fails
  <2>2. CASE Fails
    BY <1>4, <2>1, <2>2 DEF Mapping, AtomicMp, AtomicPhase, AtomicBids, AtomicTxs
  <2>3. CASE ~Fails
    BY <1>4, <2>1, <2>3 DEF Mapping, AtomicMp, AtomicPhase, AtomicBids, AtomicTxs
  <2> QED BY <2>2, <2>3
<1>5. CASE pc = "prepare" /\ itr
  <2>1. ~Extending /\ Preparing /\ (Fails <=> PreparePanics(mp))
    BY <1>5 DEF Extending, Preparing, Fails
  <2>2. CASE Fails
    BY <1>5, <2>1, <2>2 DEF Mapping, AtomicMp, AtomicPhase, AtomicBids, AtomicTxs
  <2>3. CASE ~Fails
    BY <1>5, <2>1, <2>3 DEF Mapping, AtomicMp, AtomicPhase, AtomicBids, AtomicTxs
  <2> QED BY <2>2, <2>3
<1> QED BY <1>1, <1>2, <1>3, <1>4, <1>5

LEMMA MappingNext == Mapping'
BY MappingHolds, PTL

\* The actions of AtomicValidator, seen through the mapping.
LEMMA AtomicActions ==
    /\ \A tx : Atomic!CheckTx(tx) <=>
          /\ AtomicPhase = "idle" /\ Signed(tx) /\ tx \notin ToSet(arrived)
          /\ AtomicMp' = Insert(AtomicMp, tx)
          /\ ToSet(arrived)' = ToSet(arrived) \cup {tx}
          /\ UNCHANGED <<AtomicPhase, AtomicBids, AtomicTxs, reported>>
    /\ \A tx : Atomic!FinalizeTx(tx) <=>
          /\ AtomicPhase = "idle"
          /\ AtomicMp' = RemoveTx(AtomicMp, tx)
          /\ UNCHANGED <<AtomicPhase, AtomicBids, AtomicTxs, ToSet(arrived), reported>>
    /\ Atomic!ExtendVote <=>
          /\ AtomicPhase = "idle"
          /\ AtomicMp' = AfterExtend(AtomicMp)
          /\ IF ExtendPanics(AtomicMp)
             THEN AtomicPhase' = "down" /\ UNCHANGED AtomicBids
             ELSE AtomicPhase' = "extended" /\ AtomicBids' = ExtendBids(AtomicMp)
          /\ UNCHANGED <<AtomicTxs, ToSet(arrived), reported>>
    /\ Atomic!ExtendReturn <=>
          /\ AtomicPhase = "extended"
          /\ AtomicPhase' = "idle" /\ AtomicBids' = <<>>
          /\ reported' = reported \cup ToSet(AtomicBids)
          /\ UNCHANGED <<AtomicMp, AtomicTxs, ToSet(arrived)>>
    /\ Atomic!PrepareProposal <=>
          /\ AtomicPhase = "idle" /\ ~PreparePanics(AtomicMp)
          /\ AtomicPhase' = "prepared"
          /\ AtomicTxs' = PrepareTxs(AtomicMp) /\ AtomicMp' = AfterPrepare(AtomicMp)
          /\ UNCHANGED <<AtomicBids, ToSet(arrived), reported>>
    /\ Atomic!PrepareReturn <=>
          /\ AtomicPhase = "prepared"
          /\ AtomicPhase' = "idle" /\ AtomicTxs' = <<>>
          /\ UNCHANGED <<AtomicMp, AtomicBids, ToSet(arrived), reported>>
    /\ Atomic!Restart <=>
          /\ AtomicMp' = NewThresholdMempool
          /\ AtomicPhase' = "idle" /\ AtomicBids' = <<>> /\ AtomicTxs' = <<>>
          /\ ToSet(arrived)' = {} /\ reported' = {}
<1>2. ASSUME NEW tx
      PROVE  Atomic!CheckTx(tx) <=>
                /\ AtomicPhase = "idle" /\ Signed(tx) /\ tx \notin ToSet(arrived)
                /\ AtomicMp' = Insert(AtomicMp, tx)
                /\ ToSet(arrived)' = ToSet(arrived) \cup {tx}
                /\ UNCHANGED <<AtomicPhase, AtomicBids, AtomicTxs, reported>>
  BY SameOperators DEF Atomic!CheckTx, AtomicMp, AtomicPhase, AtomicBids, AtomicTxs
<1>3. ASSUME NEW tx
      PROVE  Atomic!FinalizeTx(tx) <=>
                /\ AtomicPhase = "idle"
                /\ AtomicMp' = RemoveTx(AtomicMp, tx)
                /\ UNCHANGED <<AtomicPhase, AtomicBids, AtomicTxs, ToSet(arrived), reported>>
  BY SameOperators DEF Atomic!FinalizeTx, AtomicMp, AtomicPhase, AtomicBids, AtomicTxs
<1>4. Atomic!ExtendVote <=>
          /\ AtomicPhase = "idle"
          /\ AtomicMp' = AfterExtend(AtomicMp)
          /\ IF ExtendPanics(AtomicMp)
             THEN AtomicPhase' = "down" /\ UNCHANGED AtomicBids
             ELSE AtomicPhase' = "extended" /\ AtomicBids' = ExtendBids(AtomicMp)
          /\ UNCHANGED <<AtomicTxs, ToSet(arrived), reported>>
  BY SameOperators DEF Atomic!ExtendVote, AtomicMp, AtomicPhase, AtomicBids, AtomicTxs
<1>5. Atomic!ExtendReturn <=>
          /\ AtomicPhase = "extended"
          /\ AtomicPhase' = "idle" /\ AtomicBids' = <<>>
          /\ reported' = reported \cup ToSet(AtomicBids)
          /\ UNCHANGED <<AtomicMp, AtomicTxs, ToSet(arrived)>>
  BY DEF Atomic!ExtendReturn, Atomic!ToSet, ToSet, AtomicMp, AtomicPhase, AtomicBids, AtomicTxs
<1>6. Atomic!PrepareProposal <=>
          /\ AtomicPhase = "idle" /\ ~PreparePanics(AtomicMp)
          /\ AtomicPhase' = "prepared"
          /\ AtomicTxs' = PrepareTxs(AtomicMp) /\ AtomicMp' = AfterPrepare(AtomicMp)
          /\ UNCHANGED <<AtomicBids, ToSet(arrived), reported>>
  BY SameOperators DEF Atomic!PrepareProposal, AtomicMp, AtomicPhase, AtomicBids, AtomicTxs
<1>7. Atomic!PrepareReturn <=>
          /\ AtomicPhase = "prepared"
          /\ AtomicPhase' = "idle" /\ AtomicTxs' = <<>>
          /\ UNCHANGED <<AtomicMp, AtomicBids, ToSet(arrived), reported>>
  BY DEF Atomic!PrepareReturn, AtomicMp, AtomicPhase, AtomicBids, AtomicTxs
<1>8. Atomic!Restart <=>
          /\ AtomicMp' = NewThresholdMempool
          /\ AtomicPhase' = "idle" /\ AtomicBids' = <<>> /\ AtomicTxs' = <<>>
          /\ ToSet(arrived)' = {} /\ reported' = {}
  BY SameOperators DEF Atomic!Restart, AtomicMp, AtomicPhase, AtomicBids, AtomicTxs
<1> QED BY <1>2, <1>3, <1>4, <1>5, <1>6, <1>7, <1>8

LEMMA AtomicStutter ==
    ASSUME AtomicMp' = AtomicMp, AtomicPhase' = AtomicPhase, AtomicBids' = AtomicBids,
           AtomicTxs' = AtomicTxs, arrived' = arrived, reported' = reported
    PROVE  UNCHANGED Atomic!vars
BY DEF Atomic!vars, AtomicMp, AtomicPhase, AtomicBids, AtomicTxs

-----------------------------------------------------------------------------
(* The simulation *)

\* While no handler runs, the mapping changes nothing.
LEMMA IdleMapping ==
    ASSUME HandlersInv, pc = "idle"
    PROVE  /\ AtomicMp = mp /\ AtomicPhase = "idle" /\ AtomicBids = <<>> /\ AtomicTxs = <<>>
           /\ bids = <<>> /\ txs = <<>>
BY MappingHolds DEF Mapping, HandlersInv

LEMMA SimulateIdle ==
    ASSUME TypeOK, HandlersInv, NEW tx \in Tx, CheckTx(tx) \/ FinalizeTx(tx)
    PROVE  Atomic!CheckTx(tx) \/ Atomic!FinalizeTx(tx)
<1>1. pc = "idle" /\ pc' = "idle" /\ bids' = bids /\ txs' = txs /\ reported' = reported
  BY DEF CheckTx, FinalizeTx, handlerVars
<1>2. AtomicMp = mp /\ AtomicPhase = "idle" /\ AtomicBids = bids /\ AtomicTxs = txs
  BY <1>1, IdleMapping
<1>3. AtomicMp' = mp' /\ AtomicPhase' = "idle" /\ AtomicBids' = bids' /\ AtomicTxs' = txs'
  BY <1>1, MappingNext DEF Mapping
<1>4. CASE CheckTx(tx)
  <2>1. /\ Signed(tx) /\ tx \notin ToSet(arrived)
        /\ mp' = Insert(mp, tx) /\ arrived' = Append(arrived, tx)
    BY <1>4 DEF CheckTx
  <2>2. ToSet(Append(arrived, tx)) = ToSet(arrived) \cup {tx}
    <3>1. arrived \in Seq(Tx) /\ <<tx>> \in Seq(Tx) /\ ToSet(<<tx>>) = {tx}
      BY DEF TypeOK, ToSet
    <3>2. Append(arrived, tx) = arrived \o <<tx>>
      BY <3>1
    <3>3. ToSet(arrived \o <<tx>>) = ToSet(arrived) \cup ToSet(<<tx>>)
      BY <3>1, ToSetConcat
    <3> QED BY <3>1, <3>2, <3>3
  <2> QED BY <1>1, <1>2, <1>3, <2>1, <2>2, AtomicActions
<1>5. CASE FinalizeTx(tx)
  <2>1. mp' = RemoveTx(mp, tx) /\ arrived' = arrived
    BY <1>5 DEF FinalizeTx
  <2> QED BY <1>1, <1>2, <1>3, <2>1, AtomicActions
<1> QED BY <1>4, <1>5

LEMMA SimulateExtendVote ==
    ASSUME TypeOK, HandlersInv, ExtendVote
    PROVE  Atomic!ExtendVote
<1>1. /\ pc = "idle" /\ pc' = "extend" /\ itr' = SelectPending(mp) /\ bids' = <<>>
      /\ mp' = mp /\ txs' = txs /\ arrived' = arrived /\ reported' = reported
  BY DEF ExtendVote, history
<1>2. /\ AtomicMp = mp /\ AtomicPhase = "idle" /\ AtomicBids = <<>> /\ AtomicTxs = <<>>
      /\ txs = <<>>
  BY <1>1, IdleMapping
<1>3. mp \in Mempools
  BY DEF TypeOK
<1>4. CASE ~SelectPending(mp)
  <2>1. ~ExtendPanics(mp)
    BY <1>4 DEF ExtendPanics
  <2>2. Ahead(pending) = 0
    <3>1. Len(pending.txs) = 0
      BY <1>4, EmptySeq DEF SelectPending, pending
    <3> QED BY <1>3, <3>1, PanicsByAhead DEF pending
  <2>3. AfterExtend(mp) = mp
    BY <2>2 DEF AfterExtend, pending
  <2>4. ExtendBids(mp) = <<>>
    <3>1. Walked(pending) = <<>>
      BY <2>2 DEF Walked
    <3> QED BY <3>1, BidsOfNone DEF ExtendBids, AllBids, pending
  <2>5. AtomicMp' = mp' /\ AtomicPhase' = "extended" /\ AtomicBids' = bids' /\ AtomicTxs' = txs'
    BY <1>1, <1>4, MappingNext DEF Mapping
  <2> QED BY <1>1, <1>2, <2>1, <2>3, <2>4, <2>5, AtomicActions
<1>5. CASE SelectPending(mp)
  <2>1. /\ AtomicMp' = AfterExtend(mp')
        /\ ExtendPanics(mp') => /\ AtomicPhase' = "down"
                                /\ AtomicBids' = <<>> /\ AtomicTxs' = <<>>
        /\ ~ExtendPanics(mp') => /\ AtomicPhase' = "extended" /\ AtomicTxs' = txs'
                                 /\ AtomicBids' = bids' \o ExtendBids(mp')
    BY <1>1, <1>5, MappingNext DEF Mapping
  <2>2. <<>> \o ExtendBids(mp) = ExtendBids(mp)
    BY <1>3, ExtendBidsType, ConcatEmptySeq
  <2> QED BY <1>1, <1>2, <2>1, <2>2, AtomicActions
<1> QED BY <1>4, <1>5

LEMMA SimulateReturn ==
    ASSUME TypeOK, HandlersInv
    PROVE  /\ ExtendReturn => Atomic!ExtendReturn
           /\ PrepareReturn => Atomic!PrepareReturn
           /\ Restart => Atomic!Restart
<1>1. ASSUME ExtendReturn PROVE Atomic!ExtendReturn
  <2>1. /\ pc = "extend" /\ ~itr /\ pc' = "idle" /\ bids' = <<>> /\ mp' = mp
        /\ txs' = txs /\ arrived' = arrived /\ reported' = reported \cup ToSet(bids)
    BY <1>1 DEF ExtendReturn
  <2>2. AtomicMp = mp /\ AtomicPhase = "extended" /\ AtomicBids = bids /\ AtomicTxs = txs
    BY <2>1, MappingHolds DEF Mapping
  <2>3. AtomicMp' = mp' /\ AtomicPhase' = "idle" /\ AtomicBids' = <<>> /\ AtomicTxs' = txs'
    BY <2>1, MappingNext DEF Mapping
  <2> QED BY <2>1, <2>2, <2>3, AtomicActions
<1>2. ASSUME PrepareReturn PROVE Atomic!PrepareReturn
  <2>1. /\ pc = "prepare" /\ ~itr /\ pc' = "idle" /\ txs' = <<>> /\ mp' = mp
        /\ bids' = bids /\ arrived' = arrived /\ reported' = reported
    BY <1>2 DEF PrepareReturn, history
  <2>2. AtomicMp = mp /\ AtomicPhase = "prepared" /\ AtomicBids = bids /\ AtomicTxs = txs
    BY <2>1, MappingHolds DEF Mapping
  <2>3. AtomicMp' = mp' /\ AtomicPhase' = "idle" /\ AtomicBids' = bids' /\ AtomicTxs' = <<>>
    BY <2>1, MappingNext DEF Mapping
  <2> QED BY <2>1, <2>2, <2>3, AtomicActions
<1>3. ASSUME Restart PROVE Atomic!Restart
  <2>1. /\ pc' = "idle" /\ bids' = <<>> /\ txs' = <<>> /\ mp' = NewThresholdMempool
        /\ arrived' = <<>> /\ reported' = {}
    BY <1>3 DEF Restart
  <2>2. AtomicMp' = mp' /\ AtomicPhase' = "idle" /\ AtomicBids' = bids' /\ AtomicTxs' = txs'
    BY <2>1, MappingNext DEF Mapping
  <2>3. ToSet(<<>>) = {}
    BY DEF ToSet
  <2> QED BY <2>1, <2>2, <2>3, AtomicActions
<1> QED BY <1>1, <1>2, <1>3

\* An iteration of ExtendVote is no step of AtomicValidator.
LEMMA StutterExtendStep ==
    ASSUME TypeOK, TypeOK', HandlersInv, OrderInv, NoTwinsArrived, ExtendStep
    PROVE  UNCHANGED Atomic!vars
<1> DEFINE b == BidsOf(Current(pending))
           c == pending.idx + 1
<1>1. /\ pc = "extend" /\ itr /\ ~OutOfBound(pending) /\ pc' = "extend" /\ itr' \in BOOLEAN
      /\ txs' = txs /\ txs = <<>> /\ arrived' = arrived /\ reported' = reported
  BY DEF ExtendStep, history, HandlersInv, TypeOK
<1>2. mp \in Mempools /\ mp' \in Mempools /\ bids \in Seq(Bid)
  BY DEF TypeOK
<1>3. /\ Current(pending) \in Tx /\ c \in 1..Len(pending.txs)
      /\ Current(pending) = pending.txs[c]
      /\ ready' = With(ready, Current(pending))
      /\ itr' <=> ~(Len(pending.txs) = 1 \/ Len(pending.txs) = pending.idx + 2)
      /\ pending'.idx = IF itr' THEN pending.idx + 1 ELSE pending.idx
      /\ bids' = bids \o b
  BY ExtendStepEffect
<1>4. PICK k \in 1..c : /\ Equal(pending.txs[k], pending.txs[c])
                        /\ pending'.txs = RemoveAt(pending.txs, k)
  BY <1>3, ExtendStepEffect
<1>5. k = c
  BY <1>3, <1>4, FoundUnderCursor
<1>6. /\ itr' => /\ AfterExtend(mp') = AfterExtend(mp)
                 /\ ExtendPanics(mp') <=> ExtendPanics(mp)
                 /\ ExtendBids(mp) = b \o ExtendBids(mp')
      /\ ~itr' => /\ AfterExtend(mp) = mp' /\ ~ExtendPanics(mp)
                  /\ ExtendBids(mp) = b
  <2> HIDE DEF b, c
  <2>1. pending'.txs = RemoveAt(pending.txs, c)
    BY <1>4, <1>5
  <2>2. /\ mp'.pendingPool.txs = RemoveAt(mp.pendingPool.txs, mp.pendingPool.idx + 1)
        /\ mp'.pendingPool.idx = IF itr' THEN mp.pendingPool.idx + 1 ELSE mp.pendingPool.idx
        /\ mp'.pool = With(mp.pool, Current(mp.pendingPool))
        /\ ~OutOfBound(mp.pendingPool)
        /\ itr' <=> ~(Len(mp.pendingPool.txs) = 1
                      \/ Len(mp.pendingPool.txs) = mp.pendingPool.idx + 2)
    BY <1>1, <1>3, <2>1 DEF pending, ready, c
  <2> QED BY <1>1, <1>2, <2>2, ExtendIteration DEF b, pending
<1>7. /\ AtomicMp = AfterExtend(mp)
      /\ ExtendPanics(mp) => AtomicPhase = "down" /\ AtomicBids = <<>> /\ AtomicTxs = <<>>
      /\ ~ExtendPanics(mp) => /\ AtomicPhase = "extended" /\ AtomicTxs = txs
                              /\ AtomicBids = bids \o ExtendBids(mp)
  BY <1>1, MappingHolds DEF Mapping
<1>8. CASE itr'
  <2>1. /\ AtomicMp' = AfterExtend(mp')
        /\ ExtendPanics(mp') => /\ AtomicPhase' = "down"
                                /\ AtomicBids' = <<>> /\ AtomicTxs' = <<>>
        /\ ~ExtendPanics(mp') => /\ AtomicPhase' = "extended" /\ AtomicTxs' = txs'
                                 /\ AtomicBids' = bids' \o ExtendBids(mp')
    BY <1>1, <1>8, MappingNext DEF Mapping
  <2>2. bids' \o ExtendBids(mp') = bids \o ExtendBids(mp)
    <3>1. b \in Seq(Bid) /\ ExtendBids(mp') \in Seq(Bid)
      BY <1>2, <1>3, BidsOfTx, ExtendBidsType
    <3>2. (bids \o b) \o ExtendBids(mp') = bids \o (b \o ExtendBids(mp'))
      BY <1>2, <3>1, ConcatAssociative
    <3> QED BY <1>3, <1>6, <1>8, <3>2
  <2>3. AtomicMp' = AtomicMp
    BY <1>6, <1>7, <1>8, <2>1
  <2>4. AtomicPhase' = AtomicPhase /\ AtomicBids' = AtomicBids /\ AtomicTxs' = AtomicTxs
    <3>1. CASE ExtendPanics(mp)
      BY <1>6, <1>7, <1>8, <2>1, <3>1
    <3>2. CASE ~ExtendPanics(mp)
      BY <1>1, <1>6, <1>7, <1>8, <2>1, <2>2, <3>2
    <3> QED BY <3>1, <3>2
  <2> QED BY <1>1, <2>3, <2>4, AtomicStutter
<1>9. CASE ~itr'
  <2>1. AtomicMp' = mp' /\ AtomicPhase' = "extended" /\ AtomicBids' = bids' /\ AtomicTxs' = txs'
    BY <1>1, <1>9, MappingNext DEF Mapping
  <2> QED BY <1>1, <1>3, <1>6, <1>7, <1>9, <2>1, AtomicStutter
<1> QED BY <1>8, <1>9

\* A panic is settled when the handler is called.
LEMMA StutterPanic ==
    ASSUME TypeOK, HandlersInv, ExtendPanic \/ PreparePanic
    PROVE  UNCHANGED Atomic!vars
<1>1. mp \in Mempools
  BY DEF TypeOK
<1>2. CASE ExtendPanic
  <2>1. /\ pc = "extend" /\ itr /\ OutOfBound(pending) /\ pc' = "down"
        /\ mp' = mp /\ txs' = txs /\ arrived' = arrived /\ reported' = reported
    BY <1>2 DEF ExtendPanic, history
  <2>2. pending.txs # <<>> /\ txs = <<>>
    BY <2>1 DEF HandlersInv, Extending
  <2>3. ExtendPanics(mp)
    BY <2>1, <2>2 DEF ExtendPanics, SelectPending, pending
  <2>4. AfterExtend(mp) = mp
    <3>1. Ahead(pending) = 0
      BY <2>1 DEF Ahead
    <3> QED BY <3>1 DEF AfterExtend, pending
  <2>5. AtomicMp = mp /\ AtomicPhase = "down" /\ AtomicBids = <<>> /\ AtomicTxs = <<>>
    BY <2>1, <2>3, <2>4, MappingHolds DEF Mapping
  <2>6. AtomicMp' = mp' /\ AtomicPhase' = "down" /\ AtomicBids' = <<>> /\ AtomicTxs' = txs'
    BY <2>1, MappingNext DEF Mapping
  <2> QED BY <2>1, <2>2, <2>5, <2>6, AtomicStutter
<1>3. CASE PreparePanic
  <2>1. /\ pc = "prepare" /\ itr /\ OutOfBound(ready) /\ pc' = "idle" /\ txs' = <<>>
        /\ mp' = mp /\ bids' = bids /\ bids = <<>> /\ arrived' = arrived /\ reported' = reported
    BY <1>3 DEF PreparePanic, history, HandlersInv
  <2>2. ready.txs # <<>>
    BY <2>1 DEF HandlersInv, Preparing
  <2>3. PreparePanics(mp)
    BY <2>1, <2>2 DEF PreparePanics, Select, ready
  <2>4. AfterPrepare(mp) = mp
    <3>1. Ahead(ready) = 0
      BY <2>1 DEF Ahead
    <3> QED BY <3>1 DEF AfterPrepare, ready
  <2>5. AtomicMp = mp /\ AtomicPhase = "idle" /\ AtomicBids = <<>> /\ AtomicTxs = <<>>
    BY <2>1, <2>3, <2>4, MappingHolds DEF Mapping
  <2>6. AtomicMp' = mp' /\ AtomicPhase' = "idle" /\ AtomicBids' = bids' /\ AtomicTxs' = txs'
    BY <2>1, MappingNext DEF Mapping
  <2> QED BY <2>1, <2>5, <2>6, AtomicStutter
<1> QED BY <1>2, <1>3

\* PrepareProposal is a step of AtomicValidator, unless it is going to panic.
LEMMA SimulatePrepareProposal ==
    ASSUME TypeOK, HandlersInv, PrepareProposal
    PROVE  Atomic!PrepareProposal \/ UNCHANGED Atomic!vars
<1>1. /\ pc = "idle" /\ pc' = "prepare" /\ itr' = Select(mp) /\ txs' = <<>>
      /\ mp' = mp /\ bids' = bids /\ arrived' = arrived /\ reported' = reported
  BY DEF PrepareProposal, history
<1>2. /\ AtomicMp = mp /\ AtomicPhase = "idle" /\ AtomicBids = <<>> /\ AtomicTxs = <<>>
      /\ bids = <<>>
  BY <1>1, IdleMapping
<1>3. mp \in Mempools /\ ready.txs \in Seq(Tx) /\ ready.idx \in Nat
  BY DEF TypeOK, Mempools, Pools, ready
<1>4. CASE ~Select(mp)
  <2>1. ~PreparePanics(mp)
    BY <1>4 DEF PreparePanics
  <2>2. ready.txs = <<>> /\ Len(ready.txs) = 0
    BY <1>4, EmptySeq DEF Select, ready
  <2>3. AfterPrepare(mp) = mp
    <3>1. Ahead(ready) = 0
      BY <1>3, <2>2 DEF Ahead, OutOfBound
    <3> QED BY <3>1 DEF AfterPrepare, ready
  <2>4. PrepareTxs(mp) = <<>>
    <3>1. PrepareTxs(mp) = SubSeq(ready.txs, ready.idx + 1, 0)
      BY <2>2 DEF PrepareTxs, ready
    <3>2. SubSeq(ready.txs, ready.idx + 1, 0) = <<>>
      BY <1>3
    <3> QED BY <3>1, <3>2
  <2>5. AtomicMp' = mp' /\ AtomicPhase' = "prepared" /\ AtomicBids' = bids' /\ AtomicTxs' = txs'
    BY <1>1, <1>4, MappingNext DEF Mapping
  <2> QED BY <1>1, <1>2, <2>1, <2>3, <2>4, <2>5, AtomicActions
<1>5. CASE Select(mp)
  <2>1. /\ AtomicMp' = AfterPrepare(mp')
        /\ PreparePanics(mp') => /\ AtomicPhase' = "idle"
                                 /\ AtomicBids' = <<>> /\ AtomicTxs' = <<>>
        /\ ~PreparePanics(mp') => /\ AtomicPhase' = "prepared" /\ AtomicBids' = bids'
                                  /\ AtomicTxs' = txs' \o PrepareTxs(mp')
    BY <1>1, <1>5, MappingNext DEF Mapping
  <2>2. CASE PreparePanics(mp)
    <3>1. Ahead(ready) = 0
      BY <2>2 DEF PreparePanics, Ahead, ready
    <3>2. AfterPrepare(mp) = mp
      BY <3>1 DEF AfterPrepare, ready
    <3> QED BY <1>1, <1>2, <2>1, <2>2, <3>2, AtomicStutter
  <2>3. CASE ~PreparePanics(mp)
    <3>1. <<>> \o PrepareTxs(mp) = PrepareTxs(mp)
      <4>1. PrepareTxs(mp) \in Seq(Tx)
        BY <1>3, PrepareEffect
      <4> QED BY <4>1, ConcatEmptySeq
    <3> QED BY <1>1, <1>2, <2>1, <2>3, <3>1, AtomicActions
  <2> QED BY <2>2, <2>3
<1> QED BY <1>4, <1>5

\* An iteration of PrepareProposal is no step of AtomicValidator.
LEMMA StutterPrepareStep ==
    ASSUME TypeOK, TypeOK', HandlersInv, PrepareStep
    PROVE  UNCHANGED Atomic!vars
<1> DEFINE tx == Current(ready)
<1>1. /\ pc = "prepare" /\ itr /\ ~OutOfBound(ready) /\ pc' = "prepare"
      /\ itr' = ~Exhausted(ready) /\ txs' = Append(txs, tx)
      /\ bids' = bids /\ bids = <<>> /\ arrived' = arrived /\ reported' = reported
  BY DEF PrepareStep, history, HandlersInv
<1>2. mp \in Mempools /\ mp' \in Mempools /\ txs \in Seq(Tx) /\ ready \in Pools
  BY DEF TypeOK, Mempools, ready
<1>3. mp'.pendingPool = mp.pendingPool /\ mp'.pool = Advance(mp.pool)
  BY <1>2 DEF PrepareStep, Mempools
<1>4. /\ ~Exhausted(ready) => /\ ~OutOfBound(mp'.pool)
                              /\ AfterPrepare(mp') = AfterPrepare(mp)
                              /\ PrepareTxs(mp) = <<tx>> \o PrepareTxs(mp')
      /\ Exhausted(ready) => AfterPrepare(mp) = mp' /\ PrepareTxs(mp) = <<tx>>
  <2>1. ~OutOfBound(mp.pool)
    BY <1>1 DEF ready
  <2> QED BY <1>2, <1>3, <2>1, PrepareIteration DEF ready
<1>5. tx \in Tx /\ <<tx>> \in Seq(Tx) /\ txs' = txs \o <<tx>>
  BY <1>1, <1>2, CurrentProperties
<1>6. ~PreparePanics(mp)
  BY <1>1 DEF PreparePanics, ready
<1>7. /\ AtomicMp = AfterPrepare(mp) /\ AtomicPhase = "prepared" /\ AtomicBids = bids
      /\ AtomicTxs = txs \o PrepareTxs(mp)
  BY <1>1, <1>6, MappingHolds DEF Mapping
<1> HIDE DEF tx
<1>8. CASE itr'
  <2>1. ~Exhausted(ready) /\ ~PreparePanics(mp')
    BY <1>1, <1>4, <1>8 DEF PreparePanics
  <2>2. /\ AtomicMp' = AfterPrepare(mp') /\ AtomicPhase' = "prepared" /\ AtomicBids' = bids'
        /\ AtomicTxs' = txs' \o PrepareTxs(mp')
    BY <1>1, <1>8, <2>1, MappingNext DEF Mapping
  <2>3. PrepareTxs(mp') \in Seq(Tx)
    BY <1>2, PrepareEffect
  <2>4. (txs \o <<tx>>) \o PrepareTxs(mp') = txs \o (<<tx>> \o PrepareTxs(mp'))
    BY <1>2, <1>5, <2>3, ConcatAssociative
  <2> QED BY <1>1, <1>4, <1>5, <1>7, <2>1, <2>2, <2>4, AtomicStutter
<1>9. CASE ~itr'
  <2>1. AtomicMp' = mp' /\ AtomicPhase' = "prepared" /\ AtomicBids' = bids' /\ AtomicTxs' = txs'
    BY <1>1, <1>9, MappingNext DEF Mapping
  <2> QED BY <1>1, <1>4, <1>5, <1>7, <1>9, <2>1, AtomicStutter
<1> QED BY <1>1, <1>8, <1>9

LEMMA SimulateInit == Init => Atomic!Init
<1> SUFFICES ASSUME Init PROVE Atomic!Init
  OBVIOUS
<1>1. /\ mp = NewThresholdMempool /\ pc = "idle" /\ bids = <<>> /\ txs = <<>>
      /\ arrived = <<>> /\ reported = {}
  BY DEF Init
<1>2. AtomicMp = mp /\ AtomicPhase = "idle" /\ AtomicBids = <<>> /\ AtomicTxs = <<>>
  BY <1>1, HandlersInit, IdleMapping
<1>3. ToSet(<<>>) = {}
  BY DEF ToSet
<1>4. Atomic!NewThresholdMempool = NewThresholdMempool
  BY SameOperators
<1> QED
  BY <1>1, <1>2, <1>3, <1>4 DEF Atomic!Init, AtomicMp, AtomicPhase, AtomicBids, AtomicTxs

LEMMA Simulation ==
    ASSUME TypeOK, TypeOK', HandlersInv, OrderInv, NoTwinsArrived, [Next]_vars
    PROVE  Atomic!Next \/ UNCHANGED Atomic!vars
<1>1. ASSUME NEW tx \in Tx, CheckTx(tx) \/ FinalizeTx(tx) PROVE Atomic!Next
  BY <1>1, SimulateIdle DEF Atomic!Next
<1>2. CASE ExtendVote
  BY <1>2, SimulateExtendVote DEF Atomic!Next
<1>3. CASE ExtendReturn \/ PrepareReturn \/ Restart
  BY <1>3, SimulateReturn DEF Atomic!Next
<1>4. CASE ExtendStep
  BY <1>4, StutterExtendStep
<1>5. CASE ExtendPanic \/ PreparePanic
  BY <1>5, StutterPanic
<1>6. CASE PrepareProposal
  BY <1>6, SimulatePrepareProposal DEF Atomic!Next
<1>7. CASE PrepareStep
  BY <1>7, StutterPrepareStep
<1>8. CASE UNCHANGED vars
  BY <1>8, AtomicStutter
     DEF vars, AtomicMp, AtomicPhase, AtomicBids, AtomicTxs, Fails, Extending, Preparing
<1> QED BY <1>1, <1>2, <1>3, <1>4, <1>5, <1>6, <1>7, <1>8 DEF Next

(***************************************************************************)
(* The loops of ExtendVote and PrepareProposal implement handlers that do  *)
(* everything in one step, as long as no two Equal transactions have       *)
(* arrived: what a handler answers, what it does to the mempool, and       *)
(* whether it panics, is settled when it is called.                        *)
(***************************************************************************)
THEOREM LoopsAreSteps == Spec => AtomicSpec
<1>1. TypeOK /\ TypeOK' /\ HandlersInv /\ OrderInv /\ [Next]_vars
          => [NoTwinsArrived => Atomic!Next]_(Atomic!vars)
  BY Simulation
<1> QED
  BY <1>1, SimulateInit, Typing, HandlersInit, HandlersNext, OrderInit, OrderNext, PTL
     DEF Spec, AtomicSpec
=============================================================================
