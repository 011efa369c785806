------------------------- MODULE AuctionNetworkProofs -------------------------
(***************************************************************************)
(* Proofs about AuctionNetwork, for any number of validators, any          *)
(* transactions and bids, any block size, and any number of failed rounds  *)
(* and crashes.                                                            *)
(***************************************************************************)
EXTENDS AuctionNetwork, HandlerLemmas

-----------------------------------------------------------------------------
(* The inductive invariants *)

VoteOf  == {NoExtension} \cup [height : 1..LastHeight, bids : Seq(Bid)]
Entries == {[kind |-> "special", bids |-> bids] : bids \in Seq(Bid)}
           \cup [kind : {"tx"}, tx : Tx \cup {[sender |-> Signer, msgs |-> <<MatchingBid(b)>>] : b \in Bid}]
           \cup {NoBytes}

\* TypeOK in parts, with the votes as functions and with the byte strings of
\* a block.
NodesTyped ==
    /\ mp \in [Validators -> Mempools]
    /\ raw \in [Validators -> Seq(Tx)]
    /\ known \in [Validators -> SUBSET Tx] /\ decided \in [Validators -> SUBSET Tx]
    /\ up \subseteq Validators /\ author \in 0..N

RoundTyped ==
    /\ height \in 1..LastHeight /\ turn \in Validators /\ round \in 0..N-1
    /\ stage \in {"propose", "vote"} /\ voted \subseteq Validators
    /\ proposal \in Seq(Entries)

VotesTyped == extension \in [Validators -> VoteOf] /\ lastVotes \in [Validators -> VoteOf]

FaultsTyped == failures \in 0..MaxFailures /\ crashes \in 0..MaxCrashes

NetTypes == NodesTyped /\ RoundTyped /\ VotesTyped /\ FaultsTyped

\* A special transaction contains bids from the votes it was made of, and a
\* vote is one for the proposal there is.
RoundInv ==
    /\ ToSet(SpecialBids(proposal)) \subseteq ReportedBids
    /\ stage = "propose" => voted = {} /\ proposal = <<>> /\ author = 0
    /\ voted # {} => Accepted

InPending(m) == ToSet(m.pendingPool.txs)
InReady(m)   == ToSet(m.pool.txs)

\* No transaction of X is further from the start of the ready pool than d
\* places behind the cursor.
Within(m, X, d) == \A i \in 1..Len(m.pool.txs) : m.pool.txs[i] \in X => i <= m.pool.idx + d

(***************************************************************************)
(* A validator with the mempool m, the cache K and, decided so far in      *)
(* blocks that it built, the transactions D.  What it has in its pools or  *)
(* in D, CheckTx does not see again.  What is in D is neither pending nor  *)
(* ahead of the cursor of the ready pool.                                  *)
(***************************************************************************)
Fresh(m, K, D) ==
    /\ InPending(m) \cup InReady(m) \cup D \subseteq K
    /\ IsInjective(m.pendingPool.txs)
    /\ InPending(m) \cap (InReady(m) \cup D) = {}
    /\ Within(m, D, 0)

\* Of the transactions X that it has proposed itself only the last one may be
\* ahead of its cursor, which stays on that one until Remove takes it out.
Built(m, K, D, X) ==
    X \subseteq K /\ X \cap (InPending(m) \cup D) = {} /\ Within(m, X, 1)

UserProposed == UserTxs(proposal) \cap Tx

OnceInv ==
    \A v \in Validators :
        /\ Fresh(mp[v], known[v], decided[v])
        /\ v \notin up => known[v] = {}
        /\ author = v => v \in up /\ Built(mp[v], known[v], decided[v], UserProposed)

-----------------------------------------------------------------------------
(* FinalizeBlock *)

\* What becomes of a mempool: a transaction of the ready pool comes closer to
\* the start, one of the block by at least one place, or disappears.
Finalized(m, f, done) ==
    /\ f \in Mempools /\ f.pendingPool = m.pendingPool /\ f.pool.idx = m.pool.idx
    /\ \A i \in 1..Len(f.pool.txs) :
          \E j \in 1..Len(m.pool.txs) :
             /\ j >= i /\ f.pool.txs[i] = m.pool.txs[j]
             /\ f.pool.txs[i] \in done => j >= i + 1

LEMMA PoolLength ==
    ASSUME NEW m \in Mempools
    PROVE  /\ Len(m.pool.txs) \in Nat /\ m.pool.idx \in Nat /\ m.pool.txs \in Seq(Tx)
           /\ Len(m.pendingPool.txs) \in Nat /\ m.pendingPool.txs \in Seq(Tx)
           /\ \A x : x \in InReady(m) <=> \E i \in 1..Len(m.pool.txs) : x = m.pool.txs[i]
           /\ \A x : x \in InPending(m)
                       <=> \E i \in 1..Len(m.pendingPool.txs) : x = m.pendingPool.txs[i]
<1>1. /\ m.pool.txs \in Seq(Tx) /\ m.pendingPool.txs \in Seq(Tx) /\ m.pool.idx \in Nat
  BY DEF Mempools, Pools
<1>2. /\ Len(m.pool.txs) \in Nat /\ DOMAIN m.pool.txs = 1..Len(m.pool.txs)
      /\ Len(m.pendingPool.txs) \in Nat
      /\ DOMAIN m.pendingPool.txs = 1..Len(m.pendingPool.txs)
  BY <1>1, LenProperties
<1> QED BY <1>1, <1>2 DEF InReady, InPending, ToSet

LEMMA FinalizedOne ==
    ASSUME NEW m \in Mempools, NEW f, NEW done, Finalized(m, f, done), NEW tx
    PROVE  Finalized(m, RemoveTx(f, tx), done \cup {tx})
<1> DEFINE e == RemoveTx(f, tx)
<1>0. f \in Mempools /\ f.pendingPool = m.pendingPool /\ f.pool.idx = m.pool.idx
  BY DEF Finalized
<1>1. /\ e \in Mempools /\ e.pendingPool = f.pendingPool /\ e.pool.idx = f.pool.idx
      /\ \A i \in 1..Len(e.pool.txs) :
            \E j \in 1..Len(f.pool.txs) :
               /\ j \in {i, i + 1} /\ e.pool.txs[i] = f.pool.txs[j]
               /\ e.pool.txs[i] = tx => j = i + 1
  BY <1>0, RemoveEffect
<1> HIDE DEF e
<1>2. /\ Len(e.pool.txs) \in Nat /\ Len(f.pool.txs) \in Nat /\ Len(m.pool.txs) \in Nat
  BY <1>0, <1>1, PoolLength
<1>3. ASSUME NEW i \in 1..Len(e.pool.txs)
      PROVE  \E j \in 1..Len(m.pool.txs) :
                /\ j >= i /\ e.pool.txs[i] = m.pool.txs[j]
                /\ e.pool.txs[i] \in done \cup {tx} => j >= i + 1
  <2>1. PICK k \in 1..Len(f.pool.txs) :
               /\ k \in {i, i + 1} /\ e.pool.txs[i] = f.pool.txs[k]
               /\ e.pool.txs[i] = tx => k = i + 1
    BY <1>1
  <2>2. PICK j \in 1..Len(m.pool.txs) :
               /\ j >= k /\ f.pool.txs[k] = m.pool.txs[j]
               /\ f.pool.txs[k] \in done => j >= k + 1
    BY DEF Finalized
  <2>3. j >= i /\ e.pool.txs[i] = m.pool.txs[j]
    BY <1>2, <2>1, <2>2
  <2>4. e.pool.txs[i] \in done => j >= i + 1
    BY <1>2, <2>1, <2>2
  <2>5. e.pool.txs[i] = tx => j >= i + 1
    BY <1>2, <2>1, <2>2
  <2> QED BY <2>3, <2>4, <2>5
<1> QED BY <1>0, <1>1, <1>3 DEF Finalized, e

LEMMA FinalizeEffect ==
    ASSUME NEW m \in Mempools, NEW E, NEW block \in Seq(E)
    PROVE  Finalized(m, FinalizeBlock(m, block), UserTxs(block))
<1> DEFINE n       == Len(block)
           One(f, i) == IF block[i].kind = "tx" THEN RemoveTx(f, block[i].tx) ELSE f
           Def(g)  == g = [i \in 0..n |-> IF i = 0 THEN m ELSE One(g[i - 1], i)]
           Done(i) == {block[k].tx : k \in {j \in 1..i : block[j].kind = "tx"}}
           step    == [i \in 1..n |-> [f \in Mempools |-> One(f, i)]]
<1>0. n \in Nat /\ DOMAIN block = 1..n
  BY LenProperties
<1>1. \A f \in Mempools, i \in 1..n : One(f, i) \in Mempools
  BY RemoveEffect
<1>2. step \in [1..n -> [Mempools -> Mempools]]
  BY <1>1
<1> HIDE DEF step, n, One
<1>3. PICK g \in [0..n -> Mempools] : g[0] = m /\ \A i \in 1..n : g[i] = step[i][g[i - 1]]
  <2>1. n \in Nat
    BY <1>0
  <2>2. m \in Mempools
    OBVIOUS
  <2>3. step \in Steps(n, Mempools)
    BY <1>2 DEF Steps
  <2>4. \E g : g \in [0..n -> Mempools] /\ Follows(g, n, m, step)
    BY <2>1, <2>2, <2>3, StepsExist
  <2> QED BY <2>4 DEF Follows
<1>4. \A i \in 1..n : i - 1 \in 0..n /\ g[i] = One(g[i - 1], i)
  <2> SUFFICES ASSUME NEW i \in 1..n PROVE i - 1 \in 0..n /\ g[i] = One(g[i - 1], i)
    OBVIOUS
  <2>1. i - 1 \in 0..n
    BY <1>0
  <2>2. g[i - 1] \in Mempools
    BY <1>3, <2>1
  <2> QED BY <1>3, <2>1, <2>2 DEF step
<1>5. Def(g)
  <2>1. \A i \in 0..n : i # 0 => i \in 1..n
    BY <1>0
  <2>2. \A i \in 0..n : g[i] = IF i = 0 THEN m ELSE One(g[i - 1], i)
    BY <1>3, <1>4, <2>1
  <2> QED BY <1>3, <2>2
<1> DEFINE after == CHOOSE h : Def(h)
<1>6. Def(after)
  <2> HIDE DEF Def
  <2> QED BY <1>5
<1>7. FinalizeBlock(m, block) = after[n]
  BY DEF FinalizeBlock, One, n
<1> HIDE DEF after
<1>8. after[0] = m /\ \A i \in 1..n : after[i] = One(after[i - 1], i)
  <2>1. 0 \in 0..n /\ \A i \in 1..n : i \in 0..n /\ i # 0
    BY <1>0
  <2> QED BY <1>6, <2>1
<1> DEFINE U == {i \in Nat : Finalized(m, after[i], Done(i))}
<1>9. 0 \in U
  <2>1. Finalized(m, m, {})
    BY PoolLength DEF Finalized
  <2>2. Done(0) = {}
    OBVIOUS
  <2> HIDE DEF Done
  <2> QED BY <1>8, <2>1, <2>2
<1>10. ASSUME NEW i \in 0..n - 1, i \in U PROVE i + 1 \in U
  <2>0. i \in Nat /\ i + 1 \in 1..n /\ (i + 1) - 1 = i
    BY <1>0
  <2>1. after[i + 1] = One(after[i], i + 1)
    BY <1>8, <2>0
  <2>2. \A j : j \in 1..i + 1 <=> j \in 1..i \/ j = i + 1
    BY <2>0
  <2>3. CASE block[i + 1].kind = "tx"
    <3>1. Done(i + 1) = Done(i) \cup {block[i + 1].tx}
      BY <2>2, <2>3
    <3>2. after[i + 1] = RemoveTx(after[i], block[i + 1].tx)
      BY <2>1, <2>3 DEF One
    <3>3. Finalized(m, after[i], Done(i))
      BY <1>10
    <3> HIDE DEF Done
    <3>4. Finalized(m, after[i + 1], Done(i + 1))
      BY <3>1, <3>2, <3>3, FinalizedOne
    <3> QED BY <2>0, <3>4
  <2>4. CASE block[i + 1].kind # "tx"
    <3>1. Done(i + 1) = Done(i)
      BY <2>2, <2>4
    <3>2. after[i + 1] = after[i]
      BY <2>1, <2>4 DEF One
    <3> HIDE DEF Done
    <3> QED BY <1>10, <2>0, <3>1, <3>2
  <2> QED BY <2>3, <2>4
<1> HIDE DEF U
<1>11. \A i \in 0..n : i \in U
  BY <1>0, <1>9, <1>10, IntervalInduction
<1>12. Finalized(m, after[n], Done(n))
  <2>1. n \in U
    BY <1>0, <1>11
  <2> HIDE DEF Done
  <2> QED BY <2>1 DEF U
<1>13. Done(n) = UserTxs(block)
  BY <1>0 DEF UserTxs
<1> QED BY <1>7, <1>12, <1>13

-----------------------------------------------------------------------------
(* Type correctness *)

LEMMA NetTypesInit == Init => NetTypes
<1> SUFFICES ASSUME Init PROVE NetTypes
  OBVIOUS
<1>1. NodesTyped
  BY NewMempoolType, EmptySeq, NetworkAssumption DEF Init, NodesTyped, Validators
<1>2. RoundTyped
  BY EmptySeq, NetworkAssumption DEF Init, RoundTyped, Validators, LastHeight
<1>3. VotesTyped
  BY DEF Init, VotesTyped, NoVotes, VoteOf
<1>4. FaultsTyped
  BY NetworkAssumption DEF Init, FaultsTyped
<1> QED BY <1>1, <1>2, <1>3, <1>4 DEF NetTypes

LEMMA StopTypes ==
    ASSUME NodesTyped, NEW v \in Validators, Stop(v)
    PROVE  NodesTyped'
<1>1. mp' \in [Validators -> Mempools]
  BY NewMempoolType DEF NodesTyped, Stop
<1>2. raw' \in [Validators -> Seq(Tx)]
  BY EmptySeq DEF NodesTyped, Stop
<1>3. known' \in [Validators -> SUBSET Tx] /\ decided' \in [Validators -> SUBSET Tx]
  BY DEF NodesTyped, Stop
<1>4. up' \subseteq Validators /\ author' \in 0..N
  BY NetworkAssumption DEF NodesTyped, Stop
<1> QED BY <1>1, <1>2, <1>3, <1>4 DEF NodesTyped

\* The votes that PrepareProposal is given.
LEMMA LastVotesType ==
    ASSUME VotesTyped
    PROVE  lastVotes \in VoteLists /\ Len(lastVotes) = N /\ DOMAIN lastVotes = Validators
<1>1. lastVotes \in [1..N -> {NoExtension} \cup Extension]
  BY DEF VotesTyped, VoteOf, Extension, LastHeight, Validators
<1>2. N \in Nat
  BY NetworkAssumption
<1> QED BY <1>1, <1>2 DEF VoteLists, Validators

\* What PrepareProposal or baseapp encodes.
LEMMA EntryTypes ==
    /\ \A tx \in Tx : UserTx(tx) \in Entries
    /\ \A tx \in Tx : Encode(tx) \in Entries
    /\ \A b \in Bid : \A provider : Encode(MatchingTx(b, provider)) \in Entries
    /\ \A st : st.bids \in Seq(Bid) => SpecialTx(st) \in Entries
<1>1. \A tx \in Tx : UserTx(tx) \in Entries /\ Encode(tx) \in Entries
  BY DEF Entries, UserTx, Encode
<1>2. ASSUME NEW b \in Bid, NEW provider PROVE Encode(MatchingTx(b, provider)) \in Entries
  BY DEF Entries, UserTx, Encode, MatchingTx
<1>3. \A st : st.bids \in Seq(Bid) => SpecialTx(st) \in Entries
  BY DEF Entries, SpecialTx
<1> QED BY <1>1, <1>2, <1>3

\* The transactions that the proposer encodes.
ProposedTxs(p, txs, provider) == IF p = Beacon THEN BuildProposal(txs, provider) ELSE txs

LEMMA ProposedTxsType ==
    ASSUME NEW p, NEW txs \in Seq(Tx), NEW provider
    PROVE  LET S == Tx \cup {MatchingTx(b, provider) : b \in Bid}
           IN  /\ ProposedTxs(p, txs, provider) \in Seq(S)
               /\ \A x \in ToSet(ProposedTxs(p, txs, provider)) :
                     x \in ToSet(txs) \/ \E b \in Bid : x = MatchingTx(b, provider)
<1> DEFINE S == Tx \cup {MatchingTx(b, provider) : b \in Bid}
<1>1. Tx \subseteq S /\ \A b \in Bid : MatchingTx(b, provider) \in S
  OBVIOUS
<1>2. txs \in Seq(S)
  BY <1>1, LenProperties, ElementOfSeq
<1> HIDE DEF S
<1>3. /\ BuildProposal(txs, provider) \in Seq(S)
      /\ \A x \in ToSet(BuildProposal(txs, provider)) :
            x \in ToSet(txs) \/ \E b \in Bid : x = MatchingTx(b, provider)
  BY <1>1, BuiltProposal
<1> QED BY <1>2, <1>3 DEF ProposedTxs, S

(***************************************************************************)
(* What a step of Propose does: the proposer stops, or there is a proposal *)
(* of its own (with or without matching transactions), or one of baseapp.  *)
(***************************************************************************)
Unproposed(p) == Stop(p) /\ UNCHANGED <<stage, proposal>>

OwnProposal(p, provider) ==
    /\ stage' = "vote" /\ author' = p
    /\ proposal' = Proposal(height, lastVotes, ProposedTxs(p, PrepareTxs(mp[p]), provider))
    /\ ~PreparePanics(mp[p])
    /\ mp' = [mp EXCEPT ![p] = AfterPrepare(@)]
    /\ UNCHANGED <<raw, known, up, decided>>

BaseappProposal(p) ==
    /\ stage' = "vote" /\ author' = 0
    /\ \E k \in 0..Len(raw[p]) : proposal' = EngineProposal(SubSeq(raw[p], 1, k))
    /\ mp' = [mp EXCEPT ![p] = AfterPrepare(@)]
    /\ UNCHANGED <<raw, known, up, decided>>

LEMMA ProposeCases ==
    ASSUME NodesTyped, RoundTyped, Propose
    PROVE  /\ stage = "propose"
           /\ UNCHANGED <<height, turn, round, voted, extension, lastVotes, failures, crashes>>
           /\ \E p \in up, provider \in Providers :
                 Unproposed(p) \/ OwnProposal(p, provider) \/ BaseappProposal(p)
<1> DEFINE p == Proposer
           k == Min({Len(raw[p]), MaxEntries})
           txs == PrepareTxs(mp[p])
           panics(provider) == PreparePanics(mp[p]) \/ (p = Beacon /\ BuildPanics(txs, provider))
           block(provider) == IF panics(provider) THEN EngineProposal(SubSeq(raw[p], 1, k))
                              ELSE Proposal(height, lastVotes, ProposedTxs(p, txs, provider))
<1>1. PICK provider \in Providers :
        /\ stage = "propose" /\ p \in up
        /\ IF Len(block(provider)) > MaxEntries
           THEN Stop(p) /\ UNCHANGED <<stage, proposal>>
           ELSE /\ stage' = "vote" /\ proposal' = block(provider)
                /\ author' = IF panics(provider) THEN 0 ELSE p
                /\ mp' = [mp EXCEPT ![p] = AfterPrepare(@)]
                /\ UNCHANGED <<raw, known, up, decided>>
        /\ UNCHANGED <<height, turn, round, voted, extension, lastVotes, failures, crashes>>
  BY DEF Propose, ProposedTxs
<1>2. k \in 0..Len(raw[p])
  <2> DEFINE n == Len(raw[p])
  <2>1. p \in Validators
    BY <1>1 DEF NodesTyped
  <2>2. n \in Nat
    BY <2>1, LenProperties DEF NodesTyped
  <2> HIDE DEF n
  <2>3. \E x \in {n, MaxEntries} : \A y \in {n, MaxEntries} : x <= y
    BY <2>2, NetworkAssumption
  <2>4. Min({n, MaxEntries}) \in {n, MaxEntries} /\ Min({n, MaxEntries}) <= n
    BY <2>3 DEF Min
  <2>5. Min({n, MaxEntries}) \in 0..n
    BY <2>2, <2>4, NetworkAssumption
  <2> QED BY <2>5 DEF n
<1> HIDE DEF p, k, txs
<1>3. CASE Len(block(provider)) > MaxEntries
  BY <1>1, <1>3 DEF Unproposed
<1>4. CASE ~(Len(block(provider)) > MaxEntries) /\ panics(provider)
  <2>1. BaseappProposal(p)
    BY <1>1, <1>2, <1>4 DEF BaseappProposal
  <2> QED BY <1>1, <2>1
<1>5. CASE ~(Len(block(provider)) > MaxEntries) /\ ~panics(provider)
  <2>1. OwnProposal(p, provider)
    BY <1>1, <1>5 DEF OwnProposal, txs
  <2> QED BY <1>1, <2>1
<1> QED BY <1>1, <1>3, <1>4, <1>5

LEMMA EngineProposalType ==
    ASSUME NEW list \in Seq(Tx), NEW k \in 0..Len(list)
    PROVE  /\ SubSeq(list, 1, k) \in Seq(Tx)
           /\ EngineProposal(SubSeq(list, 1, k)) \in Seq(Entries)
           /\ SpecialBids(EngineProposal(SubSeq(list, 1, k))) = <<>>
<1> DEFINE t == SubSeq(list, 1, k)
           e == EngineProposal(t)
<1>1. t \in Seq(Tx)
  <2>1. Len(list) \in Nat /\ \A i \in 1..Len(list) : list[i] \in Tx
    BY LenProperties, ElementOfSeq
  <2>2. \A i \in 1..k : list[i] \in Tx
    BY <2>1
  <2>3. CASE k = 0
    BY <2>3, SubSeqEmpty, EmptySeq
  <2>4. CASE k # 0
    <3>1. 1 \in Int /\ k \in Int /\ 1 <= k
      BY <2>1, <2>4
    <3> QED BY <2>2, <3>1, SubSeqProperties
  <2> QED BY <2>3, <2>4
<1> HIDE DEF t
<1>2. DOMAIN t = 1..Len(t) /\ Len(t) \in Nat /\ \A i \in 1..Len(t) : t[i] \in Tx
  BY <1>1, LenProperties, ElementOfSeq
<1>3. /\ e \in [1..Len(t) -> Entries]
      /\ \A i \in 1..Len(t) : e[i].kind = "tx"
  <2>1. \A i \in 1..Len(t) : UserTx(t[i]) \in Entries /\ UserTx(t[i]).kind = "tx"
    BY <1>2, EntryTypes DEF UserTx
  <2>2. e = [i \in 1..Len(t) |-> UserTx(t[i])]
    BY <1>2 DEF EngineProposal
  <2> HIDE DEF e
  <2> QED BY <2>1, <2>2
<1> HIDE DEF e
<1>4. e \in Seq(Entries) /\ Len(e) = Len(t)
  BY <1>2, <1>3
<1>5. SpecialBids(e) = <<>>
  <2>1. e # <<>> => 1 \in 1..Len(t) /\ Head(e) = e[1]
    BY <1>2, <1>4, EmptySeq
  <2> QED BY <1>3, <2>1 DEF SpecialBids
<1> QED BY <1>1, <1>4, <1>5 DEF e, t

LEMMA OwnProposalType ==
    ASSUME NetTypes, NEW p \in Validators, NEW provider, OwnProposal(p, provider)
    PROVE  proposal' \in Seq(Entries)
<1> DEFINE S == Tx \cup {MatchingTx(b, provider) : b \in Bid}
           t == ProposedTxs(p, PrepareTxs(mp[p]), provider)
<1>1. mp[p] \in Mempools /\ PrepareTxs(mp[p]) \in Seq(Tx)
  BY PrepareEffect DEF NetTypes, NodesTyped
<1>2. t \in Seq(S)
  BY <1>1, ProposedTxsType
<1>3. \A x \in S : Encode(x) \in Entries
  BY EntryTypes
<1>4. SpecialTx(ProcessVoteExtensions(lastVotes)) \in Entries
  BY LastVotesType, SpecialTxBids, EntryTypes DEF NetTypes
<1>5. height \in Nat
  BY DEF NetTypes, RoundTyped, LastHeight
<1>6. proposal' = Proposal(height, lastVotes, t)
  BY DEF OwnProposal
<1> HIDE DEF S, t
<1> QED BY <1>2, <1>3, <1>4, <1>5, <1>6, ProposalType

LEMMA UndecidedType ==
    ASSUME NEW list \in Seq(Tx), NEW block
    PROVE  Undecided(list, block) \in Seq(Tx)
<1> DEFINE ss == [i \in DOMAIN list |-> IF list[i] \in UserTxs(block) THEN <<>> ELSE <<list[i]>>]
<1>1. Len(list) \in Nat /\ DOMAIN list = 1..Len(list) /\ \A i \in 1..Len(list) : list[i] \in Tx
  BY LenProperties, ElementOfSeq
<1>2. ss \in [1..Len(list) -> Seq(Tx)]
  BY <1>1
<1>3. Undecided(list, block) = FlattenSeq(ss)
  BY DEF Undecided
<1> HIDE DEF ss
<1>4. ss \in Seq(Seq(Tx))
  BY <1>1, <1>2
<1> QED BY <1>3, <1>4, FlattenElements

LEMMA NextRound == \A r \in Nat : (r + 1) % N \in 0..N-1
BY NetworkAssumption

LEMMA NetTypesNext == NetTypes /\ [Next]_vars => NetTypes'
<1> SUFFICES ASSUME NetTypes, [Next]_vars PROVE NetTypes'
  OBVIOUS
<1>0. NodesTyped /\ RoundTyped /\ VotesTyped /\ FaultsTyped
  BY DEF NetTypes
<1>1. ASSUME NEW v \in Validators, NEW tx \in Tx, CheckTx(v, tx) PROVE NetTypes'
  <2>1. mp' \in [Validators -> Mempools]
    BY <1>0, <1>1, MempoolTypes DEF NodesTyped, CheckTx
  <2>2. raw' \in [Validators -> Seq(Tx)]
    <3>1. Append(raw[v], tx) \in Seq(Tx)
      BY <1>0, AppendProperties DEF NodesTyped
    <3> QED BY <1>0, <1>1, <3>1 DEF NodesTyped, CheckTx
  <2>3. known' \in [Validators -> SUBSET Tx]
    BY <1>0, <1>1 DEF NodesTyped, CheckTx
  <2>4. NodesTyped'
    BY <1>0, <1>1, <2>1, <2>2, <2>3 DEF NodesTyped, CheckTx, engine
  <2> QED BY <1>0, <1>1, <2>4
          DEF CheckTx, engine, RoundTyped, VotesTyped, FaultsTyped, NetTypes
<1>2. ASSUME NEW v \in Validators, Crash(v) PROVE NetTypes'
  <2>1. NodesTyped'
    BY <1>0, <1>2, StopTypes DEF Crash
  <2>2. FaultsTyped'
    BY <1>0, <1>2, NetworkAssumption DEF Crash, FaultsTyped
  <2> QED BY <1>0, <1>2, <2>1, <2>2 DEF Crash, RoundTyped, VotesTyped, NetTypes
<1>3. ASSUME NEW v \in Validators, Restart(v) PROVE NetTypes'
  BY <1>0, <1>3
  DEF Restart, engine, NodesTyped, RoundTyped, VotesTyped, FaultsTyped, NetTypes
<1>4. ASSUME NEW v \in Validators, ExtendVote(v) PROVE NetTypes'
  <2>0. /\ UNCHANGED <<height, turn, round, stage, proposal, lastVotes, failures, crashes>>
        /\ voted' \in {voted, voted \cup {v}}
    BY <1>4 DEF ExtendVote
  <2>1. RoundTyped' /\ FaultsTyped'
    BY <1>0, <2>0 DEF RoundTyped, FaultsTyped
  <2>2. CASE height < VoteExtensionsEnableHeight
    BY <1>0, <1>4, <2>0, <2>1, <2>2 DEF ExtendVote, nodes, NodesTyped, VotesTyped, NetTypes
  <2>3. CASE ~(height < VoteExtensionsEnableHeight) /\ ExtendPanics(mp[v])
    <3>1. Stop(v) /\ extension' = extension
      BY <1>4, <2>3 DEF ExtendVote
    <3>2. NodesTyped'
      BY <1>0, <3>1, StopTypes
    <3> QED BY <1>0, <2>0, <2>1, <3>1, <3>2 DEF VotesTyped, NetTypes
  <2>4. CASE ~(height < VoteExtensionsEnableHeight) /\ ~ExtendPanics(mp[v])
    <3>1. /\ extension' = [extension EXCEPT ![v] = VoteExtension(height, ExtendBids(mp[v]))]
          /\ mp' = [mp EXCEPT ![v] = AfterExtend(@)]
          /\ UNCHANGED <<raw, known, up, author, decided>>
      BY <1>4, <2>4 DEF ExtendVote
    <3>2. mp[v] \in Mempools
      BY <1>0 DEF NodesTyped
    <3>3. AfterExtend(mp[v]) \in Mempools /\ ExtendBids(mp[v]) \in Seq(Bid)
      BY <3>2, ExtendEffect, ExtendBidsType
    <3>4. NodesTyped'
      BY <1>0, <3>1, <3>3 DEF NodesTyped
    <3>5. VoteExtension(height, ExtendBids(mp[v])) \in VoteOf
      BY <1>0, <3>3 DEF RoundTyped, VoteExtension, VoteOf
    <3>6. VotesTyped'
      BY <1>0, <2>0, <3>1, <3>5 DEF VotesTyped
    <3> QED BY <2>1, <3>4, <3>6 DEF NetTypes
  <2> QED BY <2>2, <2>3, <2>4
<1>5. CASE Propose
  <2>1. PICK p \in up, provider \in Providers :
            Unproposed(p) \/ OwnProposal(p, provider) \/ BaseappProposal(p)
    BY <1>0, <1>5, ProposeCases
  <2>2. /\ UNCHANGED <<height, turn, round, voted, extension, lastVotes, failures, crashes>>
        /\ p \in Validators /\ mp[p] \in Mempools /\ raw[p] \in Seq(Tx)
    BY <1>0, <1>5, ProposeCases DEF NodesTyped
  <2>3. VotesTyped' /\ FaultsTyped'
    BY <1>0, <2>2 DEF VotesTyped, FaultsTyped
  <2>4. AfterPrepare(mp[p]) \in Mempools
    BY <2>2, PrepareEffect
  <2>5. CASE Unproposed(p)
    <3>1. NodesTyped'
      BY <1>0, <2>2, <2>5, StopTypes DEF Unproposed
    <3>2. RoundTyped'
      BY <1>0, <2>2, <2>5 DEF Unproposed, RoundTyped
    <3> QED BY <2>3, <3>1, <3>2 DEF NetTypes
  <2>6. CASE OwnProposal(p, provider)
    <3>1. NodesTyped'
      BY <1>0, <2>2, <2>4, <2>6, NetworkAssumption DEF OwnProposal, NodesTyped, Validators
    <3>2. RoundTyped'
      BY <1>0, <2>2, <2>6, OwnProposalType DEF OwnProposal, RoundTyped
    <3> QED BY <2>3, <3>1, <3>2 DEF NetTypes
  <2>7. CASE BaseappProposal(p)
    <3>1. NodesTyped'
      BY <1>0, <2>2, <2>4, <2>7, NetworkAssumption DEF BaseappProposal, NodesTyped
    <3>2. proposal' \in Seq(Entries)
      BY <2>2, <2>7, EngineProposalType DEF BaseappProposal
    <3>3. RoundTyped'
      BY <1>0, <2>2, <2>7, <3>2 DEF BaseappProposal, RoundTyped
    <3> QED BY <2>3, <3>1, <3>3 DEF NetTypes
  <2> QED BY <2>1, <2>5, <2>6, <2>7
<1>6. CASE Decide
  <2>1. ASSUME NEW v \in Validators
        PROVE  FinalizeBlock(mp[v], proposal) \in Mempools /\ Undecided(raw[v], proposal) \in Seq(Tx)
    <3>1. mp[v] \in Mempools /\ raw[v] \in Seq(Tx) /\ proposal \in Seq(Entries)
      BY <1>0 DEF NodesTyped, RoundTyped
    <3> QED BY <3>1, FinalizeEffect, UndecidedType DEF Finalized
  <2>2. mp' \in [Validators -> Mempools] /\ raw' \in [Validators -> Seq(Tx)]
    BY <1>6, <2>1 DEF Decide
  <2>3. known' \in [Validators -> SUBSET Tx] /\ decided' \in [Validators -> SUBSET Tx]
    BY <1>0, <1>6 DEF Decide, NodesTyped
  <2>4. NodesTyped'
    BY <1>0, <1>6, <2>2, <2>3, NetworkAssumption DEF Decide, NewRound, NodesTyped
  <2>5. turn' \in Validators
    <3>1. (turn % N) + 1 \in 1..N
      BY <1>0, NetworkAssumption DEF RoundTyped, Validators
    <3> QED BY <1>6, <3>1 DEF Decide, Validators
  <2>6. height' \in 1..LastHeight /\ round' \in 0..N-1
    BY <1>0, <1>6, NetworkAssumption DEF Decide, RoundTyped, LastHeight
  <2>7. RoundTyped'
    BY <1>6, <2>5, <2>6, EmptySeq DEF Decide, NewRound, RoundTyped
  <2>8. VotesTyped'
    BY <1>0, <1>6 DEF Decide, VotesTyped, NoVotes, VoteOf
  <2>9. FaultsTyped'
    BY <1>0, <1>6 DEF Decide, FaultsTyped
  <2> QED BY <2>4, <2>7, <2>8, <2>9 DEF NetTypes
<1>7. CASE NoBlock
  <2>1. round' \in 0..N-1
    BY <1>0, <1>7, NextRound DEF NoBlock, RoundTyped
  <2>2. RoundTyped'
    BY <1>0, <1>7, <2>1, EmptySeq DEF NoBlock, NewRound, RoundTyped
  <2> QED BY <1>0, <1>7, <2>2, NetworkAssumption
          DEF NoBlock, NewRound, nodes, NodesTyped, VotesTyped, FaultsTyped, NetTypes
<1>8. CASE RoundFails
  <2>1. round' \in 0..N-1
    BY <1>0, <1>8, NextRound DEF RoundFails, RoundTyped
  <2>2. RoundTyped'
    BY <1>0, <1>8, <2>1, EmptySeq DEF RoundFails, NewRound, RoundTyped
  <2>3. NodesTyped'
    BY <1>0, <1>8, NetworkAssumption DEF RoundFails, NewRound, nodes, NodesTyped
  <2>4. VotesTyped' /\ FaultsTyped'
    BY <1>0, <1>8, NetworkAssumption
    DEF RoundFails, VotesTyped, FaultsTyped, NoVotes, VoteOf
  <2> QED BY <2>2, <2>3, <2>4 DEF NetTypes
<1>9. CASE UNCHANGED vars
  BY <1>0, <1>9
  DEF vars, nodes, engine, NodesTyped, RoundTyped, VotesTyped, FaultsTyped, NetTypes
<1> QED BY <1>1, <1>2, <1>3, <1>4, <1>5, <1>6, <1>7, <1>8, <1>9 DEF Next

LEMMA NetTypesOK == NetTypes => TypeOK
BY DEF NetTypes, NodesTyped, RoundTyped, VotesTyped, FaultsTyped, TypeOK, VoteOf

LEMMA NetTypesAlways == Spec => []NetTypes
BY NetTypesInit, NetTypesNext, PTL DEF Spec

\* Through failed rounds, panics, crashes and blocks that others built, the
\* state of every validator keeps its type (AuctionNetwork!TypeOK).
THEOREM NetworkTyping == Spec => []TypeOK
BY NetTypesAlways, NetTypesOK, PTL

-----------------------------------------------------------------------------
(* Only reported bids get votes *)

LEMMA NothingSpecial == ToSet(SpecialBids(<<>>)) = {}
BY DEF SpecialBids, ToSet

\* The special transaction of a proposal has bids of the last votes only.
LEMMA OwnProposalBids ==
    ASSUME NetTypes, NEW p \in Validators, NEW provider, OwnProposal(p, provider)
    PROVE  ToSet(SpecialBids(proposal')) \subseteq ReportedBids
<1> DEFINE S == Tx \cup {MatchingTx(b, provider) : b \in Bid}
           t == ProposedTxs(p, PrepareTxs(mp[p]), provider)
<1>1. t \in Seq(S)
  <2>1. PrepareTxs(mp[p]) \in Seq(Tx)
    BY PrepareEffect DEF NetTypes, NodesTyped
  <2> QED BY <2>1, ProposedTxsType
<1>2. height \in Nat /\ lastVotes \in VoteLists /\ DOMAIN lastVotes = Validators
      /\ Len(lastVotes) = N
  BY LastVotesType DEF NetTypes, RoundTyped, LastHeight
<1>3. proposal' = Proposal(height, lastVotes, t)
  BY DEF OwnProposal
<1> HIDE DEF S, t
<1>4. CASE height > 2
  <2>1. SpecialBids(proposal') = ProcessVoteExtensions(lastVotes).bids
    BY <1>1, <1>2, <1>3, <1>4, ProposalVerdict
  <2>2. \A b \in ToSet(SpecialBids(proposal')) :
           \E j \in Validators : lastVotes[j] # NoExtension /\ b \in ToSet(lastVotes[j].bids)
    BY <1>2, <2>1, SpecialTxBids DEF Validators
  <2> QED BY <2>2 DEF ReportedBids
<1>5. CASE ~(height > 2)
  <2>1. SpecialBids(proposal') = <<>>
    BY <1>1, <1>2, <1>3, <1>5, WithoutSpecial
  <2> QED BY <2>1 DEF ToSet
<1> QED BY <1>4, <1>5

LEMMA RoundInvInit == Init => RoundInv
BY NothingSpecial DEF Init, RoundInv

LEMMA RoundInvKept ==
    ASSUME RoundInv, proposal' = proposal, lastVotes' = lastVotes, stage' = stage,
           voted' = voted \/ Accepted \/ voted' = {}, author' \in {0, author},
           stage = "propose" => voted' = voted \/ voted' = {}
    PROVE  RoundInv'
<1>1. ReportedBids' = ReportedBids
  BY DEF ReportedBids
<1>2. Accepted' <=> Accepted
  BY DEF Accepted
<1> QED BY <1>1, <1>2 DEF RoundInv

LEMMA NewRoundInv ==
    ASSUME NewRound
    PROVE  RoundInv'
BY NothingSpecial DEF NewRound, RoundInv

LEMMA RoundInvNext == NetTypes /\ RoundInv /\ [Next]_vars => RoundInv'
<1> SUFFICES ASSUME NetTypes, RoundInv, [Next]_vars PROVE RoundInv'
  OBVIOUS
<1>1. ASSUME NEW v \in Validators, NEW tx \in Tx, CheckTx(v, tx) PROVE RoundInv'
  BY <1>1, RoundInvKept DEF CheckTx, engine
<1>2. ASSUME NEW v \in Validators, Crash(v) PROVE RoundInv'
  BY <1>2, RoundInvKept DEF Crash, Stop
<1>3. ASSUME NEW v \in Validators, Restart(v) PROVE RoundInv'
  BY <1>3, RoundInvKept DEF Restart, engine
<1>4. ASSUME NEW v \in Validators, ExtendVote(v) PROVE RoundInv'
  <2>1. /\ proposal' = proposal /\ lastVotes' = lastVotes /\ stage' = stage
        /\ stage = "vote" /\ Accepted
    BY <1>4 DEF ExtendVote
  <2>2. author' \in {0, author}
    BY <1>4 DEF ExtendVote, Stop
  <2> QED BY <2>1, <2>2, RoundInvKept
<1>5. CASE Propose
  <2>1. PICK p \in up, provider \in Providers :
            Unproposed(p) \/ OwnProposal(p, provider) \/ BaseappProposal(p)
    BY <1>5, ProposeCases DEF NetTypes
  <2>2. /\ stage = "propose" /\ voted' = voted /\ lastVotes' = lastVotes
        /\ p \in Validators /\ raw[p] \in Seq(Tx)
    BY <1>5, ProposeCases DEF NetTypes, NodesTyped
  <2>3. ReportedBids' = ReportedBids /\ voted' = {}
    BY <2>2 DEF ReportedBids, RoundInv
  <2>4. CASE Unproposed(p)
    BY <2>2, <2>4, RoundInvKept DEF Unproposed, Stop
  <2>5. CASE OwnProposal(p, provider)
    <3>1. ToSet(SpecialBids(proposal')) \subseteq ReportedBids
      BY <2>2, <2>5, OwnProposalBids
    <3>2. stage' = "vote"
      BY <2>5 DEF OwnProposal
    <3> QED BY <2>3, <3>1, <3>2 DEF RoundInv
  <2>6. CASE BaseappProposal(p)
    <3>1. PICK k \in 0..Len(raw[p]) : proposal' = EngineProposal(SubSeq(raw[p], 1, k))
      BY <2>6 DEF BaseappProposal
    <3>2. SpecialBids(proposal') = <<>> /\ stage' = "vote"
      BY <2>2, <2>6, <3>1, EngineProposalType DEF BaseappProposal
    <3>3. ToSet(SpecialBids(proposal')) = {}
      BY <3>2 DEF ToSet
    <3> QED BY <2>3, <3>2, <3>3 DEF RoundInv
  <2> QED BY <2>1, <2>4, <2>5, <2>6
<1>6. CASE Decide
  BY <1>6, NewRoundInv DEF Decide
<1>7. CASE NoBlock
  BY <1>7, NewRoundInv DEF NoBlock
<1>8. CASE RoundFails
  <2>1. CASE voted = {}
    BY <1>8, <2>1, NewRoundInv DEF RoundFails
  <2>2. CASE voted # {}
    BY <1>8, <2>2, RoundInvKept DEF RoundFails
  <2> QED BY <2>1, <2>2
<1>9. CASE UNCHANGED vars
  BY <1>9, RoundInvKept DEF vars, engine
<1> QED BY <1>1, <1>2, <1>3, <1>4, <1>5, <1>6, <1>7, <1>8, <1>9 DEF Next

LEMMA VotedListed == NetTypes /\ RoundInv => FrontRunGetsNoVote
<1> SUFFICES ASSUME NetTypes, RoundInv, voted # {}, Len(SpecialBids(proposal)) >= 2
             PROVE  ProposedBids \subseteq ReportedBids
  BY DEF FrontRunGetsNoVote
<1>1. proposal \in Seq(Entries)
  BY DEF NetTypes, RoundTyped
<1>2. SpecialBids(proposal) \in Seq(Bid)
  <2>1. CASE proposal # <<>> /\ Head(proposal).kind = "special"
    <3>1. Head(proposal) \in Entries /\ SpecialBids(proposal) = Head(proposal).bids
      BY <1>1, <2>1 DEF SpecialBids
    <3>2. \A e \in Entries : e.kind = "special" => e.bids \in Seq(Bid)
      BY DEF Entries, NoBytes
    <3> QED BY <2>1, <3>1, <3>2
  <2>2. CASE ~(proposal # <<>> /\ Head(proposal).kind = "special")
    BY <2>2, EmptySeq DEF SpecialBids
  <2> QED BY <2>1, <2>2
<1>3. ProcessProposal(proposal)
  BY DEF RoundInv, Accepted
<1>4. \A i \in DOMAIN proposal : EntryBids(proposal[i]) \subseteq ToSet(SpecialBids(proposal))
  BY <1>1, <1>2, <1>3, AcceptedListed
<1> QED BY <1>4 DEF RoundInv, ProposedBids

\* Whatever the Beacon adds: with two bids in the special transaction, a
\* validator votes only for proposals whose bids are in the votes of the last
\* height (AuctionNetwork!FrontRunGetsNoVote).
THEOREM NoVoteForFrontRun == Spec => []FrontRunGetsNoVote
BY NetTypesAlways, RoundInvInit, RoundInvNext, VotedListed, PTL DEF Spec

-----------------------------------------------------------------------------
(* What a validator has proposed it proposes no more *)

LEMMA FreshInsert ==
    ASSUME NEW m \in Mempools, NEW tx \in Tx, NEW K, tx \notin K, NEW D, Fresh(m, K, D)
    PROVE  /\ Fresh(Insert(m, tx), K \cup {tx}, D)
           /\ \A X : Built(m, K, D, X) => Built(Insert(m, tx), K \cup {tx}, D, X)
<1> DEFINE p == m.pendingPool
           q == Append(p.txs, tx)
           e == Insert(m, tx)
<1>1. /\ p.txs \in Seq(Tx) /\ Len(p.txs) \in Nat /\ DOMAIN p.txs = 1..Len(p.txs)
      /\ m = [pendingPool |-> p, pool |-> m.pool] /\ p = [idx |-> p.idx, txs |-> p.txs]
  BY LenProperties DEF Mempools, Pools
<1>2. e.pool = m.pool /\ e.pendingPool.txs = q
  BY <1>1 DEF Insert, With
<1>3. /\ Len(q) = Len(p.txs) + 1 /\ DOMAIN q = 1..Len(p.txs) + 1
      /\ \A i \in 1..Len(p.txs) : q[i] = p.txs[i]
      /\ q[Len(p.txs) + 1] = tx
  BY <1>1, AppendProperties, LenProperties
<1> HIDE DEF q, e
<1>4. InPending(e) = InPending(m) \cup {tx}
  <2>1. InPending(e) = {q[i] : i \in 1..Len(p.txs) + 1}
    BY <1>2, <1>3 DEF InPending, ToSet
  <2>2. InPending(m) = {p.txs[i] : i \in 1..Len(p.txs)}
    BY <1>1 DEF InPending, ToSet
  <2>3. \A i : i \in 1..Len(p.txs) + 1 <=> i \in 1..Len(p.txs) \/ i = Len(p.txs) + 1
    BY <1>1
  <2> QED BY <1>3, <2>1, <2>2, <2>3
<1>5. InReady(e) = InReady(m) /\ \A X, d : Within(e, X, d) <=> Within(m, X, d)
  BY <1>2 DEF InReady, Within
<1>6. IsInjective(q)
  <2>1. \A i \in 1..Len(p.txs) : p.txs[i] # tx
    BY <1>1 DEF Fresh, InPending, ToSet
  <2>2. \A i, j \in 1..Len(p.txs) : p.txs[i] = p.txs[j] => i = j
    BY <1>1 DEF Fresh, IsInjective
  <2>3. \A i : i \in 1..Len(p.txs) + 1 <=> i \in 1..Len(p.txs) \/ i = Len(p.txs) + 1
    BY <1>1
  <2> QED BY <1>3, <2>1, <2>2, <2>3 DEF IsInjective
<1>7. Fresh(e, K \cup {tx}, D)
  BY <1>2, <1>4, <1>5, <1>6 DEF Fresh
<1>8. \A X : Built(m, K, D, X) => Built(e, K \cup {tx}, D, X)
  BY <1>4, <1>5 DEF Built
<1> QED BY <1>7, <1>8 DEF e

LEMMA FreshNew == Fresh(NewThresholdMempool, {}, {})
<1>1. \A x \in {<<>>} : DOMAIN x = {} /\ Len(x) = 0
  BY EmptySeq, LenProperties
<1> QED BY <1>1
        DEF Fresh, InPending, InReady, Within, ToSet, IsInjective, NewThresholdMempool, EmptyPool

LEMMA FreshExtend ==
    ASSUME NEW m \in Mempools, NEW K, NEW D, Fresh(m, K, D)
    PROVE  /\ Fresh(AfterExtend(m), K, D)
           /\ \A X : Built(m, K, D, X) => Built(AfterExtend(m), K, D, X)
<1> DEFINE e == AfterExtend(m)
           w == ToSet(Walked(m.pendingPool))
<1>1. /\ e \in Mempools /\ e.pool.idx = m.pool.idx
      /\ ToSet(e.pendingPool.txs) \subseteq ToSet(m.pendingPool.txs)
      /\ w \subseteq ToSet(m.pendingPool.txs)
      /\ \A i \in 1..Len(e.pool.txs) :
            \/ i \in 1..Len(m.pool.txs) /\ e.pool.txs[i] = m.pool.txs[i]
            \/ e.pool.txs[i] \in w
      /\ IsInjective(m.pendingPool.txs) =>
            IsInjective(e.pendingPool.txs) /\ ToSet(e.pendingPool.txs) \cap w = {}
  BY ExtendEffect
<1> HIDE DEF e, w
<1>2. /\ InPending(e) \subseteq InPending(m) /\ w \subseteq InPending(m)
      /\ IsInjective(e.pendingPool.txs) /\ InPending(e) \cap w = {}
  BY <1>1 DEF InPending, Fresh
<1>3. InReady(e) \subseteq InReady(m) \cup w
  BY <1>1, PoolLength
<1>4. \A X, d : X \cap InPending(m) = {} /\ Within(m, X, d) => Within(e, X, d)
  BY <1>1, <1>2 DEF Within
<1>5. Fresh(e, K, D)
  BY <1>2, <1>3, <1>4 DEF Fresh
<1>6. \A X : Built(m, K, D, X) => Built(e, K, D, X)
  BY <1>2, <1>4 DEF Built
<1> QED BY <1>5, <1>6 DEF e

LEMMA FreshPrepare ==
    ASSUME NEW m \in Mempools, NEW K, NEW D, Fresh(m, K, D)
    PROVE  /\ Fresh(AfterPrepare(m), K, D)
           /\ \A X : X \subseteq ToSet(PrepareTxs(m)) => Built(AfterPrepare(m), K, D, X)
<1> DEFINE e == AfterPrepare(m)
           t == PrepareTxs(m)
<1>1. /\ e \in Mempools /\ e.pendingPool = m.pendingPool /\ e.pool.txs = m.pool.txs
      /\ e.pool.idx >= m.pool.idx
      /\ t \in Seq(Tx)
      /\ \A x \in ToSet(t) : \E i \in 1..Len(m.pool.txs) : i > m.pool.idx /\ x = m.pool.txs[i]
      /\ t # <<>> => e.pool.idx = Len(m.pool.txs) - 1
  BY PrepareEffect
<1> HIDE DEF e, t
<1>2. /\ Len(m.pool.txs) \in Nat /\ m.pool.idx \in Nat /\ e.pool.idx \in Nat
      /\ \A x : x \in InReady(m) <=> \E i \in 1..Len(m.pool.txs) : x = m.pool.txs[i]
  BY <1>1, PoolLength
<1>3. InPending(e) = InPending(m) /\ InReady(e) = InReady(m)
  BY <1>1 DEF InPending, InReady
<1>4. Within(m, D, 0)
  BY DEF Fresh
<1>5. Fresh(e, K, D)
  <2>1. Within(e, D, 0)
    BY <1>1, <1>2, <1>4 DEF Within
  <2> QED BY <1>1, <1>3, <2>1 DEF Fresh
<1>6. ASSUME NEW X, X \subseteq ToSet(t) PROVE Built(e, K, D, X)
  <2>1. X \subseteq InReady(m)
    BY <1>1, <1>2, <1>6
  <2>2. X \cap D = {}
    <3> SUFFICES ASSUME NEW x \in X, x \in D PROVE FALSE
      OBVIOUS
    <3>1. PICK i \in 1..Len(m.pool.txs) : i > m.pool.idx /\ x = m.pool.txs[i]
      BY <1>1, <1>6
    <3>2. i <= m.pool.idx + 0
      BY <1>4, <3>1 DEF Within
    <3> QED BY <1>2, <3>1, <3>2
  <2>3. Within(e, X, 1)
    <3> SUFFICES ASSUME NEW i \in 1..Len(m.pool.txs), m.pool.txs[i] \in X
                 PROVE  i <= e.pool.idx + 1
      BY <1>1 DEF Within
    <3>1. t # <<>>
      BY <1>6, EmptySeq DEF ToSet
    <3> QED BY <1>1, <1>2, <3>1
  <2> QED BY <1>3, <2>1, <2>2, <2>3 DEF Built, Fresh
<1> QED BY <1>5, <1>6 DEF e, t

\* Y: the transactions of the block, which the engine caches.
LEMMA FreshFinalized ==
    ASSUME NEW m \in Mempools, NEW K, NEW D, Fresh(m, K, D), NEW done, NEW Y,
           NEW f, Finalized(m, f, done)
    PROVE  /\ Fresh(f, K \cup Y, D)
           /\ \A X : X \subseteq done /\ Built(m, K, D, X) => Fresh(f, K \cup Y, D \cup X)
<1>1. f \in Mempools /\ f.pendingPool = m.pendingPool /\ f.pool.idx = m.pool.idx
  BY DEF Finalized
<1>2. /\ Len(m.pool.txs) \in Nat /\ Len(f.pool.txs) \in Nat /\ m.pool.idx \in Nat
      /\ \A x : x \in InReady(m) <=> \E i \in 1..Len(m.pool.txs) : x = m.pool.txs[i]
      /\ \A x : x \in InReady(f) <=> \E i \in 1..Len(f.pool.txs) : x = f.pool.txs[i]
  BY <1>1, PoolLength
<1>3. \A i \in 1..Len(f.pool.txs) :
         \E j \in 1..Len(m.pool.txs) :
            /\ j >= i /\ f.pool.txs[i] = m.pool.txs[j]
            /\ f.pool.txs[i] \in done => j >= i + 1
  BY DEF Finalized
<1>4. InPending(f) = InPending(m) /\ InReady(f) \subseteq InReady(m)
  <2>1. InReady(f) \subseteq InReady(m)
    BY <1>2, <1>3
  <2> QED BY <1>1, <2>1 DEF InPending
<1>5. Within(f, D, 0)
  <2> SUFFICES ASSUME NEW i \in 1..Len(f.pool.txs), f.pool.txs[i] \in D
               PROVE  i <= f.pool.idx + 0
    BY DEF Within
  <2>1. PICK j \in 1..Len(m.pool.txs) : j >= i /\ f.pool.txs[i] = m.pool.txs[j]
    BY <1>3
  <2>2. j <= m.pool.idx + 0
    BY <2>1 DEF Fresh, Within
  <2> QED BY <1>1, <1>2, <2>1, <2>2
<1>6. Fresh(f, K \cup Y, D)
  BY <1>1, <1>4, <1>5 DEF Fresh
<1>7. ASSUME NEW X, X \subseteq done, Built(m, K, D, X) PROVE Fresh(f, K \cup Y, D \cup X)
  <2>1. Within(f, X, 0)
    <3> SUFFICES ASSUME NEW i \in 1..Len(f.pool.txs), f.pool.txs[i] \in X
                 PROVE  i <= f.pool.idx + 0
      BY DEF Within
    <3>1. PICK j \in 1..Len(m.pool.txs) : j >= i + 1 /\ f.pool.txs[i] = m.pool.txs[j]
      BY <1>3, <1>7
    <3>2. j <= m.pool.idx + 1
      BY <1>7, <3>1 DEF Built, Within
    <3> QED BY <1>1, <1>2, <3>1, <3>2
  <2>2. Within(f, D \cup X, 0)
    BY <1>5, <2>1 DEF Within
  <2> QED BY <1>1, <1>4, <1>7, <2>2 DEF Fresh, Built
<1> QED BY <1>6, <1>7

\* A proposer's own proposal has transactions of its ready pool, and those that
\* the provider has signed.
LEMMA OwnUserTxs ==
    ASSUME NetTypes, NEW p \in Validators, NEW provider, OwnProposal(p, provider)
    PROVE  UserProposed' \subseteq ToSet(PrepareTxs(mp[p]))
<1> DEFINE S == Tx \cup {MatchingTx(b, provider) : b \in Bid}
           own == PrepareTxs(mp[p])
           t == ProposedTxs(p, own, provider)
           q == Proposal(height, lastVotes, t)
<1>1. own \in Seq(Tx)
  BY PrepareEffect DEF NetTypes, NodesTyped
<1>2. /\ t \in Seq(S)
      /\ \A x \in ToSet(t) : x \in ToSet(own) \/ \E b \in Bid : x = MatchingTx(b, provider)
  BY <1>1, ProposedTxsType
<1>3. height \in Nat
  BY DEF NetTypes, RoundTyped, LastHeight
<1>4. proposal' = q
  BY DEF OwnProposal
<1> HIDE DEF S, own, t
<1>5. \A i \in DOMAIN q : q[i].kind = "tx" => q[i].tx \in ToSet(t) /\ q[i].tx # NoTx
  BY <1>2, <1>3, ProposalTxs
<1> HIDE DEF q
<1>6. ASSUME NEW x \in Tx, x \in UserTxs(q) PROVE x \in ToSet(own)
  <2>1. x \in ToSet(t) /\ x # NoTx
    BY <1>5, <1>6 DEF UserTxs
  <2>2. ASSUME NEW b \in Bid, x = MatchingTx(b, provider) PROVE FALSE
    <3>1. CASE provider = "signs"
      BY <1>6, <2>2, <3>1, ProviderAssumption
    <3>2. CASE provider # "signs"
      BY <2>1, <2>2, <3>2 DEF MatchingTx
    <3> QED BY <3>1, <3>2
  <2> QED BY <1>2, <2>1, <2>2
<1>7. UserProposed' = UserTxs(q) \cap Tx
  BY <1>4 DEF UserProposed, UserTxs
<1> QED BY <1>6, <1>7 DEF own

LEMMA OnceInit == Init => OnceInv
BY FreshNew, NetworkAssumption DEF Init, OnceInv, Validators

\* A validator that nothing happens to.
Untouched(v) ==
    /\ mp'[v] = mp[v] /\ known'[v] = known[v] /\ decided'[v] = decided[v]
    /\ v \notin up' => v \notin up \/ known[v] = {}
    /\ author' = v => author = v /\ proposal' = proposal /\ v \in up'

OnceFor(v) ==
    /\ Fresh(mp[v], known[v], decided[v])
    /\ v \notin up => known[v] = {}
    /\ author = v => v \in up /\ Built(mp[v], known[v], decided[v], UserProposed)

LEMMA UntouchedOnce ==
    ASSUME NEW v, OnceFor(v), Untouched(v)
    PROVE  OnceFor(v)'
BY DEF OnceFor, Untouched, UserProposed, UserTxs

LEMMA StopOnce ==
    ASSUME NetTypes, OnceInv, NEW p \in Validators, Stop(p), proposal' = proposal
    PROVE  OnceInv'
<1> SUFFICES ASSUME NEW v \in Validators PROVE OnceFor(v)'
  BY DEF OnceInv, OnceFor
<1>1. OnceFor(v)
  BY DEF OnceInv, OnceFor
<1>2. CASE v = p
  <2>1. /\ mp'[v] = NewThresholdMempool /\ known'[v] = {} /\ decided'[v] = {}
        /\ author' # v
    BY <1>2, NetworkAssumption DEF Stop, NetTypes, NodesTyped, Validators
  <2> QED BY <2>1, FreshNew DEF OnceFor
<1>3. CASE v # p
  <2>1. Untouched(v)
    BY <1>1, <1>3, NetworkAssumption
    DEF Stop, NetTypes, NodesTyped, Untouched, OnceFor, Validators
  <2> QED BY <1>1, <2>1, UntouchedOnce
<1> QED BY <1>2, <1>3

\* The calls that touch the mempool, the cache and the record of validator p
\* only.  What they do to them is left to a premise.
LEMMA OnceAt ==
    ASSUME OnceInv, NEW p \in Validators, up' = up, proposal' = proposal \/ author' \in {0, p},
           \A v \in Validators : v # p =>
              mp'[v] = mp[v] /\ known'[v] = known[v] /\ decided'[v] = decided[v],
           author' \in {0, author} \/ author' = p, OnceFor(p)'
    PROVE  OnceInv'
<1> SUFFICES ASSUME NEW v \in Validators, v # p PROVE OnceFor(v)'
  BY DEF OnceInv, OnceFor
<1>1. OnceFor(v)
  BY DEF OnceInv, OnceFor
<1>2. Untouched(v)
  BY <1>1, NetworkAssumption DEF Untouched, OnceFor, Validators
<1> QED BY <1>1, <1>2, UntouchedOnce

LEMMA OnceNext == NetTypes /\ OnceInv /\ [Next]_vars => OnceInv'
<1> SUFFICES ASSUME NetTypes, OnceInv, [Next]_vars PROVE OnceInv'
  OBVIOUS
<1>0. /\ NodesTyped /\ \A v \in Validators : OnceFor(v) /\ mp[v] \in Mempools
      /\ \A v \in Validators : v # 0
  BY NetworkAssumption DEF NetTypes, NodesTyped, OnceInv, OnceFor, Validators
<1>1. ASSUME NEW p \in Validators, NEW tx \in Tx, CheckTx(p, tx) PROVE OnceInv'
  <2>1. /\ p \in up /\ tx \notin known[p]
        /\ UNCHANGED <<up, author, proposal, decided>>
        /\ mp' = [mp EXCEPT ![p] = Insert(@, tx)]
        /\ known' = [known EXCEPT ![p] = @ \cup {tx}]
    BY <1>1 DEF CheckTx, engine
  <2>2. mp'[p] = Insert(mp[p], tx) /\ known'[p] = known[p] \cup {tx}
    BY <1>0, <2>1 DEF NodesTyped
  <2>3. Fresh(mp[p], known[p], decided[p])
    BY <1>0 DEF OnceFor
  <2>4. /\ Fresh(Insert(mp[p], tx), known[p] \cup {tx}, decided[p])
        /\ \A X : Built(mp[p], known[p], decided[p], X)
                  => Built(Insert(mp[p], tx), known[p] \cup {tx}, decided[p], X)
    BY <1>0, <2>1, <2>3, FreshInsert
  <2>5. UserProposed' = UserProposed
    BY <2>1 DEF UserProposed, UserTxs
  <2>6. OnceFor(p)'
    BY <1>0, <2>1, <2>2, <2>4, <2>5 DEF OnceFor
  <2>7. \A v \in Validators : v # p =>
           mp'[v] = mp[v] /\ known'[v] = known[v] /\ decided'[v] = decided[v]
    BY <1>0, <2>1 DEF NodesTyped
  <2> QED BY <2>1, <2>6, <2>7, OnceAt
<1>2. ASSUME NEW p \in Validators, Crash(p) PROVE OnceInv'
  BY <1>2, StopOnce DEF Crash
<1>3. ASSUME NEW p \in Validators, Restart(p) PROVE OnceInv'
  <2>1. UNCHANGED <<mp, known, decided, author, proposal>> /\ up' = up \cup {p}
    BY <1>3 DEF Restart, engine
  <2> SUFFICES ASSUME NEW v \in Validators PROVE OnceFor(v)'
    BY DEF OnceInv, OnceFor
  <2>2. Untouched(v)
    BY <1>0, <2>1 DEF Untouched, OnceFor
  <2> QED BY <1>0, <2>2, UntouchedOnce
<1>4. ASSUME NEW p \in Validators, ExtendVote(p) PROVE OnceInv'
  <2>1. proposal' = proposal
    BY <1>4 DEF ExtendVote
  <2>2. CASE height < VoteExtensionsEnableHeight
    <3>1. UNCHANGED <<mp, known, up, decided, author>>
      BY <1>4, <2>2 DEF ExtendVote, nodes
    <3> SUFFICES ASSUME NEW v \in Validators PROVE OnceFor(v)'
      BY DEF OnceInv, OnceFor
    <3>2. Untouched(v)
      BY <1>0, <2>1, <3>1 DEF Untouched, OnceFor
    <3> QED BY <1>0, <3>2, UntouchedOnce
  <2>3. CASE ~(height < VoteExtensionsEnableHeight) /\ ExtendPanics(mp[p])
    BY <1>4, <2>1, <2>3, StopOnce DEF ExtendVote
  <2>4. CASE ~(height < VoteExtensionsEnableHeight) /\ ~ExtendPanics(mp[p])
    <3>1. /\ mp' = [mp EXCEPT ![p] = AfterExtend(@)]
          /\ UNCHANGED <<known, up, author, decided>>
      BY <1>4, <2>4 DEF ExtendVote
    <3>2. mp'[p] = AfterExtend(mp[p]) /\ \A v \in Validators : v # p => mp'[v] = mp[v]
      BY <1>0, <3>1 DEF NodesTyped
    <3>3. Fresh(mp[p], known[p], decided[p])
      BY <1>0 DEF OnceFor
    <3>4. /\ Fresh(AfterExtend(mp[p]), known[p], decided[p])
          /\ \A X : Built(mp[p], known[p], decided[p], X)
                    => Built(AfterExtend(mp[p]), known[p], decided[p], X)
      BY <1>0, <3>3, FreshExtend
    <3>5. UserProposed' = UserProposed
      BY <2>1 DEF UserProposed, UserTxs
    <3>6. OnceFor(p)'
      BY <1>0, <3>1, <3>2, <3>4, <3>5 DEF OnceFor
    <3>7. \A v \in Validators : v # p =>
             mp'[v] = mp[v] /\ known'[v] = known[v] /\ decided'[v] = decided[v]
      BY <3>1, <3>2
    <3> QED BY <2>1, <3>1, <3>6, <3>7, OnceAt
  <2> QED BY <2>2, <2>3, <2>4
<1>5. CASE Propose
  <2>1. PICK p \in up, provider \in Providers :
            Unproposed(p) \/ OwnProposal(p, provider) \/ BaseappProposal(p)
    BY <1>5, ProposeCases DEF NetTypes
  <2>2. p \in Validators /\ mp[p] \in Mempools
    BY <1>0 DEF NodesTyped
  <2>3. Fresh(mp[p], known[p], decided[p])
    BY <1>0, <2>2 DEF OnceFor
  <2>4. /\ Fresh(AfterPrepare(mp[p]), known[p], decided[p])
        /\ \A X : X \subseteq ToSet(PrepareTxs(mp[p]))
                  => Built(AfterPrepare(mp[p]), known[p], decided[p], X)
    BY <2>2, <2>3, FreshPrepare
  <2>5. CASE Unproposed(p)
    BY <2>2, <2>5, StopOnce DEF Unproposed
  <2>6. CASE OwnProposal(p, provider) \/ BaseappProposal(p)
    <3>1. /\ mp' = [mp EXCEPT ![p] = AfterPrepare(@)] /\ UNCHANGED <<known, up, decided>>
          /\ author' \in {0, p}
      BY <2>6 DEF OwnProposal, BaseappProposal
    <3>2. mp'[p] = AfterPrepare(mp[p]) /\ \A v \in Validators : v # p => mp'[v] = mp[v]
      BY <1>0, <2>2, <3>1 DEF NodesTyped
    <3>3. author' = p => UserProposed' \subseteq ToSet(PrepareTxs(mp[p]))
      <4>1. CASE OwnProposal(p, provider)
        BY <2>2, <4>1, OwnUserTxs
      <4>2. CASE BaseappProposal(p)
        BY <1>0, <2>2, <4>2 DEF BaseappProposal
      <4> QED BY <2>6, <4>1, <4>2
    <3>4. OnceFor(p)'
      BY <2>1, <2>4, <3>1, <3>2, <3>3 DEF OnceFor
    <3>5. \A v \in Validators : v # p =>
             mp'[v] = mp[v] /\ known'[v] = known[v] /\ decided'[v] = decided[v]
      BY <3>1, <3>2
    <3> QED BY <2>2, <3>1, <3>4, <3>5, OnceAt
  <2> QED BY <2>1, <2>5, <2>6
<1>6. CASE Decide
  <2> SUFFICES ASSUME NEW v \in Validators PROVE OnceFor(v)'
    BY DEF OnceInv, OnceFor
  <2> DEFINE f == FinalizeBlock(mp[v], proposal)
             Y == IF v \in up THEN UserProposed ELSE {}
  <2>1. /\ mp'[v] = f /\ known'[v] = known[v] \cup Y /\ up' = up /\ author' = 0
        /\ decided'[v] = IF v = author THEN decided[v] \cup UserProposed ELSE decided[v]
    <3>1. known'[v] = IF v \in up THEN known[v] \cup UserProposed ELSE {}
      BY <1>6 DEF Decide, UserProposed
    <3>2. v \notin up => known[v] = {}
      BY <1>0 DEF OnceFor
    <3> QED BY <1>6, <3>1, <3>2 DEF Decide, UserProposed, NewRound
  <2>2. Finalized(mp[v], f, UserTxs(proposal))
    <3>1. proposal \in Seq(Entries)
      BY DEF NetTypes, RoundTyped
    <3> QED BY <1>0, <3>1, FinalizeEffect
  <2>3. Fresh(mp[v], known[v], decided[v])
    BY <1>0 DEF OnceFor
  <2> HIDE DEF f, Y
  <2>4. /\ Fresh(f, known[v] \cup Y, decided[v])
        /\ \A X : X \subseteq UserTxs(proposal) /\ Built(mp[v], known[v], decided[v], X)
                  => Fresh(f, known[v] \cup Y, decided[v] \cup X)
    BY <1>0, <2>2, <2>3, FreshFinalized
  <2>5. v = author => Built(mp[v], known[v], decided[v], UserProposed)
    BY <1>0 DEF OnceFor
  <2>6. UserProposed \subseteq UserTxs(proposal)
    BY DEF UserProposed
  <2>7. Fresh(mp'[v], known'[v], decided'[v])
    BY <2>1, <2>4, <2>5, <2>6
  <2>8. v \notin up' => known'[v] = {}
    BY <1>0, <2>1 DEF OnceFor, Y
  <2> QED BY <1>0, <2>1, <2>7, <2>8 DEF OnceFor
<1>7. CASE NoBlock \/ RoundFails \/ UNCHANGED vars
  <2>1. /\ UNCHANGED <<mp, known, up, decided>>
        /\ author' = 0 \/ UNCHANGED <<author, proposal>>
    BY <1>7 DEF NoBlock, RoundFails, NewRound, vars, engine, nodes
  <2> SUFFICES ASSUME NEW v \in Validators PROVE OnceFor(v)'
    BY DEF OnceInv, OnceFor
  <2>2. Untouched(v)
    BY <1>0, <2>1 DEF Untouched, OnceFor
  <2> QED BY <1>0, <2>2, UntouchedOnce
<1> QED BY <1>1, <1>2, <1>3, <1>4, <1>5, <1>6, <1>7 DEF Next

LEMMA OnceProposed == NetTypes /\ OnceInv => ProposedOnceByEach
<1> SUFFICES ASSUME NetTypes, OnceInv, author # 0
             PROVE  UserTxs(proposal) \cap decided[author] = {}
  BY DEF ProposedOnceByEach
<1>1. author \in Validators /\ decided[author] \subseteq Tx
  BY NetworkAssumption DEF NetTypes, NodesTyped, Validators
<1> QED BY <1>1 DEF OnceInv, Built, UserProposed

\* A transaction of a block that a validator has built is in no later proposal
\* of that validator, unless it has been restarted
\* (AuctionNetwork!ProposedOnceByEach).
THEOREM NotProposedAgain == Spec => []ProposedOnceByEach
BY NetTypesAlways, OnceInit, OnceNext, OnceProposed, PTL DEF Spec
=============================================================================
