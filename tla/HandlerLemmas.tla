---------------------------- MODULE HandlerLemmas ----------------------------
(***************************************************************************)
(* What the proposal handlers and the provider return, for all their       *)
(* inputs.                                                                 *)
(***************************************************************************)
EXTENDS AbciHandlers, MempoolLemmas

-----------------------------------------------------------------------------
(* processVoteExtensions *)

VoteLists == Seq({NoExtension} \cup Extension)

\* The variable ve holds the last extension that decoded.
LEMMA DecodedVote ==
    ASSUME NEW votes \in VoteLists, NEW i \in 1..Len(votes)
    PROVE  LET d == Decoded(votes, i)
           IN  /\ d \in Extension
               /\ \A b \in ToSet(d.bids) :
                     \E j \in 1..i : votes[j] # NoExtension /\ b \in ToSet(votes[j].bids)
               /\ votes[i] # NoExtension => d = votes[i]
<1> DEFINE d == Decoded(votes, i)
           D == {j \in 1..i : votes[j] # NoExtension}
<1>0. /\ i \in Nat /\ Len(votes) \in Nat /\ i <= Len(votes)
      /\ \A j \in 1..i : j \in 1..Len(votes) /\ votes[j] \in {NoExtension} \cup Extension
  BY LenProperties, ElementOfSeq DEF VoteLists
<1>1. CASE D = {}
  <2>1. d = VoteExtension(0, <<>>)
    BY <1>1 DEF Decoded
  <2>2. d \in Extension /\ d.bids = <<>>
    BY <2>1, EmptySeq DEF VoteExtension, Extension
  <2>3. ToSet(d.bids) = {}
    BY <2>2 DEF ToSet
  <2>4. votes[i] = NoExtension
    BY <1>0, <1>1
  <2> HIDE DEF d, D
  <2> QED BY <2>2, <2>3, <2>4 DEF d
<1>2. CASE D # {}
  <2> DEFINE m == Max(D)
  <2>1. D \in SUBSET (0..i)
    BY <1>0
  <2> HIDE DEF D
  <2>2. m \in D /\ \A j \in D : m >= j
    BY <1>0, <1>2, <2>1, MaxInSet
  <2> HIDE DEF m
  <2>3. m \in 1..i /\ votes[m] # NoExtension /\ votes[m] \in Extension
    BY <1>0, <2>2 DEF D
  <2>4. d = votes[m]
    BY <1>2 DEF Decoded, D, m
  <2>5. votes[i] # NoExtension => m = i
    BY <1>0, <2>2, <2>3 DEF D
  <2> HIDE DEF d
  <2> QED BY <2>3, <2>4, <2>5 DEF d
<1> QED BY <1>1, <1>2

\* The special transaction's bids are bids of the votes.
LEMMA SpecialTxBids ==
    ASSUME NEW votes \in VoteLists
    PROVE  /\ ProcessVoteExtensions(votes).bids \in Seq(Bid)
           /\ \A b \in ToSet(ProcessVoteExtensions(votes).bids) :
                 \E j \in 1..Len(votes) : votes[j] # NoExtension /\ b \in ToSet(votes[j].bids)
<1> DEFINE ss == [i \in DOMAIN votes |-> Decoded(votes, i).bids]
<1>0. Len(votes) \in Nat /\ DOMAIN votes = 1..Len(votes)
  BY LenProperties DEF VoteLists
<1>1. \A i \in 1..Len(votes) : ss[i] = Decoded(votes, i).bids /\ ss[i] \in Seq(Bid)
  <2>1. ASSUME NEW i \in 1..Len(votes) PROVE Decoded(votes, i) \in Extension
    BY DecodedVote
  <2> QED BY <1>0, <2>1 DEF Extension
<1>2. ss \in [1..Len(votes) -> Seq(Bid)]
  BY <1>0, <1>1
<1>3. ProcessVoteExtensions(votes).bids = FlattenSeq(ss)
  BY DEF ProcessVoteExtensions
<1> HIDE DEF ss
<1>4. ss \in Seq(Seq(Bid)) /\ Len(ss) = Len(votes)
  BY <1>0, <1>2
<1>5. /\ FlattenSeq(ss) \in Seq(Bid)
      /\ \A x : x \in ToSet(FlattenSeq(ss)) <=> \E i \in 1..Len(ss) : x \in ToSet(ss[i])
  BY <1>4, FlattenElements
<1>6. ASSUME NEW b \in ToSet(FlattenSeq(ss))
      PROVE  \E j \in 1..Len(votes) : votes[j] # NoExtension /\ b \in ToSet(votes[j].bids)
  <2>1. PICK i \in 1..Len(votes) : b \in ToSet(ss[i])
    BY <1>4, <1>5
  <2>2. \E j \in 1..i : votes[j] # NoExtension /\ b \in ToSet(votes[j].bids)
    BY <1>1, <2>1, DecodedVote
  <2>3. \A j \in 1..i : j \in 1..Len(votes)
    BY <1>0
  <2> QED BY <2>2, <2>3
<1> QED BY <1>3, <1>5, <1>6

\* A bid that is in all the extensions is as frequent as the threshold asks,
\* if no extension has more than two bids.
LEMMA CommonBidFrequent ==
    ASSUME NEW votes \in VoteLists, NEW b,
           \A j \in 1..Len(votes) : /\ votes[j] # NoExtension
                                    /\ Len(votes[j].bids) <= 2
                                    /\ b \in ToSet(votes[j].bids)
    PROVE  Freq(ProcessVoteExtensions(votes).bids, b)
               >= ThresholdCount(Len(ProcessVoteExtensions(votes).bids))
<1> DEFINE ss == [i \in DOMAIN votes |-> Decoded(votes, i).bids]
           c  == Freq(FlattenSeq(ss), b)
           l  == Len(FlattenSeq(ss))
           n  == Len(votes)
<1>0. n \in Nat /\ DOMAIN votes = 1..n
  BY LenProperties DEF VoteLists
<1>1. \A i \in 1..n : /\ ss[i] \in Seq(Bid) /\ Len(ss[i]) <= 2
                      /\ b \in ToSet(ss[i])
  <2>1. ASSUME NEW i \in 1..n PROVE Decoded(votes, i) \in Extension /\ Decoded(votes, i) = votes[i]
    BY DecodedVote
  <2> QED BY <1>0, <2>1 DEF Extension
<1>2. ss \in [1..n -> Seq(Bid)]
  BY <1>0, <1>1
<1>3. ProcessVoteExtensions(votes).bids = FlattenSeq(ss)
  BY DEF ProcessVoteExtensions
<1> HIDE DEF ss
<1>4. ss \in Seq(Seq(Bid)) /\ Len(ss) = n
  BY <1>0, <1>2
<1>5. Cardinality(Positions(FlattenSeq(ss), b)) >= n
  BY <1>1, <1>4, FlattenPositions
<1>6. c >= n
  BY <1>5 DEF Freq, Positions
<1>7. l <= 2 * n /\ FlattenSeq(ss) \in Seq(Bid)
  BY <1>1, <1>4, FlattenLength, FlattenElements
<1>8. l \in Nat /\ IsFiniteSet(DOMAIN FlattenSeq(ss))
  BY <1>7, LenProperties, FS_Interval
<1>9. c \in Nat
  <2>1. {i \in DOMAIN FlattenSeq(ss) : FlattenSeq(ss)[i] = b} \subseteq DOMAIN FlattenSeq(ss)
    OBVIOUS
  <2> QED BY <1>8, <2>1, FS_Subset, FS_CardinalityType DEF Freq
<1> HIDE DEF c, l, n
<1>10. c >= l \div 2
  BY <1>0, <1>6, <1>7, <1>8, <1>9
<1> QED BY <1>3, <1>10 DEF ThresholdCount, c, l

-----------------------------------------------------------------------------
(* LocalTxProvider *)

\* What BuildProposal does with one message, and with one transaction.
ForMsg(tx, m, provider) == IF IsBid(m) THEN <<MatchingTx(m, provider), tx>> ELSE <<tx>>
ForTx(tx, provider)     == FlattenSeq([j \in DOMAIN tx.msgs |-> ForMsg(tx, tx.msgs[j], provider)])

LEMMA BuildProposalForTxs ==
    ASSUME NEW txs, NEW provider
    PROVE  BuildProposal(txs, provider)
               = FlattenSeq([i \in DOMAIN txs |-> ForTx(txs[i], provider)])
BY DEF BuildProposal, ForTx, ForMsg

\* A transaction that has messages is in its part of the proposal, with
\* nothing but matching transactions.
LEMMA PartOfTx ==
    ASSUME NEW tx \in Tx, NEW provider, NEW S, tx \in S,
           \A m \in Bid : MatchingTx(m, provider) \in S
    PROVE  /\ ForTx(tx, provider) \in Seq(S)
           /\ \A x \in ToSet(ForTx(tx, provider)) :
                 x = tx \/ \E m \in Bid : x = MatchingTx(m, provider)
           /\ tx.msgs # <<>> => tx \in ToSet(ForTx(tx, provider))
<1> DEFINE n  == Len(tx.msgs)
           ss == [j \in DOMAIN tx.msgs |-> ForMsg(tx, tx.msgs[j], provider)]
<1>0. tx.msgs \in Seq(Msg) /\ n \in Nat /\ DOMAIN tx.msgs = 1..n
  BY TxAssumption, LenProperties
<1>1. ASSUME NEW m
      PROVE  /\ ForMsg(tx, m, provider) \in Seq(S)
             /\ tx \in ToSet(ForMsg(tx, m, provider))
             /\ \A x \in ToSet(ForMsg(tx, m, provider)) :
                   x = tx \/ \E b \in Bid : x = MatchingTx(b, provider)
  <2> DEFINE y == MatchingTx(m, provider)
  <2>1. CASE IsBid(m)
    <3>1. m \in Bid /\ y \in S /\ ForMsg(tx, m, provider) = <<y, tx>>
      BY <2>1 DEF IsBid, ForMsg
    <3> HIDE DEF y
    <3>2. <<y, tx>> \in Seq(S) /\ ToSet(<<y, tx>>) = {y, tx}
      BY <3>1 DEF ToSet
    <3> QED BY <3>1, <3>2 DEF y
  <2>2. CASE ~IsBid(m)
    <3>1. ForMsg(tx, m, provider) = <<tx>>
      BY <2>2 DEF ForMsg
    <3>2. <<tx>> \in Seq(S) /\ ToSet(<<tx>>) = {tx}
      BY DEF ToSet
    <3> QED BY <3>1, <3>2
  <2> QED BY <2>1, <2>2
<1>2. ss \in [1..n -> Seq(S)] /\ \A j \in 1..n : ss[j] = ForMsg(tx, tx.msgs[j], provider)
  BY <1>0, <1>1
<1>3. ForTx(tx, provider) = FlattenSeq(ss)
  BY DEF ForTx
<1> HIDE DEF ss
<1>4. ss \in Seq(Seq(S)) /\ Len(ss) = n
  BY <1>0, <1>2
<1>5. /\ FlattenSeq(ss) \in Seq(S)
      /\ \A x : x \in ToSet(FlattenSeq(ss)) <=> \E j \in 1..n : x \in ToSet(ss[j])
  BY <1>4, FlattenElements
<1>6. tx.msgs # <<>> => tx \in ToSet(FlattenSeq(ss))
  <2>1. tx.msgs # <<>> => 1 \in 1..n
    BY <1>0, EmptySeq
  <2>2. 1 \in 1..n => tx \in ToSet(ss[1])
    BY <1>1, <1>2
  <2> QED BY <2>1, <2>2, <1>5
<1>7. \A x \in ToSet(FlattenSeq(ss)) : x = tx \/ \E m \in Bid : x = MatchingTx(m, provider)
  BY <1>1, <1>2, <1>5
<1> QED BY <1>3, <1>5, <1>6, <1>7

\* The proposal has the transactions that have messages, and matching ones.
LEMMA BuiltProposal ==
    ASSUME NEW txs \in Seq(Tx), NEW provider, NEW S, Tx \subseteq S,
           \A m \in Bid : MatchingTx(m, provider) \in S
    PROVE  /\ BuildProposal(txs, provider) \in Seq(S)
           /\ \A x \in ToSet(BuildProposal(txs, provider)) :
                 x \in ToSet(txs) \/ \E m \in Bid : x = MatchingTx(m, provider)
           /\ \A x \in ToSet(txs) :
                 x.msgs # <<>> => x \in ToSet(BuildProposal(txs, provider))
<1> DEFINE n  == Len(txs)
           ss == [i \in DOMAIN txs |-> ForTx(txs[i], provider)]
<1>0. n \in Nat /\ DOMAIN txs = 1..n /\ \A i \in 1..n : txs[i] \in Tx
  BY LenProperties, ElementOfSeq
<1>1. \A i \in 1..n :
         /\ ForTx(txs[i], provider) \in Seq(S)
         /\ \A x \in ToSet(ForTx(txs[i], provider)) :
               x = txs[i] \/ \E m \in Bid : x = MatchingTx(m, provider)
         /\ txs[i].msgs # <<>> => txs[i] \in ToSet(ForTx(txs[i], provider))
  <2> SUFFICES ASSUME NEW i \in 1..n
               PROVE  /\ ForTx(txs[i], provider) \in Seq(S)
                      /\ \A x \in ToSet(ForTx(txs[i], provider)) :
                            x = txs[i] \/ \E m \in Bid : x = MatchingTx(m, provider)
                      /\ txs[i].msgs # <<>> => txs[i] \in ToSet(ForTx(txs[i], provider))
    OBVIOUS
  <2>1. txs[i] \in Tx /\ txs[i] \in S
    BY <1>0
  <2> QED BY <2>1, PartOfTx
<1>2. ss \in [1..n -> Seq(S)] /\ \A i \in 1..n : ss[i] = ForTx(txs[i], provider)
  BY <1>0, <1>1
<1>3. BuildProposal(txs, provider) = FlattenSeq(ss)
  BY BuildProposalForTxs
<1> HIDE DEF ss
<1>4. ss \in Seq(Seq(S)) /\ Len(ss) = n
  BY <1>0, <1>2
<1>5. /\ FlattenSeq(ss) \in Seq(S)
      /\ \A x : x \in ToSet(FlattenSeq(ss)) <=> \E i \in 1..n : x \in ToSet(ss[i])
  BY <1>4, FlattenElements
<1>6. \A x : x \in ToSet(txs) <=> \E i \in 1..n : x = txs[i]
  BY <1>0 DEF ToSet
<1>7. ASSUME NEW x \in ToSet(FlattenSeq(ss))
      PROVE  x \in ToSet(txs) \/ \E m \in Bid : x = MatchingTx(m, provider)
  <2>1. PICK i \in 1..n : x \in ToSet(ss[i])
    BY <1>5
  <2> QED BY <2>1, <1>1, <1>2, <1>6
<1>8. ASSUME NEW x \in ToSet(txs), x.msgs # <<>>
      PROVE  x \in ToSet(FlattenSeq(ss))
  <2>1. PICK i \in 1..n : x = txs[i]
    BY <1>6
  <2> QED BY <2>1, <1>1, <1>2, <1>5, <1>8
<1> QED BY <1>3, <1>5, <1>7, <1>8

-----------------------------------------------------------------------------
(* Proposals and verdicts *)

\* All bytes that a proposer encodes decode, and carry the bids of what was
\* encoded.
LEMMA EncodedEntry ==
    ASSUME NEW tx
    PROVE  /\ Encode(tx).kind \in {"tx", "empty"}
           /\ Decodes(Encode(tx))
           /\ EntryBids(Encode(tx)) = IF tx = NoTx THEN {} ELSE BidSet(tx)
           /\ Encode(tx).kind = "tx" => Encode(tx).tx = tx
BY DEF Encode, Decodes, EntryBids, UserTx, NoBytes

\* The special transaction, if there is one, and then the transactions.
LEMMA ProposalType ==
    ASSUME NEW height \in Nat, NEW votes, NEW S, NEW txs \in Seq(S), NEW E,
           SpecialTx(ProcessVoteExtensions(votes)) \in E, \A t \in S : Encode(t) \in E
    PROVE  Proposal(height, votes, txs) \in Seq(E)
<1> DEFINE b == [i \in DOMAIN txs |-> Encode(txs[i])]
           a == IF height > 2 THEN <<SpecialTx(ProcessVoteExtensions(votes))>> ELSE <<>>
<1>0. Len(txs) \in Nat /\ DOMAIN txs = 1..Len(txs) /\ \A i \in 1..Len(txs) : txs[i] \in S
  BY LenProperties, ElementOfSeq
<1>1. b \in [1..Len(txs) -> E]
  BY <1>0
<1>2. Proposal(height, votes, txs) = a \o b
  BY DEF Proposal
<1>3. a \in Seq(E)
  BY EmptySeq
<1> HIDE DEF a, b
<1>4. b \in Seq(E)
  BY <1>0, <1>1
<1> QED BY <1>2, <1>3, <1>4, ConcatProperties

LEMMA ProposalParts ==
    ASSUME NEW height \in Nat, height > 2, NEW votes, NEW S, NEW txs \in Seq(S)
    PROVE  LET p  == Proposal(height, votes, txs)
               st == SpecialTx(ProcessVoteExtensions(votes))
               n  == Len(txs)
           IN  /\ Len(p) = n + 1 /\ p[1] = st
               /\ \A i \in 1..n : p[i + 1] = Encode(txs[i])
               /\ p # <<>> /\ Head(p) = st
               /\ Len(Tail(p)) = n /\ DOMAIN Tail(p) = 1..n
               /\ \A i \in 1..n : Tail(p)[i] = Encode(txs[i])
<1> DEFINE st == SpecialTx(ProcessVoteExtensions(votes))
           n  == Len(txs)
           E  == {st} \cup {Encode(t) : t \in S}
           b  == [i \in DOMAIN txs |-> Encode(txs[i])]
           p  == Proposal(height, votes, txs)
<1>0. n \in Nat /\ DOMAIN txs = 1..n /\ \A i \in 1..n : txs[i] \in S
  BY LenProperties, ElementOfSeq
<1>1. b \in [1..n -> E] /\ \A i \in 1..n : b[i] = Encode(txs[i])
  BY <1>0
<1>2. p = <<st>> \o b
  BY DEF Proposal
<1> HIDE DEF b, n
<1>3. st \in E
  OBVIOUS
<1> HIDE DEF st, E, p
<1>4. b \in Seq(E) /\ Len(b) = n
  BY <1>0, <1>1
<1>5. /\ p \in Seq(E) /\ Len(p) = n + 1 /\ p[1] = st
      /\ \A i \in 1..n : p[i + 1] = b[i]
  BY <1>0, <1>2, <1>3, <1>4
<1>6. p # <<>> /\ Head(p) = st
  BY <1>0, <1>5, EmptySeq
<1>7. /\ Len(Tail(p)) = n /\ DOMAIN Tail(p) = 1..n
      /\ \A i \in 1..n : Tail(p)[i] = p[i + 1]
  BY <1>0, <1>5
<1> QED BY <1>1, <1>5, <1>6, <1>7 DEF p, st, n

\* Below the height of the first special transaction there is none.
LEMMA WithoutSpecial ==
    ASSUME NEW height \in Nat, ~(height > 2), NEW votes, NEW S, NEW txs \in Seq(S)
    PROVE  LET p == Proposal(height, votes, txs)
           IN  /\ Len(p) = Len(txs) /\ DOMAIN p = 1..Len(txs)
               /\ \A i \in 1..Len(txs) : p[i] = Encode(txs[i])
               /\ SpecialBids(p) = <<>>
<1> DEFINE n == Len(txs)
           E == {Encode(t) : t \in S}
           b == [i \in DOMAIN txs |-> Encode(txs[i])]
           p == Proposal(height, votes, txs)
<1>0. n \in Nat /\ DOMAIN txs = 1..n /\ \A i \in 1..n : txs[i] \in S
  BY LenProperties, ElementOfSeq
<1>1. b \in [1..n -> E] /\ \A i \in 1..n : b[i] = Encode(txs[i])
  BY <1>0
<1>2. p = <<>> \o b
  BY DEF Proposal
<1> HIDE DEF b, n, E, p
<1>3. b \in Seq(E) /\ Len(b) = n /\ DOMAIN b = 1..n
  BY <1>0, <1>1
<1>4. p = b
  BY <1>2, <1>3, ConcatEmptySeq
<1>5. SpecialBids(p) = <<>>
  <2>1. p # <<>> => Head(p) = Encode(txs[1])
    BY <1>0, <1>1, <1>3, <1>4, EmptySeq
  <2>2. Encode(txs[1]).kind # "special"
    BY EncodedEntry
  <2> QED BY <2>1, <2>2 DEF SpecialBids
<1> QED BY <1>1, <1>3, <1>4, <1>5 DEF p, n

\* The transactions of a proposal are those that were encoded.
LEMMA ProposalTxs ==
    ASSUME NEW height \in Nat, NEW votes, NEW S, NEW txs \in Seq(S),
           NEW i \in DOMAIN Proposal(height, votes, txs),
           Proposal(height, votes, txs)[i].kind = "tx"
    PROVE  LET x == Proposal(height, votes, txs)[i].tx
           IN  x \in ToSet(txs) /\ x # NoTx
<1> DEFINE p  == Proposal(height, votes, txs)
           st == SpecialTx(ProcessVoteExtensions(votes))
<1>1. \A k \in 1..Len(txs) : txs[k] \in ToSet(txs)
  BY LenProperties DEF ToSet
<1>2. \E k \in 1..Len(txs) : p[i] = Encode(txs[k])
  <2>1. CASE height > 2
    <3>1. /\ Len(p) = Len(txs) + 1 /\ p[1] = st
          /\ \A k \in 1..Len(txs) : p[k + 1] = Encode(txs[k])
      BY <2>1, ProposalParts
    <3> DEFINE E == {st} \cup {Encode(t) : t \in S}
    <3>2. p \in Seq(E)
      <4>1. st \in E /\ \A t \in S : Encode(t) \in E
        OBVIOUS
      <4> HIDE DEF E
      <4> QED BY <4>1, ProposalType
    <3>3. i \in 1..Len(txs) + 1 /\ Len(txs) \in Nat
      <4>1. DOMAIN p = 1..Len(p) /\ Len(txs) \in Nat
        BY <3>2, LenProperties
      <4> HIDE DEF p
      <4> QED BY <3>1, <4>1 DEF p
    <3>4. st.kind = "special"
      BY DEF SpecialTx
    <3> HIDE DEF p, st
    <3>5. i # 1
      BY <3>1, <3>4 DEF p
    <3>6. i - 1 \in 1..Len(txs) /\ (i - 1) + 1 = i
      BY <3>3, <3>5
    <3> QED BY <3>1, <3>6
  <2>2. CASE ~(height > 2)
    BY <2>2, WithoutSpecial
  <2> QED BY <2>1, <2>2
<1>3. PICK k \in 1..Len(txs) : p[i] = Encode(txs[k])
  BY <1>2
<1>4. p[i].tx = txs[k] /\ txs[k] # NoTx
  <2> HIDE DEF p
  <2>1. Encode(txs[k]).kind = "tx"
    BY <1>3 DEF p
  <2> QED BY <1>3, <2>1 DEF Encode, UserTx, NoBytes
<1> QED BY <1>1, <1>4

\* What a validator finds in a proposal with a special transaction, and
\* when it accepts it.
LEMMA ProposalVerdict ==
    ASSUME NEW height \in Nat, height > 2, NEW votes \in VoteLists,
           NEW S, NEW txs \in Seq(S)
    PROVE  LET p  == Proposal(height, votes, txs)
               ve == ProcessVoteExtensions(votes).bids
           IN  /\ SpecialBids(p) = ve
               /\ ProcessProposal(p) <=>
                     (ve # <<>> => \A x \in ToSet(txs) : x # NoTx =>
                         \A b \in BidSet(x) : Freq(ve, b) >= ThresholdCount(Len(ve)))
<1> DEFINE p  == Proposal(height, votes, txs)
           st == SpecialTx(ProcessVoteExtensions(votes))
           ve == ProcessVoteExtensions(votes).bids
           n  == Len(txs)
           Meets(b) == Freq(ve, b) >= ThresholdCount(Len(ve))
<1>1. /\ p # <<>> /\ Head(p) = st
      /\ DOMAIN Tail(p) = 1..n
      /\ \A i \in 1..n : Tail(p)[i] = Encode(txs[i])
  BY ProposalParts
<1>2. st.kind = "special" /\ st.bids = ve
  BY DEF SpecialTx
<1> HIDE DEF p, st, ve
<1>3. SpecialBids(p) = ve
  BY <1>1, <1>2 DEF SpecialBids
<1>4. \A x : x \in ToSet(txs) <=> \E i \in 1..n : x = txs[i]
  BY LenProperties DEF ToSet
<1> HIDE DEF n, Meets
<1>5. ValidateBids(ve, Tail(p))
          <=> \A i \in 1..n : txs[i] # NoTx => \A b \in BidSet(txs[i]) : Meets(b)
  <2>1. ValidateBids(ve, Tail(p))
            <=> \A i \in 1..n : Decodes(Tail(p)[i]) /\ \A b \in EntryBids(Tail(p)[i]) : Meets(b)
    BY <1>1 DEF ValidateBids, Meets
  <2>2. \A i \in 1..n : /\ Decodes(Tail(p)[i])
                        /\ EntryBids(Tail(p)[i]) = IF txs[i] = NoTx THEN {} ELSE BidSet(txs[i])
    BY <1>1, EncodedEntry
  <2> QED BY <2>1, <2>2
<1>6. ValidateBids(ve, Tail(p))
          <=> \A x \in ToSet(txs) : x # NoTx => \A b \in BidSet(x) : Meets(b)
  BY <1>4, <1>5
<1>7. ProcessProposal(p) <=> (ve # <<>> => ValidateBids(ve, Tail(p)))
  BY <1>3 DEF ProcessProposal
<1> QED BY <1>3, <1>6, <1>7 DEF p, ve, Meets

\* With two bids in the special transaction the threshold is not zero: a
\* bid that is accepted is one of them.
LEMMA AcceptedListed ==
    ASSUME NEW E, NEW p \in Seq(E), SpecialBids(p) \in Seq(Bid),
           Len(SpecialBids(p)) >= 2, ProcessProposal(p)
    PROVE  \A i \in DOMAIN p : EntryBids(p[i]) \subseteq ToSet(SpecialBids(p))
<1> DEFINE ve == SpecialBids(p)
           l  == Len(ve)
<1>1. l \in Nat /\ l >= 2 /\ ve # <<>>
  BY LenProperties, EmptySeq
<1>2. p # <<>> /\ Head(p).kind = "special"
  BY <1>1 DEF SpecialBids
<1>3. ValidateBids(ve, Tail(p))
  BY <1>1 DEF ProcessProposal
<1>4. /\ Len(p) \in Nat /\ DOMAIN p = 1..Len(p) /\ Head(p) = p[1]
      /\ DOMAIN Tail(p) = 1..Len(p) - 1
      /\ \A i \in 1..Len(p) - 1 : Tail(p)[i] = p[i + 1]
  BY <1>2
<1>5. ASSUME NEW b, b \notin ToSet(ve) PROVE ~(Freq(ve, b) >= ThresholdCount(l))
  <2>1. {i \in DOMAIN ve : ve[i] = b} = {}
    BY <1>5 DEF ToSet
  <2>2. Freq(ve, b) = 0
    BY <2>1, FS_EmptySet DEF Freq
  <2> HIDE DEF l
  <2>3. l \div 2 > 0
    BY <1>1
  <2> QED BY <2>2, <2>3, <1>1 DEF ThresholdCount
<1> SUFFICES ASSUME NEW i \in 1..Len(p), NEW b \in EntryBids(p[i])
             PROVE  b \in ToSet(ve)
  BY <1>4
<1>6. i # 1
  BY <1>2, <1>4 DEF EntryBids
<1>7. i - 1 \in DOMAIN Tail(p) /\ Tail(p)[i - 1] = p[i]
  BY <1>4, <1>6
<1>8. Freq(ve, b) >= ThresholdCount(l)
  BY <1>3, <1>7 DEF ValidateBids
<1> QED BY <1>5, <1>8
=============================================================================
