------------------------- MODULE ProposalRoundProofs -------------------------
(***************************************************************************)
(* Proofs about ProposalRound, for any votes, any ready transactions and   *)
(* any number of validators.                                               *)
(***************************************************************************)
EXTENDS ProposalRound, HandlerLemmas

\* What the proposer's transactions become in the hands of the provider.
Built == IF provider = "none" THEN ready ELSE BuildProposal(ready, provider)

(***************************************************************************)
(* The inductive invariant: a proposal is what PrepareProposal answers, or *)
(* what baseapp does for it, and a verdict is the verdict on it.           *)
(***************************************************************************)
RoundInv ==
    /\ votes \in Votes /\ ready \in ReadyLists
    /\ provider \in {"none"} \cup ProviderStates
    /\ verdict \in {"none", "due", "accept", "reject"}
    /\ verdict = "none" => proposal = <<>>
    /\ verdict # "none" /\ BuildPanics(ready, provider) =>
          \E raw \in ReadyLists : proposal = EngineProposal(raw)
    /\ verdict # "none" /\ ~BuildPanics(ready, provider) =>
          proposal = Proposal(Height, votes, Built)
    /\ verdict \in {"accept", "reject"} => verdict = Verdict(proposal)

LEMMA RoundInit == Init => RoundInv
BY DEF Init, RoundInv

LEMMA RoundNext == RoundInv /\ [Next]_vars => RoundInv'
<1> SUFFICES ASSUME RoundInv, [Next]_vars PROVE RoundInv'
  OBVIOUS
<1>1. CASE PrepareProposal
  <2>0. /\ votes' = votes /\ ready' = ready /\ provider' = provider
        /\ verdict' = "due"
    BY <1>1 DEF PrepareProposal
  <2>1. BuildPanics(ready, provider)' = BuildPanics(ready, provider) /\ Built' = Built
    BY <2>0 DEF Built
  <2>2. CASE BuildPanics(ready, provider)
    <3>1. \E raw \in ReadyLists : proposal' = EngineProposal(raw)
      BY <1>1, <2>2 DEF PrepareProposal
    <3> QED BY <2>0, <2>1, <2>2, <3>1 DEF RoundInv
  <2>3. CASE ~BuildPanics(ready, provider)
    <3>1. proposal' = Proposal(Height, votes, Built)
      BY <1>1, <2>3 DEF PrepareProposal, Built
    <3> QED BY <2>0, <2>1, <2>3, <3>1 DEF RoundInv
  <2> QED BY <2>2, <2>3
<1>2. CASE ProcessProposalStep
  <2>1. /\ votes' = votes /\ ready' = ready /\ provider' = provider
        /\ proposal' = proposal /\ verdict = "due" /\ verdict' = Verdict(proposal)
    BY <1>2 DEF ProcessProposalStep
  <2>2. Built' = Built
    BY <2>1 DEF Built
  <2>3. Verdict(proposal) \in {"accept", "reject"}
    BY DEF Verdict
  <2> QED BY <2>1, <2>2, <2>3 DEF RoundInv
<1>3. CASE UNCHANGED vars
  BY <1>3 DEF vars, RoundInv, Built
<1> QED BY <1>1, <1>2, <1>3 DEF Next

LEMMA RoundAlways == Spec => []RoundInv
BY RoundInit, RoundNext, PTL DEF Spec

-----------------------------------------------------------------------------
(* What the proposal is *)

LEMMA RoundTypes ==
    ASSUME RoundInv
    PROVE  votes \in VoteLists /\ ready \in Seq(Tx) /\ Height \in Nat /\ Height > 2
BY RoundAssumption DEF RoundInv, VoteLists, Height

\* The transactions that the proposer encodes: with a provider that does not
\* sign, the ready ones that have messages, some of them more than once, and
\* nil ones.
LEMMA BuiltTypes ==
    ASSUME RoundInv
    PROVE  /\ \E S : Built \in Seq(S)
           /\ provider # "signs" =>
                 /\ \A x \in ToSet(Built) : x # NoTx => x \in ToSet(ready)
                 /\ \A x \in ToSet(ready) : x.msgs # <<>> => x \in ToSet(Built)
<1> DEFINE S == Tx \cup {MatchingTx(m, provider) : m \in Bid}
<1>1. CASE provider = "none"
  BY <1>1, RoundTypes DEF Built
<1>2. CASE provider # "none"
  <2>0. Built = BuildProposal(ready, provider) /\ ready \in Seq(Tx)
    BY <1>2, RoundTypes DEF Built
  <2>1. Tx \subseteq S /\ \A m \in Bid : MatchingTx(m, provider) \in S
    OBVIOUS
  <2> HIDE DEF S
  <2>2. /\ Built \in Seq(S)
        /\ \A x \in ToSet(Built) :
              x \in ToSet(ready) \/ \E m \in Bid : x = MatchingTx(m, provider)
        /\ \A x \in ToSet(ready) : x.msgs # <<>> => x \in ToSet(Built)
    BY <2>0, <2>1, BuiltProposal
  <2>3. provider # "signs" => \A m : MatchingTx(m, provider) = NoTx
    BY DEF MatchingTx
  <2> QED BY <2>2, <2>3
<1> QED BY <1>1, <1>2

\* baseapp's proposal has no special transaction, and is accepted.
LEMMA EngineAccepted ==
    ASSUME NEW raw \in Seq(Tx)
    PROVE  /\ \A i \in DOMAIN EngineProposal(raw) : EngineProposal(raw)[i].kind = "tx"
           /\ SpecialBids(EngineProposal(raw)) = <<>>
           /\ ProcessProposal(EngineProposal(raw))
<1> DEFINE p == EngineProposal(raw)
<1>1. \A i \in DOMAIN p : p[i].kind = "tx"
  BY DEF EngineProposal, UserTx
<1>2. p \in Seq({UserTx(t) : t \in Tx})
  <2>1. DOMAIN raw = 1..Len(raw) /\ Len(raw) \in Nat /\ \A i \in 1..Len(raw) : raw[i] \in Tx
    BY LenProperties, ElementOfSeq
  <2>2. p \in [1..Len(raw) -> {UserTx(t) : t \in Tx}]
    BY <2>1 DEF EngineProposal
  <2> QED BY <2>1, <2>2
<1> HIDE DEF p
<1>3. p # <<>> => 1 \in DOMAIN p /\ Head(p) = p[1]
  BY <1>2, EmptySeq
<1>4. SpecialBids(p) = <<>>
  BY <1>1, <1>3 DEF SpecialBids
<1> QED BY <1>1, <1>4 DEF ProcessProposal, p

\* The bids of a special transaction are those of the votes, and all of the
\* proposed bids are in proposed transactions.
LEMMA RoundProposal ==
    ASSUME RoundInv, verdict # "none", ~BuildPanics(ready, provider)
    PROVE  /\ proposal = Proposal(Height, votes, Built)
           /\ \E E : proposal \in Seq(E)
           /\ SpecialBids(proposal) = ProcessVoteExtensions(votes).bids
           /\ SpecialBids(proposal) \in Seq(Bid)
           /\ \A b \in ToSet(SpecialBids(proposal)) : ListedBy(b) # {}
           /\ \A x \in ToSet(Built) : x # NoTx => BidSet(x) \subseteq ProposedBids
<1> DEFINE p == Proposal(Height, votes, Built)
<1>0. proposal = p
  BY DEF RoundInv
<1>1. PICK S : Built \in Seq(S)
  BY BuiltTypes
<1>2. votes \in VoteLists /\ Height \in Nat /\ Height > 2
  BY RoundTypes
<1> DEFINE E == {SpecialTx(ProcessVoteExtensions(votes))} \cup {Encode(t) : t \in S}
<1>3. p \in Seq(E)
  <2>1. SpecialTx(ProcessVoteExtensions(votes)) \in E /\ \A t \in S : Encode(t) \in E
    OBVIOUS
  <2> HIDE DEF E
  <2> QED BY <1>1, <1>2, <2>1, ProposalType
<1>4. SpecialBids(p) = ProcessVoteExtensions(votes).bids
  BY <1>1, <1>2, ProposalVerdict
<1>5. /\ Len(p) = Len(Built) + 1
      /\ \A i \in 1..Len(Built) : p[i + 1] = Encode(Built[i])
  BY <1>1, <1>2, ProposalParts
<1>6. /\ SpecialBids(p) \in Seq(Bid)
      /\ \A b \in ToSet(SpecialBids(p)) :
            \E j \in 1..Len(votes) : votes[j] # NoExtension /\ b \in ToSet(votes[j].bids)
  BY <1>2, <1>4, SpecialTxBids
<1>7. \A b \in ToSet(SpecialBids(p)) : ListedBy(b) # {}
  <2>1. DOMAIN votes = 1..Len(votes)
    BY <1>2, LenProperties DEF VoteLists
  <2> QED BY <1>6, <2>1 DEF ListedBy, Given
<1> HIDE DEF p, E
<1>8. ASSUME NEW x \in ToSet(Built), x # NoTx, NEW b \in BidSet(x)
      PROVE  b \in ProposedBids
  <2>1. PICK i \in 1..Len(Built) : x = Built[i]
    BY <1>1, LenProperties DEF ToSet
  <2>2. i + 1 \in DOMAIN p
    <3>1. Len(Built) \in Nat /\ DOMAIN p = 1..Len(p)
      BY <1>1, <1>3, LenProperties
    <3> QED BY <1>5, <3>1
  <2>3. b \in EntryBids(p[i + 1])
    BY <1>5, <1>8, <2>1, EncodedEntry
  <2> QED BY <1>0, <2>2, <2>3 DEF ProposedBids
<1> QED BY <1>0, <1>3, <1>4, <1>6, <1>7, <1>8 DEF p

-----------------------------------------------------------------------------
(* The properties *)

\* The special transaction is first, and nothing after it fails to decode.
LEMMA RoundTyped == RoundInv => TypeOK
<1> SUFFICES ASSUME RoundInv PROVE TypeOK
  OBVIOUS
<1>1. ASSUME NEW i \in DOMAIN proposal
      PROVE  proposal[i].kind \in (IF i = 1 /\ ~BuildPanics(ready, provider)
                                   THEN {"special"} ELSE {"tx", "empty"})
  <2>1. verdict # "none"
    <3>1. DOMAIN (<<>>) = {}
      OBVIOUS
    <3> QED BY <3>1 DEF RoundInv
  <2>2. CASE BuildPanics(ready, provider)
    <3>1. PICK raw \in ReadyLists : proposal = EngineProposal(raw)
      BY <2>1, <2>2 DEF RoundInv
    <3>2. raw \in Seq(Tx)
      BY RoundAssumption
    <3> QED BY <2>2, <3>1, <3>2, EngineAccepted
  <2>3. CASE ~BuildPanics(ready, provider)
    <3>1. PICK S : Built \in Seq(S)
      BY BuiltTypes
    <3>2. proposal = Proposal(Height, votes, Built) /\ \E E : proposal \in Seq(E)
      BY <2>1, <2>3, RoundProposal
    <3>3. /\ Len(proposal) = Len(Built) + 1
          /\ proposal[1] = SpecialTx(ProcessVoteExtensions(votes))
          /\ \A j \in 1..Len(Built) : proposal[j + 1] = Encode(Built[j])
      BY <3>1, <3>2, RoundTypes, ProposalParts
    <3>4. i \in 1..Len(Built) + 1 /\ Len(Built) \in Nat
      BY <3>1, <3>2, <3>3, LenProperties
    <3>5. CASE i = 1
      BY <2>3, <3>3, <3>5 DEF SpecialTx
    <3>6. CASE i # 1
      <4>1. i - 1 \in 1..Len(Built) /\ (i - 1) + 1 = i
        BY <3>4, <3>6
      <4>2. proposal[i] = Encode(Built[i - 1])
        BY <3>3, <4>1
      <4> QED BY <3>6, <4>2, EncodedEntry
    <3> QED BY <3>5, <3>6
  <2> QED BY <2>2, <2>3
<1> QED BY <1>1 DEF TypeOK, RoundInv

\* What a validator is asked about is a special transaction and transactions
\* (ProposalRound!TypeOK).
THEOREM RoundTyping == Spec => []TypeOK
BY RoundAlways, RoundTyped, PTL

LEMMA RoundUnreported == RoundInv => NoUnreportedBid
<1> SUFFICES ASSUME RoundInv, verdict = "accept", Len(SpecialBids(proposal)) >= 2,
                    NEW b \in ProposedBids
             PROVE  ListedBy(b) # {}
  BY DEF NoUnreportedBid
<1>1. ~BuildPanics(ready, provider)
  <2> SUFFICES ASSUME BuildPanics(ready, provider) PROVE FALSE
    OBVIOUS
  <2>1. PICK raw \in ReadyLists : proposal = EngineProposal(raw)
    BY DEF RoundInv
  <2>2. SpecialBids(proposal) = <<>>
    BY <2>1, RoundAssumption, EngineAccepted
  <2> QED BY <2>2, EmptySeq
<1>2. /\ \E E : proposal \in Seq(E)
      /\ SpecialBids(proposal) \in Seq(Bid)
      /\ \A c \in ToSet(SpecialBids(proposal)) : ListedBy(c) # {}
  BY <1>1, RoundProposal
<1>3. ProcessProposal(proposal)
  BY DEF RoundInv, Verdict
<1>4. \A i \in DOMAIN proposal : EntryBids(proposal[i]) \subseteq ToSet(SpecialBids(proposal))
  BY <1>2, <1>3, AcceptedListed
<1> QED BY <1>2, <1>4 DEF ProposedBids

\* With two bids in the special transaction, no validator accepts a proposal
\* with a bid that is in no vote extension.
THEOREM OnlyReportedAccepted == Spec => []NoUnreportedBid
BY RoundAlways, RoundUnreported, PTL

LEMMA RoundCommon == RoundInv => CommonBidsAccepted
<1> SUFFICES ASSUME RoundInv, verdict \in {"accept", "reject"}, Given = DOMAIN votes,
                    \A i \in Given : Len(votes[i].bids) <= 2,
                    \A b \in ProposedBids : ListedBy(b) = DOMAIN votes
             PROVE  verdict = "accept"
  BY DEF CommonBidsAccepted
<1>1. CASE BuildPanics(ready, provider)
  <2>1. PICK raw \in ReadyLists : proposal = EngineProposal(raw)
    BY <1>1 DEF RoundInv
  <2>2. ProcessProposal(proposal)
    BY <2>1, RoundAssumption, EngineAccepted
  <2> QED BY <2>2 DEF RoundInv, Verdict
<1>2. CASE ~BuildPanics(ready, provider)
  <2> DEFINE ve == ProcessVoteExtensions(votes).bids
  <2>0. votes \in VoteLists /\ DOMAIN votes = 1..Len(votes)
    BY RoundTypes, LenProperties DEF VoteLists
  <2>1. /\ proposal = Proposal(Height, votes, Built)
        /\ \A x \in ToSet(Built) : x # NoTx => BidSet(x) \subseteq ProposedBids
    BY <1>2, RoundProposal
  <2>2. ASSUME NEW b \in ProposedBids PROVE Freq(ve, b) >= ThresholdCount(Len(ve))
    <3>1. \A j \in 1..Len(votes) : /\ votes[j] # NoExtension
                                   /\ Len(votes[j].bids) <= 2
                                   /\ b \in ToSet(votes[j].bids)
      BY <2>0 DEF Given, ListedBy
    <3> QED BY <2>0, <3>1, CommonBidFrequent
  <2>3. PICK S : Built \in Seq(S)
    BY BuiltTypes
  <2>4. ProcessProposal(proposal)
            <=> (ve # <<>> => \A x \in ToSet(Built) : x # NoTx =>
                    \A b \in BidSet(x) : Freq(ve, b) >= ThresholdCount(Len(ve)))
    BY <2>0, <2>1, <2>3, RoundTypes, ProposalVerdict
  <2>5. ProcessProposal(proposal)
    BY <2>1, <2>2, <2>4
  <2> QED BY <2>5 DEF RoundInv, Verdict
<1> QED BY <1>1, <1>2

\* Whatever the number of validators, a proposal whose bids they all reported
\* is accepted when they reported at most two bids each.
THEOREM CommonAccepted == Spec => []CommonBidsAccepted
BY RoundAlways, RoundCommon, PTL

LEMMA RoundHarmless == RoundInv => FailingProviderHarmless
<1> SUFFICES ASSUME RoundInv, provider \in {"noKey", "noAccount"},
                    verdict \in {"accept", "reject"},
                    verdict = "accept" => provider = "noKey"
             PROVE  (verdict = "accept") <=> ProcessProposal(Proposal(Height, votes, ready))
  BY DEF FailingProviderHarmless
<1>1. CASE BuildPanics(ready, provider)
  <2>1. PICK raw \in ReadyLists : proposal = EngineProposal(raw)
    BY <1>1 DEF RoundInv
  <2>2. ProcessProposal(proposal)
    BY <2>1, RoundAssumption, EngineAccepted
  <2> QED BY <1>1, <2>2 DEF RoundInv, Verdict, BuildPanics
<1>2. CASE ~BuildPanics(ready, provider)
  <2> DEFINE ve == ProcessVoteExtensions(votes).bids
             Meets(x) == \A b \in BidSet(x) : Freq(ve, b) >= ThresholdCount(Len(ve))
             All(txs) == \A x \in ToSet(txs) : x # NoTx => Meets(x)
  <2>0. proposal = Proposal(Height, votes, Built)
    BY <1>2, RoundProposal
  <2>1. PICK S : Built \in Seq(S)
    BY BuiltTypes
  <2>2. ProcessProposal(proposal) <=> (ve # <<>> => All(Built))
    BY <2>0, <2>1, RoundTypes, ProposalVerdict
  <2>3. ProcessProposal(Proposal(Height, votes, ready)) <=> (ve # <<>> => All(ready))
    BY RoundTypes, ProposalVerdict
  <2>4. /\ \A x \in ToSet(Built) : x # NoTx => x \in ToSet(ready)
        /\ \A x \in ToSet(ready) : x.msgs # <<>> => x \in ToSet(Built)
    BY BuiltTypes
  <2>5. \A x : x.msgs = <<>> => Meets(x)
    BY DEF BidSet, ToSet
  <2> HIDE DEF Meets, ve
  <2>6. All(Built) <=> All(ready)
    BY <2>4, <2>5
  <2> QED BY <2>2, <2>3, <2>6 DEF RoundInv, Verdict
<1> QED BY <1>1, <1>2

\* A provider that cannot sign changes no verdict, but for the panic, after
\* which baseapp's proposal is accepted.
THEOREM ProviderHarmless == Spec => []FailingProviderHarmless
BY RoundAlways, RoundHarmless, PTL
=============================================================================
