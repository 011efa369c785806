---------------------------- MODULE AbciHandlers ----------------------------
(***************************************************************************)
(* The proposal handlers of abci/proposal.go and the transaction provider  *)
(* of provider/provider.go, as functions of their inputs: none of them     *)
(* changes state but for the cursor of the ready pool, which               *)
(* ThresholdMempool has.                                                   *)
(***************************************************************************)
EXTENDS ThresholdMempool

CONSTANTS
    Signer,        \* the address of the provider's key
    NoExtension,   \* the empty bytes of a vote that carries no extension
    NoTx           \* the nil transaction of a provider that failed

\* A bid is a record of a name, the address that owns it and an amount.
ASSUME BidFields ==
    \A b \in Bid : DOMAIN b = {"name", "owner", "amount"} /\ b.amount \in Nat

-----------------------------------------------------------------------------
(* Vote extensions (AppVoteExtension) and the special transaction *)

VoteExtension(height, bids) == [height |-> height, bids |-> bids]
Extension                   == [height : Nat, bids : Seq(Bid)]

\* The variable ve of processVoteExtensions after the loop has looked at the
\* first i votes.  It is declared outside the loop, and a vote whose extension
\* does not decode leaves it as it is.
Decoded(votes, i) ==
    LET decodable == {j \in 1..i : votes[j] # NoExtension}
    IN  IF decodable = {} THEN VoteExtension(0, <<>>) ELSE votes[Max(decodable)]

ProcessVoteExtensions(votes) ==
    [height |-> Decoded(votes, Len(votes)).height,
     bids   |-> FlattenSeq([i \in DOMAIN votes |-> Decoded(votes, i).bids])]

-----------------------------------------------------------------------------
(* LocalTxProvider *)

\* What RetreiveSigner and BuildAndSignTx find: the key and its account, no
\* key of that name (or no signature by it), or a key without an account.
ProviderStates == {"signs", "noKey", "noAccount"}

\* getMatchingBid: the same name for twice the amount.  It is nil when the
\* signer cannot be retrieved or the transaction not be built and signed.
MatchingBid(bid) == [name |-> bid.name, owner |-> Signer, amount |-> 2 * bid.amount]
MatchingTx(bid, provider) ==
    IF provider = "signs" THEN [sender |-> Signer, msgs |-> <<MatchingBid(bid)>>] ELSE NoTx

\* It calls a method of the account that GetAccount did not find.
BuildPanics(txs, provider) ==
    provider = "noAccount" /\ \E i \in DOMAIN txs : BidSet(txs[i]) # {}

\* BuildProposal: a matching bid in front of every bid.  The transaction is
\* appended once for each of its messages.
BuildProposal(txs, provider) ==
    LET ForMsg(tx, m) == IF IsBid(m) THEN <<MatchingTx(m, provider), tx>> ELSE <<tx>>
        ForTx(tx)     == FlattenSeq([j \in DOMAIN tx.msgs |-> ForMsg(tx, tx.msgs[j])])
    IN  FlattenSeq([i \in DOMAIN txs |-> ForTx(txs[i])])

-----------------------------------------------------------------------------
(* Proposals: what the byte strings of a block are *)

SpecialTx(st) == [kind |-> "special", bids |-> st.bids]
UserTx(tx)    == [kind |-> "tx", tx |-> tx]
NoBytes       == [kind |-> "empty"]   \* a transaction that was not encoded

\* Mutant: empty bytes do not.
Decodes_(entry) == entry.kind = "tx"

\* A byte string of the block decodes to a transaction.  Empty bytes do, to
\* one without messages.
Decodes(entry)   == entry.kind # "special"
EntryBids(entry) == IF entry.kind = "tx" THEN BidSet(entry.tx) ELSE {}

Encode(tx) == IF tx = NoTx THEN NoBytes ELSE UserTx(tx)

\* Mutant (see ThresholdMempool): the special transaction goes last.
SpecialLast_(height, votes, txs) ==
    [i \in DOMAIN txs |-> Encode(txs[i])]
    \o (IF height > 2 THEN <<SpecialTx(ProcessVoteExtensions(votes))>> ELSE <<>>)

\* The answer of PrepareProposal at a height, for the transactions that its
\* walk of the ready pool collected.
Proposal(height, votes, txs) ==
    (IF height > 2 THEN <<SpecialTx(ProcessVoteExtensions(votes))>> ELSE <<>>)
    \o [i \in DOMAIN txs |-> Encode(txs[i])]

\* A panic of PrepareProposal is recovered by baseapp, which answers with the
\* transactions of the engine's own mempool.
EngineProposal(raw) == [i \in DOMAIN raw |-> UserTx(raw[i])]

-----------------------------------------------------------------------------
(* ProcessProposal *)

Freq(bids, b) == Cardinality({i \in DOMAIN bids : bids[i] = b})

\* Mutants: off by one, and half of the bids rounded up.
ThresholdOffByOne_(n) == (n - 1) \div 2
ThresholdRoundedUp_(n) == (n + 1) \div 2

\* int(float64(n) * 0.5), of the number of bids and not of votes.
ThresholdCount(n) == n \div 2

\* Mutant: asks for more than the threshold.
ValidateBidsStrictly_(veBids, entries) ==
    \A i \in DOMAIN entries :
        /\ Decodes(entries[i])
        /\ \A b \in EntryBids(entries[i]) :
              Freq(veBids, b) > ThresholdCount(Len(veBids))

ValidateBids(veBids, entries) ==
    \A i \in DOMAIN entries :
        /\ Decodes(entries[i])
        /\ \A b \in EntryBids(entries[i]) :
              Freq(veBids, b) >= ThresholdCount(Len(veBids))

\* The bids of the special transaction; none if the first bytes are not one.
SpecialBids(proposal) ==
    IF proposal # <<>> /\ Head(proposal).kind = "special" THEN Head(proposal).bids ELSE <<>>

\* TRUE for ACCEPT.  Without bids in the special transaction nothing is validated.
ProcessProposal(proposal) ==
    SpecialBids(proposal) # <<>> => ValidateBids(SpecialBids(proposal), Tail(proposal))
=============================================================================
