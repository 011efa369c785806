---------------------------- MODULE ProposalRound ----------------------------
(***************************************************************************)
(* One proposal, from the votes of the last height and the transactions of *)
(* the proposer's ready pool to the verdict of the other validators, for   *)
(* any votes and any ready pool.                                           *)
(***************************************************************************)
EXTENDS AbciHandlers

CONSTANTS
    Votes,      \* the lists of vote extensions considered, one per validator
    ReadyLists  \* the lists of ready transactions considered

ASSUME RoundAssumption ==
    Votes \subseteq Seq({NoExtension} \cup Extension) /\ ReadyLists \subseteq Seq(Tx)

Height == 3   \* any height from 3 on: there are vote extensions

VARIABLES votes, ready, provider, proposal, verdict

vars == <<votes, ready, provider, proposal, verdict>>

Init ==
    /\ votes \in Votes /\ ready \in ReadyLists
    /\ provider \in {"none"} \cup ProviderStates
    /\ proposal = <<>> /\ verdict = "none"

\* A provider that panics leaves the block to baseapp: any transactions that
\* the engine has.
PrepareProposal ==
    /\ verdict = "none" /\ verdict' = "due"
    /\ IF BuildPanics(ready, provider)
       THEN \E raw \in ReadyLists : proposal' = EngineProposal(raw)
       ELSE proposal' = Proposal(Height, votes,
                           IF provider = "none" THEN ready ELSE BuildProposal(ready, provider))
    /\ UNCHANGED <<votes, ready, provider>>

Verdict(block) == IF ProcessProposal(block) THEN "accept" ELSE "reject"

ProcessProposalStep ==
    /\ verdict = "due" /\ verdict' = Verdict(proposal)
    /\ UNCHANGED <<votes, ready, provider, proposal>>

Next == PrepareProposal \/ ProcessProposalStep

Spec == Init /\ [][Next]_vars

-----------------------------------------------------------------------------
(* Properties *)

\* Unless the provider panicked, the proposal is the special transaction and
\* then transactions, some of which may have failed to encode.
TypeOK ==
    /\ votes \in Votes /\ ready \in ReadyLists
    /\ provider \in {"none"} \cup ProviderStates
    /\ verdict \in {"none", "due", "accept", "reject"}
    /\ \A i \in DOMAIN proposal :
          proposal[i].kind \in (IF i = 1 /\ ~BuildPanics(ready, provider)
                               THEN {"special"} ELSE {"tx", "empty"})

ProposedBids == UNION {EntryBids(proposal[i]) : i \in DOMAIN proposal}
Given        == {i \in DOMAIN votes : votes[i] # NoExtension}
ListedBy(b)  == {i \in Given : b \in ToSet(votes[i].bids)}

(***************************************************************************)
(* No validator accepts a bid that nobody reported, the provider's own     *)
(* bids above all, provided that the special transaction has two bids or   *)
(* more.  (With one the threshold is zero.)                                *)
(***************************************************************************)
NoUnreportedBid ==
    verdict = "accept" /\ Len(SpecialBids(proposal)) >= 2 =>
        \A b \in ProposedBids : ListedBy(b) # {}

(***************************************************************************)
(* A proposal whose bids all validators reported is accepted, provided     *)
(* that they reported at most two bids each.                               *)
(***************************************************************************)
CommonBidsAccepted ==
    (/\ verdict \in {"accept", "reject"}
     /\ Given = DOMAIN votes
     /\ \A i \in Given : Len(votes[i].bids) <= 2
     /\ \A b \in ProposedBids : ListedBy(b) = DOMAIN votes)
    => verdict = "accept"

(***************************************************************************)
(* A provider that cannot sign does no harm: without its key, the empty    *)
(* bytes in the block change nothing about the verdict on the transactions *)
(* around them; without its account, PrepareProposal panics, but a block   *)
(* is rejected only if it would be rejected without a provider too.        *)
(***************************************************************************)
FailingProviderHarmless ==
    /\ provider = "noKey" /\ verdict = "accept"
         => ProcessProposal(Proposal(Height, votes, ready))
    /\ provider \in {"noKey", "noAccount"} /\ verdict = "reject"
         => ~ProcessProposal(Proposal(Height, votes, ready))
=============================================================================
