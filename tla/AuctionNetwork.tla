---------------------------- MODULE AuctionNetwork ----------------------------
(***************************************************************************)
(* N validators that run the application under the consensus engine, from  *)
(* the arrival of a transaction to the block that contains it.             *)
(*                                                                         *)
(* A validator's ExtendVote and PrepareProposal are single steps: the ABCI *)
(* calls of a node exclude one another, and ValidatorMempool implements    *)
(* AtomicValidator (for transactions of which no two are Equal).           *)
(*                                                                         *)
(* The consensus engine is external and reduced to what the application    *)
(* sees of it: who proposes, which calls are made and in which order, when *)
(* a round fails and which vote extensions the next proposer is given.     *)
(* Finalization is one step of all validators: a node calls nothing else   *)
(* of the application between its last vote for a height and FinalizeBlock *)
(* but CheckTx, which may just as well have come before.                   *)
(***************************************************************************)
EXTENDS AbciHandlers

CONSTANTS
    N,            \* the number of validators, of equal power
    Beacon,       \* the validator started with --run-provider true; 0: none
    Providers,    \* in what state its provider finds the key and the account
    MaxEntries,   \* how many byte strings fit into a block
    MaxFailures,  \* bound on the rounds that fail for lack of time
    MaxCrashes    \* bound on the crashes that are not panics of ExtendVote

ASSUME NetworkAssumption ==
    /\ N \in Nat \ {0} /\ Beacon \in 0..N
    /\ Providers \subseteq ProviderStates /\ Providers # {} /\ MaxEntries \in Nat \ {0}
    /\ MaxFailures \in Nat /\ MaxCrashes \in Nat

\* The provider's transactions go straight into a proposal.  Nobody sends
\* them to a mempool.
ASSUME ProviderAssumption == \A b \in Bid : MatchingTx(b, "signs") \notin Tx

Validators == 1..N
Quorum     == {Q \in SUBSET Validators : 3 * Cardinality(Q) > 2 * N}

\* configure.sh: vote extensions are enabled from this height on.
VoteExtensionsEnableHeight == 2

\* Nothing depends on the height above this one, so it is counted no further.
LastHeight == 3

VARIABLES
    mp,         \* each validator's ThresholdMempool
    raw,        \* each engine's own mempool: the transactions not yet in a block
    known,      \* each engine's cache: the transactions CheckTx is not called for again
    up,         \* the validators that run
    height, turn, round,  \* turn: who proposes in round 0 of this height
    stage,      \* "propose", or "vote": there is a proposal
    proposal,   \* the byte strings of the proposed block
    author,     \* the validator whose PrepareProposal built it and that has not
                \* stopped since; 0: there is none, or baseapp built it
    voted,      \* the validators that have voted for it in this round
    extension,  \* their vote extensions
    lastVotes,  \* the votes for the last block, with their extensions
    failures, crashes,
    decided     \* history: the transactions decided in blocks of each author

engine == <<height, turn, round, stage, proposal, author, voted>>
nodes  == <<mp, raw, known, up>>
vars   == <<nodes, engine, extension, lastVotes, failures, crashes, decided>>

NoVotes == [v \in Validators |-> NoExtension]

Init ==
    /\ mp = [v \in Validators |-> NewThresholdMempool]
    /\ raw = [v \in Validators |-> <<>>]
    /\ known = [v \in Validators |-> {}]
    /\ up = Validators
    /\ height = 1 /\ turn = 1 /\ round = 0
    /\ stage = "propose" /\ proposal = <<>> /\ author = 0 /\ voted = {}
    /\ extension = NoVotes /\ lastVotes = NoVotes
    /\ failures = 0 /\ crashes = 0
    /\ decided = [v \in Validators |-> {}]

-----------------------------------------------------------------------------
(* What happens to one validator *)

CheckTx(v, tx) ==
    /\ v \in up /\ tx \notin known[v] /\ Signed(tx)
    /\ mp' = [mp EXCEPT ![v] = Insert(@, tx)]
    /\ raw' = [raw EXCEPT ![v] = Append(@, tx)]
    /\ known' = [known EXCEPT ![v] = @ \cup {tx}]
    /\ UNCHANGED <<up, engine, extension, lastVotes, failures, crashes, decided>>

\* Both mempools and the cache are in memory only.
Stop(v) ==
    /\ up' = up \ {v}
    /\ mp' = [mp EXCEPT ![v] = NewThresholdMempool]
    /\ raw' = [raw EXCEPT ![v] = <<>>]
    /\ known' = [known EXCEPT ![v] = {}]
    /\ author' = IF author = v THEN 0 ELSE author
    /\ decided' = [decided EXCEPT ![v] = {}]

Crash(v) ==
    /\ v \in up /\ crashes < MaxCrashes
    /\ Stop(v)
    /\ crashes' = crashes + 1
    /\ UNCHANGED <<height, turn, round, stage, proposal, voted, extension, lastVotes, failures>>

Restart(v) ==
    /\ v \in Validators \ up
    /\ up' = up \cup {v}
    /\ UNCHANGED <<mp, raw, known, engine, extension, lastVotes, failures, crashes, decided>>

-----------------------------------------------------------------------------
(* A round *)

Proposer == ((turn + round - 1) % N) + 1
Accepted == ProcessProposal(proposal)

\* PrepareProposal of the next proposer.  When it panics, in Tx() or in the
\* provider, baseapp proposes what the engine has reaped of its own mempool, no
\* more than fits.  The handler minds no limit: an answer that does not fit
\* makes the engine panic, and the node has to be started again.
Propose ==
    \E provider \in Providers :
      LET p      == Proposer
          txs    == PrepareTxs(mp[p])
          panics == PreparePanics(mp[p]) \/ (p = Beacon /\ BuildPanics(txs, provider))
          block  == IF panics THEN EngineProposal(SubSeq(raw[p], 1, Min({Len(raw[p]), MaxEntries})))
                    ELSE Proposal(height, lastVotes,
                                  IF p = Beacon THEN BuildProposal(txs, provider) ELSE txs)
      IN  /\ stage = "propose" /\ p \in up
          /\ IF Len(block) > MaxEntries
             THEN Stop(p) /\ UNCHANGED <<stage, proposal>>
             ELSE /\ stage' = "vote" /\ proposal' = block
                  /\ author' = IF panics THEN 0 ELSE p
                  /\ mp' = [mp EXCEPT ![p] = AfterPrepare(@)]
                  /\ UNCHANGED <<raw, known, up, decided>>
          /\ UNCHANGED <<height, turn, round, voted, extension, lastVotes, failures, crashes>>

\* A validator that accepts the proposal votes for it, and from some height
\* on extends its vote.  When that panics the engine stops the node.
ExtendVote(v) ==
    /\ stage = "vote" /\ v \in up \ voted /\ Accepted
    /\ IF height < VoteExtensionsEnableHeight
       THEN voted' = voted \cup {v} /\ UNCHANGED <<nodes, author, extension, decided>>
       ELSE IF ExtendPanics(mp[v])
       THEN Stop(v) /\ UNCHANGED <<voted, extension>>
       ELSE /\ voted' = voted \cup {v}
            /\ extension' = [extension EXCEPT ![v] = VoteExtension(height, ExtendBids(mp[v]))]
            /\ mp' = [mp EXCEPT ![v] = AfterExtend(@)]
            /\ UNCHANGED <<raw, known, up, author, decided>>
    /\ UNCHANGED <<height, turn, round, stage, proposal, lastVotes, failures, crashes>>

UserTxs(block) == {block[i].tx : i \in {j \in DOMAIN block : block[j].kind = "tx"}}

\* FinalizeBlock: Remove for every transaction that decodes.
FinalizeBlock(m, block) ==
    LET after[i \in 0..Len(block)] ==
            IF i = 0 THEN m
            ELSE IF block[i].kind = "tx" THEN RemoveTx(after[i - 1], block[i].tx) ELSE after[i - 1]
    IN  after[Len(block)]

\* What a block leaves in an engine's own mempool.
Undecided(list, block) ==
    FlattenSeq([i \in DOMAIN list |-> IF list[i] \in UserTxs(block) THEN <<>> ELSE <<list[i]>>])

NewRound == stage' = "propose" /\ proposal' = <<>> /\ author' = 0 /\ voted' = {}

Decide ==
    /\ stage = "vote" /\ voted \in Quorum
    /\ mp' = [v \in Validators |-> FinalizeBlock(mp[v], proposal)]
    /\ raw' = [v \in Validators |-> Undecided(raw[v], proposal)]
    /\ known' = [v \in Validators |->
                    IF v \in up THEN known[v] \cup (UserTxs(proposal) \cap Tx) ELSE {}]
    /\ decided' = [v \in Validators |->
                    IF v = author THEN decided[v] \cup (UserTxs(proposal) \cap Tx) ELSE decided[v]]
    /\ lastVotes' = [v \in Validators |-> IF v \in voted THEN extension[v] ELSE NoExtension]
    /\ extension' = NoVotes
    /\ height' = IF height = LastHeight THEN height ELSE height + 1
    /\ turn' = (turn % N) + 1 /\ round' = 0
    /\ NewRound
    /\ UNCHANGED <<up, failures, crashes>>

-----------------------------------------------------------------------------
(* Rounds that decide nothing.  Only round % N matters. *)

\* The proposal is rejected, or the proposer is down and proposes nothing.
NoBlock ==
    /\ up \in Quorum
    /\ (stage = "vote" /\ ~Accepted) \/ (stage = "propose" /\ Proposer \notin up)
    /\ NewRound
    /\ round' = (round + 1) % N
    /\ UNCHANGED <<nodes, height, turn, extension, lastVotes, failures, crashes, decided>>

\* The votes come too late.  Once there is a precommit the block is locked:
\* it is proposed again, without PrepareProposal, and everybody votes again,
\* extending the vote again.
RoundFails ==
    /\ up \in Quorum /\ failures < MaxFailures
    /\ stage = "vote" /\ Accepted
    /\ IF voted = {} THEN NewRound
                     ELSE voted' = {} /\ UNCHANGED <<stage, proposal, author>>
    /\ round' = (round + 1) % N
    /\ extension' = NoVotes
    /\ failures' = failures + 1
    /\ UNCHANGED <<nodes, height, turn, lastVotes, crashes, decided>>

Next ==
    \/ \E v \in Validators :
          \/ \E tx \in Tx : CheckTx(v, tx)
          \/ Crash(v) \/ Restart(v) \/ ExtendVote(v)
    \/ Propose \/ Decide \/ NoBlock \/ RoundFails

Spec == Init /\ [][Next]_vars

\* Timeouts expire and messages arrive, so the engine goes on as long as it
\* can, and an operator restarts what stopped.  Users need not send anything,
\* no round has to fail, and no validator has to be among those that vote.
EngineStep == Propose \/ Decide \/ NoBlock \/ \E v \in Validators : ExtendVote(v)

Fairness == WF_vars(EngineStep) /\ WF_vars(\E v \in Validators : Restart(v))

FairSpec == Spec /\ Fairness

-----------------------------------------------------------------------------
(* Properties *)

\* Cursors included, every validator's state stays within its type, through
\* failed rounds, crashes and blocks that others built.
TypeOK ==
    /\ mp \in [Validators -> Mempools]
    /\ raw \in [Validators -> Seq(Tx)]
    /\ known \in [Validators -> SUBSET Tx]
    /\ up \subseteq Validators /\ voted \subseteq Validators
    /\ height \in 1..LastHeight /\ turn \in Validators /\ round \in 0..N-1
    /\ stage \in {"propose", "vote"} /\ author \in 0..N
    /\ \A v \in Validators :
          {extension[v], lastVotes[v]} \ {NoExtension} \subseteq [height : 1..LastHeight, bids : Seq(Bid)]
    /\ failures \in 0..MaxFailures /\ crashes \in 0..MaxCrashes
    /\ decided \in [Validators -> SUBSET Tx]

ProposedBids == UNION {EntryBids(proposal[i]) : i \in DOMAIN proposal}

\* The bids in the vote extensions from H-1.
ReportedBids ==
    UNION {ToSet(lastVotes[v].bids) : v \in {u \in Validators : lastVotes[u] # NoExtension}}

(***************************************************************************)
(* What ProcessProposal is there for: with at least two bids in the        *)
(* special transaction, the validators vote only for proposals whose bids  *)
(* were all reported at H-1.  So the Beacon's own bid, which no validator  *)
(* ever has in its mempool, never gets a vote.                             *)
(***************************************************************************)
FrontRunGetsNoVote ==
    voted # {} /\ Len(SpecialBids(proposal)) >= 2 => ProposedBids \subseteq ReportedBids

(***************************************************************************)
(* Remove takes a decided transaction out of the ready pools only, so a    *)
(* validator that has it in its pending pool still can propose it, and it  *)
(* is executed again.  But each validator does that at most once: what     *)
(* was in a block that it built it does not propose again, unless it has   *)
(* been restarted.  The transactions of a block are taken to succeed: one  *)
(* that fails is dropped from the engine's cache and can be sent again.    *)
(***************************************************************************)
ProposedOnceByEach ==
    author # 0 => UserTxs(proposal) \cap decided[author] = {}

(***************************************************************************)
(* With at most two transactions of one bid each, every round in time and  *)
(* no crash there is always another block: PrepareProposal may panic, a    *)
(* proposal may be rejected, and one that is too big stops its proposer,   *)
(* but all that only delays it.  This is what is assumed, and not more is  *)
(* true: it takes three pending transactions to make ExtendVote panic, and *)
(* that, a transaction with two bids or a failed round can stop the chain  *)
(* for good.                                                               *)
(***************************************************************************)
FewBids == Cardinality(Tx) <= 2 /\ \A tx \in Tx : Len(BidsOf(tx)) <= 1

Progress == FewBids /\ MaxFailures = 0 /\ MaxCrashes = 0 => []<><<Decide>>_vars

(***************************************************************************)
(* A transaction that a validator has ready gets into a block in the end,  *)
(* unless other transactions are waiting too or the validator stops:       *)
(* neither the cursors nor the threshold can keep a transaction out of the *)
(* chain that has no competitor.                                           *)
(***************************************************************************)
LoneReady ==
    \E tx \in Tx :
        /\ \A v \in Validators : ToSet(raw[v]) \subseteq {tx}
        /\ \E v \in Validators : raw[v] # <<>> /\ tx \in ToSet(mp[v].pool.txs)

LoneDelivered == []<>~LoneReady

(***************************************************************************)
(* README.md:17: ThresholdMempool "guarantees that transactions can only   *)
(* be included in a proposal if they have been seen by `ExtendVote` at     *)
(* H-1".                                                                   *)
(***************************************************************************)
SeenAtHMinus1 ==
    author # 0 /\ author # Beacon => ProposedBids \subseteq ReportedBids

(***************************************************************************)
(* README.md:19: the proposer processes "all bids included in Vote         *)
(* Extensions from H-1" and injects the result: a bid is in the special    *)
(* transaction as often as in the vote extensions.                         *)
(***************************************************************************)
SpecialTxCounts ==
    author # 0 =>
        LET reported == FlattenSeq([v \in Validators |->
                            IF lastVotes[v] = NoExtension THEN <<>> ELSE lastVotes[v].bids])
        IN  \A b \in Bid : Freq(SpecialBids(proposal), b) = Freq(reported, b)

(***************************************************************************)
(* README.md:21: "If a bid included in the proposal does not meet the      *)
(* minimum threshold of inclusion frequency in Vote Extensions from H-1,   *)
(* the proposal is rejected".  Whatever the threshold, a bid that no vote  *)
(* extension includes does not meet it.                                    *)
(***************************************************************************)
UnreportedRejected ==
    voted # {} => ProposedBids \subseteq ReportedBids

(***************************************************************************)
(* abci/proposal.go:96: "The first transaction will always be the Special  *)
(* Transaction" (from the height on at which there is one).                *)
(***************************************************************************)
FirstIsSpecial ==
    voted # {} /\ height > 2 /\ proposal # <<>> => proposal[1].kind = "special"

(***************************************************************************)
(* README.md:201: a rejected block "should not happen", "the proposer may  *)
(* be misbehaving".  Without a Beacon no proposer misbehaves, and if a     *)
(* proposal is rejected all the same, that is not so again and again.      *)
(***************************************************************************)
HonestRejectionsCease ==
    Beacon = 0 => <>[](stage = "vote" => Accepted)
=============================================================================
