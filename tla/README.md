# Verification of the ABCI++ workshop application

TLA+ models of `fatal-fruit/abci-workshop`: a Cosmos SDK application whose
validators report the auction bids in their mempools in vote extensions, and
reject proposals with bids that were not reported often enough. The models are
checked with TLC on small instances, and every safety property among those that
hold is proved with TLAPS for every value of the constants: any transactions,
any number of validators, any stores to export.

Paths are relative to `src/`.

## 1. Inventory

| Component | State it keeps | Operations | Interacts with |
|---|---|---|---|
| App-side mempool, `mempool/mempool.go` | `pendingPool`, `pool`: two lists of transactions, each with the cursor of its only iterator | `Insert`, `Update` (pending to ready), `Remove` (from ready), `Select`, `SelectPending`, `Next`, `Tx`, `CountTx` | baseapp calls `Insert` in CheckTx and `Remove` in FinalizeBlock; the handlers below walk it |
| Vote extension handler, `abci/vote_ext.go` | none | walks the pending pool, collects the bids, moves every transaction it visits to the ready pool | mempool; consensus engine |
| Proposal handlers, `abci/proposal.go`, `abci/types.go` | none | `PrepareProposal`: special transaction with the bids of the votes of H-1, then the ready pool; `ProcessProposal`: frequency check of the proposed bids | mempool, provider, consensus engine |
| Transaction provider, `provider/provider.go` | keyring | puts a matching bid of twice the amount in front of every bid (the Beacon's front running) | proposal handler |
| Application wiring, `app/app.go` | the SDK's stores and keepers | `NewApp` builds one mempool and hands it to baseapp and the handlers; no ante handler is set | everything |
| State export, `app/export.go` | the SDK's stores | `ExportAppStateAndValidators`, `prepForZeroHeightGenesis` | keepers |
| Commands, `cmd/`, and scripts, `scripts/` | none | start nodes; a network of three validators, one of them the Beacon, vote extensions from height 2 | |
| Consensus engine (CometBFT) and baseapp, external | height, round, lock, votes, its own mempool and cache | order of the ABCI calls, quorums, recovery from panics | all handlers |

**Where it is hard.** The program is small, but almost every behaviour of it is
an interaction of things written far apart:

- *shared cursors*: `Select` and `SelectPending` return a pointer to the pool
  itself, so the cursor survives the loop that moved it, and `Update` and
  `Remove` shorten the list under it (`mempool.go:64,72,95,129`);
- *failure in the middle*: `Tx()` panics when the cursor is past the end. In
  ExtendVote that stops the node after transactions have been moved; in
  PrepareProposal baseapp recovers and proposes something else;
- *several validators*: transactions arrive in different orders; what is ready
  at a proposer and what was reported at H-1 are related by nothing but time;
- *numbers*: the threshold is half the number of reported *bids*, rounded down
  (`proposal.go:193,204`);
- *failed rounds, crashes*: vote extensions of a failed round are lost, the
  transactions they reported stay ready; the mempool is not persisted;
- *what is not there*: the provider may lack its key or its account
  (`provider.go:83,106`), and `x/distribution` lacks every delegation that a
  transaction made, and what transactions did to the stake of the others,
  because the staking keeper has no hooks (`app.go:285`).

What makes each component correct:

- mempool: no transaction is lost, duplicated or reordered; only reported bids
  are ready; a walk that returns is complete (it is not, see section 3);
- proposal handlers: the special transaction is the bids of H-1; nothing below
  the threshold is accepted, nothing above it rejected;
- the network: a front-running bid gets no vote, a decided transaction is not
  decided over and over, there is always another block (which takes
  assumptions, see `Progress` in section 3), and a transaction that has no
  competitor gets into one;
- export: no coin is lost, no record is missing that something refers to,
  nothing of the old chain's heights remains.

`PROJECT.json` lists each hazard at its line with the properties that cover it.

## 2. Modules

| Module | Models |
|---|---|
| `ThresholdMempool` | the mempool as operators on its value: both pools, cursors, and every method. No variables |
| `ValidatorMempool` | one validator: the mempool and the handlers that use it, *one loop iteration per step*; panics and restarts |
| `AtomicValidator` | abstract specification of the same: each handler is one step with its whole effect |
| `AbciHandlers` | the proposal handlers and the provider as functions of their inputs. No variables |
| `ProposalRound` | one proposal from votes and ready pool to the verdict, for *any* votes and ready pool |
| `AuctionNetwork` | N validators, rounds, heights, failed rounds, crashes: mempools of `ThresholdMempool`, handlers of `AbciHandlers` |
| `GenesisExport` | the export command, one keeper call per step |
| `MC...` | the instances for TLC |

The proofs are in modules of their own:

| Module | Proves |
|---|---|
| `FoldLemmas` | what the recursive operators of the community modules compute: `FlattenSeq`, `SumFunction`, the greatest element of a set |
| `MempoolLemmas` | what the operators of `ThresholdMempool` return |
| `HandlerLemmas` | what the operators of `AbciHandlers` return |
| `ValidatorMempoolProofs` | the theorems about `ValidatorMempool` |
| `AtomicValidatorProofs` | that `ValidatorMempool` implements `AtomicValidator` |
| `ProposalRoundProofs`, `AuctionNetworkProofs`, `GenesisExportProofs` | the theorems about these |

`ValidatorMempool` implements `AtomicValidator` (property `AtomicSpec`), and
`AuctionNetwork` uses the latter's single steps, so the two levels are tied
together by a refinement, which is proved, and not by trust. The refinement
holds until two `Equal` transactions have arrived at the validator
(`NoTwinsArrived`). So what `AuctionNetwork` says, in its runs and in its
theorems, is about the code as long as no two of the transactions sent are
`Equal`; the instances have no `Equal` ones.

**State and actions against the code.** `mp` is the `ThresholdMempool` struct,
`mp.pendingPool` and `mp.pool` its two `thTxs` (`idx`, `txs`). In
`ValidatorMempool`, `pc`, `itr`, `bids`, `txs` are the running handler and its
local variables; `ExtendStep` is the body of the loop at `vote_ext.go:32-61`,
`PrepareStep` of the one at `proposal.go:62-67`; `ExtendPanic` and
`PreparePanic` are the panic of `Tx()`. In `AuctionNetwork`, `raw` and `known`
are the engine's own mempool and cache, `proposal` is the block as a sequence
of tagged entries (special transaction, transaction, empty bytes), `lastVotes`
is `LocalLastCommit`, `voted` and `extension` are the precommits of the round.
In `GenesisExport`, `pc` names the statement or the loop of
`prepForZeroHeightGenesis` that is next, `todo` what its loop has left, `distr`
and `staking` are the stores; the operators at its head are the SDK's keepers.

**Abstractions.**

- A transaction is a record of its first signer and its messages; a bid is a
  message in the set `Bid`. Priority, fees, gas, memo and the text of messages
  are left out; `Equal` compares what `msg.String()` would tell apart.
- Marshalling a bid or an extension does not fail. Encoding a transaction fails
  exactly for the nil transaction of a provider that could not sign.
- JSON decoding fails exactly for the empty extension of a vote that has none.
- A transaction in a block is taken to succeed, so that the engine keeps it in
  its cache and does not pass it to CheckTx a second time.
- Heights: nothing depends on the height but the comparisons with 2, so
  `AuctionNetwork` counts to 3 and goes on there; rounds matter modulo N.
- FinalizeBlock is one step of all validators (the comment at the head of
  `AuctionNetwork` says why that loses nothing).
- A precommit locks the block: after a round that failed with precommits the
  same block is proposed again and every vote is extended again.
- The provider signs, has no key (or cannot sign with it), or has a key without
  an account (`ProviderStates`). In the last case PrepareProposal panics as soon
  as there is a bid to answer, and baseapp proposes what the engine has.
- The size of a block is the number of its byte strings, at most `MaxEntries`.
  Baseapp's own proposal is cut to that. PrepareProposal's is not, and one that
  is too big makes the engine of the proposer panic.
- In the export, validators have tokens, and iterators and JSON encoding do not
  fail; elements of a loop come in any order. `Arguments` says whether the
  options of the command are set (and the name of the key not empty) and whether
  the modules asked for exist. A delegation is known to `x/distribution`, with
  the period it started in, if it came with the genesis file, and unknown
  (`NoInfo`) if a transaction made it. For a known one the stake is recorded
  that it had when it started, and a transaction may have changed the stake since;
  none has removed it altogether. What a delegation has earned is any amount up to
  what is outstanding, nothing in the height in which it started; the calculation
  panics when the recorded stake exceeds the present one (`StakeExceeded`).

**Mutants.** A definition whose name ends in an underscore (`Advance_`,
`UpdateCopies_`, ...) is a plausible mistake in the definition below it. It is
used nowhere; put in the place of that definition it makes a named property
fail, which shows that the property can fail.

## 3. Checks

Every `MC*_*.cfg` is one run; `PROJECT.json` lists what each shows.

### Runs that pass

| cfg | Shows | Bounds |
|---|---|---|
| `MCValidatorMempool_pass` | `TypeOK`, `PendingCursorValid`, `Accounted`, `ReadyReported`, `ProposalIsSuffix`, `ReadyFifo`, `SkippedStays`, `PassedStays`; `AtomicSpec`: the loops implement the single steps | between two restarts the transactions of one of two sets arrive (`Together`): five of which no two are Equal (one bid, none, several, one bid twice), or five with groups of two that are; an unsigned one; 409,118 states |
| `MCProposalRound_pass` | `TypeOK`, `NoUnreportedBid`, `CommonBidsAccepted`, `FailingProviderHarmless` | four validators, at most one absent, five extensions (one has a bid twice), three bids, ready lists of up to two, every state of the provider; 769,500 states |
| `MCAuctionNetwork_network` | `TypeOK`, `FrontRunGetsNoVote`, `Progress`, `LoneDelivered` | three validators, Beacon that signs, two bids, four byte strings to a block, no failed round and no crash, no bound on heights; 498,329 states |
| `MCAuctionNetwork_crashes` | `ProposedOnceByEach`, `FrontRunGetsNoVote` | two validators, Beacon whose provider may find its key and account or not, two bids, four byte strings to a block, one failed round, one crash; 897,178 states |
| `MCGenesisExport` | `TypeOK`, `CoinsKept`, `RecordsReferenced`, `ZeroHeight`, `PanicsExplained` | two validators, three delegations, each of them known or not, one of them with less, the same or more stake than it started with, a slash, amounts of up to five half coins, 144 sets of arguments; 467,856 states |

Why the bounds are enough: a walk of ExtendVote behaves differently for one,
an even and an odd number of transactions ahead of the cursor, and a second
walk starts where the first left the cursor; five transactions give every such
pair, and the ready pool can hold two when a block empties it. In the network,
two bids are the fewest with which the threshold is not zero, and three
validators are the network of the scripts, in which every validator must vote.
Four byte strings to a block are one less than the Beacon's largest proposal
(the special transaction and two bids, each behind the matching one), so that a
proposal can be too big. One failed round and one crash (`_crashes`) make the lost vote extension and the
forgotten mempool happen at every point once. There is no bound on heights or
rounds. In the export, two delegations to one validator are the fewest that
must not start in the same period, and half coins make every rounding happen.

`ProposalRound` considers any votes and ready pool, also such as no network
produces together; its properties are about the pure handlers. What the network
can really reach is the business of `AuctionNetwork`.

**Deadlock** is checked in every run but those of `ProposalRound`, which stops
after one verdict, and of `GenesisExport`, which stops after one export.

**Fairness.** `Progress`, `LoneDelivered` and `HonestRejectionsCease` need some.
`FairSpec` of `AuctionNetwork` assumes weak fairness of two things: that the
engine does *something* while it can (proposing, voting, deciding or going to
the next round, `EngineStep`), for its timeouts force it to
(`configure.sh:72-73` sets those for the proposal and the commit); and that an
operator restarts a node that stopped. No particular validator needs to be among
those that vote, and users need not send anything. Failed rounds are bounded
instead of being assumed unfair.

**What `Progress` assumes** is in its formula: at most two transactions, of one
bid each (`FewBids`), no failed round (`MaxFailures = 0`) and no crash. In
`MCAuctionNetwork_network` PrepareProposal does panic and baseapp proposes in its
place, proposals are rejected, and the Beacon's can be too big and stop it; none
of that stops the chain. ExtendVote never panics there, because that
takes three pending transactions. Without the assumptions the chain can stop for
good:

- three transactions of one bid each, two validators, no failed round: ExtendVote
  panics, the node is restarted, the transactions are sent to it again and
  ExtendVote panics again, and so on. With a Beacon the proposals of both
  validators can also be rejected in every round; without one (383,601 states)
  the panics are the only cause;
- a transaction with two bids, or one bid each and one failed round: every
  proposer is rejected in every round (`MCAuctionNetwork_rejections`, below).

`LoneDelivered` says that the situation "some validator has this transaction
ready, and no engine has another" never lasts: the transaction gets into a block
or competes with another one. With a competitor there is no such promise: that
one can come behind the first transaction in a proposal that is then rejected;
the cursor is then on the competitor, and no later proposal of this validator has
the first one (`PassedStays`, which speaks of what is strictly behind the cursor:
the last transaction of a proposal is under it and is proposed again).

### Runs that find a disagreement between the code and its documents

| cfg | Statement | What happens |
|---|---|---|
| `MCValidatorMempool_listed` | README.md:16, all bids available are listed | ExtendVote skips every second pending transaction: `Update` shortens the list, then `Next` moves the cursor over the next element (`mempool.go:153`). Those that end up strictly behind the cursor are never reported (`SkippedStays`); one that is left under it is what the next ExtendVote reads first (with two pending transactions the second one is reported by the next call) |
| `MCAuctionNetwork_counts` | README.md:19, the special transaction is the bids of the vote extensions | four validators, one of which is not among those that voted for the last block: the loop variable `ve` (`proposal.go:151`) keeps the previous vote's bids when a vote has no extension; they are counted again |
| `MCAuctionNetwork_seen` | README.md:17, only transactions seen at H-1 | the ready pool holds what was reported at any earlier height |
| `MCAuctionNetwork_unreported` | README.md:21, a bid below the threshold is rejected | with no or one reported bid the threshold is zero: the Beacon's bid gets votes |
| `MCAuctionNetwork_special` | proposal.go:96, the first transaction is always the special one | the ready pool's cursor stays behind the end; `Tx()` panics, baseapp proposes the engine's transactions, and they are accepted unchecked |
| `MCAuctionNetwork_rejections` | README.md:201, a rejection means that the proposer misbehaves | three honest validators, one transaction with two bids: every proposer in every round is rejected, and the chain stops at that height |
| `MCGenesisExport_own` | export.go:48 and 81, the export prepares for height zero and withdraws the rewards of all delegators | `NewApp` sets no staking hooks (`app.go:285`), so that `x/distribution` knows no delegation made by a transaction: `WithdrawDelegationRewards` fails for it and `export.go:96` panics |

`MCAuctionNetwork_rejections` deserves a word. Its cause is `proposal.go:193`: the threshold grows
with the number of reported *bids*, so with three bids reported by everybody each
of them is already below it (`CommonBidsAccepted` therefore allows two per
validator). `MCAuctionNetwork_network` shows that with one
bid per transaction and no failed round two bids cannot stop the chain. With
two bids in a transaction (this run), or with one bid each and one failed round
(`Beacon = 0` and `MaxFailures = 1` in the configuration of `_network`), they can: all three
validators have a bid ready that fewer than half of the reports of H-1 name, and
neither the ready pools nor the votes of H-1 change before a block is decided.

## 4. Proofs

Every theorem is about all values of the constants that satisfy the assumptions
below. The property named is one that a run checks on a small instance.

| Module | Theorem | Statement |
|---|---|---|
| `ValidatorMempoolProofs` | `Typing` | `Spec => []TypeOK` |
| | `CursorValid` | `Spec => []PendingCursorValid` |
| | `OnlyReportedIsReady` | `Spec => []ReadyReported` |
| | `FifoOrder` | `Spec => []ReadyFifo` |
| | `ProposalSuffix` | `Spec => []ProposalIsSuffix` |
| | `SkippedForever` | `Spec => SkippedStays` |
| | `PassedForever` | `Spec => PassedStays` |
| | `NothingLost` | `Spec => []Accounted` |
| `AtomicValidatorProofs` | `LoopsAreSteps` | `Spec => AtomicSpec` |
| `ProposalRoundProofs` | `RoundTyping` | `Spec => []TypeOK` |
| | `OnlyReportedAccepted` | `Spec => []NoUnreportedBid` |
| | `CommonAccepted` | `Spec => []CommonBidsAccepted` |
| | `ProviderHarmless` | `Spec => []FailingProviderHarmless` |
| `AuctionNetworkProofs` | `NetworkTyping` | `Spec => []TypeOK` |
| | `NoVoteForFrontRun` | `Spec => []FrontRunGetsNoVote` |
| | `NotProposedAgain` | `Spec => []ProposedOnceByEach` |
| `GenesisExportProofs` | `Typing` | `Spec => []TypeOK` |
| | `RecordsCounted` | `Spec => []RecordsReferenced` |
| | `NoCoinLost` | `Spec => []CoinsKept` |
| | `OnlyUnknownPanics` | `Spec => []PanicsExplained` |
| | `NothingLater` | `Spec => []ZeroHeight` |

**Assumptions.** TLC evaluates each of them in the runs.

- `TxAssumption`, `BidAssumption`, `BidFields`, `RoundAssumption`,
  `NetworkAssumption`, `HeightAssumption`, `FinitelyMany`, `DelegationFields`,
  `ArgumentFields`, `StakingAssumption` say what kind of value the constants are.
  In particular the number of validators `N` and the limit `MaxEntries` are any
  positive numbers, `MaxFailures` and `MaxCrashes` any numbers: what is proved
  holds with any number of failed rounds and crashes. Nothing is assumed of
  `Together`, and nothing of transactions being different.
- `ProviderAssumption` (network): what the provider signs is not among the
  transactions that users send. The code puts it into a proposal
  (`provider.go:174-178`) and gives it to no mempool.
- `DistributionAssumption` (export): the state that `x/distribution` is in when
  the export begins is one that its keepers leave behind: commissions are part
  of what is outstanding, and references are counted. `MaxPeriod` is a bound of
  the model, on the periods that have records; the assumption leaves room for
  one more period for each delegation. `MaxPeriod` is any number, so the
  theorems hold for every state of finitely many periods.

**The mempool.** The lemmas say what `RemoveAt`, `Without`, `Update`, `Advance`
do to lists and cursors. Then:

- `PendingCursorValid` is inductive together with `TypeOK`: `Advance` leaves a
  cursor on the list or at 0 unless it runs past the end, and in that case the
  iterator is not nil.
- `ReadyFifo` is not inductive: it says nothing of the pending pool, and
  ExtendVote appends to the ready pool a transaction that is not the first
  pending one. `OrderInv` adds that the whole pending pool is in the order of
  arrival, and that every ready transaction arrived before all of those *ahead
  of the pending cursor*. Those behind the cursor never move again.
- `ProposalIsSuffix` needs `PrepareInv`: while a walk goes on, what was
  collected ends right before the cursor, and when the iterator is nil the
  cursor is on the last transaction.
- `SkippedStays`: only `ExtendStep` changes the part of the pending pool that
  exists already, and it removes the first `Equal` entry. If that were one behind
  the cursor, it would have arrived before the one under the cursor (`OrderInv`),
  and two `Equal` transactions would have arrived (`FoundUnderCursor`).
- `PassedStays` needs the types only: what `Remove` takes out shortens the list
  towards its start, so nothing that the cursor has passed comes in front of it.
- `Accounted` counts positions. `Append` adds one to the set of positions
  (`CopiesAppend`), and `RemoveAt` leaves a set that `Shifted` maps one-to-one
  onto the old one without the position removed (`CopiesRemoveAt`). Because
  `Equal` is transitive, the count goes down for exactly the transactions that
  are `Equal` to the one looked for, which is not always the one found.

**The refinement.** The mapping sends a walk that is going on to its end:
`AtomicMp` is `AfterExtend(mp)`, `AtomicBids` is `bids \o ExtendBids(mp)`, and so
on. Calling a handler is the step of `AtomicValidator`, and returning is the
other one. An iteration must be a stutter, that is, the rest of a walk from the
mempool after it must end where the walk from the mempool before it ends
(`ExtendIteration`, `PrepareIteration`): of n transactions ahead of the cursor
`n \div 2` are left and the others walked, and after one iteration n has become
n - 2. That `Update` removes the transaction under the cursor needs `OrderInv`
and that no two `Equal` ones have arrived. A panic is a stutter too: `AfterExtend`
and `ExtendPanics` knew of it when the handler was called. `HandlersInv` says
what a handler leaves in the variables of the other one. In the mapping `Fails`
is tested before `Extending` and `Preparing` (IF, not CASE: both hold in a walk
that is going to panic).

**The round.** `RoundInv` says that the proposal is what PrepareProposal
answers, or baseapp for it, and that the verdict is the verdict on it.
`HandlerLemmas` reduces the handlers to sets: the bids in the special
transaction are bids of some vote (`DecodedVote`), an accepted proposal has only
bids that are in its special transaction if that lists two or more
(`AcceptedListed`: the threshold is at least one then), and when no vote is
absent and none has more than two bids, a bid in all of n votes is listed at
least n times of at most 2n, the threshold being half of what is listed
(`CommonBidFrequent`).

**The network.** `NetTypes` is `TypeOK` with the votes as functions and the byte
strings of a block. `FrontRunGetsNoVote` needs `RoundInv`: the bids of the special
transaction are from the votes of the last height, and these change only when the
proposal does; who has voted has accepted it. `ProposedOnceByEach` needs
`OnceInv`: what is in a validator's pools and what was decided in blocks that it
built is in its engine's cache, so CheckTx does not see it again (`Fresh`); none
of what was decided is ahead of the cursor of its ready pool; and of what its
current proposal has only *one* can be (`Built`), because PrepareProposal leaves
the cursor on the last transaction and not behind it. Deciding the block removes
that one, by `Remove` once for each transaction of the block, one after the other
(`Finalized`). A crash empties pools and cache together.

**The export.** `Ledger` says what the records count in the middle of a loop: in
the loop over the validators, those that are left have no record and the others
one, for period 0; in the loop over the delegations, the records count exactly
the delegations that are done (`Matches(distr, Delegation \ todo)`). Withdrawing
and starting a delegation move one reference each, and the record of a new
period has two: its own and the delegation's. `PanicInv` adds which delegations
are still as they were when the export began: a withdrawal records the present
stake, so what can panic later has not been withdrawn yet, and is as it was.
`ZeroInv` adds what is at zero already, and which delegations start with the stake
that they have.
`CoinsKept` is inductive with these: each call moves an amount between two
summands, and `SumChange` says what that does to the sum over the validators.

**Induction over data.** The library's induction theorems take an operator as a
parameter, and the installed provers cannot instantiate them. `FoldLemmas` does
without: a set of numbers that contains 0 and the successor of each of its
elements is `Nat` (`NatSetInduction`), which follows from every non-empty set of
numbers having a least element. With it the functions behind `FlattenSeq` and
the sums are shown to exist and to satisfy their recursive equations.

**Only model-checked.** `Progress` and `LoneDelivered`: liveness under fairness is
beyond the prover. That the seven statements of the documents fail is shown by
the runs' counterexamples.

## 5. Not modelled

- Export: that `ExportGenesisForModules`' error is lost is in `Export`, but no
  property speaks of it; the power index and the set of last validators, which
  the export leaves as they are when it jails a validator; a delegation that came
  with the genesis file and that a transaction removed altogether (its start is
  then stale, for want of hooks; one whose stake a transaction changed is
  modelled).
- Keepers, stores, module manager and genesis (`app/app.go`), the other commands (`cmd/`):
  they configure the SDK and have no protocol of their own. The start command is
  the constant "this node runs": it declares `--val-key` with the default `""`
  (`commands.go:86`), so the name `val` that `newApp` falls back on
  (`commands.go:158-161`) is never used by it, and without the flag the node
  panics at once (`SignerRefused`). `app/modules.go` is commented out.
- Opening the keyring and signing (`provider.go:57-134`) but for success or
  failure.
- Bytes: the size of a block is counted in transactions. Gas is not limited by
  the handlers either, and nothing depends on it.
- Gossip, signatures, evidence and state sync of the engine; a validator other
  than the Beacon that deviates from the program.

## 6. Plan

Written, in this order: `ThresholdMempool`, `ValidatorMempool` with its proofs,
`AbciHandlers` and `ProposalRound`, `AtomicValidator`, `AuctionNetwork`,
`GenesisExport`. Then: the provider's failures, the limit on blocks, the absent
validator in the network itself, the conditions under which a ready transaction
is decided, the export of a chain's own delegations. Then the proofs, of the
mempool's properties first, and then of the handlers', the network's, the
export's and of the refinement.

To do:

1. The safety half of `LoneDelivered`: which states of the mempools and cursors a
   lone transaction can go through until it is decided, as an invariant that is
   checked and proved.
2. When every validator voted: that the special transaction has each bid as often
   as the votes have it, which `SpecialTxCounts` says of all votes and is false.
