---------------------------- MODULE GenesisExport ----------------------------
(***************************************************************************)
(* The export command: appExport of cmd/cosmappd/cmd/commands.go and       *)
(* app/export.go, which turns the state of a stopped chain into the        *)
(* genesis of a new one.  With forZeroHeight it first rewrites the stores  *)
(* of x/distribution and x/staking so that nothing in them refers to a     *)
(* height of the old chain.  Every call of a keeper is one step; the       *)
(* keepers are the SDK's and are modelled by what they do to that state.   *)
(*                                                                         *)
(* x/distribution keeps, for each validator, a list of periods.  A         *)
(* delegation remembers the period it started in, and the record of a      *)
(* period (its historical rewards) lives as long as something refers to    *)
(* it: refs counts the references, 0 for a record that does not exist.     *)
(* Delegations get there from the genesis file, with what this command     *)
(* wrote, and from transactions.  NewApp registers no staking hooks, so    *)
(* x/distribution learns nothing of the latter, and not of what becomes of *)
(* the former: a transaction can change a delegation's stake, and the      *)
(* stake that was recorded when it started is then another one.            *)
(*                                                                         *)
(* Amounts are in fractions of a coin, Unit of them to a coin: accounts    *)
(* are paid in whole coins.  A recorded stake is what it comes to after    *)
(* the slashes that are recorded since.                                    *)
(***************************************************************************)
EXTENDS Integers, SequencesExt

CONSTANTS
    Validator,
    Delegation,      \* records with the field validator
    Entry,           \* entries of redelegations and unbonding delegations
    LatestHeight,    \* the last height that was committed
    MaxPeriod,       \* bound: periods up to this one have a place for a record
    Arguments,       \* what the command is called with
    Stakings,        \* the states of x/staking considered
    Distributions,   \* the states of x/distribution considered
    BadAddress       \* an address on the allowed list that does not parse

Unit == 2

ASSUME HeightAssumption == LatestHeight \in Nat \ {0} /\ MaxPeriod \in Nat
ASSUME FinitelyMany     == IsFiniteSet(Validator) /\ IsFiniteSet(Delegation)
ASSUME DelegationFields == \A del \in Delegation : del.validator \in Validator
ASSUME ArgumentFields   == \A a \in Arguments : a.height \in Nat \cup {-1}

VARIABLES
    args,        \* the arguments of the command; args.options: what is set
    before,      \* the stores when it was called
    pc, todo,    \* the statement that is next, and what its loop has left
    ctxHeight,   \* the block height of the variable ctx
    staking, distr,
    result

vars == <<args, before, pc, todo, ctxHeight, staking, distr, result>>

-----------------------------------------------------------------------------
(* Keepers *)

Whole(amount) == amount - (amount % Unit)

LastPeriod(d, v) == d.period[v] - 1

\* What is known of a delegation, or of a validator, that was made by a
\* transaction: nothing, neither a period to start in nor a record of one.
NoInfo == [period |-> -1, height |-> -1, stake |-> 0]
Unknown(d, v) == d.period[v] = 0

\* IncrementValidatorPeriod panics when there is no record of the last period.
HasRecord(d, v) == ~Unknown(d, v) /\ d.refs[v][LastPeriod(d, v)] > 0

IncrementValidatorPeriod(d, v) ==
    [d EXCEPT !.refs[v][LastPeriod(d, v)] = @ - 1,
              !.refs[v][d.period[v]]      = 1,
              !.period[v] = @ + 1]

\* initializeDelegation: the delegation starts in the last period, with the
\* stake that x/staking has for it.
StartDelegation(d, del, height, stake) ==
    LET v == del.validator
    IN  [d EXCEPT !.refs[v][LastPeriod(d, v)] = @ + 1,
                  !.starting[del] = [period |-> LastPeriod(d, v), height |-> height,
                                     stake |-> stake]]

\* CalculateDelegationRewards: nothing in the height in which the delegation
\* started, and then at most what is outstanding.  It panics when the recorded
\* stake exceeds the present one; a smaller one it takes as it is.
Earned(d, del, height) ==
    IF d.starting[del].height = height THEN {0} ELSE 0..d.outstanding[del.validator]

StakeExceeded(d, del, height, stake) ==
    d.starting[del].height # height /\ d.starting[del].stake > stake

\* WithdrawValidatorCommission: the fraction stays.  Without a whole coin
\* it changes nothing.
WithdrawCommission(d, v) ==
    LET paid == Whole(d.commission[v])
    IN  [d EXCEPT !.commission[v] = @ - paid, !.outstanding[v] = @ - paid, !.accounts = @ + paid]

\* WithdrawDelegationRewards of the given amount: the fraction goes to the
\* community pool, and the delegation starts afresh in a new period.
WithdrawRewards(d, del, rewards, height, stake) ==
    LET v     == del.validator
        ended == IncrementValidatorPeriod(d, v)
        paid  == [ended EXCEPT !.outstanding[v] = @ - rewards,
                               !.accounts  = @ + Whole(rewards),
                               !.community = @ + rewards - Whole(rewards),
                               !.refs[v][d.starting[del].period] = @ - 1]
    IN  StartDelegation(paid, del, height, stake)

\* AfterValidatorCreated: the first period, nothing outstanding.
InitializeValidator(d, v) ==
    [d EXCEPT !.commission[v] = 0, !.outstanding[v] = 0, !.period[v] = 1, !.refs[v][0] = 1]

-----------------------------------------------------------------------------
(* appExport and ExportAppStateAndValidators *)

NoResult == [err |-> FALSE, appState |-> "none", height |-> -1]
Failed   == [NoResult EXCEPT !.err = TRUE]

LoadedHeight == IF args.height = -1 THEN LatestHeight ELSE args.height

Init ==
    /\ args \in Arguments
    /\ staking \in Stakings /\ distr \in Distributions
    /\ before = [staking |-> staking, distr |-> distr]
    /\ pc = "call" /\ todo = {} /\ ctxHeight = 0 /\ result = NoResult

\* The validator's key or the home directory is not set, or there is no such
\* height.  The key is a flag of the start command only.
Refuse ==
    /\ pc = "call"
    /\ args.options = "incomplete" \/ (args.options = "complete" /\ LoadedHeight > LatestHeight)
    /\ pc' = "returned" /\ result' = Failed
    /\ UNCHANGED <<args, before, todo, ctxHeight, staking, distr>>

Load ==
    /\ pc = "call"
    /\ args.options = "complete" /\ LoadedHeight <= LatestHeight
    /\ ctxHeight' = LoadedHeight
    /\ pc' = IF args.forZeroHeight THEN "prepare" ELSE "export"
    /\ UNCHANGED <<args, before, todo, staking, distr, result>>

\* The error of ExportGenesisForModules is overwritten before it is read:
\* without the module that was asked for, the state is the JSON of nil.  The
\* error of WriteValidators is returned, with a result.
Export ==
    /\ pc = "export"
    /\ \E err \in BOOLEAN :
         result' = [err      |-> err,
                    appState |-> IF args.modulesExist THEN "genesis" ELSE "null",
                    height   |-> IF args.forZeroHeight THEN 0 ELSE LoadedHeight + 1]
    /\ pc' = "returned"
    /\ UNCHANGED <<args, before, todo, ctxHeight, staking, distr>>

-----------------------------------------------------------------------------
(* prepForZeroHeightGenesis *)

\* The loop that is running, and what it does with its next element.
Loop(name, x) == pc = name /\ x \in todo /\ todo' = todo \ {x}

\* Which loop follows which.  The statements between two loops are those of
\* ClearHistory and the height that is put back.
Following == [commissions |-> "rewards",     rewards |-> "clear",
              validators  |-> "delegations", delegations |-> "entries",
              entries     |-> "jail",        jail |-> "export"]

Elements(name) ==
    CASE name \in {"commissions", "validators", "jail"} -> Validator
      [] name \in {"rewards", "delegations"}            -> Delegation
      [] name = "entries"                               -> Entry
      [] OTHER                                          -> {}

Goto(name) == pc' = name /\ todo' = Elements(name)

CheckAllowed ==
    /\ pc = "prepare" /\ BadAddress \notin args.allowed
    /\ Goto("commissions")
    /\ UNCHANGED <<args, before, ctxHeight, staking, distr, result>>

EndLoop ==
    /\ pc \in DOMAIN Following /\ todo = {}
    /\ Goto(Following[pc])
    /\ ctxHeight' = IF pc = "delegations" THEN LoadedHeight ELSE ctxHeight
    /\ UNCHANGED <<args, before, staking, distr, result>>

WithdrawCommissionOf(v) ==
    /\ Loop("commissions", v)
    /\ distr' = WithdrawCommission(distr, v)
    /\ UNCHANGED <<args, before, pc, ctxHeight, staking, result>>

WithdrawRewardsOf(del) ==
    /\ Loop("rewards", del)
    /\ distr.starting[del] # NoInfo /\ HasRecord(distr, del.validator)
    /\ ~StakeExceeded(distr, del, ctxHeight, staking.stake[del])
    /\ \E rewards \in Earned(distr, del, ctxHeight) :
         distr' = WithdrawRewards(distr, del, rewards, ctxHeight, staking.stake[del])
    /\ UNCHANGED <<args, before, pc, ctxHeight, staking, result>>

\* Mutant: the records stay.
ClearedSlashes_(d) == [d EXCEPT !.slashes = [v \in Validator |-> {}]]

\* DeleteAllValidatorSlashEvents and DeleteAllValidatorHistoricalRewards.
Cleared(d) == [d EXCEPT !.slashes = [v \in Validator |-> {}],
                        !.refs    = [v \in Validator |-> [p \in DOMAIN @[v] |-> 0]]]

\* Mutant: the height of the context is left as it is.
ClearAtSameHeight_ ==
    /\ pc = "clear" /\ distr' = Cleared(distr) /\ Goto("validators")
    /\ UNCHANGED <<args, before, ctxHeight, staking, result>>

ClearHistory ==
    /\ pc = "clear" /\ distr' = Cleared(distr) /\ ctxHeight' = 0 /\ Goto("validators")
    /\ UNCHANGED <<args, before, staking, result>>

\* Mutants: the validator is initialised before its scraps are read; the hook
\* is not called.
ReinitializeFirst_(d, v) ==
    LET new == InitializeValidator(d, v)
    IN  [new EXCEPT !.community = @ + new.outstanding[v]]
DonateOnly_(d, v) == [d EXCEPT !.community = @ + d.outstanding[v], !.outstanding[v] = 0]

\* The scraps go to the community pool.
Reinitialized(d, v) ==
    InitializeValidator([d EXCEPT !.community = @ + d.outstanding[v]], v)

ReinitializeValidator(v) ==
    /\ Loop("validators", v)
    /\ distr' = Reinitialized(distr, v)
    /\ UNCHANGED <<args, before, pc, ctxHeight, staking, result>>

\* Mutant: without BeforeDelegationCreated.
RestartInSamePeriod_(d, del, height, stake) == StartDelegation(d, del, height, stake)

\* BeforeDelegationCreated and AfterDelegationModified.
Restarted(d, del, height, stake) ==
    StartDelegation(IncrementValidatorPeriod(d, del.validator), del, height, stake)

ReinitializeDelegation(del) ==
    /\ Loop("delegations", del)
    /\ HasRecord(distr, del.validator)
    /\ distr' = Restarted(distr, del, ctxHeight, staking.stake[del])
    /\ UNCHANGED <<args, before, pc, ctxHeight, staking, result>>

ResetEntry(e) ==
    /\ Loop("entries", e)
    /\ staking' = [staking EXCEPT !.creationHeight[e] = 0]
    /\ UNCHANGED <<args, before, pc, ctxHeight, distr, result>>

\* An empty list of allowed validators allows all of them.
ResetValidator(v) ==
    /\ Loop("jail", v)
    /\ staking' = [staking EXCEPT
                     !.unbondingHeight[v] = 0,
                     !.jailed[v] = @ \/ (args.allowed # {} /\ v \notin args.allowed)]
    /\ UNCHANGED <<args, before, pc, ctxHeight, distr, result>>

\* Init of the provider's signer refuses an empty name of the key, and NewApp
\* panics over that.
SignerRefused == args.options = "emptyKey"

\* Besides, an address on the list is none; WithdrawDelegationRewards returns an
\* error for a delegation without a start, or it panics over the stake; or a
\* keeper misses a record.
Panics ==
    \/ pc = "call" /\ SignerRefused
    \/ pc = "prepare" /\ BadAddress \in args.allowed
    \/ pc = "rewards" /\ \E del \in todo : distr.starting[del] = NoInfo
    \/ pc = "rewards" /\ \E del \in todo : StakeExceeded(distr, del, ctxHeight, staking.stake[del])
    \/ pc \in {"rewards", "delegations"} /\ \E del \in todo : ~HasRecord(distr, del.validator)

Panic ==
    /\ Panics
    /\ pc' = "panicked"
    /\ UNCHANGED <<args, before, todo, ctxHeight, staking, distr, result>>

Next ==
    \/ Refuse \/ Load \/ Export \/ CheckAllowed \/ EndLoop \/ ClearHistory \/ Panic
    \/ \E v \in Validator :
          WithdrawCommissionOf(v) \/ ReinitializeValidator(v) \/ ResetValidator(v)
    \/ \E del \in Delegation : WithdrawRewardsOf(del) \/ ReinitializeDelegation(del)
    \/ \E e \in Entry : ResetEntry(e)

Spec == Init /\ [][Next]_vars

-----------------------------------------------------------------------------
(* Properties *)

Heights == 0..LatestHeight
Periods == 0..MaxPeriod

StakingStates ==
    [stake           : [Delegation -> Nat],
     jailed          : [Validator -> BOOLEAN],
     unbondingHeight : [Validator -> Heights],
     creationHeight  : [Entry -> Heights]]

\* incrementReferenceCount allows no more than two references.
DistrStates ==
    [outstanding : [Validator -> Nat], commission : [Validator -> Nat],
     community   : Nat,                accounts   : Nat,
     period      : [Validator -> Nat],
     starting    : [Delegation -> {NoInfo} \cup [period : Nat, height : Heights, stake : Nat]],
     slashes     : [Validator -> SUBSET Nat],
     refs        : [Validator -> [Periods -> 0..2]]]

\* The stores, the statement and the context are what they can be; no amount
\* and no count is negative, and no record has more references than a keeper
\* allows.
TypeOK ==
    /\ pc \in {"call", "prepare", "clear", "export", "returned", "panicked"}
              \cup DOMAIN Following
    /\ todo \subseteq Elements(pc) \/ pc = "panicked"
    /\ ctxHeight \in Heights
    /\ staking \in StakingStates /\ distr \in DistrStates

Funds(d) == d.community + d.accounts + SumFunction(d.outstanding)

(***************************************************************************)
(* No coin and no fraction of one is made or lost, in any of the calls:    *)
(* what the accounts were paid, the community pool and the outstanding     *)
(* rewards add up to the same.                                             *)
(***************************************************************************)
CoinsKept == Funds(distr) = Funds(before.distr)

\* Who refers to the record of a period.
References(d, v, p) ==
    Cardinality({del \in Delegation : del.validator = v /\ d.starting[del].period = p})
    + Cardinality(d.slashes[v] \cap {p})
    + (IF LastPeriod(d, v) = p THEN 1 ELSE 0)

RecordsMatch(d) ==
    \A v \in Validator : \A p \in Periods : d.refs[v][p] = References(d, v, p)

\* Delegations and slashes refer to periods that have ended.
EndedOnly(d) ==
    /\ \A del \in Delegation : d.starting[del].period <= LastPeriod(d, del.validator)
    /\ \A v \in Validator : d.slashes[v] \subseteq 0..LastPeriod(d, v)

\* The keepers keep this in every state they leave behind: the commission is
\* part of what is outstanding, and the last of these concerns MaxPeriod only.
ASSUME DistributionAssumption ==
    \A d \in Distributions :
        /\ d \in DistrStates /\ RecordsMatch(d) /\ EndedOnly(d)
        /\ \A v \in Validator :
              /\ d.commission[v] <= d.outstanding[v]
              /\ d.period[v] + Cardinality(Delegation) <= MaxPeriod

ASSUME StakingAssumption == Stakings \subseteq StakingStates

(***************************************************************************)
(* When the stores are exported, every record that a delegation refers to  *)
(* exists, with the right number of references, although all records were  *)
(* deleted on the way.  (The new chain would panic at the next withdrawal  *)
(* otherwise.)                                                             *)
(***************************************************************************)
RecordsReferenced == pc \in {"export", "returned"} => RecordsMatch(distr)

(***************************************************************************)
(* A genesis for height zero has nothing from a later height in it, every  *)
(* delegation starts with the stake that it has, and exactly those         *)
(* validators are jailed that were, or that the list does not allow.       *)
(***************************************************************************)
ZeroHeight ==
    pc = "returned" /\ result.height = 0 =>
        /\ \A del \in Delegation :
             distr.starting[del].height = 0 /\ distr.starting[del].stake = staking.stake[del]
        /\ \A e \in Entry : staking.creationHeight[e] = 0
        /\ \A v \in Validator :
             /\ staking.unbondingHeight[v] = 0 /\ distr.slashes[v] = {}
             /\ staking.jailed[v] <=>
                  before.staking.jailed[v] \/ (args.allowed # {} /\ v \notin args.allowed)

(***************************************************************************)
(* The order of the calls never leaves a keeper without a record that it   *)
(* had: past the checks of the arguments, which change nothing, the export *)
(* panics only over what a transaction did to a delegation without         *)
(* x/distribution learning of it, and it never returns having missed such  *)
(* a delegation.  It made the delegation, which has no start then; or it   *)
(* took stake away, which has then less than when it started.  (Stake that *)
(* was added goes unnoticed, and so does what the height of the export     *)
(* itself has changed after a withdrawal in it.)                           *)
(***************************************************************************)
KnownAsIs(del) ==
    /\ before.distr.starting[del] # NoInfo
    /\ ~StakeExceeded(before.distr, del, LoadedHeight, before.staking.stake[del])

AllKnownAsIs == \A del \in Delegation : KnownAsIs(del)

PanicsExplained ==
    /\ pc = "panicked" =>
         \/ ~AllKnownAsIs
         \/ /\ SignerRefused \/ BadAddress \in args.allowed
            /\ distr = before.distr /\ staking = before.staking
    /\ pc = "returned" /\ result.height = 0 => AllKnownAsIs

(***************************************************************************)
(* export.go:48, "prepare for fresh start at zero height", and             *)
(* export.go:81, "withdraw all delegator rewards": called as it should be, *)
(* the export of a stopped chain returns.                                  *)
(***************************************************************************)
FreshStartPrepared ==
    args.options = "complete" /\ BadAddress \notin args.allowed => pc # "panicked"
=============================================================================
