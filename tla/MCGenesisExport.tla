--------------------------- MODULE MCGenesisExport ---------------------------
(***************************************************************************)
(* Two validators, two delegations to the first and one to the second, all *)
(* or some of them from a genesis file that the command wrote.             *)
(***************************************************************************)
EXTENDS GenesisExport

CONSTANTS v1, v2, alice, bob, entry1, entry2

MCDelegation ==
    {[delegator |-> alice, validator |-> v1], [delegator |-> bob, validator |-> v1],
     [delegator |-> alice, validator |-> v2]}

MCArguments ==
    [options : {"incomplete", "emptyKey", "complete"}, height : {-1, 1, LatestHeight + 1}, forZeroHeight : BOOLEAN,
     allowed : {{}, {v1}, {v1, v2}, {v2, BadAddress}}, modulesExist : BOOLEAN]

\* The stake of a delegation is what it was, and one has less or more.
MCStakings ==
    [stake  : {[del \in MCDelegation |-> IF del = [delegator |-> alice, validator |-> v1] THEN s ELSE 2] : s \in 1..3},
     jailed : {[v \in Validator |-> v \in S] : S \in {{}, {v2}}},
     unbondingHeight : {[v \in Validator |-> 1]},
     creationHeight  : {[e \in Entry |-> 1]}]

\* A validator with a delegation that is known of is in its third period.  A
\* slash refers to the second.  starting: the periods, -1 for NoInfo.
State(outstanding, commission, starting, slashes) ==
    LET Known(v) == \E del \in Delegation : del.validator = v /\ starting[del] # -1
        d == [outstanding |-> outstanding, commission |-> commission,
              community |-> 1, accounts |-> 0,
              period   |-> [v \in Validator |-> IF Known(v) THEN 3 ELSE 0],
              starting |-> [del \in Delegation |->
                              IF starting[del] = -1 THEN NoInfo
                              ELSE [period |-> starting[del], height |-> 1, stake |-> 2]],
              slashes  |-> [v \in Validator |-> IF Known(v) THEN slashes[v] ELSE {}],
              refs     |-> [v \in Validator |-> [p \in Periods |-> 0]]]
    IN  [d EXCEPT !.refs = [v \in Validator |-> [p \in Periods |-> References(d, v, p)]]]

MCDistributions ==
    {State([v \in Validator |-> IF v = v1 THEN 5 ELSE 3], [v \in Validator |-> IF v = v1 THEN c ELSE 1],
           starting, [v \in Validator |-> IF v = v1 THEN slashes ELSE {}]) :
        c \in {0, 3},
        starting \in {s \in [MCDelegation -> {-1, 0, 2}] :
                        \A d, e \in MCDelegation :
                            d.validator = e.validator /\ s[d] = s[e] => d = e \/ s[d] = -1},
        slashes \in {{}, {1}}}

\* The network of the scripts: all validators and delegations were made by
\* transactions, the ones of its genesis file too.
MCOwnDistributions ==
    {d \in MCDistributions : \A v \in Validator : Unknown(d, v)}
=============================================================================
