------------------------- MODULE GenesisExportProofs -------------------------
(***************************************************************************)
(* Proofs about GenesisExport, for any number of validators, delegations   *)
(* and entries and for every state of the stores that the keepers leave    *)
(* behind.                                                                 *)
(***************************************************************************)
EXTENDS GenesisExport, FoldLemmas

-----------------------------------------------------------------------------
(* The inductive invariants *)

\* The records match the references of the delegations in D only.
Starts(d, D, v, p) == {del \in D : del.validator = v /\ d.starting[del].period = p}

Matches(d, D) ==
    \A v \in Validator : \A p \in Periods :
        d.refs[v][p] = Cardinality(Starts(d, D, v, p))
                       + Cardinality(d.slashes[v] \cap {p})
                       + (IF LastPeriod(d, v) = p THEN 1 ELSE 0)

Ended(d, D) ==
    /\ \A del \in D : d.starting[del].period <= LastPeriod(d, del.validator)
    /\ \A v \in Validator : d.slashes[v] \subseteq 0..LastPeriod(d, v)

\* Where no loop over the records is half done.
Settled == {"call", "prepare", "commissions", "rewards", "clear",
            "entries", "jail", "export", "returned"}

\* How many periods the delegations that are left can still end.
RoomLeft(d, first) ==
    \A v \in Validator : d.period[v] + Cardinality(todo) <= first[v] + Cardinality(Delegation)

Ledger ==
    /\ TypeOK
    /\ args \in Arguments
    /\ before.distr \in Distributions
    /\ pc \notin {"call", "returned", "panicked"} => LoadedHeight \in Heights
    /\ pc \in {"call", "prepare"} => distr = before.distr
    /\ staking.stake = before.staking.stake
    /\ pc \in {"prepare", "commissions", "rewards"} => ctxHeight = LoadedHeight
    /\ pc \in Settled => Matches(distr, Delegation) /\ Ended(distr, Delegation)
    /\ pc = "commissions" =>
         /\ distr.period = before.distr.period
         /\ \A v \in todo : distr.commission[v] <= distr.outstanding[v]
    /\ pc = "rewards" => RoomLeft(distr, before.distr.period)
    /\ pc = "validators" =>
         \A v \in Validator :
            /\ distr.slashes[v] = {}
            /\ v \in todo => \A p \in Periods : distr.refs[v][p] = 0
            /\ v \notin todo => /\ distr.period[v] = 1
                               /\ \A p \in Periods : distr.refs[v][p] = IF p = 0 THEN 1 ELSE 0
    /\ pc = "delegations" =>
         /\ Matches(distr, Delegation \ todo) /\ Ended(distr, Delegation \ todo)
         /\ \A v \in Validator : distr.period[v] >= 1
         /\ RoomLeft(distr, [v \in Validator |-> 1])

\* The export is for height zero and past the loop over the rewards.
Cleaning == {"clear", "validators", "delegations", "entries", "jail"}
Zeroed   == pc = "export" /\ args.forZeroHeight

PanicInv ==
    /\ pc \in {"call", "prepare"} => staking = before.staking
    /\ pc = "commissions" => distr.starting = before.distr.starting
    /\ pc = "rewards" =>
         \A del \in Delegation :
            IF del \in todo THEN distr.starting[del] = before.distr.starting[del]
                            ELSE KnownAsIs(del)
    /\ pc \in Cleaning \/ Zeroed => AllKnownAsIs
    /\ PanicsExplained

JailedAsListed(v) ==
    staking.jailed[v] <=>
      before.staking.jailed[v] \/ (args.allowed # {} /\ v \notin args.allowed)

StartsAfresh(del) ==
    distr.starting[del].height = 0 /\ distr.starting[del].stake = staking.stake[del]

\* What is at zero already, and what is still to be changed.
ZeroInv ==
    /\ pc \in {"validators", "delegations"} => ctxHeight = 0
    /\ pc = "delegations" => \A del \in Delegation \ todo : StartsAfresh(del)
    /\ pc \in {"entries", "jail"} \/ Zeroed =>
         \A del \in Delegation : StartsAfresh(del)
    /\ pc \in Cleaning \ {"clear"} \/ Zeroed => \A v \in Validator : distr.slashes[v] = {}
    /\ pc \notin {"entries", "jail", "export", "returned", "panicked"} => staking = before.staking
    /\ pc = "entries" =>
         /\ staking.jailed = before.staking.jailed
         /\ \A e \in Entry \ todo : staking.creationHeight[e] = 0
    /\ pc = "jail" \/ Zeroed => \A e \in Entry : staking.creationHeight[e] = 0
    /\ pc = "jail" =>
         /\ \A v \in todo : staking.jailed[v] = before.staking.jailed[v]
         /\ \A v \in Validator \ todo : staking.unbondingHeight[v] = 0 /\ JailedAsListed(v)
    /\ Zeroed => \A v \in Validator : staking.unbondingHeight[v] = 0 /\ JailedAsListed(v)
    /\ ZeroHeight

-----------------------------------------------------------------------------
(* What the keepers' calls do to the records *)

LEMMA CountTypes ==
    ASSUME NEW D \in SUBSET Delegation, NEW d \in DistrStates, NEW v \in Validator, NEW p
    PROVE  /\ IsFiniteSet(Starts(d, D, v, p)) /\ Cardinality(Starts(d, D, v, p)) \in Nat
           /\ Cardinality(d.slashes[v] \cap {p}) \in Nat
<1>1. Starts(d, D, v, p) \subseteq Delegation
  BY DEF Starts
<1>2. IsFiniteSet(Starts(d, D, v, p))
  BY <1>1, FinitelyMany, FS_Subset
<1>3. IsFiniteSet({p}) /\ d.slashes[v] \cap {p} \in SUBSET {p}
  BY FS_Singleton
<1>4. IsFiniteSet(d.slashes[v] \cap {p})
  BY <1>3, FS_Subset
<1> QED BY <1>2, <1>4, FS_CardinalityType

\* The records do not depend on the amounts.
LEMMA SameRecords ==
    ASSUME NEW D \in SUBSET Delegation, NEW d \in DistrStates, NEW e \in DistrStates,
           e.refs = d.refs, e.starting = d.starting, e.slashes = d.slashes, e.period = d.period
    PROVE  /\ Matches(d, D) => Matches(e, D)
           /\ Ended(d, D) => Ended(e, D)
BY DEF Matches, Ended, Starts, LastPeriod

\* With the references matching, a validator that has had a period has the
\* record of its last one.
LEMMA LastReferenced ==
    ASSUME NEW D \in SUBSET Delegation, NEW d \in DistrStates, NEW v \in Validator,
           Matches(d, D), d.period[v] \in 1..MaxPeriod + 1
    PROVE  LastPeriod(d, v) \in Periods /\ d.refs[v][LastPeriod(d, v)] \in 1..2
<1>1. d.period[v] \in Nat /\ MaxPeriod \in Nat
  BY HeightAssumption DEF DistrStates
<1>2. LastPeriod(d, v) \in Periods
  BY <1>1 DEF LastPeriod, Periods
<1>3. d.refs[v][LastPeriod(d, v)] \in 0..2
  BY <1>2 DEF DistrStates
<1> DEFINE a == Cardinality(Starts(d, D, v, LastPeriod(d, v)))
           b == Cardinality(d.slashes[v] \cap {LastPeriod(d, v)})
<1>4. a \in Nat /\ b \in Nat
  BY CountTypes
<1>5. d.refs[v][LastPeriod(d, v)] = a + b + 1
  BY <1>2 DEF Matches
<1> HIDE DEF a, b
<1> QED BY <1>2, <1>3, <1>4, <1>5

SameAmounts(e, d) ==
    /\ e.outstanding = d.outstanding /\ e.commission = d.commission
    /\ e.community = d.community /\ e.accounts = d.accounts

PeriodEnded(e, d, v) == e.period = [d.period EXCEPT ![v] = @ + 1]

\* The last period ends and its record loses a reference, and the next one has
\* a record with none but the validator's own.
LEMMA IncrementKeeps ==
    ASSUME NEW D \in SUBSET Delegation, NEW d \in DistrStates, NEW v \in Validator,
           Matches(d, D), Ended(d, D), d.period[v] \in 1..MaxPeriod
    PROVE  LET e == IncrementValidatorPeriod(d, v)
           IN  /\ e \in DistrStates /\ Matches(e, D) /\ Ended(e, D)
               /\ SameAmounts(e, d) /\ e.starting = d.starting /\ e.slashes = d.slashes
               /\ e.period = [d.period EXCEPT ![v] = @ + 1]
               /\ LastPeriod(e, v) \in Periods /\ e.refs[v][LastPeriod(e, v)] = 1
<1> DEFINE e == IncrementValidatorPeriod(d, v)
<1> HIDE DEF e
<1> DEFINE n == d.period[v]
<1>0. n \in 1..MaxPeriod /\ MaxPeriod \in Nat /\ n \in Periods /\ n - 1 \in Periods /\ n # n - 1
  BY HeightAssumption DEF Periods
<1>a. LastPeriod(d, v) = n - 1
  BY DEF LastPeriod
<1>1. LastPeriod(d, v) = n - 1 /\ d.refs[v][n - 1] \in 1..2
  <2>1. d.period[v] \in 1..MaxPeriod + 1
    BY <1>0
  <2> HIDE DEF n
  <2> QED BY <2>1, <1>a, LastReferenced
<1> DEFINE g == [d.refs[v] EXCEPT ![n - 1] = @ - 1, ![n] = 1]
           newRefs == [d.refs EXCEPT ![v] = g]
<1>2. e = [d EXCEPT !.refs = newRefs, !.period = [d.period EXCEPT ![v] = @ + 1]]
  <2>1. IncrementValidatorPeriod(d, v)
            = [d EXCEPT !.refs[v][n - 1] = @ - 1, !.refs[v][n] = 1, !.period[v] = @ + 1]
    BY <1>a DEF IncrementValidatorPeriod
  <2>2. @ = [d EXCEPT !.refs[v] = g, !.period[v] = @ + 1]
    BY DEF DistrStates
  <2>3. @ = [d EXCEPT !.refs = newRefs, !.period[v] = @ + 1]
    BY DEF DistrStates
  <2>4. @ = [d EXCEPT !.refs = newRefs, !.period = [d.period EXCEPT ![v] = @ + 1]]
    BY DEF DistrStates
  <2> QED BY <2>1, <2>2, <2>3, <2>4 DEF e
<1>b. d.refs \in [Validator -> [Periods -> 0..2]] /\ d.refs[v] \in [Periods -> 0..2]
  BY DEF DistrStates
<1>c. ASSUME NEW p \in Periods
      PROVE  g[p] = IF p = n THEN 1 ELSE IF p = n - 1 THEN d.refs[v][p] - 1 ELSE d.refs[v][p]
  <2> HIDE DEF n
  <2> QED BY <1>0, <1>b
<1>d. g \in [Periods -> 0..2]
  <2>1. DOMAIN g = Periods /\ g = [p \in Periods |-> g[p]]
    BY <1>b
  <2>2. \A p \in Periods : g[p] \in 0..2
    <3> HIDE DEF n, g
    <3> QED BY <1>1, <1>b, <1>c
  <2> HIDE DEF n, g
  <2> QED BY <2>1, <2>2
<1> HIDE DEF g
<1>3. newRefs \in [Validator -> [Periods -> 0..2]]
  BY <1>b, <1>d
<1>4. /\ \A u \in Validator : u # v => newRefs[u] = d.refs[u]
      /\ \A p \in Periods : newRefs[v][p] = IF p = n THEN 1
                                      ELSE IF p = n - 1 THEN d.refs[v][p] - 1
                                      ELSE d.refs[v][p]
  BY <1>b, <1>c
<1> HIDE DEF newRefs
<1>5. /\ e \in DistrStates /\ e.refs = newRefs
      /\ e.period = [d.period EXCEPT ![v] = n + 1]
      /\ e.starting = d.starting /\ e.slashes = d.slashes /\ SameAmounts(e, d)
  <2> DEFINE np == [d.period EXCEPT ![v] = @ + 1]
  <2>1. np = [d.period EXCEPT ![v] = n + 1] /\ np \in [Validator -> Nat]
    BY DEF DistrStates
  <2>2. e = [d EXCEPT !.refs = newRefs, !.period = np]
    BY <1>2
  <2> HIDE DEF np, n
  <2> QED BY <1>3, <2>1, <2>2 DEF DistrStates, SameAmounts
<1>6. /\ e.period[v] = n + 1 /\ LastPeriod(e, v) = n
      /\ \A u \in Validator : u # v => LastPeriod(e, u) = LastPeriod(d, u)
  BY <1>0, <1>5 DEF DistrStates, LastPeriod
<1> HIDE DEF newRefs
<1>7. \A u, p : Starts(e, D, u, p) = Starts(d, D, u, p)
  BY <1>5 DEF Starts
<1>8. Matches(e, D)
  <2>1. ASSUME NEW u \in Validator, NEW p \in Periods, u # v
        PROVE  e.refs[u][p] = Cardinality(Starts(e, D, u, p))
                              + Cardinality(e.slashes[u] \cap {p})
                              + (IF LastPeriod(e, u) = p THEN 1 ELSE 0)
    BY <2>1, <1>4, <1>5, <1>6, <1>7 DEF Matches
  <2>2. ASSUME NEW p \in Periods
        PROVE  e.refs[v][p] = Cardinality(Starts(e, D, v, p))
                              + Cardinality(e.slashes[v] \cap {p})
                              + (IF LastPeriod(e, v) = p THEN 1 ELSE 0)
    <3> DEFINE a == Cardinality(Starts(d, D, v, p))
               b == Cardinality(d.slashes[v] \cap {p})
    <3>1. d.refs[v][p] = a + b + (IF n - 1 = p THEN 1 ELSE 0)
      BY <1>1 DEF Matches
    <3>2. a \in Nat /\ b \in Nat
      BY CountTypes
    <3>3. CASE p = n
      <4>1. Starts(d, D, v, p) = {}
        <5>1. ASSUME NEW del \in D, del.validator = v, d.starting[del].period = n PROVE FALSE
          <6>1. n <= n - 1
            BY <5>1, <1>1 DEF Ended
          <6> QED BY <6>1, <1>0
        <5> QED BY <5>1, <3>3 DEF Starts
      <4>2. d.slashes[v] \cap {p} = {}
        <5>1. d.slashes[v] \subseteq 0..n - 1
          BY <1>1 DEF Ended
        <5>2. n \notin 0..n - 1
          BY <1>0
        <5> QED BY <5>1, <5>2, <3>3
      <4>3. a = 0 /\ b = 0
        BY <4>1, <4>2, FS_EmptySet
      <4>4. e.refs[v][p] = 1
        BY <3>3, <1>4, <1>5
      <4> HIDE DEF a, b, n
      <4>5. e.refs[v][p] = a + b + (IF LastPeriod(e, v) = p THEN 1 ELSE 0)
        BY <3>3, <4>3, <4>4, <1>6
      <4> QED BY <4>5, <1>5, <1>7 DEF a, b
    <3>4. CASE p # n
      <4>1. e.refs[v][p] = a + b
        BY <3>1, <3>2, <3>4, <1>0, <1>4, <1>5
      <4> HIDE DEF a, b, n
      <4>2. e.refs[v][p] = a + b + (IF LastPeriod(e, v) = p THEN 1 ELSE 0)
        BY <3>2, <3>4, <4>1, <1>6
      <4> QED BY <4>2, <1>5, <1>7 DEF a, b
    <3> QED BY <3>3, <3>4
  <2> QED BY <2>1, <2>2, Zenon DEF Matches
<1>9. Ended(e, D)
  <2>1. ASSUME NEW u \in Validator
        PROVE  /\ LastPeriod(d, u) \in Int /\ LastPeriod(e, u) \in Int
               /\ LastPeriod(d, u) <= LastPeriod(e, u)
    BY <1>0, <1>1, <1>5, <1>6 DEF LastPeriod, DistrStates
  <2>2. ASSUME NEW del \in D
        PROVE  e.starting[del].period <= LastPeriod(e, del.validator)
    <3>1. del.validator \in Validator /\ d.starting[del].period \in Int
      BY DelegationFields DEF DistrStates, NoInfo
    <3>2. d.starting[del].period <= LastPeriod(d, del.validator)
      BY DEF Ended
    <3> QED BY <2>1, <3>1, <3>2, <1>5
  <2>3. ASSUME NEW u \in Validator
        PROVE  e.slashes[u] \subseteq 0..LastPeriod(e, u)
    <3>1. d.slashes[u] \subseteq 0..LastPeriod(d, u)
      BY DEF Ended
    <3>2. 0..LastPeriod(d, u) \subseteq 0..LastPeriod(e, u)
      BY <2>1
    <3> QED BY <3>1, <3>2, <1>5
  <2> QED BY <2>2, <2>3 DEF Ended
<1>10. e.refs[v][LastPeriod(e, v)] = 1
  BY <1>0, <1>4, <1>5, <1>6
<1> QED BY <1>0, <1>5, <1>6, <1>8, <1>9, <1>10 DEF e

\* Everything is in order for the delegations D, and del is not one of them.
InOrderWithout(d, D, del) ==
    /\ d \in DistrStates /\ D \in SUBSET Delegation /\ del \in Delegation /\ del \notin D
    /\ Matches(d, D) /\ Ended(d, D)

StartsAt(h, s) == h \in Heights /\ s \in Nat

\* What is true of e once del has started in the last period of d.
HasStarted(e, d, D, del, h, s) ==
    /\ e \in DistrStates /\ Matches(e, D \cup {del}) /\ Ended(e, D \cup {del})
    /\ SameAmounts(e, d) /\ e.period = d.period /\ e.slashes = d.slashes
    /\ e.starting = [d.starting EXCEPT ![del] = [period |-> LastPeriod(d, del.validator),
                                                 height |-> h, stake |-> s]]

\* One more delegation starts in the last period.
LEMMA StartKeeps ==
    ASSUME NEW d, NEW D, NEW del, NEW h, NEW s,
           InOrderWithout(d, D, del), StartsAt(h, s),
           LastPeriod(d, del.validator) \in Periods,
           d.refs[del.validator][LastPeriod(d, del.validator)] \in 0..1
    PROVE  HasStarted(StartDelegation(d, del, h, s), d, D, del, h, s)
<1> DEFINE e == StartDelegation(d, del, h, s)
<1>e. e = StartDelegation(d, del, h, s)
  OBVIOUS
<1> HIDE DEF e
<1>p. /\ d \in DistrStates /\ D \in SUBSET Delegation /\ del \in Delegation /\ del \notin D
      /\ Matches(d, D) /\ Ended(d, D) /\ h \in Heights /\ s \in Nat
  BY DEF InOrderWithout, StartsAt
<1> USE <1>p
<1> DEFINE v == del.validator
           q == LastPeriod(d, v)
           start == [period |-> q, height |-> h, stake |-> s]
           g == [d.refs[v] EXCEPT ![q] = @ + 1]
           newRefs == [d.refs EXCEPT ![v] = g]
           newStart == [d.starting EXCEPT ![del] = start]
<1>0. v \in Validator /\ q \in Periods /\ q \in Nat
  BY HeightAssumption, DelegationFields DEF Periods
<1>1. e = [d EXCEPT !.refs = newRefs, !.starting = newStart]
  <2>1. StartDelegation(d, del, h, s) = [d EXCEPT !.refs[v][q] = @ + 1, !.starting[del] = start]
    BY DEF StartDelegation
  <2>2. @ = [d EXCEPT !.refs = newRefs, !.starting[del] = start]
    BY DEF DistrStates
  <2>3. @ = [d EXCEPT !.refs = newRefs, !.starting = newStart]
    BY DEF DistrStates
  <2> QED BY <1>e, <2>1, <2>2, <2>3
<1>2. d.refs \in [Validator -> [Periods -> 0..2]] /\ d.refs[v] \in [Periods -> 0..2]
  BY <1>0 DEF DistrStates
<1>3. \A p \in Periods : g[p] = IF p = q THEN d.refs[v][p] + 1 ELSE d.refs[v][p]
  BY <1>2, <1>0
<1>4. g \in [Periods -> 0..2]
  <2>1. DOMAIN g = Periods /\ g = [p \in Periods |-> g[p]]
    BY <1>2
  <2>2. d.refs[v][q] \in 0..1
    OBVIOUS
  <2>3. \A p \in Periods : g[p] \in 0..2
    <3> HIDE DEF q, g, v
    <3> QED BY <1>2, <1>3, <2>2
  <2> HIDE DEF q, g
  <2> QED BY <2>1, <2>3
<1> HIDE DEF g
<1>5. /\ newRefs \in [Validator -> [Periods -> 0..2]]
      /\ \A u \in Validator : u # v => newRefs[u] = d.refs[u]
      /\ \A p \in Periods : newRefs[v][p] = IF p = q THEN d.refs[v][p] + 1 ELSE d.refs[v][p]
  BY <1>0, <1>2, <1>3, <1>4
<1> HIDE DEF newRefs
<1>6. /\ newStart \in [Delegation -> {NoInfo} \cup [period : Nat, height : Heights, stake : Nat]]
      /\ newStart[del] = start
      /\ \A x \in Delegation : x # del => newStart[x] = d.starting[x]
  <2>1. d.starting \in [Delegation -> {NoInfo} \cup [period : Nat, height : Heights, stake : Nat]]
    BY DEF DistrStates
  <2>2. start \in [period : Nat, height : Heights, stake : Nat]
    BY <1>0
  <2> HIDE DEF start
  <2> QED BY <2>1, <2>2
<1> HIDE DEF newStart
<1>7. /\ e \in DistrStates /\ e.refs = newRefs /\ e.starting = newStart
      /\ e.period = d.period /\ e.slashes = d.slashes /\ SameAmounts(e, d)
  BY <1>1, <1>5, <1>6 DEF DistrStates, SameAmounts
<1>8. \A u : LastPeriod(e, u) = LastPeriod(d, u)
  BY <1>7 DEF LastPeriod
<1>9. Matches(e, D \cup {del})
  <2> SUFFICES ASSUME NEW u \in Validator, NEW p \in Periods
               PROVE  e.refs[u][p] = Cardinality(Starts(e, D \cup {del}, u, p))
                                     + Cardinality(e.slashes[u] \cap {p})
                                     + (IF LastPeriod(e, u) = p THEN 1 ELSE 0)
    BY DEF Matches
  <2> DEFINE A == Starts(d, D, u, p)
             a == Cardinality(A)
             b == Cardinality(d.slashes[u] \cap {p})
             c == IF LastPeriod(d, u) = p THEN 1 ELSE 0
  <2>1. d.refs[u][p] = a + b + c
    BY DEF Matches
  <2>2. a \in Nat /\ b \in Nat /\ c \in Nat /\ IsFiniteSet(A)
    BY CountTypes
  <2>3. b = Cardinality(e.slashes[u] \cap {p}) /\ c = IF LastPeriod(e, u) = p THEN 1 ELSE 0
    BY <1>7, <1>8
  <2>4. CASE u = v /\ p = q
    <3>1. Starts(e, D \cup {del}, u, p) = A \cup {del} /\ del \notin A
      BY <2>4, <1>6, <1>7 DEF Starts
    <3>2. Cardinality(Starts(e, D \cup {del}, u, p)) = a + 1
      BY <3>1, <2>2, FS_AddElement
    <3>3. e.refs[u][p] = d.refs[u][p] + 1
      BY <2>4, <1>5, <1>7
    <3> HIDE DEF a, b, c, A, q, v
    <3> QED BY <2>1, <2>2, <2>3, <3>2, <3>3
  <2>5. CASE ~(u = v /\ p = q)
    <3>1. Starts(e, D \cup {del}, u, p) = A
      <4>1. ASSUME del.validator = u, newStart[del].period = p PROVE FALSE
        BY <4>1, <2>5, <1>6
      <4>2. \A x \in D : newStart[x] = d.starting[x]
        BY <1>6
      <4> QED BY <4>1, <4>2, <1>7 DEF Starts
    <3>2. e.refs[u][p] = d.refs[u][p]
      BY <2>5, <1>5, <1>7
    <3> HIDE DEF a, b, c, q, v
    <3> QED BY <2>1, <2>2, <2>3, <3>1, <3>2 DEF a
  <2> QED BY <2>4, <2>5
<1>10. Ended(e, D \cup {del})
  <2>1. ASSUME NEW x \in D \cup {del} PROVE e.starting[x].period <= LastPeriod(e, x.validator)
    <3>1. CASE x = del
      BY <3>1, <1>0, <1>6, <1>7, <1>8
    <3>2. CASE x # del
      BY <3>2, <1>6, <1>7, <1>8 DEF Ended
    <3> QED BY <3>1, <3>2
  <2> QED BY <2>1, <1>7, <1>8 DEF Ended
<1>11. e.starting = [d.starting EXCEPT ![del] = [period |-> LastPeriod(d, del.validator),
                                                 height |-> h, stake |-> s]]
  BY <1>7 DEF newStart
<1>12. HasStarted(e, d, D, del, h, s)
  BY <1>7, <1>9, <1>10, <1>11 DEF HasStarted
<1> QED BY <1>12, <1>e

Dropped(d, del) == [d EXCEPT !.refs[del.validator][d.starting[del].period] = @ - 1]

\* A delegation no longer counts: the record of the period it started in has
\* one reference less.
LEMMA DropKeeps ==
    ASSUME NEW D \in SUBSET Delegation, NEW d \in DistrStates, NEW del \in Delegation, del \in D,
           Matches(d, D), Ended(d, D),
           d.starting[del].period \in Periods
    PROVE  /\ Dropped(d, del) \in DistrStates
           /\ Matches(Dropped(d, del), D \ {del}) /\ Ended(Dropped(d, del), D \ {del})
           /\ SameAmounts(Dropped(d, del), d) /\ Dropped(d, del).starting = d.starting
           /\ Dropped(d, del).period = d.period /\ Dropped(d, del).slashes = d.slashes
           /\ \A p \in Periods : p # d.starting[del].period =>
                 Dropped(d, del).refs[del.validator][p] = d.refs[del.validator][p]
<1> DEFINE e == Dropped(d, del)
<1> DEFINE v == del.validator
           q == d.starting[del].period
           g == [d.refs[v] EXCEPT ![q] = @ - 1]
           newRefs == [d.refs EXCEPT ![v] = g]
<1>0. v \in Validator /\ q \in Periods
  BY DelegationFields
<1>1. e = [d EXCEPT !.refs = newRefs]
  BY DEF DistrStates, Dropped
<1> HIDE DEF e
<1>2. d.refs \in [Validator -> [Periods -> 0..2]] /\ d.refs[v] \in [Periods -> 0..2]
  BY <1>0 DEF DistrStates
<1>3. \A p \in Periods : g[p] = IF p = q THEN d.refs[v][p] - 1 ELSE d.refs[v][p]
  BY <1>2, <1>0
<1>a. /\ del \in Starts(d, D, v, q) /\ IsFiniteSet(Starts(d, D, v, q))
      /\ Cardinality(Starts(d, D, v, q)) \in Nat \ {0}
      /\ Cardinality(d.slashes[v] \cap {q}) \in Nat
  <2>1. del \in Starts(d, D, v, q)
    BY DEF Starts
  <2>2. /\ IsFiniteSet(Starts(d, D, v, q)) /\ Cardinality(Starts(d, D, v, q)) \in Nat
        /\ Cardinality(d.slashes[v] \cap {q}) \in Nat
    BY <1>0, CountTypes
  <2>3. Cardinality(Starts(d, D, v, q)) # 0
    BY <2>1, <2>2, FS_EmptySet
  <2> QED BY <2>1, <2>2, <2>3
<1>b. d.refs[v][q] \in 1..2
  <2> DEFINE a == Cardinality(Starts(d, D, v, q))
             b == Cardinality(d.slashes[v] \cap {q})
             c == IF LastPeriod(d, v) = q THEN 1 ELSE 0
  <2>1. d.refs[v][q] = a + b + c /\ d.refs[v][q] \in 0..2
    BY <1>0, <1>2 DEF Matches
  <2>2. a \in Nat \ {0} /\ b \in Nat /\ c \in Nat
    BY <1>a
  <2> HIDE DEF a, b, c
  <2> QED BY <2>1, <2>2
<1>4. g \in [Periods -> 0..2]
  <2>1. DOMAIN g = Periods /\ g = [p \in Periods |-> g[p]]
    BY <1>2
  <2>2. \A p \in Periods : g[p] \in 0..2
    <3> HIDE DEF g
    <3> QED BY <1>2, <1>3, <1>b
  <2> HIDE DEF g
  <2> QED BY <2>1, <2>2
<1> HIDE DEF g
<1>5. /\ newRefs \in [Validator -> [Periods -> 0..2]]
      /\ \A u \in Validator : u # v => newRefs[u] = d.refs[u]
      /\ \A p \in Periods : newRefs[v][p] = IF p = q THEN d.refs[v][p] - 1 ELSE d.refs[v][p]
  BY <1>0, <1>2, <1>3, <1>4
<1> HIDE DEF newRefs
<1>7. /\ e \in DistrStates /\ e.refs = newRefs /\ e.starting = d.starting
      /\ e.period = d.period /\ e.slashes = d.slashes /\ SameAmounts(e, d)
  BY <1>1, <1>5 DEF DistrStates, SameAmounts
<1>8. \A u : LastPeriod(e, u) = LastPeriod(d, u)
  BY <1>7 DEF LastPeriod
<1>9. Matches(e, D \ {del})
  <2> SUFFICES ASSUME NEW u \in Validator, NEW p \in Periods
               PROVE  e.refs[u][p] = Cardinality(Starts(e, D \ {del}, u, p))
                                     + Cardinality(e.slashes[u] \cap {p})
                                     + (IF LastPeriod(e, u) = p THEN 1 ELSE 0)
    BY DEF Matches
  <2> DEFINE A == Starts(d, D, u, p)
             a == Cardinality(A)
             b == Cardinality(d.slashes[u] \cap {p})
             c == IF LastPeriod(d, u) = p THEN 1 ELSE 0
  <2>1. d.refs[u][p] = a + b + c
    BY DEF Matches
  <2>2. a \in Nat /\ b \in Nat /\ c \in Nat /\ IsFiniteSet(A)
    BY CountTypes
  <2>3. b = Cardinality(e.slashes[u] \cap {p}) /\ c = IF LastPeriod(e, u) = p THEN 1 ELSE 0
    BY <1>7, <1>8
  <2>4. CASE u = v /\ p = q
    <3>1. Starts(e, D \ {del}, u, p) = A \ {del} /\ del \in A
      BY <2>4, <1>a, <1>7 DEF Starts
    <3>2. Cardinality(Starts(e, D \ {del}, u, p)) = a - 1
      <4>1. A \ {del} = A \ {del} /\ Cardinality(A \ {del}) = Cardinality(A) - 1
        <5> HIDE DEF A
        <5> QED BY <3>1, <2>2, FS_RemoveElement
      <4> QED BY <3>1, <4>1
    <3>3. e.refs[u][p] = d.refs[u][p] - 1
      BY <2>4, <1>5, <1>7
    <3> HIDE DEF a, b, c, A
    <3> QED BY <2>1, <2>2, <2>3, <3>2, <3>3
  <2>5. CASE ~(u = v /\ p = q)
    <3>1. Starts(e, D \ {del}, u, p) = A
      BY <2>5, <1>7 DEF Starts
    <3>2. e.refs[u][p] = d.refs[u][p]
      BY <2>5, <1>5, <1>7
    <3> HIDE DEF a, b, c
    <3> QED BY <2>1, <2>2, <2>3, <3>1, <3>2 DEF a
  <2> QED BY <2>4, <2>5
<1>10. Ended(e, D \ {del})
  BY <1>7, <1>8 DEF Ended
<1>11. \A p \in Periods : p # q => e.refs[v][p] = d.refs[v][p]
  BY <1>5, <1>7
<1> QED BY <1>7, <1>9, <1>10, <1>11 DEF e

RewardsPaid(e, d, v, rewards) ==
    /\ e.outstanding = [d.outstanding EXCEPT ![v] = @ - rewards]
    /\ e.accounts = d.accounts + Whole(rewards)
    /\ e.community = d.community + rewards - Whole(rewards)

\* What a withdrawal leaves: everything in order for the same delegations,
\* in one period more.
LEMMA WithdrawKeeps ==
    ASSUME NEW d \in DistrStates, NEW del \in Delegation, NEW h \in Heights, NEW s \in Nat,
           Matches(d, Delegation), Ended(d, Delegation),
           d.period[del.validator] \in 1..MaxPeriod, d.starting[del] # NoInfo,
           NEW rewards \in 0..d.outstanding[del.validator]
    PROVE  LET e == WithdrawRewards(d, del, rewards, h, s)
           IN  /\ e \in DistrStates /\ Matches(e, Delegation) /\ Ended(e, Delegation)
               /\ PeriodEnded(e, d, del.validator)
               /\ e.slashes = d.slashes
               /\ \A x \in Delegation : x # del => e.starting[x] = d.starting[x]
               /\ e.starting[del] # NoInfo
               /\ RewardsPaid(e, d, del.validator, rewards)
<1> DEFINE e == WithdrawRewards(d, del, rewards, h, s)
<1> HIDE DEF e
<1> DEFINE v == del.validator
           q == d.starting[del].period
           ended == IncrementValidatorPeriod(d, v)
           paid == [ended EXCEPT !.outstanding = [d.outstanding EXCEPT ![v] = @ - rewards],
                                 !.accounts  = @ + Whole(rewards),
                                 !.community = @ + rewards - Whole(rewards)]
           dropped == Dropped(paid, del)
<1>0. v \in Validator /\ MaxPeriod \in Nat /\ q \in Nat
  BY HeightAssumption, DelegationFields DEF DistrStates
<1>1. /\ ended \in DistrStates /\ Matches(ended, Delegation) /\ Ended(ended, Delegation)
      /\ SameAmounts(ended, d) /\ ended.starting = d.starting /\ ended.slashes = d.slashes
      /\ ended.period = [d.period EXCEPT ![v] = @ + 1]
      /\ LastPeriod(ended, v) \in Periods /\ ended.refs[v][LastPeriod(ended, v)] = 1
  <2>1. ended = IncrementValidatorPeriod(d, v) /\ Delegation \in SUBSET Delegation
    OBVIOUS
  <2> HIDE DEF ended
  <2>2. Matches(d, Delegation) /\ Ended(d, Delegation) /\ d.period[v] \in 1..MaxPeriod
    OBVIOUS
  <2> QED BY <1>0, <2>1, <2>2, IncrementKeeps
<1>2. /\ ended.outstanding = d.outstanding /\ ended.accounts = d.accounts
      /\ ended.community = d.community /\ ended.commission = d.commission
  BY <1>1 DEF SameAmounts
<1>3. LastPeriod(ended, v) = d.period[v] /\ q <= d.period[v] - 1
  <2>1. LastPeriod(ended, v) = d.period[v]
    <3> HIDE DEF ended
    <3> QED BY <1>0, <1>1 DEF LastPeriod, DistrStates
  <2>2. q <= d.period[v] - 1
    BY DEF Ended, LastPeriod
  <2> QED BY <2>1, <2>2
<1>4. q \in Periods /\ q # LastPeriod(ended, v)
  BY <1>0, <1>3 DEF Periods
<1>5. WithdrawRewards(d, del, rewards, h, s) = StartDelegation(dropped, del, h, s)
  <2>1. ended.outstanding[v] = d.outstanding[v]
    BY <1>2
  <2>2. [ended EXCEPT !.outstanding[v] = @ - rewards,
                      !.accounts  = @ + Whole(rewards),
                      !.community = @ + rewards - Whole(rewards),
                      !.refs[v][q] = @ - 1]
        = dropped
    <3> HIDE DEF ended
    <3> QED BY <1>1, <1>2 DEF DistrStates, Dropped
  <2> QED BY <2>2 DEF WithdrawRewards
<1>6. Whole(rewards) \in 0..rewards /\ rewards - Whole(rewards) \in Nat
  <2>1. d.outstanding[v] \in Nat /\ rewards \in Nat
    BY <1>0 DEF DistrStates
  <2> QED BY <2>1 DEF Whole, Unit
<1>7. /\ paid \in DistrStates
      /\ paid.refs = ended.refs /\ paid.starting = ended.starting
      /\ paid.slashes = ended.slashes /\ paid.period = ended.period
      /\ paid.outstanding = [d.outstanding EXCEPT ![v] = @ - rewards]
      /\ paid.accounts = d.accounts + Whole(rewards)
      /\ paid.community = d.community + rewards - Whole(rewards)
  <2>1. [d.outstanding EXCEPT ![v] = @ - rewards] \in [Validator -> Nat]
    BY <1>0 DEF DistrStates
  <2>2. /\ d.accounts + Whole(rewards) \in Nat
        /\ d.community + rewards - Whole(rewards) \in Nat
    <3>1. d.accounts \in Nat /\ d.community \in Nat /\ rewards \in Int
      BY DEF DistrStates
    <3> QED BY <3>1, <1>6
  <2> HIDE DEF ended
  <2> QED BY <1>1, <1>2, <2>1, <2>2 DEF DistrStates
<1> HIDE DEF ended
<1>8. Matches(paid, Delegation) /\ Ended(paid, Delegation)
  <2> HIDE DEF paid
  <2> QED BY <1>1, <1>7, SameRecords
<1> HIDE DEF paid
<1>9. /\ dropped \in DistrStates /\ Matches(dropped, Delegation \ {del})
      /\ Ended(dropped, Delegation \ {del})
      /\ SameAmounts(dropped, paid) /\ dropped.starting = paid.starting
      /\ dropped.period = paid.period /\ dropped.slashes = paid.slashes
      /\ \A p \in Periods : p # q => dropped.refs[v][p] = paid.refs[v][p]
  <2>1. q = paid.starting[del].period
    BY <1>1, <1>7
  <2>2. dropped = Dropped(paid, del) /\ Delegation \in SUBSET Delegation
    OBVIOUS
  <2> HIDE DEF q, dropped
  <2>3. /\ Matches(paid, Delegation) /\ Ended(paid, Delegation) /\ del \in Delegation
        /\ paid \in DistrStates /\ paid.starting[del].period \in Periods
    BY <1>4, <1>7, <1>8, <2>1
  <2>4. /\ Dropped(paid, del) \in DistrStates
        /\ Matches(Dropped(paid, del), Delegation \ {del})
        /\ Ended(Dropped(paid, del), Delegation \ {del})
        /\ SameAmounts(Dropped(paid, del), paid) /\ Dropped(paid, del).starting = paid.starting
        /\ Dropped(paid, del).period = paid.period /\ Dropped(paid, del).slashes = paid.slashes
        /\ \A p \in Periods : p # paid.starting[del].period =>
              Dropped(paid, del).refs[del.validator][p] = paid.refs[del.validator][p]
    BY <2>2, <2>3, DropKeeps
  <2> QED BY <2>1, <2>2, <2>4
<1> HIDE DEF dropped
<1>11. LastPeriod(dropped, v) = LastPeriod(ended, v) /\ dropped.refs[v][LastPeriod(dropped, v)] = 1
  <2>1. LastPeriod(dropped, v) = LastPeriod(ended, v)
    BY <1>7, <1>9 DEF LastPeriod
  <2> QED BY <2>1, <1>1, <1>4, <1>7, <1>9
<1>12. /\ e \in DistrStates /\ Matches(e, (Delegation \ {del}) \cup {del})
       /\ Ended(e, (Delegation \ {del}) \cup {del})
       /\ SameAmounts(e, dropped) /\ e.period = dropped.period /\ e.slashes = dropped.slashes
       /\ e.starting = [dropped.starting EXCEPT ![del] = [period |-> LastPeriod(dropped, del.validator),
                                                          height |-> h, stake |-> s]]
  <2>1. dropped.refs[v][LastPeriod(dropped, v)] \in 0..1 /\ LastPeriod(dropped, v) \in Periods
    BY <1>1, <1>11
  <2>2. e = StartDelegation(dropped, del, h, s)
    BY <1>5 DEF e
  <2>3. Delegation \ {del} \in SUBSET Delegation /\ del \notin Delegation \ {del}
    OBVIOUS
  <2> DEFINE D == Delegation \ {del}
  <2> HIDE DEF D
  <2>4. D \in SUBSET Delegation /\ del \notin D /\ Matches(dropped, D) /\ Ended(dropped, D)
    BY <1>9, <2>3 DEF D
  <2>5. InOrderWithout(dropped, D, del) /\ StartsAt(h, s)
    BY <1>9, <2>4 DEF InOrderWithout, StartsAt
  <2>6. HasStarted(StartDelegation(dropped, del, h, s), dropped, D, del, h, s)
    BY <2>1, <2>5, StartKeeps
  <2>7. HasStarted(e, dropped, D, del, h, s)
    BY <2>2, <2>6
  <2> QED BY <2>7 DEF D, HasStarted
<1>13. /\ e.outstanding = paid.outstanding
       /\ e.accounts = paid.accounts /\ e.community = paid.community
  BY <1>9, <1>12 DEF SameAmounts
<1>14. e.starting[del] # NoInfo /\ \A x \in Delegation : x # del => e.starting[x] = d.starting[x]
  <2>1. dropped.starting = d.starting /\ d.starting \in [Delegation -> {NoInfo} \cup [period : Nat, height : Heights, stake : Nat]]
    BY <1>1, <1>7, <1>9 DEF DistrStates
  <2>2. e.starting[del].height = h /\ h # -1 /\ NoInfo.height = -1
    BY <1>12, <2>1 DEF Heights, NoInfo
  <2> QED BY <1>12, <2>1, <2>2
<1>15. Matches(e, Delegation) /\ Ended(e, Delegation)
  <2>1. (Delegation \ {del}) \cup {del} = Delegation
    OBVIOUS
  <2> QED BY <1>12, <2>1
<1> QED BY <1>1, <1>7, <1>9, <1>12, <1>13, <1>14, <1>15 DEF e, PeriodEnded, RewardsPaid

\* What the hooks leave for a delegation that is created anew.
HasRestarted(e, d, D, del, h, s) ==
    /\ e \in DistrStates /\ Matches(e, D \cup {del}) /\ Ended(e, D \cup {del})
    /\ SameAmounts(e, d) /\ e.slashes = d.slashes
    /\ PeriodEnded(e, d, del.validator)
    /\ e.starting[del].height = h /\ e.starting[del].stake = s
    /\ \A x \in Delegation : x # del => e.starting[x] = d.starting[x]

LEMMA RestartKeeps ==
    ASSUME NEW d, NEW D, NEW del, NEW h, NEW s,
           InOrderWithout(d, D, del), StartsAt(h, s),
           d.period[del.validator] \in 1..MaxPeriod
    PROVE  HasRestarted(Restarted(d, del, h, s), d, D, del, h, s)
<1> DEFINE e == Restarted(d, del, h, s)
<1>e. e = Restarted(d, del, h, s)
  OBVIOUS
<1> HIDE DEF e
<1>p. /\ d \in DistrStates /\ D \in SUBSET Delegation /\ del \in Delegation /\ del \notin D
      /\ Matches(d, D) /\ Ended(d, D) /\ h \in Heights /\ s \in Nat
  BY DEF InOrderWithout, StartsAt
<1> USE <1>p
<1> DEFINE v == del.validator
           ended == IncrementValidatorPeriod(d, v)
<1>0. v \in Validator /\ ended = IncrementValidatorPeriod(d, v) /\ d.period[v] \in 1..MaxPeriod
  BY DelegationFields
<1> HIDE DEF ended
<1>1. /\ ended \in DistrStates /\ Matches(ended, D) /\ Ended(ended, D)
      /\ SameAmounts(ended, d) /\ ended.starting = d.starting /\ ended.slashes = d.slashes
      /\ ended.period = [d.period EXCEPT ![v] = @ + 1]
      /\ LastPeriod(ended, v) \in Periods /\ ended.refs[v][LastPeriod(ended, v)] = 1
  <2> HIDE DEF v
  <2>1. LET x == IncrementValidatorPeriod(d, v)
        IN  /\ x \in DistrStates /\ Matches(x, D) /\ Ended(x, D)
            /\ SameAmounts(x, d) /\ x.starting = d.starting /\ x.slashes = d.slashes
            /\ x.period = [d.period EXCEPT ![v] = @ + 1]
            /\ LastPeriod(x, v) \in Periods /\ x.refs[v][LastPeriod(x, v)] = 1
    BY <1>0, IncrementKeeps
  <2> QED BY <1>0, <2>1
<1>2. e = StartDelegation(ended, del, h, s)
  BY <1>e DEF Restarted, ended
<1>3. /\ e \in DistrStates /\ Matches(e, D \cup {del}) /\ Ended(e, D \cup {del})
      /\ SameAmounts(e, ended) /\ e.period = ended.period /\ e.slashes = ended.slashes
      /\ e.starting = [ended.starting EXCEPT
                         ![del] = [period |-> LastPeriod(ended, del.validator),
                                   height |-> h, stake |-> s]]
  <2>1. /\ LastPeriod(ended, del.validator) \in Periods
        /\ ended.refs[del.validator][LastPeriod(ended, del.validator)] \in 0..1
    BY <1>1
  <2>2. InOrderWithout(ended, D, del)
    BY <1>1, <1>p DEF InOrderWithout
  <2>3. HasStarted(StartDelegation(ended, del, h, s), ended, D, del, h, s)
    BY <2>1, <2>2, StartKeeps
  <2>4. HasStarted(e, ended, D, del, h, s)
    BY <1>2, <2>3
  <2> QED BY <2>4 DEF HasStarted
<1>4. d.starting \in [Delegation -> {NoInfo} \cup [period : Nat, height : Heights, stake : Nat]]
  BY DEF DistrStates
<1>5. /\ e.starting[del].height = h /\ e.starting[del].stake = s
      /\ \A x \in Delegation : x # del => e.starting[x] = d.starting[x]
  BY <1>1, <1>3, <1>4
<1>6. HasRestarted(e, d, D, del, h, s)
  BY <1>1, <1>3, <1>5 DEF SameAmounts, PeriodEnded, HasRestarted
<1> QED BY <1>6, <1>e

\* A validator starts afresh, with the scraps in the community pool.
LEMMA ReinitializeKeeps ==
    ASSUME NEW d \in DistrStates, NEW v \in Validator
    PROVE  LET e == Reinitialized(d, v)
           IN  /\ e \in DistrStates /\ e.slashes = d.slashes /\ e.starting = d.starting
               /\ e.period = [d.period EXCEPT ![v] = 1]
               /\ e.refs = [d.refs EXCEPT ![v] = [d.refs[v] EXCEPT ![0] = 1]]
               /\ e.outstanding = [d.outstanding EXCEPT ![v] = 0]
               /\ e.community = d.community + d.outstanding[v] /\ e.accounts = d.accounts
<1> DEFINE e == Reinitialized(d, v)
<1> HIDE DEF e
<1> DEFINE nc == [d.commission EXCEPT ![v] = 0]
           no == [d.outstanding EXCEPT ![v] = 0]
           np == [d.period EXCEPT ![v] = 1]
           nr == [d.refs EXCEPT ![v] = [d.refs[v] EXCEPT ![0] = 1]]
           sum == d.community + d.outstanding[v]
<1>1. e = [d EXCEPT !.community = sum, !.commission = nc, !.outstanding = no,
                    !.period = np, !.refs = nr]
  BY DEF e, Reinitialized, InitializeValidator, DistrStates
<1>2. /\ nc \in [Validator -> Nat] /\ no \in [Validator -> Nat] /\ np \in [Validator -> Nat]
      /\ sum \in Nat
  BY DEF DistrStates
<1>3. nr \in [Validator -> [Periods -> 0..2]]
  <2>1. 0 \in Periods
    BY HeightAssumption DEF Periods
  <2> QED BY <2>1 DEF DistrStates
<1>4. /\ e \in DistrStates /\ e.slashes = d.slashes /\ e.starting = d.starting
      /\ e.period = np /\ e.refs = nr /\ e.outstanding = no
      /\ e.community = sum /\ e.accounts = d.accounts
  <2> HIDE DEF nc, no, np, nr, sum
  <2> QED BY <1>1, <1>2, <1>3 DEF DistrStates
<1> QED BY <1>4 DEF e

\* The commission is paid from what is outstanding, in whole coins.
LEMMA CommissionKeeps ==
    ASSUME NEW d \in DistrStates, NEW v \in Validator, d.commission[v] <= d.outstanding[v]
    PROVE  LET e == WithdrawCommission(d, v)
           IN  /\ e \in DistrStates
               /\ e.refs = d.refs /\ e.starting = d.starting
               /\ e.slashes = d.slashes /\ e.period = d.period
               /\ \A u \in Validator : u # v => /\ e.commission[u] = d.commission[u]
                                                /\ e.outstanding[u] = d.outstanding[u]
               /\ e.accounts + e.outstanding[v] = d.accounts + d.outstanding[v]
               /\ e.commission[v] <= e.outstanding[v] /\ e.community = d.community
<1> DEFINE c == d.commission[v]
           o == d.outstanding[v]
           paid == Whole(c)
           e == WithdrawCommission(d, v)
<1>1. c \in Nat /\ o \in Nat /\ c <= o /\ d.accounts \in Nat
  BY DEF DistrStates
<1>2. paid \in 0..c
  BY <1>1 DEF Whole, Unit
<1>3. e = [d EXCEPT !.commission = [d.commission EXCEPT ![v] = c - paid],
                    !.outstanding = [d.outstanding EXCEPT ![v] = o - paid],
                    !.accounts = d.accounts + paid]
  BY DEF WithdrawCommission, DistrStates
<1>4. /\ c - paid \in Nat /\ o - paid \in Nat /\ d.accounts + paid \in Nat
      /\ c - paid <= o - paid
      /\ (d.accounts + paid) + (o - paid) = d.accounts + o
  <2> HIDE DEF c, o, paid
  <2> QED BY <1>1, <1>2
<1> HIDE DEF e
<1>5. /\ e \in DistrStates
      /\ e.refs = d.refs /\ e.starting = d.starting
      /\ e.slashes = d.slashes /\ e.period = d.period /\ e.community = d.community
      /\ e.commission = [d.commission EXCEPT ![v] = c - paid]
      /\ e.outstanding = [d.outstanding EXCEPT ![v] = o - paid]
      /\ e.accounts = d.accounts + paid
  <2> HIDE DEF c, o, paid
  <2> QED BY <1>3, <1>4 DEF DistrStates
<1>6. /\ e.commission[v] = c - paid /\ e.outstanding[v] = o - paid
      /\ \A u \in Validator : u # v => /\ e.commission[u] = d.commission[u]
                                       /\ e.outstanding[u] = d.outstanding[u]
  <2> HIDE DEF c, o, paid
  <2> QED BY <1>5 DEF DistrStates
<1>7. e.accounts + e.outstanding[v] = d.accounts + d.outstanding[v] /\ e.commission[v] <= e.outstanding[v]
  <2>1. e.accounts + e.outstanding[v] = d.accounts + o
    <3> HIDE DEF c, o, paid
    <3> QED BY <1>4, <1>5, <1>6
  <2> QED BY <2>1, <1>4, <1>6
<1> QED BY <1>5, <1>6, <1>7 DEF e

\* Nothing but the slashes and the records goes.
LEMMA ClearedKeeps ==
    ASSUME NEW d \in DistrStates
    PROVE  LET e == Cleared(d)
           IN  /\ e \in DistrStates /\ SameAmounts(e, d)
               /\ e.starting = d.starting /\ e.period = d.period
               /\ \A v \in Validator : /\ e.slashes[v] = {}
                                      /\ \A p \in Periods : e.refs[v][p] = 0
<1> DEFINE none == [v \in Validator |-> [p \in DOMAIN d.refs[v] |-> 0]]
           e == Cleared(d)
<1>1. /\ none \in [Validator -> [Periods -> 0..2]]
      /\ \A v \in Validator : \A p \in Periods : none[v][p] = 0
  <2>1. \A v \in Validator : DOMAIN d.refs[v] = Periods
    BY DEF DistrStates
  <2> QED BY <2>1
<1>2. e = [d EXCEPT !.slashes = [v \in Validator |-> {}], !.refs = none]
  BY DEF Cleared
<1> HIDE DEF none, e
<1>3. /\ e \in DistrStates /\ e.refs = none /\ SameAmounts(e, d)
      /\ e.starting = d.starting /\ e.period = d.period
      /\ \A v \in Validator : e.slashes[v] = {}
  BY <1>1, <1>2 DEF DistrStates, SameAmounts
<1> QED BY <1>1, <1>3 DEF e

\* The records of all delegations.
LEMMA AllDelegations ==
    ASSUME NEW d
    PROVE  /\ RecordsMatch(d) <=> Matches(d, Delegation)
           /\ EndedOnly(d) <=> Ended(d, Delegation)
BY DEF RecordsMatch, Matches, References, Starts, EndedOnly, Ended

LEMMA LoopFacts ==
    /\ \A name \in {"commissions", "validators", "jail"} : Elements(name) = Validator
    /\ \A name \in {"rewards", "delegations"} : Elements(name) = Delegation
    /\ Elements("entries") = Entry
    /\ \A name \in {"call", "prepare", "clear", "export", "returned"} : Elements(name) = {}
    /\ DOMAIN Following = {"commissions", "rewards", "validators", "delegations", "entries", "jail"}
    /\ Following["commissions"] = "rewards" /\ Following["rewards"] = "clear"
    /\ Following["validators"] = "delegations" /\ Following["delegations"] = "entries"
    /\ Following["entries"] = "jail" /\ Following["jail"] = "export"
BY DEF Elements, Following

-----------------------------------------------------------------------------
(* The records of x/distribution *)

LEMMA LedgerInit == Init => Ledger
<1> SUFFICES ASSUME Init PROVE Ledger
  OBVIOUS
<1>1. /\ args \in Arguments /\ staking \in StakingStates /\ distr \in Distributions
      /\ before.distr = distr /\ before.staking = staking
      /\ pc = "call" /\ todo = {} /\ ctxHeight = 0
  BY StakingAssumption DEF Init
<1>2. distr \in DistrStates /\ Matches(distr, Delegation) /\ Ended(distr, Delegation)
  BY <1>1, DistributionAssumption, AllDelegations
<1>3. TypeOK
  BY <1>1, <1>2, HeightAssumption, LoopFacts DEF TypeOK, Heights
<1> QED BY <1>1, <1>2, <1>3 DEF Ledger

LEMMA LoopRoom ==
    ASSUME NEW x \in todo, todo \subseteq Delegation
    PROVE  /\ Cardinality(todo) \in Nat \ {0} /\ Cardinality(Delegation) \in Nat
           /\ Cardinality(todo \ {x}) = Cardinality(todo) - 1
<1>1. IsFiniteSet(todo) /\ IsFiniteSet(Delegation)
  BY FinitelyMany, FS_Subset
<1>2. Cardinality(todo) \in Nat /\ Cardinality(Delegation) \in Nat
  BY <1>1, FS_CardinalityType
<1>3. Cardinality(todo) # 0
  BY <1>1, FS_EmptySet
<1>4. Cardinality(todo \ {x}) = Cardinality(todo) - 1
  BY <1>1, FS_RemoveElement
<1> QED BY <1>2, <1>3, <1>4

\* There is always room for the period that a delegation still has to end.
LEMMA PeriodsLeft ==
    ASSUME Ledger, NEW del \in todo, pc \in {"rewards", "delegations"},
           distr.period[del.validator] # 0
    PROVE  /\ del \in Delegation /\ todo \subseteq Delegation /\ distr \in DistrStates
           /\ distr.period[del.validator] \in 1..MaxPeriod
<1> DEFINE v == del.validator
<1>1. todo \subseteq Delegation /\ distr \in DistrStates /\ before.distr \in DistrStates
  BY LoopFacts, DistributionAssumption DEF Ledger, TypeOK
<1>2. v \in Validator
  BY <1>1, DelegationFields
<1>3. /\ distr.period[v] \in Nat \ {0} /\ before.distr.period[v] \in Nat /\ MaxPeriod \in Nat
      /\ before.distr.period[v] + Cardinality(Delegation) <= MaxPeriod
  BY <1>1, <1>2, HeightAssumption, DistributionAssumption DEF Ledger, DistrStates
<1>4. Cardinality(todo) \in Nat \ {0} /\ Cardinality(Delegation) \in Nat
  BY <1>1, LoopRoom
<1>5. \/ distr.period[v] + Cardinality(todo) <= before.distr.period[v] + Cardinality(Delegation)
      \/ distr.period[v] + Cardinality(todo) <= 1 + Cardinality(Delegation)
  BY <1>2 DEF Ledger, RoomLeft
<1>6. distr.period[v] \in 1..MaxPeriod
  <2> HIDE DEF v
  <2> QED BY <1>3, <1>4, <1>5
<1> QED BY <1>1, <1>6

LEMMA WithdrawStep ==
    ASSUME Ledger, NEW del \in Delegation, WithdrawRewardsOf(del)
    PROVE  /\ distr' \in DistrStates /\ Matches(distr', Delegation) /\ Ended(distr', Delegation)
           /\ PeriodEnded(distr', distr, del.validator)
           /\ \A x \in Delegation : x # del => distr'.starting[x] = distr.starting[x]
           /\ \E rewards \in 0..distr.outstanding[del.validator] :
                 RewardsPaid(distr', distr, del.validator, rewards)
<1>1. /\ pc = "rewards" /\ del \in todo
      /\ distr.starting[del] # NoInfo /\ distr.period[del.validator] # 0
  BY DEF WithdrawRewardsOf, Loop, HasRecord, Unknown
<1> DEFINE s == staking.stake[del]
<1>0. s \in Nat /\ 0 \in 0..distr.outstanding[del.validator]
  BY DelegationFields DEF Ledger, TypeOK, StakingStates, DistrStates
<1>2. PICK rewards \in 0..distr.outstanding[del.validator] :
          distr' = WithdrawRewards(distr, del, rewards, ctxHeight, s)
  BY <1>0 DEF WithdrawRewardsOf, Earned
<1> HIDE DEF s
<1>3. /\ distr \in DistrStates /\ ctxHeight \in Heights /\ s \in Nat
      /\ Matches(distr, Delegation) /\ Ended(distr, Delegation)
      /\ distr.period[del.validator] \in 1..MaxPeriod /\ distr.starting[del] # NoInfo
      /\ rewards \in 0..distr.outstanding[del.validator]
  BY <1>0, <1>1, PeriodsLeft DEF Ledger, TypeOK, Settled
<1> DEFINE e == WithdrawRewards(distr, del, rewards, ctxHeight, s)
<1>4. /\ e \in DistrStates /\ Matches(e, Delegation) /\ Ended(e, Delegation)
      /\ PeriodEnded(e, distr, del.validator)
      /\ \A x \in Delegation : x # del => e.starting[x] = distr.starting[x]
      /\ RewardsPaid(e, distr, del.validator, rewards)
  BY <1>3, WithdrawKeeps
<1>5. distr' = e
  BY <1>2
<1> HIDE DEF e
<1> QED BY <1>4, <1>5

LEMMA RestartStep ==
    ASSUME Ledger, NEW del \in Delegation, ReinitializeDelegation(del)
    PROVE  /\ distr' \in DistrStates
           /\ Matches(distr', Delegation \ todo') /\ Ended(distr', Delegation \ todo')
           /\ SameAmounts(distr', distr) /\ distr'.slashes = distr.slashes
           /\ PeriodEnded(distr', distr, del.validator)
           /\ distr'.starting[del].height = ctxHeight
           /\ distr'.starting[del].stake = staking.stake[del]
           /\ \A x \in Delegation : x # del => distr'.starting[x] = distr.starting[x]
<1> DEFINE D == Delegation \ todo
           s == staking.stake[del]
<1>0. s \in Nat
  BY DEF Ledger, TypeOK, StakingStates
<1>1. /\ pc = "delegations" /\ del \in todo /\ todo' = todo \ {del}
      /\ distr' = Restarted(distr, del, ctxHeight, s)
  BY DEF ReinitializeDelegation, Loop
<1>2. /\ distr \in DistrStates /\ ctxHeight \in Heights /\ distr.period[del.validator] # 0
      /\ D \in SUBSET Delegation /\ del \notin D /\ Matches(distr, D) /\ Ended(distr, D)
  BY <1>1, DelegationFields DEF Ledger, TypeOK
<1>3. distr.period[del.validator] \in 1..MaxPeriod /\ Delegation \ todo' = D \cup {del}
  BY <1>1, <1>2, PeriodsLeft
<1> HIDE DEF D, s
<1>4. InOrderWithout(distr, D, del) /\ StartsAt(ctxHeight, s)
  BY <1>0, <1>2 DEF InOrderWithout, StartsAt
<1>5. HasRestarted(Restarted(distr, del, ctxHeight, s), distr, D, del, ctxHeight, s)
  BY <1>3, <1>4, RestartKeeps
<1>6. HasRestarted(distr', distr, D, del, ctxHeight, s)
  BY <1>1, <1>5
<1> QED BY <1>3, <1>6 DEF s, HasRestarted

LEMMA LedgerNext == Ledger /\ [Next]_vars => Ledger'
<1> SUFFICES ASSUME Ledger, [Next]_vars PROVE Ledger'
  OBVIOUS
<1> USE DEF Settled
<1>a. args' = args /\ before' = before
  BY DEF Next, vars, Refuse, Load, Export, CheckAllowed, EndLoop, ClearHistory, Panic,
         WithdrawCommissionOf, ReinitializeValidator, ResetValidator, WithdrawRewardsOf,
         ReinitializeDelegation, ResetEntry
<1>0. /\ TypeOK /\ args \in Arguments /\ before.distr \in Distributions
      /\ LoadedHeight' = LoadedHeight
      /\ MaxPeriod \in Nat /\ ctxHeight \in Heights
      /\ staking \in StakingStates /\ distr \in DistrStates
      /\ before.distr \in DistrStates
      /\ \A v \in Validator :
            /\ before.distr.commission[v] <= before.distr.outstanding[v]
            /\ before.distr.period[v] + Cardinality(Delegation) <= MaxPeriod
            /\ before.distr.period[v] \in Nat
      /\ Cardinality(Delegation) \in Nat
  <2>1. before.distr \in DistrStates
    BY DistributionAssumption DEF Ledger
  <2>2. \A v \in Validator : before.distr.period[v] \in Nat
    BY <2>1 DEF DistrStates
  <2>3. Cardinality(Delegation) \in Nat
    BY FinitelyMany, FS_CardinalityType
  <2>4. \A v \in Validator :
            /\ before.distr.commission[v] <= before.distr.outstanding[v]
            /\ before.distr.period[v] + Cardinality(Delegation) <= MaxPeriod
    BY DistributionAssumption DEF Ledger
  <2>5. LoadedHeight' = LoadedHeight
    BY <1>a DEF LoadedHeight
  <2> QED BY <2>1, <2>2, <2>3, <2>4, <2>5, HeightAssumption DEF Ledger, TypeOK
<1>1. CASE Refuse
  <2>1. TypeOK'
    BY <1>0, <1>1, LoopFacts DEF Refuse, TypeOK
  <2> QED BY <2>1, <1>0, <1>1 DEF Refuse, Ledger, RoomLeft, Matches, Ended, Starts, LastPeriod
<1>2. CASE Load
  <2>1. LoadedHeight \in Heights
    <3>1. args.height \in Nat \cup {-1}
      BY <1>0, ArgumentFields
    <3> QED BY <1>2, <3>1, HeightAssumption DEF Load, LoadedHeight, Heights
  <2>2. TypeOK'
    BY <1>0, <1>2, <2>1, LoopFacts DEF Load, TypeOK
  <2> QED BY <2>1, <2>2, <1>0, <1>2 DEF Load, Ledger, Matches, Ended, Starts, LastPeriod
<1>3. CASE Export
  <2>1. TypeOK'
    BY <1>0, <1>3, LoopFacts DEF Export, TypeOK
  <2> QED BY <2>1, <1>0, <1>3 DEF Export, Ledger, Matches, Ended, Starts, LastPeriod
<1>4. CASE CheckAllowed
  <2>1. pc' = "commissions" /\ todo' = Validator /\ distr' = distr
    BY <1>4, LoopFacts DEF CheckAllowed, Goto
  <2>2. TypeOK'
    BY <1>0, <1>4, <2>1, LoopFacts DEF CheckAllowed, Goto, TypeOK
  <2>3. distr = before.distr /\ Matches(distr, Delegation) /\ Ended(distr, Delegation)
    BY <1>4 DEF CheckAllowed, Ledger
  <2> QED BY <2>1, <2>2, <2>3, <1>0, <1>4
          DEF CheckAllowed, Ledger, Matches, Ended, Starts, LastPeriod
<1>13. CASE UNCHANGED vars
  BY <1>0, <1>13 DEF vars, Ledger, TypeOK, RoomLeft, Matches, Ended, Starts, LastPeriod, Elements
<1>7. CASE Panic
  <2>1. TypeOK'
    BY <1>0, <1>7 DEF Panic, TypeOK
  <2> QED BY <2>1, <1>0, <1>7 DEF Panic, Ledger
<1>11. ASSUME NEW e \in Entry, ResetEntry(e) PROVE Ledger'
  <2>1. staking' \in StakingStates
    BY <1>0, <1>11, HeightAssumption DEF ResetEntry, StakingStates, Heights
  <2>2. TypeOK'
    BY <1>0, <1>11, <2>1, LoopFacts DEF ResetEntry, Loop, TypeOK
  <2> QED BY <2>2, <1>0, <1>11 DEF ResetEntry, Loop, Ledger, Matches, Ended, Starts, LastPeriod
<1>12. ASSUME NEW v \in Validator, ResetValidator(v) PROVE Ledger'
  <2>1. staking' \in StakingStates
    <3> DEFINE j == staking.jailed[v] \/ (args.allowed # {} /\ v \notin args.allowed)
    <3>1. j \in BOOLEAN
      OBVIOUS
    <3>2. staking' = [staking EXCEPT !.unbondingHeight[v] = 0, !.jailed[v] = j]
      BY <1>12 DEF ResetValidator
    <3> HIDE DEF j
    <3>3. /\ [staking.jailed EXCEPT ![v] = j] \in [Validator -> BOOLEAN]
          /\ [staking.unbondingHeight EXCEPT ![v] = 0] \in [Validator -> Heights]
      BY <1>0, <3>1, HeightAssumption DEF StakingStates, Heights
    <3> QED BY <1>0, <3>2, <3>3 DEF StakingStates
  <2>2. TypeOK'
    BY <1>0, <1>12, <2>1, LoopFacts DEF ResetValidator, Loop, TypeOK
  <2> QED BY <2>2, <1>0, <1>12 DEF ResetValidator, Loop, Ledger, Matches, Ended, Starts, LastPeriod
<1>6. ASSUME NEW v \in Validator, WithdrawCommissionOf(v) PROVE Ledger'
  <2>1. /\ pc = "commissions" /\ v \in todo /\ todo' = todo \ {v} /\ pc' = pc
        /\ distr' = WithdrawCommission(distr, v)
        /\ UNCHANGED <<args, before, ctxHeight, staking>>
    BY <1>6 DEF WithdrawCommissionOf, Loop
  <2>5. distr.commission[v] <= distr.outstanding[v]
    BY <2>1 DEF Ledger
  <2>6. /\ distr' \in DistrStates
        /\ distr'.refs = distr.refs /\ distr'.starting = distr.starting
        /\ distr'.slashes = distr.slashes /\ distr'.period = distr.period
        /\ \A u \in Validator : u # v => /\ distr'.commission[u] = distr.commission[u]
                                         /\ distr'.outstanding[u] = distr.outstanding[u]
    BY <1>0, <2>1, <2>5, CommissionKeeps
  <2>7. Matches(distr', Delegation) /\ Ended(distr', Delegation)
    <3>1. Matches(distr, Delegation) /\ Ended(distr, Delegation)
      BY <2>1 DEF Ledger
    <3> QED BY <3>1, <2>6, <1>0, SameRecords
  <2>8. \A u \in todo' : distr'.commission[u] <= distr'.outstanding[u]
    <3>1. todo \subseteq Validator /\ \A u \in todo : distr.commission[u] <= distr.outstanding[u]
      BY <1>0, <2>1, LoopFacts DEF Ledger, TypeOK
    <3> QED BY <3>1, <2>1, <2>6
  <2>9. TypeOK'
    BY <1>0, <2>1, <2>6, LoopFacts DEF TypeOK
  <2>10. distr'.period = before.distr.period
    BY <2>1, <2>6 DEF Ledger
  <2> QED BY <2>1, <2>7, <2>8, <2>9, <2>10, <1>0 DEF Ledger, Matches, Ended, Starts, LastPeriod
<1>5. CASE EndLoop
  <2>0. LoadedHeight \in Heights
    BY <1>5, LoopFacts DEF EndLoop, Ledger
  <2>1. /\ pc \in DOMAIN Following /\ todo = {} /\ LoadedHeight' \in Heights
        /\ pc' = Following[pc] /\ todo' = Elements(Following[pc])
        /\ UNCHANGED <<args, before, staking, distr>>
    BY <1>0, <1>5, <2>0 DEF EndLoop, Goto
  <2>2. ctxHeight' \in Heights
    BY <1>0, <1>5, <2>0 DEF EndLoop
  <2>3. TypeOK'
    BY <1>0, <2>1, <2>2, LoopFacts DEF TypeOK
  <2>4. CASE pc = "commissions"
    <3>1. pc' = "rewards" /\ todo' = Delegation
      BY <2>1, <2>4, LoopFacts
    <3>2. Matches(distr, Delegation) /\ Ended(distr, Delegation) /\ distr.period = before.distr.period
      BY <2>4 DEF Ledger
    <3>3. ctxHeight' = LoadedHeight'
      BY <1>0, <1>5, <2>4 DEF EndLoop, Ledger
    <3> QED BY <1>0, <2>1, <2>3, <3>1, <3>2, <3>3
            DEF Ledger, RoomLeft, Matches, Ended, Starts, LastPeriod
  <2>5. CASE pc = "rewards"
    <3>1. pc' = "clear" /\ Matches(distr, Delegation) /\ Ended(distr, Delegation)
      BY <2>1, <2>5, LoopFacts DEF Ledger
    <3> QED BY <1>0, <2>1, <2>3, <3>1 DEF Ledger, Matches, Ended, Starts, LastPeriod
  <2>6. CASE pc = "validators"
    <3>1. pc' = "delegations" /\ todo' = Delegation /\ Delegation \ todo' = {}
      BY <2>1, <2>6, LoopFacts
    <3>2. \A v \in Validator :
             /\ distr.slashes[v] = {} /\ distr.period[v] = 1
             /\ \A p \in Periods : distr.refs[v][p] = IF p = 0 THEN 1 ELSE 0
      BY <2>1, <2>6 DEF Ledger
    <3>3. Matches(distr, {})
      <4>1. ASSUME NEW v \in Validator, NEW p \in Periods
            PROVE  /\ Starts(distr, {}, v, p) = {} /\ distr.slashes[v] \cap {p} = {}
                   /\ LastPeriod(distr, v) = 0
        BY <3>2 DEF Starts, LastPeriod
      <4>2. Cardinality({}) = 0
        BY FS_EmptySet
      <4>3. ASSUME NEW v \in Validator, NEW p \in Periods
            PROVE  distr.refs[v][p] = Cardinality(Starts(distr, {}, v, p))
                                      + Cardinality(distr.slashes[v] \cap {p})
                                      + (IF LastPeriod(distr, v) = p THEN 1 ELSE 0)
        <5>1. Cardinality(Starts(distr, {}, v, p)) = 0 /\ Cardinality(distr.slashes[v] \cap {p}) = 0
          BY <4>1, <4>2
        <5> QED BY <3>2, <4>1, <5>1
      <4> QED BY <4>3, Zenon DEF Matches
    <3>4. Ended(distr, {})
      BY <3>2 DEF Ended
    <3>5. RoomLeft(distr, [v \in Validator |-> 1])'
      BY <1>0, <2>1, <3>1, <3>2 DEF RoomLeft
    <3>6. Matches(distr, Delegation \ todo)' /\ Ended(distr, Delegation \ todo)'
      <4> DEFINE D == Delegation \ todo'
      <4>1. D = {} /\ distr' = distr
        BY <2>1, <3>1
      <4> HIDE DEF D
      <4>2. Matches(distr', D) /\ Ended(distr', D)
        BY <3>3, <3>4, <4>1
      <4> QED BY <4>2 DEF D, Matches, Ended, Starts, LastPeriod
    <3> QED BY <1>0, <2>1, <2>3, <3>1, <3>2, <3>5, <3>6 DEF Ledger
  <2>7. CASE pc = "delegations"
    <3>1. pc' = "entries" /\ Delegation \ todo = Delegation
      BY <2>1, <2>7, LoopFacts
    <3>2. Matches(distr, Delegation) /\ Ended(distr, Delegation)
      BY <2>7, <3>1 DEF Ledger
    <3> QED BY <1>0, <2>1, <2>3, <3>1, <3>2 DEF Ledger, Matches, Ended, Starts, LastPeriod
  <2>8. CASE pc \in {"entries", "jail"}
    <3>1. pc' \in {"jail", "export"} /\ Matches(distr, Delegation) /\ Ended(distr, Delegation)
      BY <2>1, <2>8, LoopFacts DEF Ledger
    <3> QED BY <1>0, <2>1, <2>3, <3>1 DEF Ledger, Matches, Ended, Starts, LastPeriod
  <2> QED BY <2>1, <2>4, <2>5, <2>6, <2>7, <2>8, LoopFacts
<1>8. ASSUME NEW del \in Delegation, WithdrawRewardsOf(del) PROVE Ledger'
  <2> DEFINE v == del.validator
  <2>1. /\ pc = "rewards" /\ del \in todo /\ todo' = todo \ {del} /\ pc' = pc
        /\ UNCHANGED <<args, before, ctxHeight, staking>>
    BY <1>8 DEF WithdrawRewardsOf, Loop
  <2>2. /\ distr' \in DistrStates /\ Matches(distr', Delegation) /\ Ended(distr', Delegation)
        /\ distr'.period = [distr.period EXCEPT ![v] = @ + 1]
    BY <1>8, WithdrawStep DEF PeriodEnded
  <2>3. /\ todo \subseteq Delegation /\ RoomLeft(distr, before.distr.period)
        /\ \A u \in Validator : distr.period[u] \in Nat
    BY <1>0, <2>1, LoopFacts DEF Ledger, TypeOK, DistrStates
  <2>4. RoomLeft(distr, before.distr.period)'
    <3>1. \A u \in Validator : distr'.period[u] <= distr.period[u] + 1 /\ distr'.period[u] \in Nat
      BY <2>2, <2>3 DEF DistrStates
    <3>2. Cardinality(todo) \in Nat \ {0} /\ Cardinality(todo') = Cardinality(todo) - 1
      BY <2>1, <2>3, LoopRoom
    <3>3. ASSUME NEW u \in Validator
          PROVE  distr'.period[u] + Cardinality(todo') <= before.distr.period[u] + Cardinality(Delegation)
      BY <1>0, <2>3, <3>1, <3>2 DEF RoomLeft
    <3> QED BY <2>1, <3>3 DEF RoomLeft
  <2>5. TypeOK'
    BY <1>0, <2>1, <2>2, LoopFacts DEF TypeOK
  <2> QED BY <1>0, <2>1, <2>2, <2>4, <2>5 DEF Ledger, Matches, Ended, Starts, LastPeriod
<1>9. CASE ClearHistory
  <2>1. /\ pc = "clear" /\ distr' = Cleared(distr) /\ ctxHeight' = 0
        /\ pc' = "validators" /\ todo' = Validator /\ UNCHANGED <<args, before, staking>>
    BY <1>9, LoopFacts DEF ClearHistory, Goto
  <2>2. /\ distr' \in DistrStates
        /\ \A v \in Validator : /\ distr'.slashes[v] = {}
                               /\ \A p \in Periods : distr'.refs[v][p] = 0
    BY <1>0, <2>1, ClearedKeeps
  <2>3. TypeOK'
    BY <1>0, <2>1, <2>2, HeightAssumption, LoopFacts DEF TypeOK, Heights
  <2> QED BY <1>0, <2>1, <2>2, <2>3 DEF Ledger
<1>10. ASSUME NEW v \in Validator, ReinitializeValidator(v) PROVE Ledger'
  <2>1. /\ pc = "validators" /\ v \in todo /\ todo' = todo \ {v} /\ pc' = pc
        /\ distr' = Reinitialized(distr, v)
        /\ UNCHANGED <<args, before, ctxHeight, staking>>
    BY <1>10 DEF ReinitializeValidator, Loop
  <2>2. /\ distr' \in DistrStates /\ distr'.slashes = distr.slashes
        /\ distr'.period = [distr.period EXCEPT ![v] = 1]
        /\ distr'.refs = [distr.refs EXCEPT ![v] = [distr.refs[v] EXCEPT ![0] = 1]]
    BY <1>0, ReinitializeKeeps, <2>1
  <2>3. \A p \in Periods : distr.refs[v][p] = 0
    BY <2>1 DEF Ledger
  <2>4. distr.refs \in [Validator -> [Periods -> 0..2]] /\ distr.period \in [Validator -> Nat]
    BY <1>0 DEF DistrStates
  <2>5. /\ \A u \in Validator : u # v => /\ distr'.refs[u] = distr.refs[u]
                                         /\ distr'.period[u] = distr.period[u]
        /\ distr'.period[v] = 1
        /\ \A p \in Periods : distr'.refs[v][p] = IF p = 0 THEN 1 ELSE 0
    BY <2>2, <2>3, <2>4
  <2>6. TypeOK'
    BY <1>0, <2>1, <2>2, LoopFacts DEF TypeOK
  <2> QED BY <1>0, <2>1, <2>2, <2>5, <2>6 DEF Ledger
<1>14. ASSUME NEW del \in Delegation, ReinitializeDelegation(del) PROVE Ledger'
  <2> DEFINE v == del.validator
  <2>1. /\ pc = "delegations" /\ del \in todo /\ todo' = todo \ {del} /\ pc' = pc
        /\ UNCHANGED <<args, before, ctxHeight, staking>>
    BY <1>14 DEF ReinitializeDelegation, Loop
  <2>2. /\ distr' \in DistrStates
        /\ Matches(distr', Delegation \ todo') /\ Ended(distr', Delegation \ todo')
        /\ distr'.period = [distr.period EXCEPT ![v] = @ + 1]
    BY <1>14, RestartStep DEF PeriodEnded
  <2>3. /\ todo \subseteq Delegation /\ RoomLeft(distr, [u \in Validator |-> 1])
        /\ \A u \in Validator : distr.period[u] >= 1 /\ distr.period[u] \in Nat
    BY <1>0, <2>1, LoopFacts DEF Ledger, TypeOK, DistrStates
  <2>4. /\ RoomLeft(distr, [u \in Validator |-> 1])'
        /\ \A u \in Validator : distr'.period[u] >= 1
    <3>1. \A u \in Validator : /\ distr'.period[u] \in Nat
                               /\ distr'.period[u] \in {distr.period[u], distr.period[u] + 1}
      BY <2>2, <2>3 DEF DistrStates
    <3>2. Cardinality(todo) \in Nat \ {0} /\ Cardinality(todo') = Cardinality(todo) - 1
      BY <2>1, <2>3, LoopRoom
    <3>3. ASSUME NEW u \in Validator
          PROVE  /\ distr'.period[u] + Cardinality(todo') <= 1 + Cardinality(Delegation)
                 /\ distr'.period[u] >= 1
      BY <1>0, <2>3, <3>1, <3>2 DEF RoomLeft
    <3> QED BY <2>1, <3>3 DEF RoomLeft
  <2>5. TypeOK'
    BY <1>0, <2>1, <2>2, LoopFacts DEF TypeOK
  <2>6. Matches(distr, Delegation \ todo)' /\ Ended(distr, Delegation \ todo)'
    BY <2>2 DEF Matches, Ended, Starts, LastPeriod
  <2> QED BY <1>0, <2>1, <2>4, <2>5, <2>6 DEF Ledger
<1> QED
  BY <1>1, <1>2, <1>3, <1>4, <1>5, <1>6, <1>7, <1>8, <1>9, <1>10, <1>11, <1>12, <1>13, <1>14
     DEF Next

\* The loops of the export are always over what they should be, and the stores
\* are what the keepers can leave behind.
THEOREM Typing == Spec => []TypeOK
<1>1. Ledger => TypeOK
  BY DEF Ledger
<1> QED BY <1>1, LedgerInit, LedgerNext, PTL DEF Spec

\* When the stores are exported every reference to a record is counted in it.
THEOREM RecordsCounted == Spec => []RecordsReferenced
<1>1. Ledger => RecordsReferenced
  BY AllDelegations DEF Ledger, Settled, RecordsReferenced
<1> QED BY <1>1, LedgerInit, LedgerNext, PTL DEF Spec

-----------------------------------------------------------------------------
(* The coins *)

\* What one validator has outstanding goes elsewhere.
LEMMA FundsMove ==
    ASSUME NEW d \in DistrStates, NEW e \in DistrStates, NEW v \in Validator,
           \A u \in Validator : u # v => e.outstanding[u] = d.outstanding[u],
           e.community + e.accounts + e.outstanding[v]
             = d.community + d.accounts + d.outstanding[v]
    PROVE  Funds(e) = Funds(d)
<1>1. /\ d.outstanding \in [Validator -> Nat] /\ e.outstanding \in [Validator -> Nat]
      /\ d.community \in Nat /\ d.accounts \in Nat /\ e.community \in Nat /\ e.accounts \in Nat
  BY DEF DistrStates
<1>2. d.outstanding \in [Validator -> Int] /\ e.outstanding \in [Validator -> Int]
  BY <1>1
<1> DEFINE sd == SumFunction(d.outstanding)
           se == SumFunction(e.outstanding)
<1>3. /\ sd \in Int /\ se \in Int
      /\ se = sd + (e.outstanding[v] - d.outstanding[v])
  BY <1>2, FinitelyMany, SumChange
<1>4. d.outstanding[v] \in Nat /\ e.outstanding[v] \in Nat
  BY <1>1
<1> HIDE DEF sd, se
<1>5. d.community + d.accounts + sd = e.community + e.accounts + se
  BY <1>1, <1>3, <1>4
<1> QED BY <1>5 DEF Funds, sd, se

LEMMA FundsSame ==
    ASSUME NEW d, NEW e, SameAmounts(e, d)
    PROVE  Funds(e) = Funds(d)
BY DEF SameAmounts, Funds

LEMMA FundsNext == Ledger /\ [Next]_vars => UNCHANGED Funds(distr)
<1> SUFFICES ASSUME Ledger, [Next]_vars PROVE Funds(distr') = Funds(distr)
  BY DEF Funds
<1>0. Ledger' /\ distr \in DistrStates /\ distr' \in DistrStates
  BY LedgerNext DEF Ledger, TypeOK
<1>1. ASSUME NEW v \in Validator, WithdrawCommissionOf(v) PROVE Funds(distr') = Funds(distr)
  <2>1. distr' = WithdrawCommission(distr, v) /\ distr.commission[v] <= distr.outstanding[v]
    BY <1>1 DEF WithdrawCommissionOf, Loop, Ledger
  <2>2. /\ \A u \in Validator : u # v => distr'.outstanding[u] = distr.outstanding[u]
        /\ distr'.accounts + distr'.outstanding[v] = distr.accounts + distr.outstanding[v]
        /\ distr'.community = distr.community
    BY <1>0, <2>1, CommissionKeeps
  <2>3. /\ distr.outstanding[v] \in Nat /\ distr'.outstanding[v] \in Nat
        /\ distr.community \in Nat /\ distr.accounts \in Nat /\ distr'.accounts \in Nat
    BY <1>0 DEF DistrStates
  <2>4. distr'.community + distr'.accounts + distr'.outstanding[v]
             = distr.community + distr.accounts + distr.outstanding[v]
    BY <2>2, <2>3
  <2> QED BY <1>0, <2>2, <2>4, FundsMove
<1>2. ASSUME NEW del \in Delegation, WithdrawRewardsOf(del) PROVE Funds(distr') = Funds(distr)
  <2> DEFINE v == del.validator
  <2>1. PICK rewards \in 0..distr.outstanding[v] : RewardsPaid(distr', distr, v, rewards)
    BY <1>2, WithdrawStep
  <2>2. /\ v \in Validator /\ distr.outstanding[v] \in Nat
        /\ distr.community \in Nat /\ distr.accounts \in Nat
    BY <1>0, DelegationFields DEF DistrStates
  <2>3. rewards \in Nat /\ Whole(rewards) \in Int
    BY <2>2 DEF Whole, Unit
  <2>4. /\ distr'.outstanding[v] = distr.outstanding[v] - rewards
        /\ \A u \in Validator : u # v => distr'.outstanding[u] = distr.outstanding[u]
        /\ distr'.accounts = distr.accounts + Whole(rewards)
        /\ distr'.community = distr.community + rewards - Whole(rewards)
    <3>1. DOMAIN distr.outstanding = Validator
      BY <1>0 DEF DistrStates
    <3> HIDE DEF v
    <3> QED BY <2>1, <2>2, <3>1 DEF RewardsPaid
  <2> HIDE DEF v
  <2>5. distr'.community + distr'.accounts + distr'.outstanding[v]
             = distr.community + distr.accounts + distr.outstanding[v]
    BY <2>2, <2>3, <2>4
  <2> QED BY <1>0, <2>2, <2>4, <2>5, FundsMove
<1>3. ASSUME NEW v \in Validator, ReinitializeValidator(v) PROVE Funds(distr') = Funds(distr)
  <2>1. distr' = Reinitialized(distr, v)
    BY <1>3 DEF ReinitializeValidator
  <2>2. /\ distr'.outstanding = [distr.outstanding EXCEPT ![v] = 0]
        /\ distr'.community = distr.community + distr.outstanding[v]
        /\ distr'.accounts = distr.accounts
    BY <1>0, <2>1, ReinitializeKeeps
  <2>3. /\ distr.outstanding \in [Validator -> Nat] /\ distr.outstanding[v] \in Nat
        /\ distr.community \in Nat /\ distr.accounts \in Nat
    BY <1>0 DEF DistrStates
  <2>4. /\ distr'.outstanding[v] = 0
        /\ \A u \in Validator : u # v => distr'.outstanding[u] = distr.outstanding[u]
    BY <2>2, <2>3
  <2>5. distr'.community + distr'.accounts + distr'.outstanding[v]
             = distr.community + distr.accounts + distr.outstanding[v]
    BY <2>2, <2>3, <2>4
  <2> QED BY <1>0, <2>4, <2>5, FundsMove
<1>4. ASSUME NEW del \in Delegation, ReinitializeDelegation(del) PROVE Funds(distr') = Funds(distr)
  BY <1>4, RestartStep, FundsSame
<1>5. CASE ClearHistory
  <2>1. distr' = Cleared(distr)
    BY <1>5 DEF ClearHistory
  <2>2. SameAmounts(distr', distr)
    BY <1>0, <2>1, ClearedKeeps
  <2> QED BY <2>2, FundsSame
<1>6. ASSUME UNCHANGED distr PROVE Funds(distr') = Funds(distr)
  BY <1>6
<1> QED
  BY <1>1, <1>2, <1>3, <1>4, <1>5, <1>6
     DEF Next, vars, Refuse, Load, Export, CheckAllowed, EndLoop, Panic, ResetEntry, ResetValidator

\* No call of the export makes a coin or a fraction of one, or loses any.
THEOREM NoCoinLost == Spec => []CoinsKept
<1>1. Init => CoinsKept
  BY DEF Init, CoinsKept
<1>2. CoinsKept /\ Ledger /\ [Next]_vars => CoinsKept'
  <2> SUFFICES ASSUME CoinsKept, Ledger, [Next]_vars PROVE CoinsKept'
    OBVIOUS
  <2>1. before' = before
    BY DEF Next, vars, Refuse, Load, Export, CheckAllowed, EndLoop, ClearHistory, Panic,
           WithdrawCommissionOf, ReinitializeValidator, ResetValidator, WithdrawRewardsOf,
           ReinitializeDelegation, ResetEntry
  <2> QED BY <2>1, FundsNext DEF CoinsKept, Funds
<1> QED BY <1>1, <1>2, LedgerInit, LedgerNext, PTL DEF Spec

-----------------------------------------------------------------------------
(* Panics *)

\* In the loops that need a record of every delegation's validator there is
\* one, if x/distribution knows the delegation.
LEMMA RecordThere ==
    ASSUME Ledger, NEW del \in todo, pc \in {"rewards", "delegations"}, ~HasRecord(distr, del.validator)
    PROVE  pc = "rewards" /\ del \in Delegation /\ distr.starting[del] = NoInfo
<1> DEFINE v == del.validator
           D == IF pc = "rewards" THEN Delegation ELSE Delegation \ todo
<1>1. todo \subseteq Delegation /\ distr \in DistrStates /\ v \in Validator /\ MaxPeriod \in Nat
  BY LoopFacts, DelegationFields, HeightAssumption DEF Ledger, TypeOK
<1>2. D \in SUBSET Delegation /\ Matches(distr, D) /\ Ended(distr, D)
  BY DEF Ledger, Settled
<1>3. distr.period[v] = 0
  <2>1. SUFFICES ASSUME distr.period[v] # 0 PROVE FALSE
    OBVIOUS
  <2>2. distr.period[v] \in 1..MaxPeriod
    BY <2>1, PeriodsLeft
  <2>3. distr.period[v] \in 1..MaxPeriod + 1
    BY <1>1, <2>2
  <2>4. distr.refs[v][LastPeriod(distr, v)] \in 1..2
    <3> HIDE DEF D, v
    <3> QED BY <1>1, <1>2, <2>3, LastReferenced
  <2> QED BY <2>1, <2>4 DEF HasRecord, Unknown
<1>4. pc = "rewards"
  BY <1>1, <1>3 DEF Ledger
<1>5. distr.starting[del].period <= 0 - 1
  BY <1>1, <1>2, <1>3, <1>4 DEF Ended, LastPeriod
<1>6. distr.starting[del] \in {NoInfo} \cup [period : Nat, height : Heights, stake : Nat]
  BY <1>1 DEF DistrStates
<1>7. distr.starting[del] = NoInfo
  <2>1. ASSUME distr.starting[del] \in [period : Nat, height : Heights, stake : Nat] PROVE FALSE
    <3>1. distr.starting[del].period \in Nat
      BY <2>1
    <3> QED BY <1>5, <3>1
  <2> QED BY <1>6, <2>1
<1> QED BY <1>1, <1>4, <1>7

LEMMA PanicInit == Init => PanicInv
BY DEF Init, PanicInv, Cleaning, Zeroed, PanicsExplained

LEMMA PanicNext == PanicInv /\ Ledger /\ [Next]_vars => PanicInv'
<1> SUFFICES ASSUME PanicInv, Ledger, [Next]_vars PROVE PanicInv'
  OBVIOUS
<1> USE DEF Cleaning
<1>0. /\ distr \in DistrStates /\ TypeOK
      /\ AllKnownAsIs' = AllKnownAsIs /\ (\A del \in Delegation : KnownAsIs(del)' = KnownAsIs(del))
      /\ SignerRefused' = SignerRefused /\ LoadedHeight' = LoadedHeight
      /\ args' = args /\ before' = before
  <2>1. args' = args /\ before' = before
    BY DEF Next, vars, Refuse, Load, Export, CheckAllowed, EndLoop, ClearHistory, Panic,
           WithdrawCommissionOf, ReinitializeValidator, ResetValidator, WithdrawRewardsOf,
           ReinitializeDelegation, ResetEntry
  <2> QED BY <2>1 DEF AllKnownAsIs, KnownAsIs, StakeExceeded, SignerRefused, LoadedHeight,
                      Ledger, TypeOK
<1>1. CASE Refuse
  BY <1>0, <1>1 DEF Refuse, PanicInv, PanicsExplained, Zeroed, Failed, NoResult
<1>2. CASE Load
  BY <1>0, <1>2 DEF Load, PanicInv, PanicsExplained, Zeroed
<1>3. CASE Export
  <2>1. pc = "export" /\ pc' = "returned" /\ (result'.height = 0 => args.forZeroHeight)
    <3>1. LoadedHeight \in Nat
      BY <1>3, HeightAssumption DEF Export, Ledger, Heights
    <3> QED BY <1>3, <3>1 DEF Export
  <2> QED BY <1>0, <2>1 DEF PanicInv, PanicsExplained, Zeroed
<1>4. CASE CheckAllowed
  <2>1. pc = "prepare" /\ pc' = "commissions" /\ distr' = distr /\ distr = before.distr
    BY <1>4 DEF CheckAllowed, Goto, Ledger
  <2> QED BY <1>0, <2>1 DEF PanicInv, PanicsExplained, Zeroed
<1>5. CASE EndLoop
  <2>1. /\ pc \in DOMAIN Following /\ todo = {}
        /\ pc' = Following[pc] /\ todo' = Elements(Following[pc]) /\ distr' = distr
    BY <1>5 DEF EndLoop, Goto
  <2>2. CASE pc = "commissions"
    <3>1. pc' = "rewards" /\ todo' = Delegation
      BY <2>1, <2>2, LoopFacts
    <3> QED BY <1>0, <2>1, <2>2, <3>1 DEF PanicInv, PanicsExplained, Zeroed
  <2>3. CASE pc = "rewards"
    <3>1. pc' = "clear" /\ AllKnownAsIs
      BY <2>1, <2>3, LoopFacts DEF PanicInv, AllKnownAsIs
    <3> QED BY <1>0, <3>1 DEF PanicInv, PanicsExplained, Zeroed
  <2>4. CASE pc \in {"validators", "delegations", "entries", "jail"}
    <3>1. pc' \in {"delegations", "entries", "jail", "export"} /\ AllKnownAsIs
      BY <2>1, <2>4, LoopFacts DEF PanicInv
    <3> QED BY <1>0, <3>1 DEF PanicInv, PanicsExplained, Zeroed
  <2> QED BY <2>1, <2>2, <2>3, <2>4, LoopFacts
<1>6. CASE Panic
  <2>1. pc' = "panicked" /\ distr' = distr /\ staking' = staking
    BY <1>6 DEF Panic
  <2>2. CASE pc \in {"call", "prepare"}
    <3>1. SignerRefused \/ BadAddress \in args.allowed
      BY <1>6, <2>2 DEF Panic, Panics
    <3>2. distr = before.distr /\ staking = before.staking
      BY <2>2 DEF PanicInv, Ledger
    <3> QED BY <1>0, <2>1, <3>1, <3>2 DEF PanicInv, PanicsExplained, Zeroed
  <2>3. CASE pc \notin {"call", "prepare"}
    <3>1. PICK del \in todo :
             /\ pc = "rewards"
             /\ \/ distr.starting[del] = NoInfo
                \/ StakeExceeded(distr, del, ctxHeight, staking.stake[del])
      <4>1. PICK del \in todo :
               /\ pc \in {"rewards", "delegations"}
               /\ \/ pc = "rewards" /\ distr.starting[del] = NoInfo
                  \/ pc = "rewards" /\ StakeExceeded(distr, del, ctxHeight, staking.stake[del])
                  \/ ~HasRecord(distr, del.validator)
        BY <1>6, <2>3 DEF Panic, Panics
      <4>2. ~HasRecord(distr, del.validator) => pc = "rewards" /\ distr.starting[del] = NoInfo
        BY <4>1, RecordThere
      <4> QED BY <4>1, <4>2
    <3>2. /\ del \in Delegation /\ distr.starting[del] = before.distr.starting[del]
          /\ ctxHeight = LoadedHeight /\ staking.stake = before.staking.stake
      BY <1>0, <3>1, LoopFacts DEF PanicInv, Ledger, TypeOK
    <3>3. ~KnownAsIs(del)
      BY <3>1, <3>2 DEF KnownAsIs, StakeExceeded
    <3> QED BY <1>0, <2>1, <3>2, <3>3 DEF PanicInv, PanicsExplained, AllKnownAsIs, Zeroed
  <2> QED BY <2>2, <2>3
<1>7. CASE ClearHistory
  <2>1. pc = "clear" /\ pc' = "validators" /\ AllKnownAsIs
    BY <1>7 DEF ClearHistory, Goto, PanicInv
  <2> QED BY <1>0, <2>1 DEF PanicInv, PanicsExplained, Zeroed
<1>8. ASSUME NEW v \in Validator, WithdrawCommissionOf(v) PROVE PanicInv'
  <2>1. /\ pc = "commissions" /\ pc' = pc /\ distr' = WithdrawCommission(distr, v)
        /\ v \in todo /\ distr.commission[v] <= distr.outstanding[v]
    BY <1>8 DEF WithdrawCommissionOf, Loop, Ledger
  <2>2. distr'.starting = distr.starting
    BY <1>0, <2>1, CommissionKeeps
  <2> QED BY <1>0, <2>1, <2>2 DEF PanicInv, PanicsExplained, Zeroed
<1>9. ASSUME NEW v \in Validator, ReinitializeValidator(v) \/ ResetValidator(v) PROVE PanicInv'
  BY <1>0, <1>9 DEF ReinitializeValidator, ResetValidator, Loop, PanicInv, PanicsExplained, Zeroed
<1>10. ASSUME NEW del \in Delegation, WithdrawRewardsOf(del) PROVE PanicInv'
  <2>1. /\ pc = "rewards" /\ pc' = pc /\ del \in todo /\ todo' = todo \ {del}
        /\ distr.starting[del] # NoInfo
        /\ ~StakeExceeded(distr, del, ctxHeight, staking.stake[del])
    BY <1>10 DEF WithdrawRewardsOf, Loop
  <2>2. \A x \in Delegation : x # del => distr'.starting[x] = distr.starting[x]
    BY <1>10, WithdrawStep
  <2>3. \A x \in Delegation :
            IF x \in todo' THEN distr'.starting[x] = before.distr.starting[x]
                           ELSE KnownAsIs(x)
    <3>1. KnownAsIs(del)
      BY <2>1 DEF PanicInv, Ledger, KnownAsIs, StakeExceeded
    <3> QED BY <2>1, <2>2, <3>1 DEF PanicInv
  <2> QED BY <1>0, <2>1, <2>3 DEF PanicInv, PanicsExplained, Zeroed
<1>11. ASSUME NEW del \in Delegation, ReinitializeDelegation(del) PROVE PanicInv'
  BY <1>0, <1>11 DEF ReinitializeDelegation, Loop, PanicInv, PanicsExplained, Zeroed
<1>12. ASSUME NEW e \in Entry, ResetEntry(e) PROVE PanicInv'
  BY <1>0, <1>12 DEF ResetEntry, Loop, PanicInv, PanicsExplained, Zeroed
<1>13. CASE UNCHANGED vars
  BY <1>0, <1>13 DEF vars, PanicInv, PanicsExplained, Zeroed
<1> QED
  BY <1>1, <1>2, <1>3, <1>4, <1>5, <1>6, <1>7, <1>8, <1>9, <1>10, <1>11, <1>12, <1>13 DEF Next

\* Past the checks of the arguments the export panics only over a delegation
\* that a transaction made, or took stake away from, without x/distribution
\* learning of it; and with such a one in the stores it never returns from
\* the export for height zero.
THEOREM OnlyUnknownPanics == Spec => []PanicsExplained
<1>1. PanicInv => PanicsExplained
  BY DEF PanicInv
<1> QED BY <1>1, PanicInit, PanicNext, LedgerInit, LedgerNext, PTL DEF Spec

-----------------------------------------------------------------------------
(* Height zero *)

LEMMA ZeroInit == Init => ZeroInv
BY DEF Init, ZeroInv, ZeroHeight, Zeroed, StartsAfresh, Cleaning

LEMMA ZeroNext == ZeroInv /\ Ledger /\ [Next]_vars => ZeroInv'
<1> SUFFICES ASSUME ZeroInv, Ledger, [Next]_vars PROVE ZeroInv'
  OBVIOUS
<1> USE DEF Cleaning
<1>0. /\ distr \in DistrStates /\ staking \in StakingStates /\ TypeOK
      /\ args' = args /\ before' = before
  BY DEF Next, vars, Refuse, Load, Export, CheckAllowed, EndLoop, ClearHistory, Panic,
         WithdrawCommissionOf, ReinitializeValidator, ResetValidator, WithdrawRewardsOf,
         ReinitializeDelegation, ResetEntry, Ledger, TypeOK
<1>1. CASE Refuse
  BY <1>0, <1>1 DEF Refuse, ZeroInv, ZeroHeight, Zeroed, StartsAfresh, Failed, NoResult, JailedAsListed
<1>2. CASE Load
  BY <1>0, <1>2 DEF Load, ZeroInv, ZeroHeight, Zeroed, StartsAfresh
<1>3. CASE Export
  <2>1. /\ pc = "export" /\ pc' = "returned" /\ (result'.height = 0 => args.forZeroHeight)
        /\ distr' = distr /\ staking' = staking
    <3>1. LoadedHeight \in Nat
      BY <1>3, HeightAssumption DEF Export, Ledger, Heights
    <3> QED BY <1>3, <3>1 DEF Export
  <2>2. ZeroHeight'
    BY <1>0, <2>1 DEF ZeroInv, ZeroHeight, Zeroed, StartsAfresh, JailedAsListed
  <2> QED BY <2>1, <2>2 DEF ZeroInv, Zeroed
<1>4. CASE CheckAllowed
  BY <1>0, <1>4 DEF CheckAllowed, Goto, ZeroInv, ZeroHeight, Zeroed, StartsAfresh
<1>5. CASE EndLoop
  <2>1. /\ pc \in DOMAIN Following /\ todo = {}
        /\ pc' = Following[pc] /\ todo' = Elements(Following[pc])
        /\ distr' = distr /\ staking' = staking
        /\ pc # "delegations" => ctxHeight' = ctxHeight
    BY <1>5 DEF EndLoop, Goto
  <2>2. CASE pc \in {"commissions", "rewards"}
    <3>1. pc' \in {"rewards", "clear"}
      BY <2>1, <2>2, LoopFacts
    <3> QED BY <1>0, <2>1, <2>2, <3>1 DEF ZeroInv, ZeroHeight, Zeroed, StartsAfresh
  <2>3. CASE pc = "validators"
    <3>1. pc' = "delegations" /\ todo' = Delegation
      BY <2>1, <2>3, LoopFacts
    <3> QED BY <1>0, <2>1, <2>3, <3>1 DEF ZeroInv, ZeroHeight, Zeroed, StartsAfresh
  <2>4. CASE pc = "delegations"
    <3>1. pc' = "entries" /\ todo' = Entry
      BY <2>1, <2>4, LoopFacts
    <3> QED BY <1>0, <2>1, <2>4, <3>1 DEF ZeroInv, ZeroHeight, Zeroed, StartsAfresh
  <2>5. CASE pc = "entries"
    <3>1. pc' = "jail" /\ todo' = Validator
      BY <2>1, <2>5, LoopFacts
    <3> QED BY <1>0, <2>1, <2>5, <3>1 DEF ZeroInv, ZeroHeight, Zeroed, StartsAfresh
  <2>6. CASE pc = "jail"
    <3>1. pc' = "export"
      BY <2>1, <2>6, LoopFacts
    <3> QED BY <1>0, <2>1, <2>6, <3>1 DEF ZeroInv, ZeroHeight, Zeroed, StartsAfresh, JailedAsListed
  <2> QED BY <2>1, <2>2, <2>3, <2>4, <2>5, <2>6, LoopFacts
<1>6. CASE Panic
  BY <1>0, <1>6 DEF Panic, ZeroInv, ZeroHeight, Zeroed, StartsAfresh
<1>7. CASE ClearHistory
  <2>1. /\ pc = "clear" /\ pc' = "validators" /\ ctxHeight' = 0 /\ staking' = staking
        /\ distr' = Cleared(distr)
    BY <1>7 DEF ClearHistory, Goto
  <2>2. \A v \in Validator : distr'.slashes[v] = {}
    BY <1>0, <2>1, ClearedKeeps
  <2> QED BY <1>0, <2>1, <2>2 DEF ZeroInv, ZeroHeight, Zeroed, StartsAfresh
<1>8. ASSUME NEW v \in Validator, WithdrawCommissionOf(v) PROVE ZeroInv'
  BY <1>0, <1>8 DEF WithdrawCommissionOf, Loop, ZeroInv, ZeroHeight, Zeroed, StartsAfresh
<1>9. ASSUME NEW del \in Delegation, WithdrawRewardsOf(del) PROVE ZeroInv'
  BY <1>0, <1>9 DEF WithdrawRewardsOf, Loop, ZeroInv, ZeroHeight, Zeroed, StartsAfresh
<1>10. ASSUME NEW v \in Validator, ReinitializeValidator(v) PROVE ZeroInv'
  <2>1. /\ pc = "validators" /\ pc' = pc /\ ctxHeight' = ctxHeight /\ staking' = staking
        /\ distr' = Reinitialized(distr, v)
    BY <1>10 DEF ReinitializeValidator, Loop
  <2>2. distr'.slashes = distr.slashes
    BY <1>0, <2>1, ReinitializeKeeps
  <2> QED BY <1>0, <2>1, <2>2 DEF ZeroInv, ZeroHeight, Zeroed, StartsAfresh
<1>11. ASSUME NEW del \in Delegation, ReinitializeDelegation(del) PROVE ZeroInv'
  <2>1. /\ pc = "delegations" /\ pc' = pc /\ ctxHeight' = ctxHeight /\ staking' = staking
        /\ del \in todo /\ todo' = todo \ {del}
    BY <1>11 DEF ReinitializeDelegation, Loop
  <2>2. /\ distr'.slashes = distr.slashes /\ distr'.starting[del].height = ctxHeight
        /\ distr'.starting[del].stake = staking.stake[del]
        /\ \A x \in Delegation : x # del => distr'.starting[x] = distr.starting[x]
    BY <1>11, RestartStep
  <2> QED BY <1>0, <2>1, <2>2 DEF ZeroInv, ZeroHeight, Zeroed, StartsAfresh
<1>12. ASSUME NEW e \in Entry, ResetEntry(e) PROVE ZeroInv'
  <2>1. /\ pc = "entries" /\ pc' = pc /\ distr' = distr /\ e \in todo /\ todo' = todo \ {e}
        /\ staking' = [staking EXCEPT !.creationHeight[e] = 0]
    BY <1>12 DEF ResetEntry, Loop
  <2>2. /\ staking'.jailed = staking.jailed /\ staking'.stake = staking.stake
        /\ \A x \in Entry : staking'.creationHeight[x] = IF x = e THEN 0 ELSE staking.creationHeight[x]
    BY <1>0, <2>1 DEF StakingStates
  <2> QED BY <1>0, <2>1, <2>2 DEF ZeroInv, ZeroHeight, Zeroed, StartsAfresh
<1>13. ASSUME NEW v \in Validator, ResetValidator(v) PROVE ZeroInv'
  <2> DEFINE j == staking.jailed[v] \/ (args.allowed # {} /\ v \notin args.allowed)
  <2>1. /\ pc = "jail" /\ pc' = pc /\ distr' = distr /\ v \in todo /\ todo' = todo \ {v}
        /\ staking' = [staking EXCEPT !.unbondingHeight[v] = 0, !.jailed[v] = j]
    BY <1>13 DEF ResetValidator, Loop
  <2>2. staking.jailed[v] = before.staking.jailed[v]
    BY <2>1 DEF ZeroInv
  <2> HIDE DEF j
  <2>3. /\ staking'.creationHeight = staking.creationHeight /\ staking'.stake = staking.stake
        /\ staking'.jailed[v] = j /\ staking'.unbondingHeight[v] = 0
        /\ \A u \in Validator : u # v => /\ staking'.jailed[u] = staking.jailed[u]
                                         /\ staking'.unbondingHeight[u] = staking.unbondingHeight[u]
    BY <1>0, <2>1 DEF StakingStates
  <2>4. JailedAsListed(v)'
    BY <1>0, <2>2, <2>3 DEF JailedAsListed, j
  <2>5. /\ todo \subseteq Validator
        /\ \A u \in todo' : staking'.jailed[u] = before.staking.jailed[u]
        /\ \A u \in Validator \ todo' : staking'.unbondingHeight[u] = 0 /\ JailedAsListed(u)'
    <3>1. todo \subseteq Validator
      BY <1>0, <2>1, LoopFacts DEF TypeOK
    <3>2. \A u \in todo' : staking'.jailed[u] = before.staking.jailed[u]
      BY <2>1, <2>3, <3>1 DEF ZeroInv
    <3>3. ASSUME NEW u \in Validator \ todo', u # v
          PROVE  staking'.unbondingHeight[u] = 0 /\ JailedAsListed(u)'
      BY <1>0, <2>1, <2>3, <3>3 DEF ZeroInv, JailedAsListed
    <3> QED BY <2>3, <2>4, <3>1, <3>2, <3>3
  <2> QED BY <1>0, <2>1, <2>3, <2>5 DEF ZeroInv, ZeroHeight, Zeroed, StartsAfresh
<1>14. CASE UNCHANGED vars
  BY <1>0, <1>14 DEF vars, ZeroInv, ZeroHeight, Zeroed, StartsAfresh, JailedAsListed
<1> QED
  BY <1>1, <1>2, <1>3, <1>4, <1>5, <1>6, <1>7, <1>8, <1>9, <1>10, <1>11, <1>12, <1>13, <1>14 DEF Next

\* A genesis for height zero mentions no other height, has every delegation
\* start with the stake that it has, and jails exactly the validators that
\* were jailed or are not on the list.
THEOREM NothingLater == Spec => []ZeroHeight
<1>1. ZeroInv => ZeroHeight
  BY DEF ZeroInv
<1> QED BY <1>1, ZeroInit, ZeroNext, LedgerInit, LedgerNext, PTL DEF Spec
=============================================================================
