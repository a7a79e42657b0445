---------------------------- MODULE GenesisProofs ----------------------------
(***************************************************************************)
(* The genesis an export writes.  Its validators are those the next chain  *)
(* elects, although the allow list jails validators behind the back of the *)
(* power index; its distribution account holds what the module owes; its   *)
(* reference counts are right; and an export ends in a panic only over its *)
(* allow list.                                                             *)
(***************************************************************************)
EXTENDS ZeroHeightExportProofs

Before(tk, S, v) == {u \in S : Precedes(tk, u, v)}

\* The order of the index is linear.
LEMMA IndexOrder ==
    ASSUME NEW tk \in [Validators -> Nat], NEW u \in Validators, NEW v \in Validators,
           NEW w \in Validators
    PROVE  /\ ~Precedes(tk, v, v)
           /\ Precedes(tk, u, v) /\ Precedes(tk, v, w) => Precedes(tk, u, w)
           /\ u = v \/ Precedes(tk, u, v) \/ Precedes(tk, v, u)
<1>1. u \in Nat /\ v \in Nat /\ w \in Nat /\ tk[u] \in Nat /\ tk[v] \in Nat /\ tk[w] \in Nat
  BY ChainAssumption
<1>2. QED
  BY <1>1 DEF Precedes

\* Sets of validators have a first one in that order.
LEMMA FirstOf ==
    ASSUME NEW tk \in [Validators -> Nat], NEW S \in SUBSET Validators, S # {}
    PROVE  \E w \in S : \A u \in S : ~Precedes(tk, u, w)
<1> DEFINE size(v) == Cardinality(Before(tk, S, v))
<1>1. \A v : IsFiniteSet(Before(tk, S, v)) /\ size(v) \in Nat
  <2>1. \A v : Before(tk, S, v) \in SUBSET Validators
    BY DEF Before
  <2>2. QED
    BY <2>1, FS_Subset, FS_CardinalityType, ChainAssumption
<1> HIDE DEF size
<1>2. PICK w \in S : \A v \in S : size(w) =< size(v)
  <2>1. {size(v) : v \in S} \in SUBSET Nat /\ {size(v) : v \in S} # {}
    BY <1>1
  <2>2. PICK x \in {size(v) : v \in S} : \A y \in {size(v) : v \in S} : x =< y
    BY <2>1, Smallest
  <2>3. QED
    BY <2>2
<1>3. ASSUME NEW u \in S, Precedes(tk, u, w) PROVE FALSE
  <2>1. Before(tk, S, u) \in SUBSET Before(tk, S, w)
    BY <1>3, IndexOrder DEF Before
  <2>2. u \in Before(tk, S, w) /\ u \notin Before(tk, S, u)
    BY <1>3, IndexOrder DEF Before
  <2>3. size(u) =< size(w) /\ size(u) # size(w)
    BY <1>1, <2>1, <2>2, FS_Subset DEF size
  <2>4. QED
    BY <1>1, <1>2, <2>3
<1>4. QED
  BY <1>3

\* Validators that are not scanned may leave the index: those that stay are scanned
\* as before, and nobody else moves up.
LEMMA UnscannedDoNotMatter ==
    ASSUME NEW tk \in [Validators -> Nat], NEW P \in SUBSET Validators, NEW A \in SUBSET P,
           Scanned(tk, P) \subseteq A
    PROVE  Scanned(tk, A) = Scanned(tk, P)
<1>1. ASSUME NEW index \in SUBSET Validators, NEW v
      PROVE  v \in Scanned(tk, index) <=>
               /\ v \in index
               /\ Cardinality(Before(tk, index, v)) < MaxValidators
               /\ \A u \in Before(tk, index, v) : tk[u] > 0
  BY DEF Scanned, Before
<1>2. \A v : IsFiniteSet(Before(tk, P, v)) /\ IsFiniteSet(Before(tk, A, v))
  <2>1. \A v : Before(tk, P, v) \in SUBSET Validators /\ Before(tk, A, v) \in SUBSET Validators
    BY DEF Before
  <2>2. QED
    BY <2>1, FS_Subset, ChainAssumption
<1>3. \A v : Cardinality(Before(tk, P, v)) \in Nat /\ Cardinality(Before(tk, A, v)) \in Nat
  BY <1>2, FS_CardinalityType
\* Whoever comes before a scanned validator is scanned.
<1>4. ASSUME NEW v \in Scanned(tk, P), NEW u \in Before(tk, P, v)
      PROVE  u \in Scanned(tk, P)
  <2>1. u \in P /\ v \in P /\ Before(tk, P, u) \in SUBSET Before(tk, P, v)
    BY <1>1, IndexOrder DEF Before
  <2>2. Cardinality(Before(tk, P, u)) =< Cardinality(Before(tk, P, v))
    BY <1>2, <2>1, FS_Subset
  <2>3. QED
    BY <1>1, <1>3, <2>1, <2>2, ChainAssumption
<1>5. ASSUME NEW v \in Scanned(tk, P) PROVE v \in Scanned(tk, A)
  <2>1. Before(tk, A, v) = Before(tk, P, v)
    BY <1>4 DEF Before
  <2>2. QED
    BY <1>1, <2>1
<1>6. ASSUME NEW v \in Scanned(tk, A), v \notin Scanned(tk, P) PROVE FALSE
  <2>1. v \in A /\ P \ Scanned(tk, P) # {}
    BY <1>1, <1>6
  <2>2. PICK w \in P \ Scanned(tk, P) : \A u \in P \ Scanned(tk, P) : ~Precedes(tk, u, w)
    BY <2>1, FirstOf
  <2>3. Before(tk, P, w) \subseteq Scanned(tk, P)
    BY <2>2 DEF Before
  <2>4. w = v \/ Precedes(tk, w, v)
    BY <1>6, <2>1, <2>2, IndexOrder
  <2>5. Before(tk, P, w) \in SUBSET Before(tk, A, v)
    BY <2>1, <2>2, <2>3, <2>4, IndexOrder DEF Before
  <2>6. Cardinality(Before(tk, P, w)) =< Cardinality(Before(tk, A, v))
    BY <1>2, <2>5, FS_Subset
  <2>7. w \in Scanned(tk, P)
    BY <1>1, <1>3, <1>6, <2>2, <2>5, <2>6, ChainAssumption
  <2>8. QED
    BY <2>2, <2>7
<1>7. QED
  BY <1>5, <1>6

-----------------------------------------------------------------------------
(* The invariant. *)

LEMMA InitFilter == Init => FilterInv
BY DEF Init, FilterInv, Filtered

\* The steps that leave the validators, the flags and the genesis alone.
LEMMA QuietFilter ==
    ASSUME FilterInv, UNCHANGED <<status, jailed, tokens, powerIndex, flagVars>>,
           prepared' = prepared,
           pc \notin {"close", "apply", "signing", "export", "exported"},
           pc' \in {"panicked", "commission", "rewards", "validators", "delegations",
                   "redelegations", "unbondings", "flags"},
           pc \in {"commission", "rewards", "validators", "delegations", "redelegations",
                  "unbondings", "flags"}
    PROVE  FilterInv'
BY DEF FilterInv, Filtered, flagVars

LEMMA ExportFilter == TypeOK /\ IInv /\ FilterInv /\ ExportStep => FilterInv'
<1> SUFFICES ASSUME TypeOK, IInv, FilterInv, ExportStep PROVE FilterInv'
  OBVIOUS
<1> USE DEF Goto, chainVars, flagVars, exceptDistr, ContinueOrPanic
<1>1. ASSUME NEW v \in Validators, WithdrawCommission(v) \/ ReinitializeValidator(v)
      PROVE  FilterInv'
  BY <1>1, QuietFilter DEF WithdrawCommission, ReinitializeValidator
<1>2. ASSUME NEW d \in Delegations, WithdrawRewards(d) \/ ReinitializeDelegation(d)
      PROVE  FilterInv'
  BY <1>2, QuietFilter DEF WithdrawRewards, ReinitializeDelegation
<1>3. CASE GetAllDelegations \/ ClearHistory \/ ValidatorsReinitialized \/ RestoreHeight
           \/ ResetRedelegations \/ ResetUnbondings
  BY <1>3, QuietFilter DEF GetAllDelegations, ClearHistory, ValidatorsReinitialized,
     RestoreHeight, ResetRedelegations, ResetUnbondings
<1>4. CASE ResetValidators
  <2>1. \A v \in Validators : ~jailed'[v] => ~jailed[v] /\ (allow # {} => v \in allow)
    BY <1>4 DEF ResetValidators, JailedAfter
  <2>2. {v \in Validators : ~jailed[v]}' \subseteq powerIndex
    BY <1>4, <2>1 DEF ResetValidators, FilterInv
  <2>3. QED
    BY <1>4, <2>1, <2>2 DEF ResetValidators, FilterInv, Filtered
<1>5. ASSUME NEW ok \in CloseOutcomes, CloseIterator(ok) PROVE FilterInv'
  BY <1>5, ExportAssumption DEF CloseIterator, FilterInv, Filtered
<1>6. CASE ApplyValidatorUpdates
  BY <1>6 DEF ApplyValidatorUpdates, JailedInTheWay, FilterInv, Filtered
<1>7. CASE ResetSigningInfos
  BY <1>7 DEF ResetSigningInfos, FilterInv, Filtered
<1>8. CASE WriteGenesis
  BY <1>8 DEF WriteGenesis, FilterInv, Filtered
<1>9. QED
  BY <1>1, <1>2, <1>3, <1>4, <1>5, <1>6, <1>7, <1>8 DEF ExportStep

LEMMA FilterStep == TypeOK /\ IInv /\ FilterInv /\ [Next]_vars => FilterInv'
<1> SUFFICES ASSUME TypeOK, IInv, FilterInv, [Next]_vars PROVE FilterInv'
  OBVIOUS
<1> USE DEF Goto, chainVars, flagVars
<1>1. CASE NextBlock
  BY <1>1 DEF NextBlock, exportVars, FilterInv, Filtered
<1>2. CASE ExportAtHeight
  BY <1>2 DEF ExportAtHeight, IInv, PhaseInv, FilterInv, Filtered
<1>3. ASSUME NEW list \in AllowLists, PrepForZeroHeightGenesis(list) PROVE FilterInv'
  BY <1>3 DEF PrepForZeroHeightGenesis, IInv, BondInv, AsItIs, FilterInv, Filtered
<1>4. CASE StartFromGenesis
  BY <1>4 DEF StartFromGenesis, FilterInv, Filtered
<1>5. CASE UNCHANGED vars
  BY <1>5 DEF vars, exportVars, FilterInv, Filtered
<1>6. QED
  BY <1>1, <1>2, <1>3, <1>4, <1>5, ExportFilter DEF Next

\* The bonded validators are those elected from the index; a jailed one in the index
\* was never scanned, so that the next chain, which indexes only validators that are
\* not jailed, elects the same.
LEMMA FilteredElection ==
    ASSUME TypeOK, IInv, FilterInv, pc = "exported", prepared
    PROVE  GenesisIsElected
<1>1. tokens \in [Validators -> Nat] /\ powerIndex \in SUBSET Validators
  BY DEF TypeOK, ChainTypeOK
<1>2. genesis.validators = Elected(tokens, powerIndex)
  <2>1. height # 0
    BY DEF IInv, PhaseInv, TypeOK, ChainTypeOK
  <2>2. {v \in Validators : status[v] = "Bonded"} = Elected(tokens, powerIndex)
    BY <2>1 DEF IInv, BondInv
  <2>3. QED
    BY <2>2 DEF FilterInv
<1> DEFINE free == {v \in Validators : ~jailed[v]}
<1>3. CASE ~zeroHeight
  BY <1>2, <1>3 DEF IInv, BondInv, AsItIs, FilterInv, GenesisIsElected
<1>4. CASE zeroHeight
  <2>1. /\ free \in SUBSET powerIndex
        /\ \A v \in Scanned(tokens, powerIndex) : ~jailed[v]
        /\ allow # {} => free \subseteq allow
    BY <1>4 DEF FilterInv, Filtered
  <2>2. Scanned(tokens, powerIndex) \subseteq free
    BY <1>1, <2>1 DEF Scanned
  <2>3. Scanned(tokens, free) = Scanned(tokens, powerIndex)
    BY <1>1, <2>1, <2>2, UnscannedDoNotMatter
  <2>4. Elected(tokens, free) = Elected(tokens, powerIndex)
    BY <2>3 DEF Elected
  <2>5. Elected(tokens, free) \subseteq free
    BY ElectedInIndex
  <2>6. QED
    BY <1>2, <2>1, <2>4, <2>5 DEF GenesisIsElected
<1>5. QED
  BY <1>3, <1>4

\* Whatever allow list an export is given, a genesis it completes has the validators
\* that the next chain elects, and no validator that is not on the list.
THEOREM GenesisElectsItsValidators == Spec => []GenesisIsElected
<1>1. TypeOK /\ IInv /\ FilterInv => GenesisIsElected
  BY FilteredElection DEF GenesisIsElected
<1>2. QED
  BY <1>1, InitFilter, FilterStep, TypeCorrect, Invariance, PTL DEF Spec

-----------------------------------------------------------------------------
(* The module account. *)

\* What a reinitialized validator still owed goes to the community pool.
LEMMA ReinitializeValidatorBacked ==
    ASSUME NEW D, Keeper(D), Backed(D, Validators), NEW v \in Validators
    PROVE  Backed(AfterValidatorCreated(DonateOutstanding(D, v), v), Validators)
<1> DEFINE F == DonateOutstanding(D, v)
           E == AfterValidatorCreated(F, v)
<1>1. /\ IsKeeper(D, Validators, Delegations)
      /\ D.vals[v].outstanding \in Nat /\ D.pool \in Nat /\ Unit * D.balance \in Int
  BY RewardsNumbers DEF Keeper
<1>2. /\ F.vals = D.vals /\ F.start = D.start /\ F.balance = D.balance
      /\ F.pool = D.pool + D.vals[v].outstanding
      /\ IsKeeper(F, Validators, Delegations)
  BY <1>1 DEF DonateOutstanding, IsKeeper
<1>3. /\ \A u \in Validators : u # v => E.vals[u].outstanding = D.vals[u].outstanding
      /\ E.vals[v].outstanding = 0 /\ E.balance = D.balance
      /\ E.pool = D.pool + D.vals[v].outstanding
  <2> HIDE DEF F
  <2>1. QED
    BY <1>1, <1>2 DEF AfterValidatorCreated, IsKeeper
<1> HIDE DEF F
<1>4. IsKeeper(E, Validators, Delegations)
  BY <1>2, AfterValidatorCreatedEffect
<1> HIDE DEF E
<1>5. Unit * E.balance - E.vals[v].outstanding - E.pool
        = Unit * D.balance - D.vals[v].outstanding - D.pool
  BY <1>1, <1>3
<1>6. Backed(E, Validators)
  BY <1>1, <1>3, <1>4, <1>5, ChainAssumption, BackingMoves
<1>7. QED
  BY <1>6 DEF E, F

LEMMA InitBacked == Init => FullyBacked
<1> SUFFICES ASSUME Init PROVE FullyBacked
  OBVIOUS
<1>1. /\ \A v \in Validators : distr.vals[v].outstanding = 0
      /\ distr.pool = 0 /\ distr.balance = 0
  BY DEF Init, ChainInit, GenesisRewards
<1>2. QED
  BY <1>1, ChainAssumption, NothingOwed DEF FullyBacked

LEMMA BackedStep == TypeOK /\ FullyBacked /\ [Next]_vars => FullyBacked'
<1> SUFFICES ASSUME TypeOK, FullyBacked, [Next]_vars PROVE FullyBacked'
  OBVIOUS
<1> USE DEF FullyBacked, flagVars, exceptDistr
<1>1. /\ IsKeeper(distr, Validators, Delegations) /\ Keeper(distr)
      /\ ChainTypeOK /\ ctxHeight \in Nat /\ IsFiniteSet(Validators)
  BY ChainAssumption DEF TypeOK, ChainTypeOK, Keeper
<1>2. CASE NextBlock
  BY <1>1, <1>2, BlockKeeps DEF NextBlock, KeepsRecords
<1>3. ASSUME NEW v \in Validators, WithdrawCommission(v) PROVE FullyBacked'
  BY <1>1, <1>3, WithdrawValidatorCommissionBacked DEF WithdrawCommission
<1>4. ASSUME NEW d \in Delegations, WithdrawRewards(d) PROVE FullyBacked'
  <2>1. PICK earned \in Earnable(distr, d, tokens[d[2]], ctxHeight) :
           distr' = WithdrawDelegationRewards(distr, d, tokens[d[2]], earned, ctxHeight)
    BY <1>4 DEF WithdrawRewards
  <2>2. Delegations \in SUBSET Delegations /\ d[2] \in Validators
    BY DelegationTyped
  <2>3. QED
    BY <1>1, <2>1, <2>2, WithdrawDelegationRewardsKeeps
<1>5. CASE ClearHistory
  BY <1>1, <1>5, DeletesBacked DEF ClearHistory
<1>6. ASSUME NEW v \in Validators, ReinitializeValidator(v) PROVE FullyBacked'
  BY <1>1, <1>6, ReinitializeValidatorBacked DEF ReinitializeValidator
<1>7. ASSUME NEW d \in Delegations, ReinitializeDelegation(d) PROVE FullyBacked'
  <2> DEFINE D == IncrementPeriod(distr, d[2], tokens[d[2]])
  <2>1. d[2] \in Validators
    BY DelegationTyped
  <2>2. IsKeeper(D, Validators, Delegations) /\ Backed(D, Validators)
    BY <1>1, <2>1, IncrementPeriodEffect, IncrementPeriodBacked
  <2>3. distr' = InitializeDelegation(D, d, ctxHeight)
    BY <1>7 DEF ReinitializeDelegation
  <2> HIDE DEF D
  <2>4. QED
    BY <1>1, <2>1, <2>2, <2>3, InitializeDelegationBacked
<1>8. CASE UNCHANGED distr
  BY <1>8
<1>9. QED
  BY <1>2, <1>3, <1>4, <1>5, <1>6, <1>7, <1>8 DEF Next, ExportStep, vars, chainVars,
     ExportAtHeight, PrepForZeroHeightGenesis, StartFromGenesis, GetAllDelegations,
     ValidatorsReinitialized, RestoreHeight, ResetRedelegations, ResetUnbondings,
     ResetValidators, CloseIterator, ApplyValidatorUpdates, ResetSigningInfos, WriteGenesis

\* In every state of every chain and of every export, the distribution module account
\* holds exactly what the module owes, whatever the blocks paid and rounded, whoever
\* withdrew and whatever the preparation donated to the community pool.
THEOREM AccountsBalance == Spec => []FullyBacked
BY InitBacked, BackedStep, TypeCorrect, PTL DEF Spec

-----------------------------------------------------------------------------
(* The records of the validators. *)

\* The invariant in the terms of the keeper's lemmas.
LEMMA RecordsOf ==
    RecordsInv <=>
        /\ IsFiniteSet(delegations)
        /\ KnownStarts(distr, Delegations) = delegations
        /\ pc \in {"rewards", "delegations"} => todoDels \subseteq delegations
        /\ \A v \in Validators :
              IF Emptied(v) THEN Untallied(distr.vals[v]) ELSE TallyOf(distr, Restarted, v)
BY DEF RecordsInv, KnownStarts, TallyOf

\* A tallied validator can end its period, and its delegations start from a period
\* that is recorded.
LEMMA TalliedIsRecorded ==
    ASSUME Keeper(distr), NEW dels \in SUBSET Delegations, NEW v \in Validators,
           TallyOf(distr, dels, v)
    PROVE  /\ CanIncrement(distr, v)
           /\ \A d \in dels : d[2] = v => distr.start[d].period \in BagToSet(distr.vals[v].refs)
           /\ BagCardinality(distr.vals[v].refs) =
                 1 + Cardinality({d \in dels : d[2] = v}) + Cardinality(distr.vals[v].slashes)
<1> DEFINE mine == {d \in dels : d[2] = v}
<1>1. Tallied(distr.vals[v], distr.start, mine)
  BY DEF TallyOf
<1>2. /\ IsABag(distr.vals[v].refs) /\ distr.vals[v].period \in Nat \ {0}
      /\ \A d \in mine : distr.start[d].period \in Nat
  BY RecordTypes DEF Keeper
<1>3. /\ distr.vals[v].period - 1 \in BagToSet(distr.vals[v].refs)
      /\ \A d \in mine : distr.start[d].period \in BagToSet(distr.vals[v].refs)
  <2> HIDE DEF mine
  <2>1. QED
    BY <1>1, <1>2, TallyRecords
<1>4. BagCardinality(distr.vals[v].refs) =
         1 + Cardinality(mine) + Cardinality(distr.vals[v].slashes)
  BY <1>1 DEF Tallied
<1>5. QED
  BY <1>3, <1>4 DEF CanIncrement

LEMMA InitRecords == Init => RecordsInv
<1> SUFFICES ASSUME Init PROVE RecordsInv
  OBVIOUS
<1> USE DEF Init, ChainInit
<1>1. /\ delegations = {<<Operator[v], v>> : v \in Validators}
      /\ delegations \in SUBSET Delegations
  BY ChainAssumption DEF Delegations
<1>2. IsFiniteSet(delegations)
  BY <1>1, ChainAssumption, SelfDelegationsFinite
<1>3. KnownStarts(distr, Delegations) = delegations
  BY <1>1 DEF KnownStarts
<1>4. ASSUME NEW v \in Validators PROVE TallyOf(distr, Restarted, v)
  <2>1. {d \in delegations : d[2] = v} = {<<Operator[v], v>>}
    BY <1>1
  <2>2. distr.start[<<Operator[v], v>>].period = 1 /\ distr.vals[v] = GenesisRewards
    BY <1>1
  <2>3. Restarted = delegations
    BY DEF Restarted
  <2>4. QED
    BY <2>1, <2>2, <2>3, TallyAtGenesis DEF TallyOf
<1>5. \A v \in Validators : ~Emptied(v)
  BY DEF Emptied
<1>6. QED
  BY <1>2, <1>3, <1>4, <1>5, RecordsOf

\* The steps that leave the records alone.
LEMMA QuietRecords ==
    ASSUME RecordsInv, UNCHANGED <<distr, delegations>>, Restarted' = Restarted,
           \A v \in Validators : Emptied(v)' = Emptied(v),
           pc' \in {"rewards", "delegations"} => todoDels' \subseteq delegations
    PROVE  RecordsInv'
BY DEF RecordsInv

\* Emptying, restarting and refilling the records in the order of the phases keeps
\* the invariant; in particular no loop panics over a missing reference.
LEMMA RecordsStep == TypeOK /\ RecordsInv /\ [Next]_vars => RecordsInv'
<1> SUFFICES ASSUME TypeOK, RecordsInv, [Next]_vars PROVE RecordsInv'
  OBVIOUS
<1> USE DEF Goto, flagVars, exceptDistr
<1>1. /\ Keeper(distr) /\ IsKeeper(distr, Validators, Delegations)
      /\ ChainTypeOK /\ ctxHeight \in Nat /\ IsFiniteSet(Validators)
      /\ delegations \in SUBSET Delegations
  BY ChainAssumption DEF TypeOK, ChainTypeOK, Keeper
<1>2. /\ IsFiniteSet(delegations)
      /\ KnownStarts(distr, Delegations) = delegations
      /\ pc \in {"rewards", "delegations"} => todoDels \subseteq delegations
      /\ \A v \in Validators :
            IF Emptied(v) THEN Untallied(distr.vals[v]) ELSE TallyOf(distr, Restarted, v)
  BY RecordsOf
<1>3. CASE NextBlock
  <2>1. pc = "chain" /\ pc' = "chain" /\ KeepsRecords(Validators)
    BY <1>1, <1>3, BlockKeeps DEF NextBlock, exportVars
  <2>2. \A v \in Validators : TallyOf(distr, delegations, v)
    BY <1>2, <2>1 DEF Emptied, Restarted
  <2>3. /\ IsFiniteSet(delegations') /\ KnownStarts(distr', Delegations) = delegations'
        /\ \A v \in Validators : TallyOf(distr', delegations', v)
    BY <1>2, <2>1, <2>2 DEF KeepsRecords
  <2>4. Restarted' = delegations' /\ \A v \in Validators : ~Emptied(v)'
    BY <2>1 DEF Restarted, Emptied
  <2>5. QED
    BY <2>1, <2>3, <2>4 DEF RecordsInv, KnownStarts, TallyOf
<1>4. ASSUME NEW v \in Validators, WithdrawCommission(v) PROVE RecordsInv'
  <2>1. /\ pc = "commission" /\ pc' = "commission" /\ delegations' = delegations
        /\ distr' = WithdrawValidatorCommission(distr, v)
    BY <1>4 DEF WithdrawCommission
  <2>2. distr'.start = distr.start
    BY <2>1 DEF WithdrawValidatorCommission, WithdrawWhole
  <2>3. \A u \in Validators : TallyOf(distr, delegations, u)
    BY <1>2, <2>1 DEF Emptied, Restarted
  <2>4. \A u \in Validators : TallyOf(distr', delegations, u)
    BY <1>1, <2>1, <2>3, RewardsTallied
  <2>5. Restarted' = delegations /\ \A u \in Validators : ~Emptied(u)'
    BY <2>1 DEF Restarted, Emptied
  <2>6. QED
    BY <1>2, <2>1, <2>2, <2>4, <2>5 DEF RecordsInv, KnownStarts, TallyOf
<1>5. ASSUME NEW d \in Delegations, WithdrawRewards(d) PROVE RecordsInv'
  <2>1. PICK earned \in Earnable(distr, d, tokens[d[2]], ctxHeight) :
           distr' = WithdrawDelegationRewards(distr, d, tokens[d[2]], earned, ctxHeight)
    BY <1>5 DEF WithdrawRewards
  <2>2. /\ pc = "rewards" /\ pc' \in {"rewards", "panicked"} /\ delegations' = delegations
        /\ d \in delegations /\ todoDels' \subseteq delegations /\ d[2] \in Validators
    BY <1>2, <1>5, DelegationTyped DEF WithdrawRewards, FirstDel, ContinueOrPanic
  <2>3. \A u \in Validators : TallyOf(distr, delegations, u)
    BY <1>2, <2>2 DEF Emptied, Restarted
  <2>4. /\ \A u \in Validators : TallyOf(distr', delegations, u)
        /\ KnownStarts(distr', Delegations) = KnownStarts(distr, Delegations)
    BY <1>1, <2>1, <2>2, <2>3, WithdrawDelegationRewardsKeeps
  <2>5. Restarted' = delegations /\ \A u \in Validators : ~Emptied(u)'
    BY <2>2 DEF Restarted, Emptied
  <2>6. QED
    BY <1>2, <2>2, <2>4, <2>5 DEF RecordsInv, KnownStarts, TallyOf
<1>6. CASE ClearHistory
  <2>1. /\ pc' = "validators" /\ delegations' = delegations /\ todoVals' = Validators
        /\ distr' = DeleteAllValidatorHistoricalRewards(DeleteAllValidatorSlashEvents(distr))
    BY <1>6 DEF ClearHistory
  <2>2. /\ distr'.start = distr.start
        /\ \A v \in Validators : Untallied(distr'.vals[v])
    BY <1>1, <2>1 DEF DeleteAllValidatorHistoricalRewards, DeleteAllValidatorSlashEvents,
       WithHistory, IsKeeper, Untallied
  <2>3. \A v \in Validators : Emptied(v)'
    BY <2>1 DEF Emptied
  <2>4. QED
    BY <1>2, <2>1, <2>2, <2>3 DEF RecordsInv, KnownStarts
<1>7. ASSUME NEW v \in Validators, ReinitializeValidator(v) PROVE RecordsInv'
  <2>1. /\ pc = "validators" /\ pc' = "validators" /\ delegations' = delegations
        /\ v \in todoVals /\ todoVals' = todoVals \ {v}
        /\ distr' = AfterValidatorCreated(DonateOutstanding(distr, v), v)
    BY <1>7 DEF ReinitializeValidator, FirstVal
  <2>2. /\ distr'.start = distr.start
        /\ \A u \in Validators : u # v => distr'.vals[u] = distr.vals[u]
        /\ distr'.vals[v].refs = SetReference(distr.vals[v].refs, 0)
        /\ distr'.vals[v].period = 1 /\ distr'.vals[v].slashes = distr.vals[v].slashes
    BY <1>1, <2>1 DEF AfterValidatorCreated, DonateOutstanding, IsKeeper
  <2>3. Untallied(distr.vals[v])
    BY <1>2, <2>1 DEF Emptied
  <2>4. Tallied(distr'.vals[v], distr'.start, {})
    BY <2>2, <2>3, TallyCreated
  <2>5. Restarted = {} /\ Restarted' = {}
    BY <2>1 DEF Restarted
  <2>6. ASSUME NEW u \in Validators
        PROVE  IF Emptied(u)' THEN Untallied(distr'.vals[u]) ELSE TallyOf(distr', {}, u)
    <3>1. CASE u = v
      BY <2>1, <2>4, <3>1 DEF Emptied, TallyOf
    <3>2. CASE u # v
      BY <1>2, <2>1, <2>2, <2>5, <3>2 DEF Emptied, TallyOf
    <3>3. QED
      BY <3>1, <3>2
  <2>7. QED
    BY <1>2, <2>1, <2>2, <2>5, <2>6 DEF RecordsInv, KnownStarts, TallyOf
<1>8. ASSUME NEW d \in Delegations, ReinitializeDelegation(d) PROVE RecordsInv'
  <2> DEFINE E == IncrementPeriod(distr, d[2], tokens[d[2]])
             those == delegations \ todoDels
  <2>1. /\ pc = "delegations" /\ delegations' = delegations
        /\ d \in todoDels /\ d \in delegations /\ todoDels' = todoDels \ {d}
        /\ todoDels' \subseteq delegations
        /\ distr' = InitializeDelegation(E, d, ctxHeight)
        /\ d[2] \in Validators
    BY <1>2, <1>8, DelegationTyped DEF ReinitializeDelegation, FirstDel
  <2>2. Restarted = those /\ \A u \in Validators : ~Emptied(u)
    BY <2>1 DEF Restarted, Emptied
  <2>3. \A u \in Validators : TallyOf(distr, those, u)
    BY <1>2, <2>2
  <2>4. pc' = "delegations"
    <3>1. CanIncrement(distr, d[2])
      <4> HIDE DEF those
      <4>1. those \in SUBSET Delegations
        BY <1>1 DEF those
      <4>2. QED
        BY <1>1, <2>1, <2>3, <4>1, TalliedIsRecorded
    <3>2. QED
      BY <1>8, <2>1, <3>1 DEF ReinitializeDelegation, ContinueOrPanic
  <2>5. those \cup {d} = delegations' \ todoDels' /\ d \notin those /\ those \in SUBSET Delegations
    BY <1>1, <2>1
  <2>6. Restarted' = those \cup {d} /\ \A u \in Validators : ~Emptied(u)'
    BY <2>4, <2>5 DEF Restarted, Emptied
  <2>7. /\ \A e \in Delegations : e # d => distr'.start[e] = distr.start[e]
        /\ distr'.start[d].known
    BY <1>1, <2>1 DEF InitializeDelegation, IncrementPeriod, IsKeeper
  <2> HIDE DEF those
  <2>8. IsKeeper(E, Validators, Delegations)
    BY <1>1, <2>1, IncrementPeriodEffect
  <2>9. \A u \in Validators : TallyOf(E, those, u)
    BY <1>1, <2>1, <2>3, <2>5, IncrementPeriodTallied
  <2> HIDE DEF E
  <2>10. \A u \in Validators : TallyOf(distr', those \cup {d}, u)
    BY <1>1, <2>1, <2>5, <2>8, <2>9, InitializeDelegationTallied
  <2>11. KnownStarts(distr', Delegations) = delegations
    BY <1>2, <2>1, <2>7 DEF KnownStarts
  <2>12. QED
    BY <1>2, <2>1, <2>6, <2>10, <2>11 DEF RecordsInv, KnownStarts, TallyOf
<1>9. CASE GetAllDelegations \/ ValidatorsReinitialized \/ RestoreHeight
  BY <1>2, <1>9, QuietRecords DEF GetAllDelegations, ValidatorsReinitialized, RestoreHeight,
     Restarted, Emptied, chainVars
<1>10. CASE \/ ExportAtHeight \/ \E list \in AllowLists : PrepForZeroHeightGenesis(list)
            \/ ResetRedelegations \/ ResetUnbondings \/ ResetValidators
            \/ \E ok \in CloseOutcomes : CloseIterator(ok)
            \/ ApplyValidatorUpdates \/ ResetSigningInfos \/ WriteGenesis \/ StartFromGenesis
  <2>1. /\ UNCHANGED <<distr, delegations>>
        /\ pc \notin {"validators", "delegations"}
        /\ pc' \notin {"rewards", "validators", "delegations"}
    BY <1>10 DEF ExportAtHeight, PrepForZeroHeightGenesis, ResetRedelegations, ResetUnbondings,
       ResetValidators, CloseIterator, ApplyValidatorUpdates, ResetSigningInfos, WriteGenesis,
       StartFromGenesis, chainVars
  <2>2. QED
    BY <2>1, QuietRecords DEF Restarted, Emptied
<1>11. CASE UNCHANGED vars
  BY <1>2, <1>11, QuietRecords DEF Restarted, Emptied, vars, exportVars, chainVars
<1>12. QED
  BY <1>3, <1>4, <1>5, <1>6, <1>7, <1>8, <1>9, <1>10, <1>11 DEF Next, ExportStep

\* A chain that runs, from whichever genesis, and every genesis has right reference
\* counts, exactly the delegations of the store can withdraw, and each of them starts
\* from a period that is recorded.
THEOREM RecordsStayTallied == Spec => []HistoryConsistent
<1>1. TypeOK /\ RecordsInv => HistoryConsistent
  <2> SUFFICES ASSUME TypeOK, RecordsInv, pc \in {"chain", "exported"}
               PROVE  HistoryConsistent
    BY DEF HistoryConsistent
  <2>1. Keeper(distr) /\ delegations \in SUBSET Delegations
    BY DEF TypeOK, ChainTypeOK, Keeper
  <2>2. /\ KnownStarts(distr, Delegations) = delegations
        /\ \A v \in Validators : TallyOf(distr, delegations, v)
    BY RecordsOf DEF Restarted, Emptied
  <2>3. \A v \in Validators : BagCardinality(distr.vals[v].refs) = References(v)
    BY <2>1, <2>2, TalliedIsRecorded DEF References, DelegationsTo
  <2>4. \A d \in delegations : distr.start[d].period \in BagToSet(distr.vals[d[2]].refs)
    BY <2>1, <2>2, TalliedIsRecorded, DelegationTyped
  <2>5. QED
    BY <2>2, <2>3, <2>4 DEF HistoryConsistent, KnownStarts
<1>2. QED
  BY <1>1, InitRecords, RecordsStep, TypeCorrect, PTL DEF Spec

-----------------------------------------------------------------------------
(* How an export may fail. *)

\* InitGenesis of x/distribution finds what it insists on.
LEMMA BackedIsAccepted ==
    ASSUME FullyBacked, Keeper(distr)
    PROVE  Owed \div Unit = distr.balance
<1> DEFINE b == distr.balance
<1>1. b \in Int /\ Unit \in Nat \ {0}
  BY UnitAssumption DEF Keeper, IsKeeper
<1>2. Owed = Unit * b
  BY DEF FullyBacked, Backed, Owed
<1> HIDE DEF b
<1>3. (Unit * b) \div Unit = b
  BY <1>1, Z3
<1>4. QED
  BY <1>2, <1>3 DEF b

\* The loops over rewards find every reference they drop.
LEMMA LoopsDoNotPanic ==
    ASSUME TypeOK, RecordsInv, NEW d \in Delegations,
           WithdrawRewards(d) \/ ReinitializeDelegation(d)
    PROVE  pc' = pc
<1>1. /\ Keeper(distr) /\ delegations \in SUBSET Delegations
      /\ d[2] \in Validators /\ Restarted \in SUBSET Delegations
  BY DelegationTyped DEF TypeOK, ChainTypeOK, Keeper, Restarted, WithdrawRewards,
     ReinitializeDelegation
<1>2. ~Emptied(d[2])
  BY DEF Emptied, WithdrawRewards, ReinitializeDelegation
<1>3. TallyOf(distr, Restarted, d[2])
  BY <1>1, <1>2, RecordsOf
<1>4. CanIncrement(distr, d[2])
  BY <1>1, <1>3, TalliedIsRecorded
<1>5. QED
  BY <1>4 DEF WithdrawRewards, ReinitializeDelegation, ContinueOrPanic

LEMMA InitPanic == Init => PanicInv
BY DEF Init, PanicInv, PanicsAreAllowListed

LEMMA PanicStep ==
    TypeOK /\ FilterInv /\ FullyBacked /\ RecordsInv /\ PanicInv /\ [Next]_vars => PanicInv'
<1> SUFFICES ASSUME TypeOK, FilterInv, FullyBacked, RecordsInv, PanicInv, [Next]_vars
             PROVE  PanicInv'
  OBVIOUS
<1> USE DEF Goto, PanicInv, PanicsAreAllowListed
<1>1. ASSUME NEW list \in AllowLists, PrepForZeroHeightGenesis(list) PROVE PanicInv'
  BY <1>1 DEF PrepForZeroHeightGenesis
<1>2. ASSUME NEW d \in Delegations, WithdrawRewards(d) \/ ReinitializeDelegation(d)
      PROVE  PanicInv'
  <2>1. pc' = pc /\ pc \in {"rewards", "delegations"}
    BY <1>2, LoopsDoNotPanic DEF WithdrawRewards, ReinitializeDelegation
  <2>2. QED
    BY <2>1
<1>3. CASE ResetValidators
  <2>1. /\ powerIndex = {v \in Validators : ~jailed[v]}
        /\ powerIndex' = powerIndex /\ allow' = allow /\ pc' = "close"
        /\ jailed' = [v \in Validators |-> JailedAfter(v)]
    BY <1>3 DEF ResetValidators, FilterInv, flagVars
  <2>2. \A v \in powerIndex' : jailed'[v] => JailedByList(v)'
    BY <2>1 DEF JailedAfter, JailedByList
  <2>3. QED
    BY <2>1, <2>2
<1>4. ASSUME NEW ok \in CloseOutcomes, CloseIterator(ok) PROVE PanicInv'
  BY <1>4 DEF CloseIterator, chainVars, flagVars, JailedByList
<1>5. CASE ApplyValidatorUpdates
  <2>1. /\ pc = "apply" /\ pc' \in {"panicked", "signing"} /\ (pc' = "panicked" => JailedInTheWay)
        /\ tokens' = tokens /\ powerIndex' = powerIndex /\ allow' = allow
    BY <1>5 DEF ApplyValidatorUpdates, flagVars
  <2>2. Scanned(tokens, powerIndex) \subseteq powerIndex
    BY DEF Scanned
  <2>3. \A v \in powerIndex : jailed[v] => allow # {} /\ v \notin allow
    BY <2>1 DEF JailedByList
  <2>4. JailedInTheWay => allow # {} /\ \E v \in Scanned(tokens, powerIndex) : v \notin allow
    BY <2>2, <2>3 DEF JailedInTheWay
  <2>5. QED
    BY <2>1, <2>4
<1>6. CASE StartFromGenesis
  <2>1. Owed \div Unit = distr.balance
    BY BackedIsAccepted DEF TypeOK, ChainTypeOK, Keeper
  <2>2. QED
    BY <1>6, <2>1 DEF StartFromGenesis
<1>7. CASE \/ NextBlock \/ ExportAtHeight
           \/ \E v \in Validators : WithdrawCommission(v) \/ ReinitializeValidator(v)
           \/ GetAllDelegations \/ ClearHistory \/ ValidatorsReinitialized \/ RestoreHeight
           \/ ResetRedelegations \/ ResetUnbondings \/ ResetSigningInfos \/ WriteGenesis
  <2>1. pc' \notin {"close", "apply", "panicked", "refused"}
    BY <1>7 DEF NextBlock, ExportAtHeight, WithdrawCommission, ReinitializeValidator,
       GetAllDelegations, ClearHistory, ValidatorsReinitialized, RestoreHeight,
       ResetRedelegations, ResetUnbondings, ResetSigningInfos, WriteGenesis, exportVars
  <2>2. QED
    BY <2>1
<1>8. CASE UNCHANGED vars
  BY <1>8 DEF vars, exportVars, chainVars, flagVars, JailedByList, Scanned
<1>9. QED
  BY <1>1, <1>2, <1>3, <1>4, <1>5, <1>6, <1>7, <1>8 DEF Next, ExportStep

\* No reward, no rounding and no reference count makes an export panic, and no genesis
\* is refused: an export fails only over an address that does not parse, or over a
\* validator in its way that the allow list jails.
THEOREM OnlyAllowListsPanic == Spec => []PanicsAreAllowListed
<1>1. PanicInv => PanicsAreAllowListed
  BY DEF PanicInv
<1>2. QED
  BY <1>1, InitPanic, PanicStep, InitFilter, FilterStep, AccountsBalance, InitRecords,
     RecordsStep, TypeCorrect, Invariance, PTL DEF Spec
=============================================================================
