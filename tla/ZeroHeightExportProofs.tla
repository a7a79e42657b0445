------------------------ MODULE ZeroHeightExportProofs ------------------------
(***************************************************************************)
(* The invariants of the export, for all constants.  Types first, then the *)
(* history of heights, then the inductive invariant IInv, action by action.*)
(***************************************************************************)
EXTENDS ZeroHeightExport, StakingChainProofs

\* A chain at its genesis has the types.
LEMMA InitTyped == Init => TypeOK
<1> SUFFICES ASSUME Init PROVE TypeOK
  OBVIOUS
<1> USE ChainAssumption, ExportAssumption DEF Init, ChainInit
<1>1. ChainTypeOK
  <2>1. tokens \in [Validators -> Nat]
    OBVIOUS
  <2>2. status \in [Validators -> Statuses]
    BY DEF Statuses
  <2>3. delegations \subseteq Delegations
    BY DEF Delegations
  <2>4. IsRewards(GenesisRewards)
    <3>1. GenesisRewards.refs = [p \in {1} |-> 2]
      BY DEF GenesisRewards, SetToBag, (+)
    <3>2. IsABag(GenesisRewards.refs) /\ BagToSet(GenesisRewards.refs) \subseteq Nat
      BY <3>1 DEF IsABag, BagToSet
    <3>3. QED
      BY <3>2 DEF GenesisRewards, IsRewards, WithHistory
  <2>5. distr.start \in [Delegations -> StartInfos]
    BY DEF StartInfos
  <2>6. IsKeeper(distr, Validators, Delegations)
    BY <2>4, <2>5 DEF IsKeeper
  <2>7. QED
    BY <2>1, <2>2, <2>3, <2>6 DEF ChainTypeOK
<1>2. QED
  BY <1>1 DEF TypeOK, Phases, NoGenesis

\* WithdrawDelegationRewards keeps the keeper's types, also where it panics.
LEMMA WithdrawTyped ==
    ASSUME NEW D, Keeper(D), NEW d \in Delegations, NEW tk, NEW h \in Nat,
           NEW earned \in Earnable(D, d, tk, h)
    PROVE  Keeper(WithdrawDelegationRewards(D, d, tk, earned, h))
<1> DEFINE F == SettleDelegation(D, d, tk, earned)
<1>1. d[2] \in Validators
  BY DelegationTyped
<1>2. Keeper(F)
  BY <1>1, SettleDelegationEffect DEF Keeper
<1>3. Keeper(InitializeDelegation(F, d, h))
  <2> HIDE DEF F
  <2> QED
    BY <1>1, <1>2, InitializeDelegationEffect DEF Keeper
<1>4. QED
  BY <1>3 DEF WithdrawDelegationRewards

\* Every step, of the chain and of the export, keeps the types.
LEMMA StepTyped == TypeOK /\ [Next]_vars => TypeOK'
<1> SUFFICES ASSUME TypeOK, [Next]_vars PROVE TypeOK'
  OBVIOUS
<1> USE DEF Goto, ContinueOrPanic, exportVars, flagVars, chainVars, exceptDistr, Phases
<1>0. Keeper(distr) /\ height \in Nat /\ ctxHeight \in Nat
  BY DEF TypeOK, ChainTypeOK, Keeper
<1>1. CASE NextBlock
  BY <1>1, BlockTyped DEF NextBlock, TypeOK
<1>2. CASE ExportAtHeight
  BY <1>2 DEF ExportAtHeight, TypeOK, ChainTypeOK
<1>3. ASSUME NEW list \in AllowLists, PrepForZeroHeightGenesis(list)
      PROVE  TypeOK'
  BY <1>3, ExportAssumption DEF PrepForZeroHeightGenesis, TypeOK, ChainTypeOK
<1>4. ASSUME NEW v \in Validators, WithdrawCommission(v)
      PROVE  TypeOK'
  <2>1. IsKeeper(distr', Validators, Delegations)
    BY <1>0, <1>4, WithdrawValidatorCommissionEffect DEF WithdrawCommission, Keeper
  <2>2. QED
    BY <1>4, <2>1 DEF WithdrawCommission, TypeOK, ChainTypeOK
<1>5. CASE GetAllDelegations
  BY <1>5 DEF GetAllDelegations, TypeOK, ChainTypeOK
<1>6. ASSUME NEW d \in Delegations, WithdrawRewards(d)
      PROVE  TypeOK'
  <2>1. PICK earned \in Earnable(distr, d, tokens[d[2]], ctxHeight) :
           distr' = WithdrawDelegationRewards(distr, d, tokens[d[2]], earned, ctxHeight)
    BY <1>6 DEF WithdrawRewards
  <2>2. IsKeeper(distr', Validators, Delegations)
    BY <1>0, <2>1, WithdrawTyped DEF Keeper
  <2>3. QED
    BY <1>6, <2>2 DEF WithdrawRewards, TypeOK, ChainTypeOK
<1>7. CASE ClearHistory
  <2>1. IsKeeper(distr', Validators, Delegations)
    BY <1>0, <1>7, DeletesEffect DEF ClearHistory, Keeper
  <2>2. QED
    BY <1>7, <2>1 DEF ClearHistory, TypeOK, ChainTypeOK
<1>8. ASSUME NEW v \in Validators, ReinitializeValidator(v)
      PROVE  TypeOK'
  <2>1. Keeper(DonateOutstanding(distr, v))
    <3>1. IsRewards(distr.vals[v])
      BY <1>0 DEF Keeper, IsKeeper
    <3>2. distr.vals[v].outstanding \in Nat
      BY <3>1 DEF IsRewards
    <3>3. QED
      BY <1>0, <3>2 DEF DonateOutstanding, Keeper, IsKeeper
  <2>2. IsKeeper(distr', Validators, Delegations)
    BY <1>8, <2>1, AfterValidatorCreatedEffect DEF ReinitializeValidator, Keeper
  <2>3. QED
    BY <1>8, <2>2 DEF ReinitializeValidator, TypeOK, ChainTypeOK
<1>9. CASE ValidatorsReinitialized
  BY <1>9 DEF ValidatorsReinitialized, TypeOK, ChainTypeOK
<1>10. ASSUME NEW d \in Delegations, ReinitializeDelegation(d)
       PROVE  TypeOK'
  <2>1. Keeper(IncrementPeriod(distr, d[2], tokens[d[2]]))
    BY <1>0, DelegationTyped, IncrementPeriodEffect DEF Keeper
  <2>2. IsKeeper(distr', Validators, Delegations)
    BY <1>0, <1>10, <2>1, DelegationTyped, InitializeDelegationEffect
       DEF ReinitializeDelegation, Keeper
  <2>3. QED
    BY <1>10, <2>2 DEF ReinitializeDelegation, TypeOK, ChainTypeOK
<1>11. CASE RestoreHeight
  BY <1>11 DEF RestoreHeight, TypeOK, ChainTypeOK
<1>12. CASE ResetRedelegations
  <2>1. red' \subseteq Redelegations
    BY <1>12 DEF ResetRedelegations, TypeOK, ChainTypeOK, Redelegations
  <2>2. QED
    BY <1>12, <2>1 DEF ResetRedelegations, TypeOK, ChainTypeOK
<1>13. CASE ResetUnbondings
  <2>1. ubd' \subseteq Unbondings
    BY <1>13 DEF ResetUnbondings, TypeOK, ChainTypeOK, Unbondings
  <2>2. QED
    BY <1>13, <2>1 DEF ResetUnbondings, TypeOK, ChainTypeOK
<1>14. CASE ResetValidators
  <2>1. jailed' \in [Validators -> BOOLEAN]
    BY <1>14 DEF ResetValidators, JailedAfter, TypeOK, ChainTypeOK
  <2>2. QED
    BY <1>14, <2>1 DEF ResetValidators, TypeOK, ChainTypeOK
<1>15. ASSUME NEW ok \in CloseOutcomes, CloseIterator(ok)
       PROVE  TypeOK'
  BY <1>15, ExportAssumption DEF CloseIterator, TypeOK, ChainTypeOK
<1>16. CASE ApplyValidatorUpdates
  <2>1. CASE JailedInTheWay
    BY <1>16, <2>1 DEF ApplyValidatorUpdates, TypeOK, ChainTypeOK
  <2>2. CASE ~JailedInTheWay
    BY <1>0, <1>16, <2>2, BondElectedTyped DEF ApplyValidatorUpdates, TypeOK, ChainTypeOK
  <2>3. QED
    BY <2>1, <2>2
<1>17. CASE ResetSigningInfos
  BY <1>17 DEF ResetSigningInfos, TypeOK, ChainTypeOK
<1>18. CASE WriteGenesis
  BY <1>18 DEF WriteGenesis, TypeOK, ChainTypeOK
<1>19. CASE StartFromGenesis
  <2>1. height' \in Nat
    BY <1>19 DEF StartFromGenesis, TypeOK, ChainTypeOK
  <2>2. powerIndex' \subseteq Validators
    BY <1>19 DEF StartFromGenesis, TypeOK, ChainTypeOK
  <2>3. QED
    BY <1>19, <2>1, <2>2 DEF StartFromGenesis, TypeOK, ChainTypeOK, NoGenesis
<1>20. CASE UNCHANGED vars
  BY <1>20 DEF vars, TypeOK, ChainTypeOK
<1>21. QED
  BY <1>1, <1>2, <1>3, <1>4, <1>5, <1>6, <1>7, <1>8, <1>9, <1>10, <1>11, <1>12, <1>13,
     <1>14, <1>15, <1>16, <1>17, <1>18, <1>19, <1>20 DEF Next, ExportStep

\* In every state of every chain that is exported and restarted, all variables
\* have their types: no reward, pool or reference count becomes negative.
THEOREM TypeCorrect == Spec => []TypeOK
BY InitTyped, StepTyped, PTL DEF Spec

-----------------------------------------------------------------------------
(* The keeper's operations and the history they record. *)

\* A history up to a height is one up to any later height, for fewer delegations.
LEMMA HistoryLater ==
    ASSUME NEW D, Keeper(D), NEW dels \in SUBSET Delegations, NEW h \in Nat,
           History(D, dels, h), NEW g \in Nat, h =< g, NEW some \in SUBSET dels
    PROVE  History(D, some, g)
<1>1. \A v \in Validators : D.vals[v].slashes \subseteq Slashes
  BY DEF Keeper, IsKeeper, IsRewards
<1>2. \A d \in dels : D.start[d].height \in Nat
  BY DEF Keeper, IsKeeper, StartInfos
<1>3. QED
  BY <1>1, <1>2 DEF History, Slashes

\* An operation that keeps slash events and starting heights and does not turn
\* back a period keeps the history.
LEMMA HistoryKept ==
    ASSUME NEW D, Keeper(D), NEW E, Keeper(E),
           NEW dels \in SUBSET Delegations, NEW h \in Nat, History(D, dels, h),
           \A d \in dels : /\ E.start[d].height = D.start[d].height
                           /\ E.start[d].period = D.start[d].period,
           \A v \in Validators : /\ E.vals[v].slashes = D.vals[v].slashes
                                 /\ E.vals[v].period >= D.vals[v].period
    PROVE  History(E, dels, h)
<1>1. \A v \in Validators : D.vals[v].slashes \subseteq Slashes
  BY DEF Keeper, IsKeeper, IsRewards
<1>2. \A v \in Validators : D.vals[v].period \in Nat /\ E.vals[v].period \in Nat
  BY DEF Keeper, IsKeeper, IsRewards
<1>3. \A d \in dels : d[2] \in Validators
  BY DelegationTyped
<1>4. QED
  BY <1>1, <1>2, <1>3 DEF History, Slashes

\* Ending a period keeps the history.
LEMMA HistoryIncrement ==
    ASSUME NEW D, Keeper(D), NEW dels \in SUBSET Delegations, NEW h \in Nat,
           History(D, dels, h), NEW v \in Validators, NEW tk
    PROVE  /\ Keeper(IncrementPeriod(D, v, tk))
           /\ History(IncrementPeriod(D, v, tk), dels, h)
<1> DEFINE E == IncrementPeriod(D, v, tk)
<1>1. /\ Keeper(E)
      /\ E.start = D.start
      /\ E.vals[v].period = D.vals[v].period + 1
      /\ E.vals[v].slashes = D.vals[v].slashes
      /\ \A u \in Validators : u # v => E.vals[u] = D.vals[u]
  BY IncrementPeriodEffect DEF Keeper
<1> HIDE DEF E
<1>2. \A u \in Validators : D.vals[u].period \in Nat
  BY DEF Keeper, IsKeeper, IsRewards
<1>3. \A u \in Validators : /\ E.vals[u].slashes = D.vals[u].slashes
                            /\ E.vals[u].period >= D.vals[u].period
  BY <1>1, <1>2
<1>4. History(E, dels, h)
  BY <1>1, <1>3, HistoryKept
<1>5. QED
  BY <1>1, <1>4 DEF E

\* Withdrawing keeps the history.
LEMMA HistorySettle ==
    ASSUME NEW D, Keeper(D), NEW dels \in SUBSET Delegations, NEW h \in Nat,
           History(D, dels, h), NEW d \in Delegations, NEW tk, NEW g,
           NEW earned \in Earnable(D, d, tk, g)
    PROVE  /\ Keeper(SettleDelegation(D, d, tk, earned))
           /\ History(SettleDelegation(D, d, tk, earned), dels, h)
<1> DEFINE E == SettleDelegation(D, d, tk, earned)
           s == D.start[d]
<1>0. d[2] \in Validators
  BY DelegationTyped
<1>1. /\ Keeper(E)
      /\ E.start = [D.start EXCEPT
                      ![d] = [known |-> FALSE, period |-> s.period, height |-> s.height]]
      /\ E.vals[d[2]].period = D.vals[d[2]].period + 1
      /\ E.vals[d[2]].slashes = D.vals[d[2]].slashes
      /\ \A u \in Validators : u # d[2] => E.vals[u] = D.vals[u]
  BY <1>0, SettleDelegationEffect DEF Keeper
<1> HIDE DEF E
<1>2. \A u \in Validators : D.vals[u].period \in Nat
  BY DEF Keeper, IsKeeper, IsRewards
<1>3. \A u \in Validators : /\ E.vals[u].slashes = D.vals[u].slashes
                            /\ E.vals[u].period >= D.vals[u].period
  BY <1>0, <1>1, <1>2
<1>4. \A e \in dels : /\ E.start[e].height = D.start[e].height
                      /\ E.start[e].period = D.start[e].period
  BY <1>1 DEF Keeper, IsKeeper
<1>5. History(E, dels, h)
  BY <1>1, <1>3, <1>4, HistoryKept
<1>6. QED
  BY <1>1, <1>5 DEF E

\* A delegation that starts now has every slash event of its validator behind it.
LEMMA HistoryInitialize ==
    ASSUME NEW D, Keeper(D), NEW dels \in SUBSET Delegations, NEW h \in Nat,
           History(D, dels, h), NEW d \in Delegations, NEW g \in Nat, g =< h
    PROVE  /\ Keeper(InitializeDelegation(D, d, g))
           /\ History(InitializeDelegation(D, d, g), dels \cup {d}, h)
<1> DEFINE E == InitializeDelegation(D, d, g)
           last == D.vals[d[2]].period - 1
<1>0. d[2] \in Validators
  BY DelegationTyped
<1>1. /\ Keeper(E)
      /\ E.start[d] = [known |-> TRUE, period |-> last, height |-> g]
      /\ \A e \in Delegations : e # d => E.start[e] = D.start[e]
      /\ E.vals[d[2]].period = D.vals[d[2]].period
      /\ E.vals[d[2]].slashes = D.vals[d[2]].slashes
      /\ \A u \in Validators : u # d[2] => E.vals[u] = D.vals[u]
  BY <1>0, InitializeDelegationEffect DEF Keeper
<1> HIDE DEF E
<1>2. \A u \in Validators : /\ D.vals[u].period \in Nat
                            /\ D.vals[u].slashes \subseteq Slashes
  BY DEF Keeper, IsKeeper, IsRewards
<1>3. \A u \in Validators : /\ E.vals[u].slashes = D.vals[u].slashes
                            /\ E.vals[u].period = D.vals[u].period
  BY <1>0, <1>1
<1>5. E.start[d].height = g /\ E.start[d].period = last
  BY <1>1
<1>6. \A e \in dels : e # d => E.start[e] = D.start[e]
  BY <1>1
<1>7. \A u \in Validators : \A s \in E.vals[u].slashes :
         s.height =< h /\ s.period < E.vals[u].period
  BY <1>3 DEF History
<1>8. \A s \in E.vals[d[2]].slashes : ~(s.period > last)
  BY <1>0, <1>2, <1>3, <1>7 DEF Slashes
<1>9. \A e \in dels \cup {d} : E.start[e].height =< h
  BY <1>5, <1>6 DEF History
<1>10. \A e \in dels \cup {d} : \A s \in E.vals[e[2]].slashes :
          s.period > E.start[e].period => s.height >= E.start[e].height
  <2>1. TAKE e \in dels \cup {d}
  <2>2. CASE e = d
    BY <1>5, <1>8, <2>2
  <2>3. CASE e # d
    <3>1. e \in dels /\ e[2] \in Validators
      BY <2>3, DelegationTyped
    <3>2. QED
      BY <1>3, <1>6, <2>3, <3>1 DEF History
  <2>4. QED
    BY <2>2, <2>3
<1>11. QED
  BY <1>1, <1>7, <1>9, <1>10 DEF E, History

\* A slash at the next height comes after every delegation's start.
LEMMA HistorySlash ==
    ASSUME NEW D, Keeper(D), NEW dels \in SUBSET Delegations, NEW h \in Nat,
           History(D, dels, h), NEW v \in Validators, NEW tk
    PROVE  History(BeforeValidatorSlashed(D, v, tk, h + 1), dels, h + 1)
<1> DEFINE E == BeforeValidatorSlashed(D, v, tk, h + 1)
           p == D.vals[v].period
           s0 == [height |-> h + 1, period |-> p]
<1>1. /\ E.start = D.start
      /\ E.vals[v].slashes = D.vals[v].slashes \cup {s0}
      /\ E.vals[v].period = p + 1
      /\ \A u \in Validators : u # v => E.vals[u] = D.vals[u]
  BY BeforeValidatorSlashedEffect DEF Keeper
<1> HIDE DEF E
<1>2. \A u \in Validators : /\ D.vals[u].period \in Nat
                            /\ D.vals[u].slashes \subseteq Slashes
  BY DEF Keeper, IsKeeper, IsRewards
<1>3. \A d \in dels : D.start[d].height \in Nat /\ D.start[d].height =< h
  BY DEF History, Keeper, IsKeeper, StartInfos
<1>4. \A d \in dels : E.start[d].height =< h + 1
  BY <1>1, <1>3
<1>5. \A u \in Validators : \A s \in E.vals[u].slashes :
         s.height =< h + 1 /\ s.period < E.vals[u].period
  <2>1. TAKE u \in Validators
  <2>2. TAKE s \in E.vals[u].slashes
  <2>3. CASE s \in D.vals[u].slashes
    <3>1. s.height =< h /\ s.period < D.vals[u].period
      BY <2>3 DEF History
    <3>2. s.height \in Nat /\ s.period \in Nat
      BY <1>2, <2>3 DEF Slashes
    <3>3. QED
      BY <1>1, <1>2, <3>1, <3>2
  <2>4. CASE s \notin D.vals[u].slashes
    <3>1. u = v /\ s = s0
      BY <1>1, <2>4
    <3>2. QED
      BY <1>1, <1>2, <3>1
  <2>5. QED
    BY <2>3, <2>4
<1>6. \A d \in dels : \A s \in E.vals[d[2]].slashes :
         s.period > E.start[d].period => s.height >= E.start[d].height
  <2>1. TAKE d \in dels
  <2>2. TAKE s \in E.vals[d[2]].slashes
  <2>3. d[2] \in Validators
    BY DelegationTyped
  <2>4. CASE s \in D.vals[d[2]].slashes
    BY <1>1, <2>4 DEF History
  <2>5. CASE s \notin D.vals[d[2]].slashes
    <3>1. s = s0
      BY <1>1, <2>3, <2>5
    <3>2. QED
      BY <1>1, <1>3, <3>1
  <2>6. QED
    BY <2>4, <2>5
<1>7. QED
  BY <1>4, <1>5, <1>6 DEF E, History

\* A delegation that is made or grows keeps the history and joins it.
LEMMA AddedToHistory ==
    ASSUME NEW D, Keeper(D), NEW dels \in SUBSET Delegations, NEW h \in Nat,
           History(D, dels, h), NEW d \in Delegations, NEW isNew,
           NEW earned, isNew \/ earned \in Earnable(D, d, tokens[d[2]], h)
    PROVE  History(AddedTo(D, d, isNew, earned, h), dels \cup {d}, h)
<1> DEFINE F == IF isNew THEN IncrementPeriod(D, d[2], tokens[d[2]])
                         ELSE SettleDelegation(D, d, tokens[d[2]], earned)
<1>1. d[2] \in Validators
  BY DelegationTyped
<1>2. Keeper(F) /\ History(F, dels, h)
  <2>1. CASE isNew
    BY <1>1, <2>1, HistoryIncrement
  <2>2. CASE ~isNew
    BY <1>1, <2>2, HistorySettle
  <2>3. QED
    BY <2>1, <2>2
<1>3. History(InitializeDelegation(F, d, h), dels \cup {d}, h)
  <2> HIDE DEF F
  <2> QED
    BY <1>2, HistoryInitialize
<1>4. QED
  BY <1>3 DEF AddedTo

\* In a block, everything recorded until now is in the past, and what the block
\* records carries its own height.
LEMMA BlockHistory ==
    ASSUME ChainTypeOK, Block, History(distr, delegations, height)
    PROVE  History(distr', delegations', height + 1)
<1> DEFINE h == height + 1
<1>0. /\ height \in Nat /\ h \in Nat /\ height =< h
      /\ Keeper(distr)
      /\ delegations \in SUBSET Delegations
  BY DEF ChainTypeOK, Keeper
<1>1. \A some \in SUBSET delegations : History(distr, some, h)
  BY <1>0, HistoryLater
<1> HIDE DEF h
<1>2. ASSUME NEW v \in Validators, AllocateRewards(v)
      PROVE  History(distr', delegations', h)
  <2>1. PICK tax \in 0 .. Unit : \E comm \in 0 .. (Unit - tax) :
           distr' = AllocateTokens(distr, v, tax, comm)
    BY <1>2 DEF AllocateRewards
  <2>2. PICK comm \in 0 .. (Unit - tax) : distr' = AllocateTokens(distr, v, tax, comm)
    BY <2>1
  <2>3. /\ Keeper(distr')
        /\ distr'.start = distr.start
        /\ \A u \in Validators : /\ distr'.vals[u].slashes = distr.vals[u].slashes
                                 /\ distr'.vals[u].period = distr.vals[u].period
    BY <1>0, <2>2, AllocateTokensEffect DEF Keeper
  <2>4. \A u \in Validators : distr.vals[u].period \in Nat
    BY <1>0 DEF Keeper, IsKeeper, IsRewards
  <2>5. History(distr', delegations, h)
    BY <1>0, <1>1, <2>3, <2>4, HistoryKept
  <2>6. QED
    BY <1>2, <2>5 DEF AllocateRewards
<1>3. ASSUME NEW v \in Validators, Slash(v)
      PROVE  History(distr', delegations', h)
  <2>1. distr' = BeforeValidatorSlashed(distr, v, tokens[v], height + 1)
    BY <1>3 DEF Slash
  <2>2. QED
    BY <1>0, <1>3, <2>1, HistorySlash DEF Slash, h
<1>4. ASSUME NEW d \in Delegations, Delegate(d)
      PROVE  History(distr', delegations', h)
  <2>1. PICK earned \in (IF d \in delegations
                           THEN Earnable(distr, d, tokens[d[2]], h) ELSE {0}) :
           distr' = AddedTo(distr, d, d \notin delegations, earned, h)
    BY <1>4 DEF Delegate, h
  <2>2. History(distr', delegations \cup {d}, h)
    BY <1>0, <1>1, <2>1, AddedToHistory
  <2>3. QED
    BY <1>4, <2>2 DEF Delegate
<1>5. ASSUME NEW d \in Delegations, Undelegate(d)
      PROVE  History(distr', delegations', h)
  <2>1. PICK earned \in Earnable(distr, d, tokens[d[2]], h) :
           distr' = SettleDelegation(distr, d, tokens[d[2]], earned)
    BY <1>5 DEF Undelegate, h
  <2>2. delegations' = delegations \ {d}
    BY <1>5 DEF Undelegate
  <2>3. History(distr, delegations \ {d}, h)
    BY <1>1
  <2>4. QED
    BY <1>0, <2>1, <2>2, <2>3, HistorySettle
<1>6. ASSUME NEW d \in Delegations, NEW w \in Validators, Redelegate(d, w)
      PROVE  History(distr', delegations', h)
  <2> DEFINE e == <<d[1], w>>
             rest == delegations \ {d}
  <2>1. e \in Delegations /\ e[2] = w
    BY DelegationTyped DEF Delegations
  <2>2. PICK earned \in Earnable(distr, d, tokens[d[2]], h) :
           \E more \in (IF e \in delegations
                          THEN Earnable(SettleDelegation(distr, d, tokens[d[2]], earned),
                                        e, tokens[w], h) ELSE {0}) :
              distr' = AddedTo(SettleDelegation(distr, d, tokens[d[2]], earned),
                               e, e \notin delegations, more, h)
    BY <1>6 DEF Redelegate, h
  <2> DEFINE D == SettleDelegation(distr, d, tokens[d[2]], earned)
  <2>3. rest \in SUBSET Delegations /\ History(distr, rest, h)
    BY <1>0, <1>1
  <2>4. Keeper(D) /\ History(D, rest, h)
    <3> HIDE DEF rest
    <3> QED
      BY <1>0, <2>2, <2>3, HistorySettle
  <2>5. PICK more \in (IF e \in delegations
                         THEN Earnable(D, e, tokens[w], h) ELSE {0}) :
           distr' = AddedTo(D, e, e \notin delegations, more, h)
    BY <2>2
  <2>6. History(distr', rest \cup {e}, h)
    <3> HIDE DEF D, e, rest
    <3> QED
      BY <1>0, <2>1, <2>3, <2>4, <2>5, AddedToHistory
  <2>7. delegations' = rest \cup {e}
    BY <1>6 DEF Redelegate
  <2>8. QED
    BY <2>6, <2>7
<1>7. ASSUME UNCHANGED <<distr, delegations>>
      PROVE  History(distr', delegations', h)
  BY <1>1, <1>7
<1>8. QED
  <2>1. \/ \E v \in Validators : Unjail(v) \/ MatureValidator(v)
        \/ MatureEntries
        => UNCHANGED <<distr, delegations>>
    BY DEF Unjail, MatureValidator, MatureEntries
  <2>2. QED
    BY <1>2, <1>3, <1>4, <1>5, <1>6, <1>7, <2>1 DEF Block, h

-----------------------------------------------------------------------------
(* The inductive invariant. *)

\* After the validator set update the bonded validators are the elected ones.
LEMMA BondElectedBonded ==
    ASSUME NEW h, NEW elected, NEW matured, elected \subseteq Validators,
           BondElected(h, elected, matured)
    PROVE  {v \in Validators : status[v] = "Bonded"}' = elected
BY DEF BondElected

\* Only validators of the power index are elected.
LEMMA ElectedInIndex ==
    ASSUME NEW tk, NEW index
    PROVE  Elected(tk, index) \subseteq index
BY DEF Elected, Scanned

\* The index of a running chain holds the validators that are not jailed.
LEMMA BlockIndex ==
    ASSUME ChainTypeOK, Block, powerIndex = {v \in Validators : ~jailed[v]}
    PROVE  powerIndex' = {v \in Validators : ~jailed[v]}'
<1>1. ASSUME NEW v \in Validators, Slash(v)
      PROVE  powerIndex' = {u \in Validators : ~jailed[u]}'
  BY <1>1 DEF Slash, ChainTypeOK
<1>2. ASSUME NEW v \in Validators, Unjail(v)
      PROVE  powerIndex' = {u \in Validators : ~jailed[u]}'
  BY <1>2 DEF Unjail, ChainTypeOK
<1>3. ASSUME NEW d \in Delegations, Leave(d)
      PROVE  powerIndex' = {u \in Validators : ~jailed[u]}'
  <2>1. jailed' = [jailed EXCEPT ![d[2]] = jailed[d[2]] \/ Operator[d[2]] = d[1]]
    BY <1>3 DEF Leave
  <2>2. d[2] \in Validators
    BY DelegationTyped
  <2>3. CASE Operator[d[2]] = d[1]
    BY <1>3, <2>1, <2>2, <2>3 DEF Leave, ChainTypeOK
  <2>4. CASE Operator[d[2]] # d[1]
    <3>1. jailed' = jailed
      BY <2>1, <2>2, <2>4 DEF ChainTypeOK
    <3>2. QED
      BY <1>3, <2>4, <3>1 DEF Leave
  <2>5. QED
    BY <2>3, <2>4
<1>4. CASE UNCHANGED <<jailed, powerIndex>>
  BY <1>4
<1>5. QED
  BY <1>1, <1>2, <1>3, <1>4
     DEF Block, AllocateRewards, MatureValidator, Delegate, Undelegate, Redelegate, MatureEntries

\* A block keeps the inductive invariant.
LEMMA BlockInv == ChainTypeOK /\ IInv /\ NextBlock => IInv'
<1> SUFFICES ASSUME ChainTypeOK, IInv, NextBlock PROVE IInv'
  OBVIOUS
<1>1. /\ pc = "chain" /\ pc' = "chain"
      /\ zeroHeight' = zeroHeight /\ prepared' = prepared
      /\ Block
  BY DEF NextBlock, exportVars, flagVars
<1>2. ChainTypeOK'
  BY <1>1, BlockTyped
<1>3. PICK matured : BlockValidatorUpdates(matured)
  BY <1>1 DEF Block, AllocateRewards, Slash, Unjail, MatureValidator, Delegate, Undelegate,
              Redelegate, MatureEntries, EndBlock
<1>4. /\ height \in Nat
      /\ height' = height + 1
      /\ BondElected(height + 1, Elected(tokens', powerIndex'), matured)
  BY <1>3 DEF BlockValidatorUpdates, ChainTypeOK
<1>5. AsItIs /\ AsItIs' /\ ~zeroHeight
  BY <1>1 DEF AsItIs, IInv, PhaseInv
<1>6. PhaseInv'
  BY <1>1, <1>5 DEF PhaseInv, AtHeight, AtZero, IInv, NextBlock, exportVars, flagVars
<1>7. RebaseInv'
  BY <1>1 DEF RebaseInv, Past
<1>8. BondInv'
  <2>1. Elected(tokens', powerIndex') \subseteq Validators
    BY <1>2, ElectedInIndex DEF ChainTypeOK
  <2>2. {v \in Validators : status[v] = "Bonded"}' = Elected(tokens', powerIndex')
    BY <1>4, <2>1, BondElectedBonded
  <2>3. powerIndex = {v \in Validators : ~jailed[v]}
    BY <1>5 DEF IInv, BondInv
  <2>4. powerIndex' = {v \in Validators : ~jailed[v]}'
    BY <1>1, <2>3, BlockIndex
  <2>5. QED
    BY <2>2, <2>4 DEF BondInv
<1>9. HeightInv'
  <2>1. /\ StakingHeightsPast
        /\ prepared => SigningHeightsPast
        /\ History(distr, delegations, height)
    BY <1>5 DEF IInv, HeightInv
  <2>2. History(distr', delegations', height')
    BY <1>1, <1>4, <2>1, BlockHistory
  <2>3. \A v \in Validators : unbondingHeight'[v] =< height'
    BY <1>4, <2>1 DEF StakingHeightsPast, BondElected, ChainTypeOK
  <2>4. (prepared => SigningHeightsPast)'
    BY <1>1, <1>4, <2>1 DEF SigningHeightsPast, BondElected, ChainTypeOK
  <2>5. \A e \in ubd' \cup red' : e.height =< height'
    <3>1. \A e \in ubd \cup red : e.height \in Nat /\ e.height =< height
      BY <2>1 DEF StakingHeightsPast, ChainTypeOK, Unbondings, Redelegations
    <3>2. ASSUME NEW d \in Delegations, NEW w, NEW e \in RedelegationEntries(d, w)
          PROVE  e.height =< height + 1
      BY <1>4, <2>1, <3>2, DelegationTyped
         DEF RedelegationEntries, StakingHeightsPast, ChainTypeOK, Statuses
    <3>3. \A e \in (ubd' \cup red') \ (ubd \cup red) : e.height =< height + 1
      <4>1. ASSUME NEW d \in Delegations, Undelegate(d)
            PROVE  \A e \in (ubd' \cup red') \ (ubd \cup red) : e.height =< height + 1
        BY <1>4, <4>1 DEF Undelegate
      <4>2. ASSUME NEW d \in Delegations, NEW w \in Validators, Redelegate(d, w)
            PROVE  \A e \in (ubd' \cup red') \ (ubd \cup red) : e.height =< height + 1
        BY <3>2, <4>2 DEF Redelegate
      <4>3. CASE ubd' \subseteq ubd /\ red' \subseteq red
        BY <4>3
      <4>4. QED
        BY <1>1, <4>1, <4>2, <4>3
           DEF Block, AllocateRewards, Slash, Unjail, MatureValidator, Delegate, MatureEntries
    <3>4. QED
      BY <1>4, <3>1, <3>3
  <2>6. QED
    BY <2>2, <2>3, <2>4, <2>5 DEF HeightInv, StakingHeightsPast
<1>10. QED
  BY <1>6, <1>7, <1>8, <1>9 DEF IInv

\* Each phase of the export keeps the inductive invariant: what a phase rebased
\* stays rebased in the phases that follow.
LEMMA ExportInv == TypeOK /\ IInv /\ ExportStep => IInv'
<1> SUFFICES ASSUME TypeOK, IInv, ExportStep PROVE IInv'
  OBVIOUS
<1> USE DEF Goto, ContinueOrPanic, flagVars, chainVars, exceptDistr
<1> DEFINE Parts == PhaseInv /\ RebaseInv /\ BondInv /\ HeightInv
<1>0. /\ Parts
      /\ ChainTypeOK /\ Keeper(distr)
      /\ height \in Nat /\ ctxHeight \in Nat
      /\ delegations \in SUBSET Delegations
  BY DEF IInv, TypeOK, ChainTypeOK, Keeper
<1> HIDE DEF Parts
\* A step that changes the keeper's state but keeps its history.
<1>1. ASSUME NEW v \in Validators, WithdrawCommission(v)
      PROVE  IInv'
  <2>1. /\ Keeper(distr')
        /\ distr'.start = distr.start
        /\ \A u \in Validators : /\ distr'.vals[u].slashes = distr.vals[u].slashes
                                 /\ distr'.vals[u].period = distr.vals[u].period
    BY <1>0, <1>1, WithdrawValidatorCommissionEffect DEF WithdrawCommission, Keeper
  <2>2. \A u \in Validators : distr.vals[u].period \in Nat
    BY <1>0 DEF Keeper, IsKeeper, IsRewards
  <2>3. History(distr', delegations, height)
    BY <1>0, <2>1, <2>2, HistoryKept DEF Parts, HeightInv
  <2>4. QED
    BY <1>0, <1>1, <2>3
       DEF WithdrawCommission, IInv, Parts, PhaseInv, RebaseInv, BondInv, HeightInv,
           StakingHeightsPast, SigningHeightsPast, AsItIs, Past, AtHeight, AtZero
<1>2. CASE GetAllDelegations
  BY <1>0, <1>2
     DEF GetAllDelegations, IInv, Parts, PhaseInv, RebaseInv, BondInv, HeightInv,
         StakingHeightsPast, SigningHeightsPast, AsItIs, Past, AtHeight, AtZero
<1>3. ASSUME NEW d \in Delegations, WithdrawRewards(d)
      PROVE  IInv'
  <2>1. PICK earned \in Earnable(distr, d, tokens[d[2]], ctxHeight) :
           distr' = WithdrawDelegationRewards(distr, d, tokens[d[2]], earned, ctxHeight)
    BY <1>3 DEF WithdrawRewards
  <2> DEFINE F == SettleDelegation(distr, d, tokens[d[2]], earned)
  <2>2. Keeper(F) /\ History(F, delegations, height)
    BY <1>0, <2>1, HistorySettle DEF Parts, HeightInv
  <2>3. ctxHeight =< height
    BY <1>0, <1>3 DEF Parts, PhaseInv, WithdrawRewards, AtHeight
  <2>4. /\ Keeper(InitializeDelegation(F, d, ctxHeight))
        /\ History(InitializeDelegation(F, d, ctxHeight), delegations \cup {d}, height)
    <3> HIDE DEF F
    <3> QED
      BY <1>0, <2>2, <2>3, HistoryInitialize
  <2>5. History(InitializeDelegation(F, d, ctxHeight), delegations, height)
    <3> HIDE DEF F
    <3> QED
      BY <2>4 DEF History
  <2>6. History(distr', delegations, height)
    BY <1>0, <2>1, <2>5 DEF WithdrawDelegationRewards, Parts, HeightInv
  <2>7. QED
    BY <1>0, <1>3, <2>6
       DEF WithdrawRewards, IInv, Parts, PhaseInv, RebaseInv, BondInv, HeightInv,
           StakingHeightsPast, SigningHeightsPast, AsItIs, Past, AtHeight, AtZero
<1>4. CASE ClearHistory
  <2>1. /\ distr'.start = distr.start
        /\ \A v \in Validators : distr'.vals[v].slashes = {}
    BY <1>0, <1>4, DeletesEffect DEF ClearHistory, Keeper
  <2>2. \A d \in delegations : d[2] \in Validators
    BY <1>0, DelegationTyped
  <2>3. History(distr', delegations, height)
    BY <1>0, <2>1, <2>2 DEF Parts, HeightInv, History
  <2>4. QED
    BY <1>0, <1>4, <2>1, <2>3
       DEF ClearHistory, IInv, Parts, PhaseInv, RebaseInv, BondInv, HeightInv,
           StakingHeightsPast, SigningHeightsPast, AsItIs, Past, AtHeight, AtZero
<1>5. ASSUME NEW v \in Validators, ReinitializeValidator(v)
      PROVE  IInv'
  <2> DEFINE F == DonateOutstanding(distr, v)
  <2>1. Keeper(F) /\ F.start = distr.start /\ F.vals = distr.vals
    <3>1. IsRewards(distr.vals[v])
      BY <1>0 DEF Keeper, IsKeeper
    <3>2. distr.vals[v].outstanding \in Nat
      BY <3>1 DEF IsRewards
    <3>3. QED
      BY <1>0, <3>2 DEF DonateOutstanding, Keeper, IsKeeper
  <2>2. /\ distr'.start = distr.start
        /\ \A u \in Validators : distr'.vals[u].slashes = distr.vals[u].slashes
    <3> HIDE DEF F
    <3>1. distr' = AfterValidatorCreated(F, v)
      BY <1>5 DEF ReinitializeValidator, F
    <3>2. QED
      BY <2>1, <3>1, AfterValidatorCreatedEffect DEF Keeper
  <2>3. \A u \in Validators : distr.vals[u].slashes = {}
    BY <1>0, <1>5 DEF Parts, RebaseInv, Past, ReinitializeValidator
  <2>4. \A d \in delegations : d[2] \in Validators
    BY <1>0, DelegationTyped
  <2>5. History(distr', delegations, height)
    BY <1>0, <2>2, <2>3, <2>4 DEF Parts, HeightInv, History
  <2>6. QED
    BY <1>0, <1>5, <2>2, <2>3, <2>5
       DEF ReinitializeValidator, IInv, Parts, PhaseInv, RebaseInv, BondInv, HeightInv,
           StakingHeightsPast, SigningHeightsPast, AsItIs, Past, AtHeight, AtZero
<1>6. CASE ValidatorsReinitialized
  BY <1>0, <1>6
     DEF ValidatorsReinitialized, IInv, Parts, PhaseInv, RebaseInv, BondInv, HeightInv,
         StakingHeightsPast, SigningHeightsPast, AsItIs, Past, AtHeight, AtZero
<1>7. ASSUME NEW d \in Delegations, ReinitializeDelegation(d)
      PROVE  IInv'
  <2> DEFINE F == IncrementPeriod(distr, d[2], tokens[d[2]])
  <2>1. d[2] \in Validators
    BY DelegationTyped
  <2>2. Keeper(F) /\ History(F, delegations, height)
    BY <1>0, <2>1, HistoryIncrement DEF Parts, HeightInv
  <2>3. /\ F.start = distr.start
        /\ \A u \in Validators : F.vals[u].slashes = distr.vals[u].slashes
    BY <1>0, <2>1, IncrementPeriodEffect DEF Keeper
  <2>4. ctxHeight = 0
    BY <1>0, <1>7 DEF Parts, PhaseInv, ReinitializeDelegation, AtZero
  <2>5. distr' = InitializeDelegation(F, d, 0)
    BY <1>7, <2>4 DEF ReinitializeDelegation
  <2> HIDE DEF F
  <2>6. History(distr', delegations \cup {d}, height)
    BY <1>0, <2>2, <2>5, HistoryInitialize
  <2>7. History(distr', delegations, height)
    BY <2>6 DEF History
  <2>8. /\ distr'.start[d].height = 0
        /\ \A e \in Delegations : e # d => distr'.start[e] = distr.start[e]
        /\ \A u \in Validators : distr'.vals[u].slashes = distr.vals[u].slashes
    <3>1. /\ distr'.start[d] = [known |-> TRUE, period |-> F.vals[d[2]].period - 1, height |-> 0]
          /\ \A e \in Delegations : e # d => distr'.start[e] = F.start[e]
          /\ distr'.vals[d[2]].slashes = F.vals[d[2]].slashes
          /\ \A u \in Validators : u # d[2] => distr'.vals[u] = F.vals[u]
      BY <2>1, <2>2, <2>5, InitializeDelegationEffect DEF Keeper
    <3>2. QED
      BY <2>3, <3>1
  <2>9. \A e \in delegations \ todoDels' : distr'.start[e].height = 0
    BY <1>0, <1>7, <2>8 DEF Parts, RebaseInv, ReinitializeDelegation
  <2>10. QED
    BY <1>0, <1>7, <2>7, <2>8, <2>9
       DEF ReinitializeDelegation, IInv, Parts, PhaseInv, RebaseInv, BondInv, HeightInv,
           StakingHeightsPast, SigningHeightsPast, AsItIs, Past, AtHeight, AtZero
<1>8. CASE RestoreHeight
  BY <1>0, <1>8
     DEF RestoreHeight, IInv, Parts, PhaseInv, RebaseInv, BondInv, HeightInv,
         StakingHeightsPast, SigningHeightsPast, AsItIs, Past, AtHeight, AtZero
<1>9. CASE ResetRedelegations
  <2>1. \A e \in red' : e.height = 0
    BY <1>0, <1>9 DEF ResetRedelegations, ChainTypeOK, Redelegations
  <2>2. QED
    BY <1>0, <1>9, <2>1
       DEF ResetRedelegations, IInv, Parts, PhaseInv, RebaseInv, BondInv, HeightInv,
           StakingHeightsPast, SigningHeightsPast, AsItIs, Past, AtHeight, AtZero
<1>10. CASE ResetUnbondings
  <2>1. \A e \in ubd' : e.height = 0
    BY <1>0, <1>10 DEF ResetUnbondings, ChainTypeOK, Unbondings
  <2>2. QED
    BY <1>0, <1>10, <2>1
       DEF ResetUnbondings, IInv, Parts, PhaseInv, RebaseInv, BondInv, HeightInv,
           StakingHeightsPast, SigningHeightsPast, AsItIs, Past, AtHeight, AtZero
<1>11. CASE ResetValidators
  BY <1>0, <1>11
     DEF ResetValidators, IInv, Parts, PhaseInv, RebaseInv, BondInv, HeightInv,
         StakingHeightsPast, SigningHeightsPast, AsItIs, Past, AtHeight, AtZero
<1>12. ASSUME NEW ok \in CloseOutcomes, CloseIterator(ok)
       PROVE  IInv'
  BY <1>0, <1>12
     DEF CloseIterator, IInv, Parts, PhaseInv, RebaseInv, BondInv, HeightInv,
         StakingHeightsPast, SigningHeightsPast, AsItIs, Past, AtHeight, AtZero
<1>13. CASE ApplyValidatorUpdates
  <2>1. CASE JailedInTheWay
    BY <1>0, <1>13, <2>1
       DEF ApplyValidatorUpdates, IInv, Parts, PhaseInv, RebaseInv, BondInv, HeightInv,
           StakingHeightsPast, SigningHeightsPast, AsItIs, Past, AtHeight, AtZero
  <2>2. CASE ~JailedInTheWay
    <3> DEFINE elected == Elected(tokens, powerIndex)
    <3>1. BondElected(height, elected, {}) /\ ctxHeight = height
      BY <1>0, <1>13, <2>2 DEF ApplyValidatorUpdates, Parts, PhaseInv, AtHeight
    <3>2. elected \subseteq Validators
      BY <1>0, ElectedInIndex DEF ChainTypeOK
    <3> HIDE DEF elected
    <3>3. {v \in Validators : status[v] = "Bonded"}' = elected
      BY <3>1, <3>2, BondElectedBonded
    <3>4. \A v \in Validators : unbondingHeight[v] = 0
      BY <1>0, <1>13 DEF ApplyValidatorUpdates, Parts, RebaseInv, Past
    <3>5. height = 0 \/ \A v \in Validators : status[v] = "Bonded" => v \in elected
      BY <1>0 DEF Parts, BondInv, elected
    <3>6. \A v \in Validators : unbondingHeight'[v] = 0
      BY <3>1, <3>4, <3>5 DEF BondElected
    <3>7. QED
      BY <1>0, <1>13, <2>2, <3>3, <3>6
         DEF ApplyValidatorUpdates, IInv, Parts, PhaseInv, RebaseInv, BondInv, HeightInv,
             StakingHeightsPast, SigningHeightsPast, AsItIs, Past, AtHeight, AtZero, elected
  <2>3. QED
    BY <2>1, <2>2
<1>14. CASE ResetSigningInfos
  BY <1>0, <1>14
     DEF ResetSigningInfos, IInv, Parts, PhaseInv, RebaseInv, BondInv, HeightInv,
         StakingHeightsPast, SigningHeightsPast, AsItIs, Past, AtHeight, AtZero
<1>15. CASE WriteGenesis
  BY <1>0, <1>15
     DEF WriteGenesis, IInv, Parts, PhaseInv, RebaseInv, BondInv, HeightInv,
         StakingHeightsPast, SigningHeightsPast, AsItIs, Past, AtHeight, AtZero
<1>16. QED
  BY <1>1, <1>2, <1>3, <1>4, <1>5, <1>6, <1>7, <1>8, <1>9, <1>10, <1>11, <1>12, <1>13,
     <1>14, <1>15 DEF ExportStep

\* Starting an export, and a chain from its genesis, keep the inductive invariant.
LEMMA OperatorInv ==
    TypeOK /\ IInv => /\ ExportAtHeight => IInv'
                      /\ \A list \in AllowLists : PrepForZeroHeightGenesis(list) => IInv'
                      /\ StartFromGenesis => IInv'
<1> SUFFICES ASSUME TypeOK, IInv
             PROVE  /\ ExportAtHeight => IInv'
                    /\ \A list \in AllowLists : PrepForZeroHeightGenesis(list) => IInv'
                    /\ StartFromGenesis => IInv'
  OBVIOUS
<1> USE DEF Goto, flagVars, chainVars, exceptDistr
<1>0. height \in Nat /\ ChainTypeOK /\ Keeper(distr) /\ genesis.height \in Nat
  BY DEF TypeOK, ChainTypeOK, Keeper
<1>1. ASSUME ExportAtHeight PROVE IInv'
  BY <1>1 DEF ExportAtHeight, IInv, PhaseInv, RebaseInv, BondInv, HeightInv,
              StakingHeightsPast, SigningHeightsPast, AsItIs, Past, AtHeight, AtZero
<1>2. ASSUME NEW list \in AllowLists, PrepForZeroHeightGenesis(list) PROVE IInv'
  BY <1>2 DEF PrepForZeroHeightGenesis, IInv, PhaseInv, RebaseInv, BondInv, HeightInv,
              StakingHeightsPast, SigningHeightsPast, AsItIs, Past, AtHeight, AtZero
<1>3. ASSUME StartFromGenesis PROVE IInv'
  <2>1. PhaseInv' /\ RebaseInv'
    BY <1>3 DEF StartFromGenesis, IInv, PhaseInv, RebaseInv, Past, AtHeight, AtZero
  <2>2. CASE pc' = "refused"
    BY <1>3, <2>1, <2>2
       DEF StartFromGenesis, IInv, BondInv, HeightInv, StakingHeightsPast,
           SigningHeightsPast, AsItIs
  <2>3. CASE pc' # "refused" /\ zeroHeight
    <3>1. /\ pc = "exported" /\ pc' = "chain" /\ height' = 0
          /\ powerIndex' = {v \in Validators : ~jailed[v]}
          /\ UNCHANGED <<status, jailed, tokens, unbondingHeight, delegations, ubd, red,
                         startHeight, distr, prepared>>
      BY <1>3, <2>3 DEF StartFromGenesis, IInv, PhaseInv
    <3>2. BondInv'
      BY <3>1 DEF BondInv
    <3>3. /\ \A v \in Validators : unbondingHeight[v] = 0
          /\ \A e \in ubd \cup red : e.height = 0
          /\ \A v \in Validators : distr.vals[v].slashes = {}
          /\ \A d \in delegations : distr.start[d].height = 0
          /\ prepared => \A v \in Validators : startHeight[v] = 0
      BY <2>3, <3>1 DEF IInv, RebaseInv, Past
    <3>4. \A d \in delegations : d[2] \in Validators
      BY <1>0, DelegationTyped DEF ChainTypeOK
    <3>5. HeightInv'
      BY <3>1, <3>3, <3>4
         DEF HeightInv, StakingHeightsPast, SigningHeightsPast, History
    <3>6. QED
      BY <2>1, <3>2, <3>5 DEF IInv
  <2>4. CASE pc' # "refused" /\ ~zeroHeight
    <3>1. /\ pc = "exported" /\ pc' = "chain" /\ height' = height
          /\ powerIndex' = {v \in Validators : ~jailed[v]}
          /\ UNCHANGED <<status, jailed, tokens, unbondingHeight, delegations, ubd, red,
                         startHeight, distr, prepared>>
      BY <1>0, <1>3, <2>4 DEF StartFromGenesis, IInv, PhaseInv
    <3>2. AsItIs
      BY <2>4, <3>1 DEF AsItIs
    <3>3. powerIndex' = powerIndex
      BY <3>1, <3>2 DEF IInv, BondInv
    <3>4. BondInv' /\ HeightInv'
      BY <3>1, <3>2, <3>3
         DEF IInv, BondInv, HeightInv, StakingHeightsPast, SigningHeightsPast, History
    <3>5. QED
      BY <2>1, <3>4 DEF IInv
  <2>5. QED
    BY <2>2, <2>3, <2>4
<1>4. QED
  BY <1>1, <1>2, <1>3

\* A chain at its genesis satisfies the inductive invariant.
LEMMA InitInv == Init => IInv
<1> SUFFICES ASSUME Init PROVE IInv
  OBVIOUS
<1>1. TypeOK
  BY InitTyped
<1>2. /\ pc = "chain" /\ ~zeroHeight /\ height = 0 /\ genesis = NoGenesis
      /\ ubd = {} /\ red = {}
      /\ \A v \in Validators : /\ unbondingHeight[v] = 0
                               /\ startHeight[v] = 0
                               /\ distr.vals[v].slashes = {}
      /\ \A d \in Delegations : distr.start[d].height = 0
      /\ powerIndex = {v \in Validators : ~jailed[v]}
  BY DEF Init, ChainInit, GenesisRewards
<1>3. \A d \in delegations : d \in Delegations /\ d[2] \in Validators
  BY <1>1, DelegationTyped DEF TypeOK, ChainTypeOK
<1>4. PhaseInv /\ RebaseInv /\ BondInv
  BY <1>2 DEF PhaseInv, RebaseInv, BondInv, Past, AtHeight, AtZero
<1>5. HeightInv
  BY <1>2, <1>3 DEF HeightInv, StakingHeightsPast, SigningHeightsPast, History
<1>6. QED
  BY <1>4, <1>5 DEF IInv

\* The inductive invariant holds in every state.
LEMMA Invariance == Spec => []IInv
<1>1. TypeOK /\ IInv /\ [Next]_vars => IInv'
  <2> SUFFICES ASSUME TypeOK, IInv, [Next]_vars PROVE IInv'
    OBVIOUS
  <2>1. CASE NextBlock
    BY <2>1, BlockInv DEF TypeOK
  <2>2. CASE ExportStep
    BY <2>2, ExportInv
  <2>3. CASE UNCHANGED vars
    BY <2>3 DEF vars, chainVars, exportVars, flagVars, IInv, PhaseInv, RebaseInv, BondInv,
                HeightInv, StakingHeightsPast, SigningHeightsPast, AsItIs, Past
  <2>4. QED
    BY <2>1, <2>2, <2>3, OperatorInv DEF Next
<1>2. QED
  BY <1>1, InitInv, TypeCorrect, PTL DEF Spec

\* However often a chain is exported and restarted, with whatever allow list, no
\* staking, reward or (after a complete preparation) signing height of the running
\* chain lies in its future.
THEOREM HeightsStayPast == Spec => []NoFutureHeights
<1>1. IInv => NoFutureHeights
  BY DEF IInv, HeightInv, NoFutureHeights, RewardHeightsPast, History, AsItIs
<1>2. QED
  BY <1>1, Invariance, PTL

\* A delegation of a running chain sees every slash since it started, although the
\* export deletes slash events and moves starting heights to zero.
THEOREM NoSlashIsMissed == Spec => []SlashesSeen
<1>1. IInv => SlashesSeen
  BY DEF IInv, HeightInv, SlashesSeen, History
<1>2. QED
  BY <1>1, Invariance, PTL

\* A zero-height genesis holds no height of the old chain, whenever the preparation
\* was not cut short by the early return of a failing iterator Close.
THEOREM PreparedExportsStartFresh == Spec => [](prepared => FreshStart)
<1>1. TypeOK /\ IInv => (prepared => FreshStart)
  <2> SUFFICES ASSUME TypeOK, IInv, prepared, pc = "exported", genesis.height = 0
               PROVE  AllHeightsZero
    BY DEF FreshStart
  <2>1. zeroHeight
    BY DEF IInv, PhaseInv, TypeOK, ChainTypeOK
  <2>2. QED
    BY <2>1 DEF IInv, RebaseInv, Past, AllHeightsZero
<1>2. QED
  BY <1>1, TypeCorrect, Invariance, PTL

-----------------------------------------------------------------------------
(* The promise. *)

\* The validator set update at the end of a preparation bonds and unbonds nobody.
LEMMA UpdateChangesNobody ==
    ASSUME TypeOK, IInv, ApplyValidatorUpdates
    PROVE  status' = status
<1>1. /\ pc = "apply" /\ height > 0 /\ height \in Nat
      /\ powerIndex \subseteq Validators
      /\ status \in [Validators -> Statuses]
  BY DEF ApplyValidatorUpdates, IInv, PhaseInv, TypeOK, ChainTypeOK
<1>2. {v \in Validators : status[v] = "Bonded"} = Elected(tokens, powerIndex)
  BY <1>1 DEF IInv, BondInv
<1>3. CASE JailedInTheWay
  BY <1>3 DEF ApplyValidatorUpdates
<1>4. CASE ~JailedInTheWay
  <2>1. BondElected(ctxHeight, Elected(tokens, powerIndex), {})
    BY <1>4 DEF ApplyValidatorUpdates
  <2>2. ASSUME NEW v \in Validators PROVE status'[v] = status[v]
    BY <1>2, <2>1 DEF BondElected
  <2>3. status' \in [Validators -> Statuses]
    BY <1>1, <2>1 DEF BondElected, Statuses
  <2>4. QED
    BY <1>1, <2>2, <2>3
<1>5. QED
  BY <1>3, <1>4

\* Every step of the export leaves stake and bonds alone, and the height too.
LEMMA ExportKeepsStake ==
    ASSUME TypeOK, IInv, ExportStep
    PROVE  UNCHANGED <<height, stakeVars, status>>
<1> USE DEF stakeVars, chainVars, exceptDistr
<1>1. CASE ApplyValidatorUpdates
  BY <1>1, UpdateChangesNobody DEF ApplyValidatorUpdates
<1>2. CASE \/ GetAllDelegations \/ ClearHistory \/ ValidatorsReinitialized \/ RestoreHeight
           \/ ResetRedelegations \/ ResetUnbondings \/ ResetValidators
           \/ ResetSigningInfos \/ WriteGenesis
  BY <1>2 DEF GetAllDelegations, ClearHistory, ValidatorsReinitialized, RestoreHeight,
              ResetRedelegations, ResetUnbondings, ResetValidators, ResetSigningInfos,
              WriteGenesis
<1>3. ASSUME NEW v \in Validators, WithdrawCommission(v) \/ ReinitializeValidator(v)
      PROVE  UNCHANGED <<height, stakeVars, status>>
  BY <1>3 DEF WithdrawCommission, ReinitializeValidator
<1>4. ASSUME NEW d \in Delegations, WithdrawRewards(d) \/ ReinitializeDelegation(d)
      PROVE  UNCHANGED <<height, stakeVars, status>>
  BY <1>4 DEF WithdrawRewards, ReinitializeDelegation
<1>5. ASSUME NEW ok \in CloseOutcomes, CloseIterator(ok)
      PROVE  UNCHANGED <<height, stakeVars, status>>
  BY <1>5 DEF CloseIterator
<1>6. QED
  BY <1>1, <1>2, <1>3, <1>4, <1>5 DEF ExportStep

\* A step of the export is a step inside of the phase, the writing of the genesis, or
\* a panic.
LEMMA ExportPhases ==
    ASSUME TypeOK, IInv, ExportStep
    PROVE  /\ pc \notin {"chain", "exported", "panicked", "refused"}
           /\ zeroHeight' = zeroHeight
           /\ \/ WriteGenesis
              \/ /\ genesis' = genesis
                 /\ pc' \notin {"chain", "exported", "refused"}
<1> USE DEF Goto, ContinueOrPanic, flagVars
<1>1. CASE \/ GetAllDelegations \/ ClearHistory \/ ValidatorsReinitialized \/ RestoreHeight
           \/ ResetRedelegations \/ ResetUnbondings \/ ResetValidators
           \/ ApplyValidatorUpdates \/ ResetSigningInfos \/ WriteGenesis
  BY <1>1 DEF GetAllDelegations, ClearHistory, ValidatorsReinitialized, RestoreHeight,
              ResetRedelegations, ResetUnbondings, ResetValidators, ApplyValidatorUpdates,
              ResetSigningInfos, WriteGenesis
<1>2. ASSUME NEW v \in Validators, WithdrawCommission(v) \/ ReinitializeValidator(v)
      PROVE  /\ pc \notin {"chain", "exported", "panicked", "refused"}
             /\ zeroHeight' = zeroHeight /\ genesis' = genesis
             /\ pc' \notin {"chain", "exported", "refused"}
  BY <1>2 DEF WithdrawCommission, ReinitializeValidator
<1>3. ASSUME NEW d \in Delegations, WithdrawRewards(d) \/ ReinitializeDelegation(d)
      PROVE  /\ pc \notin {"chain", "exported", "panicked", "refused"}
             /\ zeroHeight' = zeroHeight /\ genesis' = genesis
             /\ pc' \notin {"chain", "exported", "refused"}
  BY <1>3 DEF WithdrawRewards, ReinitializeDelegation
<1>4. ASSUME NEW ok \in CloseOutcomes, CloseIterator(ok)
      PROVE  /\ pc \notin {"chain", "exported", "panicked", "refused"}
             /\ zeroHeight' = zeroHeight /\ genesis' = genesis
             /\ pc' \notin {"chain", "exported", "refused"}
  BY <1>4 DEF CloseIterator
<1>5. QED
  BY <1>1, <1>2, <1>3, <1>4 DEF ExportStep

\* An export implements its promise: whatever keepers it rewrites on the way, stake
\* and bonded validators go unchanged from the stopped chain into the next one, and
\* the document is for the height that was asked for.
THEOREM ExportsKeepPromise == Spec => ImplementsPromise
<1> USE DEF Promise!NoDocument, NoGenesis
<1>1. Init => Promise!Init
  BY DEF Init, ChainInit, Promise!Init
<1>2. TypeOK /\ IInv /\ [Next]_vars => [Promise!Next]_Promise!vars
  <2> SUFFICES ASSUME TypeOK, IInv, [Next]_vars
               PROVE  Promise!Next \/ UNCHANGED Promise!vars
    BY DEF Promise!vars
  <2>0. /\ height \in Nat
        /\ pc # "chain" => height > 0
        /\ pc = "chain" => ~zeroHeight
        /\ pc # "exported" => genesis = NoGenesis
        /\ pc = "exported" => genesis.height = IF zeroHeight THEN 0 ELSE height + 1
    BY DEF TypeOK, ChainTypeOK, IInv, PhaseInv
  <2>1. CASE NextBlock
    <3>1. /\ pc = "chain" /\ pc' = "chain" /\ genesis' = genesis
          /\ height' = height + 1
      BY <2>1 DEF NextBlock, exportVars, flagVars, Block, AllocateRewards, Slash, Unjail,
                  MatureValidator, Delegate, Undelegate, Redelegate, MatureEntries, EndBlock,
                  BlockValidatorUpdates
    <3>2. QED
      BY <2>0, <3>1 DEF Promise!Next, Promise!Block
  <2>2. CASE ExportAtHeight
    BY <2>0, <2>2
       DEF ExportAtHeight, Goto, chainVars, stakeVars, Promise!Next, Promise!Start
  <2>3. ASSUME NEW list \in AllowLists, PrepForZeroHeightGenesis(list)
        PROVE  Promise!Next
    <3>1. CASE Malformed \in list
      BY <2>0, <2>3, <3>1
         DEF PrepForZeroHeightGenesis, Goto, chainVars, stakeVars, Promise!Next, Promise!Fail
    <3>2. CASE Malformed \notin list
      BY <2>0, <2>3, <3>2
         DEF PrepForZeroHeightGenesis, Goto, chainVars, stakeVars, Promise!Next, Promise!Start
    <3>3. QED
      BY <3>1, <3>2
  <2>4. CASE ExportStep
    <3>1. UNCHANGED <<height, stakeVars, status, zeroHeight>>
      BY <2>4, ExportKeepsStake, ExportPhases
    <3>2. CASE WriteGenesis
      BY <2>0, <2>4, <3>1, <3>2, ExportPhases
         DEF WriteGenesis, Goto, Promise!Next, Promise!Write
    <3>3. CASE ~WriteGenesis /\ pc' = "panicked"
      BY <2>0, <2>4, <3>1, <3>3, ExportPhases DEF Promise!Next, Promise!Fail
    <3>4. CASE ~WriteGenesis /\ pc' # "panicked"
      BY <2>0, <2>4, <3>1, <3>4, ExportPhases DEF Promise!vars
    <3>5. QED
      BY <3>2, <3>3, <3>4
  <2>5. CASE StartFromGenesis
    <3>1. CASE pc' = "refused"
      BY <2>0, <2>5, <3>1 DEF StartFromGenesis, Goto, stakeVars, Promise!Next, Promise!Fail
    <3>2. CASE pc' # "refused"
      BY <2>0, <2>5, <3>2 DEF StartFromGenesis, Goto, stakeVars, Promise!Next, Promise!Restart
    <3>3. QED
      BY <3>1, <3>2
  <2>6. CASE UNCHANGED vars
    BY <2>6 DEF vars, chainVars, exportVars, flagVars, stakeVars, Promise!vars
  <2>7. QED
    BY <2>1, <2>2, <2>3, <2>4, <2>5, <2>6 DEF Next
<1>3. QED
  BY <1>1, <1>2, TypeCorrect, Invariance, PTL DEF Spec, ImplementsPromise, Promise!Spec
=============================================================================
