-------------------------- MODULE StakingChainProofs --------------------------
(***************************************************************************)
(* What the operations of the distribution keeper return, and what every   *)
(* block of the chain keeps: the types, what the module account holds, and *)
(* the tallied records.  One lemma per operation of the keeper, one step   *)
(* per operation of a block.                                               *)
(***************************************************************************)
EXTENDS StakingChain, SumProofs

-----------------------------------------------------------------------------
(* The keeper: types, starting infos, periods and slash events. *)

\* The reference count of a new historical period is 1, and the counts stay a bag.
LEMMA SetReferenceIsBag ==
    ASSUME NEW refs, IsABag(refs), BagToSet(refs) \subseteq Nat, NEW p \in Nat
    PROVE  /\ IsABag(SetReference(refs, p))
           /\ BagToSet(SetReference(refs, p)) \subseteq Nat
BY DEF SetReference, IsABag, BagToSet

\* incrementReferenceCount keeps the counts a bag of periods.
LEMMA AddReferenceIsBag ==
    ASSUME NEW refs, IsABag(refs), BagToSet(refs) \subseteq Nat, NEW p \in Nat
    PROVE  /\ IsABag(AddReference(refs, p))
           /\ BagToSet(AddReference(refs, p)) \subseteq Nat
BY DEF AddReference, SetToBag, (+), IsABag, BagToSet

\* decrementReferenceCount keeps the counts a bag of periods.
LEMMA DropReferenceIsBag ==
    ASSUME NEW refs, IsABag(refs), BagToSet(refs) \subseteq Nat, NEW p \in Nat
    PROVE  /\ IsABag(DropReference(refs, p))
           /\ BagToSet(DropReference(refs, p)) \subseteq Nat
BY DEF DropReference, SetToBag, (-), IsABag, BagToSet

\* Writing the records of one validator and the shared ones leaves those of the
\* other validators alone.
LEMMA ReplaceRewards ==
    ASSUME NEW V, NEW S, NEW D, IsKeeper(D, V, S),
           NEW v \in V, NEW n, IsRewards(n),
           NEW start \in [S -> StartInfos], NEW pool \in Nat, NEW balance \in Int
    PROVE  LET E == [vals |-> [D.vals EXCEPT ![v] = n], start |-> start,
                     pool |-> pool, balance |-> balance]
           IN  /\ IsKeeper(E, V, S)
               /\ E.vals[v] = n
               /\ \A u \in V : u # v => E.vals[u] = D.vals[u]
BY DEF IsKeeper

\* TruncateDecimal splits an amount in whole tokens and a remainder.
LEMMA Divides ==
    ASSUME NEW n \in Nat
    PROVE  /\ (n \div Unit) * Unit =< n
           /\ (n \div Unit) * Unit \in Nat
           /\ n \div Unit \in Nat
           /\ n % Unit \in Nat
BY UnitAssumption

\* The hook gives one validator the records of a new one and keeps its slash events.
LEMMA AfterValidatorCreatedEffect ==
    ASSUME NEW V, NEW S, NEW D, IsKeeper(D, V, S), NEW v \in V
    PROVE  LET E == AfterValidatorCreated(D, v)
           IN  /\ IsKeeper(E, V, S)
               /\ E.start = D.start
               /\ \A u \in V : E.vals[u].slashes = D.vals[u].slashes
               /\ E.vals[v].period = 1
               /\ \A u \in V : u # v => E.vals[u].period = D.vals[u].period
<1> DEFINE r == D.vals[v]
           n == [outstanding |-> 0, commission |-> 0, current |-> 0, period |-> 1,
                 refs |-> SetReference(r.refs, 0), slashes |-> r.slashes]
           E == AfterValidatorCreated(D, v)
<1>1. IsRewards(r)
  BY DEF IsKeeper
<1>2. IsABag(n.refs) /\ BagToSet(n.refs) \subseteq Nat
  <2>1. IsABag(r.refs) /\ BagToSet(r.refs) \subseteq Nat
    BY <1>1 DEF IsRewards, WithHistory
  <2>2. QED
    BY <2>1, SetReferenceIsBag
<1>3. IsRewards(n)
  BY <1>1, <1>2 DEF IsRewards, WithHistory
<1>4. E = [vals |-> [D.vals EXCEPT ![v] = n], start |-> D.start,
           pool |-> D.pool, balance |-> D.balance]
  BY DEF AfterValidatorCreated, IsKeeper
<1>5. D.start \in [S -> StartInfos] /\ D.pool \in Nat /\ D.balance \in Int
  BY DEF IsKeeper
<1>6. n.slashes = r.slashes /\ n.period = 1
  OBVIOUS
<1> HIDE DEF n, E
<1>7. QED
  BY <1>3, <1>4, <1>5, <1>6, ReplaceRewards DEF E

\* IncrementValidatorPeriod starts the next period of one validator; only the
\* rewards that nobody staked for leave its outstanding ones.
LEMMA IncrementPeriodEffect ==
    ASSUME NEW V, NEW S, NEW D, IsKeeper(D, V, S), NEW v \in V, NEW tk
    PROVE  LET E == IncrementPeriod(D, v, tk)
           IN  /\ IsKeeper(E, V, S)
               /\ E.start = D.start
               /\ E.vals[v].outstanding = D.vals[v].outstanding - Unearned(D, v, tk)
               /\ E.vals[v].commission = D.vals[v].commission
               /\ E.vals[v].current = 0
               /\ E.vals[v].period = D.vals[v].period + 1
               /\ E.vals[v].slashes = D.vals[v].slashes
               /\ \A u \in V : u # v => E.vals[u] = D.vals[u]
<1> DEFINE r == D.vals[v]
           k == Unearned(D, v, tk)
           n == [outstanding |-> r.outstanding - k,
                 commission |-> r.commission,
                 current |-> 0,
                 period |-> r.period + 1,
                 refs |-> SetReference(DropReference(r.refs, r.period - 1), r.period),
                 slashes |-> r.slashes]
           E == IncrementPeriod(D, v, tk)
<1>1. IsRewards(r)
  BY DEF IsKeeper
<1>2. k \in Nat /\ k =< r.current
  BY <1>1 DEF IsRewards, Unearned
<1>3. IsABag(n.refs) /\ BagToSet(n.refs) \subseteq Nat
  <2>1. r.period \in Nat /\ r.period - 1 \in Nat
    BY <1>1 DEF IsRewards, WithHistory
  <2>2. IsABag(r.refs) /\ BagToSet(r.refs) \subseteq Nat
    BY <1>1 DEF IsRewards, WithHistory
  <2>3. QED
    BY <2>1, <2>2, DropReferenceIsBag, SetReferenceIsBag
<1>4. IsRewards(n)
  <2> HIDE DEF k
  <2> QED
    BY <1>1, <1>2, <1>3 DEF IsRewards, WithHistory
<1>5. E = [vals |-> [D.vals EXCEPT ![v] = n], start |-> D.start,
           pool |-> D.pool + k, balance |-> D.balance]
  BY DEF IncrementPeriod
<1>6. D.start \in [S -> StartInfos] /\ D.pool + k \in Nat /\ D.balance \in Int
  BY <1>2 DEF IsKeeper
<1>7. /\ n.outstanding = r.outstanding - k /\ n.commission = r.commission
      /\ n.current = 0 /\ n.period = r.period + 1 /\ n.slashes = r.slashes
  OBVIOUS
<1> HIDE DEF n, E
<1>8. QED
  BY <1>4, <1>5, <1>6, <1>7, ReplaceRewards DEF E

\* A delegation is started at the period that just ended, and no other changes.
LEMMA InitializeDelegationEffect ==
    ASSUME NEW V, NEW S, NEW D, IsKeeper(D, V, S),
           NEW d \in S, d[2] \in V, NEW h \in Nat
    PROVE  LET E == InitializeDelegation(D, d, h)
               r == D.vals[d[2]]
           IN  /\ IsKeeper(E, V, S)
               /\ E.start[d] = [known |-> TRUE, period |-> r.period - 1, height |-> h]
               /\ \A e \in S : e # d => E.start[e] = D.start[e]
               /\ E.vals[d[2]].slashes = r.slashes
               /\ E.vals[d[2]].period = r.period
               /\ \A u \in V : u # d[2] => E.vals[u] = D.vals[u]
<1> DEFINE v == d[2]
           r == D.vals[v]
           n == [outstanding |-> r.outstanding, commission |-> r.commission,
                 current |-> r.current, period |-> r.period,
                 refs |-> AddReference(r.refs, r.period - 1), slashes |-> r.slashes]
           st == [D.start EXCEPT
                    ![d] = [known |-> TRUE, period |-> r.period - 1, height |-> h]]
           E == InitializeDelegation(D, d, h)
<1>1. IsRewards(r)
  BY DEF IsKeeper
<1>2. r.period - 1 \in Nat
  BY <1>1 DEF IsRewards, WithHistory
<1>3. IsABag(n.refs) /\ BagToSet(n.refs) \subseteq Nat
  <2>1. IsABag(r.refs) /\ BagToSet(r.refs) \subseteq Nat
    BY <1>1 DEF IsRewards, WithHistory
  <2>2. QED
    BY <1>2, <2>1, AddReferenceIsBag
<1>4. IsRewards(n)
  BY <1>1, <1>3 DEF IsRewards, WithHistory
<1>5. st \in [S -> StartInfos]
  BY <1>2 DEF IsKeeper, StartInfos
<1>6. E = [vals |-> [D.vals EXCEPT ![v] = n], start |-> st,
           pool |-> D.pool, balance |-> D.balance]
  BY DEF InitializeDelegation, WithHistory
<1>7. D.pool \in Nat /\ D.balance \in Int
  BY DEF IsKeeper
<1>8. n.slashes = r.slashes /\ n.period = r.period
  OBVIOUS
<1> HIDE DEF n, E, st
<1>9. /\ IsKeeper(E, V, S)
      /\ E.vals[v] = n
      /\ \A u \in V : u # v => E.vals[u] = D.vals[u]
  BY <1>4, <1>5, <1>6, <1>7, ReplaceRewards
<1>10. E.start = st
  BY <1>6
<1>11. /\ E.start[d] = [known |-> TRUE, period |-> r.period - 1, height |-> h]
       /\ \A e \in S : e # d => E.start[e] = D.start[e]
  BY <1>10 DEF st, IsKeeper
<1>12. QED
  BY <1>8, <1>9, <1>11 DEF E

\* Withdrawing closes the delegation's period and removes its starting info.
LEMMA SettleDelegationEffect ==
    ASSUME NEW V, NEW S, NEW D, IsKeeper(D, V, S),
           NEW d \in S, d[2] \in V, NEW tk,
           NEW h, NEW earned \in Earnable(D, d, tk, h)
    PROVE  LET E == SettleDelegation(D, d, tk, earned)
               s == D.start[d]
           IN  /\ IsKeeper(E, V, S)
               /\ E.start = [D.start EXCEPT
                       ![d] = [known |-> FALSE, period |-> s.period, height |-> s.height]]
               /\ E.vals[d[2]].slashes = D.vals[d[2]].slashes
               /\ E.vals[d[2]].period = D.vals[d[2]].period + 1
               /\ \A u \in V : u # d[2] => E.vals[u] = D.vals[u]
<1> DEFINE v == d[2]
           F == IncrementPeriod(D, v, tk)
           r == F.vals[v]
           s == D.start[d]
           n == [outstanding |-> r.outstanding - earned, commission |-> r.commission,
                 current |-> r.current, period |-> r.period,
                 refs |-> DropReference(r.refs, s.period), slashes |-> r.slashes]
           st == [F.start EXCEPT
                    ![d] = [known |-> FALSE, period |-> s.period, height |-> s.height]]
           E == SettleDelegation(D, d, tk, earned)
<1>1. /\ IsKeeper(F, V, S)
      /\ F.start = D.start
      /\ r.outstanding = D.vals[v].outstanding - Unearned(D, v, tk)
      /\ r.commission = D.vals[v].commission
      /\ r.current = 0
      /\ r.period = D.vals[v].period + 1
      /\ r.slashes = D.vals[v].slashes
      /\ \A u \in V : u # v => F.vals[u] = D.vals[u]
  <2> HIDE DEF F
  <2> QED
    BY IncrementPeriodEffect DEF F
<1>2. E = [vals |-> [F.vals EXCEPT ![v] = n], start |-> st,
           pool |-> F.pool + (earned % Unit), balance |-> F.balance - (earned \div Unit)]
  BY DEF SettleDelegation
<1> HIDE DEF F
<1>3. IsRewards(r)
  BY <1>1 DEF IsKeeper
<1>4. s \in StartInfos
  BY DEF IsKeeper
<1>5. earned \in Nat /\ earned + r.commission =< r.outstanding
  <2>1. IsRewards(D.vals[v])
    BY DEF IsKeeper
  <2>2. /\ D.vals[v].outstanding \in Nat /\ D.vals[v].commission \in Nat
        /\ D.vals[v].current \in Nat
        /\ D.vals[v].commission + D.vals[v].current =< D.vals[v].outstanding
    BY <2>1 DEF IsRewards, WithHistory
  <2>3. Unearned(D, v, tk) \in Nat /\ Unearned(D, v, tk) =< D.vals[v].current
    BY <2>2 DEF Unearned
  <2>4. \/ earned = 0
        \/ earned \in 0 .. (D.vals[v].outstanding - D.vals[v].commission - Unearned(D, v, tk))
    BY DEF Earnable
  <2>5. QED
    BY <1>1, <2>2, <2>3, <2>4
<1>6. IsABag(n.refs) /\ BagToSet(n.refs) \subseteq Nat
  <2>1. IsABag(r.refs) /\ BagToSet(r.refs) \subseteq Nat
    BY <1>3 DEF IsRewards, WithHistory
  <2>2. s.period \in Nat
    BY <1>4 DEF StartInfos
  <2>3. QED
    BY <2>1, <2>2, DropReferenceIsBag
<1>7. IsRewards(n)
  <2>1. /\ r.outstanding \in Nat /\ r.commission \in Nat /\ r.period \in Nat \ {0}
        /\ r.current = 0 /\ r.slashes \subseteq Slashes
    <3>1. r.current = 0
      BY <1>1
    <3> HIDE DEF r
    <3>2. QED
      BY <1>3, <3>1 DEF IsRewards
  <2>2. /\ n.outstanding \in Nat /\ n.commission \in Nat /\ n.current = 0
        /\ n.period \in Nat \ {0} /\ n.commission + n.current =< n.outstanding
        /\ n.slashes \subseteq Slashes
    BY <1>5, <2>1
  <2>3. n = WithHistory(n, n.refs, n.slashes)
    BY DEF WithHistory
  <2> HIDE DEF n
  <2>4. QED
    BY <1>6, <2>2, <2>3 DEF IsRewards
<1>8. st \in [S -> StartInfos]
  BY <1>1, <1>4 DEF IsKeeper, StartInfos
<1>9. earned \div Unit \in Nat /\ earned % Unit \in Nat
  BY <1>5, Divides
<1>10. F.pool + (earned % Unit) \in Nat /\ F.balance - (earned \div Unit) \in Int
  BY <1>1, <1>9 DEF IsKeeper
<1>11. n.slashes = r.slashes /\ n.period = r.period
  OBVIOUS
<1>12. st = [D.start EXCEPT
               ![d] = [known |-> FALSE, period |-> s.period, height |-> s.height]]
  BY <1>1
<1> HIDE DEF n, E, st
<1>13. /\ IsKeeper(E, V, S)
       /\ E.vals[v] = n
       /\ \A u \in V : u # v => E.vals[u] = F.vals[u]
  <2>1. IsKeeper(F, V, S) /\ v \in V
    BY <1>1
  <2> HIDE DEF v, r, s
  <2>2. QED
    BY <1>2, <1>7, <1>8, <1>10, <2>1, ReplaceRewards
<1>14. E.start = st
  BY <1>2
<1>15. QED
  BY <1>1, <1>11, <1>12, <1>13, <1>14 DEF E

\* Withdrawing commission pays whole tokens and keeps heights and periods.
LEMMA WithdrawValidatorCommissionEffect ==
    ASSUME NEW V, NEW S, NEW D, IsKeeper(D, V, S), NEW v \in V
    PROVE  LET E == WithdrawValidatorCommission(D, v)
           IN  /\ IsKeeper(E, V, S)
               /\ E.start = D.start
               /\ E.vals[v].slashes = D.vals[v].slashes
               /\ E.vals[v].period = D.vals[v].period
               /\ \A u \in V : u # v => E.vals[u] = D.vals[u]
<1> DEFINE r == D.vals[v]
           w == r.commission \div Unit
           n == [outstanding |-> r.outstanding - w * Unit,
                 commission |-> r.commission - w * Unit,
                 current |-> r.current, period |-> r.period,
                 refs |-> r.refs, slashes |-> r.slashes]
           E == WithdrawValidatorCommission(D, v)
<1>1. IsRewards(r)
  BY DEF IsKeeper
<1>2. r.commission \in Nat
  BY <1>1 DEF IsRewards, WithHistory
<1>3. w \in Nat /\ w * Unit \in Nat /\ w * Unit =< r.commission
  BY <1>2, Divides
<1>4. IsRewards(n)
  <2> DEFINE paid == w * Unit
  <2>1. paid \in Nat /\ paid =< r.commission
    BY <1>3
  <2> HIDE DEF paid
  <2>2. n = [outstanding |-> r.outstanding - paid, commission |-> r.commission - paid,
             current |-> r.current, period |-> r.period,
             refs |-> r.refs, slashes |-> r.slashes]
    BY DEF paid
  <2> HIDE DEF n
  <2>3. QED
    BY <1>1, <2>1, <2>2 DEF IsRewards, WithHistory
<1>5. E = [vals |-> [D.vals EXCEPT ![v] = n], start |-> D.start,
           pool |-> D.pool, balance |-> D.balance - w]
  BY DEF WithdrawValidatorCommission, WithdrawWhole
<1>6. D.start \in [S -> StartInfos] /\ D.pool \in Nat /\ D.balance - w \in Int
  BY <1>3 DEF IsKeeper
<1>7. n.slashes = r.slashes /\ n.period = r.period
  OBVIOUS
<1> HIDE DEF n, E
<1>8. QED
  BY <1>4, <1>5, <1>6, <1>7, ReplaceRewards DEF E

\* A slash event is recorded at the height of the slash with the period it ends.
LEMMA BeforeValidatorSlashedEffect ==
    ASSUME NEW V, NEW S, NEW D, IsKeeper(D, V, S), NEW v \in V, NEW tk, NEW h \in Nat
    PROVE  LET E == BeforeValidatorSlashed(D, v, tk, h)
               p == D.vals[v].period
           IN  /\ IsKeeper(E, V, S)
               /\ E.start = D.start
               /\ E.vals[v].slashes = D.vals[v].slashes \cup {[height |-> h, period |-> p]}
               /\ E.vals[v].period = p + 1
               /\ \A u \in V : u # v => E.vals[u] = D.vals[u]
<1> DEFINE F == IncrementPeriod(D, v, tk)
           r == F.vals[v]
           p == D.vals[v].period
           n == [outstanding |-> r.outstanding, commission |-> r.commission,
                 current |-> r.current, period |-> r.period,
                 refs |-> AddReference(r.refs, p),
                 slashes |-> r.slashes \cup {[height |-> h, period |-> p]}]
           E == BeforeValidatorSlashed(D, v, tk, h)
<1>1. /\ IsKeeper(F, V, S)
      /\ F.start = D.start
      /\ r.period = p + 1
      /\ r.slashes = D.vals[v].slashes
      /\ \A u \in V : u # v => F.vals[u] = D.vals[u]
  <2> HIDE DEF F
  <2> QED
    BY IncrementPeriodEffect DEF F
<1>2. E = [vals |-> [F.vals EXCEPT ![v] = n], start |-> F.start,
           pool |-> F.pool, balance |-> F.balance]
  BY DEF BeforeValidatorSlashed, WithHistory
<1> HIDE DEF F
<1>3. IsRewards(r) /\ IsRewards(D.vals[v])
  BY <1>1 DEF IsKeeper
<1>4. p \in Nat
  BY <1>3 DEF IsRewards, WithHistory
<1>5. IsABag(n.refs) /\ BagToSet(n.refs) \subseteq Nat
  <2>1. IsABag(r.refs) /\ BagToSet(r.refs) \subseteq Nat
    BY <1>3 DEF IsRewards, WithHistory
  <2>2. QED
    BY <1>4, <2>1, AddReferenceIsBag
<1>6. n.slashes \subseteq Slashes
  BY <1>3, <1>4 DEF IsRewards, WithHistory, Slashes
<1>7. IsRewards(n)
  BY <1>3, <1>5, <1>6 DEF IsRewards, WithHistory
<1>8. F.start \in [S -> StartInfos] /\ F.pool \in Nat /\ F.balance \in Int
  BY <1>1 DEF IsKeeper
<1>9. /\ n.slashes = r.slashes \cup {[height |-> h, period |-> p]}
      /\ n.period = r.period
  OBVIOUS
<1> HIDE DEF n, E
<1>10. QED
  BY <1>1, <1>2, <1>7, <1>8, <1>9, ReplaceRewards DEF E

\* A block's reward is split among validator, commission and community pool, and
\* nothing else changes.
LEMMA AllocateTokensEffect ==
    ASSUME NEW V, NEW S, NEW D, IsKeeper(D, V, S), NEW v \in V,
           NEW tax \in 0 .. Unit, NEW comm \in 0 .. (Unit - tax)
    PROVE  LET E == AllocateTokens(D, v, tax, comm)
           IN  /\ IsKeeper(E, V, S)
               /\ E.start = D.start
               /\ E.vals[v].slashes = D.vals[v].slashes
               /\ E.vals[v].period = D.vals[v].period
               /\ \A u \in V : u # v => E.vals[u] = D.vals[u]
<1> DEFINE r == D.vals[v]
           n == [outstanding |-> r.outstanding + (Unit - tax),
                 commission |-> r.commission + comm,
                 current |-> r.current + (Unit - tax - comm),
                 period |-> r.period, refs |-> r.refs, slashes |-> r.slashes]
           E == AllocateTokens(D, v, tax, comm)
<1>1. IsRewards(r)
  BY DEF IsKeeper
<1>2. IsRewards(n)
  BY <1>1, UnitAssumption DEF IsRewards, WithHistory
<1>3. E = [vals |-> [D.vals EXCEPT ![v] = n], start |-> D.start,
           pool |-> D.pool + tax, balance |-> D.balance + 1]
  BY DEF AllocateTokens
<1>4. D.start \in [S -> StartInfos] /\ D.pool + tax \in Nat /\ D.balance + 1 \in Int
  BY UnitAssumption DEF IsKeeper
<1>5. n.slashes = r.slashes /\ n.period = r.period
  OBVIOUS
<1> HIDE DEF n, E
<1>6. QED
  BY <1>2, <1>3, <1>4, <1>5, ReplaceRewards DEF E

\* The deletions of the preparation leave no slash event.
LEMMA DeletesEffect ==
    ASSUME NEW V, NEW S, NEW D, IsKeeper(D, V, S)
    PROVE  LET E == DeleteAllValidatorHistoricalRewards(DeleteAllValidatorSlashEvents(D))
           IN  /\ IsKeeper(E, V, S)
               /\ E.start = D.start
               /\ \A v \in V : E.vals[v].slashes = {}
<1> DEFINE F == DeleteAllValidatorSlashEvents(D)
           E == DeleteAllValidatorHistoricalRewards(F)
<1>1. IsKeeper(F, V, S) /\ F.start = D.start /\ \A v \in V : F.vals[v].slashes = {}
  <2>1. ASSUME NEW v \in V
        PROVE  IsRewards(WithHistory(D.vals[v], D.vals[v].refs, {}))
    <3>1. IsRewards(D.vals[v])
      BY DEF IsKeeper
    <3>2. QED
      BY <3>1 DEF IsRewards, WithHistory
  <2>2. F = [vals |-> [v \in V |-> WithHistory(D.vals[v], D.vals[v].refs, {})],
             start |-> D.start, pool |-> D.pool, balance |-> D.balance]
    BY DEF DeleteAllValidatorSlashEvents, IsKeeper
  <2>3. QED
    BY <2>1, <2>2 DEF IsKeeper, WithHistory
<1>2. IsKeeper(E, V, S) /\ E.start = F.start /\ \A v \in V : E.vals[v].slashes = {}
  <2> HIDE DEF F
  <2>1. ASSUME NEW v \in V
        PROVE  IsRewards(WithHistory(F.vals[v], EmptyBag, F.vals[v].slashes))
    <3>1. IsRewards(F.vals[v])
      BY <1>1 DEF IsKeeper
    <3>2. IsABag(EmptyBag) /\ BagToSet(EmptyBag) \subseteq Nat
      BY DEF EmptyBag, SetToBag, IsABag, BagToSet
    <3>3. QED
      BY <3>1, <3>2 DEF IsRewards, WithHistory
  <2>2. E = [vals |-> [v \in V |-> WithHistory(F.vals[v], EmptyBag, F.vals[v].slashes)],
             start |-> F.start, pool |-> F.pool, balance |-> F.balance]
    BY <1>1 DEF DeleteAllValidatorHistoricalRewards, IsKeeper
  <2>3. QED
    BY <1>1, <2>1, <2>2 DEF IsKeeper, WithHistory
<1>3. QED
  BY <1>1, <1>2

-----------------------------------------------------------------------------
(* The keeper: what the module account holds is what the module owes. *)

\* What is owed is the sum of the outstanding rewards and the pool.
LEMMA OwedByIsTotal ==
    ASSUME NEW V, NEW D
    PROVE  OwedBy(D, V) = Total([v \in V |-> D.vals[v].outstanding], V) + D.pool
BY DEF OwedBy, MapThenSumSet, MapThenFoldSet, Total, Summation, IsSummation, Pick

\* An operation on one validator keeps the account backed, if what it takes from
\* the account is what it takes from the rewards of that validator and the pool.
LEMMA BackingMoves ==
    ASSUME NEW V, IsFiniteSet(V), NEW S, NEW D, IsKeeper(D, V, S), NEW E, IsKeeper(E, V, S),
           NEW v \in V, \A u \in V : u # v => E.vals[u].outstanding = D.vals[u].outstanding,
           Unit * E.balance - E.vals[v].outstanding - E.pool
               = Unit * D.balance - D.vals[v].outstanding - D.pool,
           Backed(D, V)
    PROVE  Backed(E, V)
<1> DEFINE f == [u \in V |-> D.vals[u].outstanding]
           g == [u \in V |-> E.vals[u].outstanding]
<1>1. ASSUME NEW u \in V PROVE D.vals[u].outstanding \in Nat /\ E.vals[u].outstanding \in Nat
  BY DEF IsKeeper, IsRewards
<1>2. /\ \A u \in V : f[u] \in Int
      /\ g[v] \in Int
      /\ \A u \in V : u # v => g[u] = f[u]
  BY <1>1
<1>3. f[v] = D.vals[v].outstanding /\ g[v] = E.vals[v].outstanding
  OBVIOUS
<1>4. OwedBy(D, V) = Total(f, V) + D.pool /\ OwedBy(E, V) = Total(g, V) + E.pool
  BY OwedByIsTotal
<1> HIDE DEF f, g
<1>5. Total(g, V) = Total(f, V) + g[v] - f[v]
  BY <1>2, TotalChanges
<1>6. Total(f, V) \in Int
  BY <1>2, TotalType
<1>7. /\ D.pool \in Int /\ E.pool \in Int /\ D.balance \in Int /\ E.balance \in Int
      /\ Unit * D.balance \in Int /\ Unit * E.balance \in Int
  BY UnitAssumption DEF IsKeeper
<1>8. Unit * D.balance = Total(f, V) + D.pool
  BY <1>4 DEF Backed
<1>9. Unit * E.balance = Total(g, V) + E.pool
  <2> DEFINE x == Unit * D.balance
             y == Unit * E.balance
             t == Total(f, V)
  <2>1. x \in Int /\ y \in Int /\ y - g[v] - E.pool = x - f[v] - D.pool /\ x = t + D.pool
    BY <1>3, <1>7, <1>8
  <2>2. t \in Int /\ f[v] \in Int /\ g[v] \in Int /\ Total(g, V) = t + g[v] - f[v]
    BY <1>2, <1>5, <1>6
  <2> HIDE DEF x, y, t
  <2>4. y = Total(g, V) + E.pool
    BY <1>7, <2>1, <2>2
  <2>5. QED
    BY <2>4 DEF y
<1>10. QED
  BY <1>4, <1>9 DEF Backed

\* The numbers of a validator's records.
LEMMA RewardsNumbers ==
    ASSUME NEW V, NEW S, NEW D, IsKeeper(D, V, S), NEW v \in V
    PROVE  /\ IsRewards(D.vals[v])
           /\ D.vals[v].outstanding \in Nat /\ D.vals[v].commission \in Nat
           /\ D.vals[v].current \in Nat /\ D.vals[v].period \in Nat /\ D.vals[v].period > 0
           /\ D.vals[v].commission + D.vals[v].current =< D.vals[v].outstanding
           /\ D.pool \in Nat /\ D.balance \in Int /\ Unit * D.balance \in Int
<1>1. IsRewards(D.vals[v]) /\ D.pool \in Nat /\ D.balance \in Int
  BY DEF IsKeeper
<1>2. QED
  BY <1>1, UnitAssumption DEF IsRewards, WithHistory

\* Ending a period moves what nobody staked for to the pool.
LEMMA IncrementPeriodBacked ==
    ASSUME NEW V, IsFiniteSet(V), NEW S, NEW D, IsKeeper(D, V, S), Backed(D, V),
           NEW v \in V, NEW tk
    PROVE  Backed(IncrementPeriod(D, v, tk), V)
<1> DEFINE E == IncrementPeriod(D, v, tk)
           k == Unearned(D, v, tk)
<1>1. /\ IsKeeper(E, V, S)
      /\ E.vals[v].outstanding = D.vals[v].outstanding - k
      /\ \A u \in V : u # v => E.vals[u] = D.vals[u]
  <2> HIDE DEF E
  <2> QED
    BY IncrementPeriodEffect DEF E
<1>2. E.pool = D.pool + k /\ E.balance = D.balance
  BY DEF IncrementPeriod
<1> HIDE DEF E
<1>3. k \in Nat
  BY RewardsNumbers DEF Unearned
<1> HIDE DEF k
<1>4. Unit * E.balance - E.vals[v].outstanding - E.pool
        = Unit * D.balance - D.vals[v].outstanding - D.pool
  BY <1>1, <1>2, <1>3, RewardsNumbers
<1>5. QED
  BY <1>1, <1>4, BackingMoves DEF E

\* Starting a delegation moves no rewards.
LEMMA InitializeDelegationBacked ==
    ASSUME NEW V, IsFiniteSet(V), NEW S, NEW D, IsKeeper(D, V, S), Backed(D, V),
           NEW d \in S, d[2] \in V, NEW h \in Nat
    PROVE  Backed(InitializeDelegation(D, d, h), V)
<1> DEFINE E == InitializeDelegation(D, d, h)
<1>1. /\ IsKeeper(E, V, S)
      /\ \A u \in V : u # d[2] => E.vals[u] = D.vals[u]
  <2> HIDE DEF E
  <2>1. IsKeeper(InitializeDelegation(D, d, h), V, S)
    BY InitializeDelegationEffect
  <2>2. \A u \in V : u # d[2] => InitializeDelegation(D, d, h).vals[u] = D.vals[u]
    BY DEF InitializeDelegation, IsKeeper
  <2> HIDE DEF E
  <2>3. QED
    BY <2>1, <2>2 DEF E
<1>2. /\ E.vals[d[2]].outstanding = D.vals[d[2]].outstanding
      /\ E.pool = D.pool /\ E.balance = D.balance
  BY DEF InitializeDelegation, WithHistory, IsKeeper
<1> HIDE DEF E
<1>3. QED
  BY <1>1, <1>2, BackingMoves DEF E

\* TruncateDecimal loses nothing.
LEMMA DividesExactly ==
    ASSUME NEW n \in Nat
    PROVE  n = Unit * (n \div Unit) + (n % Unit)
BY UnitAssumption, Z3

\* Withdrawing pays whole tokens and leaves the fraction to the pool.
LEMMA SettleDelegationBacked ==
    ASSUME NEW V, IsFiniteSet(V), NEW S, NEW D, IsKeeper(D, V, S), Backed(D, V),
           NEW d \in S, d[2] \in V, NEW tk,
           NEW h, NEW earned \in Earnable(D, d, tk, h)
    PROVE  Backed(SettleDelegation(D, d, tk, earned), V)
<1> DEFINE F == IncrementPeriod(D, d[2], tk)
           E == SettleDelegation(D, d, tk, earned)
           w == earned \div Unit
           m == earned % Unit
<1>1. /\ IsKeeper(F, V, S) /\ Backed(F, V)
      /\ \A u \in V : u # d[2] => F.vals[u] = D.vals[u]
  <2> HIDE DEF F
  <2> QED
    BY IncrementPeriodEffect, IncrementPeriodBacked DEF F
<1>2. /\ IsKeeper(E, V, S)
      /\ \A u \in V : u # d[2] => E.vals[u] = D.vals[u]
  <2>1. IsKeeper(SettleDelegation(D, d, tk, earned), V, S)
    BY SettleDelegationEffect
  <2>2. \A u \in V : u # d[2] => SettleDelegation(D, d, tk, earned).vals[u] = D.vals[u]
    BY DEF SettleDelegation, IncrementPeriod, IsKeeper
  <2> HIDE DEF E
  <2> QED
    BY <2>1, <2>2 DEF E
<1>3. /\ E.vals[d[2]].outstanding = F.vals[d[2]].outstanding - earned
      /\ E.pool = F.pool + m /\ E.balance = F.balance - w
  <2> HIDE DEF F
  <2>1. F = IncrementPeriod(D, d[2], tk) /\ F.vals = [v \in V |-> F.vals[v]]
    BY <1>1 DEF F, IsKeeper
  <2>2. QED
    BY <2>1 DEF SettleDelegation
<1> HIDE DEF E, F
<1>4. earned \in Nat
  <2>1. D.vals[d[2]].outstanding - D.vals[d[2]].commission - Unearned(D, d[2], tk) \in Int
    BY RewardsNumbers DEF Unearned
  <2>2. QED
    BY <2>1 DEF Earnable
<1>5. w \in Nat /\ m \in Nat /\ earned = Unit * w + m
  <2>1. w \in Nat /\ m \in Nat
    BY <1>4, Divides
  <2>2. QED
    BY <1>4, <2>1, DividesExactly
<1> HIDE DEF w, m
<1>6. Unit * E.balance = Unit * F.balance - Unit * w
  <2>1. F.balance \in Int
    BY <1>1, RewardsNumbers
  <2>2. QED
    BY <1>3, <1>5, <2>1, UnitAssumption
<1>7. Unit * E.balance - E.vals[d[2]].outstanding - E.pool
        = Unit * F.balance - F.vals[d[2]].outstanding - F.pool
  <2> DEFINE x == Unit * F.balance
             y == Unit * E.balance
             z == Unit * w
  <2>1. /\ x \in Int /\ F.pool \in Int /\ F.vals[d[2]].outstanding \in Int
        /\ z \in Int /\ y = x - z /\ earned = z + m
    BY <1>1, <1>5, <1>6, RewardsNumbers, UnitAssumption
  <2> HIDE DEF x, y, z
  <2>2. y - E.vals[d[2]].outstanding - E.pool = x - F.vals[d[2]].outstanding - F.pool
    BY <1>3, <1>4, <1>5, <2>1
  <2>3. QED
    BY <2>2 DEF x, y
<1>8. QED
  BY <1>1, <1>2, <1>7, BackingMoves DEF E

\* Commission is paid in whole tokens.
LEMMA WithdrawValidatorCommissionBacked ==
    ASSUME NEW V, IsFiniteSet(V), NEW S, NEW D, IsKeeper(D, V, S), Backed(D, V), NEW v \in V
    PROVE  Backed(WithdrawValidatorCommission(D, v), V)
<1> DEFINE E == WithdrawValidatorCommission(D, v)
           w == D.vals[v].commission \div Unit
<1>1. /\ IsKeeper(E, V, S)
      /\ \A u \in V : u # v => E.vals[u] = D.vals[u]
  <2> HIDE DEF E
  <2> QED
    BY WithdrawValidatorCommissionEffect DEF E
<1>2. /\ E.vals[v].outstanding = D.vals[v].outstanding - w * Unit
      /\ E.pool = D.pool /\ E.balance = D.balance - w
  BY DEF WithdrawValidatorCommission, WithdrawWhole, IsKeeper
<1>3. w \in Nat /\ w * Unit \in Nat
  BY RewardsNumbers, Divides
<1> HIDE DEF E, w
<1>4. Unit * E.balance = Unit * D.balance - w * Unit
  <2>1. D.balance \in Int
    BY RewardsNumbers
  <2>2. QED
    BY <1>2, <1>3, <2>1, UnitAssumption
<1>5. Unit * E.balance - E.vals[v].outstanding - E.pool
        = Unit * D.balance - D.vals[v].outstanding - D.pool
  <2> DEFINE x == Unit * D.balance
             y == Unit * E.balance
             z == w * Unit
  <2>1. x \in Int /\ D.pool \in Int /\ D.vals[v].outstanding \in Int /\ z \in Int /\ y = x - z
    BY <1>3, <1>4, RewardsNumbers
  <2>2. E.vals[v].outstanding = D.vals[v].outstanding - z
    BY <1>2
  <2> HIDE DEF x, y, z
  <2>3. y - E.vals[v].outstanding - E.pool = x - D.vals[v].outstanding - D.pool
    BY <1>2, <2>1, <2>2
  <2>4. QED
    BY <2>3 DEF x, y
<1>6. QED
  BY <1>1, <1>5, BackingMoves DEF E

\* A slash event moves no rewards but those that ending the period moves.
LEMMA BeforeValidatorSlashedBacked ==
    ASSUME NEW V, IsFiniteSet(V), NEW S, NEW D, IsKeeper(D, V, S), Backed(D, V),
           NEW v \in V, NEW tk, NEW h \in Nat
    PROVE  Backed(BeforeValidatorSlashed(D, v, tk, h), V)
<1> DEFINE F == IncrementPeriod(D, v, tk)
           E == BeforeValidatorSlashed(D, v, tk, h)
<1>1. /\ IsKeeper(F, V, S) /\ Backed(F, V)
      /\ \A u \in V : u # v => F.vals[u] = D.vals[u]
  <2> HIDE DEF F
  <2> QED
    BY IncrementPeriodEffect, IncrementPeriodBacked DEF F
<1>2. /\ IsKeeper(E, V, S)
      /\ \A u \in V : u # v => E.vals[u] = D.vals[u]
  <2> HIDE DEF E
  <2> QED
    BY BeforeValidatorSlashedEffect DEF E
<1>3. /\ E.vals[v].outstanding = F.vals[v].outstanding
      /\ E.pool = F.pool /\ E.balance = F.balance
  <2> HIDE DEF F
  <2>1. F = IncrementPeriod(D, v, tk) /\ F.vals = [u \in V |-> F.vals[u]]
    BY <1>1 DEF F, IsKeeper
  <2>2. QED
    BY <2>1 DEF BeforeValidatorSlashed, WithHistory
<1> HIDE DEF E, F
<1>4. QED
  BY <1>1, <1>2, <1>3, BackingMoves DEF E

\* A block's token of fees is owed to the validator and the pool.
LEMMA AllocateTokensBacked ==
    ASSUME NEW V, IsFiniteSet(V), NEW S, NEW D, IsKeeper(D, V, S), Backed(D, V),
           NEW v \in V, NEW tax \in 0 .. Unit, NEW comm \in 0 .. (Unit - tax)
    PROVE  Backed(AllocateTokens(D, v, tax, comm), V)
<1> DEFINE E == AllocateTokens(D, v, tax, comm)
<1>1. /\ IsKeeper(E, V, S)
      /\ \A u \in V : u # v => E.vals[u] = D.vals[u]
  <2> HIDE DEF E
  <2> QED
    BY AllocateTokensEffect DEF E
<1>2. /\ E.vals[v].outstanding = D.vals[v].outstanding + (Unit - tax)
      /\ E.pool = D.pool + tax /\ E.balance = D.balance + 1
  BY DEF AllocateTokens, IsKeeper
<1> HIDE DEF E
<1>3. Unit * E.balance = Unit * D.balance + Unit
  <2>1. D.balance \in Int
    BY RewardsNumbers
  <2>2. QED
    BY <1>2, <2>1, UnitAssumption
<1>4. Unit * E.balance - E.vals[v].outstanding - E.pool
        = Unit * D.balance - D.vals[v].outstanding - D.pool
  <2>1. tax \in Int /\ Unit \in Int
    BY UnitAssumption
  <2>2. QED
    BY <1>2, <1>3, <2>1, RewardsNumbers
<1>5. QED
  BY <1>1, <1>4, BackingMoves DEF E

\* A keeper state that owes nothing and holds nothing is backed.
LEMMA NothingOwed ==
    ASSUME NEW V, IsFiniteSet(V), NEW D, \A v \in V : D.vals[v].outstanding = 0,
           D.pool = 0, D.balance = 0
    PROVE  Backed(D, V)
<1> DEFINE f == [v \in V |-> D.vals[v].outstanding]
           good == {T \in SUBSET V : Total(f, T) = 0}
<1>1. \A v \in V : f[v] = 0
  OBVIOUS
<1> HIDE DEF f
<1>2. ASSUME NEW T \in SUBSET V, \A x \in T : T \ {x} \in good
      PROVE  T \in good
  <2>1. CASE T = {}
    BY <2>1, FS_EmptySet, TotalUnfolds
  <2>2. ASSUME NEW x \in T PROVE T \in good
    <3>1. Total(f, T) = f[x] + Total(f, T \ {x})
      BY <1>1, TotalSplits
    <3>2. QED
      BY <1>1, <1>2, <3>1
  <2>3. QED
    BY <2>1, <2>2
<1> HIDE DEF good
<1>3. V \in good
  <2>1. \A T \in SUBSET V : (\A x \in T : T \ {x} \in good) => T \in good
    BY <1>2
  <2>2. \A T \in SUBSET V : T \in good
    BY <2>1, SubsetInduction
  <2>3. QED
    BY <2>2
<1>4. Total(f, V) = 0
  BY <1>3 DEF good
<1>5. OwedBy(D, V) = 0
  BY <1>4, OwedByIsTotal DEF f
<1>6. QED
  BY <1>5, UnitAssumption DEF Backed

\* Deleting slash events and historical rewards moves no rewards.
LEMMA DeletesBacked ==
    ASSUME NEW V, NEW S, NEW D, IsKeeper(D, V, S), Backed(D, V)
    PROVE  Backed(DeleteAllValidatorHistoricalRewards(DeleteAllValidatorSlashEvents(D)), V)
<1> DEFINE E == DeleteAllValidatorHistoricalRewards(DeleteAllValidatorSlashEvents(D))
<1>1. DOMAIN D.vals = V
  BY DEF IsKeeper
<1>2. /\ \A v \in V : E.vals[v].outstanding = D.vals[v].outstanding
      /\ E.pool = D.pool /\ E.balance = D.balance
  BY <1>1 DEF DeleteAllValidatorHistoricalRewards, DeleteAllValidatorSlashEvents, WithHistory
<1> HIDE DEF E
<1>3. [v \in V |-> E.vals[v].outstanding] = [v \in V |-> D.vals[v].outstanding]
  BY <1>2
<1>4. OwedBy(E, V) = OwedBy(D, V)
  BY <1>2, <1>3, OwedByIsTotal
<1>5. QED
  BY <1>2, <1>4 DEF Backed, E

-----------------------------------------------------------------------------
(* The keeper: the reference counts are those of the delegations and slash     *)
(* events.                                                                     *)

StartsAt(start, dels, p) == {d \in dels : start[d].period = p}

EndsAt(slashes, p) == {s \in slashes : s.period = p}

\* What is tallied is finite.
LEMMA TallyIsFinite ==
    ASSUME NEW r, NEW start, NEW dels, Tallied(r, start, dels), r.period \in Nat \ {0},
           IsABag(r.refs)
    PROVE  /\ IsFiniteBag(r.refs) /\ BagCardinality(r.refs) \in Nat
           /\ Cardinality(dels) \in Nat /\ Cardinality(r.slashes) \in Nat
           /\ \A p : /\ IsFiniteSet(StartsAt(start, dels, p))
                     /\ Cardinality(StartsAt(start, dels, p)) \in Nat
                     /\ IsFiniteSet(EndsAt(r.slashes, p))
                     /\ Cardinality(EndsAt(r.slashes, p)) \in Nat
<1>1. IsFiniteSet(dels) /\ IsFiniteSet(r.slashes)
  BY DEF Tallied
<1>2. IsFiniteSet(BagToSet(r.refs))
  <2>1. BagToSet(r.refs) \in SUBSET (0 .. (r.period - 1))
    BY DEF Tallied
  <2>2. IsFiniteSet(0 .. (r.period - 1))
    BY FS_Interval
  <2>3. QED
    BY <2>1, <2>2, FS_Subset
<1>3. ASSUME NEW p
      PROVE  /\ IsFiniteSet(StartsAt(start, dels, p)) /\ IsFiniteSet(EndsAt(r.slashes, p))
  <2>1. StartsAt(start, dels, p) \in SUBSET dels /\ EndsAt(r.slashes, p) \in SUBSET r.slashes
    BY DEF StartsAt, EndsAt
  <2>2. QED
    BY <1>1, <2>1, FS_Subset
<1>4. Cardinality(dels) \in Nat /\ Cardinality(r.slashes) \in Nat
  BY <1>1, FS_CardinalityType
<1>5. BagCardinality(r.refs) \in Nat
  BY <1>4 DEF Tallied
<1>6. QED
  BY <1>2, <1>3, <1>4, <1>5, FS_CardinalityType DEF IsFiniteBag

\* The count of a period that is tallied, in terms of the sets that start and end there.
LEMMA TallyCounts ==
    ASSUME NEW r, NEW start, NEW dels, Tallied(r, start, dels), NEW p \in 0 .. (r.period - 1)
    PROVE  ReferenceCount(r.refs, p) =
               Cardinality(StartsAt(start, dels, p)) + Cardinality(EndsAt(r.slashes, p))
               + (IF p = r.period - 1 THEN 1 ELSE 0)
BY DEF Tallied, StartsAt, EndsAt

\* A period that somebody refers to is recorded.
LEMMA TallyRecords ==
    ASSUME NEW r, NEW start, NEW dels, Tallied(r, start, dels), r.period \in Nat \ {0},
           IsABag(r.refs)
    PROVE  /\ r.period - 1 \in BagToSet(r.refs)
           /\ \A d \in dels : start[d].period \in Nat => start[d].period \in BagToSet(r.refs)
<1>1. \A p : /\ Cardinality(StartsAt(start, dels, p)) \in Nat
             /\ IsFiniteSet(StartsAt(start, dels, p))
             /\ Cardinality(EndsAt(r.slashes, p)) \in Nat
  BY TallyIsFinite
<1>2. r.period - 1 \in 0 .. (r.period - 1)
  OBVIOUS
<1>3. r.period - 1 \in BagToSet(r.refs)
  <2>1. ReferenceCount(r.refs, r.period - 1) > 0
    BY <1>1, <1>2, TallyCounts
  <2>2. QED
    BY <2>1 DEF ReferenceCount
<1>4. ASSUME NEW d \in dels, start[d].period \in Nat
      PROVE  start[d].period \in BagToSet(r.refs)
  <2> DEFINE p == start[d].period
             n == Cardinality(StartsAt(start, dels, p))
             m == Cardinality(EndsAt(r.slashes, p))
  <2>1. p \in 0 .. (r.period - 1)
    BY <1>4 DEF Tallied
  <2>2. n # 0
    <3>1. d \in StartsAt(start, dels, p)
      BY DEF StartsAt
    <3> HIDE DEF p
    <3>2. QED
      BY <1>1, <3>1, FS_EmptySet
  <2>3. ReferenceCount(r.refs, p) = n + m + (IF p = r.period - 1 THEN 1 ELSE 0)
    <3> HIDE DEF p
    <3> QED
      BY <2>1, TallyCounts
  <2>4. n \in Nat /\ m \in Nat
    BY <1>1
  <2> HIDE DEF p, n, m
  <2>5. ReferenceCount(r.refs, p) > 0
    BY <2>2, <2>3, <2>4
  <2>6. p \in BagToSet(r.refs)
    BY <2>5 DEF ReferenceCount
  <2>7. QED
    BY <2>6 DEF p
<1>5. QED
  BY <1>3, <1>4

\* The tally looks at nothing but periods and counts.
LEMMA TallyFrame ==
    ASSUME NEW r, NEW start, NEW dels, Tallied(r, start, dels), NEW n, NEW begin,
           n.refs = r.refs, n.period = r.period, n.slashes = r.slashes,
           \A d \in dels : begin[d].period = start[d].period
    PROVE  Tallied(n, begin, dels)
<1>1. \A p : {d \in dels : begin[d].period = p} = {d \in dels : start[d].period = p}
  OBVIOUS
<1>2. QED
  BY <1>1 DEF Tallied

\* A tally, put together from the sets that start and end at each period.
LEMMA TallyFrom ==
    ASSUME NEW n, NEW begin, NEW dels,
           IsFiniteSet(dels), IsFiniteSet(n.slashes),
           \A d \in dels : begin[d].period < n.period,
           \A s \in n.slashes : s.period < n.period,
           BagToSet(n.refs) \subseteq 0 .. (n.period - 1),
           \A p \in 0 .. (n.period - 1) :
              ReferenceCount(n.refs, p) =
                  Cardinality(StartsAt(begin, dels, p)) + Cardinality(EndsAt(n.slashes, p))
                  + (IF p = n.period - 1 THEN 1 ELSE 0),
           BagCardinality(n.refs) = 1 + Cardinality(dels) + Cardinality(n.slashes)
    PROVE  Tallied(n, begin, dels)
BY DEF Tallied, StartsAt, EndsAt

\* A new record of a period is one more copy of it.
LEMMA SetReferenceAdds ==
    ASSUME NEW refs, IsABag(refs), NEW p, p \notin BagToSet(refs)
    PROVE  SetReference(refs, p) = refs (+) SetToBag({p})
BY DEF SetReference, IsABag, BagToSet, (+), SetToBag

\* incrementReferenceCount and decrementReferenceCount on a tally.
LEMMA ReferencesChange ==
    ASSUME NEW refs, IsFiniteBag(refs), NEW p
    PROVE  /\ IsFiniteBag(AddReference(refs, p))
           /\ BagCardinality(AddReference(refs, p)) = BagCardinality(refs) + 1
           /\ BagToSet(AddReference(refs, p)) = BagToSet(refs) \cup {p}
           /\ \A q : ReferenceCount(AddReference(refs, p), q)
                       = ReferenceCount(refs, q) + (IF q = p THEN 1 ELSE 0)
           /\ p \in BagToSet(refs) =>
                /\ IsFiniteBag(DropReference(refs, p))
                /\ BagCardinality(DropReference(refs, p)) = BagCardinality(refs) - 1
                /\ BagToSet(DropReference(refs, p)) \subseteq BagToSet(refs)
                /\ \A q : ReferenceCount(DropReference(refs, p), q)
                            = ReferenceCount(refs, q) - (IF q = p THEN 1 ELSE 0)
<1>1. \A q, B : ReferenceCount(B, q) = Copies(q, B)
  BY DEF ReferenceCount, Copies
<1> DEFINE A == refs (+) SetToBag({p})
           B == refs (-) SetToBag({p})
<1>2. /\ IsFiniteBag(A)
      /\ BagCardinality(A) = BagCardinality(refs) + 1
      /\ BagToSet(A) = BagToSet(refs) \cup {p}
      /\ \A q : Copies(q, A) = Copies(q, refs) + (IF q = p THEN 1 ELSE 0)
  BY AddCopy
<1>3. p \in BagToSet(refs) =>
        /\ IsFiniteBag(B)
        /\ BagCardinality(B) = BagCardinality(refs) - 1
        /\ BagToSet(B) \subseteq BagToSet(refs)
        /\ \A q : Copies(q, B) = Copies(q, refs) - (IF q = p THEN 1 ELSE 0)
  BY DropCopy
<1>4. A = AddReference(refs, p) /\ B = DropReference(refs, p)
  BY DEF AddReference, DropReference
<1> HIDE DEF A, B
<1>5. QED
  BY <1>1, <1>2, <1>3, <1>4

\* Counts are numbers.
LEMMA ReferenceCountType ==
    ASSUME NEW refs, IsABag(refs), NEW p
    PROVE  ReferenceCount(refs, p) \in Nat
BY DEF ReferenceCount, IsABag, BagToSet

\* Ending a period moves the validator's own reference.
LEMMA TallyMoves ==
    ASSUME NEW r, IsABag(r.refs), r.period \in Nat \ {0},
           NEW start, NEW dels, Tallied(r, start, dels),
           \A d \in dels : start[d].period \in Nat,
           r.slashes \subseteq Slashes,
           NEW n, n.period = r.period + 1, n.slashes = r.slashes,
           n.refs = SetReference(DropReference(r.refs, r.period - 1), r.period)
    PROVE  Tallied(n, start, dels)
<1> DEFINE B == DropReference(r.refs, r.period - 1)
           C == AddReference(B, r.period)
<1>1. /\ IsFiniteBag(r.refs) /\ BagCardinality(r.refs) \in Nat
      /\ Cardinality(dels) \in Nat /\ Cardinality(r.slashes) \in Nat
      /\ r.period - 1 \in BagToSet(r.refs)
  BY TallyIsFinite, TallyRecords
<1>2. /\ IsFiniteBag(B)
      /\ BagCardinality(B) = BagCardinality(r.refs) - 1
      /\ BagToSet(B) \subseteq BagToSet(r.refs)
      /\ \A q : ReferenceCount(B, q)
                  = ReferenceCount(r.refs, q) - (IF q = r.period - 1 THEN 1 ELSE 0)
  BY <1>1, ReferencesChange
<1> HIDE DEF B
<1>3. /\ BagCardinality(C) = BagCardinality(B) + 1
      /\ BagToSet(C) = BagToSet(B) \cup {r.period}
      /\ \A q : ReferenceCount(C, q) = ReferenceCount(B, q) + (IF q = r.period THEN 1 ELSE 0)
  BY <1>2, ReferencesChange
<1>4. BagToSet(r.refs) \subseteq 0 .. (r.period - 1)
  BY DEF Tallied
<1>5. n.refs = C
  <2>1. r.period \notin BagToSet(B)
    BY <1>2, <1>4
  <2>2. n.refs = SetReference(B, r.period)
    BY DEF B
  <2>3. IsABag(B)
    BY <1>2 DEF IsFiniteBag
  <2>4. QED
    BY <2>1, <2>2, <2>3, SetReferenceAdds DEF AddReference
<1> HIDE DEF C
<1>6. ASSUME NEW p \in 0 .. r.period
      PROVE  ReferenceCount(n.refs, p) =
                  Cardinality(StartsAt(start, dels, p)) + Cardinality(EndsAt(n.slashes, p))
                  + (IF p = r.period THEN 1 ELSE 0)
  <2>1. ReferenceCount(r.refs, p) \in Nat
    BY ReferenceCountType
  <2>2. ReferenceCount(n.refs, p) = ReferenceCount(r.refs, p)
          - (IF p = r.period - 1 THEN 1 ELSE 0) + (IF p = r.period THEN 1 ELSE 0)
    BY <1>2, <1>3, <1>5
  <2>3. /\ Cardinality(StartsAt(start, dels, p)) \in Nat
        /\ Cardinality(EndsAt(n.slashes, p)) \in Nat
    BY TallyIsFinite
  <2>4. CASE p # r.period
    <3>1. p \in 0 .. (r.period - 1)
      BY <2>4
    <3>2. ReferenceCount(r.refs, p) =
             Cardinality(StartsAt(start, dels, p)) + Cardinality(EndsAt(n.slashes, p))
             + (IF p = r.period - 1 THEN 1 ELSE 0)
      BY <3>1, TallyCounts
    <3>3. QED
      BY <2>1, <2>2, <2>3, <2>4, <3>2
  <2>5. CASE p = r.period
    <3>1. ReferenceCount(r.refs, p) = 0
      BY <1>4, <2>5 DEF ReferenceCount
    <3>2. StartsAt(start, dels, p) = {} /\ EndsAt(n.slashes, p) = {}
      <4>1. \A d \in dels : start[d].period # p
        BY <2>5 DEF Tallied
      <4>2. \A s \in r.slashes : s.period # p
        BY <2>5 DEF Tallied, Slashes
      <4>3. QED
        BY <4>1, <4>2 DEF StartsAt, EndsAt
    <3>3. QED
      BY <2>2, <2>5, <3>1, <3>2, FS_EmptySet
  <2>6. QED
    BY <2>4, <2>5
<1>7. /\ \A d \in dels : start[d].period < n.period
      /\ \A s \in n.slashes : s.period < n.period
  BY DEF Tallied, Slashes
<1>8. BagToSet(n.refs) \subseteq 0 .. (n.period - 1)
  BY <1>2, <1>3, <1>4, <1>5
<1>9. BagCardinality(n.refs) = 1 + Cardinality(dels) + Cardinality(n.slashes)
  <2>1. BagCardinality(r.refs) = 1 + Cardinality(dels) + Cardinality(r.slashes)
    BY DEF Tallied
  <2>2. QED
    BY <1>1, <1>2, <1>3, <1>5, <2>1
<1>10. IsFiniteSet(dels) /\ IsFiniteSet(n.slashes)
  BY DEF Tallied
<1>11. n.period - 1 = r.period
  OBVIOUS
<1>12. QED
  BY <1>6, <1>7, <1>8, <1>9, <1>10, <1>11, TallyFrom

\* Closing a delegation drops its reference.
LEMMA TallyDrops ==
    ASSUME NEW r, IsABag(r.refs), r.period \in Nat \ {0},
           NEW start, NEW dels, Tallied(r, start, dels),
           NEW d \in dels, start[d].period \in Nat,
           NEW n, n.period = r.period, n.slashes = r.slashes,
           n.refs = DropReference(r.refs, start[d].period)
    PROVE  Tallied(n, start, dels \ {d})
<1> DEFINE f == start[d].period
<1>1. /\ IsFiniteBag(r.refs) /\ BagCardinality(r.refs) \in Nat
      /\ Cardinality(dels) \in Nat /\ Cardinality(r.slashes) \in Nat
      /\ f \in BagToSet(r.refs)
  BY TallyIsFinite, TallyRecords
<1> HIDE DEF f
<1>2. /\ BagCardinality(n.refs) = BagCardinality(r.refs) - 1
      /\ BagToSet(n.refs) \subseteq BagToSet(r.refs)
      /\ \A q : ReferenceCount(n.refs, q)
                  = ReferenceCount(r.refs, q) - (IF q = f THEN 1 ELSE 0)
  BY <1>1, ReferencesChange DEF f
<1>3. ASSUME NEW p \in 0 .. (r.period - 1)
      PROVE  ReferenceCount(n.refs, p) =
                  Cardinality(StartsAt(start, dels \ {d}, p)) + Cardinality(EndsAt(n.slashes, p))
                  + (IF p = r.period - 1 THEN 1 ELSE 0)
  <2>1. /\ IsFiniteSet(StartsAt(start, dels, p))
        /\ Cardinality(StartsAt(start, dels, p)) \in Nat
        /\ Cardinality(EndsAt(r.slashes, p)) \in Nat
    BY TallyIsFinite
  <2>2. ReferenceCount(r.refs, p) =
             Cardinality(StartsAt(start, dels, p)) + Cardinality(EndsAt(r.slashes, p))
             + (IF p = r.period - 1 THEN 1 ELSE 0)
    BY TallyCounts
  <2>3. Cardinality(StartsAt(start, dels \ {d}, p))
          = Cardinality(StartsAt(start, dels, p)) - (IF p = f THEN 1 ELSE 0)
    <3>1. CASE p = f
      <4>1. /\ StartsAt(start, dels \ {d}, p) = StartsAt(start, dels, p) \ {d}
            /\ d \in StartsAt(start, dels, p)
        BY <3>1 DEF StartsAt, f
      <4>2. QED
        BY <2>1, <3>1, <4>1, FS_RemoveElement
    <3>2. CASE p # f
      <4>1. StartsAt(start, dels \ {d}, p) = StartsAt(start, dels, p)
        BY <3>2 DEF StartsAt, f
      <4>2. QED
        BY <2>1, <3>2, <4>1
    <3>3. QED
      BY <3>1, <3>2
  <2>4. ReferenceCount(n.refs, p) = ReferenceCount(r.refs, p) - (IF p = f THEN 1 ELSE 0)
    BY <1>2
  <2>5. QED
    BY <2>1, <2>2, <2>3, <2>4
<1>4. Cardinality(dels \ {d}) = Cardinality(dels) - 1 /\ IsFiniteSet(dels \ {d})
  BY FS_RemoveElement DEF Tallied
<1>5. BagCardinality(n.refs) = 1 + Cardinality(dels \ {d}) + Cardinality(n.slashes)
  <2>1. BagCardinality(r.refs) = 1 + Cardinality(dels) + Cardinality(r.slashes)
    BY DEF Tallied
  <2>2. QED
    BY <1>1, <1>2, <1>4, <2>1
<1>6. /\ \A e \in dels \ {d} : start[e].period < n.period
      /\ \A s \in n.slashes : s.period < n.period
      /\ IsFiniteSet(n.slashes)
      /\ BagToSet(n.refs) \subseteq 0 .. (n.period - 1)
  BY <1>2 DEF Tallied
<1>7. QED
  BY <1>3, <1>4, <1>5, <1>6, TallyFrom

\* Starting a delegation adds a reference to the last period.
LEMMA TallyAdds ==
    ASSUME NEW r, IsABag(r.refs), r.period \in Nat \ {0},
           NEW start, NEW dels, Tallied(r, start, dels),
           NEW d, d \notin dels,
           NEW begin, begin[d].period = r.period - 1,
           \A e \in dels : begin[e].period = start[e].period,
           NEW n, n.period = r.period, n.slashes = r.slashes,
           n.refs = AddReference(r.refs, r.period - 1)
    PROVE  Tallied(n, begin, dels \cup {d})
<1>1. /\ IsFiniteBag(r.refs) /\ BagCardinality(r.refs) \in Nat
      /\ Cardinality(dels) \in Nat /\ Cardinality(r.slashes) \in Nat
  BY TallyIsFinite
<1>2. /\ BagCardinality(n.refs) = BagCardinality(r.refs) + 1
      /\ BagToSet(n.refs) = BagToSet(r.refs) \cup {r.period - 1}
      /\ \A q : ReferenceCount(n.refs, q)
                  = ReferenceCount(r.refs, q) + (IF q = r.period - 1 THEN 1 ELSE 0)
  BY <1>1, ReferencesChange
<1>3. ASSUME NEW p \in 0 .. (r.period - 1)
      PROVE  ReferenceCount(n.refs, p) =
                  Cardinality(StartsAt(begin, dels \cup {d}, p)) + Cardinality(EndsAt(n.slashes, p))
                  + (IF p = r.period - 1 THEN 1 ELSE 0)
  <2>1. /\ IsFiniteSet(StartsAt(start, dels, p))
        /\ Cardinality(StartsAt(start, dels, p)) \in Nat
        /\ Cardinality(EndsAt(r.slashes, p)) \in Nat
    BY TallyIsFinite
  <2>2. ReferenceCount(r.refs, p) =
             Cardinality(StartsAt(start, dels, p)) + Cardinality(EndsAt(r.slashes, p))
             + (IF p = r.period - 1 THEN 1 ELSE 0)
    BY TallyCounts
  <2>3. Cardinality(StartsAt(begin, dels \cup {d}, p))
          = Cardinality(StartsAt(start, dels, p)) + (IF p = r.period - 1 THEN 1 ELSE 0)
    <3>1. CASE p = r.period - 1
      <4>1. /\ StartsAt(begin, dels \cup {d}, p) = StartsAt(start, dels, p) \cup {d}
            /\ d \notin StartsAt(start, dels, p)
        BY <3>1 DEF StartsAt
      <4> DEFINE A == StartsAt(start, dels, p)
      <4>2. IsFiniteSet(A) /\ d \notin A
        BY <2>1, <4>1
      <4> HIDE DEF A
      <4>3. Cardinality(A \cup {d}) = Cardinality(A) + 1
        BY <4>2, FS_AddElement
      <4>4. QED
        BY <3>1, <4>1, <4>3 DEF A
    <3>2. CASE p # r.period - 1
      <4>1. StartsAt(begin, dels \cup {d}, p) = StartsAt(start, dels, p)
        BY <3>2 DEF StartsAt
      <4>2. QED
        BY <2>1, <3>2, <4>1
    <3>3. QED
      BY <3>1, <3>2
  <2>4. ReferenceCount(n.refs, p)
          = ReferenceCount(r.refs, p) + (IF p = r.period - 1 THEN 1 ELSE 0)
    BY <1>2
  <2>5. QED
    BY <2>1, <2>2, <2>3, <2>4
<1>4. Cardinality(dels \cup {d}) = Cardinality(dels) + 1 /\ IsFiniteSet(dels \cup {d})
  BY FS_AddElement DEF Tallied
<1>5. BagCardinality(n.refs) = 1 + Cardinality(dels \cup {d}) + Cardinality(n.slashes)
  <2>1. BagCardinality(r.refs) = 1 + Cardinality(dels) + Cardinality(r.slashes)
    BY DEF Tallied
  <2>2. QED
    BY <1>1, <1>2, <1>4, <2>1
<1>6. /\ \A e \in dels \cup {d} : begin[e].period < n.period
      /\ \A s \in n.slashes : s.period < n.period
      /\ IsFiniteSet(n.slashes)
      /\ BagToSet(n.refs) \subseteq 0 .. (n.period - 1)
  BY <1>2 DEF Tallied
<1>7. QED
  BY <1>3, <1>4, <1>5, <1>6, TallyFrom

\* A slash event refers to the period it ends.
LEMMA TallySlashes ==
    ASSUME NEW r, IsABag(r.refs), r.period \in Nat \ {0},
           NEW start, NEW dels, Tallied(r, start, dels),
           NEW s, s \notin r.slashes, s.period = r.period - 1,
           NEW n, n.period = r.period, n.slashes = r.slashes \cup {s},
           n.refs = AddReference(r.refs, r.period - 1)
    PROVE  Tallied(n, start, dels)
<1>1. /\ IsFiniteBag(r.refs) /\ BagCardinality(r.refs) \in Nat
      /\ Cardinality(dels) \in Nat /\ Cardinality(r.slashes) \in Nat
  BY TallyIsFinite
<1>2. /\ BagCardinality(n.refs) = BagCardinality(r.refs) + 1
      /\ BagToSet(n.refs) = BagToSet(r.refs) \cup {r.period - 1}
      /\ \A q : ReferenceCount(n.refs, q)
                  = ReferenceCount(r.refs, q) + (IF q = r.period - 1 THEN 1 ELSE 0)
  BY <1>1, ReferencesChange
<1>3. ASSUME NEW p \in 0 .. (r.period - 1)
      PROVE  ReferenceCount(n.refs, p) =
                  Cardinality(StartsAt(start, dels, p)) + Cardinality(EndsAt(n.slashes, p))
                  + (IF p = r.period - 1 THEN 1 ELSE 0)
  <2>1. /\ IsFiniteSet(EndsAt(r.slashes, p))
        /\ Cardinality(StartsAt(start, dels, p)) \in Nat
        /\ Cardinality(EndsAt(r.slashes, p)) \in Nat
    BY TallyIsFinite
  <2>2. ReferenceCount(r.refs, p) =
             Cardinality(StartsAt(start, dels, p)) + Cardinality(EndsAt(r.slashes, p))
             + (IF p = r.period - 1 THEN 1 ELSE 0)
    BY TallyCounts
  <2>3. Cardinality(EndsAt(n.slashes, p))
          = Cardinality(EndsAt(r.slashes, p)) + (IF p = r.period - 1 THEN 1 ELSE 0)
    <3>1. CASE p = r.period - 1
      <4>1. /\ EndsAt(n.slashes, p) = EndsAt(r.slashes, p) \cup {s}
            /\ s \notin EndsAt(r.slashes, p)
        BY <3>1 DEF EndsAt
      <4> DEFINE A == EndsAt(r.slashes, p)
      <4>2. IsFiniteSet(A) /\ s \notin A
        BY <2>1, <4>1
      <4> HIDE DEF A
      <4>3. Cardinality(A \cup {s}) = Cardinality(A) + 1
        BY <4>2, FS_AddElement
      <4>4. QED
        BY <3>1, <4>1, <4>3 DEF A
    <3>2. CASE p # r.period - 1
      <4>1. EndsAt(n.slashes, p) = EndsAt(r.slashes, p)
        BY <3>2 DEF EndsAt
      <4>2. QED
        BY <2>1, <3>2, <4>1
    <3>3. QED
      BY <3>1, <3>2
  <2>4. ReferenceCount(n.refs, p)
          = ReferenceCount(r.refs, p) + (IF p = r.period - 1 THEN 1 ELSE 0)
    BY <1>2
  <2>5. QED
    BY <2>1, <2>2, <2>3, <2>4
<1>4. Cardinality(n.slashes) = Cardinality(r.slashes) + 1 /\ IsFiniteSet(n.slashes)
  <2>1. IsFiniteSet(r.slashes)
    BY DEF Tallied
  <2>2. /\ IsFiniteSet(r.slashes \cup {s})
        /\ Cardinality(r.slashes \cup {s}) = Cardinality(r.slashes) + 1
    BY <2>1, FS_AddElement
  <2>3. QED
    BY <2>2
<1>5. BagCardinality(n.refs) = 1 + Cardinality(dels) + Cardinality(n.slashes)
  <2>1. BagCardinality(r.refs) = 1 + Cardinality(dels) + Cardinality(r.slashes)
    BY DEF Tallied
  <2>2. QED
    BY <1>1, <1>2, <1>4, <2>1
<1>6. /\ \A e \in dels : start[e].period < n.period
      /\ \A t \in n.slashes : t.period < n.period
      /\ IsFiniteSet(dels)
      /\ BagToSet(n.refs) \subseteq 0 .. (n.period - 1)
  BY <1>2 DEF Tallied
<1>7. QED
  BY <1>3, <1>4, <1>5, <1>6, TallyFrom

\* A new validator has its own reference, to period 0.
LEMMA TallyStarts ==
    ASSUME NEW last \in Nat, NEW n, NEW start,
           n.refs = SetToBag({last}), n.period = last + 1, n.slashes = {}
    PROVE  Tallied(n, start, {})
<1>1. n.refs = EmptyBag (+) SetToBag({last})
  BY DEF EmptyBag, SetToBag, (+)
<1>2. BagCardinality(n.refs) = 1
  <2>1. IsFiniteBag(EmptyBag) /\ BagCardinality(EmptyBag) = 0
    BY NoCopies
  <2>2. BagCardinality(EmptyBag (+) SetToBag({last})) = BagCardinality(EmptyBag) + 1
    BY <2>1, AddCopy
  <2>3. QED
    BY <1>1, <2>1, <2>2
<1>3. \A p \in 0 .. last : /\ ReferenceCount(n.refs, p) = (IF p = last THEN 1 ELSE 0)
                           /\ StartsAt(start, {}, p) = {} /\ EndsAt(n.slashes, p) = {}
  BY DEF ReferenceCount, BagToSet, SetToBag, StartsAt, EndsAt
<1>4. IsFiniteSet({}) /\ Cardinality({}) = 0
  BY FS_EmptySet
<1>5. BagToSet(n.refs) \subseteq 0 .. last
  BY DEF SetToBag, BagToSet
<1>6. \A p \in 0 .. (n.period - 1) :
         ReferenceCount(n.refs, p) =
             Cardinality(StartsAt(start, {}, p)) + Cardinality(EndsAt(n.slashes, p))
             + (IF p = n.period - 1 THEN 1 ELSE 0)
  <2>1. SUFFICES ASSUME NEW p \in 0 .. (n.period - 1)
                 PROVE  ReferenceCount(n.refs, p) =
                            Cardinality(StartsAt(start, {}, p)) + Cardinality(EndsAt(n.slashes, p))
                            + (IF p = n.period - 1 THEN 1 ELSE 0)
    OBVIOUS
  <2>2. n.period - 1 = last /\ p \in 0 .. last
    BY <2>1
  <2>3. Cardinality(StartsAt(start, {}, p)) = 0 /\ Cardinality(EndsAt(n.slashes, p)) = 0
    BY <1>3, <1>4, <2>2
  <2>4. ReferenceCount(n.refs, p) = (IF p = n.period - 1 THEN 1 ELSE 0)
    BY <1>3, <2>2
  <2>5. QED
    BY <2>3, <2>4
<1>7. BagCardinality(n.refs) = 1 + Cardinality({}) + Cardinality(n.slashes)
  BY <1>2, <1>4
<1>8. IsFiniteSet(n.slashes) /\ BagToSet(n.refs) \subseteq 0 .. (n.period - 1)
  BY <1>4, <1>5
<1>9. QED
  BY <1>4, <1>6, <1>7, <1>8, TallyFrom

\* The hook of a new validator starts a tally where there are no records.
LEMMA TallyCreated ==
    ASSUME NEW r, Untallied(r), NEW start, NEW n,
           n.refs = SetReference(r.refs, 0), n.period = 1, n.slashes = r.slashes
    PROVE  Tallied(n, start, {})
<1>1. SetReference(EmptyBag, 0) = SetToBag({0})
  BY DEF SetReference, EmptyBag, SetToBag, BagToSet
<1>2. n.refs = SetToBag({0}) /\ n.slashes = {} /\ n.period = 0 + 1
  BY <1>1 DEF Untallied
<1>3. QED
  BY <1>2, TallyStarts

\* A validator of the genesis and its self-delegation.
LEMMA TallyAtGenesis ==
    ASSUME NEW start, NEW d, start[d].period = 1
    PROVE  Tallied(GenesisRewards, start, {d})
<1> DEFINE one == [refs |-> SetToBag({1}), period |-> 2, slashes |-> {}]
<1>1. Tallied(one, start, {})
  <2>1. one.refs = SetToBag({1}) /\ one.period = 1 + 1 /\ one.slashes = {}
    OBVIOUS
  <2> HIDE DEF one
  <2>2. QED
    BY <2>1, TallyStarts
<1>2. IsABag(one.refs) /\ one.period \in Nat \ {0} /\ d \notin {}
  BY DEF IsABag, SetToBag
<1>3. /\ start[d].period = one.period - 1
      /\ GenesisRewards.period = one.period /\ GenesisRewards.slashes = one.slashes
      /\ GenesisRewards.refs = AddReference(one.refs, one.period - 1)
  BY DEF GenesisRewards, AddReference
<1>4. {} \cup {d} = {d}
  OBVIOUS
<1> HIDE DEF one
<1>5. Tallied(GenesisRewards, start, {} \cup {d})
  BY <1>1, <1>2, <1>3, TallyAdds
<1>6. QED
  BY <1>4, <1>5

\* The records of v tally with the delegations to it among dels.
TallyOf(D, dels, v) == Tallied(D.vals[v], D.start, {d \in dels : d[2] = v})

\* The delegations with a starting info.
KnownStarts(D, S) == {d \in S : D.start[d].known}

\* The types a tally needs.
LEMMA RecordTypes ==
    ASSUME NEW V, NEW S, NEW D, IsKeeper(D, V, S), NEW v \in V
    PROVE  /\ IsABag(D.vals[v].refs)
           /\ D.vals[v].period \in Nat \ {0}
           /\ D.vals[v].slashes \subseteq Slashes
           /\ \A d \in S : D.start[d] \in StartInfos /\ D.start[d].period \in Nat
<1>1. IsRewards(D.vals[v])
  BY DEF IsKeeper
<1>2. D.start \in [S -> StartInfos]
  BY DEF IsKeeper
<1>3. \A d \in S : D.start[d] \in StartInfos /\ D.start[d].period \in Nat
  BY <1>2 DEF StartInfos
<1>4. QED
  BY <1>1, <1>3 DEF IsRewards, WithHistory

\* Operations that keep the records of a validator keep its tally.
LEMMA TallyElsewhere ==
    ASSUME NEW D, NEW E, NEW dels, NEW those, NEW u,
           E.vals[u].refs = D.vals[u].refs, E.vals[u].period = D.vals[u].period,
           E.vals[u].slashes = D.vals[u].slashes,
           {d \in those : d[2] = u} = {d \in dels : d[2] = u},
           \A d \in dels : d[2] = u => E.start[d].period = D.start[d].period,
           TallyOf(D, dels, u)
    PROVE  TallyOf(E, those, u)
<1> DEFINE mine == {d \in dels : d[2] = u}
<1>1. Tallied(D.vals[u], D.start, mine)
  BY DEF TallyOf
<1>2. \A d \in mine : E.start[d].period = D.start[d].period
  OBVIOUS
<1>3. {d \in those : d[2] = u} = mine
  OBVIOUS
<1> HIDE DEF mine
<1>4. Tallied(E.vals[u], E.start, mine)
  BY <1>1, <1>2, TallyFrame
<1>5. QED
  BY <1>3, <1>4 DEF TallyOf

\* Ending a period keeps every tally.
LEMMA IncrementPeriodTallied ==
    ASSUME NEW V, NEW S, NEW D, IsKeeper(D, V, S), NEW dels \in SUBSET S,
           NEW v \in V, NEW tk, NEW u \in V, TallyOf(D, dels, u)
    PROVE  TallyOf(IncrementPeriod(D, v, tk), dels, u)
<1> DEFINE E == IncrementPeriod(D, v, tk)
<1>1. E.start = D.start
  BY DEF IncrementPeriod
<1>2. CASE u # v
  <2>1. E.vals[u] = D.vals[u]
    BY <1>2 DEF IncrementPeriod, IsKeeper
  <2> HIDE DEF E
  <2>2. QED
    BY <1>1, <2>1, TallyElsewhere DEF E
<1>3. CASE u = v
  <2>1. /\ E.vals[u].period = D.vals[u].period + 1
        /\ E.vals[u].slashes = D.vals[u].slashes
        /\ E.vals[u].refs = SetReference(DropReference(D.vals[u].refs, D.vals[u].period - 1),
                                         D.vals[u].period)
    BY <1>3 DEF IncrementPeriod, IsKeeper
  <2> HIDE DEF E
  <2>2. \A d \in {d \in dels : d[2] = u} : D.start[d].period \in Nat
    BY RecordTypes
  <2>3. IsABag(D.vals[u].refs) /\ D.vals[u].period \in Nat \ {0} /\ D.vals[u].slashes \subseteq Slashes
    BY RecordTypes
  <2>4. Tallied(D.vals[u], D.start, {d \in dels : d[2] = u})
    BY DEF TallyOf
  <2>5. Tallied(E.vals[u], D.start, {d \in dels : d[2] = u})
    BY <2>1, <2>2, <2>3, <2>4, TallyMoves
  <2>6. QED
    BY <1>1, <2>5 DEF TallyOf, E
<1>4. QED
  BY <1>2, <1>3

\* Starting a delegation that has no reference yet.
LEMMA InitializeDelegationTallied ==
    ASSUME NEW V, NEW S, NEW D, IsKeeper(D, V, S), NEW dels \in SUBSET S,
           NEW d \in S, d \notin dels, d[2] \in V, NEW h, NEW u \in V, TallyOf(D, dels, u)
    PROVE  TallyOf(InitializeDelegation(D, d, h), dels \cup {d}, u)
<1> DEFINE E == InitializeDelegation(D, d, h)
<1>1. /\ E.start[d].period = D.vals[d[2]].period - 1
      /\ \A e \in S : e # d => E.start[e] = D.start[e]
  BY DEF InitializeDelegation, IsKeeper
<1>2. CASE u # d[2]
  <2>1. E.vals[u] = D.vals[u]
    BY <1>2 DEF InitializeDelegation, IsKeeper
  <2> HIDE DEF E
  <2>2. {e \in dels \cup {d} : e[2] = u} = {e \in dels : e[2] = u}
    BY <1>2
  <2>3. \A e \in dels : e[2] = u => E.start[e].period = D.start[e].period
    BY <1>1
  <2>4. QED
    BY <2>1, <2>2, <2>3, TallyElsewhere DEF E
<1>3. CASE u = d[2]
  <2>1. /\ E.vals[u].period = D.vals[u].period
        /\ E.vals[u].slashes = D.vals[u].slashes
        /\ E.vals[u].refs = AddReference(D.vals[u].refs, D.vals[u].period - 1)
    BY <1>3 DEF InitializeDelegation, WithHistory, IsKeeper
  <2> HIDE DEF E
  <2> DEFINE mine == {e \in dels : e[2] = u}
  <2>2. {e \in dels \cup {d} : e[2] = u} = mine \cup {d} /\ d \notin mine
    BY <1>3
  <2>3. IsABag(D.vals[u].refs) /\ D.vals[u].period \in Nat \ {0}
    BY RecordTypes
  <2>4. Tallied(D.vals[u], D.start, mine)
    BY DEF TallyOf
  <2>5. E.start[d].period = D.vals[u].period - 1
    BY <1>1, <1>3
  <2>6. \A e \in mine : E.start[e].period = D.start[e].period
    BY <1>1
  <2> HIDE DEF mine
  <2>7. Tallied(E.vals[u], E.start, mine \cup {d})
    <3> DEFINE r == D.vals[u]
               n == E.vals[u]
               begin == E.start
    <3>1. /\ IsABag(r.refs) /\ r.period \in Nat \ {0} /\ Tallied(r, D.start, mine)
          /\ begin[d].period = r.period - 1
          /\ \A e \in mine : begin[e].period = D.start[e].period
          /\ n.period = r.period /\ n.slashes = r.slashes
          /\ n.refs = AddReference(r.refs, r.period - 1)
      BY <2>1, <2>3, <2>4, <2>5, <2>6
    <3> HIDE DEF r, n, begin
    <3>2. Tallied(n, begin, mine \cup {d})
      BY <2>2, <3>1, TallyAdds
    <3>3. QED
      BY <3>2 DEF n, begin
  <2>8. QED
    BY <2>2, <2>7 DEF TallyOf, E
<1>4. QED
  BY <1>2, <1>3

\* Withdrawing closes the delegation.
LEMMA SettleDelegationTallied ==
    ASSUME NEW V, NEW S, NEW D, IsKeeper(D, V, S), NEW dels \in SUBSET S,
           NEW d \in dels, d[2] \in V, NEW tk, NEW earned, NEW u \in V, TallyOf(D, dels, u)
    PROVE  TallyOf(SettleDelegation(D, d, tk, earned), dels \ {d}, u)
<1> DEFINE F == IncrementPeriod(D, d[2], tk)
           E == SettleDelegation(D, d, tk, earned)
<1>1. IsKeeper(F, V, S) /\ TallyOf(F, dels, u)
  <2> HIDE DEF F
  <2> QED
    BY IncrementPeriodEffect, IncrementPeriodTallied DEF F
<1>2. F.start = D.start
  BY DEF IncrementPeriod
<1>3. /\ E.start = [F.start EXCEPT ![d] = [known |-> FALSE, period |-> D.start[d].period,
                                           height |-> D.start[d].height]]
      /\ \A w \in V : w # d[2] => E.vals[w] = F.vals[w]
      /\ E.vals[d[2]].period = F.vals[d[2]].period
      /\ E.vals[d[2]].slashes = F.vals[d[2]].slashes
      /\ E.vals[d[2]].refs = DropReference(F.vals[d[2]].refs, D.start[d].period)
  <2> HIDE DEF F
  <2>1. F = IncrementPeriod(D, d[2], tk) /\ F.vals = [w \in V |-> F.vals[w]]
    BY <1>1 DEF F, IsKeeper
  <2>2. QED
    BY <2>1 DEF SettleDelegation
<1> HIDE DEF F
<1>4. \A e \in S : E.start[e].period = D.start[e].period
  BY <1>2, <1>3 DEF IsKeeper
<1> HIDE DEF E
<1>5. CASE u # d[2]
  <2>1. {e \in dels \ {d} : e[2] = u} = {e \in dels : e[2] = u}
    BY <1>5
  <2>2. \A e \in dels : e[2] = u => E.start[e].period = F.start[e].period
    BY <1>2, <1>4
  <2>3. E.vals[u] = F.vals[u]
    BY <1>3, <1>5
  <2>4. QED
    BY <1>1, <2>1, <2>2, <2>3, TallyElsewhere DEF E
<1>6. CASE u = d[2]
  <2> DEFINE mine == {e \in dels : e[2] = u}
  <2>1. {e \in dels \ {d} : e[2] = u} = mine \ {d} /\ d \in mine
    BY <1>6
  <2>2. IsABag(F.vals[u].refs) /\ F.vals[u].period \in Nat \ {0} /\ D.start[d].period \in Nat
    BY <1>1, RecordTypes
  <2>3. Tallied(F.vals[u], D.start, mine)
    BY <1>1, <1>2 DEF TallyOf
  <2>4. \A e \in mine : E.start[e].period = D.start[e].period
    BY <1>4
  <2> HIDE DEF mine
  <2>5. Tallied(E.vals[u], D.start, mine \ {d})
    BY <1>3, <1>6, <2>1, <2>2, <2>3, TallyDrops
  <2>6. Tallied(E.vals[u], E.start, mine \ {d})
    BY <2>4, <2>5, TallyFrame
  <2>7. QED
    BY <2>1, <2>6 DEF TallyOf, E
<1>7. QED
  BY <1>5, <1>6

\* A slash event ends a period and refers to it.
LEMMA BeforeValidatorSlashedTallied ==
    ASSUME NEW V, NEW S, NEW D, IsKeeper(D, V, S), NEW dels \in SUBSET S,
           NEW v \in V, NEW tk, NEW h \in Nat, NEW u \in V, TallyOf(D, dels, u)
    PROVE  TallyOf(BeforeValidatorSlashed(D, v, tk, h), dels, u)
<1> DEFINE F == IncrementPeriod(D, v, tk)
           E == BeforeValidatorSlashed(D, v, tk, h)
           p == D.vals[v].period
           s == [height |-> h, period |-> p]
<1>1. IsKeeper(F, V, S) /\ TallyOf(F, dels, u)
  <2> HIDE DEF F
  <2> QED
    BY IncrementPeriodEffect, IncrementPeriodTallied DEF F
<1>2. F.vals[v].period = p + 1 /\ F.vals[v].slashes = D.vals[v].slashes
  BY DEF IncrementPeriod, IsKeeper
<1>3. /\ E.start = F.start
      /\ \A w \in V : w # v => E.vals[w] = F.vals[w]
      /\ E.vals[v].period = F.vals[v].period
      /\ E.vals[v].slashes = F.vals[v].slashes \cup {s}
      /\ E.vals[v].refs = AddReference(F.vals[v].refs, p)
  <2> HIDE DEF F
  <2>1. F = IncrementPeriod(D, v, tk) /\ F.vals = [w \in V |-> F.vals[w]]
    BY <1>1 DEF F, IsKeeper
  <2>2. QED
    BY <2>1 DEF BeforeValidatorSlashed, WithHistory
<1> HIDE DEF F, E
<1>4. CASE u # v
  BY <1>1, <1>3, <1>4, TallyElsewhere DEF E
<1>5. CASE u = v
  <2> DEFINE mine == {e \in dels : e[2] = u}
  <2>1. p \in Nat /\ IsABag(F.vals[u].refs) /\ F.vals[u].period \in Nat \ {0}
    BY <1>1, RecordTypes
  <2>2. Tallied(F.vals[u], F.start, mine) /\ Tallied(D.vals[u], D.start, mine)
    BY <1>1 DEF TallyOf
  <2>3. s.period = p
    OBVIOUS
  <2>4. s \notin F.vals[u].slashes
    <3>1. \A t \in D.vals[u].slashes : t.period < p
      BY <1>5, <2>2 DEF Tallied
    <3>2. ~(p < p)
      BY <2>1
    <3>3. QED
      BY <1>2, <1>5, <2>3, <3>1, <3>2
  <2> HIDE DEF mine, s, p
  <2>5. p = F.vals[u].period - 1
    BY <1>2, <1>5, <2>1
  <2>6. Tallied(E.vals[u], F.start, mine)
    BY <1>3, <1>5, <2>1, <2>2, <2>3, <2>4, <2>5, TallySlashes
  <2>7. QED
    BY <1>3, <2>6 DEF TallyOf, E, mine
<1>6. QED
  BY <1>4, <1>5

\* Commission and fees are no matter of periods.
LEMMA RewardsTallied ==
    ASSUME NEW V, NEW S, NEW D, IsKeeper(D, V, S), NEW dels \in SUBSET S,
           NEW v \in V, NEW u \in V, TallyOf(D, dels, u)
    PROVE  /\ TallyOf(WithdrawValidatorCommission(D, v), dels, u)
           /\ \A tax, comm : TallyOf(AllocateTokens(D, v, tax, comm), dels, u)
<1>1. TallyOf(WithdrawValidatorCommission(D, v), dels, u)
  <2> DEFINE E == WithdrawValidatorCommission(D, v)
  <2>1. /\ E.start = D.start /\ E.vals[u].refs = D.vals[u].refs
        /\ E.vals[u].period = D.vals[u].period /\ E.vals[u].slashes = D.vals[u].slashes
    BY DEF WithdrawValidatorCommission, WithdrawWhole, IsKeeper
  <2> HIDE DEF E
  <2>2. QED
    BY <2>1, TallyElsewhere DEF E
<1>2. ASSUME NEW tax, NEW comm PROVE TallyOf(AllocateTokens(D, v, tax, comm), dels, u)
  <2> DEFINE E == AllocateTokens(D, v, tax, comm)
  <2>1. /\ E.start = D.start /\ E.vals[u].refs = D.vals[u].refs
        /\ E.vals[u].period = D.vals[u].period /\ E.vals[u].slashes = D.vals[u].slashes
    BY DEF AllocateTokens, IsKeeper
  <2> HIDE DEF E
  <2>2. QED
    BY <2>1, TallyElsewhere DEF E
<1>3. QED
  BY <1>1, <1>2

\* Withdrawing and starting again.
LEMMA WithdrawDelegationRewardsKeeps ==
    ASSUME NEW V, IsFiniteSet(V), NEW S, NEW D, IsKeeper(D, V, S), NEW dels \in SUBSET S,
           NEW d \in dels, d[2] \in V, NEW tk, NEW h \in Nat,
           NEW earned \in Earnable(D, d, tk, h)
    PROVE  LET E == WithdrawDelegationRewards(D, d, tk, earned, h)
           IN  /\ Backed(D, V) => Backed(E, V)
               /\ \A u \in V : TallyOf(D, dels, u) => TallyOf(E, dels, u)
               /\ KnownStarts(E, S) = KnownStarts(D, S)
<1> DEFINE F == SettleDelegation(D, d, tk, earned)
           G == InitializeDelegation(F, d, h)
           E == WithdrawDelegationRewards(D, d, tk, earned, h)
<1>1. CASE ~D.start[d].known
  BY <1>1 DEF WithdrawDelegationRewards
<1>2. CASE D.start[d].known
  <2>1. E = G
    BY <1>2 DEF WithdrawDelegationRewards
  <2>2. IsKeeper(F, V, S)
    BY SettleDelegationEffect
  <2>3. ASSUME Backed(D, V) PROVE Backed(E, V)
    <3>1. Backed(F, V)
      BY <2>3, SettleDelegationBacked
    <3> HIDE DEF F
    <3>2. QED
      BY <2>1, <2>2, <3>1, InitializeDelegationBacked
  <2>4. ASSUME NEW u \in V, TallyOf(D, dels, u) PROVE TallyOf(E, dels, u)
    <3>1. TallyOf(F, dels \ {d}, u)
      BY <2>4, SettleDelegationTallied
    <3>2. d \notin dels \ {d} /\ dels \ {d} \in SUBSET S /\ (dels \ {d}) \cup {d} = dels
      OBVIOUS
    <3> HIDE DEF F
    <3>3. TallyOf(G, (dels \ {d}) \cup {d}, u)
      BY <2>2, <3>1, <3>2, InitializeDelegationTallied
    <3>4. QED
      BY <2>1, <3>2, <3>3
  <2>5. \A e \in S : E.start[e].known = D.start[e].known
    <3>1. F.start = [D.start EXCEPT ![d] = [known |-> FALSE, period |-> D.start[d].period,
                                            height |-> D.start[d].height]]
      BY DEF SettleDelegation, IncrementPeriod
    <3>2. G.start = [F.start EXCEPT ![d] = [known |-> TRUE,
                         period |-> F.vals[d[2]].period - 1, height |-> h]]
      BY DEF InitializeDelegation
    <3> HIDE DEF F, G
    <3>3. QED
      BY <1>2, <2>1, <2>2, <3>1, <3>2 DEF IsKeeper
  <2> HIDE DEF E, F, G
  <2>6. QED
    BY <2>3, <2>4, <2>5 DEF KnownStarts, E
<1>3. QED
  BY <1>1, <1>2

-----------------------------------------------------------------------------
(* The chain: types. *)

\* The validator set update keeps the types of what it writes.
LEMMA BondElectedTyped ==
    ASSUME ChainTypeOK, NEW h \in Nat, NEW elected, NEW matured,
           BondElected(h, elected, matured)
    PROVE  /\ status' \in [Validators -> Statuses]
           /\ unbondingHeight' \in [Validators -> Nat]
           /\ startHeight' \in [Validators -> Nat]
BY DEF ChainTypeOK, BondElected, Statuses

Keeper(D) == IsKeeper(D, Validators, Delegations)

\* A delegation is of a delegator to a validator.
LEMMA DelegationTyped ==
    ASSUME NEW d \in Delegations
    PROVE  d[1] \in Delegators /\ d[2] \in Validators
BY DEF Delegations

\* The hooks around a delegation that is made or grows keep the keeper's types.
LEMMA AddedToTyped ==
    ASSUME NEW D, Keeper(D), NEW d \in Delegations, NEW isNew, NEW h \in Nat,
           NEW earned, isNew \/ earned \in Earnable(D, d, tokens[d[2]], h)
    PROVE  Keeper(AddedTo(D, d, isNew, earned, h))
<1> DEFINE F == IF isNew THEN IncrementPeriod(D, d[2], tokens[d[2]])
                         ELSE SettleDelegation(D, d, tokens[d[2]], earned)
<1>1. d[2] \in Validators
  BY DelegationTyped
<1>2. Keeper(F)
  <2>1. CASE isNew
    BY <1>1, <2>1, IncrementPeriodEffect DEF Keeper
  <2>2. CASE ~isNew
    BY <1>1, <2>2, SettleDelegationEffect DEF Keeper
  <2>3. QED
    BY <2>1, <2>2
<1>3. Keeper(InitializeDelegation(F, d, h))
  <2> HIDE DEF F
  <2> QED
    BY <1>1, <1>2, InitializeDelegationEffect DEF Keeper
<1>4. QED
  BY <1>3 DEF AddedTo

\* Taking stake away may jail the validator, within the types.
LEMMA LeaveTyped ==
    ASSUME ChainTypeOK, NEW d \in Delegations, Leave(d)
    PROVE  /\ jailed' \in [Validators -> BOOLEAN]
           /\ powerIndex' \subseteq Validators
<1>1. jailed' = [jailed EXCEPT ![d[2]] = jailed[d[2]] \/ Operator[d[2]] = d[1]]
  BY DEF Leave
<1>2. jailed' \in [Validators -> BOOLEAN]
  BY <1>1, DelegationTyped DEF ChainTypeOK
<1>3. powerIndex' \subseteq Validators
  BY DEF Leave, ChainTypeOK
<1>4. QED
  BY <1>2, <1>3

\* A block changes the bond status with types kept, whatever was elected.
LEMMA EndBlockTyped ==
    ASSUME ChainTypeOK, NEW matured, BlockValidatorUpdates(matured)
    PROVE  /\ height' \in Nat
           /\ status' \in [Validators -> Statuses]
           /\ unbondingHeight' \in [Validators -> Nat]
           /\ startHeight' \in [Validators -> Nat]
<1>1. height + 1 \in Nat /\ height' = height + 1
  BY DEF ChainTypeOK, BlockValidatorUpdates
<1>2. BondElected(height + 1, Elected(tokens', powerIndex'), matured)
  BY DEF BlockValidatorUpdates
<1>3. QED
  BY <1>1, <1>2, BondElectedTyped

\* Every block of the chain keeps the types.
LEMMA BlockTyped ==
    ASSUME ChainTypeOK, Block
    PROVE  ChainTypeOK'
<1> USE DEF EndBlock
<1>0. /\ height + 1 \in Nat
      /\ Keeper(distr)
  BY DEF ChainTypeOK, Keeper
<1>1. ASSUME NEW v \in Validators, AllocateRewards(v)
      PROVE  ChainTypeOK'
  <2>1. PICK tax \in 0 .. Unit : \E comm \in 0 .. (Unit - tax) :
           distr' = AllocateTokens(distr, v, tax, comm)
    BY <1>1 DEF AllocateRewards
  <2>2. PICK comm \in 0 .. (Unit - tax) : distr' = AllocateTokens(distr, v, tax, comm)
    BY <2>1
  <2>3. IsKeeper(distr', Validators, Delegations)
    BY <1>0, <2>2, AllocateTokensEffect DEF Keeper
  <2>4. QED
    BY <1>1, <2>3, EndBlockTyped DEF AllocateRewards, ChainTypeOK
<1>2. ASSUME NEW v \in Validators, Slash(v)
      PROVE  ChainTypeOK'
  <2>1. IsKeeper(distr', Validators, Delegations)
    BY <1>0, <1>2, BeforeValidatorSlashedEffect DEF Slash, Keeper
  <2>2. tokens' \in [Validators -> Nat]
    BY <1>2 DEF Slash, ChainTypeOK
  <2>3. jailed' \in [Validators -> BOOLEAN] /\ powerIndex' \subseteq Validators
    BY <1>2 DEF Slash, ChainTypeOK
  <2>4. QED
    BY <1>2, <2>1, <2>2, <2>3, EndBlockTyped DEF Slash, ChainTypeOK
<1>3. ASSUME NEW v \in Validators, Unjail(v)
      PROVE  ChainTypeOK'
  <2>1. jailed' \in [Validators -> BOOLEAN] /\ powerIndex' \subseteq Validators
    BY <1>3 DEF Unjail, ChainTypeOK
  <2>2. QED
    BY <1>3, <2>1, EndBlockTyped DEF Unjail, ChainTypeOK
<1>4. ASSUME NEW v \in Validators, MatureValidator(v)
      PROVE  ChainTypeOK'
  BY <1>4, EndBlockTyped DEF MatureValidator, ChainTypeOK
<1>5. ASSUME NEW d \in Delegations, Delegate(d)
      PROVE  ChainTypeOK'
  <2>1. PICK earned \in (IF d \in delegations
                           THEN Earnable(distr, d, tokens[d[2]], height + 1) ELSE {0}) :
           distr' = AddedTo(distr, d, d \notin delegations, earned, height + 1)
    BY <1>5 DEF Delegate
  <2>2. IsKeeper(distr', Validators, Delegations)
    BY <1>0, <2>1, AddedToTyped DEF Keeper
  <2>3. tokens' \in [Validators -> Nat] /\ delegations' \subseteq Delegations
    BY <1>5, DelegationTyped DEF Delegate, ChainTypeOK
  <2>4. QED
    BY <1>5, <2>2, <2>3, EndBlockTyped DEF Delegate, ChainTypeOK
<1>6. ASSUME NEW d \in Delegations, Undelegate(d)
      PROVE  ChainTypeOK'
  <2>1. PICK earned \in Earnable(distr, d, tokens[d[2]], height + 1) :
           distr' = SettleDelegation(distr, d, tokens[d[2]], earned)
    BY <1>6 DEF Undelegate
  <2>2. IsKeeper(distr', Validators, Delegations)
    BY <1>0, <2>1, DelegationTyped, SettleDelegationEffect DEF Keeper
  <2>3. tokens' \in [Validators -> Nat]
    BY <1>6, DelegationTyped DEF Undelegate, TokensLeft, ChainTypeOK
  <2>4. ubd' \subseteq Unbondings /\ delegations' \subseteq Delegations
    BY <1>0, <1>6, DelegationTyped DEF Undelegate, Unbondings, ChainTypeOK
  <2>5. jailed' \in [Validators -> BOOLEAN] /\ powerIndex' \subseteq Validators
    BY <1>6, LeaveTyped DEF Undelegate
  <2>6. QED
    BY <1>6, <2>2, <2>3, <2>4, <2>5, EndBlockTyped DEF Undelegate, ChainTypeOK
<1>7. ASSUME NEW d \in Delegations, NEW w \in Validators, Redelegate(d, w)
      PROVE  ChainTypeOK'
  <2> DEFINE e == <<d[1], w>>
  <2>1. e \in Delegations /\ e[2] = w
    BY DelegationTyped DEF Delegations
  <2>2. PICK earned \in Earnable(distr, d, tokens[d[2]], height + 1) :
           \E more \in (IF e \in delegations
                          THEN Earnable(SettleDelegation(distr, d, tokens[d[2]], earned),
                                        e, tokens[w], height + 1) ELSE {0}) :
              distr' = AddedTo(SettleDelegation(distr, d, tokens[d[2]], earned),
                               e, e \notin delegations, more, height + 1)
    BY <1>7 DEF Redelegate
  <2> DEFINE D == SettleDelegation(distr, d, tokens[d[2]], earned)
  <2>3. Keeper(D)
    BY <1>0, <2>2, DelegationTyped, SettleDelegationEffect DEF Keeper
  <2>4. PICK more \in (IF e \in delegations
                         THEN Earnable(D, e, tokens[w], height + 1) ELSE {0}) :
           distr' = AddedTo(D, e, e \notin delegations, more, height + 1)
    BY <2>2
  <2>5. IsKeeper(distr', Validators, Delegations)
    <3> HIDE DEF D, e
    <3> QED
      BY <1>0, <2>1, <2>3, <2>4, AddedToTyped DEF Keeper
  <2>6. tokens' \in [Validators -> Nat]
    BY <1>7, DelegationTyped DEF Redelegate, TokensLeft, ChainTypeOK
  <2>7. RedelegationEntries(d, w) \subseteq Redelegations
    BY <1>0, DelegationTyped DEF RedelegationEntries, Redelegations, ChainTypeOK, Statuses
  <2>8. red' \subseteq Redelegations /\ delegations' \subseteq Delegations
    BY <1>7, <2>1, <2>7 DEF Redelegate, ChainTypeOK
  <2>9. jailed' \in [Validators -> BOOLEAN] /\ powerIndex' \subseteq Validators
    BY <1>7, LeaveTyped DEF Redelegate
  <2>10. QED
    BY <1>7, <2>5, <2>6, <2>8, <2>9, EndBlockTyped DEF Redelegate, ChainTypeOK
<1>8. CASE MatureEntries
  BY <1>8, EndBlockTyped DEF MatureEntries, ChainTypeOK
<1>9. QED
  BY <1>1, <1>2, <1>3, <1>4, <1>5, <1>6, <1>7, <1>8 DEF Block

-----------------------------------------------------------------------------
(* The chain: backing and records. *)

\* What an operation of a block that touches the validators W keeps.
KeepsRecords(W) ==
    /\ IsFiniteSet(delegations) => IsFiniteSet(delegations')
    /\ Backed(distr, Validators) => Backed(distr', Validators)
    /\ \A u \in Validators : TallyOf(distr, delegations, u) => TallyOf(distr', delegations', u)
    /\ \A u \in Validators \ W :
          /\ distr'.vals[u] = distr.vals[u]
          /\ {d \in delegations' : d[2] = u} = {d \in delegations : d[2] = u}
    /\ KnownStarts(distr, Delegations) = delegations
          => KnownStarts(distr', Delegations) = delegations'

\* Nothing happens to records that an operation leaves alone.
LEMMA UntouchedKeeps ==
    ASSUME UNCHANGED <<distr, delegations>>, NEW W
    PROVE  KeepsRecords(W)
<1>1. distr' = distr /\ delegations' = delegations
  OBVIOUS
<1>2. QED
  BY <1>1 DEF KeepsRecords

\* The keeper state E records that the delegation d is among those of D, or joins them.
AddedKeeps(D, dels, d, E) ==
    /\ Backed(D, Validators) => Backed(E, Validators)
    /\ \A u \in Validators : TallyOf(D, dels, u) => TallyOf(E, dels \cup {d}, u)
    /\ \A u \in Validators : u # d[2] => E.vals[u] = D.vals[u]
    /\ \A e \in Delegations : e # d => E.start[e] = D.start[e]
    /\ E.start[d].known

\* The hooks around a delegation that is made or grows.
LEMMA AddedToKeeps ==
    ASSUME NEW D, Keeper(D), NEW dels \in SUBSET Delegations, NEW d \in Delegations,
           NEW h \in Nat, NEW earned, NEW isNew \in BOOLEAN, isNew = (d \notin dels),
           d \in dels => earned \in Earnable(D, d, tokens[d[2]], h),
           NEW E, E = AddedTo(D, d, isNew, earned, h)
    PROVE  AddedKeeps(D, dels, d, E)
<1> DEFINE F == IF isNew THEN IncrementPeriod(D, d[2], tokens[d[2]])
                         ELSE SettleDelegation(D, d, tokens[d[2]], earned)
           G == InitializeDelegation(F, d, h)
           those == dels \ {d}
<1>1. d[2] \in Validators /\ IsFiniteSet(Validators)
  BY DelegationTyped, ChainAssumption
<1>2. E = G
  BY DEF AddedTo
<1>3. /\ IsKeeper(F, Validators, Delegations)
      /\ Backed(D, Validators) => Backed(F, Validators)
      /\ \A u \in Validators : TallyOf(D, dels, u) => TallyOf(F, those, u)
      /\ \A u \in Validators : u # d[2] => F.vals[u] = D.vals[u]
      /\ \A e \in Delegations : e # d => F.start[e] = D.start[e]
  <2>1. CASE isNew
    <3>1. F = IncrementPeriod(D, d[2], tokens[d[2]]) /\ those = dels
      BY <2>1
    <3>2. F.start = D.start /\ \A u \in Validators : u # d[2] => F.vals[u] = D.vals[u]
      BY <3>1 DEF IncrementPeriod, Keeper, IsKeeper
    <3> HIDE DEF F
    <3>3. IsKeeper(F, Validators, Delegations)
      BY <1>1, <3>1, IncrementPeriodEffect DEF Keeper
    <3>4. Backed(D, Validators) => Backed(F, Validators)
      BY <1>1, <3>1, IncrementPeriodBacked DEF Keeper
    <3>5. \A u \in Validators : TallyOf(D, dels, u) => TallyOf(F, those, u)
      BY <1>1, <3>1, IncrementPeriodTallied DEF Keeper
    <3>6. QED
      BY <3>2, <3>3, <3>4, <3>5
  <2>2. CASE ~isNew
    <3>1. F = SettleDelegation(D, d, tokens[d[2]], earned)
      BY <2>2
    <3>2. \A u \in Validators : u # d[2] => F.vals[u] = D.vals[u]
      BY <3>1 DEF SettleDelegation, IncrementPeriod, Keeper, IsKeeper
    <3>3. \A e \in Delegations : e # d => F.start[e] = D.start[e]
      BY <3>1 DEF SettleDelegation, IncrementPeriod, Keeper, IsKeeper
    <3>4. d \in dels /\ earned \in Earnable(D, d, tokens[d[2]], h)
      BY <2>2
    <3> HIDE DEF F
    <3>5. IsKeeper(F, Validators, Delegations)
      BY <1>1, <3>1, <3>4, SettleDelegationEffect DEF Keeper
    <3>6. Backed(D, Validators) => Backed(F, Validators)
      BY <1>1, <3>1, <3>4, SettleDelegationBacked DEF Keeper
    <3>7. \A u \in Validators : TallyOf(D, dels, u) => TallyOf(F, those, u)
      BY <1>1, <3>1, <3>4, SettleDelegationTallied DEF Keeper
    <3>8. QED
      BY <3>2, <3>3, <3>5, <3>6, <3>7
  <2>3. QED
    BY <2>1, <2>2
<1>4. d \notin those /\ those \in SUBSET Delegations /\ those \cup {d} = dels \cup {d}
  OBVIOUS
<1>5. /\ \A u \in Validators : u # d[2] => G.vals[u] = F.vals[u]
      /\ \A e \in Delegations : e # d => G.start[e] = F.start[e]
      /\ G.start[d].known
  <2> HIDE DEF F
  <2>1. QED
    BY <1>3 DEF InitializeDelegation, IsKeeper
<1> HIDE DEF F
<1>6. Backed(D, Validators) => Backed(G, Validators)
  BY <1>1, <1>3, InitializeDelegationBacked
<1>7. \A u \in Validators : TallyOf(D, dels, u) => TallyOf(G, those \cup {d}, u)
  BY <1>1, <1>3, <1>4, InitializeDelegationTallied
<1> HIDE DEF G
<1>8. QED
  BY <1>2, <1>3, <1>4, <1>5, <1>6, <1>7 DEF AddedKeeps

\* Fees are owed to the validator and the pool.
LEMMA AllocateRewardsKeeps ==
    ASSUME ChainTypeOK, NEW v \in Validators, AllocateRewards(v)
    PROVE  KeepsRecords({v})
<1>1. PICK tax \in 0 .. Unit : \E comm \in 0 .. (Unit - tax) :
         distr' = AllocateTokens(distr, v, tax, comm)
  BY DEF AllocateRewards
<1>2. PICK comm \in 0 .. (Unit - tax) : distr' = AllocateTokens(distr, v, tax, comm)
  BY <1>1
<1>3. delegations' = delegations
  BY DEF AllocateRewards
<1>4. /\ IsKeeper(distr, Validators, Delegations) /\ delegations \in SUBSET Delegations
      /\ IsFiniteSet(Validators)
  BY ChainAssumption DEF ChainTypeOK
<1>5. Backed(distr, Validators) => Backed(distr', Validators)
  BY <1>2, <1>4, AllocateTokensBacked
<1>6. \A u \in Validators : TallyOf(distr, delegations, u) => TallyOf(distr', delegations', u)
  BY <1>2, <1>3, <1>4, RewardsTallied
<1>7. /\ distr'.start = distr.start
      /\ \A u \in Validators \ {v} : distr'.vals[u] = distr.vals[u]
  BY <1>2, <1>4 DEF AllocateTokens, IsKeeper
<1>8. QED
  BY <1>3, <1>5, <1>6, <1>7 DEF KeepsRecords, KnownStarts

\* A slash records its event.
LEMMA SlashKeeps ==
    ASSUME ChainTypeOK, NEW v \in Validators, Slash(v)
    PROVE  KeepsRecords({v})
<1>1. /\ distr' = BeforeValidatorSlashed(distr, v, tokens[v], height + 1)
      /\ delegations' = delegations /\ height + 1 \in Nat
  BY DEF Slash, ChainTypeOK
<1>2. /\ IsKeeper(distr, Validators, Delegations) /\ delegations \in SUBSET Delegations
      /\ IsFiniteSet(Validators)
  BY ChainAssumption DEF ChainTypeOK
<1>3. Backed(distr, Validators) => Backed(distr', Validators)
  BY <1>1, <1>2, BeforeValidatorSlashedBacked
<1>4. \A u \in Validators : TallyOf(distr, delegations, u) => TallyOf(distr', delegations', u)
  BY <1>1, <1>2, BeforeValidatorSlashedTallied
<1>5. /\ distr'.start = distr.start
      /\ \A u \in Validators \ {v} : distr'.vals[u] = distr.vals[u]
  BY <1>1, <1>2 DEF BeforeValidatorSlashed, IncrementPeriod, IsKeeper
<1>6. QED
  BY <1>1, <1>3, <1>4, <1>5 DEF KeepsRecords, KnownStarts

\* A delegation is made or grows.
LEMMA DelegateKeeps ==
    ASSUME ChainTypeOK, NEW d \in Delegations, Delegate(d)
    PROVE  KeepsRecords({d[2]})
<1>1. PICK earned \in (IF d \in delegations
                         THEN Earnable(distr, d, tokens[d[2]], height + 1) ELSE {0}) :
         distr' = AddedTo(distr, d, d \notin delegations, earned, height + 1)
  BY DEF Delegate
<1>2. delegations' = delegations \cup {d} /\ height + 1 \in Nat
  BY DEF Delegate, ChainTypeOK
<1>3. Keeper(distr) /\ delegations \in SUBSET Delegations
  BY DEF ChainTypeOK, Keeper
<1> DEFINE isNew == d \notin delegations
<1>4. /\ isNew \in BOOLEAN /\ isNew = (d \notin delegations)
      /\ d \in delegations => earned \in Earnable(distr, d, tokens[d[2]], height + 1)
      /\ distr' = AddedTo(distr, d, isNew, earned, height + 1)
  BY <1>1
<1> HIDE DEF isNew
<1>5. AddedKeeps(distr, delegations, d, distr')
  BY <1>2, <1>3, <1>4, AddedToKeeps
<1>6. /\ Backed(distr, Validators) => Backed(distr', Validators)
      /\ \A u \in Validators :
            TallyOf(distr, delegations, u) => TallyOf(distr', delegations \cup {d}, u)
      /\ \A u \in Validators : u # d[2] => distr'.vals[u] = distr.vals[u]
      /\ \A e \in Delegations : e # d => distr'.start[e] = distr.start[e]
      /\ distr'.start[d].known
  BY <1>5 DEF AddedKeeps
<1>7. IsFiniteSet(delegations) => IsFiniteSet(delegations')
  BY <1>2, FS_AddElement
<1>8. \A u \in Validators \ {d[2]} :
         {e \in delegations' : e[2] = u} = {e \in delegations : e[2] = u}
  BY <1>2
<1>9. KnownStarts(distr, Delegations) = delegations
        => KnownStarts(distr', Delegations) = delegations'
  BY <1>2, <1>6 DEF KnownStarts
<1>10. QED
  BY <1>2, <1>6, <1>7, <1>8, <1>9 DEF KeepsRecords

\* A withdrawal of a delegation that ends.
LEMMA EndingKeeps ==
    ASSUME ChainTypeOK, NEW d \in delegations,
           NEW earned \in Earnable(distr, d, tokens[d[2]], height + 1)
    PROVE  LET E == SettleDelegation(distr, d, tokens[d[2]], earned)
           IN  /\ Keeper(E)
               /\ Backed(distr, Validators) => Backed(E, Validators)
               /\ \A u \in Validators :
                     TallyOf(distr, delegations, u) => TallyOf(E, delegations \ {d}, u)
               /\ \A u \in Validators : u # d[2] => E.vals[u] = distr.vals[u]
               /\ \A e \in Delegations : e # d => E.start[e] = distr.start[e]
               /\ ~E.start[d].known
<1> DEFINE E == SettleDelegation(distr, d, tokens[d[2]], earned)
<1>1. /\ IsKeeper(distr, Validators, Delegations) /\ delegations \in SUBSET Delegations
      /\ d \in Delegations /\ d[2] \in Validators /\ IsFiniteSet(Validators)
  BY DelegationTyped, ChainAssumption DEF ChainTypeOK
<1>2. /\ \A u \in Validators : u # d[2] => E.vals[u] = distr.vals[u]
      /\ \A e \in Delegations : e # d => E.start[e] = distr.start[e]
      /\ ~E.start[d].known
  BY <1>1 DEF SettleDelegation, IncrementPeriod, IsKeeper
<1>3. Keeper(E)
  BY <1>1, SettleDelegationEffect DEF Keeper
<1>4. Backed(distr, Validators) => Backed(E, Validators)
  BY <1>1, SettleDelegationBacked
<1>5. \A u \in Validators : TallyOf(distr, delegations, u) => TallyOf(E, delegations \ {d}, u)
  BY <1>1, SettleDelegationTallied
<1> HIDE DEF E
<1>6. QED
  BY <1>2, <1>3, <1>4, <1>5 DEF E

\* A delegation that ends is settled.
LEMMA UndelegateKeeps ==
    ASSUME ChainTypeOK, NEW d \in delegations,
           NEW earned \in Earnable(distr, d, tokens[d[2]], height + 1),
           distr' = SettleDelegation(distr, d, tokens[d[2]], earned),
           delegations' = delegations \ {d}
    PROVE  KeepsRecords({d[2]})
<1>1. /\ Backed(distr, Validators) => Backed(distr', Validators)
      /\ \A u \in Validators :
            TallyOf(distr, delegations, u) => TallyOf(distr', delegations \ {d}, u)
      /\ \A u \in Validators : u # d[2] => distr'.vals[u] = distr.vals[u]
      /\ \A e \in Delegations : e # d => distr'.start[e] = distr.start[e]
      /\ ~distr'.start[d].known
  BY EndingKeeps
<1>2. IsFiniteSet(delegations) => IsFiniteSet(delegations')
  BY FS_RemoveElement
<1>3. \A u \in Validators \ {d[2]} :
         {e \in delegations' : e[2] = u} = {e \in delegations : e[2] = u}
  OBVIOUS
<1>4. KnownStarts(distr, Delegations) = delegations
        => KnownStarts(distr', Delegations) = delegations'
  BY <1>1 DEF KnownStarts
<1>5. QED
  BY <1>1, <1>2, <1>3, <1>4 DEF KeepsRecords

\* A redelegation settles one delegation and makes or grows another.
LEMMA RedelegateKeeps ==
    ASSUME ChainTypeOK, NEW d \in Delegations, NEW w \in Validators, Redelegate(d, w)
    PROVE  KeepsRecords({d[2], w})
<1> DEFINE e == <<d[1], w>>
<1>1. PICK earned \in Earnable(distr, d, tokens[d[2]], height + 1) :
         \E more \in (IF e \in delegations
                        THEN Earnable(SettleDelegation(distr, d, tokens[d[2]], earned),
                                      e, tokens[w], height + 1) ELSE {0}) :
            distr' = AddedTo(SettleDelegation(distr, d, tokens[d[2]], earned),
                             e, e \notin delegations, more, height + 1)
  BY DEF Redelegate
<1> DEFINE D == SettleDelegation(distr, d, tokens[d[2]], earned)
           those == delegations \ {d}
<1>2. /\ e \in Delegations /\ e[2] = w /\ e # d /\ d \in delegations
      /\ delegations' = those \cup {e}
      /\ delegations \in SUBSET Delegations /\ height + 1 \in Nat
  BY DelegationTyped DEF Redelegate, Leave, ChainTypeOK, Delegations
<1>3. PICK more \in (IF e \in delegations
                       THEN Earnable(D, e, tokens[w], height + 1) ELSE {0}) :
         distr' = AddedTo(D, e, e \notin delegations, more, height + 1)
  BY <1>1
<1>4. /\ Keeper(D)
      /\ Backed(distr, Validators) => Backed(D, Validators)
      /\ \A u \in Validators : TallyOf(distr, delegations, u) => TallyOf(D, those, u)
      /\ \A u \in Validators : u # d[2] => D.vals[u] = distr.vals[u]
      /\ \A f \in Delegations : f # d => D.start[f] = distr.start[f]
      /\ ~D.start[d].known
  BY <1>2, EndingKeeps
<1> HIDE DEF D, e
<1>5. those \in SUBSET Delegations /\ (e \in those <=> e \in delegations)
  BY <1>2
<1>6. /\ Backed(D, Validators) => Backed(distr', Validators)
      /\ \A u \in Validators : TallyOf(D, those, u) => TallyOf(distr', those \cup {e}, u)
      /\ \A u \in Validators : u # w => distr'.vals[u] = D.vals[u]
      /\ \A f \in Delegations : f # e => distr'.start[f] = D.start[f]
      /\ distr'.start[e].known
  <2> HIDE DEF those
  <2>1. e \in those => more \in Earnable(D, e, tokens[e[2]], height + 1)
    BY <1>2, <1>3, <1>5
  <2> DEFINE isNew == e \notin those
  <2>2. /\ distr' = AddedTo(D, e, isNew, more, height + 1)
        /\ isNew \in BOOLEAN /\ isNew = (e \notin those)
    BY <1>3, <1>5
  <2> HIDE DEF isNew
  <2>3. AddedKeeps(D, those, e, distr')
    BY <1>2, <1>4, <1>5, <2>1, <2>2, AddedToKeeps
  <2>4. QED
    BY <1>2, <2>3 DEF AddedKeeps
<1>7. IsFiniteSet(delegations) => IsFiniteSet(delegations')
  BY <1>2, FS_AddElement, FS_RemoveElement
<1>8. \A u \in Validators \ {d[2], w} :
         {f \in delegations' : f[2] = u} = {f \in delegations : f[2] = u}
  BY <1>2
<1>9. KnownStarts(distr, Delegations) = delegations
        => KnownStarts(distr', Delegations) = delegations'
  BY <1>2, <1>4, <1>6 DEF KnownStarts
<1>10. QED
  BY <1>2, <1>4, <1>6, <1>7, <1>8, <1>9 DEF KeepsRecords

\* Every block keeps the account backed and the records tallied.
LEMMA BlockKeeps ==
    ASSUME ChainTypeOK, Block
    PROVE  KeepsRecords(Validators)
<1>1. \A W \in SUBSET Validators : KeepsRecords(W) => KeepsRecords(Validators)
  BY DEF KeepsRecords
<1>2. ASSUME NEW v \in Validators,
             AllocateRewards(v) \/ Slash(v) \/ Unjail(v) \/ MatureValidator(v)
      PROVE  KeepsRecords(Validators)
  <2>1. UNCHANGED <<distr, delegations>> \/ AllocateRewards(v) \/ Slash(v)
    BY <1>2 DEF Unjail, MatureValidator
  <2>2. QED
    BY <1>1, <2>1, AllocateRewardsKeeps, SlashKeeps, UntouchedKeeps
<1>3. ASSUME NEW d \in Delegations, Delegate(d)
      PROVE  KeepsRecords(Validators)
  BY <1>1, <1>3, DelegateKeeps, DelegationTyped
<1>4. ASSUME NEW d \in Delegations, Undelegate(d)
      PROVE  KeepsRecords(Validators)
  <2>1. /\ d \in delegations /\ delegations' = delegations \ {d}
        /\ \E earned \in Earnable(distr, d, tokens[d[2]], height + 1) :
              distr' = SettleDelegation(distr, d, tokens[d[2]], earned)
    BY <1>4 DEF Undelegate, Leave
  <2>2. KeepsRecords({d[2]})
    BY <2>1, UndelegateKeeps
  <2>3. QED
    BY <1>1, <2>2, DelegationTyped
<1>5. ASSUME NEW d \in Delegations, NEW w \in Validators, Redelegate(d, w)
      PROVE  KeepsRecords(Validators)
  <2>1. {d[2], w} \in SUBSET Validators
    BY DelegationTyped
  <2>2. QED
    BY <1>1, <1>5, <2>1, RedelegateKeeps
<1>6. CASE MatureEntries
  BY <1>6, UntouchedKeeps DEF MatureEntries
<1>7. QED
  BY <1>2, <1>3, <1>4, <1>5, <1>6 DEF Block

\* Finitely many validators have finitely many self-delegations.
LEMMA SelfDelegationsFinite ==
    ASSUME NEW V, IsFiniteSet(V)
    PROVE  IsFiniteSet({<<Operator[v], v>> : v \in V})
<1> DEFINE T == {<<Operator[v], v>> : v \in V}
           f == [v \in V |-> <<Operator[v], v>>]
<1>1. f \in Surjection(V, T)
  BY DEF Surjection
<1> HIDE DEF T, f
<1>2. IsFiniteSet(T)
  BY <1>1, FS_Surjection
<1>3. QED
  BY <1>2 DEF T
=============================================================================
