---------------------------- MODULE Distribution ----------------------------
(***************************************************************************)
(* The bookkeeping of the Cosmos SDK's x/distribution keeper, as the       *)
(* application uses it: app/export.go calls WithdrawValidatorCommission,   *)
(* WithdrawDelegationRewards and the staking hooks, and the staking module *)
(* calls the same hooks in every block.  The keeper is a library of the    *)
(* repository, so everything here is external; it is written as pure       *)
(* operators from one keeper state to the next.                            *)
(*                                                                         *)
(* A keeper state D is a record                                            *)
(*   vals[v]  outstanding, commission and current rewards of v (in decimal *)
(*            units, Unit of them to a token), the current period, the bag *)
(*            refs of historical periods (one copy per reference) and the  *)
(*            slash events [height, period];                               *)
(*   start[d] the starting info [known, period, height] of a delegation;   *)
(*   pool     the community pool in decimal units;                         *)
(*   balance  whole tokens held by the distribution module account.        *)
(* How much a delegation earned is abstracted: any amount that the         *)
(* validator still owes its delegators.                                    *)
(***************************************************************************)
EXTENDS Integers, Bags, FiniteSets, FiniteSetsExt

\* Decimal units per token: DecCoins keep fractions that Coins cannot hold.
CONSTANT Unit

ASSUME UnitAssumption == Unit \in Nat \ {0}

Slashes == [height : Nat, period : Nat]

StartInfos == [known : BOOLEAN, period : Nat, height : Nat]

\* incrementReferenceCount, and decrementReferenceCount, which deletes a record
\* that nothing refers to any more.
AddReference(refs, p) == refs (+) SetToBag({p})

DropReference(refs, p) == refs (-) SetToBag({p})

\* SetValidatorHistoricalRewards with a reference count of one: whatever was
\* recorded for that period is overwritten, other periods are left alone.
SetReference(refs, p) ==
    [q \in BagToSet(refs) \cup {p} |-> IF q = p THEN 1 ELSE refs[q]]

\* The rewards r of a validator with other historical periods and slash events.
WithHistory(r, refs, slashes) ==
    [outstanding |-> r.outstanding, commission |-> r.commission, current |-> r.current,
     period |-> r.period, refs |-> refs, slashes |-> slashes]

\* initializeValidator, run by Hooks().AfterValidatorCreated: period 0 gets one
\* reference, the current period is 1 and every reward counter is zeroed.  The
\* slash events and older historical periods of the validator are not touched.
AfterValidatorCreated(D, v) ==
    [D EXCEPT !.vals[v] =
        [outstanding |-> 0, commission |-> 0, current |-> 0, period |-> 1,
         refs |-> SetReference(D.vals[v].refs, 0), slashes |-> D.vals[v].slashes]]

\* The current rewards that no delegator can earn, because the validator has no
\* tokens when its period ends.
Unearned(D, v, tokens) == IF tokens = 0 THEN D.vals[v].current ELSE 0

\* IncrementValidatorPeriod: the reference the validator itself holds moves to
\* the period that ends now.  A validator without tokens has nobody to credit:
\* its current rewards go to the community pool.
IncrementPeriod(D, v, tokens) ==
    LET r == D.vals[v]
        unearned == Unearned(D, v, tokens)
        next == [outstanding |-> r.outstanding - unearned,
                 commission |-> r.commission,
                 current |-> 0,
                 period |-> r.period + 1,
                 refs |-> SetReference(DropReference(r.refs, r.period - 1), r.period),
                 slashes |-> r.slashes]
    IN  [vals |-> [D.vals EXCEPT ![v] = next],
         start |-> D.start,
         pool |-> D.pool + unearned,
         balance |-> D.balance]

\* decrementReferenceCount panics when there is no reference to drop.
CanIncrement(D, v) == D.vals[v].period - 1 \in BagToSet(D.vals[v].refs)

\* initializeDelegation, run by Hooks().AfterDelegationModified: the delegation
\* starts at the last ended period and at the context's height.
InitializeDelegation(D, d, h) ==
    LET r == D.vals[d[2]]
        last == r.period - 1
        next == WithHistory(r, AddReference(r.refs, last), r.slashes)
    IN  [vals |-> [D.vals EXCEPT ![d[2]] = next],
         start |-> [D.start EXCEPT ![d] = [known |-> TRUE, period |-> last, height |-> h]],
         pool |-> D.pool,
         balance |-> D.balance]

\* What WithdrawDelegationRewards may pay at height h: nothing to a delegation
\* that started at this height, otherwise any part of what is owed.
Earnable(D, d, tokens, h) ==
    LET r == D.vals[d[2]]
    IN  IF D.start[d].height = h
          THEN {0}
          ELSE 0 .. (r.outstanding - r.commission - Unearned(D, d[2], tokens))

\* withdrawDelegationRewards of earned units: end the period, pay the whole
\* tokens, leave the fraction to the pool, drop the starting info.
SettleDelegation(D, d, tokens, earned) ==
    LET E == IncrementPeriod(D, d[2], tokens)
        r == E.vals[d[2]]
        s == D.start[d]
        next == [outstanding |-> r.outstanding - earned, commission |-> r.commission,
                 current |-> r.current, period |-> r.period,
                 refs |-> DropReference(r.refs, s.period), slashes |-> r.slashes]
    IN  [vals |-> [E.vals EXCEPT ![d[2]] = next],
         start |-> [E.start EXCEPT
                      ![d] = [known |-> FALSE, period |-> s.period, height |-> s.height]],
         pool |-> E.pool + (earned % Unit),
         balance |-> E.balance - (earned \div Unit)]

\* WithdrawDelegationRewards settles and starts the delegation again; it
\* returns an error, and changes nothing, without a starting info.
WithdrawDelegationRewards(D, d, tokens, earned, h) ==
    IF D.start[d].known
      THEN InitializeDelegation(SettleDelegation(D, d, tokens, earned), d, h)
      ELSE D

WithdrawWhole(D, v, whole) ==
    LET r == D.vals[v]
        next == [outstanding |-> r.outstanding - whole * Unit,
                 commission |-> r.commission - whole * Unit,
                 current |-> r.current, period |-> r.period,
                 refs |-> r.refs, slashes |-> r.slashes]
    IN  [vals |-> [D.vals EXCEPT ![v] = next],
         start |-> D.start,
         pool |-> D.pool,
         balance |-> D.balance - whole]

\* Mutant: the commission paid is rounded up to whole tokens.
WithdrawRoundedUp(D, v) ==
    WithdrawWhole(D, v, (D.vals[v].commission + Unit - 1) \div Unit)

\* WithdrawValidatorCommission pays the whole tokens of the accumulated
\* commission and keeps the fraction; with no commission it is an error.
WithdrawValidatorCommission(D, v) == WithdrawWhole(D, v, D.vals[v].commission \div Unit)

\* BeforeValidatorSlashed: end the period, record the slash with a reference to it.
BeforeValidatorSlashed(D, v, tokens, h) ==
    LET E == IncrementPeriod(D, v, tokens)
        r == E.vals[v]
        p == D.vals[v].period
        next == WithHistory(r, AddReference(r.refs, p),
                            r.slashes \cup {[height |-> h, period |-> p]})
    IN  [vals |-> [E.vals EXCEPT ![v] = next],
         start |-> E.start, pool |-> E.pool, balance |-> E.balance]

\* AllocateTokens of one token of fees to v: tax goes to the pool, comm to the
\* validator's commission and the rest to its delegators.
AllocateTokens(D, v, tax, comm) ==
    LET r == D.vals[v]
        next == [outstanding |-> r.outstanding + (Unit - tax),
                 commission |-> r.commission + comm,
                 current |-> r.current + (Unit - tax - comm),
                 period |-> r.period, refs |-> r.refs, slashes |-> r.slashes]
    IN  [vals |-> [D.vals EXCEPT ![v] = next],
         start |-> D.start,
         pool |-> D.pool + tax,
         balance |-> D.balance + 1]

\* DeleteAllValidatorSlashEvents and DeleteAllValidatorHistoricalRewards.
DeleteAllValidatorSlashEvents(D) ==
    [vals |-> [v \in DOMAIN D.vals |-> WithHistory(D.vals[v], D.vals[v].refs, {})],
     start |-> D.start, pool |-> D.pool, balance |-> D.balance]

DeleteAllValidatorHistoricalRewards(D) ==
    [vals |-> [v \in DOMAIN D.vals |-> WithHistory(D.vals[v], EmptyBag, D.vals[v].slashes)],
     start |-> D.start, pool |-> D.pool, balance |-> D.balance]

-----------------------------------------------------------------------------
(* The type of a keeper state. *)

\* The rewards of one validator: what is owed covers the commission and the
\* current period, and every reference is to a period.
IsRewards(r) ==
    /\ r = WithHistory(r, r.refs, r.slashes)
    /\ {r.outstanding, r.commission, r.current, r.period} \subseteq Nat
    /\ r.commission + r.current =< r.outstanding
    /\ r.period > 0
    /\ IsABag(r.refs) /\ BagToSet(r.refs) \subseteq Nat
    /\ r.slashes \subseteq Slashes

IsKeeper(D, validators, dels) ==
    /\ D = [vals |-> D.vals, start |-> D.start, pool |-> D.pool, balance |-> D.balance]
    /\ D.vals = [v \in validators |-> D.vals[v]]
    /\ \A v \in validators : IsRewards(D.vals[v])
    /\ D.start \in [dels -> StartInfos]
    /\ D.pool \in Nat
    /\ D.balance \in Int
-----------------------------------------------------------------------------
(* What a keeper state owes, and what its reference counts stand for. *)

\* What the distribution module owes: outstanding rewards and the community pool.
OwedBy(D, validators) ==
    MapThenSumSet(LAMBDA v : D.vals[v].outstanding, validators) + D.pool

\* The module account holds exactly what the module owes.
Backed(D, validators) == Unit * D.balance = OwedBy(D, validators)

ReferenceCount(refs, p) == IF p \in BagToSet(refs) THEN refs[p] ELSE 0

\* The records of a validator r are those of its delegations dels: a historical
\* period is referred to by the delegations that start from it, by the slash events
\* that ended it and, if it is the last one, by the validator; nothing else is
\* recorded, and what refers to a period came after it.
Tallied(r, start, dels) ==
    /\ IsFiniteSet(dels) /\ IsFiniteSet(r.slashes)
    /\ \A d \in dels : start[d].period < r.period
    /\ \A s \in r.slashes : s.period < r.period
    /\ BagToSet(r.refs) \subseteq 0 .. (r.period - 1)
    /\ \A p \in 0 .. (r.period - 1) :
          ReferenceCount(r.refs, p) =
              Cardinality({d \in dels : start[d].period = p})
              + Cardinality({s \in r.slashes : s.period = p})
              + (IF p = r.period - 1 THEN 1 ELSE 0)
    /\ BagCardinality(r.refs) = 1 + Cardinality(dels) + Cardinality(r.slashes)

\* A validator about which x/distribution has no records to tally.
Untallied(r) == r.refs = EmptyBag /\ r.slashes = {}
=============================================================================
