---------------------------- MODULE StakingChain ----------------------------
(***************************************************************************)
(* The staking, slashing and distribution state of a tatcoin chain, and    *)
(* the blocks that change it.  The keepers are Cosmos SDK libraries that   *)
(* app/app_config.go wires together; what the repository's own commands    *)
(* (app/export.go, cmd/tatcoind/cmd/testnet.go) read and rewrite is this   *)
(* state.  A block executes one operation and then the staking module's    *)
(* EndBlocker, which updates the validator set.                            *)
(*                                                                         *)
(* Validators are numbered in the order of their operator addresses.  The  *)
(* tokens of a validator are counted in units of consensus power.  Neither *)
(* the creation nor the removal of a validator is modelled: an operation   *)
(* that would leave an unbonded validator without delegations, which       *)
(* removes it, is not taken.                                               *)
(***************************************************************************)
EXTENDS Distribution

CONSTANTS
    Validators,     \* the validators, a set of numbers ordered as their addresses
    Delegators,     \* the delegators, likewise
    Operator,       \* Operator[v] is the delegator behind validator v
    MaxValidators,  \* the staking parameter max_validators
    MaxHeight,      \* bound: no block above this height
    MaxTokens,      \* bound: no delegation that lifts a validator above this power
    MaxBalance      \* bound: no fees while the module account holds this much

ASSUME ChainAssumption ==
    /\ Validators \subseteq Nat /\ IsFiniteSet(Validators)
    /\ Delegators \subseteq Nat
    /\ Operator \in [Validators -> Delegators]
    /\ MaxValidators \in Nat \ {0}
    /\ MaxHeight \in Nat
    /\ MaxTokens \in Nat \ {0}
    /\ MaxBalance \in Nat

VARIABLES
    height,           \* LastBlockHeight of the committed state
    status,           \* bond status of each validator
    jailed,           \* its Jailed flag
    tokens,           \* its power
    unbondingHeight,  \* its UnbondingHeight
    powerIndex,       \* the validators in the power index of the staking store
    delegations,      \* the delegations, pairs <<delegator, validator>>
    ubd,              \* unbonding delegation entries
    red,              \* redelegation entries
    startHeight,      \* StartHeight of each validator's signing info
    distr             \* the distribution keeper's state, see Distribution

stakeVars == <<tokens, delegations>>
chainVars == <<height, status, jailed, tokens, unbondingHeight, powerIndex,
               delegations, ubd, red, startHeight, distr>>

Delegations == Delegators \X Validators

Statuses == {"Unbonded", "Unbonding", "Bonded"}

Unbondings == [delegator : Delegators, validator : Validators, height : Nat]

Redelegations == [delegator : Delegators, src : Validators, dst : Validators, height : Nat]

DelegationsTo(v) == {d \in delegations : d[2] = v}

-----------------------------------------------------------------------------
(* The validator set. *)

\* The order of the power index: higher power first, then the smaller address.
Precedes(tk, u, v) == tk[u] > tk[v] \/ (tk[u] = tk[v] /\ u < v)

\* The validators that ApplyAndReturnValidatorSetUpdates visits: the first
\* MaxValidators of the index, up to and including the first without power.
Scanned(tk, index) ==
    {v \in index :
        LET before == {u \in index : Precedes(tk, u, v)}
        IN  /\ Cardinality(before) < MaxValidators
            /\ \A u \in before : tk[u] > 0}

Elected(tk, index) == {v \in Scanned(tk, index) : tk[v] > 0}

\* ApplyAndReturnValidatorSetUpdates at context height h: the elected validators
\* are bonded (and their signing info restarts), the others stop being bonded.
\* In a block, validators that are not elected may then complete unbonding.
BondElected(h, elected, matured) ==
    /\ status' = [v \in Validators |->
                    IF v \in elected THEN "Bonded"
                    ELSE IF v \in matured THEN "Unbonded"
                    ELSE IF status[v] = "Bonded" THEN "Unbonding" ELSE status[v]]
    /\ unbondingHeight' = [v \in Validators |->
                    IF status[v] = "Bonded" /\ v \notin elected THEN h ELSE unbondingHeight[v]]
    /\ startHeight' = [v \in Validators |->
                    IF status[v] # "Bonded" /\ v \in elected THEN h ELSE startHeight[v]]

\* The staking module's EndBlocker, at the end of block height + 1.
BlockValidatorUpdates(matured) ==
    /\ height < MaxHeight
    /\ height' = height + 1
    /\ BondElected(height + 1, Elected(tokens', powerIndex'), matured)

EndBlock == BlockValidatorUpdates({})

-----------------------------------------------------------------------------
(* One action per operation a block may execute. *)

\* BeginBlocker of x/distribution: the fees of the last block.
AllocateRewards(v) ==
    /\ status[v] = "Bonded"
    /\ distr.balance < MaxBalance
    /\ \E tax \in 0 .. Unit : \E comm \in 0 .. (Unit - tax) :
          distr' = AllocateTokens(distr, v, tax, comm)
    /\ UNCHANGED <<jailed, tokens, powerIndex, delegations, ubd, red>>
    /\ EndBlock

\* The distribution hooks around adding tokens to the delegation d at height h.
AddedTo(D, d, isNew, earned, h) ==
    InitializeDelegation(
        IF isNew THEN IncrementPeriod(D, d[2], tokens[d[2]])
                 ELSE SettleDelegation(D, d, tokens[d[2]], earned),
        d, h)

\* Delegating to a validator that lost all its tokens is refused.
AcceptsTokens(v) ==
    /\ tokens[v] < MaxTokens
    /\ tokens[v] = 0 => DelegationsTo(v) = {}

\* MsgDelegate of one unit of power.
Delegate(d) ==
    /\ AcceptsTokens(d[2])
    /\ \E earned \in (IF d \in delegations
                        THEN Earnable(distr, d, tokens[d[2]], height + 1) ELSE {0}) :
          distr' = AddedTo(distr, d, d \notin delegations, earned, height + 1)
    /\ tokens' = [tokens EXCEPT ![d[2]] = @ + 1]
    /\ delegations' = delegations \cup {d}
    /\ UNCHANGED <<jailed, powerIndex, ubd, red>>
    /\ EndBlock

\* Unbond of the whole delegation d: the last one takes all the tokens, and an
\* operator without self-delegation is jailed.
Leave(d) ==
    LET v == d[2]
        jail == Operator[v] = d[1]
    IN  /\ d \in delegations
        /\ DelegationsTo(v) = {d} => status[v] # "Unbonded"
        /\ jailed' = [jailed EXCEPT ![v] = @ \/ jail]
        /\ powerIndex' = IF jail THEN powerIndex \ {v} ELSE powerIndex

TokensLeft(d) == IF DelegationsTo(d[2]) = {d} THEN {0} ELSE 0 .. tokens[d[2]]

\* MsgUndelegate of the whole delegation.
Undelegate(d) ==
    /\ Leave(d)
    /\ \E earned \in Earnable(distr, d, tokens[d[2]], height + 1) :
          distr' = SettleDelegation(distr, d, tokens[d[2]], earned)
    /\ \E left \in TokensLeft(d) : tokens' = [tokens EXCEPT ![d[2]] = left]
    /\ delegations' = delegations \ {d}
    /\ ubd' = ubd \cup {[delegator |-> d[1], validator |-> d[2], height |-> height + 1]}
    /\ UNCHANGED red
    /\ EndBlock

\* The entry MsgBeginRedelegate records: none when the source is unbonded, and
\* the height at which the source began unbonding when it is doing so.
RedelegationEntries(d, w) ==
    {[delegator |-> d[1], src |-> d[2], dst |-> w, height |-> h] :
        h \in CASE status[d[2]] = "Bonded"    -> {height + 1}
                [] status[d[2]] = "Unbonding" -> {unbondingHeight[d[2]]}
                [] status[d[2]] = "Unbonded"  -> {}}

\* MsgBeginRedelegate of the whole delegation d to the validator w.  A
\* delegation that was itself redelegated cannot hop on, and one that is worth
\* nothing cannot move.
Redelegate(d, w) ==
    /\ w # d[2]
    /\ \A r \in red : ~(r.delegator = d[1] /\ r.dst = d[2])
    /\ AcceptsTokens(w)
    /\ Leave(d)
    /\ LET e == <<d[1], w>> IN
         /\ \E earned \in Earnable(distr, d, tokens[d[2]], height + 1) :
              LET D == SettleDelegation(distr, d, tokens[d[2]], earned) IN
                \E more \in (IF e \in delegations
                               THEN Earnable(D, e, tokens[w], height + 1) ELSE {0}) :
                  distr' = AddedTo(D, e, e \notin delegations, more, height + 1)
         /\ delegations' = (delegations \ {d}) \cup {e}
    /\ \E left \in TokensLeft(d) :
         /\ left < tokens[d[2]]
         /\ tokens[w] + (tokens[d[2]] - left) =< MaxTokens
         /\ tokens' = [tokens EXCEPT ![d[2]] = left, ![w] = @ + (tokens[d[2]] - left)]
    /\ red' = red \cup RedelegationEntries(d, w)
    /\ UNCHANGED ubd
    /\ EndBlock

\* Evidence or downtime: the validator is slashed and jailed.
Slash(v) ==
    /\ status[v] # "Unbonded"
    /\ tokens[v] > 0
    /\ distr' = BeforeValidatorSlashed(distr, v, tokens[v], height + 1)
    /\ \E left \in 0 .. (tokens[v] - 1) : tokens' = [tokens EXCEPT ![v] = left]
    /\ jailed' = [jailed EXCEPT ![v] = TRUE]
    /\ powerIndex' = powerIndex \ {v}
    /\ UNCHANGED <<delegations, ubd, red>>
    /\ EndBlock

\* MsgUnjail: the operator must still delegate to its validator.
Unjail(v) ==
    /\ jailed[v]
    /\ tokens[v] > 0
    /\ <<Operator[v], v>> \in delegations
    /\ jailed' = [jailed EXCEPT ![v] = FALSE]
    /\ powerIndex' = powerIndex \cup {v}
    /\ UNCHANGED <<tokens, delegations, ubd, red, distr>>
    /\ EndBlock

\* UnbondAllMatureValidators, after the unbonding time.
MatureValidator(v) ==
    /\ status[v] = "Unbonding"
    /\ DelegationsTo(v) # {}
    /\ UNCHANGED <<jailed, tokens, powerIndex, delegations, ubd, red, distr>>
    /\ BlockValidatorUpdates({v})

\* Completed unbondings and redelegations leave the store.
MatureEntries ==
    /\ \E e \in ubd \cup red : ubd' = ubd \ {e} /\ red' = red \ {e}
    /\ UNCHANGED <<jailed, tokens, powerIndex, delegations, distr>>
    /\ EndBlock

Block ==
    \/ \E v \in Validators : AllocateRewards(v) \/ Slash(v) \/ Unjail(v) \/ MatureValidator(v)
    \/ \E d \in Delegations : Delegate(d) \/ Undelegate(d)
    \/ \E d \in Delegations, w \in Validators : Redelegate(d, w)
    \/ MatureEntries

-----------------------------------------------------------------------------
(* Genesis: every operator created its validator with a gentx, which delegates  *)
(* the first tokens.                                                           *)

\* The distribution state of a validator created with its self-delegation.
GenesisRewards ==
    [outstanding |-> 0, commission |-> 0, current |-> 0,
     period |-> 2, refs |-> SetToBag({1}) (+) SetToBag({1}), slashes |-> {}]

ChainInit ==
    /\ height = 0
    /\ jailed = [v \in Validators |-> FALSE]
    /\ tokens \in [Validators -> 1 .. MaxTokens]
    /\ unbondingHeight = [v \in Validators |-> 0]
    /\ startHeight = [v \in Validators |-> 0]
    /\ powerIndex = Validators
    /\ delegations = {<<Operator[v], v>> : v \in Validators}
    /\ ubd = {}
    /\ red = {}
    /\ status = [v \in Validators |->
                   IF v \in Elected(tokens, powerIndex) THEN "Bonded" ELSE "Unbonded"]
    /\ distr = [vals |-> [v \in Validators |-> GenesisRewards],
                start |-> [d \in Delegations |->
                             [known |-> d \in delegations, period |-> 1, height |-> 0]],
                pool |-> 0,
                balance |-> 0]

ChainTypeOK ==
    /\ height \in Nat
    /\ status \in [Validators -> Statuses]
    /\ jailed \in [Validators -> BOOLEAN]
    /\ tokens \in [Validators -> Nat]
    /\ unbondingHeight \in [Validators -> Nat]
    /\ powerIndex \subseteq Validators
    /\ delegations \subseteq Delegations
    /\ ubd \subseteq Unbondings
    /\ red \subseteq Redelegations
    /\ startHeight \in [Validators -> Nat]
    /\ IsKeeper(distr, Validators, Delegations)
=============================================================================
