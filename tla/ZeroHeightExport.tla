--------------------------- MODULE ZeroHeightExport ---------------------------
(***************************************************************************)
(* app/export.go: ExportAppStateAndValidators and, for a zero-height       *)
(* genesis, prepForZeroHeightGenesis.  The preparation is a long sequence  *)
(* of loops over three keepers; every iteration of a loop that pays or     *)
(* restarts a reward is a step here, each uniform rewrite of all entries   *)
(* is one step.  The export works on a check-state context of a stopped    *)
(* chain, so nothing interleaves with it; it ends with an exported         *)
(* genesis, from which a new chain starts, or in a panic.                  *)
(*                                                                         *)
(* The operator's allow list holds operator addresses: validators,         *)
(* Unknown (a well-formed address of nobody) and Malformed (a string that  *)
(* is no address).                                                         *)
(***************************************************************************)
EXTENDS StakingChain

CONSTANTS
    AllowLists,     \* the allow lists the operator may pass, sets of addresses
    Unknown,
    Malformed,
    CloseOutcomes,  \* whether closing the validator iterator may succeed, fail
    MaxExports      \* bound: exports in a behaviour

ASSUME ExportAssumption ==
    /\ Unknown \notin Validators
    /\ Malformed \notin Validators
    /\ AllowLists \subseteq SUBSET (Validators \cup {Unknown, Malformed})
    /\ CloseOutcomes \subseteq BOOLEAN
    /\ MaxExports \in Nat

VARIABLES
    pc,         \* "chain" while blocks run, else the part of the export reached
    zeroHeight, \* forZeroHeight
    allow,      \* jailAllowedAddrs
    ctxHeight,  \* the height of ctx
    todoVals,   \* validators the current loop has still to visit
    todoDels,   \* delegations of dels the current loop has still to visit
    prepared,   \* FALSE if the last preparation was cut short by a failing Close
    genesis,    \* the exported genesis document
    exports     \* exports so far

flagVars == <<zeroHeight, allow, genesis, exports>>
exportVars == <<pc, ctxHeight, todoVals, todoDels, prepared, flagVars>>
vars == <<chainVars, exportVars>>

\* The chain's state other than the distribution keeper's.
exceptDistr == <<height, status, jailed, tokens, unbondingHeight, powerIndex,
                 delegations, ubd, red, startHeight>>

Phases == {"chain", "commission", "rewards", "clear", "validators", "delegations",
           "redelegations", "unbondings", "flags", "close", "apply", "signing",
           "export", "exported", "panicked", "refused"}

NoGenesis == [height |-> 0, validators |-> {}]

-----------------------------------------------------------------------------
(* Helpers. *)

\* Loops visit validators and delegations in the order of their store keys.
FirstVal(v) == v \in todoVals /\ \A u \in todoVals : v =< u

FirstDel(d) ==
    /\ d \in todoDels
    /\ \A e \in todoDels : d[1] < e[1] \/ (d[1] = e[1] /\ d[2] =< e[2])

Goto(p) == pc' = p

\* decrementReferenceCount panics when there is no reference left to drop.
ContinueOrPanic(ok) == pc' = IF ok THEN pc ELSE "panicked"

-----------------------------------------------------------------------------
(* ExportAppStateAndValidators. *)

\* The operator runs `tatcoind export`: at a height it exports the state as it
\* is; for zero height it prepares it first, unless an address does not parse.
\* Exports start after the first block: before it the application loads version 0,
\* an empty store, and the modules panic over it (AppExport of TatcoreApp).
ExportAtHeight ==
    /\ pc = "chain"
    /\ height > 0
    /\ exports < MaxExports
    /\ Goto("export")
    /\ ctxHeight' = height
    /\ exports' = exports + 1
    /\ UNCHANGED <<chainVars, todoVals, todoDels, prepared, zeroHeight, allow, genesis>>

PrepForZeroHeightGenesis(list) ==
    /\ pc = "chain"
    /\ height > 0
    /\ exports < MaxExports
    /\ zeroHeight' = TRUE
    /\ allow' = list
    /\ ctxHeight' = height
    /\ exports' = exports + 1
    /\ prepared' = TRUE
    /\ todoVals' = Validators
    /\ Goto(IF Malformed \in list THEN "panicked" ELSE "commission")
    /\ UNCHANGED <<chainVars, todoDels, genesis>>

\* One iteration of "withdraw all validator commission"; an error is ignored.
WithdrawCommission(v) ==
    /\ pc = "commission"
    /\ FirstVal(v)
    /\ distr' = WithdrawValidatorCommission(distr, v)
    /\ todoVals' = todoVals \ {v}
    /\ UNCHANGED <<exceptDistr, flagVars>>
    /\ UNCHANGED <<pc, ctxHeight, todoDels, prepared>>

\* dels is read once the commissions are withdrawn.
GetAllDelegations ==
    /\ pc = "commission"
    /\ todoVals = {}
    /\ todoDels' = delegations
    /\ Goto("rewards")
    /\ UNCHANGED <<chainVars, flagVars, ctxHeight, todoVals, prepared>>

\* One iteration of "withdraw all delegator rewards"; an error is ignored.
WithdrawRewards(d) ==
    /\ pc = "rewards"
    /\ FirstDel(d)
    /\ \E earned \in Earnable(distr, d, tokens[d[2]], ctxHeight) :
          distr' = WithdrawDelegationRewards(distr, d, tokens[d[2]], earned, ctxHeight)
    /\ todoDels' = todoDels \ {d}
    /\ ContinueOrPanic(distr.start[d].known => CanIncrement(distr, d[2]))
    /\ UNCHANGED <<exceptDistr, flagVars>>
    /\ UNCHANGED <<ctxHeight, todoVals, prepared>>

\* Mutant: ctx keeps the height of the chain.
ClearHistoryAtHeight ==
    /\ pc = "rewards"
    /\ todoDels = {}
    /\ distr' = DeleteAllValidatorHistoricalRewards(DeleteAllValidatorSlashEvents(distr))
    /\ todoVals' = Validators
    /\ Goto("validators")
    /\ UNCHANGED <<exceptDistr, flagVars, ctxHeight, todoDels, prepared>>

\* Mutant: the historical rewards of the old chain stay in the store.
ClearSlashesOnly ==
    /\ pc = "rewards"
    /\ todoDels = {}
    /\ distr' = DeleteAllValidatorSlashEvents(distr)
    /\ ctxHeight' = 0
    /\ todoVals' = Validators
    /\ Goto("validators")
    /\ UNCHANGED <<exceptDistr, flagVars, todoDels, prepared>>

\* Slash events and historical rewards go, and ctx moves to height zero.
ClearHistory ==
    /\ pc = "rewards"
    /\ todoDels = {}
    /\ distr' = DeleteAllValidatorHistoricalRewards(DeleteAllValidatorSlashEvents(distr))
    /\ ctxHeight' = 0
    /\ todoVals' = Validators
    /\ Goto("validators")
    /\ UNCHANGED <<exceptDistr, flagVars>>
    /\ UNCHANGED <<todoDels, prepared>>

\* Mutant: the rewards nobody withdrew are dropped with the old record.
DropOutstanding(D, v) == D

\* What no withdrawal took is donated to the community pool.
DonateOutstanding(D, v) == [D EXCEPT !.pool = @ + D.vals[v].outstanding]

\* Mutant: the hook that writes the new validator's records is not called.
ReinitializeWithoutHook(v) ==
    /\ pc = "validators"
    /\ FirstVal(v)
    /\ distr' = DonateOutstanding(distr, v)
    /\ todoVals' = todoVals \ {v}
    /\ UNCHANGED <<exceptDistr, flagVars>>
    /\ UNCHANGED <<pc, ctxHeight, todoDels, prepared>>

ReinitializeValidator(v) ==
    /\ pc = "validators"
    /\ FirstVal(v)
    /\ distr' = AfterValidatorCreated(DonateOutstanding(distr, v), v)
    /\ todoVals' = todoVals \ {v}
    /\ UNCHANGED <<exceptDistr, flagVars>>
    /\ UNCHANGED <<pc, ctxHeight, todoDels, prepared>>

ValidatorsReinitialized ==
    /\ pc = "validators"
    /\ todoVals = {}
    /\ todoDels' = delegations
    /\ Goto("delegations")
    /\ UNCHANGED <<chainVars, flagVars, ctxHeight, todoVals, prepared>>

\* Mutant: the hooks get the context of the chain instead of the one at zero.
ReinitializeAtChainHeight(d) ==
    /\ pc = "delegations"
    /\ FirstDel(d)
    /\ distr' = InitializeDelegation(IncrementPeriod(distr, d[2], tokens[d[2]]), d, height)
    /\ todoDels' = todoDels \ {d}
    /\ ContinueOrPanic(CanIncrement(distr, d[2]))
    /\ UNCHANGED <<exceptDistr, flagVars>>
    /\ UNCHANGED <<ctxHeight, todoVals, prepared>>

\* BeforeDelegationCreated, then AfterDelegationModified, in ctx of height zero.
ReinitializeDelegation(d) ==
    /\ pc = "delegations"
    /\ FirstDel(d)
    /\ distr' = InitializeDelegation(IncrementPeriod(distr, d[2], tokens[d[2]]), d, ctxHeight)
    /\ todoDels' = todoDels \ {d}
    /\ ContinueOrPanic(CanIncrement(distr, d[2]))
    /\ UNCHANGED <<exceptDistr, flagVars>>
    /\ UNCHANGED <<ctxHeight, todoVals, prepared>>

\* ctx returns to the chain's height.
RestoreHeight ==
    /\ pc = "delegations"
    /\ todoDels = {}
    /\ ctxHeight' = height
    /\ Goto("redelegations")
    /\ UNCHANGED <<chainVars, flagVars, todoVals, todoDels, prepared>>

ResetRedelegations ==
    /\ pc = "redelegations"
    /\ red' = {[r EXCEPT !.height = 0] : r \in red}
    /\ Goto("unbondings")
    /\ UNCHANGED <<height, status, jailed, tokens, unbondingHeight, powerIndex,
                   delegations, ubd, startHeight, distr>>
    /\ UNCHANGED <<ctxHeight, todoVals, todoDels, prepared, flagVars>>

ResetUnbondings ==
    /\ pc = "unbondings"
    /\ ubd' = {[u EXCEPT !.height = 0] : u \in ubd}
    /\ Goto("flags")
    /\ UNCHANGED <<height, status, jailed, tokens, unbondingHeight, powerIndex,
                   delegations, red, startHeight, distr>>
    /\ UNCHANGED <<ctxHeight, todoVals, todoDels, prepared, flagVars>>

\* Mutant: the flag is assigned from the allow list alone, freeing the jailed.
JailedByListOnly(v) == allow # {} /\ v \notin allow

\* With an allow list, a validator that is not on it is marked as jailed.  The
\* validator is saved; the power index of the store is not touched.
JailedAfter(v) == jailed[v] \/ (allow # {} /\ v \notin allow)

ResetValidators ==
    /\ pc = "flags"
    /\ unbondingHeight' = [v \in Validators |-> 0]
    /\ jailed' = [v \in Validators |-> JailedAfter(v)]
    /\ Goto("close")
    /\ UNCHANGED <<height, status, tokens, powerIndex, delegations, ubd, red,
                   startHeight, distr>>
    /\ UNCHANGED <<ctxHeight, todoVals, todoDels, prepared, flagVars>>

\* An error from iter.Close is logged and ends the preparation, not the export.
CloseIterator(ok) ==
    /\ pc = "close"
    /\ prepared' = ok
    /\ Goto(IF ok THEN "apply" ELSE "export")
    /\ UNCHANGED <<chainVars, flagVars, ctxHeight, todoVals, todoDels>>

\* ApplyAndReturnValidatorSetUpdates panics on a jailed validator in its way, and
\* so does the export.
JailedInTheWay == \E v \in Scanned(tokens, powerIndex) : jailed[v]

\* Mutant: the validator set is computed over all validators of the store.
ApplyToAllValidators ==
    /\ pc = "apply"
    /\ Goto("signing")
    /\ BondElected(ctxHeight, Elected(tokens, Validators), {})
    /\ UNCHANGED <<height, jailed, tokens, powerIndex, delegations, ubd, red, distr>>
    /\ UNCHANGED <<ctxHeight, todoVals, todoDels, prepared, flagVars>>

ApplyValidatorUpdates ==
    /\ pc = "apply"
    /\ IF JailedInTheWay
         THEN /\ Goto("panicked")
              /\ UNCHANGED <<status, unbondingHeight, startHeight>>
         ELSE /\ Goto("signing")
              /\ BondElected(ctxHeight, Elected(tokens, powerIndex), {})
    /\ UNCHANGED <<height, jailed, tokens, powerIndex, delegations, ubd, red, distr>>
    /\ UNCHANGED <<ctxHeight, todoVals, todoDels, prepared, flagVars>>

\* Mutant: the signing infos are saved as they were read.
KeepSigningInfos ==
    /\ pc = "signing"
    /\ Goto("export")
    /\ UNCHANGED <<chainVars, ctxHeight, todoVals, todoDels, prepared, flagVars>>

ResetSigningInfos ==
    /\ pc = "signing"
    /\ startHeight' = [v \in Validators |-> 0]
    /\ Goto("export")
    /\ UNCHANGED <<height, status, jailed, tokens, unbondingHeight, powerIndex,
                   delegations, ubd, red, distr>>
    /\ UNCHANGED <<ctxHeight, todoVals, todoDels, prepared, flagVars>>

\* Mutant: the export is at the last height.
WriteGenesisAtLastHeight ==
    /\ pc = "export"
    /\ genesis' = [height |-> IF zeroHeight THEN 0 ELSE height,
                   validators |-> {v \in Validators : status[v] = "Bonded"}]
    /\ Goto("exported")
    /\ UNCHANGED <<chainVars, ctxHeight, todoVals, todoDels, prepared,
                   zeroHeight, allow, exports>>

\* ExportGenesisForModules and WriteValidators: the bonded validators are the
\* ones with a LastValidatorPower.
WriteGenesis ==
    /\ pc = "export"
    /\ genesis' = [height |-> IF zeroHeight THEN 0 ELSE height + 1,
                   validators |-> {v \in Validators : status[v] = "Bonded"}]
    /\ Goto("exported")
    /\ UNCHANGED <<chainVars, ctxHeight, todoVals, todoDels, prepared,
                   zeroHeight, allow, exports>>

-----------------------------------------------------------------------------
(* InitChain of a new chain from the exported genesis. *)

\* What the distribution module owes: outstanding rewards and the community pool.
Owed == OwedBy(distr, Validators)

\* The distribution module refuses a genesis whose module account does not hold
\* the whole tokens it owes; the staking module rebuilds the power index from
\* the validators that are not jailed.
StartFromGenesis ==
    /\ pc = "exported"
    /\ IF Owed \div Unit = distr.balance
         THEN /\ Goto("chain")
              /\ height' = IF genesis.height = 0 THEN 0 ELSE genesis.height - 1
              /\ powerIndex' = {v \in Validators : ~jailed[v]}
         ELSE /\ Goto("refused")
              /\ UNCHANGED <<height, powerIndex>>
    /\ zeroHeight' = FALSE
    /\ allow' = {}
    /\ ctxHeight' = 0
    /\ genesis' = NoGenesis
    /\ UNCHANGED <<status, jailed, tokens, unbondingHeight, delegations, ubd, red,
                   startHeight, distr, todoVals, todoDels, prepared, exports>>

-----------------------------------------------------------------------------
Init ==
    /\ ChainInit
    /\ pc = "chain"
    /\ zeroHeight = FALSE
    /\ allow = {}
    /\ ctxHeight = 0
    /\ todoVals = {}
    /\ todoDels = {}
    /\ prepared = TRUE
    /\ genesis = NoGenesis
    /\ exports = 0

NextBlock == pc = "chain" /\ Block /\ UNCHANGED exportVars

\* What the running export command does next.
ExportStep ==
    \/ \E v \in Validators : WithdrawCommission(v) \/ ReinitializeValidator(v)
    \/ GetAllDelegations
    \/ \E d \in Delegations : WithdrawRewards(d) \/ ReinitializeDelegation(d)
    \/ ClearHistory
    \/ ValidatorsReinitialized
    \/ RestoreHeight
    \/ ResetRedelegations
    \/ ResetUnbondings
    \/ ResetValidators
    \/ \E ok \in CloseOutcomes : CloseIterator(ok)
    \/ ApplyValidatorUpdates
    \/ ResetSigningInfos
    \/ WriteGenesis

Next ==
    \/ NextBlock
    \/ ExportAtHeight
    \/ \E list \in AllowLists : PrepForZeroHeightGenesis(list)
    \/ ExportStep
    \/ StartFromGenesis

Spec == Init /\ [][Next]_vars

-----------------------------------------------------------------------------
(* What an export promises. *)

\* Types of all variables; rewards, money and reference counts never go negative.
TypeOK ==
    /\ ChainTypeOK
    /\ pc \in Phases
    /\ zeroHeight \in BOOLEAN
    /\ allow \subseteq Validators \cup {Unknown, Malformed}
    /\ ctxHeight \in Nat
    /\ todoVals \subseteq Validators
    /\ todoDels \subseteq Delegations
    /\ prepared \in BOOLEAN
    /\ genesis \in [height : Nat, validators : SUBSET Validators]
    /\ exports \in Nat

\* A running chain holds no height that has not come yet, so a chain that starts
\* at height zero holds none but zero ("prepares for fresh start at zero
\* height").  The heights of the signing infos are excepted after a preparation
\* that a failing Close cut short.
StakingHeightsPast ==
    /\ \A v \in Validators : unbondingHeight[v] =< height
    /\ \A e \in ubd \cup red : e.height =< height

RewardHeightsPast ==
    /\ \A d \in delegations : distr.start[d].height =< height
    /\ \A v \in Validators : \A s \in distr.vals[v].slashes : s.height =< height

SigningHeightsPast == \A v \in Validators : startHeight[v] =< height

NoFutureHeights ==
    pc = "chain" =>
        /\ StakingHeightsPast
        /\ RewardHeightsPast
        /\ prepared => SigningHeightsPast

\* A delegation sees every slash of its validator since it started: x/distribution
\* looks for slash events by height, from the starting height on, and panics when
\* a delegation has less stake than the events it found explain.
SlashesSeen ==
    pc = "chain" =>
        \A d \in delegations : \A s \in distr.vals[d[2]].slashes :
            s.period > distr.start[d].period => s.height >= distr.start[d].height

\* The distribution module account holds exactly what the module owes; before a
\* chain starts from a genesis this is what InitGenesis insists on.  While the
\* validators are being reinitialized it holds for the visited ones together with
\* the rest, so it holds in every state.
FullyBacked == Backed(distr, Validators)

\* The reference-count invariant of x/distribution, and that exactly the
\* delegations of the store can withdraw, from a period that is still recorded.
References(v) == 1 + Cardinality(DelegationsTo(v)) + Cardinality(distr.vals[v].slashes)

HistoryConsistent ==
    pc \in {"chain", "exported"} =>
        /\ \A v \in Validators : BagCardinality(distr.vals[v].refs) = References(v)
        /\ {d \in Delegations : distr.start[d].known} = delegations
        /\ \A d \in delegations : distr.start[d].period \in BagToSet(distr.vals[d[2]].refs)

\* An export panics only where the operator's allow list is at fault: an address
\* that does not parse, or the jailing of a validator that is in the power index.
\* Nobody's rewards make it panic, and no genesis is refused by the next chain.
PanicsAreAllowListed ==
    /\ pc # "refused"
    /\ pc = "panicked" =>
          \/ Malformed \in allow
          \/ allow # {} /\ \E v \in Scanned(tokens, powerIndex) : v \notin allow

\* The validators of a genesis are those a first block would elect, and none of
\* them is jailed, unless the preparation was cut short.
GenesisIsElected ==
    pc = "exported" /\ prepared =>
        /\ genesis.validators = Elected(tokens, {v \in Validators : ~jailed[v]})
        /\ allow # {} => genesis.validators \subseteq allow

\* An export implements its promise.  Every step of it leaves stake and bonded
\* validators alone (the validator set update at the end of the preparation changes
\* nothing, or panics), the genesis is for the height asked for and has the bonded
\* validators, and the next chain takes over both.
Promise ==
    INSTANCE ExportPromise WITH
        phase <- IF pc = "chain" THEN "running"
                 ELSE IF pc = "exported" THEN "exported"
                 ELSE IF pc \in {"panicked", "refused"} THEN "failed"
                 ELSE "exporting",
        stake <- stakeVars,
        bonded <- {v \in Validators : status[v] = "Bonded"},
        asked <- IF pc \in {"chain", "panicked", "refused"} THEN -1
                 ELSE IF zeroHeight THEN 0 ELSE height + 1,
        document <- genesis

ImplementsPromise == Promise!Spec

\* The inductive invariant behind NoFutureHeights, SlashesSeen and FreshStart: what
\* the part of the export that has been reached has already rebased.
History(D, dels, h) ==
    /\ \A d \in dels : D.start[d].height =< h
    /\ \A v \in Validators : \A s \in D.vals[v].slashes :
          s.height =< h /\ s.period < D.vals[v].period
    /\ \A d \in dels : \A s \in D.vals[d[2]].slashes :
          s.period > D.start[d].period => s.height >= D.start[d].height

AtHeight == {"commission", "rewards", "redelegations", "unbondings", "flags",
             "close", "apply", "signing"}

AtZero == {"validators", "delegations"}

\* The preparation has passed all the phases before those of the set.
Past(phases) == pc \in phases \/ (pc \in {"export", "exported"} /\ zeroHeight)

\* Blocks are running, or the state is exported as it is.
AsItIs == pc = "chain" \/ (pc \in {"export", "exported"} /\ ~zeroHeight)

PhaseInv ==
    /\ pc = "chain" => ~zeroHeight
    /\ pc \in AtHeight \cup AtZero => zeroHeight
    /\ pc \in AtHeight => ctxHeight = height
    /\ pc \in AtZero => ctxHeight = 0
    /\ pc = "exported" => genesis.height = IF zeroHeight THEN 0 ELSE height + 1
    /\ pc # "exported" => genesis = NoGenesis
    /\ pc # "chain" => height > 0

RebaseInv ==
    /\ Past({"validators", "delegations", "redelegations", "unbondings", "flags",
             "close", "apply", "signing"}) =>
          \A v \in Validators : distr.vals[v].slashes = {}
    /\ pc = "delegations" => \A d \in delegations \ todoDels : distr.start[d].height = 0
    /\ Past({"redelegations", "unbondings", "flags", "close", "apply", "signing"}) =>
          \A d \in delegations : distr.start[d].height = 0
    /\ Past({"unbondings", "flags", "close", "apply", "signing"}) => \A e \in red : e.height = 0
    /\ Past({"flags", "close", "apply", "signing"}) => \A e \in ubd : e.height = 0
    /\ Past({"close", "apply", "signing"}) => \A v \in Validators : unbondingHeight[v] = 0
    /\ Past({}) /\ prepared => \A v \in Validators : startHeight[v] = 0

BondInv ==
    /\ height = 0 \/ {v \in Validators : status[v] = "Bonded"} = Elected(tokens, powerIndex)
    /\ AsItIs => powerIndex = {v \in Validators : ~jailed[v]}

HeightInv ==
    /\ StakingHeightsPast
    /\ History(distr, delegations, height)
    /\ AsItIs /\ prepared => SigningHeightsPast

IInv == PhaseInv /\ RebaseInv /\ BondInv /\ HeightInv

\* The inductive invariant behind GenesisIsElected: what the allow list has done to
\* the validators, whose place in the power index it leaves alone.
Filtered == pc \in {"close", "apply", "signing"} \/ (pc \in {"export", "exported"} /\ zeroHeight)

FilterInv ==
    /\ ~zeroHeight => allow = {}
    /\ pc \in {"commission", "rewards", "validators", "delegations", "redelegations",
              "unbondings", "flags"} => powerIndex = {v \in Validators : ~jailed[v]}
    /\ Filtered =>
          /\ {v \in Validators : ~jailed[v]} \subseteq powerIndex
          /\ allow # {} => \A v \in Validators : ~jailed[v] => v \in allow
    /\ pc = "signing" \/ (pc \in {"export", "exported"} /\ zeroHeight /\ prepared) =>
          \A v \in Scanned(tokens, powerIndex) : ~jailed[v]
    /\ pc \in {"apply", "signing"} => prepared
    /\ pc = "exported" => genesis.validators = {v \in Validators : status[v] = "Bonded"}

\* The inductive invariant behind HistoryConsistent: the records of a validator are
\* tallied with the delegations that have been restarted, those of one that the
\* preparation has still to reinitialize are gone.
Restarted ==
    CASE pc = "validators"  -> {}
      [] pc = "delegations" -> delegations \ todoDels
      [] OTHER              -> delegations

Emptied(v) == pc = "validators" /\ v \in todoVals

RecordsInv ==
    /\ IsFiniteSet(delegations)
    /\ {d \in Delegations : distr.start[d].known} = delegations
    /\ pc \in {"rewards", "delegations"} => todoDels \subseteq delegations
    /\ \A v \in Validators :
          IF Emptied(v) THEN Untallied(distr.vals[v])
          ELSE Tallied(distr.vals[v], distr.start, {d \in Restarted : d[2] = v})

\* The inductive invariant behind PanicsAreAllowListed: whom the power index still
\* has although he is jailed, the list has jailed.
JailedByList(v) == allow # {} /\ v \notin allow

PanicInv ==
    /\ pc \in {"close", "apply"} => \A v \in powerIndex : jailed[v] => JailedByList(v)
    /\ PanicsAreAllowListed

\* What the allow list is for: an export that jails the validators missing from a
\* list of well-formed addresses writes a genesis.
AllowListExports == pc = "panicked" => Malformed \in allow

\* "prepares for fresh start at zero height": a zero-height genesis holds no
\* height of the old chain.
AllHeightsZero ==
    /\ \A v \in Validators : unbondingHeight[v] = 0 /\ startHeight[v] = 0
    /\ \A e \in ubd \cup red : e.height = 0
    /\ \A d \in delegations : distr.start[d].height = 0
    /\ \A v \in Validators : distr.vals[v].slashes = {}

FreshStart == pc = "exported" /\ genesis.height = 0 => AllHeightsZero
=============================================================================
