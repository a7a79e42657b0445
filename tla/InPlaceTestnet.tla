---------------------------- MODULE InPlaceTestnet ----------------------------
(***************************************************************************)
(* cmd/tatcoind/cmd/testnet.go: the command that turns the stores of a     *)
(* stopped node into a testnet with one validator, and the node that runs  *)
(* on them.  initAppForTestnet writes through an uncached context: nothing *)
(* is on disk before the first block of the testnet commits, and handleErr *)
(* ends the process.  The server (external) rewrites CometBFT's database   *)
(* when the application has been prepared, so that the two halves of the   *)
(* node are saved at different times.                                      *)
(*                                                                         *)
(* A validator without a record has status Unbonded, no tokens and is not  *)
(* jailed; its delegations and reward records may still be there.  The     *)
(* testnet's validator is not slashed, and its operator does not take its  *)
(* own delegation away: either would leave the chain without a validator.  *)
(* New validators (MsgCreateValidator) are not modelled.                   *)
(***************************************************************************)
EXTENDS StakingChain, Sequences

CONSTANTS
    GenesisValidators,  \* the validators that have a record at genesis
    Moves,              \* bound: the delegations that messages create or change
    NoOperator,
    NewKey,             \* newValPubKey, the consensus key of the node
    NewPower,           \* valVotingPower in units of consensus power
    CometPower,         \* the voting power the server gives the key
    AccountFlags,       \* --accounts-to-fund, entry by entry; << >> if it is not given
    Accounts,           \* well-formed addresses
    Blocked,            \* those of module accounts that may not receive coins
    Malformed,          \* a string that is no address
    MaxCommands         \* bound: uses of the command in a behaviour

ASSUME TestnetAssumption ==
    /\ GenesisValidators \subseteq Validators
    /\ Moves \subseteq Delegators \X Validators
    /\ NoOperator \notin Validators /\ Malformed \notin Validators
    /\ NewKey \notin Validators
    /\ NewPower \in Nat \ {0} /\ CometPower \in Nat \ {0}
    /\ Malformed \notin Accounts
    /\ Blocked \subseteq Accounts
    /\ AccountFlags \subseteq Seq(Accounts \cup {Malformed})
    /\ MaxCommands \in Nat

VARIABLES
    pubkey,     \* consensus key of each validator that has a record
    lastPower,  \* the LastValidatorPower entries
    queue,      \* the validators in the unbonding queue
    byCons,     \* the operator of each consensus key; entries are never deleted
    infos,      \* the consensus keys with signing infos
    op,         \* the testnet's validator, NoOperator on the original chain
    reused,     \* operators that were set up on top of their old records
    pc,         \* "chain" while blocks run, else what the command does next
    args,       \* valArgs, without the accounts
    todo,       \* accounts still to fund
    committed,  \* the stores at the last commit
    comet,      \* CometBFT's validators: keys and their voting power
    torn,       \* CometBFT's database was rewritten, the stores were not
    commands    \* uses of the command so far

storeVars == <<chainVars, pubkey, lastPower, queue, byCons, infos, op, reused>>
nodeVars == <<committed, comet, torn, commands>>
vars == <<storeVars, pc, args, todo, nodeVars>>

known == DOMAIN pubkey

Keys == Validators \cup {NewKey}

NoArgs == [home |-> TRUE, operator |-> NoOperator]

Working == {"power", "last", "records", "queue", "add", "lastPower", "hook",
            "distribution", "signing", "bank", "fund", "prepared"}

Stopped == {"exited", "killed"}

Bonded(v) == status[v] = "Bonded"

Goto(p) == pc' = p

-----------------------------------------------------------------------------
(* Commit and what it saves. *)

Store == [height |-> height, status |-> status, jailed |-> jailed, tokens |-> tokens,
          unbondingHeight |-> unbondingHeight, powerIndex |-> powerIndex,
          delegations |-> delegations, ubd |-> ubd, red |-> red,
          startHeight |-> startHeight, distr |-> distr, pubkey |-> pubkey,
          lastPower |-> lastPower, queue |-> queue, byCons |-> byCons, infos |-> infos,
          op |-> op, reused |-> reused]

\* A new process finds the stores as the last commit left them.
Restore ==
    LET s == committed
    IN  /\ height' = s.height /\ status' = s.status /\ jailed' = s.jailed
        /\ tokens' = s.tokens /\ unbondingHeight' = s.unbondingHeight
        /\ powerIndex' = s.powerIndex /\ delegations' = s.delegations
        /\ ubd' = s.ubd /\ red' = s.red /\ startHeight' = s.startHeight
        /\ distr' = s.distr /\ pubkey' = s.pubkey /\ lastPower' = s.lastPower
        /\ queue' = s.queue /\ byCons' = s.byCons /\ infos' = s.infos
        /\ op' = s.op /\ reused' = s.reused

\* The rest of the EndBlocker's validator set update, and the commit: the last
\* powers, the unbonding queue, new signing infos, and the updates to CometBFT,
\* which are the differences to the last powers.  CometBFT accepts no empty set.
CommitBlock ==
    LET elected == Elected(tokens', powerIndex')
        gone == {pubkey[v] : v \in DOMAIN lastPower \ elected}
        changed == {v \in elected : v \notin DOMAIN lastPower \/ lastPower[v] # tokens'[v]}
        update == [k \in {pubkey[v] : v \in changed} |->
                     tokens'[CHOOSE v \in changed : pubkey[v] = k]]
    IN  /\ elected # {}
        /\ lastPower' = [v \in elected |-> tokens'[v]]
        /\ queue' = {v \in queue \cup DOMAIN lastPower : status'[v] = "Unbonding"}
        /\ infos' = infos \cup {pubkey[v] : v \in elected}
        /\ comet' = [k \in (DOMAIN comet \ gone) \cup DOMAIN update |->
                       IF k \in DOMAIN update THEN update[k] ELSE comet[k]]
        /\ torn' = (torn /\ pc # "ready")
        /\ args' = NoArgs
        /\ Goto("chain")
        /\ UNCHANGED <<pubkey, byCons, op, reused, todo, commands>>
        /\ committed' = Store'

-----------------------------------------------------------------------------
(* Blocks of the original chain, and of a testnet. *)

MainnetBlock ==
    /\ pc = "chain"
    /\ op = NoOperator
    /\ \/ \E v \in known : AllocateRewards(v) \/ Slash(v) \/ Unjail(v) \/ MatureValidator(v)
       \/ \E d \in Moves : d[2] \in known /\ (Delegate(d) \/ Undelegate(d))
       \/ \E d \in Moves, w \in known : <<d[1], w>> \in Moves /\ Redelegate(d, w)
       \/ MatureEntries
    /\ CommitBlock

\* MsgUndelegate from the testnet's validator: shares that nobody holds keep
\* NewPower with it.
UndelegateFromTestnet(d) ==
    /\ d \in delegations
    /\ d[1] # Operator[op]
    /\ \E earned \in Earnable(distr, d, tokens[op], height + 1) :
          distr' = SettleDelegation(distr, d, tokens[op], earned)
    /\ \E left \in NewPower .. tokens[op] : tokens' = [tokens EXCEPT ![op] = left]
    /\ delegations' = delegations \ {d}
    /\ ubd' = ubd \cup {[delegator |-> d[1], validator |-> op, height |-> height + 1]}
    /\ UNCHANGED <<jailed, powerIndex, red>>
    /\ EndBlock

\* A message whose keeper calls panic has no effect.  For delegations to an earlier
\* validator of the same operator they do: the starting period is above the current
\* one, or nothing refers to it any more.
CanMove(d) ==
    /\ d[2] = op
    /\ CanIncrement(distr, op)
    /\ d \in delegations =>
          /\ distr.start[d].period < distr.vals[op].period
          /\ distr.start[d].period \in BagToSet(distr.vals[op].refs)

TestnetBlock ==
    /\ pc \in {"chain", "ready"}
    /\ op # NoOperator
    /\ \/ AllocateRewards(op)
       \/ \E d \in Moves : CanMove(d) /\ (Delegate(d) \/ UndelegateFromTestnet(d))
       \/ MatureEntries
    /\ CommitBlock

-----------------------------------------------------------------------------
(* getCommandArgs, newTestnetApp and initAppForTestnet. *)

\* The operator stops the node and runs `tatcoind in-place-testnet`.  Without a
\* home directory the command panics; an operator address that does not parse
\* ends it before anything is written.
NewTestnetApp(newOp, home) ==
    /\ pc \in {"chain"} \cup Stopped
    /\ height > 0
    /\ commands < MaxCommands
    /\ args' = [home |-> home, operator |-> newOp]
    /\ commands' = commands + 1
    /\ todo' = << >>
    /\ Goto(IF home /\ newOp # Malformed THEN "power" ELSE "exited")
    /\ UNCHANGED <<storeVars, committed, comet, torn>>

\* Mutant: the loop over the power index is missing.
KeepPowerIndex ==
    /\ pc = "power"
    /\ Goto("last")
    /\ UNCHANGED <<storeVars, args, todo, nodeVars>>

\* "Remove all validators from power store".
RemovePowerIndex ==
    /\ pc = "power"
    /\ powerIndex' = {}
    /\ Goto("last")
    /\ UNCHANGED <<height, status, jailed, tokens, unbondingHeight, delegations, ubd,
                   red, startHeight, distr, pubkey, lastPower, queue, byCons, infos,
                   op, reused, args, todo, nodeVars>>

\* "Remove all validators from last validators store".
RemoveLastValidators ==
    /\ pc = "last"
    /\ lastPower' = << >>
    /\ Goto("records")
    /\ UNCHANGED <<chainVars, pubkey, queue, byCons, infos, op, reused,
                   args, todo, nodeVars>>

\* Mutant: the outstanding rewards of the removed validators go with them.
RemoveValidatorsAndRewards ==
    /\ pc = "records"
    /\ pubkey' = << >>
    /\ status' = [v \in Validators |-> "Unbonded"]
    /\ jailed' = [v \in Validators |-> FALSE]
    /\ tokens' = [v \in Validators |-> 0]
    /\ unbondingHeight' = [v \in Validators |-> 0]
    /\ distr' = [distr EXCEPT !.vals =
                   [v \in Validators |-> [@[v] EXCEPT !.outstanding = 0, !.commission = 0,
                                                      !.current = 0]]]
    /\ Goto("queue")
    /\ UNCHANGED <<height, powerIndex, delegations, ubd, red, startHeight,
                   lastPower, queue, byCons, infos, op, reused,
                   args, todo, nodeVars>>

\* "Remove all validators from validators store"; nothing else of them goes.
RemoveValidators ==
    /\ pc = "records"
    /\ pubkey' = << >>
    /\ status' = [v \in Validators |-> "Unbonded"]
    /\ jailed' = [v \in Validators |-> FALSE]
    /\ tokens' = [v \in Validators |-> 0]
    /\ unbondingHeight' = [v \in Validators |-> 0]
    /\ Goto("queue")
    /\ UNCHANGED <<height, powerIndex, delegations, ubd, red, startHeight, distr,
                   lastPower, queue, byCons, infos, op, reused,
                   args, todo, nodeVars>>

\* "Remove all validators from unbonding queue".
RemoveUnbondingQueue ==
    /\ pc = "queue"
    /\ queue' = {}
    /\ Goto("add")
    /\ UNCHANGED <<chainVars, pubkey, lastPower, byCons, infos, op, reused,
                   args, todo, nodeVars>>

\* SetValidator, SetValidatorByConsAddr and SetValidatorByPowerIndex of the new
\* validator, which is born bonded.
AddValidator ==
    LET v == args.operator
    IN  /\ pc = "add"
        /\ op' = v
        /\ reused' = IF distr.vals[v].refs = EmptyBag THEN reused ELSE reused \cup {v}
        /\ pubkey' = [u \in {v} |-> NewKey]
        /\ byCons' = [k \in DOMAIN byCons \cup {NewKey} |->
                     IF k = NewKey THEN v ELSE byCons[k]]
        /\ status' = [status EXCEPT ![v] = "Bonded"]
        /\ tokens' = [tokens EXCEPT ![v] = NewPower]
        /\ powerIndex' = powerIndex \cup {v}
        /\ Goto("lastPower")
        /\ UNCHANGED <<height, jailed, unbondingHeight, delegations, ubd, red, startHeight,
                       distr, lastPower, queue, infos, args, todo, nodeVars>>

\* Mutant: the last power is the validator's power.
SetFullLastPower ==
    /\ pc = "lastPower"
    /\ lastPower' = [v \in {op} |-> tokens[v]]
    /\ Goto("hook")
    /\ UNCHANGED <<chainVars, pubkey, queue, byCons, infos, op, reused,
                   args, todo, nodeVars>>

\* SetLastValidatorPower with zero, so that the first block sends CometBFT an update.
SetLastPower ==
    /\ pc = "lastPower"
    /\ lastPower' = [v \in DOMAIN lastPower \cup {op} |-> IF v = op THEN 0 ELSE lastPower[v]]
    /\ Goto("hook")
    /\ UNCHANGED <<chainVars, pubkey, queue, byCons, infos, op, reused,
                   args, todo, nodeVars>>

\* Hooks().AfterValidatorCreated: x/distribution initializes its records.
CreatedHook ==
    /\ pc = "hook"
    /\ distr' = AfterValidatorCreated(distr, op)
    /\ Goto("distribution")
    /\ UNCHANGED <<height, status, jailed, tokens, unbondingHeight, powerIndex,
                   delegations, ubd, red, startHeight, pubkey, lastPower, queue, byCons,
                   infos, op, reused, args, todo, nodeVars>>

\* Mutant: the current rewards start at period zero.
InitializePeriodZero ==
    /\ pc = "distribution"
    /\ distr' = [distr EXCEPT !.vals[op] =
                   [outstanding |-> 0, commission |-> 0, current |-> 0, period |-> 0,
                    refs |-> SetReference(@.refs, 0), slashes |-> @.slashes]]
    /\ Goto("signing")
    /\ UNCHANGED <<height, status, jailed, tokens, unbondingHeight, powerIndex,
                   delegations, ubd, red, startHeight, pubkey, lastPower, queue, byCons,
                   infos, op, reused, args, todo, nodeVars>>

\* Mutant: the historical rewards are recorded for the current period.
InitializeCurrentPeriod ==
    /\ pc = "distribution"
    /\ distr' = [distr EXCEPT !.vals[op] =
                   [outstanding |-> 0, commission |-> 0, current |-> 0, period |-> 1,
                    refs |-> SetReference(@.refs, 1), slashes |-> @.slashes]]
    /\ Goto("signing")
    /\ UNCHANGED <<height, status, jailed, tokens, unbondingHeight, powerIndex,
                   delegations, ubd, red, startHeight, pubkey, lastPower, queue, byCons,
                   infos, op, reused, args, todo, nodeVars>>

\* "Initialize records for this validator across all distribution stores": period
\* 0 with one reference, current period 1, no commission, nothing outstanding.
InitializeRecords ==
    /\ pc = "distribution"
    /\ distr' = [distr EXCEPT !.vals[op] =
                   [outstanding |-> 0, commission |-> 0, current |-> 0, period |-> 1,
                    refs |-> SetReference(@.refs, 0), slashes |-> @.slashes]]
    /\ Goto("signing")
    /\ UNCHANGED <<height, status, jailed, tokens, unbondingHeight, powerIndex,
                   delegations, ubd, red, startHeight, pubkey, lastPower, queue, byCons,
                   infos, op, reused, args, todo, nodeVars>>

SetSigningInfo ==
    /\ pc = "signing"
    /\ infos' = infos \cup {NewKey}
    /\ Goto("bank")
    /\ UNCHANGED <<chainVars, pubkey, lastPower, queue, byCons, op, reused,
                   args, todo, nodeVars>>

\* Splitting the empty string gives one empty entry.
SplitAccounts(flag) == IF flag = << >> THEN <<Malformed>> ELSE flag

\* accountsToFund: no step before this one looks at the flag.
AccountsToFund(flag) ==
    /\ pc = "bank"
    /\ todo' = SplitAccounts(flag)
    /\ Goto("fund")
    /\ UNCHANGED <<storeVars, args, nodeVars>>

\* One iteration of "Fund local accounts": mint, parse the address, send.
FundAccount ==
    /\ pc = "fund"
    /\ todo # << >>
    /\ Head(todo) \in Accounts \ Blocked
    /\ todo' = Tail(todo)
    /\ UNCHANGED <<storeVars, pc, args, nodeVars>>

\* Mutant: what was written before the error is saved.
ExitAndSave ==
    /\ pc = "fund"
    /\ todo # << >>
    /\ Head(todo) \notin Accounts \ Blocked
    /\ Goto("exited")
    /\ committed' = Store
    /\ UNCHANGED <<storeVars, args, todo, comet, torn, commands>>

\* handleErr for an address that does not parse or may not receive coins.
ExitOnError ==
    /\ pc = "fund"
    /\ todo # << >>
    /\ Head(todo) \notin Accounts \ Blocked
    /\ Goto("exited")
    /\ Restore
    /\ UNCHANGED <<args, todo, nodeVars>>

Return ==
    /\ pc = "fund"
    /\ todo = << >>
    /\ Goto("prepared")
    /\ UNCHANGED <<storeVars, args, todo, nodeVars>>

\* The server makes the key CometBFT's only validator and starts the node.
StartServer ==
    /\ pc = "prepared"
    /\ comet' = [k \in {NewKey} |-> CometPower]
    /\ torn' = TRUE
    /\ Goto("ready")
    /\ UNCHANGED <<storeVars, args, todo, committed, commands>>

\* The process is killed before the first block commits.
Kill ==
    /\ pc \in Working \cup {"ready"}
    /\ Restore
    /\ Goto("killed")
    /\ UNCHANGED <<args, todo, nodeVars>>

\* A validator of CometBFT is looked up by x/distribution and x/slashing.
Resolves(k) ==
    /\ k \in infos
    /\ k \in DOMAIN byCons
    /\ byCons[k] \in known
    /\ pubkey[byCons[k]] = k

\* `tatcoind start` after the command was given up.
StartNode ==
    /\ pc \in Stopped
    /\ Goto(IF \A k \in DOMAIN comet : Resolves(k) THEN "chain" ELSE "halted")
    /\ args' = NoArgs
    /\ todo' = << >>
    /\ UNCHANGED <<storeVars, nodeVars>>

-----------------------------------------------------------------------------
(* The original chain starts from a genesis that elects somebody: CometBFT      *)
(* accepts no empty validator set.                                             *)

\* The distribution state of an operator that never had a validator.
NoRewards ==
    [outstanding |-> 0, commission |-> 0, current |-> 0,
     period |-> 1, refs |-> EmptyBag, slashes |-> {}]

Init ==
    /\ height = 0
    /\ jailed = [v \in Validators |-> FALSE]
    /\ \E power \in [GenesisValidators -> 1 .. MaxTokens] :
          tokens = [v \in Validators |-> IF v \in GenesisValidators THEN power[v] ELSE 0]
    /\ unbondingHeight = [v \in Validators |-> 0]
    /\ startHeight = [v \in Validators |-> 0]
    /\ powerIndex = GenesisValidators
    /\ delegations = {<<Operator[v], v>> : v \in GenesisValidators}
    /\ ubd = {}
    /\ red = {}
    /\ LET elected == Elected(tokens, powerIndex)
       IN  /\ elected # {}
           /\ status = [v \in Validators |-> IF v \in elected THEN "Bonded" ELSE "Unbonded"]
           /\ lastPower = [v \in elected |-> tokens[v]]
           /\ comet = lastPower
           /\ infos = elected
    /\ distr = [vals |-> [v \in Validators |->
                            IF v \in GenesisValidators THEN GenesisRewards ELSE NoRewards],
                start |-> [d \in Delegations |->
                             [known |-> d \in delegations, period |-> 1, height |-> 0]],
                pool |-> 0,
                balance |-> 0]
    /\ pubkey = [v \in GenesisValidators |-> v]
    /\ byCons = pubkey
    /\ queue = {}
    /\ op = NoOperator
    /\ reused = {}
    /\ pc = "chain"
    /\ args = NoArgs
    /\ todo = << >>
    /\ committed = Store
    /\ torn = FALSE
    /\ commands = 0

Next ==
    \/ MainnetBlock
    \/ TestnetBlock
    \/ \E newOp \in Validators \cup {Malformed}, home \in BOOLEAN : NewTestnetApp(newOp, home)
    \/ RemovePowerIndex
    \/ RemoveLastValidators
    \/ RemoveValidators
    \/ RemoveUnbondingQueue
    \/ AddValidator
    \/ SetLastPower
    \/ CreatedHook
    \/ InitializeRecords
    \/ SetSigningInfo
    \/ \E flag \in AccountFlags : AccountsToFund(flag)
    \/ FundAccount
    \/ ExitOnError
    \/ Return
    \/ StartServer
    \/ Kill
    \/ StartNode

Spec == Init /\ [][Next]_vars

-----------------------------------------------------------------------------
(* What the command promises. *)

\* Types of all variables.
TypeOK ==
    /\ ChainTypeOK
    /\ known \subseteq Validators
    /\ \A v \in known : pubkey[v] \in Keys
    /\ DOMAIN lastPower \subseteq Validators
    /\ \A v \in DOMAIN lastPower : lastPower[v] \in Nat
    /\ queue \subseteq Validators
    /\ DOMAIN byCons \subseteq Keys
    /\ \A k \in DOMAIN byCons : byCons[k] \in Validators
    /\ infos \subseteq Keys
    /\ op \in Validators \cup {NoOperator}
    /\ reused \subseteq Validators
    /\ pc \in {"chain", "ready", "halted"} \cup Working \cup Stopped
    /\ args \in [home : BOOLEAN, operator : Validators \cup {NoOperator, Malformed}]
    /\ todo \in Seq(Accounts \cup {Malformed})
    /\ DOMAIN comet \subseteq Keys
    /\ \A k \in DOMAIN comet : comet[k] \in Nat
    /\ torn \in BOOLEAN
    /\ commands \in Nat

\* Whenever a block is about to run, none of the lookups that halt a chain fails:
\* whoever is in the power index, the last powers or the unbonding queue (the
\* stores that initAppForTestnet empties one by one) has a record in the state the
\* index implies, and x/distribution and x/slashing know CometBFT's validators.
NextBlockRuns ==
    pc \in {"chain", "ready"} =>
        /\ \A v \in powerIndex : v \in known /\ ~jailed[v]
        /\ \A v \in DOMAIN lastPower : v \in known /\ Bonded(v)
        /\ \A v \in queue : v \in known /\ status[v] = "Unbonding"
        /\ comet # << >> /\ \A k \in DOMAIN comet : Resolves(k)
        /\ Elected(tokens, powerIndex) # {}

\* After every block CometBFT votes with the validators and the powers that the
\* staking module elected, although the server started it with another power: the
\* last power zero of testnet.go:153 is what makes the first block correct it.
CometAgrees ==
    pc = "chain" =>
        LET elected == Elected(tokens, powerIndex)
        IN  /\ DOMAIN comet = {pubkey[v] : v \in elected}
            /\ ~torn => \A v \in elected : comet[pubkey[v]] = tokens[v]

\* The reference counts of x/distribution are right for every validator, removed
\* or new, that was not set up on top of old records, and its delegations start
\* from a recorded period.
RecordsConsistent ==
    pc \in {"chain", "ready"} =>
        \A v \in Validators \ reused :
            distr.vals[v].refs # EmptyBag =>
                /\ BagCardinality(distr.vals[v].refs) =
                      1 + Cardinality(DelegationsTo(v)) + Cardinality(distr.vals[v].slashes)
                /\ \A d \in DelegationsTo(v) : distr.start[d].period \in BagToSet(distr.vals[v].refs)

\* The distribution module still holds what it owes, also to the delegators of
\* removed validators, unless the operator's own old rewards were zeroed.
StillBacked == reused = {} => Backed(distr, Validators)

\* A node that is started again without the command runs its old chain, or its old
\* testnet; only a kill between the server's rewriting of CometBFT's database and
\* the first commit keeps it from doing so.
OnlyTornNodesHalt == pc = "halted" => torn

\* The inductive invariant behind NextBlockRuns, CometAgrees and OnlyTornNodesHalt.
\* What every lookup of a block relies on, in stores s: the power index, the last
\* powers and the unbonding queue name validators with a record, and the keys that
\* vote lead to their operators.
LookupsSucceed(s) ==
    /\ s.status \in [Validators -> Statuses]
    /\ s.jailed \in [Validators -> BOOLEAN]
    /\ s.tokens \in [Validators -> Nat]
    /\ DOMAIN s.pubkey \subseteq Validators
    /\ \A v \in s.powerIndex : v \in DOMAIN s.pubkey /\ ~s.jailed[v]
    /\ DOMAIN s.lastPower = Elected(s.tokens, s.powerIndex)
    /\ Elected(s.tokens, s.powerIndex) # {}
    /\ \A v \in Validators : s.status[v] = "Bonded" <=> v \in DOMAIN s.lastPower
    /\ s.queue = {v \in Validators : s.status[v] = "Unbonding"}
    /\ s.queue \subseteq DOMAIN s.pubkey
    /\ \A v \in DOMAIN s.pubkey : s.pubkey[v] \in DOMAIN s.byCons /\ s.byCons[s.pubkey[v]] = v
    /\ \A v \in DOMAIN s.lastPower : s.pubkey[v] \in s.infos
    /\ IF s.op = NoOperator
       THEN s.infos \subseteq Validators /\ \A v \in DOMAIN s.pubkey : s.pubkey[v] = v
       ELSE DOMAIN s.pubkey = {s.op} /\ s.pubkey[s.op] = NewKey

\* What a commit saves.
IsStore(s) ==
    s = [height |-> s.height, status |-> s.status, jailed |-> s.jailed, tokens |-> s.tokens,
         unbondingHeight |-> s.unbondingHeight, powerIndex |-> s.powerIndex,
         delegations |-> s.delegations, ubd |-> s.ubd, red |-> s.red,
         startHeight |-> s.startHeight, distr |-> s.distr, pubkey |-> s.pubkey,
         lastPower |-> s.lastPower, queue |-> s.queue, byCons |-> s.byCons,
         infos |-> s.infos, op |-> s.op, reused |-> s.reused]

Saved(s) ==
    /\ IsStore(s)
    /\ LookupsSucceed(s)
    /\ \A v \in DOMAIN s.lastPower : s.lastPower[v] = s.tokens[v]

\* CometBFT's validators are those of the last commit, or the server has replaced
\* them by the testnet's key.
CometInv ==
    /\ ~torn =>
          /\ DOMAIN comet = {committed.pubkey[v] : v \in DOMAIN committed.lastPower}
          /\ \A v \in DOMAIN committed.lastPower :
                comet[committed.pubkey[v]] = committed.lastPower[v]
    /\ torn => DOMAIN comet = {NewKey}
    /\ torn /\ pc = "chain" => op # NoOperator
    /\ pc = "ready" => torn
    /\ pc = "halted" => torn

NotEmptied == {"power", "last", "records", "queue", "add"}

\* What initAppForTestnet has emptied when a step is reached.
EmptiedInv ==
    /\ pc \in NotEmptied => args.operator \in Validators
    /\ pc \in NotEmptied \ {"power"} => powerIndex = {}
    /\ pc \in {"records", "queue", "add", "lastPower"} => DOMAIN lastPower = {}
    /\ pc \in {"queue", "add"} =>
          /\ status = [v \in Validators |-> "Unbonded"]
          /\ jailed = [v \in Validators |-> FALSE]
          /\ tokens = [v \in Validators |-> 0]
    /\ pc = "add" => queue = {}

\* What it has written of the new validator, in memory only.
AddedInv ==
    /\ pc \in (Working \cup {"ready"}) \ NotEmptied =>
          /\ op \in Validators
          /\ known = {op} /\ pubkey[op] = NewKey
          /\ NewKey \in DOMAIN byCons /\ byCons[NewKey] = op
          /\ powerIndex = {op}
          /\ status = [v \in Validators |-> IF v = op THEN "Bonded" ELSE "Unbonded"]
          /\ jailed = [v \in Validators |-> FALSE]
          /\ tokens = [v \in Validators |-> IF v = op THEN NewPower ELSE 0]
          /\ queue = {}
    /\ pc \in (Working \cup {"ready"}) \ (NotEmptied \cup {"lastPower"}) =>
          DOMAIN lastPower = {op} /\ lastPower[op] = 0
    /\ pc \in {"bank", "fund", "prepared", "ready"} => NewKey \in infos

IInv ==
    /\ pc \in {"chain", "ready", "halted"} \cup Working \cup Stopped
    /\ Saved(committed)
    /\ pc \in {"chain", "halted"} \cup Stopped => Store = committed
    /\ CometInv
    /\ EmptiedInv
    /\ AddedInv

\* The inductive invariant behind RecordsConsistent and StillBacked, in stores s: an
\* address that never had a validator has neither records nor delegations, the
\* records of every other validator that was not set up on top of old ones tally.
DelegationsIn(s, v) == {d \in s.delegations : d[2] = v}

RecordsTally(s, v) == Tallied(s.distr.vals[v], s.distr.start, DelegationsIn(s, v))

Fresh(s, v) ==
    /\ Untallied(s.distr.vals[v])
    /\ s.distr.vals[v].outstanding = 0
    /\ DelegationsIn(s, v) = {}

RecordsKept(s) ==
    /\ IsFiniteSet(s.delegations)
    /\ \A v \in Validators \ s.reused : Fresh(s, v) \/ RecordsTally(s, v)
    /\ s.reused = {} => Backed(s.distr, Validators)

KnownTally(s) == \A v \in DOMAIN s.pubkey \ s.reused : RecordsTally(s, v)

RecordsInv ==
    /\ RecordsKept(committed) /\ KnownTally(committed)
    /\ RecordsKept(Store)
    /\ pc \in {"lastPower", "hook"} => (op \in reused \/ Fresh(Store, op))
    /\ pc \notin {"lastPower", "hook"} => KnownTally(Store)
    /\ pc = "distribution" /\ op \notin reused =>
          /\ distr.vals[op] = [NoRewards EXCEPT !.refs = SetToBag({0})]
          /\ DelegationsIn(Store, op) = {}

\* testnet.go:56: --accounts-to-fund is a list of accounts with an empty default; a
\* command that is not given any funds none and goes on.
NoAccountsNeeded == pc = "exited" /\ args.home /\ args.operator # Malformed => todo # <<Malformed>>
=============================================================================
