# tatcoin in TLA+

tatcoin is a Cosmos SDK chain (SDK v0.53, CometBFT) scaffolded with Ignite. Most
of its behaviour comes from SDK modules; the repository's own logic is the
zero-height export, the two testnet commands, the `x/tatcore` module with its
generated wire codec, and the wiring. This directory models that logic, checks it with TLC and proves its
central invariants with TLAPS.

Paths below are relative to the repository's root.

## Inventory

| component | state | operations | what makes it correct |
|---|---|---|---|
| zero-height export (`app/export.go`) | the stores of staking, slashing and distribution; a context with a height; the exported genesis | `ExportAppStateAndValidators`, `prepForZeroHeightGenesis`: withdraw, clear, reinitialize, reset heights, jail by allow list, recompute the validator set | nothing of the old chain's heights remains; rewards are neither lost nor invented; reference counts allow every later withdrawal; no panic but through the operator's own argument |
| chain state (SDK modules wired in `app/app_config.go`) | validators, delegations, unbondings, power index, signing infos, reward records | one operation and the EndBlocker per block | what the export finds is what real blocks leave behind |
| start and export commands (`cmd/tatcoind/cmd/commands.go`) | the application they build: committed versions, the state of the block being executed | `newApp`, `appExport`: checks, load a height, export | the exported state is that of the height asked for; a restarted node continues where the block store ends |
| multi-node generator (`testnet_multi_node.go`) | an output directory that outlives the command: keys, keyring, seeds, gentxs, genesis, configuration | parse flags; per node write files; genesis; copy gentxs; collect | a run that reports success leaves one consistent testnet, whatever earlier runs and half-done removals left; keys are never replaced; ports do not clash |
| in-place testnet (`testnet.go`) | the stores of a stopped node, through a context without a cache; CometBFT's database, which the server rewrites | replace the validator set by one validator, initialize its reward and signing records, fund accounts | the next block runs; CometBFT and staking agree on the validators; what is owed to old delegators is still backed; giving up half way leaves the old chain |
| `x/tatcore` | `Params` (an empty message), the authority | genesis, `UpdateParams`, `Params` query | only the authority writes, whatever the spelling of its address; each decided block counts once; what was set is exported |
| wire codec (`x/tatcore/types/*.pb.go`) | indices and accumulators of one call | varint encoding, decoding, skipping | decoding inverts encoding; malformed input ends in an error, never outside of the buffer |
| wiring (`app/app.go`, `app_config.go`, `ibc.go`) | module order, account permissions, blocked addresses | `New` (loads a version, sets the InitChainer, turns optimistic execution on), `BlockedAddresses` | a proposal executed ahead leaves no trace unless it is decided |
| command glue, docs server, network data, build files | none | | not modelled: no state |

How they meet: the export command loads a version of the stores and calls the
export, which calls the keepers of the chain state; the in-place testnet rewrites
the same stores before the node starts; CometBFT calls the node (proposals,
decisions, replay) and the node calls `x/tatcore`, whose messages the codec decodes;
the generator shares nothing with them but the format of a genesis.

What is hard here: long sequences of writes to several stores in which one write
makes another one's assumption stale (the export, the in-place testnet), steps that
fail half way with ignored errors or early returns, two databases saved at
different times (the in-place testnet, a node killed between decision and commit),
a proposal executed while another one is decided, a directory that survives
crashes, repeated runs and removals whose error is dropped (the generator), and numbers at their boundary
(fractions of tokens, validators without tokens, ports, shifted argument lists,
lengths and varints that overflow). `PROJECT.json` lists them at their lines under
`hazards`.

## Modules

```
Distribution            reward bookkeeping as pure operators (SDK, external)
  StakingChain          the chain's state and blocks (SDK, external)
    ZeroHeightExport    app/export.go and the restart from its genesis
      MCZeroHeightExport
    InPlaceTestnet      cmd/tatcoind/cmd/testnet.go and the node that runs on its stores
      MCInPlaceTestnet
  StakingChainProofs    one lemma per operation of the keeper; what a block keeps
    ZeroHeightExportProofs
      GenesisProofs     who is in an exported genesis; rewards and references balance
    InPlaceTestnetProofs
SumProofs               sums, bags and recursive functions, used by the proofs
ExportPromise           abstract: what an export may do to a chain
TestnetFiles            cmd/tatcoind/cmd/testnet_multi_node.go
  MCTestnetFiles
  TestnetFilesProofs
TestnetPromise          abstract: what the generator leaves in a directory
TatcoreApp              x/tatcore, newApp, appExport, New: a node
  MCTatcoreApp
  TatcoreAppProofs
TatcoreLedger           abstract: a chain whose blocks are executed once
ProtoWire               x/tatcore/types/*.pb.go: decoder and encoder
  ProtoFormat           what a buffer means (reference definition)
    MCProtoFormat
    ProtoWireProofs     safety, the decoder against the reference, the round trip
```

**Distribution.** A keeper state is a record; each keeper method or hook is an
operator from one state to the next, in the order the SDK performs its writes.
The historical rewards of a validator are a bag of periods, a copy per reference.
`Unit` decimal units make one token, so that fractions exist. How much a
delegation earned is not computed: it is any part of what the validator owes
its delegators, which covers every reward history.

**StakingChain.** A block executes one operation (fees, delegate, undelegate,
redelegate, slash, unjail, completion of unbondings) and then the EndBlocker's
validator set update. Validators are numbered in address order, which breaks
ties of power. Amounts are counted in units of consensus power and messages move
a whole delegation; the tokens that leave with it are any amount, as slashed
delegations are worth less than they were. Validators are neither created nor
removed.

**ZeroHeightExport.** The command as a program counter over the phases of
`prepForZeroHeightGenesis`. The loops that pay and restart rewards take one step
per validator or delegation, in store order; loops that rewrite every entry the
same way are one step. `ctxHeight` is the height of `ctx`, which the code sets to
zero and back. Panics of the keepers and of the code end in `pc = "panicked"`; the
early return after a failing `iter.Close` is `CloseIterator(FALSE)`, remembered in
`prepared`. `StartFromGenesis` is InitChain of the next chain: the distribution
module refuses a genesis that its module account does not back, the staking
module rebuilds the power index from the validators that are not jailed. The
chain then runs on, up to another export. Exports start after the first block:
before it the SDK loads version 0, an empty store, and the modules panic over it,
which `TatcoreApp` models for `x/tatcore`.

**ExportPromise.** The export seen from outside: no stake and no bonded validator
changes between the command and the start of the next chain, except by blocks;
the document is for the height asked for (zero, or the one after the last block)
and names the bonded validators; a chain that starts from it continues there.
`ZeroHeightExport` implements it with `phase <-` its program counter and `bonded <-` the
validators with status Bonded.

**InPlaceTestnet.** `getCommandArgs` and `initAppForTestnet` as a program counter over
the stores they rewrite, on top of `StakingChain`: the power index, the last powers,
the validator records, the unbonding queue, the records of the new validator, its
rewards, its signing info, the funding loop. `committed` is what the last commit
saved; `comet` is CometBFT's database, which the server (external) makes a single
validator after the application was prepared; `torn` says that it was rewritten while
the stores were not yet committed. `handleErr` and kills restore `committed`. The
testnet's blocks are those of `StakingChain` that cannot leave it without its
validator (see the module's comment); the original chain runs all of them, from a
genesis that elects somebody, as CometBFT accepts no other.

**TatcoreApp.** A node: the block store, the committed versions of the module's
store, and the state of the block being executed. `NewApp` is `newApp` and `New`: it loads
the last version and replays the block that was decided but not committed. A
proposal may be executed ahead (`ExecuteProposal`, optimistic execution is turned on
at `app/app.go:190`); a decision of another block drops it. `Kill` is possible at any
moment. `AppExport` loads the height it is asked for, or the latest, which is version 0, an
empty store, on a node that has not committed a block. Params has no fields, so that
a version is "set" or "unset": exporting an unset version panics, also version 0 of a
chain whose genesis sets the parameters, while a query
answers with defaults (`query_params.go`, reads only). When tatcore is left out of an
export of version 0, another module may panic or not, which depends on the modules that
are left; a document without validators starts no chain. The height `0` of `--height`, which
the SDK takes for the latest, and pruning of old versions are left out.

**TatcoreLedger.** Blocks, executed once, and documents: no node, no proposals, no
kills; before the first block no document has a section of tatcore. `TatcoreApp` implements
it with the committed part of the block store as `chain`.

**ProtoWire.** The generated `Unmarshal` of the seven messages and the five copies of
the skipping function are the same text but for the fields they know; they are one
decoder and a schema. It runs byte by byte and keeps every index, check and early
return. `message`, `dAtA`, `iNdEx` and `preIndex` are the frame of the running `Unmarshal`, `callers`
the frames waiting for an embedded message. Sizes are constants (in Go `Base` is 2^7,
`Half` 2^63, `FieldHalf` 2^31, `Fixed32` 4, `Fixed64` 8), so that a model of a few bits meets every
overflow. `Marshal` fills a buffer of `Size` bytes from the back, as the code does.

**ProtoFormat.** The meaning of a buffer, read off without indices or machine integers
by recursive functions: `Meaning` field by field, `AfterField` for unknown fields and
groups, a varint as a sum of its groups by the powers `Pow` of `Base`. Three habits of the generated code are part of it: varints count
modulo 2^64, field numbers modulo 2^32, and the numbers of groups are not compared.

**TestnetFiles.** The variables after `outcome` are the output directory, by node;
those before it are the run's local variables. Each file carries the number of
the run that made its keys and its account, because a run keeps the keys it
finds and replaces accounts. A step is one file written; errors and kills between
steps are `Interrupt`, errors with `os.RemoveAll` are `CleanUp`, writes cut short
are the second disjuncts of `LoadOrGenNodeKey`, `WriteGentx` and `CopyGentx`.

`genutil.InitializeNodeValidatorFiles` (external) is three steps. `LoadOrGenNodeKey` writes
`node_key.json` with `os.WriteFile`: a kill inside it leaves the key `Cut`, which does not parse,
and a later run answers that with `CleanUp`. `LoadOrGenFilePV` and `SaveSignState` rename
`priv_validator_key.json` and then `priv_validator_state.json` into place: a kill between the two
leaves a key whose state cannot be read, over which the process exits (`cmtos.Exit`, outcome
"exited") and removes nothing. Later runs exit at this node in the same way, and the
operator has to delete the key by hand.

`CleanUp` is `os.RemoveAll` with its error dropped (lines 205, 211, 238), many unlinks that may
fail or be killed: it leaves any member of the constant `Remains`, a family of sets of
files (the proofs take any family). `wiped` is a history variable, the run that removed last;
no action reads it.

What `genutil.GenAppStateFromConfig` refuses is `Collectable` (external). Line 326 skips a file also
when `isSubDir` fails; `filepath.Abs` fails only without a working directory, and then every
later file access fails as well, so that the run ends as in `Interrupt`. Addresses other
than ports, the fixed contents of the configuration files, and genesis and
configuration files cut short (a later run replaces them before reading them)
are left out.

**TestnetPromise.** The generator seen from outside: a node's id and its validator key are made
once and never replaced while they are there; only a run that gives up takes keys away,
and it may take any of them (`os.RemoveAll`, wherever it stops); a run that succeeds
leaves each of its nodes with the validators, stakes and peers it was asked for; any
other leaves no testnet. `TestnetFiles` implements it with `nodeId` and `validatorKey` the two
key files, `asked <-` the stakes the run's nodes get, and `testnet <-` what the genesis and
configuration files of a finished run say.

## Runs

| run | question | bounds | result |
|---|---|---|---|
| `ExportRestart` | after any chain, export and restart: types, heights, slashes, balance, reference counts; the export keeps its promise | 2 validators, 2 delegators, one seat, 3 blocks, power 2, 1 token of fees in 2 units, 1 export | pass |
| `ExportAllowList` | which exports panic; who is in the genesis | five allow lists (none, one, all, with an unknown address, with a malformed one), Close may fail, 2 blocks | pass |
| `ExportTwice` | records of a chain that is exported twice | two seats, 2 blocks, 2 exports | pass |
| `ExportJailsPanics` | an allow list of well-formed addresses yields a genesis | as `ExportAllowList` | violated |
| `ExportCloseFails` | a zero-height genesis holds no old height | Close may fail | violated |
| `TestnetRerun` | a run that reports success left a complete testnet; why a run is refused or exits; any sequence of runs, kills and removals keeps the promise | up to 3 nodes, 3 runs, six removals that leave different files, default and explicit ports, stakes default, above the balance, negative | pass |
| `TestnetTypo` | an invalid amount defaults | list of three with the second invalid | violated |
| `TestnetGas` | nodes use the minimum gas prices asked for | two prices | violated |
| `TestnetInPlace` | after any chain, the in-place testnet, given up, killed or repeated: the next block runs, CometBFT and staking agree, rewards are consistent and backed | 2 validators, an address that never had one, one seat, 3 blocks, 2 commands, three account lists (good, blocked, mistyped) | pass |
| `TestnetNoFlag` | without `--accounts-to-fund` nobody is funded and the command goes on | no flag | violated |
| `TatcoreApp` | a node that executes ahead, is killed, replays, exports and starts new chains implements the ledger; decided blocks are committed | 3 heights, two spellings of the authority, another account, a malformed string | pass |
| `WireFormat` | the decoder stays in bounds, advances with every step, ends, and decodes what the buffer means; what is encoded is read back | all buffers of up to four bytes over sixteen values, some longer ones, encodings of six authorities; bytes of 6 bits, ints of 8, field numbers of 4 | pass |

*Bounds.* Two validators suffice for the election to choose and for a
redelegation; one seat makes the election exclude a validator with power. Three
blocks allow a delegation, a slash after it and a validator set change before the
export; a restart resets the height to zero, so that the blocks after it run
within the same bound. Two units per token is the smallest value with a
fraction. One token of fees reaches all three of commission, delegators and
pool. Three nodes give every node two others to copy from and a leftover of a
larger run that concerns neither; three runs are one that writes, one that removes part
of it, and one that finds the rest. `MCRemains` leaves nothing, all files but the keys of
one kind or the sign states, only gentxs and genesis files, or only the first node's
directory: a file without the key it names, a key without its state, and a name no
later run replaces. Two commands of the
in-place testnet are one that is given up, or finished, and one after it; three
addresses let it reuse an operator or bring a new one. Three heights are a
version to export, one that follows it, and a block being executed. A varint of
two bytes holds ten bits, more than an int of eight, so that truncation, negative
lengths and sums that wrap around all happen in buffers of four bytes; field
numbers of four bits wrap to negative ones within one tag; the longer buffers nest
groups and repeat fields. `MaxHeight`, `MaxTokens`, `MaxBalance`, `MaxExports`, `MaxNodes`,
`MaxRuns`, `Remains`, `MaxCommands` and `Moves` are the only bounds. Deadlock is not an error in these
runs: a chain at its last height, a panic, a decoded buffer and the last run of the
generator are ends.

*Properties.* `NoFutureHeights`, `SlashesSeen`, `FullyBacked` and
`HistoryConsistent` are what the SDK's keepers rely on when the next chain
withdraws, slashes or starts. `ImplementsPromise` is the refinement of `ExportPromise`:
no step of an export changes tokens, delegations or bond status, and what is
written is for the right height. `PanicsAreAllowListed` and
`GenesisIsElected` bound what the allow list can do. `CompleteTestnet` ties the
genesis files of a finished run to the keys, accounts and seeds in the nodes'
directories; `GentxsBelong` holds of the directory at any moment, also between
interrupted runs: a genesis file names validators with a balance in it, and, if it was
written after the last removal, with the keys of their nodes; `RejectionsExplained` says that
leftovers are refused only when they are of nodes the run does not have, or of an
identity that a removal took while it left the file; `StuckKeysUnused` that a validator key
without its sign state, over which runs exit, was made by a run that declared no validator
with it: no gentx and no genesis file since the last removal names it, so that deleting it
by hand breaks no testnet; `OneHost` says
that the nodes' listeners have distinct ports between 1 and 65535 and that peers
know them (the profiler's address, which all nodes take from the one configuration object, is not
one of the six: a node that finds it taken logs that and goes on); `ImplementsTestnet` is the refinement of `TestnetPromise`, over all runs. Of the in-place testnet, `NextBlockRuns` collects the lookups that halt a
chain when they fail, `CometAgrees` ties CometBFT's set to the elected validators
after every block, `RecordsConsistent` and `StillBacked` say what becomes of the removed
validators' rewards, and `OnlyTornNodesHalt` which interrupted commands leave a node that
cannot start. `ImplementsLedger` and `PanicsExplained` say which state an export writes
and when it panics; `DecidedCommitted` that a node that stays up commits what was
decided. `DecodesMeaning` compares every outcome of the decoder with `ProtoFormat`,
`RoundTrip` the encoder with the decoder; `InBounds`, `DecodeEnds` and `DecodeAdvances` need no
reference. `DecodeAdvances` is the reason why every call ends: each step makes the tuple `Variant`
of natural numbers smaller in the lexicographic order, or ends the call. Its elements are
the bytes behind the current field in this buffer and in the caller's (`Remaining`), the callers,
whether the field is still to be skipped, the bytes behind the index (`Index`), and the steps
that follow without reading one. It refuses what `DecodeEnds` accepts: a decoder that ends but
reads bytes twice, such as one that resumes before the embedded message it has decoded.

*Fairness.* `DecodeEnds` assumes that a function call goes on. `DecidedCommitted` assumes weak
fairness of what a running node does by itself (`Node`: InitChain, execution, commit), and
nothing of proposals, decisions and restarts. No fairness is assumed of blocks,
operators or failures. That the export and the generator end is not stated: their loops
run over slices that were read once.

## What disagrees with the documentation

- A zero-height export with an allow list panics whenever a validator that
  is not on it is among those the validator set update visits: the validator is
  saved as jailed but stays in the power index (`app/export.go:224`, `:237`). With
  every visited validator on the list it works. (`AllowListExports`)
- After a failing `iter.Close` the preparation returns without the validator set
  update and without resetting signing infos, and the export goes on
  (`app/export.go:234`). (`FreshStart`)
- An invalid entry in `--validators-stake-amount` shifts the following ones instead
  of defaulting (`testnet_multi_node.go:104`, `:109`). (`InvalidStakesDefault`)
- `--minimum-gas-prices` of `multi-node` has no effect (`testnet_multi_node.go:178`,
  `:180`). (`MinGasPricesTaken`)
- `in-place-testnet` without `--accounts-to-fund` exits with an address error, although
  the flag's default is empty (`testnet.go:56`, `:224`). (`NoAccountsNeeded`)

Noticed and not run: the help of `--starting-ip-address` describes other
addresses and ports than line 215 writes; the example at line 80 stakes
less than one unit of power for three of its four validators; the comment in
`app_config.go` on accounts that may receive funds names one where three are not
blocked; an operator that already had a validator keeps its old historical
rewards, slash events and delegations under an in-place testnet (`testnet.go:160`);
a kill after the server rewrote CometBFT's database and before the first commit
leaves a node that only the same command can start (`torn`); a zero-height export
of an in-place testnet panics when delegations to removed validators are left
(`export.go:159`); exporting `x/tatcore` before its parameters were set panics while a query
answers with defaults; so does an export before the first commit, although the genesis sets
them; a multi-node run that is killed between a validator key and its sign state
(`testnet_multi_node.go:209`) makes later runs exit without a hint to the directory, and one that
fails may remove only part of it without saying so (`:205`, `:211`, `:238`); `BlockedAddresses` returns module names where its comment says addresses.

## Proofs

TLAPS proves, for all constants that satisfy `UnitAssumption`, `ChainAssumption` and
`ExportAssumption` (any number of validators and delegators, any bounds, any allow
lists):

- `TypeCorrect`: `Spec => []TypeOK`. The type of the keeper contains that commission and
  current rewards never exceed what is outstanding, and that the pool and the
  reference counts are natural numbers.
- `HeightsStayPast`: `Spec => []NoFutureHeights`.
- `NoSlashIsMissed`: `Spec => []SlashesSeen`.
- `PreparedExportsStartFresh`: `Spec => [](prepared => FreshStart)`: the only way to violate
  `FreshStart` is the early return.
- `ExportsKeepPromise`: `Spec => ImplementsPromise`, the refinement of `ExportPromise`, step by step:
  a phase of the export maps to a stutter, its last one to `Write`.

`NoFutureHeights` speaks of a running chain, and is not inductive: the chain starts
from what an export left. The inductive invariant `IInv` says for every phase of
the export what is already rebased. `PhaseInv`: the context's height in each phase.
`RebaseInv`: slash events are gone from the phase after `ClearHistory` on, starting
heights are zero for the delegations already restarted, then for all, and so on
for every kind of height. `HeightInv`: the history of the running chain (`History`:
starts and slash events lie in the past, slash periods before the current
period, slashes after a start at or above its height). `BondInv`: the bonded
validators are the elected ones of the index, which is why the validator set
update at the end of a preparation unbonds and bonds nobody and writes no new
height. TLC checked `IInv` on the runs' instances first.

`StakingChainProofs` has one lemma per keeper operation, stating its effect on
every record, and lifts them to blocks; `ZeroHeightExportProofs` lifts them to
phases, and the proof that a step keeps `IInv` has one step per action.

- `GenesisElectsItsValidators` (`GenesisProofs`): `Spec => []GenesisIsElected`, where the set of
  validators is finite (part of `ChainAssumption`).

The export elects from the old power index, the next chain from the validators
that are not jailed; with an allow list these differ. `FilterInv` says that the list
only ever takes validators away and that, once the validator set update has been
passed, no jailed validator was scanned. `UnscannedDoNotMatter` is the argument: the
scanned validators are the first ones of a linear order, so that taking others away
neither removes a scanned validator nor makes room for another. It needs the first
validator that is not scanned (`FirstOf`), which exists because the set is finite.

`GenesisProofs` also proves what the records of the distribution module add up to:

- `AccountsBalance`: `Spec => []FullyBacked`.
- `RecordsStayTallied`: `Spec => []HistoryConsistent`.
- `OnlyAllowListsPanic`: `Spec => []PanicsAreAllowListed`.

`FullyBacked` is inductive with the types: each keeper operation moves an amount between
the account, one validator's outstanding rewards and the pool. `HistoryConsistent` speaks
of a running chain and of a genesis; in between, the export tears the references down
and builds them up. `RecordsInv` says which are there in each phase: `Restarted` are the
delegations that start at a recorded period, `Emptied` the validators without any
record, and each of the others has one reference for its current period, one per
slash and one per restarted delegation. Its consequence is that a withdrawal finds the
period it starts from and no count falls below zero, so that these panics of the keepers
cannot be reached. `PanicInv` lists what remains: an address of the allow list that does not
parse, and a validator in the power index that the list jailed (`JailedByList`). It uses
`AccountsBalance` for the genesis, `RecordsStayTallied` for the records and `FilterInv` for
the jailed validators.

The sums over validators and the cardinalities of bags are those of the community
and standard modules. The library proves nothing of them that could be cited
here, as its induction theorems take an operator as a parameter. `SumProofs` argues by
the smallest counterexample instead: a set of subsets that holds a set when it holds
it without each of its elements holds every finite set (`SubsetInduction`). From that
follow what a changed summand does to a total (`Total...`) and what one more or one
fewer reference does to a bag (`AddCopy`, `DropCopy`).

Of the generator, `TestnetFilesProofs` proves for all constants that satisfy
`TestnetAssumption` (any number of nodes and runs, any flags, whatever removals leave):

- `TypeCorrect`: `Spec => []TypeOK`.
- `FinishedIsComplete`: `Spec => []CompleteTestnet`.
- `GentxsAlwaysBelong`: `Spec => []GentxsBelong`.
- `StuckKeysStayUnused`: `Spec => []StuckKeysUnused`.
- `RejectionsAreExplained`: `Spec => []RejectionsExplained`.
- `RunsKeepPromise`: `Spec => ImplementsTestnet`, the refinement of `TestnetPromise`, step by step:
  making a key maps to `Identify`, the end of the collecting loop to `Deliver`, `CleanUp` to `Remove`,
  every error and kill to `Fail`, and writing the other files to stutters. That what is
  delivered is what was asked for is `Collected` and `Prepared` of the invariant (`NetworkAsked`).
- `RunsOnOneHost`: `Spec => []OneHost`, where `MaxNodes =< 1317`. The hypothesis is needed:
  the API port counts down from 1317, and the 1318th node would get port zero.

`CompleteTestnet` speaks of the end of a run only. The inductive invariant `IInv` of
`TestnetFiles` says what is in place before it. `DiskInv` holds at any time: a
directory has at most one file per node and id, and gentxs and genesis files whose
account was made after the last removal name a key that is on disk with its sign
state (`Signable`), because a key, once made, is kept. `RunInv` holds during a run, whose
number is above `wiped`: the gentxs of its accounts are the ones it has written itself, so that
what removals left cannot pass for them. `WritingInv`,
`CopyingInv` and `CollectingInv` say for each loop what it has done for the nodes it has
visited. The argument where they meet is `CollectedAreAll`: `CollectTxs` takes only
files of accounts with a balance, which are this run's, and those are `RunInv`'s, so that
leftovers are either replaced or end the run; `RefusedIsExplained` is its converse: a file of
a node of this run has the id on disk, and was then replaced by this run's, or an id
that a removal took. `IInv` was checked by TLC on `TestnetRerun` first. The proof has
one lemma per action.

Of the in-place testnet, `InPlaceTestnetProofs` proves for all constants that satisfy
`ChainAssumption` and `TestnetAssumption` (any validators, any number of uses of the command):

- `TypeCorrect`: `Spec => []TypeOK`.
- `BlocksFindTheirRecords`: `Spec => []NextBlockRuns`.
- `CometFollowsStaking`: `Spec => []CometAgrees`.
- `HaltsAreTorn`: `Spec => []OnlyTornNodesHalt`.
- `NewRecordsStayTallied`: `Spec => []RecordsConsistent`.
- `TestnetStaysBacked`: `Spec => []StillBacked`.

The middle three speak of states in which blocks run; a crash brings back stores that
were written long before. So `IInv` speaks of the committed stores: `Saved` says that
every lookup of a block succeeds in them and that the last powers are the tokens.
`EmptiedInv` and `AddedInv` say what the command has done to the stores in memory, and
give `LookupsSucceed` when it has finished (`PreparedLookups`). `CometInv` ties CometBFT's
validators to the committed stores, or, when they are torn, to the testnet's key; the
original chain does not know that key (`StartNodeInv`), a committed testnet does. A
commit sends CometBFT the differences to the last powers, which is enough if these
were right or zero (`CommitUpdatesComet`): zero is what `testnet.go:153` writes. TLC
checked `IInv` on the run's instance first.

The last two rest on `RecordsInv`, which holds the same of the stores in memory and of the
committed ones: a validator's references are tallied, or its address never had a
validator; nothing is owed by an unused address; and the account backs what everybody
is owed, the removed validators too. The command breaks neither for a fresh operator,
as it starts from empty records (`Fresh`). Operators that had a validator before are
collected in `reused` and are exempt: `testnet.go:160` overwrites four of their records and
keeps the others, see the hazards.

Of the node, `TatcoreAppProofs` proves for all constants that satisfy `AppAssumption` (any
accounts, strings, configured authority, any height):

- `TypeCorrect`: `Spec => []TypeOK`.
- `PanicsAreExplained`: `Spec => []PanicsExplained`.
- `NodeImplementsLedger`: `Spec => ImplementsLedger`.

The invariant `IInv` says that version n is what the first n decided blocks leave,
that a proposal is only ever executed on the last version, and that the state
about to be committed is that of the decided block. An export finds version 0 only where
nothing was committed (`LoadsVersion`), and what it writes with the section of tatcore is a
version that has parameters (`ExportsWritten`). Then a commit is the ledger's
`AddBlock`, an export its `Export`, and everything else a stutter.

Of the codec, `ProtoWireProofs` proves for all constants that satisfy `WireAssumption`,
`LengthAssumption`, `MessageAssumption` and `TagAssumption` (any width of a byte, an int and a field number, Go's
among them, in which the tags the code writes fit, and any buffers and authorities shorter
than `Half`):

- `TypeCorrect`: `Spec => []TypeOK`.
- `DecoderStaysInBounds`: `Spec => []InBounds`.
- `DecoderFindsMeaning`: `Spec => []DecodesMeaning`.
- `MarshalReadBack`: `Spec => []RoundTrip`.
- `DecoderAdvances`: `Spec => DecodeAdvances`.

For bounds the argument is `NoWrap`: two ints below `Half` whose wrapped sum is not negative did not
wrap. So a length that passes the two checks of the code ends inside the buffer
at or after the index (`LengthInSlice`). For the skipping function the invariant adds
that `iNdEx` was set back to the tag, and that its own index is not negative where
it reads.

That the decoder finds the meaning is one equation: what it has still to do, as the
reference sees it, is at every step what the whole buffer means (`MeaningInv`:
`Whole = Settled(Own)`). `Own` is the meaning of the unread rest of the message that is
being decoded, `Settled` what a caller makes of it (`FramesInv`: only `Params` is embedded,
so that there is at most one). Each program counter refines it: `ReadAt` and
`VarintIs` say how far a varint is read and what it is worth, modulo the word and with
the groups that are cut off; `KnownInv` what a length will take; `SkipInv` what is left of an
unknown field within open groups; `EndInv` that an end is the whole meaning. TLC
checked `MeaningInv` on an instance of the run first.

A recursive function is a `CHOOSE`, of which nothing is known until some function is
shown to satisfy its equation. For `Pow`, `AfterField` and `Meaning` one does because each
recursive call is for a shorter argument (`RecursionExists` of `SumProofs`, again by the
smallest counterexample), which gives the equations that the proofs use
(`PowUnfolds`, `AfterFieldUnfolds`, `MeaningUnfolds`).

`MarshalReadBack` then needs no decoder: it is enough that the reference reads in the
content what was written (`ContentMeans`). `VarintOfEncoded` says it of a varint, from the
digits of a number (`PowSplits`); `SovCounts` that the size function counts the
groups; `MarshalIsContent` that the buffer allocated by `Size` is filled exactly.

`DecoderAdvances` needs that a field ends behind its tag. `ProgressInv` adds to the two invariants
that from the end of a tag on `iNdEx` is above `preIndex`, and that `skipTx` never returns 0: its own
index moves forward, or wraps around and is refused in the next step (`SkipMoves`). One lemma per
action then names the element of the variant that falls (`Falls`, `FieldFalls`).

Model-checked only are the liveness properties `DecodeEnds` and `DecidedCommitted`, which are out of the prover's reach; of `DecodeEnds`, what remains to TLC is that
a step is always possible and is taken, as the variant is proved. All other properties of passing
runs are theorems.

## Plan

1. Done: `Distribution`, `StakingChain`, `ZeroHeightExport`, `TestnetFiles`, their runs and theorems;
   `InPlaceTestnet`; `TatcoreApp` with the export command at any height, refined to
   `TatcoreLedger`; `ProtoWire` against `ProtoFormat`; `ExportPromise` and `TestnetPromise` and the proofs
   that the export and the generator implement them.
2. Done: the proofs of every invariant, of the three refinements and of the action property that
   the runs check.
3. New validators (`MsgCreateValidator`) in `StakingChain`, and the operator's own
   delegation leaving an in-place testnet.

## Not modelled

- Module orders, account permissions, blocked addresses and IBC routes
  (`app_config.go`, `ibc.go`): fixed lists without behaviour of their own; that every module
  appears where the SDK needs it is checked by the SDK when the application is
  built. `StakingChain` runs one operation in a block, so that the order of the begin
  blockers within a block does not show in it.
- `genesis_account.go`: a pure validation function that nothing in the repository calls.
- `main.go`, `root.go`, `config.go`: registration of commands and option defaults.
- `docs/`, `config.yml`, `Makefile`: static data and pure I/O.
- The registration, descriptors and gRPC stubs in `*.pb.go`: tables of the generator.
