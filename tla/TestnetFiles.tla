---------------------------- MODULE TestnetFiles ----------------------------
(***************************************************************************)
(* cmd/testnet_multi_node.go: `multi-node`, the command that writes the    *)
(* directories of a testnet of v validators below one output directory.    *)
(*                                                                         *)
(* The directory outlives the command: a run finds the keys, transactions  *)
(* and genesis files of earlier runs, also of runs that an error or a kill *)
(* cut short, or that gave up and removed as much of it as they could.     *)
(* The state is therefore that of the disk, node by node, and the local    *)
(* variables of the run in progress.  A run gives every node a new account *)
(* but keeps the keys it finds, so files carry the number of the run that  *)
(* made their keys and their account; 0 is no file.                        *)
(***************************************************************************)
EXTENDS Integers, Sequences, FiniteSets

CONSTANTS
    MaxNodes,    \* bound: nodes of a testnet
    MaxRuns,     \* bound: runs of the command on one output directory
    StakeLists,  \* values of --validators-stake-amount, sequences of amounts
    PortLists,   \* values of --list-ports, << >> where it is left out
    GasPrices,   \* values of --minimum-gas-prices
    DefaultGas,  \* "0.0001stake"
    Invalid,     \* an entry of a stake list that is no number
    Remains      \* bound: what a removal that fails or is killed may leave

ASSUME TestnetAssumption ==
    /\ MaxNodes \in Nat
    /\ MaxRuns \in Nat
    /\ Invalid \notin Int
    /\ StakeLists \subseteq Seq(Int \cup {Invalid})
    /\ PortLists \subseteq Seq(Nat)
    /\ DefaultGas \in GasPrices

VARIABLES
    pc,       \* what the command does next; "idle" between runs
    run,      \* number of the last run
    nodes,    \* args.numValidators
    stakes,   \* the entries of --validators-stake-amount, an argument of the run
    ports,    \* args.ports, indexed from 1
    gas,      \* args.minGasPrices
    node,     \* i, the node the current loop has reached
    file,     \* index in gentxsFiles the copying loop has reached
    appState, \* the gentxs of the canonical appState of collectGenFiles
    outcome   \* how the last run ended

VARIABLES           \* the output directory, a function of the node directory each
    nodeKeys,       \* config/node_key.json, Cut where its writing was cut short
    validatorKeys,  \* config/priv_validator_key.json
    signStates,     \* whether data/priv_validator_state.json exists
    accounts,       \* the keyring's key
    seeds,          \* key_seed.json
    gentxs,         \* config/gentx/
    genesis,        \* config/genesis.json
    config,         \* config/config.toml
    appToml         \* config/app.toml

\* A history variable, which no action reads.
VARIABLE wiped      \* the last run that removed the directory, or part of it; 0 if none

args == <<nodes, stakes, ports, gas>>
local == <<run, args, appState>>
identities == <<nodeKeys, validatorKeys, signStates>>
keyFiles == <<identities, accounts, seeds>>
netFiles == <<genesis, config, appToml>>
disk == <<keyFiles, gentxs, netFiles>>
vars == <<pc, local, node, file, outcome, disk, wiped>>

Cut == -1

Nodes == 0 .. MaxNodes - 1
RunNodes == 0 .. nodes - 1
PowerReduction == 1000000
AccStakingTokens == 500 * PowerReduction
DefaultStake == 100 * PowerReduction

P2PPort(n) == 26656 - 3 * n
DefaultRPCPort(n) == 26657 - 3 * n
ProxyPort(n) == 26658 - 3 * n
\* Mutant of PrometheusPort: counted down, like the other ports of a node.
PrometheusBelow(n) == 26660 - n
PrometheusPort(n) == 26660 + n
GRPCPort(n) == 9090 - 2 * n
APIPort(n) == 1317 - n

NoGenesis == [run |-> 0, nodes |-> 0, gentxs |-> {}]
NoConfig == [p2p |-> 0, rpc |-> 0, proxy |-> 0, prometheus |-> 0, peers |-> {}]
NoAppToml == [grpc |-> 0, api |-> 0, minGas |-> DefaultGas]

\* An argument list shorter than the nodes leaves the map without an entry.
EntryOr(list, n, default) == IF n + 1 \in DOMAIN list THEN list[n + 1] ELSE default

\* Entries that are no number are left out, which moves the later ones forward.
ParseStakes(list) == SelectSeq(list, LAMBDA a : a # Invalid)

ParsePorts(list, v) ==
    IF list = << >> THEN [k \in 1 .. v |-> DefaultRPCPort(k - 1)] ELSE list

StakeOf(n) == EntryOr(ParseStakes(stakes), n, DefaultStake)

\* A map that misses the node yields "", and the address then has no port: any free one.
RPCPort(n) == EntryOr(ports, n, 0)

\* The file is named after the node's id, so it replaces one of the same key only.
Put(files, g) == {h \in files : <<h.node, h.id>> # <<g.node, g.id>>} \cup {g}

Gentx(n) == [node |-> n, id |-> nodeKeys[n], key |-> validatorKeys[n], account |-> run,
             stake |-> StakeOf(n)]
Torn(n) == [node |-> n, id |-> nodeKeys[n], key |-> 0, account |-> 0, stake |-> 0]

\* appConfig.BaseConfig.MinGasPrices is the field the argument was stored in.
AppToml(n) == [grpc |-> GRPCPort(n), api |-> APIPort(n), minGas |-> DefaultGas]

Peer(n) == [node |-> n, id |-> nodeKeys[n], port |-> P2PPort(n)]

NodeConfig(n) == [p2p |-> P2PPort(n), rpc |-> RPCPort(n), proxy |-> ProxyPort(n),
                  prometheus |-> PrometheusPort(n),
                  peers |-> {Peer(m) : m \in RunNodes}]

\* The accounts with a balance in a genesis file.
Funded(g) == {<<n, g.run>> : n \in 0 .. g.nodes - 1}

\* More than the stake that initGenFiles funds every account with.
AboveBalance(t) == t.stake > AccStakingTokens

\* genutil.CollectTxs takes a file of the gentx directory.
Collectable(t, g) ==
    /\ t.account # 0
    /\ <<t.node, t.account>> \in Funded(g)
    /\ ~AboveBalance(t)

AreGentxs(files) ==
    \A t \in files :
        /\ t.node \in Nodes
        /\ t.id \in 1 .. MaxRuns
        /\ t.key \in 0 .. MaxRuns
        /\ t.account \in 0 .. MaxRuns

TypeOK ==
    /\ pc \in {"idle", "files", "validator", "state", "key", "seed", "gentx", "app",
               "genesis", "copy", "collect", "overwrite"}
    /\ outcome \in {"none", "done", "failed", "exited", "cleaned", "rejected", "panicked"}
    /\ run \in 0 .. MaxRuns
    /\ wiped \in 0 .. run
    /\ nodes \in 0 .. MaxNodes
    /\ node \in 0 .. MaxNodes
    /\ file \in 0 .. MaxNodes
    /\ nodeKeys \in [Nodes -> {Cut} \cup (0 .. MaxRuns)]
    /\ validatorKeys \in [Nodes -> 0 .. MaxRuns]
    /\ signStates \in [Nodes -> BOOLEAN]
    /\ accounts \in [Nodes -> 0 .. MaxRuns]
    /\ seeds \in [Nodes -> 0 .. MaxRuns]
    /\ DOMAIN gentxs = Nodes
    /\ DOMAIN genesis = Nodes
    /\ DOMAIN config = Nodes
    /\ DOMAIN appToml = Nodes
    /\ \A n \in Nodes : AreGentxs(gentxs[n]) /\ AreGentxs(genesis[n].gentxs)
    /\ AreGentxs(appState)

-----------------------------------------------------------------------------
(* The command. *)

Exit(result) == /\ pc' = "idle"
                /\ outcome' = result
                /\ UNCHANGED <<local, node, file>>
End(result) == Exit(result) /\ UNCHANGED wiped

\* The step of a loop body: an error returns and leaves the files, and so does a kill.
At(label) == pc = label /\ node < nodes
Continue(label) == pc' = label /\ UNCHANGED <<local, node, file, outcome, wiped>>
Advance(label) ==
    pc' = label /\ node' = node + 1 /\ UNCHANGED <<local, file, outcome, wiped>>

\* A loop has visited every node.
LoopEnd(label, next) == /\ pc = label
                        /\ node = nodes
                        /\ next
                        /\ node' = 0
                        /\ UNCHANGED <<local, file, disk, wiped>>

\* RunE: a negative amount panics in sdk.NewCoin before anything is written.
RunE(v, stakeList, portList, price) ==
    /\ pc = "idle"
    /\ run < MaxRuns
    /\ run' = run + 1
    /\ nodes' = v
    /\ stakes' = stakeList
    /\ ports' = ParsePorts(portList, v)
    /\ gas' = price
    /\ node' = 0
    /\ file' = 0
    /\ appState' = {}
    /\ IF \E k \in DOMAIN ParseStakes(stakeList) : ParseStakes(stakeList)[k] < 0
       THEN pc' = "idle" /\ outcome' = "panicked"
       ELSE pc' = "files" /\ outcome' = "none"
    /\ UNCHANGED <<disk, wiped>>

\* Mutant of LoadOrGenNodeKey: the file is left to the node's first start.
LeaveNodeKey ==
    /\ At("files")
    /\ Continue("validator")
    /\ UNCHANGED disk

\* Mutant of LoadOrGenNodeKey: every run makes a new key, also where one is there.
RenewNodeKey ==
    /\ At("files")
    /\ nodeKeys' = [nodeKeys EXCEPT ![node] = run]
    /\ Continue("validator")
    /\ UNCHANGED <<validatorKeys, signStates, accounts, seeds, gentxs, netFiles>>

\* genutil.InitializeNodeValidatorFiles, first p2p.LoadOrGenNodeKey: a key that is
\* there is kept.  os.WriteFile may stop half way, and such a file does not parse.
LoadOrGenNodeKey ==
    /\ At("files")
    /\ \/ /\ nodeKeys[node] # Cut
          /\ nodeKeys' = [nodeKeys EXCEPT ![node] = IF @ = 0 THEN run ELSE @]
          /\ Continue("validator")
       \/ /\ nodeKeys[node] = 0
          /\ nodeKeys' = [nodeKeys EXCEPT ![node] = Cut]
          /\ Continue("files")
    /\ UNCHANGED <<validatorKeys, signStates, accounts, seeds, gentxs, netFiles>>

\* Mutant of LoadOrGenFilePV: every run makes a new key.
RenewKey ==
    /\ At("validator")
    /\ validatorKeys' = [validatorKeys EXCEPT ![node] = run]
    /\ Continue("state")
    /\ UNCHANGED <<nodeKeys, signStates, accounts, seeds, gentxs, netFiles>>

\* Mutant of LoadOrGenFilePV: the sign state is left to the node's first start.
LeaveSignState ==
    /\ At("validator")
    /\ validatorKeys' = [validatorKeys EXCEPT ![node] = IF @ = 0 THEN run ELSE @]
    /\ Continue("key")
    /\ UNCHANGED <<nodeKeys, signStates, accounts, seeds, gentxs, netFiles>>

\* Then privval.LoadOrGenFilePV, whose files are renamed into place.  A key that is
\* there is kept, but without its state the process exits, and cleans up nothing.
LoadOrGenFilePV ==
    /\ At("validator")
    /\ IF validatorKeys[node] = 0
       THEN validatorKeys' = [validatorKeys EXCEPT ![node] = run] /\ Continue("state")
       ELSE /\ IF signStates[node] THEN Continue("key") ELSE End("exited")
            /\ UNCHANGED validatorKeys
    /\ UNCHANGED <<nodeKeys, signStates, accounts, seeds, gentxs, netFiles>>

SaveSignState ==
    /\ At("state")
    /\ signStates' = [signStates EXCEPT ![node] = TRUE]
    /\ Continue("key")
    /\ UNCHANGED <<nodeKeys, validatorKeys, accounts, seeds, gentxs, netFiles>>

\* keyring.New and GenerateSaveCoinKey, which replaces the key of that name.
SaveKey ==
    /\ At("key")
    /\ accounts' = [accounts EXCEPT ![node] = run]
    /\ Continue("seed")
    /\ UNCHANGED <<identities, seeds, gentxs, netFiles>>

\* Mutant of WriteSeed: a seed file that is there is kept.
KeepSeed ==
    /\ At("seed")
    /\ seeds' = [seeds EXCEPT ![node] = IF @ = 0 THEN run ELSE @]
    /\ Continue("gentx")
    /\ UNCHANGED <<identities, accounts, gentxs, netFiles>>

WriteSeed ==
    /\ At("seed")
    /\ seeds' = [seeds EXCEPT ![node] = run]
    /\ Continue("gentx")
    /\ UNCHANGED <<identities, accounts, gentxs, netFiles>>

\* os.RemoveAll goes on after an entry it cannot remove, and its error is dropped: a
\* failure or a kill leaves any rest.
RemoveAll(rest) ==
    /\ nodeKeys' = [n \in Nodes |-> IF <<n, "node_key">> \in rest THEN nodeKeys[n] ELSE 0]
    /\ validatorKeys' =
           [n \in Nodes |-> IF <<n, "validator_key">> \in rest THEN validatorKeys[n] ELSE 0]
    /\ signStates' = [n \in Nodes |-> <<n, "sign_state">> \in rest /\ signStates[n]]
    /\ accounts' = [n \in Nodes |-> IF <<n, "account">> \in rest THEN accounts[n] ELSE 0]
    /\ seeds' = [n \in Nodes |-> IF <<n, "seed">> \in rest THEN seeds[n] ELSE 0]
    /\ gentxs' = [n \in Nodes |-> {t \in gentxs[n] : <<n, t.node, t.id>> \in rest}]
    /\ genesis' = [n \in Nodes |-> IF <<n, "genesis">> \in rest THEN genesis[n] ELSE NoGenesis]
    /\ config' = [n \in Nodes |-> IF <<n, "config">> \in rest THEN config[n] ELSE NoConfig]
    /\ appToml' = [n \in Nodes |-> IF <<n, "app">> \in rest THEN appToml[n] ELSE NoAppToml]

\* The failures of the first loop that the code answers with os.RemoveAll: of MkdirAll
\* and InitializeNodeValidatorFiles, and of GenerateSaveCoinKey.
CleanUp ==
    /\ At("files") \/ At("validator") \/ At("key")
    /\ \E rest \in Remains : RemoveAll(rest)
    /\ wiped' = run
    /\ Exit("cleaned")

\* The signed MsgCreateValidator of the node; writeFile may leave it cut short.
WriteGentx ==
    /\ At("gentx")
    /\ \/ /\ gentxs' = [gentxs EXCEPT ![node] = Put(@, Gentx(node))]
          /\ Continue("app")
       \/ /\ gentxs' = [gentxs EXCEPT ![node] = Put(@, Torn(node))]
          /\ End("failed")
    /\ UNCHANGED <<keyFiles, netFiles>>

WriteAppToml ==
    /\ At("app")
    /\ appToml' = [appToml EXCEPT ![node] = AppToml(node)]
    /\ Advance("files")
    /\ UNCHANGED <<keyFiles, gentxs, genesis, config>>

\* initGenFiles: the accounts of this run, no gentx yet.
InitGenFile ==
    /\ At("genesis")
    /\ genesis' = [genesis EXCEPT ![node] = [run |-> run, nodes |-> nodes, gentxs |-> {}]]
    /\ Advance("genesis")
    /\ UNCHANGED <<keyFiles, gentxs, config, appToml>>

\* Mutant of CopyGentx: a file of that name is taken for the copy.
CopyMissing ==
    /\ At("copy")
    /\ file < nodes /\ file # node
    /\ gentxs' = [gentxs EXCEPT ![node] =
           @ \cup {t \in gentxs[file] : t.node = file /\ \A u \in @ : u.node # file}]
    /\ file' = file + 1
    /\ UNCHANGED <<pc, local, node, outcome, keyFiles, netFiles, wiped>>

\* isSubDir: the node's own file is in place already.  Its error, which skips the file
\* as well, means that the working directory is gone: the run then fails, as in
\* Interrupt, for it can no longer open any file.
SkipOwnGentx ==
    /\ At("copy")
    /\ file = node
    /\ file' = file + 1
    /\ UNCHANGED <<pc, local, node, outcome, disk, wiped>>

\* copyFile truncates the target before it copies.
CopyGentx ==
    /\ At("copy")
    /\ file < nodes /\ file # node
    /\ \/ /\ \E t \in gentxs[file] :
                /\ t.node = file /\ t.id = nodeKeys[file]
                /\ gentxs' = [gentxs EXCEPT ![node] = Put(@, t)]
          /\ file' = file + 1
          /\ UNCHANGED <<pc, local, node, outcome, wiped>>
       \/ /\ gentxs' = [gentxs EXCEPT ![node] = Put(@, Torn(file))]
          /\ End("failed")
    /\ UNCHANGED <<keyFiles, netFiles>>

NextCopy ==
    /\ At("copy")
    /\ file = nodes
    /\ file' = 0
    /\ node' = node + 1
    /\ UNCHANGED <<pc, local, outcome, disk, wiped>>

\* GenAppStateFromConfig on the node's directory, then the node's config.toml.
CollectGentxs ==
    /\ At("collect")
    /\ \A t \in gentxs[node] : Collectable(t, genesis[node])
    /\ gentxs[node] # {}
    /\ genesis' = [genesis EXCEPT ![node] =
           [run |-> @.run, nodes |-> @.nodes, gentxs |-> gentxs[node]]]
    /\ config' = [config EXCEPT ![node] = NodeConfig(node)]
    /\ appState' = IF node = 0 THEN gentxs[node] ELSE appState
    /\ pc' = "overwrite"
    /\ UNCHANGED <<run, args, node, file, outcome, keyFiles, gentxs, appToml, wiped>>

\* A file that CollectTxs refuses ends the run, without cleaning up.
RejectGentxs ==
    /\ At("collect")
    /\ \E t \in gentxs[node] : ~Collectable(t, genesis[node])
    /\ End("rejected")
    /\ UNCHANGED disk

\* ExportGenesisFileWithTime: the first node's state for every node.
OverwriteGenesis ==
    /\ At("overwrite")
    /\ genesis' = [genesis EXCEPT ![node] =
           [run |-> run, nodes |-> nodes, gentxs |-> appState]]
    /\ Advance("collect")
    /\ UNCHANGED <<keyFiles, gentxs, config, appToml>>

NextLoop ==
    \/ LoopEnd("files", pc' = "genesis" /\ UNCHANGED outcome)
    \/ LoopEnd("genesis", pc' = "copy" /\ UNCHANGED outcome)
    \/ LoopEnd("copy", pc' = "collect" /\ UNCHANGED outcome)
    \/ LoopEnd("collect", pc' = "idle" /\ outcome' = "done")

Step == \/ LoadOrGenNodeKey \/ LoadOrGenFilePV \/ SaveSignState
        \/ SaveKey \/ WriteSeed \/ WriteGentx \/ WriteAppToml
        \/ InitGenFile \/ SkipOwnGentx \/ CopyGentx \/ NextCopy
        \/ CollectGentxs \/ RejectGentxs \/ OverwriteGenesis \/ NextLoop

\* An error the code returns, or a kill, between two steps.
Interrupt ==
    /\ pc # "idle"
    /\ End("failed")
    /\ UNCHANGED disk

Init ==
    /\ pc = "idle" /\ run = 0
    /\ nodes = 0 /\ stakes = << >> /\ ports = << >> /\ gas = DefaultGas
    /\ node = 0 /\ file = 0 /\ appState = {} /\ outcome = "none"
    /\ nodeKeys = [n \in Nodes |-> 0]
    /\ validatorKeys = [n \in Nodes |-> 0]
    /\ signStates = [n \in Nodes |-> FALSE]
    /\ accounts = [n \in Nodes |-> 0]
    /\ seeds = [n \in Nodes |-> 0]
    /\ gentxs = [n \in Nodes |-> {}]
    /\ genesis = [n \in Nodes |-> NoGenesis]
    /\ config = [n \in Nodes |-> NoConfig]
    /\ appToml = [n \in Nodes |-> NoAppToml]
    /\ wiped = 0

Start == \E v \in 0 .. MaxNodes, stakeList \in StakeLists, portList \in PortLists,
             price \in GasPrices : RunE(v, stakeList, portList, price)

Next == Start \/ Step \/ CleanUp \/ Interrupt

Spec == Init /\ [][Next]_vars

-----------------------------------------------------------------------------
(* Properties. *)

Finished == pc = "idle" /\ outcome = "done"

\* "Successfully initialized": all nodes got the same genesis file, its validators are
\* exactly this run's nodes with the keys in their directories, each node can start with
\* them, and it can sign for its account with the seed it keeps.  Whatever interrupted or
\* larger run, or removal that stopped half way, used the directory before.
CompleteTestnet ==
    Finished => \A n \in RunNodes :
        /\ genesis[n] = [run |-> run, nodes |-> nodes,
                         gentxs |-> {Gentx(m) : m \in RunNodes}]
        /\ nodeKeys[n] > 0 /\ validatorKeys[n] > 0 /\ signStates[n]
        /\ accounts[n] = run
        /\ seeds[n] = run

\* No run, finished or cut short, leaves a genesis file with a validator that has no
\* balance in it, nor, until a run removes what it can of the directory, one whose keys
\* are not its node's.
GentxsBelong ==
    \A n \in Nodes : \A t \in genesis[n].gentxs :
        /\ <<t.node, t.account>> \in Funded(genesis[n])
        /\ genesis[n].run > wiped => t.id = nodeKeys[t.node] /\ t.key = validatorKeys[t.node]

\* A file of an identity that a removal took, which has a name no later run replaces.
LostIdentity(t) == t.id # nodeKeys[t.node] /\ t.id =< wiped

\* What CollectTxs refuses is a file of a node beyond this run, a stake above the node's
\* balance, or a file that a removal left when it took the node's key.  Other files that
\* earlier runs left, cut short or not, make no run fail here.
RejectionsExplained ==
    outcome = "rejected" =>
        \E t \in gentxs[node] : t.node >= nodes \/ AboveBalance(t) \/ LostIdentity(t)

\* A validator key without its sign state: every run that reaches the node exits.
Stuck(n) == validatorKeys[n] # 0 /\ ~signStates[n]

\* A kill between the two files stops later runs at this node, until its key is deleted.
\* That breaks no testnet: no gentx, and no genesis file, names such a key, unless it was
\* made before a removal.
StuckKeysUnused ==
    \A n \in Nodes : Stuck(n) =>
        \A m \in Nodes :
            /\ \A t \in gentxs[m] : t.node = n => t.account =< wiped
            /\ \A t \in genesis[m].gentxs : t.node = n => genesis[m].run =< wiped

\* Where the nodes of a finished testnet listen, or would: the API is switched off
\* until the operator enables it.  The profiler's address is the same in every file; a
\* node whose profiler finds it taken logs that and goes on.
Listeners ==
    UNION {{<<n, "p2p", config[n].p2p>>, <<n, "rpc", config[n].rpc>>,
            <<n, "proxy", config[n].proxy>>, <<n, "prometheus", config[n].prometheus>>,
            <<n, "grpc", appToml[n].grpc>>, <<n, "api", appToml[n].api>>}
           : n \in RunNodes}

\* With the default RPC ports, the nodes of a testnet can all run on one host:
\* no two of their listeners share a port, every port exists, and each node is
\* reachable at the address its peers have for it.
OneHost ==
    Finished /\ ports = ParsePorts(<< >>, nodes) =>
        /\ \A a, b \in Listeners : a[3] = b[3] => a = b
        /\ \A a \in Listeners : a[3] > 0 /\ a[3] < 65536
        /\ \A n, m \in RunNodes :
               [node |-> m, id |-> nodeKeys[m], port |-> config[m].p2p] \in config[n].peers

\* What the genesis and the configuration of a node say about the network.
Network(n) ==
    [validators |-> {[node |-> t.node, key |-> t.key, stake |-> t.stake] : t \in genesis[n].gentxs},
     peers |-> {[node |-> p.node, id |-> p.id] : p \in config[n].peers}]

Promise ==
    INSTANCE TestnetPromise WITH
        phase <- IF pc # "idle" THEN "busy" ELSE IF Finished THEN "ready" ELSE "idle",
        nodeId <- [n \in Nodes |-> IF nodeKeys[n] = Cut THEN 0 ELSE nodeKeys[n]],
        validatorKey <- validatorKeys,
        asked <- [n \in RunNodes |-> StakeOf(n)],
        testnet <- IF Finished THEN [n \in RunNodes |-> Network(n)] ELSE << >>

\* Across any sequence of runs, wherever they fail or are killed: no key that is there
\* is ever replaced, only a run that gives up takes keys away, any of them; and a run that
\* succeeds leaves every node with the validators, stakes and peers it was started for,
\* whatever came before it.
ImplementsTestnet == Promise!Spec

\* The inductive invariant behind these properties: which files of this run are in place
\* when a step is reached, whatever lies beside them.
AllGentxs == {Gentx(m) : m \in RunNodes}

NewGenesis == [run |-> run, nodes |-> nodes, gentxs |-> {}]

Prepared(m) == /\ nodeKeys[m] > 0
               /\ validatorKeys[m] > 0
               /\ signStates[m]
               /\ accounts[m] = run
               /\ seeds[m] = run
               /\ Gentx(m) \in gentxs[m]
               /\ appToml[m] = AppToml(m)

Collected(m) == /\ genesis[m] = [run |-> run, nodes |-> nodes, gentxs |-> AllGentxs]
                /\ config[m] = NodeConfig(m)

\* The node can still sign as the validator that the file declares.
Signable(t) == /\ t.key = validatorKeys[t.node]
               /\ t.key > 0
               /\ signStates[t.node]

\* At any time: one gentx of a node and id per directory, and what was made since the
\* last removal names the keys on disk.
DiskInv ==
    /\ \A n \in Nodes : nodeKeys[n] =< run /\ genesis[n].run \in 0 .. run
    /\ \A n \in Nodes : \A t, u \in gentxs[n] : t.node = u.node /\ t.id = u.id => t = u
    /\ \A n \in Nodes : \A t \in gentxs[n] :
           /\ t.id =< run /\ t.account =< run
           /\ t.id > wiped => t.id = nodeKeys[t.node]
           /\ t.account > wiped => Signable(t)
    /\ \A n \in Nodes : genesis[n].run > wiped => \A t \in genesis[n].gentxs : Signable(t)
    /\ GentxsBelong

\* The nodes that this run has written a gentx for.
Declared(m) ==
    \/ pc \in {"genesis", "copy", "collect", "overwrite"}
    \/ m < node
    \/ pc = "app" /\ m = node

\* During a run no removal has come yet, and the gentxs of its accounts are its own.
RunInv ==
    pc # "idle" =>
        /\ run > wiped
        /\ node =< nodes
        /\ \A n \in Nodes : \A t \in gentxs[n] :
               t.account = run => Declared(t.node) /\ t = Gentx(t.node)

WritingInv ==
    pc \in {"files", "validator", "state", "key", "seed", "gentx", "app"} =>
        /\ \A m \in 0 .. node - 1 : Prepared(m)
        /\ pc # "files" => node < nodes /\ nodeKeys[node] > 0
        /\ pc \in {"state", "key", "seed", "gentx", "app"} => validatorKeys[node] > 0
        /\ pc \in {"key", "seed", "gentx", "app"} => signStates[node]
        /\ pc \in {"seed", "gentx", "app"} => accounts[node] = run
        /\ pc \in {"gentx", "app"} => seeds[node] = run
        /\ pc = "app" => Gentx(node) \in gentxs[node]

CopyingInv ==
    /\ pc = "genesis" => \A m \in 0 .. node - 1 : genesis[m] = NewGenesis
    /\ pc = "copy" =>
        /\ \A m \in RunNodes : genesis[m] = NewGenesis
        /\ \A n \in 0 .. node - 1 : AllGentxs \subseteq gentxs[n]
        /\ file =< nodes
        /\ node < nodes => \A m \in 0 .. file - 1 : Gentx(m) \in gentxs[node]

CollectingInv ==
    /\ pc \in {"collect", "overwrite"} =>
        /\ \A n \in RunNodes : AllGentxs \subseteq gentxs[n]
        /\ \A n \in node + 1 .. nodes - 1 : genesis[n] = NewGenesis
        /\ \A n \in 0 .. node - 1 : Collected(n)
        /\ node > 0 \/ pc = "overwrite" => appState = AllGentxs
    /\ pc = "collect" /\ node < nodes => genesis[node] = NewGenesis
    /\ pc = "overwrite" => node < nodes /\ config[node] = NodeConfig(node)
    /\ Finished => \A n \in RunNodes : Collected(n)

IInv ==
    /\ DiskInv
    /\ RunInv
    /\ pc \notin {"idle", "copy", "collect", "overwrite"} => file = 0
    /\ pc \in {"genesis", "copy", "collect", "overwrite"} \/ Finished =>
           \A m \in RunNodes : Prepared(m)
    /\ WritingInv
    /\ CopyingInv
    /\ CollectingInv

\* "If the flag string is invalid, the amount will default to 100000000", for
\* the entry of each validator.
InvalidStakesDefault ==
    Finished => \A t \in appState :
        t.node + 1 \in DOMAIN stakes /\ stakes[t.node + 1] = Invalid
            => t.stake = DefaultStake

\* The nodes accept transactions for the gas prices the operator asked for.
MinGasPricesTaken == Finished => \A n \in RunNodes : appToml[n].minGas = gas

=============================================================================
