-------------------------- MODULE TestnetFilesProofs --------------------------
(***************************************************************************)
(* The invariants of the testnet generator for any number of nodes and     *)
(* runs: types, then the inductive invariant IInv, action by action, then  *)
(* the arithmetic of the ports and the refinement of TestnetPromise.       *)
(***************************************************************************)
EXTENDS TestnetFiles, TLAPS

\* The types of the variables that are numbers and labels.
LocalOK ==
    /\ pc \in {"idle", "files", "validator", "state", "key", "seed", "gentx", "app",
               "genesis", "copy", "collect", "overwrite"}
    /\ outcome \in {"none", "done", "failed", "exited", "cleaned", "rejected", "panicked"}
    /\ run \in 0 .. MaxRuns
    /\ wiped \in 0 .. run
    /\ nodes \in 0 .. MaxNodes
    /\ node \in 0 .. MaxNodes
    /\ file \in 0 .. MaxNodes

KeysOK ==
    /\ nodeKeys \in [Nodes -> {Cut} \cup (0 .. MaxRuns)]
    /\ validatorKeys \in [Nodes -> 0 .. MaxRuns]
    /\ signStates \in [Nodes -> BOOLEAN]
    /\ accounts \in [Nodes -> 0 .. MaxRuns]
    /\ seeds \in [Nodes -> 0 .. MaxRuns]

GentxsOK ==
    /\ DOMAIN gentxs = Nodes
    /\ \A n \in Nodes : AreGentxs(gentxs[n])

GenesisOK ==
    /\ DOMAIN genesis = Nodes
    /\ \A n \in Nodes : AreGentxs(genesis[n].gentxs)
    /\ AreGentxs(appState)

ConfigOK == DOMAIN config = Nodes /\ DOMAIN appToml = Nodes

\* The parts of the type invariant.
LEMMA Parts == TypeOK <=> LocalOK /\ KeysOK /\ GentxsOK /\ GenesisOK /\ ConfigOK
BY DEF TypeOK, LocalOK, KeysOK, GentxsOK, GenesisOK, ConfigOK

\* A new, empty output directory has the types.
LEMMA InitTyped == Init => TypeOK
BY TestnetAssumption DEF Init, TypeOK, Nodes, NoGenesis, AreGentxs

\* A step of the command changes only its own variables, within their types.
LEMMA LocalTyped == TypeOK /\ Next => LocalOK'
<1> SUFFICES ASSUME LocalOK, Next PROVE LocalOK'
  BY Parts
<1> USE TestnetAssumption DEF LocalOK, local, args
<1>1. CASE Start
  BY <1>1 DEF Start, RunE
<1>2. CASE \/ LoadOrGenNodeKey \/ LoadOrGenFilePV \/ SaveSignState
          \/ SaveKey \/ WriteSeed \/ WriteGentx
  BY <1>2 DEF LoadOrGenNodeKey, LoadOrGenFilePV, SaveSignState, SaveKey, WriteSeed, WriteGentx,
     Continue, End, Exit
<1>3. CASE WriteAppToml \/ InitGenFile \/ OverwriteGenesis
  BY <1>3 DEF WriteAppToml, InitGenFile, OverwriteGenesis, Advance, At
<1>4. CASE SkipOwnGentx \/ CopyGentx \/ NextCopy
  BY <1>4 DEF SkipOwnGentx, CopyGentx, NextCopy, End, Exit, At
<1>5. CASE CollectGentxs \/ RejectGentxs
  BY <1>5 DEF CollectGentxs, RejectGentxs, End, Exit, At
<1>6. CASE NextLoop
  BY <1>6 DEF NextLoop, LoopEnd
<1>7. CASE CleanUp \/ Interrupt
  BY <1>7 DEF CleanUp, Interrupt, End, Exit
<1>8. QED
  BY <1>1, <1>2, <1>3, <1>4, <1>5, <1>6, <1>7 DEF Next, Step

\* Keys carry the numbers of runs.
LEMMA KeysTyped == TypeOK /\ Next => KeysOK'
<1> SUFFICES ASSUME LocalOK, KeysOK, Next PROVE KeysOK'
  BY Parts
<1> USE DEF KeysOK, LocalOK, disk, keyFiles, identities
<1>1. CASE LoadOrGenNodeKey \/ LoadOrGenFilePV \/ SaveSignState
  BY <1>1 DEF LoadOrGenNodeKey, LoadOrGenFilePV, SaveSignState
<1>2. CASE SaveKey \/ WriteSeed
  BY <1>2 DEF SaveKey, WriteSeed
<1>3. CASE CleanUp
  <2>1. PICK rest \in Remains : RemoveAll(rest)
    BY <1>3 DEF CleanUp
  <2>2. nodeKeys' \in [Nodes -> {Cut} \cup (0 .. MaxRuns)] /\ validatorKeys' \in [Nodes -> 0 .. MaxRuns]
    BY <2>1, TestnetAssumption DEF RemoveAll
  <2>3. signStates' \in [Nodes -> BOOLEAN]
    BY <2>1 DEF RemoveAll
  <2>4. accounts' \in [Nodes -> 0 .. MaxRuns] /\ seeds' \in [Nodes -> 0 .. MaxRuns]
    BY <2>1, TestnetAssumption DEF RemoveAll
  <2>5. QED
    BY <1>3, <2>2, <2>3, <2>4, TestnetAssumption DEF CleanUp, Exit, local
<1>4. CASE UNCHANGED keyFiles
  BY <1>4
<1>5. QED
  BY <1>1, <1>2, <1>3, <1>4 DEF Next, Step, Start, RunE, WriteGentx, WriteAppToml, InitGenFile,
     SkipOwnGentx, CopyGentx, NextCopy, CollectGentxs, RejectGentxs, OverwriteGenesis,
     NextLoop, LoopEnd, Interrupt

\* The gentx directories hold well-formed files, whether cut short or not.
LEMMA GentxsTyped == TypeOK /\ IInv /\ Next => GentxsOK'
<1> SUFFICES ASSUME LocalOK, KeysOK, GentxsOK, IInv, Next PROVE GentxsOK'
  BY Parts
<1> USE DEF GentxsOK, AreGentxs, disk
<1>1. CASE WriteGentx
  <2>1. node \in Nodes /\ nodeKeys[node] \in 1 .. MaxRuns /\ validatorKeys[node] \in 1 .. MaxRuns
    BY <1>1, TestnetAssumption DEF WriteGentx, At, IInv, WritingInv, LocalOK, KeysOK, Nodes, Cut
  <2>2. QED
    <3>1. PICK t \in {Gentx(node), Torn(node)} :
             gentxs' = [gentxs EXCEPT ![node] = Put(gentxs[node], t)]
      BY <1>1 DEF WriteGentx
    <3>2. /\ t.node \in Nodes /\ t.id \in 1 .. MaxRuns
          /\ t.key \in 0 .. MaxRuns /\ t.account \in 0 .. MaxRuns
      BY <2>1, <3>1, TestnetAssumption DEF Gentx, Torn, LocalOK
    <3>3. QED
      BY <2>1, <3>1, <3>2 DEF Put
<1>2. CASE CopyGentx
  <2>1. node \in Nodes /\ file \in RunNodes /\ file \in Nodes
    BY <1>2, TestnetAssumption DEF CopyGentx, At, LocalOK, Nodes, RunNodes
  <2>2. nodeKeys[file] \in 1 .. MaxRuns
    BY <1>2, <2>1, TestnetAssumption DEF CopyGentx, At, IInv, Prepared, KeysOK, Cut
  <2>3. QED
    <3>1. PICK t \in gentxs[file] \cup {Torn(file)} :
             gentxs' = [gentxs EXCEPT ![node] = Put(gentxs[node], t)]
      BY <1>2 DEF CopyGentx
    <3>2. /\ t.node \in Nodes /\ t.id \in 1 .. MaxRuns
          /\ t.key \in 0 .. MaxRuns /\ t.account \in 0 .. MaxRuns
      BY <2>1, <2>2, <3>1, TestnetAssumption DEF Torn, LocalOK
    <3>3. QED
      BY <2>1, <3>1, <3>2 DEF Put
<1>3. CASE CleanUp
  BY <1>3 DEF CleanUp, RemoveAll
<1>4. CASE UNCHANGED gentxs
  BY <1>4 DEF Nodes
<1>5. QED
  BY <1>1, <1>2, <1>3, <1>4 DEF Next, Step, Start, RunE, LoadOrGenNodeKey,
     LoadOrGenFilePV, SaveSignState, SaveKey, WriteSeed, WriteAppToml, InitGenFile, SkipOwnGentx, NextCopy, CollectGentxs, RejectGentxs,
     OverwriteGenesis, NextLoop, LoopEnd, Interrupt

\* A genesis file holds well-formed gentxs.
LEMMA GenesisTyped == TypeOK /\ Next => GenesisOK'
<1> SUFFICES ASSUME LocalOK, GentxsOK, GenesisOK, Next PROVE GenesisOK'
  BY Parts
<1> USE DEF GenesisOK, GentxsOK, AreGentxs, disk, netFiles, local
<1>1. CASE Start
  BY <1>1 DEF Start, RunE
<1>2. CASE InitGenFile
  BY <1>2 DEF InitGenFile, Advance
<1>3. CASE CollectGentxs
  <2>1. node \in Nodes
    BY <1>3, TestnetAssumption DEF CollectGentxs, At, LocalOK, Nodes
  <2>2. QED
    BY <1>3, <2>1 DEF CollectGentxs
<1>4. CASE OverwriteGenesis
  BY <1>4 DEF OverwriteGenesis, Advance
<1>5. CASE CleanUp
  BY <1>5 DEF CleanUp, RemoveAll, Exit, NoGenesis
<1>6. CASE UNCHANGED <<genesis, appState>>
  BY <1>6
<1>7. QED
  BY <1>1, <1>2, <1>3, <1>4, <1>5, <1>6 DEF Next, Step, LoadOrGenNodeKey,
     LoadOrGenFilePV, SaveSignState, SaveKey, WriteSeed, WriteGentx, WriteAppToml, SkipOwnGentx, CopyGentx, NextCopy, RejectGentxs,
     NextLoop, LoopEnd, Interrupt, Continue, Advance, End, Exit

\* Every node directory has its places for the configuration files.
LEMMA ConfigTyped == TypeOK /\ Next => ConfigOK'
<1> SUFFICES ASSUME ConfigOK, Next PROVE ConfigOK'
  BY Parts
<1> USE DEF ConfigOK, disk, netFiles
<1> QED
  BY DEF Next, Step, Start, RunE, LoadOrGenNodeKey, LoadOrGenFilePV, SaveSignState, SaveKey,
     WriteSeed, WriteGentx, WriteAppToml, InitGenFile, SkipOwnGentx, CopyGentx, NextCopy, CollectGentxs,
     RejectGentxs, OverwriteGenesis, NextLoop, LoopEnd, CleanUp, RemoveAll, Interrupt

\* Every step, and a run's end wherever it comes, keeps the types.
LEMMA StepTyped == TypeOK /\ IInv /\ [Next]_vars => TypeOK'
<1> SUFFICES ASSUME TypeOK, IInv, [Next]_vars PROVE TypeOK'
  OBVIOUS
<1>1. CASE Next
  <2>1. LocalOK'
    BY <1>1, LocalTyped
  <2>2. KeysOK'
    BY <1>1, KeysTyped
  <2>3. GentxsOK'
    BY <1>1, GentxsTyped
  <2>4. GenesisOK'
    BY <1>1, GenesisTyped
  <2>5. ConfigOK'
    BY <1>1, ConfigTyped
  <2>6. QED
    BY <2>1, <2>2, <2>3, <2>4, <2>5
       DEF TypeOK, LocalOK, KeysOK, GentxsOK, GenesisOK, ConfigOK
<1>2. CASE UNCHANGED vars
  BY <1>2 DEF vars, local, args, disk, keyFiles, identities, netFiles, TypeOK, AreGentxs
<1>3. QED
  BY <1>1, <1>2

-----------------------------------------------------------------------------
(* The inductive invariant. *)

\* What a run writes depends on its arguments and on the keys only.
LEMMA SameRun ==
    ASSUME UNCHANGED <<run, args, nodeKeys, validatorKeys>>
    PROVE  /\ RunNodes' = RunNodes
           /\ NewGenesis' = NewGenesis
           /\ AllGentxs' = AllGentxs
           /\ \A n : Gentx(n)' = Gentx(n) /\ NodeConfig(n)' = NodeConfig(n)
<1>1. UNCHANGED <<run, nodes, stakes, ports, nodeKeys, validatorKeys>>
  BY DEF args
<1>2. \A n : Gentx(n)' = Gentx(n) /\ Peer(n)' = Peer(n) /\ RPCPort(n)' = RPCPort(n)
  BY <1>1 DEF Gentx, StakeOf, Peer, RPCPort
<1>3. RunNodes' = RunNodes
  BY <1>1 DEF RunNodes
<1>4. QED
  BY <1>1, <1>2, <1>3 DEF NewGenesis, AllGentxs, NodeConfig

\* A file put into a directory replaces its older version and nothing else.
LEMMA PutEffect ==
    ASSUME NEW files, NEW t,
           \A u, w \in files : u.node = w.node /\ u.id = w.id => u = w
    PROVE  /\ \A u, w \in Put(files, t) : u.node = w.node /\ u.id = w.id => u = w
           /\ t \in Put(files, t)
           /\ \A u \in files : u.node # t.node => u \in Put(files, t)
           /\ \A u \in Put(files, t) : u = t \/ u \in files
BY DEF Put

\* Whether a genesis file's validators belong depends on it and the keys only.
LEMMA BelongSame ==
    ASSUME GentxsBelong, UNCHANGED <<wiped, nodeKeys, validatorKeys, genesis>>
    PROVE  GentxsBelong'
BY DEF GentxsBelong, Funded

\* What DiskInv says of a single file.
FileInv(t) ==
    /\ t.id =< run /\ t.account =< run
    /\ t.id > wiped => t.id = nodeKeys[t.node]
    /\ t.account > wiped => Signable(t)

\* Writing a file that fits the keys on disk keeps what holds of the disk at any time.
LEMMA DiskAfterPut ==
    ASSUME TypeOK, DiskInv, NEW n \in Nodes, NEW t, FileInv(t),
           gentxs' = [gentxs EXCEPT ![n] = Put(@, t)],
           UNCHANGED <<run, wiped, nodeKeys, validatorKeys, signStates, genesis>>
    PROVE  /\ DiskInv'
           /\ t \in gentxs'[n]
           /\ \A u \in gentxs[n] : u.node # t.node => u \in gentxs'[n]
           /\ \A m \in Nodes : m # n => gentxs'[m] = gentxs[m]
           /\ \A m \in Nodes : \A u \in gentxs'[m] : u = t \/ u \in gentxs[m]
<1>1. DOMAIN gentxs = Nodes
  BY DEF TypeOK
<1>2. gentxs'[n] = Put(gentxs[n], t) /\ \A m \in Nodes : m # n => gentxs'[m] = gentxs[m]
  BY <1>1
<1>3. \A m \in Nodes : \A u, w \in gentxs'[m] : u.node = w.node /\ u.id = w.id => u = w
  BY <1>2, PutEffect DEF DiskInv
<1>4. ASSUME NEW m \in Nodes, NEW u \in gentxs'[m] PROVE u = t \/ u \in gentxs[m]
  <2>1. CASE m = n
    BY <1>2, <1>4, <2>1 DEF Put
  <2>2. CASE m # n
    BY <1>2, <1>4, <2>2
  <2>3. QED
    BY <2>1, <2>2
<1>5. \A m \in Nodes : \A u \in gentxs'[m] : FileInv(u)
  BY <1>4 DEF DiskInv, FileInv
<1>6. \A u : (FileInv(u)' <=> FileInv(u)) /\ (Signable(u)' <=> Signable(u))
  BY DEF FileInv, Signable
<1>7. GentxsBelong'
  BY BelongSame DEF DiskInv
<1>8. DiskInv'
  BY <1>3, <1>5, <1>6, <1>7 DEF DiskInv, FileInv
<1>9. QED
  BY <1>2, <1>4, <1>8, PutEffect DEF DiskInv

\* What holds of the disk at any time does not depend on its other files.
LEMMA DiskSame ==
    ASSUME DiskInv,
           UNCHANGED <<run, wiped, nodeKeys, validatorKeys, signStates, gentxs, genesis>>
    PROVE  DiskInv'
BY DEF DiskInv, GentxsBelong, Signable, Funded

\* A step that writes no gentx, and goes back to no node, keeps what holds during a run.
LEMMA RunSame ==
    ASSUME TypeOK, RunInv, pc # "idle", node' =< nodes',
           UNCHANGED <<run, args, wiped, nodeKeys, validatorKeys, gentxs>>,
           \A m \in Nodes : Declared(m) => Declared(m)'
    PROVE  RunInv'
<1>1. \A n : Gentx(n)' = Gentx(n)
  BY SameRun
<1>2. \A n \in Nodes : \A t \in gentxs[n] : t.node \in Nodes
  BY DEF TypeOK, AreGentxs
<1>3. QED
  BY <1>1, <1>2 DEF RunInv

\* A run that ended without success claims nothing about its files.
LEMMA EndInv ==
    ASSUME DiskInv', pc' = "idle", outcome' # "done"
    PROVE  IInv'
BY DEF IInv, RunInv, WritingInv, CopyingInv, CollectingInv, Finished

\* At first there is no file.
LEMMA InitInv == Init => IInv
BY DEF Init, IInv, DiskInv, GentxsBelong, RunInv, WritingInv, CopyingInv, CollectingInv,
       Finished, NoGenesis

\* A run starts with whatever is on disk, and has written nothing yet.
LEMMA StartInv == TypeOK /\ IInv /\ Start => IInv'
<1> SUFFICES ASSUME TypeOK, IInv, Start PROVE IInv'
  OBVIOUS
<1>1. /\ run' = run + 1 /\ run \in Nat /\ wiped \in 0 .. run
      /\ UNCHANGED <<wiped, nodeKeys, validatorKeys, signStates, gentxs, genesis>>
  BY TestnetAssumption
     DEF Start, RunE, disk, keyFiles, identities, netFiles, TypeOK
<1>2. DiskInv'
  <2>1. \A n \in Nodes : nodeKeys[n] =< run' /\ genesis[n].run \in 0 .. run'
    <3> TAKE n \in Nodes
    <3>1. nodeKeys[n] =< run /\ genesis[n].run \in 0 .. run
      BY DEF IInv, DiskInv
    <3>2. nodeKeys[n] \in Int
      BY TestnetAssumption DEF TypeOK, Cut
    <3>3. QED
      BY <1>1, <3>1, <3>2
  <2>2. \A n \in Nodes : \A t \in gentxs[n] : t.id =< run' /\ t.account =< run'
    BY <1>1 DEF IInv, DiskInv, TypeOK, AreGentxs
  <2>3. GentxsBelong'
    BY <1>1, BelongSame DEF IInv, DiskInv
  <2>4. QED
    BY <1>1, <2>1, <2>2, <2>3 DEF IInv, DiskInv, Signable
<1>3. CASE pc' = "idle" /\ outcome' = "panicked"
  BY <1>2, <1>3, EndInv
<1>4. CASE pc' = "files" /\ outcome' = "none"
  <2>1. node' = 0 /\ node' =< nodes' /\ file' = 0
    BY TestnetAssumption DEF Start, RunE
  <2>2. RunInv'
    <3>1. run' > wiped
      BY <1>1
    <3>2. \A n \in Nodes : \A t \in gentxs[n] : t.account # run'
      BY <1>1 DEF IInv, DiskInv, TypeOK, AreGentxs
    <3>3. QED
      BY <1>1, <2>1, <3>1, <3>2 DEF RunInv
  <2>3. WritingInv' /\ CopyingInv' /\ CollectingInv'
    BY <1>4, <2>1 DEF WritingInv, CopyingInv, CollectingInv, Finished
  <2>4. QED
    BY <1>2, <1>4, <2>1, <2>2, <2>3 DEF IInv, Finished
<1>5. QED
  BY <1>3, <1>4 DEF Start, RunE

\* While a node's files are written, those of the nodes before it stay.
LEMMA EarlierNodes ==
    ASSUME TypeOK, NEW k \in Nat, k =< MaxNodes, UNCHANGED <<run, args>>,
           \A m \in Nodes : m < k =>
               /\ nodeKeys'[m] = nodeKeys[m] /\ validatorKeys'[m] = validatorKeys[m]
               /\ signStates'[m] = signStates[m]
               /\ accounts'[m] = accounts[m] /\ seeds'[m] = seeds[m]
               /\ gentxs'[m] = gentxs[m] /\ appToml'[m] = appToml[m],
           \A m \in 0 .. k - 1 : Prepared(m)
    PROVE  \A m \in 0 .. k - 1 : Prepared(m)' /\ Gentx(m)' = Gentx(m)
<1> TAKE m \in 0 .. k - 1
<1>1. m \in Nodes /\ m < k
  BY TestnetAssumption DEF Nodes
<1>2. Gentx(m)' = Gentx(m)
  BY <1>1 DEF Gentx, StakeOf, args
<1>3. AppToml(m)' = AppToml(m)
  BY DEF AppToml
<1>4. QED
  BY <1>1, <1>2, <1>3 DEF Prepared

\* While the node has no gentx of this run, its keys may still change.
LEMMA RunAfterKeys ==
    ASSUME TypeOK, RunInv, pc \in {"files", "validator", "state"}, node \in Nat,
           pc' \in {"files", "validator", "state", "key"},
           UNCHANGED <<run, args, nodes, node, wiped, gentxs>>,
           \A m \in 0 .. node - 1 : Gentx(m)' = Gentx(m)
    PROVE  RunInv'
<1>1. ASSUME NEW n \in Nodes, NEW t \in gentxs[n], t.account = run
      PROVE  t.node < node /\ Gentx(t.node)' = Gentx(t.node) /\ t = Gentx(t.node)
  <2>1. Declared(t.node) /\ t = Gentx(t.node) /\ t.node \in Nat
    BY <1>1, TestnetAssumption DEF RunInv, TypeOK, AreGentxs, Nodes
  <2>2. QED
    BY <2>1 DEF Declared
<1>2. QED
  BY <1>1 DEF RunInv, Declared

\* The node gets a key, or keeps the one its earlier files were made with.
LEMMA LoadOrGenNodeKeyInv == TypeOK /\ IInv /\ LoadOrGenNodeKey => IInv'
<1> SUFFICES ASSUME TypeOK, IInv, LoadOrGenNodeKey PROVE IInv'
  OBVIOUS
<1>1. /\ node \in Nodes /\ node < nodes /\ node \in Nat /\ node =< MaxNodes /\ pc = "files"
      /\ run > wiped /\ run \in Nat /\ wiped \in Nat /\ file = 0
      /\ UNCHANGED <<run, args, nodes, node, file, outcome, wiped, validatorKeys, signStates,
                     accounts, seeds, gentxs, genesis, config, appToml>>
  BY TestnetAssumption DEF TypeOK, IInv, RunInv, LoadOrGenNodeKey, At, Continue, local, args,
     netFiles, Nodes
<1>2. /\ \A m \in Nodes : nodeKeys[m] # 0 => nodeKeys'[m] = nodeKeys[m]
      /\ \A m \in Nodes : m # node => nodeKeys'[m] = nodeKeys[m]
      /\ nodeKeys'[node] =< run
      /\ \/ pc' = "validator" /\ nodeKeys'[node] > 0
         \/ pc' = "files"
  BY <1>1, TestnetAssumption
     DEF LoadOrGenNodeKey, Continue, TypeOK, Cut, IInv, DiskInv
<1>3. DiskInv'
  <2>1. \A n \in Nodes : \A t \in gentxs[n] \cup genesis[n].gentxs :
           t.id = nodeKeys[t.node] => t.id = nodeKeys'[t.node]
    BY <1>2 DEF TypeOK, AreGentxs
  <2>2. \A n \in Nodes : nodeKeys'[n] =< run
    BY <1>1, <1>2 DEF IInv, DiskInv
  <2>3. GentxsBelong'
    BY <1>1, <2>1 DEF IInv, DiskInv, GentxsBelong, Funded
  <2>4. QED
    BY <1>1, <2>1, <2>2, <2>3 DEF IInv, DiskInv, Signable
<1>4. \A m \in 0 .. node - 1 : Prepared(m)' /\ Gentx(m)' = Gentx(m)
  <2>1. \A m \in 0 .. node - 1 : Prepared(m)
    BY <1>1 DEF IInv, WritingInv
  <2>2. \A m \in Nodes : m < node => m # node
    BY <1>1
  <2>3. QED
    BY <1>1, <1>2, <2>1, <2>2, EarlierNodes
<1>5. RunInv'
  BY <1>1, <1>2, <1>4, RunAfterKeys DEF IInv
<1>6. WritingInv'
  BY <1>1, <1>2, <1>4 DEF WritingInv
<1>7. QED
  BY <1>1, <1>2, <1>3, <1>5, <1>6 DEF IInv, CopyingInv, CollectingInv, Finished

\* A new validator key is named by no file yet, and a run that finds one without its
\* sign state ends.
LEMMA LoadOrGenFilePVInv == TypeOK /\ IInv /\ LoadOrGenFilePV => IInv'
<1> SUFFICES ASSUME TypeOK, IInv, LoadOrGenFilePV PROVE IInv'
  OBVIOUS
<1>1. /\ node \in Nodes /\ node < nodes /\ node \in Nat /\ node =< MaxNodes /\ pc = "validator"
      /\ run > wiped /\ run \in Nat /\ wiped \in Nat /\ file = 0
      /\ UNCHANGED <<run, args, nodes, node, file, wiped, nodeKeys, signStates,
                     accounts, seeds, gentxs, genesis, config, appToml>>
  BY TestnetAssumption DEF TypeOK, IInv, RunInv, LoadOrGenFilePV, At, Continue, End, Exit, local,
     args, netFiles, Nodes
<1>2. CASE pc' = "idle"
  <2>1. UNCHANGED validatorKeys /\ outcome' # "done"
    BY <1>2 DEF LoadOrGenFilePV, Continue, End, Exit
  <2>2. DiskInv'
    BY <1>1, <2>1, DiskSame DEF IInv
  <2>3. QED
    BY <1>2, <2>1, <2>2, EndInv
<1>3. CASE pc' # "idle"
  <2>1. /\ \A m \in Nodes : validatorKeys[m] # 0 => validatorKeys'[m] = validatorKeys[m]
        /\ \A m \in Nodes : m # node => validatorKeys'[m] = validatorKeys[m]
        /\ validatorKeys'[node] > 0
        /\ \/ pc' = "state"
           \/ pc' = "key" /\ signStates[node]
        /\ outcome' = outcome
    <3>1. CASE validatorKeys[node] = 0
      <4>1. validatorKeys' = [validatorKeys EXCEPT ![node] = run] /\ pc' = "state"
            /\ outcome' = outcome
        BY <3>1 DEF LoadOrGenFilePV, Continue
      <4>2. QED
        BY <1>1, <3>1, <4>1 DEF TypeOK
    <3>2. CASE validatorKeys[node] # 0
      <4>1. UNCHANGED validatorKeys /\ (IF signStates[node] THEN Continue("key") ELSE End("exited"))
        BY <3>2 DEF LoadOrGenFilePV
      <4>2. signStates[node] /\ Continue("key")
        BY <1>3, <4>1 DEF End, Exit
      <4>3. validatorKeys[node] > 0
        BY <1>1, <3>2, TestnetAssumption DEF TypeOK
      <4>4. QED
        BY <4>1, <4>2, <4>3 DEF Continue
    <3>3. QED
      BY <3>1, <3>2
  <2>2. DiskInv'
    <3>1. ASSUME NEW t, t.node \in Nodes, Signable(t) PROVE Signable(t)'
      BY <1>1, <2>1, <3>1 DEF Signable, TypeOK
    <3>2. \A n \in Nodes : \A t \in gentxs[n] \cup genesis[n].gentxs : t.node \in Nodes
      BY DEF TypeOK, AreGentxs
    <3>3. GentxsBelong'
      <4>1. ASSUME NEW n \in Nodes, NEW t \in genesis[n].gentxs, genesis[n].run > wiped
            PROVE  t.id = nodeKeys[t.node] /\ t.key = validatorKeys'[t.node]
        <5>1. Signable(t) /\ t.id = nodeKeys[t.node]
          BY <4>1 DEF IInv, DiskInv, GentxsBelong
        <5>2. QED
          BY <2>1, <3>2, <5>1 DEF Signable, TypeOK
      <4>2. QED
        BY <1>1, <4>1 DEF IInv, DiskInv, GentxsBelong, Funded
    <3>4. QED
      BY <1>1, <3>1, <3>2, <3>3 DEF IInv, DiskInv
  <2>3. \A m \in 0 .. node - 1 : Prepared(m)' /\ Gentx(m)' = Gentx(m)
    <3>1. \A m \in 0 .. node - 1 : Prepared(m)
      BY <1>1 DEF IInv, WritingInv
    <3>2. \A m \in Nodes : m < node => m # node
      BY <1>1
    <3>3. QED
      BY <1>1, <2>1, <3>1, <3>2, EarlierNodes
  <2>4. RunInv'
    BY <1>1, <2>1, <2>3, RunAfterKeys DEF IInv
  <2>5. WritingInv'
    BY <1>1, <2>1, <2>3 DEF IInv, WritingInv
  <2>6. QED
    BY <1>1, <2>1, <2>2, <2>4, <2>5 DEF IInv, CopyingInv, CollectingInv, Finished
<1>4. QED
  BY <1>2, <1>3

\* With its sign state the node can sign.
LEMMA SaveSignStateInv == TypeOK /\ IInv /\ SaveSignState => IInv'
<1> SUFFICES ASSUME TypeOK, IInv, SaveSignState PROVE IInv'
  OBVIOUS
<1>1. /\ node \in Nodes /\ node < nodes /\ node \in Nat /\ node =< MaxNodes
      /\ pc = "state" /\ pc' = "key" /\ file = 0
      /\ UNCHANGED <<run, args, nodes, node, file, outcome, wiped, nodeKeys, validatorKeys,
                     accounts, seeds, gentxs, genesis, config, appToml>>
  BY TestnetAssumption DEF TypeOK, IInv, SaveSignState, At, Continue, local, args, netFiles, Nodes
<1>2. signStates'[node] /\ \A m \in Nodes : m # node => signStates'[m] = signStates[m]
  BY <1>1 DEF SaveSignState, TypeOK
<1>3. DiskInv'
  <2>1. ASSUME NEW t, t.node \in Nodes, Signable(t) PROVE Signable(t)'
    BY <1>1, <1>2, <2>1 DEF Signable
  <2>2. \A n \in Nodes : \A t \in gentxs[n] \cup genesis[n].gentxs : t.node \in Nodes
    BY DEF TypeOK, AreGentxs
  <2>3. GentxsBelong'
    BY <1>1, BelongSame DEF IInv, DiskInv
  <2>4. QED
    BY <1>1, <2>1, <2>2, <2>3 DEF IInv, DiskInv
<1>4. \A m \in 0 .. node - 1 : Prepared(m)' /\ Gentx(m)' = Gentx(m)
  <2>1. \A m \in 0 .. node - 1 : Prepared(m)
    BY <1>1 DEF IInv, WritingInv
  <2>2. \A m \in Nodes : m < node => m # node
    BY <1>1
  <2>3. QED
    BY <1>1, <1>2, <2>1, <2>2, EarlierNodes
<1>5. RunInv'
  BY <1>1, <1>4, RunAfterKeys DEF IInv
<1>6. WritingInv'
  BY <1>1, <1>2, <1>4 DEF IInv, WritingInv
<1>7. QED
  BY <1>1, <1>3, <1>5, <1>6 DEF IInv, CopyingInv, CollectingInv, Finished

\* The account of the node is this run's.
LEMMA SaveKeyInv == TypeOK /\ IInv /\ SaveKey => IInv'
<1> SUFFICES ASSUME TypeOK, IInv, SaveKey PROVE IInv'
  OBVIOUS
<1>1. /\ node \in Nodes /\ node < nodes /\ pc = "key" /\ pc' = "seed" /\ nodes \in Nat
      /\ file = 0 /\ node \in Nat /\ node =< MaxNodes
      /\ UNCHANGED <<run, args, nodes, node, file, outcome, wiped, nodeKeys, validatorKeys,
                     signStates, seeds, gentxs, genesis, appToml>>
  BY TestnetAssumption DEF TypeOK, IInv, SaveKey, At, Continue, local, args, identities, netFiles,
     Nodes
<1>2. accounts'[node] = run /\ \A m \in Nodes : m # node => accounts'[m] = accounts[m]
  BY <1>1 DEF SaveKey, TypeOK
<1>3. \A m \in 0 .. node - 1 : Prepared(m)'
  <2>1. \A m \in 0 .. node - 1 : Prepared(m)
    BY <1>1 DEF IInv, WritingInv
  <2>2. \A m \in Nodes : m < node =>
           /\ nodeKeys'[m] = nodeKeys[m] /\ validatorKeys'[m] = validatorKeys[m]
           /\ signStates'[m] = signStates[m]
           /\ accounts'[m] = accounts[m] /\ seeds'[m] = seeds[m]
           /\ gentxs'[m] = gentxs[m] /\ appToml'[m] = appToml[m]
    <3>1. \A m \in Nodes : m < node => m # node
      BY <1>1
    <3>2. QED
      BY <1>1, <1>2, <3>1
  <2>3. QED
    BY <1>1, <2>1, <2>2, EarlierNodes
<1>4. WritingInv'
  BY <1>1, <1>2, <1>3 DEF IInv, WritingInv
<1>5. DiskInv' /\ RunInv'
  BY <1>1, DiskSame, RunSame DEF IInv, Declared
<1>6. QED
  BY <1>1, <1>4, <1>5 DEF IInv, CopyingInv, CollectingInv, Finished

\* The seed of the node is its account's.
LEMMA WriteSeedInv == TypeOK /\ IInv /\ WriteSeed => IInv'
<1> SUFFICES ASSUME TypeOK, IInv, WriteSeed PROVE IInv'
  OBVIOUS
<1>1. /\ node \in Nodes /\ node < nodes /\ pc = "seed" /\ pc' = "gentx" /\ nodes \in Nat
      /\ file = 0 /\ node \in Nat /\ node =< MaxNodes
      /\ UNCHANGED <<run, args, nodes, node, file, outcome, wiped, nodeKeys, validatorKeys,
                     signStates, accounts, gentxs, genesis, appToml>>
  BY TestnetAssumption DEF TypeOK, IInv, WriteSeed, At, Continue, local, args, identities,
     netFiles, Nodes
<1>2. seeds'[node] = run /\ \A m \in Nodes : m # node => seeds'[m] = seeds[m]
  BY <1>1 DEF WriteSeed, TypeOK
<1>3. \A m \in 0 .. node - 1 : Prepared(m)'
  <2>1. \A m \in 0 .. node - 1 : Prepared(m)
    BY <1>1 DEF IInv, WritingInv
  <2>2. \A m \in Nodes : m < node =>
           /\ nodeKeys'[m] = nodeKeys[m] /\ validatorKeys'[m] = validatorKeys[m]
           /\ signStates'[m] = signStates[m]
           /\ accounts'[m] = accounts[m] /\ seeds'[m] = seeds[m]
           /\ gentxs'[m] = gentxs[m] /\ appToml'[m] = appToml[m]
    <3>1. \A m \in Nodes : m < node => m # node
      BY <1>1
    <3>2. QED
      BY <1>1, <1>2, <3>1
  <2>3. QED
    BY <1>1, <2>1, <2>2, EarlierNodes
<1>4. WritingInv'
  BY <1>1, <1>2, <1>3 DEF IInv, WritingInv
<1>5. DiskInv' /\ RunInv'
  BY <1>1, DiskSame, RunSame DEF IInv, Declared
<1>6. QED
  BY <1>1, <1>4, <1>5 DEF IInv, CopyingInv, CollectingInv, Finished

\* The gentx of the node replaces the one of an earlier run, if it is not cut short.
LEMMA WriteGentxInv == TypeOK /\ IInv /\ WriteGentx => IInv'
<1> SUFFICES ASSUME TypeOK, IInv, WriteGentx PROVE IInv'
  OBVIOUS
<1>1. /\ node \in Nodes /\ node < nodes /\ pc = "gentx"
      /\ file = 0 /\ node \in Nat /\ node =< MaxNodes
      /\ UNCHANGED <<run, args, nodes, node, file, wiped, nodeKeys, validatorKeys, signStates,
                     accounts, seeds, genesis, config, appToml>>
  BY TestnetAssumption DEF TypeOK, IInv, WriteGentx, At, Continue, End, Exit, local, args,
     keyFiles, identities, netFiles, Nodes
<1> run \in Nat /\ wiped \in Nat /\ nodeKeys[node] =< run
  BY <1>1, TestnetAssumption DEF TypeOK, IInv, DiskInv
<1>2. CASE pc' = "idle"
  <2>1. gentxs' = [gentxs EXCEPT ![node] = Put(@, Torn(node))] /\ outcome' = "failed"
    BY <1>2 DEF WriteGentx, Continue, End, Exit
  <2>2. DiskInv'
    <3>1. FileInv(Torn(node))
      BY DEF Torn, FileInv
    <3>2. QED
      BY <1>1, <2>1, <3>1, DiskAfterPut DEF IInv
  <2>3. QED
    BY <1>2, <2>1, <2>2, EndInv
<1>3. CASE pc' = "app"
  <2>1. gentxs' = [gentxs EXCEPT ![node] = Put(@, Gentx(node))] /\ outcome' = outcome
    BY <1>3 DEF WriteGentx, Continue, End, Exit
  <2>2. FileInv(Gentx(node))
    BY <1>1 DEF Gentx, FileInv, Signable, IInv, WritingInv
  <2>3. /\ DiskInv'
        /\ Gentx(node) \in gentxs'[node]
        /\ \A m \in Nodes : m # node => gentxs'[m] = gentxs[m]
        /\ \A m \in Nodes : \A u \in gentxs'[m] : u = Gentx(node) \/ u \in gentxs[m]
    BY <1>1, <2>1, <2>2, DiskAfterPut DEF IInv
  <2>4. \A m \in 0 .. node - 1 : Prepared(m)'
    <3>1. \A m \in Nodes : m < node => m # node
      BY <1>1
    <3>2. \A m \in 0 .. node - 1 : Prepared(m)
      BY <1>1 DEF IInv, WritingInv
    <3>3. QED
      BY <1>1, <2>3, <3>1, <3>2, EarlierNodes
  <2>5. \A m : Gentx(m)' = Gentx(m)
    BY <1>1, SameRun
  <2>6. WritingInv'
    BY <1>1, <1>3, <2>3, <2>4, <2>5 DEF IInv, WritingInv
  <2>7. RunInv'
    <3>1. ASSUME NEW m \in Nodes, NEW t \in gentxs'[m], t.account = run
          PROVE  Declared(t.node)' /\ t = Gentx(t.node)
      <4>1. CASE t = Gentx(node)
        BY <1>1, <1>3, <4>1 DEF Gentx, Declared
      <4>2. CASE t \in gentxs[m]
        BY <1>1, <1>3, <3>1, <4>2 DEF IInv, RunInv, Declared
      <4>3. QED
        BY <2>3, <4>1, <4>2
    <3>2. QED
      BY <1>1, <2>5, <3>1 DEF IInv, RunInv
  <2>8. QED
    BY <1>1, <1>3, <2>3, <2>6, <2>7 DEF IInv, CopyingInv, CollectingInv, Finished
<1>4. QED
  BY <1>2, <1>3 DEF WriteGentx, Continue, End, Exit

\* With its app.toml, the node has all the files of the first loop.
LEMMA WriteAppTomlInv == TypeOK /\ IInv /\ WriteAppToml => IInv'
<1> SUFFICES ASSUME TypeOK, IInv, WriteAppToml PROVE IInv'
  OBVIOUS
<1>1. /\ node \in Nodes /\ node < nodes /\ pc = "app" /\ pc' = "files"
      /\ file = 0 /\ node \in Nat /\ node =< MaxNodes /\ node' = node + 1 /\ nodes \in Nat
      /\ UNCHANGED <<run, args, nodes, file, outcome, wiped, nodeKeys, validatorKeys, signStates,
                     accounts, seeds, gentxs, genesis>>
  BY TestnetAssumption DEF TypeOK, IInv, WriteAppToml, At, Advance, local, args, keyFiles,
     identities, Nodes
<1>2. /\ appToml'[node] = AppToml(node)
      /\ \A m \in Nodes : m # node => appToml'[m] = appToml[m]
  BY <1>1 DEF WriteAppToml, TypeOK
<1>3. \A m \in 0 .. node - 1 : Prepared(m)'
  <2>1. \A m \in 0 .. node - 1 : Prepared(m)
    BY <1>1 DEF IInv, WritingInv
  <2>2. \A m \in Nodes : m < node =>
           /\ nodeKeys'[m] = nodeKeys[m] /\ validatorKeys'[m] = validatorKeys[m]
           /\ signStates'[m] = signStates[m]
           /\ accounts'[m] = accounts[m] /\ seeds'[m] = seeds[m]
           /\ gentxs'[m] = gentxs[m] /\ appToml'[m] = appToml[m]
    <3>1. \A m \in Nodes : m < node => m # node
      BY <1>1
    <3>2. QED
      BY <1>1, <1>2, <3>1
  <2>3. QED
    BY <1>1, <2>1, <2>2, EarlierNodes
<1>4. ASSUME NEW m \in Nodes, m = node PROVE Prepared(m)'
  <2>1. Gentx(m)' = Gentx(m) /\ AppToml(m)' = AppToml(m)
    BY <1>1, SameRun DEF AppToml
  <2>2. QED
    BY <1>1, <1>2, <1>4, <2>1 DEF IInv, WritingInv, Prepared
<1>5. \A m \in 0 .. node' - 1 : Prepared(m)'
  <2> TAKE m \in 0 .. node' - 1
  <2>1. m \in 0 .. node - 1 \/ m = node
    BY <1>1
  <2>2. QED
    BY <1>1, <1>3, <1>4, <2>1
<1>6. DiskInv' /\ RunInv'
  <2>1. \A m \in Nodes : Declared(m) => Declared(m)'
    BY <1>1, TestnetAssumption DEF Declared, Nodes
  <2>2. QED
    BY <1>1, <2>1, DiskSame, RunSame DEF IInv
<1>7. WritingInv'
  BY <1>1, <1>5 DEF WritingInv
<1>8. QED
  BY <1>1, <1>6, <1>7 DEF IInv, CopyingInv, CollectingInv, Finished

\* After the first loop no step takes back what it wrote.
LEMMA PreparedStays ==
    ASSUME UNCHANGED <<run, args, nodeKeys, validatorKeys, signStates, accounts, seeds, appToml>>,
           \A m \in RunNodes : Gentx(m) \in gentxs[m] => Gentx(m) \in gentxs'[m],
           \A m \in RunNodes : Prepared(m)
    PROVE  \A m \in RunNodes' : Prepared(m)'
<1>1. RunNodes' = RunNodes /\ \A m : Gentx(m)' = Gentx(m)
  BY SameRun
<1> QED
  BY <1>1 DEF Prepared, AppToml

\* A new genesis file has no validators yet.
LEMMA InitGenFileInv == TypeOK /\ IInv /\ InitGenFile => IInv'
<1> SUFFICES ASSUME TypeOK, IInv, InitGenFile PROVE IInv'
  OBVIOUS
<1>1. /\ node \in Nodes /\ node < nodes /\ pc = "genesis" /\ pc' = "genesis"
      /\ file = 0 /\ node \in Nat /\ node' = node + 1 /\ nodes \in Nat
      /\ UNCHANGED <<run, args, nodes, file, outcome, wiped, nodeKeys, validatorKeys, signStates,
                     accounts, seeds, gentxs, appToml>>
  BY TestnetAssumption DEF TypeOK, IInv, InitGenFile, At, Advance, local, args, keyFiles,
     identities, Nodes
<1>2. /\ genesis'[node] = NewGenesis
      /\ \A m \in Nodes : m # node => genesis'[m] = genesis[m]
  BY <1>1 DEF InitGenFile, TypeOK, NewGenesis
<1>3. \A m \in RunNodes' : Prepared(m)'
  BY <1>1, PreparedStays DEF IInv
<1>4. DiskInv' /\ RunInv'
  <2>1. NewGenesis.run \in 0 .. run /\ NewGenesis.gentxs = {}
    BY TestnetAssumption DEF NewGenesis, TypeOK
  <2>2. \A m \in Nodes : genesis'[m] = genesis[m] \/ genesis'[m] = NewGenesis
    BY <1>2
  <2>3. DiskInv'
    BY <1>1, <2>1, <2>2 DEF IInv, DiskInv, GentxsBelong, Funded, Signable
  <2>4. QED
    BY <1>1, <2>3, RunSame DEF IInv, Declared
<1>5. \A m \in 0 .. node' - 1 : genesis'[m] = NewGenesis
  <2> TAKE m \in 0 .. node' - 1
  <2>1. m \in Nodes /\ (m \in 0 .. node - 1 \/ m = node)
    BY <1>1, TestnetAssumption DEF Nodes
  <2>2. QED
    BY <1>1, <1>2, <2>1 DEF IInv, CopyingInv
<1>6. NewGenesis' = NewGenesis
  BY <1>1, SameRun
<1>7. CopyingInv' /\ WritingInv' /\ CollectingInv'
  BY <1>1, <1>5, <1>6 DEF CopyingInv, WritingInv, CollectingInv, Finished
<1>8. QED
  BY <1>1, <1>3, <1>4, <1>7 DEF IInv

\* The node's own gentx is in its directory already.
LEMMA SkipOwnGentxInv == TypeOK /\ IInv /\ SkipOwnGentx => IInv'
<1> SUFFICES ASSUME TypeOK, IInv, SkipOwnGentx PROVE IInv'
  OBVIOUS
<1>1. /\ node < nodes /\ pc = "copy" /\ pc' = "copy" /\ node \in RunNodes
      /\ file = node /\ file' = file + 1 /\ file \in Nat /\ nodes \in Nat
      /\ UNCHANGED <<run, args, nodes, node, outcome, wiped, nodeKeys, validatorKeys, signStates,
                     accounts, seeds, gentxs, genesis, appToml>>
  BY TestnetAssumption DEF TypeOK, IInv, SkipOwnGentx, At, local, args, disk, keyFiles, identities,
     netFiles, RunNodes
<1>2. \A m \in RunNodes' : Prepared(m)'
  BY <1>1, PreparedStays DEF IInv
<1>3. DiskInv' /\ RunInv'
  BY <1>1, DiskSame, RunSame DEF IInv, RunInv, Declared
<1>4. /\ RunNodes' = RunNodes /\ NewGenesis' = NewGenesis /\ AllGentxs' = AllGentxs
      /\ \A m : Gentx(m)' = Gentx(m)
  BY <1>1, SameRun
<1>5. \A m \in 0 .. file' - 1 : Gentx(m) \in gentxs[node]
  BY <1>1 DEF IInv, CopyingInv, Prepared
<1>6. CopyingInv'
  BY <1>1, <1>4, <1>5 DEF IInv, CopyingInv
<1>7. QED
  BY <1>1, <1>2, <1>3, <1>6 DEF IInv, WritingInv, CollectingInv, Finished

\* A copied file is the gentx this run wrote for the other node.
LEMMA CopyGentxInv == TypeOK /\ IInv /\ CopyGentx => IInv'
<1> SUFFICES ASSUME TypeOK, IInv, CopyGentx PROVE IInv'
  OBVIOUS
<1>1. /\ node < nodes /\ pc = "copy" /\ node \in RunNodes /\ node \in Nodes /\ node \in Nat
      /\ file < nodes /\ file \in RunNodes /\ file # node /\ file \in Nat /\ nodes \in Nat
      /\ RunNodes \subseteq Nodes
      /\ UNCHANGED <<run, args, nodes, node, wiped, nodeKeys, validatorKeys, signStates,
                     accounts, seeds, genesis, config, appToml>>
  BY TestnetAssumption DEF TypeOK, IInv, CopyGentx, At, End, Exit, local, args, keyFiles,
     identities, netFiles, RunNodes, Nodes
<1> run \in Nat /\ wiped \in Nat /\ nodeKeys[file] =< run
  BY <1>1, TestnetAssumption DEF TypeOK, IInv, DiskInv
<1>2. CASE pc' = "idle"
  <2>1. gentxs' = [gentxs EXCEPT ![node] = Put(@, Torn(file))] /\ outcome' = "failed"
    BY <1>1, <1>2 DEF CopyGentx, End, Exit
  <2>2. FileInv(Torn(file))
    BY DEF Torn, FileInv
  <2>3. DiskInv'
    BY <1>1, <2>1, <2>2, DiskAfterPut DEF IInv
  <2>4. QED
    BY <1>2, <2>1, <2>3, EndInv
<1>3. CASE pc' = "copy"
  <2>1. PICK t \in gentxs[file] :
           /\ t.node = file /\ t.id = nodeKeys[file]
           /\ gentxs' = [gentxs EXCEPT ![node] = Put(@, t)]
           /\ file' = file + 1
           /\ outcome' = outcome
    BY <1>3 DEF CopyGentx, End, Exit
  <2>2. Gentx(file) \in gentxs[file] /\ Gentx(file).node = file /\ Gentx(file).id = nodeKeys[file]
    BY <1>1 DEF IInv, Prepared, Gentx
  <2>3. t = Gentx(file) /\ FileInv(t)
    BY <1>1, <2>1, <2>2 DEF IInv, DiskInv, FileInv
  <2>4. /\ DiskInv'
        /\ Gentx(file) \in gentxs'[node]
        /\ \A u \in gentxs[node] : u.node # file => u \in gentxs'[node]
        /\ \A m \in Nodes : m # node => gentxs'[m] = gentxs[m]
        /\ \A m \in Nodes : \A u \in gentxs'[m] : u = Gentx(file) \/ u \in gentxs[m]
    BY <1>1, <2>1, <2>3, DiskAfterPut DEF IInv
  <2>5. \A m : Gentx(m).node = m
    BY DEF Gentx
  <2>6. \A m \in RunNodes : Gentx(m) \in gentxs[m] => Gentx(m) \in gentxs'[m]
    BY <1>1, <2>4, <2>5
  <2>7. \A m \in RunNodes' : Prepared(m)'
    BY <1>1, <2>6, PreparedStays DEF IInv
  <2>8. /\ RunNodes' = RunNodes /\ NewGenesis' = NewGenesis /\ AllGentxs' = AllGentxs
        /\ \A m : Gentx(m)' = Gentx(m)
    BY <1>1, SameRun
  <2>9. \A m \in 0 .. file' - 1 : Gentx(m) \in gentxs'[node]
    <3> TAKE m \in 0 .. file' - 1
    <3>1. m \in 0 .. file - 1 \/ m = file
      BY <1>1, <2>1
    <3>2. QED
      BY <1>1, <2>4, <2>5, <3>1 DEF IInv, CopyingInv
  <2>10. \A n \in 0 .. node - 1 : AllGentxs \subseteq gentxs'[n]
    <3> TAKE n \in 0 .. node - 1
    <3>1. n \in Nodes /\ n # node
      BY <1>1, TestnetAssumption DEF Nodes
    <3>2. QED
      BY <1>1, <2>4, <3>1 DEF IInv, CopyingInv
  <2>11. CopyingInv'
    <3>1. /\ \A m \in RunNodes' : genesis'[m] = NewGenesis'
          /\ \A n \in 0 .. node' - 1 : AllGentxs' \subseteq gentxs'[n]
          /\ file' =< nodes'
      BY <1>1, <2>1, <2>8, <2>10 DEF IInv, CopyingInv
    <3>2. node' < nodes' => \A m \in 0 .. file' - 1 : Gentx(m)' \in gentxs'[node']
      BY <1>1, <2>8, <2>9
    <3>3. QED
      BY <1>3, <3>1, <3>2 DEF CopyingInv
  <2>12. RunInv'
    BY <1>1, <1>3, <2>4, <2>5, <2>8 DEF IInv, RunInv, Declared
  <2>13. QED
    BY <1>1, <1>3, <2>4, <2>7, <2>11, <2>12 DEF IInv, WritingInv, CollectingInv, Finished
<1>4. QED
  BY <1>1, <1>2, <1>3 DEF CopyGentx, End, Exit

\* When all files are copied the directory holds every gentx of the run.
LEMMA NextCopyInv == TypeOK /\ IInv /\ NextCopy => IInv'
<1> SUFFICES ASSUME TypeOK, IInv, NextCopy PROVE IInv'
  OBVIOUS
<1>1. /\ node < nodes /\ pc = "copy" /\ pc' = "copy" /\ node' = node + 1
      /\ file = nodes /\ file' = 0 /\ nodes \in Nat /\ node \in Nat
      /\ UNCHANGED <<run, args, nodes, outcome, wiped, nodeKeys, validatorKeys, signStates,
                     accounts, seeds, gentxs, genesis, appToml>>
  BY TestnetAssumption DEF TypeOK, IInv, NextCopy, At, local, args, disk, keyFiles, identities,
     netFiles
<1>2. \A m \in RunNodes' : Prepared(m)'
  BY <1>1, PreparedStays DEF IInv
<1>3. DiskInv' /\ RunInv'
  BY <1>1, DiskSame, RunSame DEF IInv, Declared
<1>4. RunNodes' = RunNodes /\ NewGenesis' = NewGenesis /\ AllGentxs' = AllGentxs
  BY <1>1, SameRun
<1>5. AllGentxs \subseteq gentxs[node]
  BY <1>1 DEF IInv, CopyingInv, AllGentxs, RunNodes
<1>6. \A n \in 0 .. node' - 1 : AllGentxs \subseteq gentxs[n]
  BY <1>1, <1>5 DEF IInv, CopyingInv
<1>7. CopyingInv'
  BY <1>1, <1>4, <1>6 DEF IInv, CopyingInv
<1>8. QED
  BY <1>1, <1>2, <1>3, <1>7 DEF IInv, WritingInv, CollectingInv, Finished

\* What CollectTxs accepts from a node's directory is exactly this run's gentxs:
\* another file has no account that this run's genesis knows.
LEMMA CollectedAreAll ==
    ASSUME TypeOK, IInv, CollectGentxs
    PROVE  gentxs[node] = AllGentxs /\ genesis[node] = NewGenesis
<1>1. pc = "collect" /\ node < nodes /\ node \in RunNodes /\ node \in Nodes
  BY TestnetAssumption DEF TypeOK, CollectGentxs, At, RunNodes, Nodes
<1>2. genesis[node] = NewGenesis /\ AllGentxs \subseteq gentxs[node]
  BY <1>1 DEF IInv, CollectingInv
<1>3. ASSUME NEW t \in gentxs[node] PROVE t \in AllGentxs
  <2>1. <<t.node, t.account>> \in Funded(genesis[node])
    BY DEF CollectGentxs, Collectable
  <2>2. t.node \in RunNodes /\ t.account = run
    BY <1>2, <2>1 DEF Funded, NewGenesis, RunNodes
  <2>3. t = Gentx(t.node)
    BY <1>1, <2>2 DEF IInv, RunInv
  <2>4. QED
    BY <2>2, <2>3 DEF AllGentxs
<1>4. QED
  BY <1>2, <1>3

\* A genesis file of exactly this run's gentxs names validators with a balance in it,
\* and with the keys on disk, which can sign.
LEMMA DiskAfterCollecting ==
    ASSUME TypeOK, IInv, NEW n \in Nodes,
           \A m \in RunNodes : Prepared(m),
           genesis'[n] = [run |-> run, nodes |-> nodes, gentxs |-> AllGentxs],
           \A m \in Nodes : m # n => genesis'[m] = genesis[m],
           UNCHANGED <<run, wiped, nodeKeys, validatorKeys, signStates, gentxs>>
    PROVE  DiskInv'
<1>1. \A t \in AllGentxs : /\ t.node \in RunNodes /\ t.account = run
                          /\ t.id = nodeKeys[t.node] /\ Signable(t)
  BY DEF AllGentxs, Gentx, Prepared, Signable
<1>2. \A t \in genesis'[n].gentxs : /\ <<t.node, t.account>> \in Funded(genesis'[n])
                                   /\ t.id = nodeKeys[t.node] /\ Signable(t)
  BY <1>1 DEF Funded, RunNodes
<1>3. genesis'[n].run \in 0 .. run
  BY TestnetAssumption DEF TypeOK
<1>4. GentxsBelong'
  BY <1>2 DEF IInv, DiskInv, GentxsBelong, Funded, Signable
<1>5. \A t : Signable(t)' <=> Signable(t)
  BY DEF Signable
<1>6. ASSUME NEW m \in Nodes
      PROVE  /\ genesis'[m].run \in 0 .. run
             /\ genesis'[m].run > wiped => \A t \in genesis'[m].gentxs : Signable(t)
  BY <1>2, <1>3 DEF IInv, DiskInv
<1>7. QED
  BY <1>4, <1>5, <1>6 DEF IInv, DiskInv

\* The node's genesis file takes the gentxs of its directory, which are the run's.
LEMMA CollectGentxsInv == TypeOK /\ IInv /\ CollectGentxs => IInv'
<1> SUFFICES ASSUME TypeOK, IInv, CollectGentxs PROVE IInv'
  OBVIOUS
<1>1. /\ node < nodes /\ pc = "collect" /\ pc' = "overwrite" /\ node \in RunNodes
      /\ node \in Nodes /\ node \in Nat /\ nodes \in Nat /\ nodes =< MaxNodes
      /\ UNCHANGED <<run, args, nodes, node, outcome, wiped, nodeKeys, validatorKeys, signStates,
                     accounts, seeds, gentxs, appToml>>
  BY TestnetAssumption DEF TypeOK, CollectGentxs, At, args, keyFiles, identities, RunNodes, Nodes
<1>2. gentxs[node] = AllGentxs /\ genesis[node] = NewGenesis
  BY CollectedAreAll
<1>3. /\ genesis'[node] = [run |-> run, nodes |-> nodes, gentxs |-> AllGentxs]
      /\ \A m \in Nodes : m # node => genesis'[m] = genesis[m] /\ config'[m] = config[m]
      /\ config'[node] = NodeConfig(node)
  BY <1>1, <1>2 DEF CollectGentxs, TypeOK, NewGenesis
<1>4. \A m \in RunNodes' : Prepared(m)'
  BY <1>1, PreparedStays DEF IInv
<1>5. DiskInv' /\ RunInv'
  <2>1. \A m \in RunNodes : Prepared(m)
    BY <1>1 DEF IInv
  <2>2. QED
    BY <1>1, <1>3, <2>1, DiskAfterCollecting, RunSame DEF IInv, Declared
<1>6. /\ RunNodes' = RunNodes /\ NewGenesis' = NewGenesis /\ AllGentxs' = AllGentxs
      /\ \A n : NodeConfig(n)' = NodeConfig(n)
  BY <1>1, SameRun
<1>7. appState' = AllGentxs
  <2>1. CASE node = 0
    BY <1>2, <2>1 DEF CollectGentxs
  <2>2. CASE node # 0
    BY <1>1, <2>2 DEF CollectGentxs, IInv, CollectingInv
  <2>3. QED
    BY <2>1, <2>2
<1>8. \A n \in node + 1 .. nodes - 1 : genesis'[n] = NewGenesis
  <2> TAKE n \in node + 1 .. nodes - 1
  <2>1. n \in Nodes /\ n # node
    BY <1>1, TestnetAssumption DEF Nodes
  <2>2. QED
    BY <1>1, <1>3, <2>1 DEF IInv, CollectingInv
<1>9. \A n \in 0 .. node - 1 : Collected(n)'
  <2> TAKE n \in 0 .. node - 1
  <2>1. n \in Nodes /\ n # node
    BY <1>1, TestnetAssumption DEF Nodes
  <2>2. QED
    BY <1>1, <1>3, <1>6, <2>1 DEF IInv, CollectingInv, Collected
<1>10. CollectingInv'
  <2>1. \A n \in RunNodes' : AllGentxs' \subseteq gentxs'[n]
    BY <1>1, <1>6 DEF IInv, CollectingInv
  <2>2. config'[node'] = NodeConfig(node)'
    BY <1>1, <1>3, <1>6
  <2>3. NodeConfig(node') = NodeConfig(node)
    BY <1>1
  <2>4. QED
    BY <1>1, <1>3, <1>6, <1>7, <1>8, <1>9, <2>1, <2>2, <2>3 DEF CollectingInv, Finished
<1>11. QED
  BY <1>1, <1>4, <1>5, <1>10 DEF IInv, WritingInv, CopyingInv, Finished

\* Every node's genesis file becomes the first node's, and stays it.
LEMMA OverwriteGenesisInv == TypeOK /\ IInv /\ OverwriteGenesis => IInv'
<1> SUFFICES ASSUME TypeOK, IInv, OverwriteGenesis PROVE IInv'
  OBVIOUS
<1>1. /\ node < nodes /\ pc = "overwrite" /\ pc' = "collect" /\ node' = node + 1
      /\ node \in Nodes /\ node \in Nat /\ nodes \in Nat /\ nodes =< MaxNodes
      /\ UNCHANGED <<run, args, nodes, outcome, appState, wiped, nodeKeys, validatorKeys,
                     signStates, accounts, seeds, gentxs, config, appToml>>
  BY TestnetAssumption DEF TypeOK, OverwriteGenesis, At, Advance, local, args, keyFiles,
     identities, Nodes
<1>2. appState = AllGentxs /\ config[node] = NodeConfig(node)
  BY <1>1 DEF IInv, CollectingInv
<1>3. /\ genesis'[node] = [run |-> run, nodes |-> nodes, gentxs |-> AllGentxs]
      /\ \A m \in Nodes : m # node => genesis'[m] = genesis[m]
  BY <1>1, <1>2 DEF OverwriteGenesis, TypeOK
<1>4. \A m \in RunNodes' : Prepared(m)'
  BY <1>1, PreparedStays DEF IInv
<1>5. DiskInv' /\ RunInv'
  <2>1. \A m \in RunNodes : Prepared(m)
    BY <1>1 DEF IInv
  <2>2. QED
    BY <1>1, <1>3, <2>1, DiskAfterCollecting, RunSame DEF IInv, Declared
<1>6. /\ RunNodes' = RunNodes /\ NewGenesis' = NewGenesis /\ AllGentxs' = AllGentxs
      /\ \A n : NodeConfig(n)' = NodeConfig(n)
  BY <1>1, SameRun
<1>7. \A n \in node + 1 .. nodes - 1 : genesis'[n] = NewGenesis
  <2> TAKE n \in node + 1 .. nodes - 1
  <2>1. n \in Nodes /\ n # node
    BY <1>1, TestnetAssumption DEF Nodes
  <2>2. QED
    BY <1>1, <1>3, <2>1 DEF IInv, CollectingInv
<1>8. \A n \in 0 .. node' - 1 : Collected(n)'
  <2> TAKE n \in 0 .. node' - 1
  <2>1. n \in Nodes /\ ((n \in 0 .. node - 1 /\ n # node) \/ n = node)
    BY <1>1, TestnetAssumption DEF Nodes
  <2>2. CASE n = node
    BY <1>1, <1>2, <1>3, <1>6, <2>2 DEF Collected
  <2>3. CASE n \in 0 .. node - 1 /\ n # node
    BY <1>1, <1>3, <1>6, <2>1, <2>3 DEF IInv, CollectingInv, Collected
  <2>4. QED
    BY <2>1, <2>2, <2>3
<1>9. CollectingInv'
  <2>1. \A n \in RunNodes' : AllGentxs' \subseteq gentxs'[n]
    BY <1>1, <1>6 DEF IInv, CollectingInv
  <2>2. \A n \in node' + 1 .. nodes' - 1 : genesis'[n] = NewGenesis'
    BY <1>1, <1>6, <1>7
  <2>3. node' < nodes' => genesis'[node'] = NewGenesis'
    BY <1>1, <1>6, <1>7
  <2>4. QED
    BY <1>1, <1>2, <1>6, <1>8, <2>1, <2>2, <2>3 DEF CollectingInv, Finished
<1>10. QED
  BY <1>1, <1>4, <1>5, <1>9 DEF IInv, WritingInv, CopyingInv, Finished

\* A loop that has visited all nodes leaves to the next one what it promised for each.
LEMMA NextLoopInv == TypeOK /\ IInv /\ NextLoop => IInv'
<1> SUFFICES ASSUME TypeOK, IInv, NextLoop PROVE IInv'
  OBVIOUS
<1>1. /\ node = nodes /\ node' = 0 /\ nodes \in Nat /\ pc # "idle" /\ file' = file
      /\ UNCHANGED <<run, args, nodes, appState, wiped, nodeKeys, validatorKeys, signStates,
                     accounts, seeds, gentxs, genesis, config, appToml>>
  BY TestnetAssumption DEF TypeOK, IInv, NextLoop, LoopEnd, local, args, disk, keyFiles,
     identities, netFiles
<1>2. /\ RunNodes' = RunNodes /\ NewGenesis' = NewGenesis /\ AllGentxs' = AllGentxs
      /\ \A n : NodeConfig(n)' = NodeConfig(n) /\ Gentx(n)' = Gentx(n)
  BY <1>1, SameRun
<1>3. \A m \in RunNodes : Prepared(m)
  BY <1>1 DEF IInv, WritingInv, RunNodes, NextLoop, LoopEnd
<1>4. \A m \in RunNodes' : Prepared(m)'
  BY <1>1, <1>3, PreparedStays
<1>5. DiskInv' /\ RunInv'
  <2>1. pc' \in {"idle", "genesis", "copy", "collect"}
    BY DEF NextLoop, LoopEnd
  <2>2. CASE pc' = "idle"
    BY <1>1, <2>2, DiskSame DEF IInv, RunInv
  <2>3. CASE pc' # "idle"
    BY <1>1, <2>1, <2>3, DiskSame, RunSame DEF IInv, Declared
  <2>4. QED
    BY <2>2, <2>3
<1>6. CASE LoopEnd("files", pc' = "genesis" /\ UNCHANGED outcome)
  BY <1>1, <1>4, <1>5, <1>6
     DEF LoopEnd, IInv, WritingInv, CopyingInv, CollectingInv, Finished
<1>7. CASE LoopEnd("genesis", pc' = "copy" /\ UNCHANGED outcome)
  <2>1. pc' = "copy" /\ \A m \in RunNodes : genesis[m] = NewGenesis
    BY <1>1, <1>7 DEF LoopEnd, IInv, CopyingInv, RunNodes
  <2>2. file = 0
    BY <1>7 DEF LoopEnd, IInv
  <2>3. QED
    BY <1>1, <1>2, <1>4, <1>5, <2>1, <2>2
       DEF IInv, WritingInv, CopyingInv, CollectingInv, Finished
<1>8. CASE LoopEnd("copy", pc' = "collect" /\ UNCHANGED outcome)
  <2>1. pc = "copy" /\ pc' = "collect"
    BY <1>8 DEF LoopEnd
  <2>2. /\ \A m \in RunNodes : genesis[m] = NewGenesis
        /\ \A n \in RunNodes : AllGentxs \subseteq gentxs[n]
    BY <1>1, <2>1 DEF IInv, CopyingInv, RunNodes
  <2>3. CollectingInv'
    BY <1>1, <1>2, <2>1, <2>2 DEF CollectingInv, Finished, RunNodes
  <2>4. QED
    BY <1>1, <1>4, <1>5, <2>1, <2>3 DEF IInv, WritingInv, CopyingInv, Finished
<1>9. CASE LoopEnd("collect", pc' = "idle" /\ outcome' = "done")
  <2>1. pc = "collect" /\ pc' = "idle" /\ outcome' = "done"
    BY <1>9 DEF LoopEnd
  <2>2. \A n \in RunNodes : Collected(n)
    BY <1>1, <2>1 DEF IInv, CollectingInv, RunNodes
  <2>3. \A n \in RunNodes' : Collected(n)'
    BY <1>1, <1>2, <2>2 DEF Collected
  <2>4. QED
    BY <1>1, <1>4, <1>5, <2>1, <2>3 DEF IInv, WritingInv, CopyingInv, CollectingInv, Finished
<1>10. QED
  BY <1>6, <1>7, <1>8, <1>9 DEF NextLoop

\* What a removal leaves was made before it.
LEMMA CleanUpInv == TypeOK /\ IInv /\ CleanUp => IInv'
<1> SUFFICES ASSUME TypeOK, IInv, CleanUp PROVE IInv'
  OBVIOUS
<1>1. PICK rest \in Remains : RemoveAll(rest)
  BY DEF CleanUp
<1>2. /\ pc' = "idle" /\ outcome' = "cleaned" /\ wiped' = run /\ run' = run /\ run \in Nat
  BY TestnetAssumption DEF CleanUp, Exit, local, TypeOK
<1>3. \A n \in Nodes : gentxs'[n] \subseteq gentxs[n]
  BY <1>1 DEF RemoveAll
<1>4. \A n \in Nodes : genesis'[n] = genesis[n] \/ genesis'[n] = NoGenesis
  BY <1>1 DEF RemoveAll
<1>5. \A n \in Nodes : nodeKeys'[n] =< run /\ genesis'[n].run \in 0 .. run
  <2> TAKE n \in Nodes
  <2>1. nodeKeys[n] =< run /\ genesis[n].run \in 0 .. run
    BY DEF IInv, DiskInv
  <2>2. nodeKeys'[n] \in {0, nodeKeys[n]}
    BY <1>1 DEF RemoveAll
  <2>3. QED
    BY <1>2, <1>4, <2>1, <2>2 DEF NoGenesis
<1>6. GentxsBelong'
  <2>1. ASSUME NEW n \in Nodes, NEW t \in genesis'[n].gentxs
        PROVE  <<t.node, t.account>> \in Funded(genesis'[n])
    BY <1>4, <2>1 DEF IInv, DiskInv, GentxsBelong, NoGenesis
  <2>2. \A n \in Nodes : ~(genesis'[n].run > wiped')
    BY <1>2, <1>5
  <2>3. QED
    BY <2>1, <2>2 DEF GentxsBelong, Funded
<1>7. \A n \in Nodes : \A t \in gentxs'[n] : /\ t.id =< run /\ t.account =< run
                                            /\ ~(t.id > wiped') /\ ~(t.account > wiped')
  BY <1>2, <1>3 DEF IInv, DiskInv, TypeOK, AreGentxs
<1>8. \A n \in Nodes : \A t, u \in gentxs'[n] : t.node = u.node /\ t.id = u.id => t = u
  BY <1>3 DEF IInv, DiskInv
<1>9. \A n \in Nodes : ~(genesis'[n].run > wiped')
  BY <1>2, <1>5
<1>10. DiskInv'
  BY <1>2, <1>5, <1>6, <1>7, <1>8, <1>9 DEF DiskInv
<1>11. QED
  BY <1>2, <1>10, EndInv

\* A run that is cut short leaves its files.
LEMMA AbortInv == TypeOK /\ IInv /\ (RejectGentxs \/ Interrupt) => IInv'
<1> SUFFICES ASSUME TypeOK, IInv, RejectGentxs \/ Interrupt PROVE IInv'
  OBVIOUS
<1>1. /\ pc' = "idle" /\ outcome' # "done"
      /\ UNCHANGED <<run, wiped, nodeKeys, validatorKeys, signStates, gentxs, genesis>>
  BY DEF RejectGentxs, Interrupt, End, Exit, local, disk, keyFiles, identities, netFiles
<1>2. DiskInv'
  BY <1>1, DiskSame DEF IInv
<1>3. QED
  BY <1>1, <1>2, EndInv

\* The invariant does not depend on anything but the variables.
LEMMA StutterInv == IInv /\ UNCHANGED vars => IInv'
<1> SUFFICES ASSUME IInv, UNCHANGED vars PROVE IInv'
  OBVIOUS
<1>1. /\ UNCHANGED <<pc, run, args, nodes, node, file, outcome, appState>>
      /\ UNCHANGED <<wiped, nodeKeys, validatorKeys, signStates, accounts, seeds, gentxs,
                     genesis, config, appToml>>
  BY DEF vars, local, args, disk, keyFiles, identities, netFiles
<1>2. /\ RunNodes' = RunNodes /\ NewGenesis' = NewGenesis /\ AllGentxs' = AllGentxs
      /\ \A n : NodeConfig(n)' = NodeConfig(n) /\ Gentx(n)' = Gentx(n)
  BY <1>1, SameRun
<1>3. \A n : (Prepared(n)' <=> Prepared(n)) /\ (Collected(n)' <=> Collected(n))
  BY <1>1, <1>2 DEF Prepared, Collected, AppToml
<1>4. DiskInv' /\ RunInv'
  BY <1>1, <1>2, DiskSame DEF IInv, RunInv, Declared
<1>5. WritingInv' /\ CopyingInv' /\ CollectingInv'
  BY <1>1, <1>2, <1>3 DEF IInv, WritingInv, CopyingInv, CollectingInv, Finished
<1>6. QED
  BY <1>1, <1>2, <1>3, <1>4, <1>5 DEF IInv, Finished

\* The types and the invariant hold at every step of every run.
LEMMA Invariance == Spec => [](TypeOK /\ IInv)
<1>1. Init => TypeOK /\ IInv
  BY InitTyped, InitInv
<1>2. TypeOK /\ IInv /\ [Next]_vars => (TypeOK /\ IInv)'
  <2> SUFFICES ASSUME TypeOK, IInv, [Next]_vars PROVE IInv'
    BY StepTyped
  <2>1. CASE Start
    BY <2>1, StartInv
  <2>2. CASE \/ LoadOrGenNodeKey \/ LoadOrGenFilePV \/ SaveSignState
            \/ SaveKey \/ WriteSeed \/ WriteGentx \/ WriteAppToml
    BY <2>2, LoadOrGenNodeKeyInv, LoadOrGenFilePVInv, SaveSignStateInv, SaveKeyInv, WriteSeedInv, WriteGentxInv, WriteAppTomlInv
  <2>3. CASE InitGenFile \/ SkipOwnGentx \/ CopyGentx \/ NextCopy
    BY <2>3, InitGenFileInv, SkipOwnGentxInv, CopyGentxInv, NextCopyInv
  <2>4. CASE CollectGentxs \/ OverwriteGenesis \/ NextLoop
    BY <2>4, CollectGentxsInv, OverwriteGenesisInv, NextLoopInv
  <2>5. CASE RejectGentxs \/ CleanUp \/ Interrupt
    BY <2>5, AbortInv, CleanUpInv
  <2>6. CASE UNCHANGED vars
    BY <2>6, StutterInv
  <2>7. QED
    BY <2>1, <2>2, <2>3, <2>4, <2>5, <2>6 DEF Next, Step
<1>3. QED
  BY <1>1, <1>2, PTL DEF Spec

-----------------------------------------------------------------------------
(* What it implies. *)

\* Every variable of the command and of the output directory keeps its type.
THEOREM TypeCorrect == Spec => []TypeOK
BY Invariance, PTL

\* A run that reports success wrote one and the same genesis file for every
\* node, with this run's validators and no other, for any number of nodes, any
\* flags and whatever earlier runs left behind.
THEOREM FinishedIsComplete == Spec => []CompleteTestnet
<1>1. TypeOK /\ IInv => CompleteTestnet
  BY DEF IInv, CollectingInv, Prepared, Collected, CompleteTestnet, AllGentxs, Finished
<1>2. QED
  BY <1>1, Invariance, PTL

\* At no time, also in the middle of a run, does a genesis file name a validator without
\* balance in it; and one that was written since the last removal, complete or not, names
\* the keys that its nodes hold.
THEOREM GentxsAlwaysBelong == Spec => []GentxsBelong
<1>1. TypeOK /\ IInv => GentxsBelong
  BY DEF IInv, DiskInv
<1>2. QED
  BY <1>1, Invariance, PTL

\* Whatever step a run or a removal stopped at: what names a validator key without its
\* sign state, on which runs exit, is older than the last removal.
THEOREM StuckKeysStayUnused == Spec => []StuckKeysUnused
<1>1. ASSUME TypeOK, IInv, NEW n \in Nodes, Stuck(n), NEW m \in Nodes
      PROVE  /\ \A t \in gentxs[m] : t.node = n => t.account =< wiped
             /\ \A t \in genesis[m].gentxs : t.node = n => genesis[m].run =< wiped
  <2>1. wiped \in Int /\ genesis[m].run \in Int /\ \A t \in gentxs[m] : t.account \in Int
    BY <1>1, TestnetAssumption DEF TypeOK, AreGentxs, IInv, DiskInv
  <2>2. \A t : t.node = n => ~Signable(t)
    BY <1>1 DEF Stuck, Signable
  <2>3. QED
    BY <1>1, <2>1, <2>2 DEF IInv, DiskInv
<1>2. TypeOK /\ IInv => StuckKeysUnused
  BY <1>1 DEF StuckKeysUnused
<1>3. QED
  BY <1>2, Invariance, PTL

\* What CollectTxs refuses in a node's directory is of a node beyond this run, a stake
\* above the balance, or of an identity that a removal took: a file of a node of this run
\* and of the id it has now is this run's.
LEMMA RefusedIsExplained ==
    ASSUME TypeOK, IInv, RejectGentxs
    PROVE  \E t \in gentxs[node] : t.node >= nodes \/ AboveBalance(t) \/ LostIdentity(t)
<1>1. pc = "collect" /\ node < nodes /\ node \in RunNodes /\ node \in Nodes /\ run > 0
  BY TestnetAssumption DEF TypeOK, IInv, RunInv, RejectGentxs, At, RunNodes, Nodes
<1>2. genesis[node] = NewGenesis /\ AllGentxs \subseteq gentxs[node]
  BY <1>1 DEF IInv, CollectingInv
<1>3. PICK t \in gentxs[node] : ~Collectable(t, genesis[node])
  BY DEF RejectGentxs
<1>4. t.node \in Nat /\ nodes \in Nat /\ t.id \in Nat /\ wiped \in Nat
  BY <1>1, TestnetAssumption DEF TypeOK, AreGentxs, Nodes
<1>5. CASE t.node < nodes /\ t.id = nodeKeys[t.node]
  <2>1. t.node \in RunNodes
    BY <1>4, <1>5 DEF RunNodes
  <2>2. Gentx(t.node) \in gentxs[node] /\ Gentx(t.node).node = t.node /\ Gentx(t.node).id = t.id
    BY <1>2, <1>5, <2>1 DEF AllGentxs, Gentx
  <2>3. t.account = run
    BY <1>1, <2>2 DEF IInv, DiskInv, Gentx
  <2>4. t.account # 0 /\ <<t.node, t.account>> \in Funded(genesis[node])
    BY <1>1, <1>2, <2>1, <2>3 DEF TypeOK, Funded, NewGenesis, RunNodes
  <2>5. QED
    BY <1>3, <2>4 DEF Collectable
<1>6. CASE t.id # nodeKeys[t.node]
  BY <1>1, <1>4, <1>6 DEF IInv, DiskInv, LostIdentity
<1>7. QED
  BY <1>3, <1>4, <1>5, <1>6

\* A refused run is over, and the explanation lies in the directory it stopped at.
RefusalInv == outcome = "rejected" => pc = "idle" /\ RejectionsExplained

\* Only RejectGentxs ends a run this way, and the next run starts a new outcome.
LEMMA RefusalStep == TypeOK /\ IInv /\ RefusalInv /\ [Next]_vars => RefusalInv'
<1> SUFFICES ASSUME TypeOK, IInv, RefusalInv, [Next]_vars PROVE RefusalInv'
  OBVIOUS
<1>1. CASE Start
  BY <1>1 DEF Start, RunE, RefusalInv
<1>2. CASE RejectGentxs
  <2>1. \E t \in gentxs[node] : t.node >= nodes \/ AboveBalance(t) \/ LostIdentity(t)
    BY <1>2, RefusedIsExplained
  <2>2. UNCHANGED <<gentxs, node, nodes, nodeKeys, wiped>> /\ pc' = "idle"
    BY <1>2 DEF RejectGentxs, End, Exit, local, args, disk, keyFiles, identities
  <2>3. QED
    BY <2>1, <2>2 DEF RefusalInv, RejectionsExplained, AboveBalance, LostIdentity
<1>3. CASE CleanUp \/ Interrupt
  BY <1>3 DEF CleanUp, Interrupt, End, Exit, RefusalInv
<1>4. CASE Step /\ ~RejectGentxs
  <2>1. pc # "idle"
    BY <1>4 DEF Step, At, LoadOrGenNodeKey, LoadOrGenFilePV, SaveSignState, SaveKey, WriteSeed, WriteGentx, WriteAppToml,
       InitGenFile, SkipOwnGentx, CopyGentx, NextCopy, CollectGentxs, OverwriteGenesis,
       NextLoop, LoopEnd
  <2>2. outcome' = outcome \/ outcome' \in {"failed", "exited", "done"}
    BY <1>4 DEF Step, Continue, Advance, End, Exit, LoadOrGenNodeKey, LoadOrGenFilePV,
       SaveSignState, SaveKey, WriteSeed, WriteGentx, WriteAppToml, InitGenFile, SkipOwnGentx, CopyGentx, NextCopy, CollectGentxs,
       OverwriteGenesis, NextLoop, LoopEnd
  <2>3. QED
    BY <2>1, <2>2 DEF RefusalInv
<1>5. CASE UNCHANGED vars
  BY <1>5 DEF vars, local, args, disk, keyFiles, identities, RefusalInv, RejectionsExplained,
     AboveBalance, LostIdentity
<1>6. QED
  BY <1>1, <1>2, <1>3, <1>4, <1>5 DEF Next

\* A run that CollectTxs refused met files of a larger earlier run, a stake above the
\* balance, or files that a removal left without their node's key, whatever runs used the
\* directory before and wherever they stopped.
THEOREM RejectionsAreExplained == Spec => []RejectionsExplained
<1>1. Init => RefusalInv
  BY DEF Init, RefusalInv
<1>2. RefusalInv => RejectionsExplained
  BY DEF RefusalInv, RejectionsExplained
<1>3. QED
  BY <1>1, <1>2, RefusalStep, Invariance, PTL DEF Spec

\* The ports as the code computes them, and whose they are.
PortsOf(n) == {<<n, "p2p", P2PPort(n)>>, <<n, "rpc", DefaultRPCPort(n)>>,
               <<n, "proxy", ProxyPort(n)>>, <<n, "prometheus", PrometheusPort(n)>>,
               <<n, "grpc", GRPCPort(n)>>, <<n, "api", APIPort(n)>>}

\* Counting down by one, two and three from their bases, the ports of the first
\* 1317 nodes stay apart: the 1318th would get an API port of zero.
LEMMA PortsApart ==
    ASSUME NEW n \in Nat, NEW m \in Nat, n < 1317, m < 1317
    PROVE  /\ \A a \in PortsOf(n) : a[3] > 0 /\ a[3] < 65536
           /\ \A a \in PortsOf(n), b \in PortsOf(m) : a[3] = b[3] => a = b
<1>1. ASSUME NEW a \in PortsOf(n) PROVE a[3] > 0 /\ a[3] < 65536
  <2>1. a[3] \in {P2PPort(n), DefaultRPCPort(n), ProxyPort(n), PrometheusPort(n),
                  GRPCPort(n), APIPort(n)}
    BY DEF PortsOf
  <2>2. QED
    BY <2>1 DEF P2PPort, DefaultRPCPort, ProxyPort, PrometheusPort, GRPCPort, APIPort
<1>2. ASSUME NEW a \in PortsOf(n), NEW b \in PortsOf(m), a[3] = b[3] PROVE a = b
  <2> DEFINE Place(k, c) ==
               \/ c[2] = "p2p" /\ c[3] = P2PPort(k)
               \/ c[2] = "rpc" /\ c[3] = DefaultRPCPort(k)
               \/ c[2] = "proxy" /\ c[3] = ProxyPort(k)
               \/ c[2] = "prometheus" /\ c[3] = PrometheusPort(k)
               \/ c[2] = "grpc" /\ c[3] = GRPCPort(k)
               \/ c[2] = "api" /\ c[3] = APIPort(k)
  <2>1. ASSUME NEW k, NEW c \in PortsOf(k) PROVE c = <<k, c[2], c[3]>> /\ Place(k, c)
    BY <2>1 DEF PortsOf
  <2>2. n = m /\ a[2] = b[2]
    BY <1>2, <2>1 DEF P2PPort, DefaultRPCPort, ProxyPort, PrometheusPort, GRPCPort, APIPort
  <2>3. QED
    BY <1>2, <2>1, <2>2
<1>3. QED
  BY <1>1, <1>2

\* In a finished testnet with default RPC ports the files name these ports.
LEMMA ListenersAsComputed ==
    ASSUME TypeOK, IInv, Finished, ports = ParsePorts(<< >>, nodes),
           NEW n \in RunNodes
    PROVE  /\ config[n].p2p = P2PPort(n) /\ config[n].rpc = DefaultRPCPort(n)
           /\ config[n].proxy = ProxyPort(n) /\ config[n].prometheus = PrometheusPort(n)
           /\ config[n].peers = {Peer(m) : m \in RunNodes}
           /\ appToml[n].grpc = GRPCPort(n) /\ appToml[n].api = APIPort(n)
<1>1. nodes \in Nat /\ n \in Nat /\ n < nodes
  BY TestnetAssumption DEF TypeOK, RunNodes
<1>2. config[n] = NodeConfig(n) /\ appToml[n] = AppToml(n)
  BY DEF IInv, CollectingInv, Collected, Prepared
<1>3. RPCPort(n) = DefaultRPCPort(n)
  <2>1. ports = [k \in 1 .. nodes |-> DefaultRPCPort(k - 1)]
    BY DEF ParsePorts
  <2>2. n + 1 \in DOMAIN ports /\ ports[n + 1] = DefaultRPCPort(n)
    BY <1>1, <2>1 DEF DefaultRPCPort
  <2>3. QED
    BY <2>2 DEF RPCPort, EntryOr
<1>4. QED
  BY <1>2, <1>3 DEF NodeConfig, AppToml

\* All nodes of a testnet with default RPC ports can run on one host, and find
\* each other there, for every number of nodes the port arithmetic has room for.
THEOREM RunsOnOneHost ==
    ASSUME MaxNodes =< 1317
    PROVE  Spec => []OneHost
<1>1. ASSUME TypeOK, IInv, Finished, ports = ParsePorts(<< >>, nodes)
      PROVE  /\ \A a, b \in Listeners : a[3] = b[3] => a = b
             /\ \A a \in Listeners : a[3] > 0 /\ a[3] < 65536
             /\ \A n, m \in RunNodes :
                    [node |-> m, id |-> nodeKeys[m], port |-> config[m].p2p] \in config[n].peers
  <2>1. \A n \in RunNodes : n \in Nat /\ n < 1317
    BY <1>1, TestnetAssumption DEF RunNodes, TypeOK
  <2>2. \A a \in Listeners : \E n \in RunNodes : a \in PortsOf(n)
    BY <1>1, ListenersAsComputed DEF Listeners, PortsOf
  <2>3. ASSUME NEW a \in Listeners, NEW b \in Listeners, a[3] = b[3] PROVE a = b
    <3>1. PICK n \in RunNodes, m \in RunNodes : a \in PortsOf(n) /\ b \in PortsOf(m)
      BY <2>2
    <3>2. QED
      BY <2>1, <2>3, <3>1, PortsApart
  <2>4. ASSUME NEW a \in Listeners PROVE a[3] > 0 /\ a[3] < 65536
    <3>1. PICK n \in RunNodes : a \in PortsOf(n)
      BY <2>2
    <3>2. QED
      BY <2>1, <3>1, PortsApart
  <2>5. \A n, m \in RunNodes :
           [node |-> m, id |-> nodeKeys[m], port |-> config[m].p2p] \in config[n].peers
    BY <1>1, ListenersAsComputed DEF Peer
  <2>6. QED
    BY <2>3, <2>4, <2>5
<1>2. TypeOK /\ IInv => OneHost
  BY <1>1 DEF OneHost
<1>3. QED
  BY <1>2, Invariance, PTL

-----------------------------------------------------------------------------
(* The promise. *)

\* What the last run was asked for.
Asked == [n \in RunNodes |-> StakeOf(n)]

LEMMA SameAsked == ASSUME UNCHANGED args PROVE Asked' = Asked /\ RunNodes' = RunNodes
<1>1. UNCHANGED <<nodes, stakes>>
  BY DEF args
<1>2. RunNodes' = RunNodes /\ \A n : StakeOf(n)' = StakeOf(n)
  BY <1>1 DEF RunNodes, StakeOf
<1>3. QED
  BY <1>2 DEF Asked

\* Files that were collected say what the run was asked for.
LEMMA NetworkAsked ==
    ASSUME NEW n \in RunNodes, Collected(n)
    PROVE  Network(n) =
             [validators |-> {[node |-> m, key |-> validatorKeys[m], stake |-> Asked[m]] : m \in RunNodes},
              peers |-> {[node |-> m, id |-> nodeKeys[m]] : m \in RunNodes}]
<1>1. genesis[n].gentxs = {Gentx(m) : m \in RunNodes}
  BY DEF Collected, AllGentxs
<1>2. config[n].peers = {Peer(m) : m \in RunNodes}
  BY DEF Collected, NodeConfig
<1>3. \A m \in RunNodes : Asked[m] = StakeOf(m)
  BY DEF Asked
<1>4. {[node |-> t.node, key |-> t.key, stake |-> t.stake] : t \in genesis[n].gentxs}
          = {[node |-> m, key |-> validatorKeys[m], stake |-> Asked[m]] : m \in RunNodes}
  <2>1. \A m \in RunNodes :
           Gentx(m).node = m /\ Gentx(m).key = validatorKeys[m] /\ Gentx(m).stake = Asked[m]
    BY <1>3 DEF Gentx
  <2>2. QED
    BY <1>1, <2>1
<1>5. {[node |-> p.node, id |-> p.id] : p \in config[n].peers}
          = {[node |-> m, id |-> nodeKeys[m]] : m \in RunNodes}
  <2>1. \A m \in RunNodes : Peer(m).node = m /\ Peer(m).id = nodeKeys[m]
    BY DEF Peer
  <2>2. QED
    BY <1>2, <2>1
<1>6. QED
  BY <1>4, <1>5 DEF Network

\* The ids of the nodes: a file that was cut short is none.
Ids == [n \in Nodes |-> IF nodeKeys[n] = Cut THEN 0 ELSE nodeKeys[n]]

\* A run that gives one of its nodes a key does what the promise calls making one.
LEMMA KeyMade ==
    ASSUME NEW keys, NEW newKeys, NEW m \in RunNodes, NEW k,
           m \in DOMAIN keys, keys[m] = 0, k # 0, newKeys = [keys EXCEPT ![m] = k]
    PROVE  Promise!Made(keys, newKeys)
<1>1. newKeys[m] = k
  OBVIOUS
<1>2. m \in DOMAIN [n \in RunNodes |-> StakeOf(n)]
  OBVIOUS
<1>3. QED
  BY <1>1, <1>2 DEF Promise!Made

LEMMA PromiseSteps ==
    ASSUME TypeOK, IInv, [Next]_vars
    PROVE  [Promise!Next]_Promise!vars
<1> SUFFICES Promise!Next \/ UNCHANGED Promise!vars
  OBVIOUS
<1> USE DEF Promise!NoTestnet
<1>1. CASE Start
  <2>0. nodes' \in 0 .. MaxNodes
    BY <1>1 DEF Start, RunE
  <2>1. pc = "idle" /\ ~Finished' /\ UNCHANGED <<nodeKeys, validatorKeys>>
    BY <1>1 DEF Start, RunE, Finished, disk, keyFiles, identities
  <2>2. RunNodes' \subseteq Nodes
    <3>1. RunNodes' = 0 .. nodes' - 1
      BY DEF RunNodes
    <3>2. \A m \in 0 .. nodes' - 1 : m \in Nodes
      <4> DEFINE v == nodes'
      <4>1. v \in 0 .. MaxNodes
        BY <2>0
      <4> HIDE DEF v
      <4>2. \A m \in 0 .. v - 1 : m \in 0 .. MaxNodes - 1
        BY <4>1, TestnetAssumption
      <4>3. QED
        BY <4>2 DEF v, Nodes
    <3>3. QED
      BY <3>1, <3>2
  <2>3. Promise!Start
    BY <2>1, <2>2 DEF Promise!Start
  <2>4. QED
    BY <2>3 DEF Promise!Next
<1>2. CASE LoadOrGenNodeKey
  <2>1. /\ pc = "files" /\ pc' # "idle" /\ ~Finished /\ ~Finished' /\ UNCHANGED <<args, validatorKeys>>
        /\ node \in RunNodes /\ node \in Nodes /\ run > 0
    BY <1>2, TestnetAssumption
       DEF LoadOrGenNodeKey, At, Continue, local, Finished, TypeOK, IInv, RunInv, RunNodes, Nodes
  <2>2. Asked' = Asked
    BY <2>1, SameAsked
  <2>3. CASE Ids' = Ids
    BY <2>1, <2>2, <2>3 DEF Promise!vars, Asked, Ids
  <2>4. CASE Ids' # Ids
    <3>1. nodeKeys[node] = 0 /\ nodeKeys' = [nodeKeys EXCEPT ![node] = run]
      BY <1>2, <2>1, <2>4, TestnetAssumption DEF LoadOrGenNodeKey, TypeOK, Ids, Cut
    <3>2. Ids[node] = 0 /\ Ids' = [Ids EXCEPT ![node] = run]
      <4>1. \A n \in Nodes : nodeKeys'[n] = IF n = node THEN run ELSE nodeKeys[n]
        BY <3>1 DEF TypeOK
      <4>2. run # Cut
        BY <2>1, TestnetAssumption DEF Cut, TypeOK
      <4>3. QED
        BY <2>1, <3>1, <4>1, <4>2 DEF Ids
    <3>3. Promise!Made(Ids, Ids')
      <4>1. node \in DOMAIN Ids /\ run # 0
        BY <2>1 DEF Ids
      <4>2. QED
        BY <2>1, <3>2, <4>1, KeyMade
    <3>4. Promise!Identify
      BY <2>1, <2>2, <3>3 DEF Promise!Identify, Asked, Ids
    <3>5. QED
      BY <3>4 DEF Promise!Next
  <2>5. QED
    BY <2>3, <2>4
<1>3. CASE LoadOrGenFilePV
  <2>1. /\ pc = "validator" /\ ~Finished /\ ~Finished' /\ UNCHANGED <<args, nodeKeys>>
        /\ node \in RunNodes /\ node \in Nodes /\ run > 0
        /\ pc' = "idle" => UNCHANGED validatorKeys
    BY <1>3, TestnetAssumption
       DEF LoadOrGenFilePV, At, Continue, End, Exit, local, Finished, TypeOK, IInv, RunInv,
           RunNodes, Nodes
  <2>2. Asked' = Asked
    BY <2>1, SameAsked
  <2>3. CASE validatorKeys' = validatorKeys
    <3>1. CASE pc' = "idle"
      BY <2>1, <2>2, <2>3, <3>1 DEF Promise!Next, Promise!Fail, Asked
    <3>2. CASE pc' # "idle"
      BY <2>1, <2>2, <2>3, <3>2 DEF Promise!vars, Asked
    <3>3. QED
      BY <3>1, <3>2
  <2>4. CASE validatorKeys' # validatorKeys
    <3>1. /\ validatorKeys[node] = 0 /\ validatorKeys' = [validatorKeys EXCEPT ![node] = run]
          /\ validatorKeys'[node] = run /\ pc' # "idle"
      BY <1>3, <2>1, <2>4 DEF LoadOrGenFilePV, TypeOK
    <3>2. Promise!Made(validatorKeys, validatorKeys')
      <4>1. node \in DOMAIN validatorKeys /\ run # 0
        BY <2>1 DEF TypeOK
      <4>2. QED
        BY <2>1, <3>1, <4>1, KeyMade
    <3>3. pc # "idle" /\ UNCHANGED Ids
      BY <2>1 DEF Ids
    <3>4. Promise!Identify
      BY <2>1, <2>2, <3>1, <3>2, <3>3 DEF Promise!Identify, Asked, Ids
    <3>5. QED
      BY <3>4 DEF Promise!Next
  <2>5. QED
    BY <2>3, <2>4
<1>4. CASE CleanUp
  <2>1. PICK rest \in Remains : RemoveAll(rest)
    BY <1>4 DEF CleanUp
  <2>2. pc # "idle" /\ pc' = "idle" /\ outcome' = "cleaned" /\ UNCHANGED args
    BY <1>4 DEF CleanUp, At, Exit, local
  <2>3. Asked' = Asked
    BY <2>2, SameAsked
  <2>4. Ids' \in Promise!Left(Ids)
    <3>1. \A n \in Nodes : nodeKeys'[n] \in {0, nodeKeys[n]}
      BY <2>1 DEF RemoveAll
    <3>2. \A n \in Nodes : Ids'[n] \in {0, Ids[n]}
      BY <3>1 DEF Ids, Cut
    <3>3. QED
      BY <3>2 DEF Ids, Promise!Left
  <2>5. validatorKeys' \in Promise!Left(validatorKeys)
    BY <2>1 DEF RemoveAll, Promise!Left
  <2>6. Promise!Remove
    BY <2>2, <2>3, <2>4, <2>5 DEF Promise!Remove, Finished, Asked, Ids
  <2>7. QED
    BY <2>6 DEF Promise!Next
<1>5. ASSUME pc # "idle", UNCHANGED <<args, nodeKeys, validatorKeys>>, pc' = "idle" => outcome' # "done"
      PROVE  Promise!Next \/ UNCHANGED Promise!vars
  <2>1. Asked' = Asked /\ ~Finished /\ ~Finished'
    BY <1>5, SameAsked DEF Finished
  <2>2. CASE pc' = "idle"
    BY <1>5, <2>1, <2>2 DEF Promise!Next, Promise!Fail, Asked
  <2>3. CASE pc' # "idle"
    BY <1>5, <2>1, <2>3 DEF Promise!vars, Asked
  <2>4. QED
    BY <2>2, <2>3
<1>6. CASE LoopEnd("collect", pc' = "idle" /\ outcome' = "done")
  <2>1. /\ pc = "collect" /\ node = nodes /\ pc' = "idle" /\ outcome' = "done"
        /\ UNCHANGED <<args, nodeKeys, validatorKeys, genesis, config>>
    BY <1>6 DEF LoopEnd, local, disk, keyFiles, identities, netFiles
  <2>2. ~Finished /\ Finished' /\ Asked' = Asked /\ RunNodes' = RunNodes
    BY <2>1, SameAsked DEF Finished
  <2>3. \A n \in RunNodes : /\ Collected(n) /\ n \in Nodes
                          /\ nodeKeys[n] > 0 /\ validatorKeys[n] > 0
    BY <2>1, TestnetAssumption DEF TypeOK, IInv, CollectingInv, RunNodes, Nodes, Prepared
  <2>4. \A n : Network(n)' = Network(n)
    BY <2>1 DEF Network
  <2>5. \A n \in RunNodes : Network(n)' =
             [validators |-> {[node |-> m, key |-> validatorKeys[m], stake |-> Asked[m]] : m \in RunNodes},
              peers |-> {[node |-> m, id |-> nodeKeys[m]] : m \in RunNodes}]
    BY <2>3, <2>4, NetworkAsked
  <2>6. /\ DOMAIN Asked = RunNodes
        /\ \A n \in RunNodes : Ids[n] = nodeKeys[n] /\ Ids[n] # 0 /\ validatorKeys[n] # 0
    BY <2>3 DEF Asked, Ids, Cut
  <2>7. /\ Promise!Validators =
             {[node |-> m, key |-> validatorKeys[m], stake |-> Asked[m]] : m \in RunNodes}
        /\ Promise!Peers = {[node |-> m, id |-> nodeKeys[m]] : m \in RunNodes}
    BY <2>6 DEF Promise!Validators, Promise!Peers, Asked, Ids
  <2>8. UNCHANGED Ids
    BY <2>1 DEF Ids
  <2>9. Promise!Deliver
    <3>1. (IF Finished THEN [n \in RunNodes |-> Network(n)] ELSE << >>)'
              = [n \in DOMAIN Asked |-> [validators |-> Promise!Validators, peers |-> Promise!Peers]]
      BY <2>2, <2>5, <2>6, <2>7
    <3>2. QED
      BY <2>1, <2>2, <2>6, <2>8, <3>1 DEF Promise!Deliver, Asked, Ids
  <2>10. QED
    BY <2>9 DEF Promise!Next
<1>7. CASE SaveSignState \/ SaveKey \/ WriteSeed \/ WriteGentx \/ WriteAppToml \/ InitGenFile
  <2>1. pc # "idle" /\ UNCHANGED <<args, nodeKeys, validatorKeys>> /\ (pc' = "idle" => outcome' # "done")
    BY <1>7 DEF SaveSignState, SaveKey, WriteSeed, WriteGentx, WriteAppToml, InitGenFile, At,
                Continue, Advance, End, Exit, local, keyFiles, identities
  <2>2. QED
    BY <1>5, <2>1
<1>8. CASE SkipOwnGentx \/ CopyGentx \/ NextCopy \/ CollectGentxs \/ RejectGentxs \/ OverwriteGenesis
  <2>1. pc # "idle" /\ UNCHANGED <<args, nodeKeys, validatorKeys>> /\ (pc' = "idle" => outcome' # "done")
    BY <1>8 DEF SkipOwnGentx, CopyGentx, NextCopy, CollectGentxs, RejectGentxs, OverwriteGenesis,
                At, Advance, End, Exit, local, disk, keyFiles, identities
  <2>2. QED
    BY <1>5, <2>1
<1>9. CASE NextLoop /\ ~LoopEnd("collect", pc' = "idle" /\ outcome' = "done")
  <2>1. pc # "idle" /\ UNCHANGED <<args, nodeKeys, validatorKeys>> /\ pc' # "idle"
    BY <1>9 DEF NextLoop, LoopEnd, local, disk, keyFiles, identities
  <2>2. QED
    BY <1>5, <2>1
<1>10. CASE Interrupt
  <2>1. pc # "idle" /\ UNCHANGED <<args, nodeKeys, validatorKeys>> /\ outcome' # "done"
    BY <1>10 DEF Interrupt, End, Exit, local, disk, keyFiles, identities
  <2>2. QED
    BY <1>5, <2>1
<1>11. CASE UNCHANGED vars
  <2>1. UNCHANGED <<pc, outcome, args, nodeKeys, validatorKeys, genesis, config>>
    BY <1>11 DEF vars, local, disk, keyFiles, identities, netFiles
  <2>2. Asked' = Asked /\ RunNodes' = RunNodes /\ Finished' = Finished
    BY <2>1, SameAsked DEF Finished
  <2>3. \A n : Network(n)' = Network(n)
    BY <2>1 DEF Network
  <2>4. QED
    BY <2>1, <2>2, <2>3 DEF Promise!vars, Asked
<1>12. QED
  BY <1>1, <1>2, <1>3, <1>4, <1>6, <1>7, <1>8, <1>9, <1>10, <1>11 DEF Next, Step

\* For any number of nodes and runs, arguments, failures, kills and removals that stop
\* anywhere, the command keeps the promise of TestnetPromise: a key that is there is never
\* replaced, and a run that succeeds leaves exactly the testnet it was asked for.
THEOREM RunsKeepPromise == Spec => ImplementsTestnet
<1>1. Init => Promise!Init
  BY DEF Init, Promise!Init, Promise!NoTestnet, Finished, RunNodes, Cut
<1>2. TypeOK /\ IInv /\ [Next]_vars => [Promise!Next]_Promise!vars
  BY PromiseSteps
<1>3. QED
  BY <1>1, <1>2, Invariance, PTL DEF Spec, ImplementsTestnet, Promise!Spec
=============================================================================
