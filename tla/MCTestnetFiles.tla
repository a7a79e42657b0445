--------------------------- MODULE MCTestnetFiles ---------------------------
(* Instances of TestnetFiles for TLC. *)
EXTENDS TestnetFiles

\* The flag left empty, more than a node's balance, and a negative amount.
MCStakeLists == {<<Invalid>>, <<DefaultStake, 600 * PowerReduction>>, <<-1>>}
\* The second of three amounts mistyped.
TypoLists == {<<DefaultStake, Invalid, 2 * DefaultStake>>}
MCPortLists == {<< >>, <<26656>>}
DefaultPorts == {<< >>}
DefaultGasOnly == {DefaultGas}

\* What removals leave: nothing; all but the keys of one kind, or the sign states; only
\* what names keys; only the first node's directory.
Of(kind) == {<<n, kind>> : n \in Nodes}
KeptGentxs == Nodes \X Nodes \X (1 .. MaxRuns)
Everything ==
    KeptGentxs \cup UNION {Of(kind) : kind \in {"node_key", "validator_key", "sign_state",
        "account", "seed", "genesis", "config", "app"}}
MCRemains ==
    {{}, {place \in Everything : place[1] = 0}, KeptGentxs \cup Of("genesis")}
        \cup {Everything \ Of(kind) : kind \in {"node_key", "validator_key", "sign_state"}}
NoRemains == {{}}
=============================================================================
