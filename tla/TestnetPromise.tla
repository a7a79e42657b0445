---------------------------- MODULE TestnetPromise ----------------------------
(***************************************************************************)
(* What the multi-node command promises of its output directory: a run     *)
(* that succeeds leaves a testnet of exactly the nodes and stakes it was   *)
(* asked for, in which all nodes know each other by the keys in their      *)
(* directories.  Any other run leaves no testnet.  A key, once made, is    *)
(* never replaced; only a run that gives up takes keys away, and it may    *)
(* take any of them.                                                       *)
(***************************************************************************)
EXTENDS Integers

CONSTANT Nodes

VARIABLES
    phase,        \* "idle", "busy" or "ready"
    nodeId,       \* what a node's peers know it by, 0 before it has a key
    validatorKey, \* what it signs blocks with, 0 before it has a key
    asked,        \* the stakes of the nodes that the last run was asked for
    testnet       \* what the nodes of a ready testnet start with

vars == <<phase, nodeId, validatorKey, asked, testnet>>

NoTestnet == << >>

Init ==
    /\ phase = "idle"
    /\ nodeId = [n \in Nodes |-> 0]
    /\ validatorKey = [n \in Nodes |-> 0]
    /\ DOMAIN asked = {}
    /\ testnet = NoTestnet

\* A run begins, or panics over its arguments; either way the last testnet is off.
Start ==
    /\ phase # "busy" /\ phase' \in {"busy", "idle"}
    /\ DOMAIN asked' \subseteq Nodes
    /\ testnet' = NoTestnet
    /\ UNCHANGED <<nodeId, validatorKey>>

\* A node without the key gets one.
Made(keys, newKeys) ==
    \E n \in DOMAIN asked :
        /\ keys[n] = 0 /\ newKeys[n] # 0
        /\ newKeys = [keys EXCEPT ![n] = newKeys[n]]

Identify ==
    /\ phase = "busy" /\ phase' = "busy"
    /\ \/ Made(nodeId, nodeId') /\ UNCHANGED validatorKey
       \/ Made(validatorKey, validatorKey') /\ UNCHANGED nodeId
    /\ UNCHANGED <<asked, testnet>>

Validators ==
    {[node |-> n, key |-> validatorKey[n], stake |-> asked[n]] : n \in DOMAIN asked}

Peers == {[node |-> n, id |-> nodeId[n]] : n \in DOMAIN asked}

Deliver ==
    /\ phase = "busy" /\ phase' = "ready"
    /\ \A n \in DOMAIN asked : nodeId[n] # 0 /\ validatorKey[n] # 0
    /\ testnet' = [n \in DOMAIN asked |-> [validators |-> Validators, peers |-> Peers]]
    /\ UNCHANGED <<nodeId, validatorKey, asked>>

Fail ==
    /\ phase = "busy" /\ phase' = "idle"
    /\ UNCHANGED <<nodeId, validatorKey, asked, testnet>>

\* The failure that the command answers by removing what is there, or part of it.
Left(keys) == {k \in [Nodes -> {keys[n] : n \in Nodes} \cup {0}] :
                  \A n \in Nodes : k[n] \in {0, keys[n]}}

Remove ==
    /\ phase = "busy" /\ phase' = "idle"
    /\ nodeId' \in Left(nodeId)
    /\ validatorKey' \in Left(validatorKey)
    /\ UNCHANGED <<asked, testnet>>

Next == Start \/ Identify \/ Deliver \/ Fail \/ Remove

Spec == Init /\ [][Next]_vars
=============================================================================
