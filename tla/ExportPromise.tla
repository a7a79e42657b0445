----------------------------- MODULE ExportPromise -----------------------------
(***************************************************************************)
(* What app/export.go promises about a chain: whatever an export does on   *)
(* its way, it moves no stake and changes no bonded validator; it ends     *)
(* with a document for the height that was asked for and the validators    *)
(* that are bonded, or fails; and the chain that starts from the document  *)
(* has the same stake and the same validators as the one that was stopped. *)
(***************************************************************************)
EXTENDS Integers

VARIABLES
    phase,      \* "running", "exporting", "exported" or "failed"
    height,     \* of the last block
    stake,      \* tokens of the validators, and the delegations to them
    bonded,     \* the bonded validators
    asked,      \* the height the genesis is for, or -1
    document    \* the genesis

vars == <<phase, height, stake, bonded, asked, document>>

NoDocument == [height |-> 0, validators |-> {}]

Init ==
    /\ phase = "running"
    /\ height = 0
    /\ asked = -1
    /\ document = NoDocument

\* Blocks change stake and validators as they like.
Block ==
    /\ phase = "running" /\ phase' = "running"
    /\ height' = height + 1
    /\ UNCHANGED <<asked, document>>

\* For height zero, or for the height after the last block.
Start ==
    /\ phase = "running" /\ phase' = "exporting"
    /\ height > 0
    /\ asked' \in {0, height + 1}
    /\ UNCHANGED <<height, stake, bonded, document>>

Write ==
    /\ phase = "exporting" /\ phase' = "exported"
    /\ document' = [height |-> asked, validators |-> bonded]
    /\ UNCHANGED <<height, stake, bonded, asked>>

\* The export panics, or the next chain refuses its document.
Fail ==
    /\ phase \in {"running", "exporting", "exported"} /\ phase' = "failed"
    /\ asked' = -1
    /\ document' = NoDocument
    /\ UNCHANGED <<height, stake, bonded>>

Restart ==
    /\ phase = "exported" /\ phase' = "running"
    /\ height' = IF asked = 0 THEN 0 ELSE asked - 1
    /\ asked' = -1
    /\ document' = NoDocument
    /\ UNCHANGED <<stake, bonded>>

Next == Block \/ Start \/ Write \/ Fail \/ Restart

Spec == Init /\ [][Next]_vars
=============================================================================
