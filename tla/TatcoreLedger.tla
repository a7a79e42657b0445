----------------------------- MODULE TatcoreLedger -----------------------------
(***************************************************************************)
(* What a tatcoin node promises about the parameters of x/tatcore: a chain *)
(* is a genesis and a sequence of blocks, every block is executed once and *)
(* in its place, and an exported genesis holds the parameters of the       *)
(* version it was asked for.  Nothing is executed ahead of a decision,     *)
(* nothing is killed and nothing is replayed.                              *)
(***************************************************************************)
EXTENDS Integers, Sequences

CONSTANTS
    Blocks,     \* what a block may hold
    Updates     \* the blocks with an update of the authority

VARIABLES
    section,    \* the genesis has a section for tatcore
    first,      \* the first height of the chain
    chain,      \* the blocks, in the order they were decided
    params,     \* for each of them, whether parameters are set after it
    document    \* the last genesis that was exported

vars == <<section, first, chain, params, document>>

NoDocument == [asked |-> 0, version |-> 0, height |-> -1, section |-> FALSE]

\* Parameters are never unset: once the genesis or an update wrote them they stay.
SetAfter(blocks, s) == s \/ \E i \in 1 .. Len(blocks) : blocks[i] \in Updates

Init ==
    /\ section \in BOOLEAN
    /\ first = 1
    /\ chain = << >>
    /\ params = << >>
    /\ document = NoDocument

AddBlock ==
    \E b \in Blocks :
        /\ chain' = Append(chain, b)
        /\ params' = Append(params, SetAfter(Append(chain, b), section))
        /\ UNCHANGED <<section, first, document>>

\* The genesis after the nth block, for the height after it or for height zero: the
\* block of the height that was asked for, or the last one if -1 was.  Before the
\* first block there is nothing of tatcore to write, whatever the chain's genesis.
Export ==
    \E n \in 0 .. Len(chain), latest \in BOOLEAN, zero \in BOOLEAN, included \in BOOLEAN :
        /\ n = 0 => latest
        /\ latest => n = Len(chain)
        /\ included => n > 0 /\ SetAfter(SubSeq(chain, 1, n), section)
        /\ document' = [asked |-> IF latest THEN -1 ELSE first + n - 1,
                        version |-> n,
                        height |-> IF zero THEN 0 ELSE IF n = 0 THEN 1 ELSE first + n,
                        section |-> included]
        /\ UNCHANGED <<section, first, chain, params>>

\* Another chain starts from the document of a version.
NewChain ==
    /\ document.version > 0
    /\ section' = document.section
    /\ first' = IF document.height = 0 THEN 1 ELSE document.height
    /\ chain' = << >>
    /\ params' = << >>
    /\ document' = NoDocument

Next == AddBlock \/ Export \/ NewChain

Spec == Init /\ [][Next]_vars
=============================================================================
