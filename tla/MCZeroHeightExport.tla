-------------------------- MODULE MCZeroHeightExport --------------------------
(* Instances of ZeroHeightExport for TLC. *)
EXTENDS ZeroHeightExport

MCValidators == {1, 2}
MCDelegators == {1, 2}
MCOperator == [v \in {1, 2} |-> v]
NoLists == {{}}
AllLists == {{}, {1}, {2, 98}, {1, 2}, {1, 99}}
NeverFails == {TRUE}
MayFail == BOOLEAN
=============================================================================
