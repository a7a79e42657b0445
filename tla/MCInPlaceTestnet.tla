--------------------------- MODULE MCInPlaceTestnet ---------------------------
(* Instances of InPlaceTestnet for TLC: two validators and a third address that  *)
(* never had one.                                                               *)
EXTENDS InPlaceTestnet

MCValidators == {1, 2, 3}
MCDelegators == {1, 2, 3}
MCOperator == [v \in {1, 2, 3} |-> v]
MCGenesis == {1, 2}
MCMoves == {<<1, 1>>, <<1, 2>>, <<2, 2>>, <<1, 3>>, <<2, 3>>}
\* Two accounts, a blocked and a mistyped one after a good one.
MCFlags == {<<11, 12>>, <<11, 13>>, <<11, 99>>}
MCAccounts == {11, 12, 13}
MCBlocked == {13}
NoFlag == {<< >>}
=============================================================================
