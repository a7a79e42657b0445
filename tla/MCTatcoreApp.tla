----------------------------- MODULE MCTatcoreApp -----------------------------
(* Instances of TatcoreApp for TLC: gov's address in two spellings, another     *)
(* account's, and a string that is no address.                                  *)
EXTENDS TatcoreApp

MCStrings == {"cosmos1gov", "COSMOS1GOV", "cosmos1user", "invalid"}
MCAccounts == {"gov", "user"}
MCAddress ==
    [s \in MCStrings |-> CASE s = "cosmos1user" -> "user" [] s = "invalid" -> "none" [] OTHER -> "gov"]
=============================================================================
