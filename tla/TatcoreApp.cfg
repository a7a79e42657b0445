CONSTANTS
    Strings <- MCStrings
    Accounts <- MCAccounts
    Address <- MCAddress
    Malformed = "none"
    GovAccount = "gov"
    Configured = ""
    Empty = ""
    MaxHeight = 3

SPECIFICATION FairSpec

INVARIANT TypeOK
INVARIANT PanicsExplained
PROPERTY ImplementsLedger
PROPERTY DecidedCommitted

CHECK_DEADLOCK FALSE
