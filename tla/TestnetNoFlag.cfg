CONSTANTS
    Validators <- MCValidators
    Delegators <- MCDelegators
    Operator <- MCOperator
    GenesisValidators <- MCGenesis
    Moves <- MCMoves
    NoOperator = 0
    NewKey = 9
    NewPower = 2
    CometPower = 7
    AccountFlags <- NoFlag
    Accounts <- MCAccounts
    Blocked <- MCBlocked
    Malformed = 99
    Unit = 1
    MaxValidators = 1
    MaxHeight = 3
    MaxTokens = 3
    MaxBalance = 1
    MaxCommands = 2

SPECIFICATION Spec

INVARIANT NoAccountsNeeded

CHECK_DEADLOCK FALSE
