CONSTANTS
    Validators <- MCValidators
    Delegators <- MCDelegators
    Operator <- MCOperator
    AllowLists <- NoLists
    CloseOutcomes <- NeverFails
    Unknown = 98
    Malformed = 99
    Unit = 2
    MaxValidators = 2
    MaxHeight = 2
    MaxTokens = 2
    MaxBalance = 1
    MaxExports = 2

SPECIFICATION Spec

INVARIANT HistoryConsistent

CHECK_DEADLOCK FALSE
