CONSTANTS
    Validators <- MCValidators
    Delegators <- MCDelegators
    Operator <- MCOperator
    AllowLists <- NoLists
    CloseOutcomes <- MayFail
    Unknown = 98
    Malformed = 99
    Unit = 2
    MaxValidators = 1
    MaxHeight = 2
    MaxTokens = 2
    MaxBalance = 1
    MaxExports = 1

SPECIFICATION Spec

INVARIANT FreshStart

CHECK_DEADLOCK FALSE
