CONSTANTS
    Validators <- MCValidators
    Delegators <- MCDelegators
    Operator <- MCOperator
    AllowLists <- NoLists
    CloseOutcomes <- NeverFails
    Unknown = 98
    Malformed = 99
    Unit = 2
    MaxValidators = 1
    MaxHeight = 3
    MaxTokens = 2
    MaxBalance = 1
    MaxExports = 1

SPECIFICATION Spec

INVARIANT TypeOK
INVARIANT NoFutureHeights
INVARIANT SlashesSeen
INVARIANT FullyBacked
INVARIANT HistoryConsistent
PROPERTY ImplementsPromise

CHECK_DEADLOCK FALSE
