SPECIFICATION Spec
CONSTANTS
    MaxNodes = 3
    MaxRuns = 3
    StakeLists <- MCStakeLists
    PortLists <- MCPortLists
    GasPrices <- DefaultGasOnly
    DefaultGas = DefaultGas
    Invalid = Invalid
    Remains <- MCRemains
INVARIANTS
    TypeOK
    CompleteTestnet
    GentxsBelong
    RejectionsExplained
    StuckKeysUnused
    OneHost
PROPERTIES
    ImplementsTestnet
CHECK_DEADLOCK FALSE
