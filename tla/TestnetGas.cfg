SPECIFICATION Spec
CONSTANTS
    MaxNodes = 2
    MaxRuns = 1
    StakeLists <- TypoLists
    PortLists <- DefaultPorts
    GasPrices = {DefaultGas, Asked}
    DefaultGas = DefaultGas
    Invalid = Invalid
    Remains <- NoRemains
INVARIANTS
    MinGasPricesTaken
CHECK_DEADLOCK FALSE
