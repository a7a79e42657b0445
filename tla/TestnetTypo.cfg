SPECIFICATION Spec
CONSTANTS
    MaxNodes = 3
    MaxRuns = 1
    StakeLists <- TypoLists
    PortLists <- DefaultPorts
    GasPrices <- DefaultGasOnly
    DefaultGas = DefaultGas
    Invalid = Invalid
    Remains <- NoRemains
INVARIANTS
    InvalidStakesDefault
CHECK_DEADLOCK FALSE
