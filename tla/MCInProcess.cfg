CONSTANTS
    MaxItems = 3
    MaxNumber = 3
    GenesisNumbers <- MCGenesisZero

SPECIFICATION ISpec

INVARIANT PassHoldsBlockOne
INVARIANT NodeClosedOnError
