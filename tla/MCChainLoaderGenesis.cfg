CONSTANTS
    MaxItems = 3
    MaxNumber = 3
    GenesisNumbers <- MCGenesisAny

SPECIFICATION Spec

INVARIANT ChainContiguous
