CONSTANTS
    MaxItems = 3
    MaxNumber = 3
    GenesisNumbers <- MCGenesisZero

SPECIFICATION Spec

INVARIANT LoaderMatchesReference
