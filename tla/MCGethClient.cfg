SPECIFICATION CSpec
CONSTANTS
    CloseAfter <- DriverCloses
    StrayTree = FALSE
INVARIANT GethOnImportedChain
PROPERTY LifecycleRefined
