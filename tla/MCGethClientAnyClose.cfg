SPECIFICATION CSpec
CONSTANTS
    CloseAfter <- AnyStateCloses
    StrayTree = FALSE
INVARIANT IdempotentTeardown
