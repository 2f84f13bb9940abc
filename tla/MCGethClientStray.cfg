SPECIFICATION CSpec
CONSTANTS
    CloseAfter <- DriverCloses
    StrayTree = TRUE
PROPERTY LifecycleRefined
