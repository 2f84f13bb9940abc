CONSTANTS
    ChainLen = 1
    StrangerHeads <- MCNoStranger

SPECIFICATION Spec

INVARIANT VerdictSound
INVARIANT CleanExit
INVARIANT NoPanic

PROPERTY DirRemovedAfterReap
PROPERTY Termination
PROPERTY ClientRefined
