CONSTANTS
    ChainLen = 1
    StrangerHeads <- MCStrangerAtOne

SPECIFICATION Spec

INVARIANT VerdictSound
