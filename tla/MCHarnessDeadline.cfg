CONSTANTS
    ChainLen = 1
    StrangerHeads <- MCNoStranger

SPECIFICATION Spec

PROPERTY ReadyVerdictByHead
