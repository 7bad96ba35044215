CONSTANTS
    Width <- MCWidth
    MaxOps <- MCMaxOps
    MaxPushes <- MCMaxPushes

SPECIFICATION Spec

PROPERTY TwinReadRequested

CHECK_DEADLOCK FALSE
