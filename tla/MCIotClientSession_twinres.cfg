CONSTANTS
    Width <- MCWidth
    MaxOps <- MCMaxOps
    MaxPushes <- MCMaxPushes

SPECIFICATION Spec

INVARIANT TwinResponseReachesHandler

CHECK_DEADLOCK FALSE
