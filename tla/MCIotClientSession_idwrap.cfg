CONSTANTS
    Width <- MCWrapWidth
    MaxOps <- MCWrapMaxOps
    MaxPushes <- MCMaxPushes

SPECIFICATION Spec

INVARIANT NoPacketIdZero

CHECK_DEADLOCK FALSE
