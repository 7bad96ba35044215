CONSTANTS
    Width <- MCWidth
    MaxOps <- MCMaxOps
    MaxPushes <- MCMaxPushes

SPECIFICATION Spec

INVARIANT TypeOK
INVARIANT SubscribedOnlyIfAccepted

PROPERTY SubscriptionSettles

CHECK_DEADLOCK FALSE
