CONSTANTS
    Width <- MCWidth
    MaxOps <- MCMaxOps
    MaxPushes <- MCMaxPushes
    SubModes <- MCQoS0
    HubPids <- MCHubPids
    WriteFails = FALSE
    Client <- MCClient
    Headers <- MCHeaders
    HubStatuses <- MCHubStatuses
    Versions <- MCVersions
    C2DProps <- MCC2DProps
    C2DBodies <- MCC2DBodies
    DmiMethods <- MCDmiMethods
    DmiStatuses <- MCDmiStatuses

SPECIFICATION Spec

INVARIANT TypeOK
INVARIANT CallOkOnlyIfAcked
 
INVARIANT HeadersRoundTrip
INVARIANT TwinResultIsHubAnswer
INVARIANT C2DHandledAsSent
INVARIANT DmiAnsweredAsInvoked
INVARIANT AppPanicsOnlyOnRefusal

PROPERTY AppCallReturns
PROPERTY EveryDmiAnswered
