CONSTANTS
    Width <- MCWidth
    MaxOps <- MCMaxOps
    MaxPushes <- MCMaxPushes
    SubModes <- MCQoS1
    HubPids <- MCHubPids
    WriteFails = FALSE
    Client <- MCClient
    Headers <- MCHeaders
    HubStatuses <- MCHubStatuses
    Versions <- MCVersions
    C2DProps <- MCC2DProps
    C2DBodies <- MCC2DBodies
    DmiMethods <- MCDmiMethods
    DmiStatuses <- MCDmiStatuses

SPECIFICATION Spec

PROPERTY AppCallReturns
