CONSTANTS
    Size <- MCSize
    Octet <- MCOctet
    Zero = 0
    Encoding <- MCEncoding
    ConnectLength <- MCConnectLength
    Responses <- MCResponses
    ConnackAccepted = "CONNACK_OK"
    ConnackRefused = {"CONNACK_REFUSED"}
    Timeout <- MCTimeout

SPECIFICATION Spec


INVARIANT AbortedOnlyWithoutConnack



CHECK_DEADLOCK FALSE
