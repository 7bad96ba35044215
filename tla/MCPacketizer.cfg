CONSTANTS
    Size <- MCSize
    Octet <- MCOctet
    Zero = 0
    Encoding <- MCEncoding
    BadPacket <- MCBadPacket
    MaxPackets <- MCMaxPackets

SPECIFICATION Spec

INVARIANT TypeOK
INVARIANT DecodedInOrder
INVARIANT InvalidDataOnlyForBadPacket

PROPERTY EveryPacketDecoded

CHECK_DEADLOCK FALSE
