CONSTANTS
    Size <- MCSize
    Octet <- MCOctet
    Zero = 0
    PacketLength <- MCPacketLength
    WriteOutcome <- WholeWrites
    MaxBytes <- MCMaxBytes

SPECIFICATION Spec

INVARIANT TypeOK
INVARIANT WireIsPrefix

PROPERTY AllQueuedSent

CHECK_DEADLOCK FALSE
