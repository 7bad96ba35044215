CONSTANTS
    Size <- MCSize
    Octet <- MCOctet
    Zero = 0
    PacketLength <- MCPacketLength
    WriteOutcome <- PartialWrites
    MaxBytes <- MCMaxBytes

SPECIFICATION Spec

INVARIANT WireIsPrefix

CHECK_DEADLOCK FALSE
