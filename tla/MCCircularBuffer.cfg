CONSTANTS
    Size <- MCSize
    MaxBytes <- MCMaxBytes
    Octet <- MCOctet
    Zero = 0

SPECIFICATION Spec

INVARIANT TypeOK

PROPERTY RingImplementsQueue

CHECK_DEADLOCK FALSE
