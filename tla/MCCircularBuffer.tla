--------------------------- MODULE MCCircularBuffer ---------------------------
(* A 4-byte ring fed 11 numbered bytes: every read and write index meets    *)
(* the end of the storage, and the ring fills and empties, several times.  *)
EXTENDS CircularBufferFifo

MCSize == 4
MCMaxBytes == 11
MCOctet == 0 .. MCMaxBytes

=============================================================================
