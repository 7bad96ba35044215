------------------------------ MODULE MCStreamer ------------------------------
(* A four-byte TX ring and packets of one to three bytes, so that the     *)
(* ring's contents wrap around its end (the two-part slice write_into      *)
(* writes with two calls) after the first few packets.                     *)
EXTENDS Streamer

MCSize == 4
MCMaxBytes == 16
MCOctet == 0 .. MCMaxBytes
MCPacketLength == {1, 2, 3}

(* The socket's errors.                                                     *)
Errors == {[kind |-> k, n |-> 0] : k \in {"WouldBlock", "Interrupted", "ConnectionReset"}}

(* A socket that takes every byte offered or none: a write() never        *)
(* returns a count smaller than the slice it was given.                    *)
WholeWrites == {[kind |-> "Ok", n |-> MCSize]} \cup Errors

(* A socket that may take only part of a slice, as a nonblocking socket   *)
(* whose send buffer is almost full does (Ok(n) with 0 < n < len).         *)
PartialWrites == {[kind |-> "Ok", n |-> k] : k \in 1 .. MCSize} \cup Errors

=============================================================================
