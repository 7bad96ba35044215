-------------------------- MODULE MCIotClientSession --------------------------
(* A 3-bit counter and at most MCMaxOps user calls: no id wraps in the     *)
(* session run, while the id wrap run (MCIotClientSession_idwrap.cfg) drives the 2-bit      *)
(* counter past its largest value.                                         *)
EXTENDS IotClientSession

MCWidth == 3
MCWrapWidth == 2
MCMaxOps == 3
MCWrapMaxOps == 4
MCMaxPushes == 1

=============================================================================
