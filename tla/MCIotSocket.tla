------------------------------ MODULE MCIotSocket ------------------------------
(* A 3-bit counter and at most 3 application calls: the device issues at   *)
(* most 4 packet ids, so its own ids never wrap.  One hub message.  In the  *)
(* socket run the device subscribes with QoS 0, so C2D messages carry no   *)
(* packet id; in the C2D ack run (MCIotSocket_c2dack.cfg) it subscribes    *)
(* with QoS 1 and the hub numbers its C2D message 2, an id the device      *)
(* also issues.                                                            *)
(* The socket thread encodes every message's topic with IotCodec and     *)
(* decodes every PUBLISH with it.  The device sends telemetry with one     *)
(* header map, in either key order, whose keys and values hold '&', '=',  *)
(* '%', '+' and space; the hub answers twin GETs with status 200 or 503,   *)
(* with or without a $version.                                             *)
EXTENDS IotSocket, IotCodec

MCWidth == 3
MCMaxOps == 3
MCMaxPushes == 1
MCQoS0 == {0}
MCQoS1 == {1}
MCHubPids == {2}
MCClient == [device |-> "dev-1", module |-> ""]
MCHeaders == { << [k \in {"a", "k=1"} |-> IF k = "a" THEN "x&y+% z" ELSE "b c"] >> }
MCHubStatuses == {200, 503}
MCVersions == { None, << 12 >> }
MCC2DProps == { [k \in {"to"} |-> "a/b c"] }
MCC2DBodies == { "string" }
MCC2DBodiesAny == { "string", "object" }
MCDmiMethods == { "re boot" }
MCDmiStatuses == { 200 }

=============================================================================
