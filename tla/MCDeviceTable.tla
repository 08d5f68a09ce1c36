--------------------------- MODULE MCDeviceTable ---------------------------
(***************************************************************************)
(* Three NVRs: the first has two cameras, the others one each, which is    *)
(* too few for the last.                                                   *)
(***************************************************************************)
EXTENDS DeviceTable

MCIpcNum == [k \in 0..2 |-> IF k = 0 THEN 2 ELSE 1]
=============================================================================
