--------------------------- MODULE MCAlarmReports ---------------------------
(***************************************************************************)
(* Two NVRs with one camera each; the second reports alarms of its own as  *)
(* well.                                                                   *)
(***************************************************************************)
EXTENDS AlarmReports

CONSTANTS n1, n2, cam1, cam2, disk, none, lost

MCSource == {cam1, cam2, disk}
MCOwner == [s \in MCSource |-> IF s = cam1 THEN n1 ELSE n2]
MCKind == [s \in MCSource |-> IF s = disk THEN "nvr" ELSE "ipc"]
=============================================================================
