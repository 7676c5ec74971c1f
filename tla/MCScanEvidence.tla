--------------------------- MODULE MCScanEvidence ---------------------------
(* TLC instance of ScanEvidence: four scans of two ticks, any of which may    *)
(* follow any other, and IMU stamps that cover them.                          *)
EXTENDS ScanEvidence

MCStamps == 0 .. 8
=============================================================================
