------------------------------- MODULE MCLogs -------------------------------
(* Each log with up to MaxRecords records.                                 *)
EXTENDS Logs

CONSTANTS p1, p2, i1, cpu, disk
=============================================================================
