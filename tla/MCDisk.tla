------------------------------- MODULE MCDisk -------------------------------
(* Three processes on a disk of three tracks, of which they name two.  A   *)
(* process may have two nodes in the list, one served and one new, and two *)
(* of them can keep the arm from a third.                                  *)
EXTENDS DiskTravel
CONSTANTS p1, p2, p3
=============================================================================
