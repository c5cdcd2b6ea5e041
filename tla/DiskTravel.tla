----------------------------- MODULE DiskTravel -----------------------------
(***************************************************************************)
(* The disk with a history variable: for each waiting process, the moves   *)
(* the arm has made since its request was listed, and how the request met  *)
(* the arm.  It compares the turnaround disk_request foretells, and        *)
(* charges to the process, with the way of the arm.                        *)
(***************************************************************************)
EXTENDS Disk

VARIABLES
    travel,   \* the moves of the arm since the request was listed
    met       \* the kind of request, see below

travel_vars == <<disk_vars, travel, met>>

(* "ahead": made for a track the arm was not on, and listed at once;       *)
(* "here":  made for the track under the arm, and listed at once;          *)
(* "stale": the arm ticked between the estimate and the listing.           *)
Meeting == {"ahead", "here", "stale"}

TravelInit ==
    /\ DiskInit
    /\ travel = [p \in Process |-> 0]
    /\ met = [p \in Process |-> "ahead"]

ArmTicks == arm_vars' # arm_vars

InHand(p) == disk_req # NULL /\ disk_req.process = p

TravelNext ==
    /\ DiskNext
    /\ travel' = [p \in Process |->
                    IF ~InPending(p) \/ ~InPending(p)' THEN 0
                    ELSE IF curr_track' # curr_track THEN travel[p] + 1
                    ELSE travel[p]]
    /\ met' = [p \in Process |->
                 CASE ~WaitsForDisk(p)' -> "ahead"
                   [] InHand(p)' /\ ~InHand(p) ->
                        IF disk_req'.track = curr_track THEN "here" ELSE "ahead"
                   [] InHand(p) /\ ArmTicks -> "stale"
                   [] OTHER -> met[p]]

TravelSpec == TravelInit /\ [][TravelNext]_travel_vars /\ DiskFairness

-----------------------------------------------------------------------------
(* A listed request waits for one full sweep of the arm at most, even when *)
(* it is added for the track under the arm and the walk over the list, its *)
(* next node already read, misses it.                                      *)
ServedWithinASweep ==
    \A p \in Process : InPending(p) => travel[p] <= 2 * DISK_TRACK_LIMIT

(* The moves the turnaround of a request stands for.                       *)
Foretold(i) ==
    (pending_requests[i].turnaround - DISK_OPERATION_TIME) \div DISK_TRACK_MOVE_TIME

(* The turnaround foretells the way of the arm to the move, however the    *)
(* direction changes, for a request made for another track than the one    *)
(* under the arm and listed before the arm ticks.                          *)
ServedAsForetold ==
    disk_thread.at = "finish" /\ met[served_process] = "ahead" =>
        travel[served_process] = Foretold(disk_thread.curr)
=============================================================================
