-------------------------------- MODULE Disk --------------------------------
(***************************************************************************)
(* The hard disk, disk/disk.c.  The CPU thread puts requests at the end of *)
(* the list of pending requests; the disk thread moves the arm to and fro  *)
(* over the tracks and, on each track, walks the list and serves the       *)
(* requests for that track.  No lock protects the list or the arm.         *)
(*                                                                         *)
(* Two windows are kept open because the other thread runs in them:        *)
(*   - disk_request reads the arm, and adds the request later;             *)
(*   - rw_disk_op_resolve wakes the process of a request, and takes the    *)
(*     request off the list later, having read the next node before both.  *)
(***************************************************************************)
EXTENDS Integers, Sequences, SequencesExt

CONSTANTS
    Process,
    NULL,
    DISK_TRACK_LIMIT,   \* the outermost track the arm reaches
    DiskTrack           \* the tracks programs name

ASSUME DiskTrackLimitAssumption == DISK_TRACK_LIMIT \in Nat
ASSUME DiskTrackAssumption == DiskTrack \subseteq Nat

VARIABLES
    pending_requests,   \* disk_scheduler_t.pending_requests
    curr_track,
    forward_dir,
    disk_req,           \* the request disk_request has made and not yet added
    disk_thread         \* the locals of rw_disk_op_resolve

disk_vars == <<pending_requests, curr_track, forward_dir, disk_req, disk_thread>>
arm_vars == <<curr_track, forward_dir>>

DISK_OPERATION_TIME == 5000
DISK_TRACK_MOVE_TIME == 100

(* Whether a request reads or writes is only logged, and left out.         *)
DiskRequest == [process : Process, track : Nat, turnaround : Int]

(* `at' is the place of the disk thread: walking the list ("seek"), about  *)
(* to emit DISK_FINISH ("finish"), about to take the node off the list     *)
(* ("remove") or about to move the arm ("move").  `curr' is the position   *)
(* of curr_node and `next' says whether next_node was not NULL when read.  *)
DiskThread == [at : {"seek", "finish", "remove", "move"},
               curr : Nat \ {0}, next : BOOLEAN]

Tracks == 0..DISK_TRACK_LIMIT

disk_scheduler_init ==
    /\ pending_requests = <<>>
    /\ curr_track = 0
    /\ forward_dir = TRUE

DiskInit ==
    /\ disk_scheduler_init
    /\ disk_req = NULL
    /\ disk_thread = [at |-> "seek", curr |-> 1, next |-> FALSE]

-----------------------------------------------------------------------------
(* disk_request, on the CPU thread *)

(* Mutant: the way back is measured from the inner end.                    *)
estimated_movesFromInside(track) ==
    IF forward_dir
      THEN IF track >= curr_track
             THEN track - curr_track
             ELSE (DISK_TRACK_LIMIT - curr_track) + track
      ELSE IF track < curr_track
             THEN curr_track - track
             ELSE curr_track + track

(* The moves until the arm is over the track, as the code estimates them.  *)
estimated_moves(track) ==
    IF forward_dir
      THEN IF track >= curr_track
             THEN track - curr_track
             ELSE (DISK_TRACK_LIMIT - curr_track) + (DISK_TRACK_LIMIT - track)
      ELSE IF track < curr_track
             THEN curr_track - track
             ELSE curr_track + track

disk_request_create(p, track) ==
    /\ disk_req' = [process    |-> p,
                    track      |-> track,
                    turnaround |-> DISK_OPERATION_TIME
                                     + estimated_moves(track) * DISK_TRACK_MOVE_TIME]
    /\ UNCHANGED <<pending_requests, arm_vars, disk_thread>>

disk_request_add ==
    /\ pending_requests' = Append(pending_requests, disk_req)
    /\ disk_req' = NULL
    /\ UNCHANGED <<arm_vars, disk_thread>>

-----------------------------------------------------------------------------
(* rw_disk_op_resolve, on the disk thread *)

OnTrack(i) == pending_requests[i].track = curr_track

(* Mutant: the last node is taken to have a next one.                      *)
rw_disk_op_seekOneTooFar ==
    LET found == {i \in DOMAIN pending_requests : i >= disk_thread.curr /\ OnTrack(i)}
    IN  /\ disk_thread.at = "seek"
        /\ IF found = {}
             THEN disk_thread' = [disk_thread EXCEPT !.at = "move"]
             ELSE \E i \in found :
                    /\ \A j \in found : i <= j
                    /\ disk_thread' = [at   |-> "finish",
                                       curr |-> i,
                                       next |-> i <= Len(pending_requests)]
        /\ UNCHANGED <<pending_requests, arm_vars, disk_req>>

(* The walk goes on to the next request for the current track, or ends.    *)
rw_disk_op_seek ==
    LET found == {i \in DOMAIN pending_requests : i >= disk_thread.curr /\ OnTrack(i)}
    IN  /\ disk_thread.at = "seek"
        /\ IF found = {}
             THEN disk_thread' = [disk_thread EXCEPT !.at = "move"]
             ELSE \E i \in found :
                    /\ \A j \in found : i <= j
                    /\ disk_thread' = [at   |-> "finish",
                                       curr |-> i,
                                       next |-> i < Len(pending_requests)]
        /\ UNCHANGED <<pending_requests, arm_vars, disk_req>>

(* The process whose request is being served.                              *)
served_process == pending_requests[disk_thread.curr].process

(* interruptControl(DISK_FINISH): the kernel wakes served_process.         *)
rw_disk_op_finish ==
    /\ disk_thread.at = "finish"
    /\ disk_thread' = [disk_thread EXCEPT !.at = "remove"]
    /\ UNCHANGED <<pending_requests, arm_vars, disk_req>>

(* Mutant: the node that has been served stays in the list.                *)
rw_disk_op_removeKeepsNode ==
    /\ disk_thread.at = "remove"
    /\ disk_thread' = [disk_thread EXCEPT
                         !.at = IF disk_thread.next THEN "seek" ELSE "move",
                         !.curr = @ + 1]
    /\ UNCHANGED <<pending_requests, arm_vars, disk_req>>

(* The node is taken off the list; the walk goes on from the next node     *)
(* read before, even if the list has grown since.                          *)
rw_disk_op_remove ==
    /\ disk_thread.at = "remove"
    /\ pending_requests' = RemoveAt(pending_requests, disk_thread.curr)
    /\ disk_thread' = [disk_thread EXCEPT
                         !.at = IF disk_thread.next THEN "seek" ELSE "move"]
    /\ UNCHANGED <<arm_vars, disk_req>>

(* Mutant: the arm turns one track too late at the outer end.              *)
arm_moveTurnsLate ==
    /\ disk_thread.at = "move"
    /\ disk_thread' = [at |-> "seek", curr |-> 1, next |-> FALSE]
    /\ IF forward_dir
         THEN IF curr_track > DISK_TRACK_LIMIT
                THEN forward_dir' = FALSE /\ UNCHANGED curr_track
                ELSE curr_track' = curr_track + 1 /\ UNCHANGED forward_dir
         ELSE IF curr_track = 0
                THEN forward_dir' = TRUE /\ UNCHANGED curr_track
                ELSE curr_track' = curr_track - 1 /\ UNCHANGED forward_dir
    /\ UNCHANGED <<pending_requests, disk_req>>

(* Mutant: the arm turns one track too early at the inner end.             *)
arm_moveTurnsEarly ==
    /\ disk_thread.at = "move"
    /\ disk_thread' = [at |-> "seek", curr |-> 1, next |-> FALSE]
    /\ IF forward_dir
         THEN IF curr_track = DISK_TRACK_LIMIT
                THEN forward_dir' = FALSE /\ UNCHANGED curr_track
                ELSE curr_track' = curr_track + 1 /\ UNCHANGED forward_dir
         ELSE IF curr_track = 1
                THEN forward_dir' = TRUE /\ UNCHANGED curr_track
                ELSE curr_track' = curr_track - 1 /\ UNCHANGED forward_dir
    /\ UNCHANGED <<pending_requests, disk_req>>

(* Mutant: the arm does not turn at the outer end.                         *)
arm_moveStays ==
    /\ disk_thread.at = "move"
    /\ disk_thread' = [at |-> "seek", curr |-> 1, next |-> FALSE]
    /\ IF forward_dir
         THEN /\ curr_track' = IF curr_track = DISK_TRACK_LIMIT THEN curr_track
                                                                ELSE curr_track + 1
              /\ UNCHANGED forward_dir
         ELSE IF curr_track = 0
                THEN forward_dir' = TRUE /\ UNCHANGED curr_track
                ELSE curr_track' = curr_track - 1 /\ UNCHANGED forward_dir
    /\ UNCHANGED <<pending_requests, disk_req>>

(* One tick of the arm: a move, or a change of direction on the spot.      *)
arm_move ==
    /\ disk_thread.at = "move"
    /\ disk_thread' = [at |-> "seek", curr |-> 1, next |-> FALSE]
    /\ IF forward_dir
         THEN IF curr_track = DISK_TRACK_LIMIT
                THEN forward_dir' = FALSE /\ UNCHANGED curr_track
                ELSE curr_track' = curr_track + 1 /\ UNCHANGED forward_dir
         ELSE IF curr_track = 0
                THEN forward_dir' = TRUE /\ UNCHANGED curr_track
                ELSE curr_track' = curr_track - 1 /\ UNCHANGED forward_dir
    /\ UNCHANGED <<pending_requests, disk_req>>

DiskStep ==
    \/ rw_disk_op_seek
    \/ rw_disk_op_finish
    \/ rw_disk_op_remove
    \/ arm_move

-----------------------------------------------------------------------------
(* A process waits for the disk from the moment the CPU thread handles its *)
(* request until DISK_FINISH.  A request whose process has been woken is   *)
(* still listed until the disk thread removes it.                          *)
Unserved(i) == ~(disk_thread.at = "remove" /\ disk_thread.curr = i)

InPending(p) == \E i \in DOMAIN pending_requests :
                   Unserved(i) /\ pending_requests[i].process = p

WaitsForDisk(p) == InPending(p) \/ (disk_req # NULL /\ disk_req.process = p)

(* The CPU thread: a process that does not wait asks for a track.          *)
Request ==
    /\ disk_req = NULL
    /\ \E p \in Process, track \in DiskTrack :
         /\ ~WaitsForDisk(p)
         /\ disk_request_create(p, track)

AddRequest == disk_req # NULL /\ disk_request_add

DiskNext == Request \/ AddRequest \/ DiskStep

(* The disk thread never blocks, and the CPU thread completes a call of    *)
(* disk_request it has begun.  No process has to make a request.           *)
DiskFairness == WF_disk_vars(DiskStep) /\ WF_disk_vars(AddRequest)

DiskSpec == DiskInit /\ [][DiskNext]_disk_vars /\ DiskFairness

-----------------------------------------------------------------------------
(* Properties *)

DiskTypeOK ==
    /\ pending_requests \in Seq(DiskRequest)
    /\ curr_track \in Tracks
    /\ forward_dir \in BOOLEAN
    /\ disk_req \in DiskRequest \cup {NULL}
    /\ disk_thread \in DiskThread

(* The disk thread never follows a stale position: the node it is serving  *)
(* is in the list and is for the current track, and if it read a next      *)
(* node, there is one.                                                     *)
ServedNodeIsListed ==
    disk_thread.at \in {"finish", "remove"} =>
        /\ disk_thread.curr \in DOMAIN pending_requests
        /\ OnTrack(disk_thread.curr)
        /\ disk_thread.next => disk_thread.curr < Len(pending_requests)

(* A process has one request in flight: woken once per request, it cannot  *)
(* be woken by the request before.                                         *)
OneRequestPerProcess ==
    \A p \in Process :
        /\ \A i, j \in DOMAIN pending_requests :
             /\ Unserved(i) /\ pending_requests[i].process = p
             /\ Unserved(j) /\ pending_requests[j].process = p
             => i = j
        /\ disk_req # NULL /\ disk_req.process = p => ~InPending(p)

(* The arm moves again and again: no walk over the list goes on for ever.  *)
WalksEnd == []<>(disk_thread.at = "move")

(* Again and again the track under the arm is asked for.                   *)
ItsTrackIsAskedFor == []<>(disk_req # NULL /\ disk_req.track = curr_track)

(* Every request is served in the end, as long as the walks over the list  *)
(* end.  They need not: the processes woken by a walk may ask for the      *)
(* track under the arm again before it is over, and it goes on with them.  *)
(* Only that keeps the arm where it is: requests for other tracks, however *)
(* many are added while the disk thread walks, do not.                     *)
EveryRequestIsServed ==
    /\ WalksEnd => \A p \in Process : WaitsForDisk(p) ~> ~WaitsForDisk(p)
    /\ WalksEnd \/ ItsTrackIsAskedFor
=============================================================================
