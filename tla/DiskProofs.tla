----------------------------- MODULE DiskProofs -----------------------------
(***************************************************************************)
(* Theorems about the hard disk, for any number of tracks, any set of      *)
(* processes and any requests, however the steps of the CPU thread and of  *)
(* the disk thread interleave.                                             *)
(***************************************************************************)
EXTENDS DiskTravel, TLAPS

(* The inductive invariant.  The served node stays in the list only        *)
(* because nobody but the disk thread takes nodes off, and a process is    *)
(* listed once only because it is asleep while its request is.             *)
DiskInv == DiskTypeOK /\ ServedNodeIsListed /\ OneRequestPerProcess

-----------------------------------------------------------------------------
(* What the two changes of the list do to its places.                      *)

LEMMA AppendPlaces ==
    ASSUME NEW D, NEW s \in Seq(D), NEW d \in D
    PROVE  /\ Append(s, d) \in Seq(D)
           /\ Len(s) \in Nat /\ Len(Append(s, d)) = Len(s) + 1
           /\ \A i \in 1..Len(s) : Append(s, d)[i] = s[i]
           /\ Append(s, d)[Len(s) + 1] = d
OBVIOUS

LEMMA RemoveAtPlaces ==
    ASSUME NEW D, NEW s \in Seq(D), NEW k \in 1..Len(s)
    PROVE  /\ RemoveAt(s, k) \in Seq(D)
           /\ Len(s) \in Nat /\ Len(RemoveAt(s, k)) = Len(s) - 1
           /\ \A i \in 1..(Len(s) - 1) :
                RemoveAt(s, k)[i] = IF i < k THEN s[i] ELSE s[i + 1]
<1> DEFINE before == SubSeq(s, 1, k - 1)
           after  == SubSeq(s, k + 1, Len(s))
           r      == RemoveAt(s, k)
<1>1. k \in Int /\ 1 <= k /\ k <= Len(s) /\ Len(s) \in Nat
  OBVIOUS
<1>2. /\ before \in Seq(D) /\ Len(before) = k - 1
      /\ \A i \in 1..(k - 1) : before[i] = s[i]
  BY <1>1
<1>3. /\ after \in Seq(D) /\ Len(after) = Len(s) - k
      /\ \A i \in 1..(Len(s) - k) : after[i] = s[k + i]
  BY <1>1
<1>4. r = before \o after
  BY DEF RemoveAt
<1> HIDE DEF before, after, r
<1>5. r \in Seq(D) /\ Len(r) = Len(s) - 1
  <2>1. before \o after \in Seq(D) /\ Len(before \o after) = Len(before) + Len(after)
    BY <1>2, <1>3
  <2> QED BY <2>1, <1>1, <1>2, <1>3, <1>4
<1>6. ASSUME NEW i \in 1..(Len(s) - 1)
      PROVE  r[i] = IF i < k THEN s[i] ELSE s[i + 1]
  <2>0. i \in Int /\ 1 <= i /\ i <= Len(s) - 1
    BY <1>1
  <2>1. CASE i < k
    BY <2>0, <2>1, <1>1, <1>2, <1>3, <1>4
  <2>2. CASE i >= k
    <3>1. i - (k - 1) \in 1..(Len(s) - k) /\ k + (i - (k - 1)) = i + 1
      BY <2>0, <2>2, <1>1
    <3>2. r[i] = after[i - (k - 1)]
      BY <2>0, <2>2, <1>1, <1>2, <1>3, <1>4
    <3> QED BY <3>1, <3>2, <2>0, <2>2, <1>1, <1>3
  <2> QED BY <2>0, <2>1, <2>2, <1>1
<1> QED BY <1>5, <1>6, <1>1 DEF r

-----------------------------------------------------------------------------
LEMMA EstimateIsNat ==
    ASSUME DiskInv, NEW track \in Nat
    PROVE  estimated_moves(track) \in Int
BY DiskTrackLimitAssumption DEF DiskInv, DiskTypeOK, Tracks, estimated_moves

LEMMA InitDiskInv == DiskInit => DiskInv
BY DiskTrackLimitAssumption
   DEF DiskInit, disk_scheduler_init, DiskInv, DiskTypeOK, DiskThread, Tracks,
       ServedNodeIsListed, OneRequestPerProcess, InPending

LEMMA RequestDiskInv == DiskInv /\ Request => DiskInv'
<1> SUFFICES ASSUME DiskInv,
                    NEW p \in Process, NEW track \in DiskTrack,
                    ~WaitsForDisk(p), disk_request_create(p, track)
             PROVE  DiskInv'
  BY DEF Request
<1>1. /\ disk_req' = [process |-> p, track |-> track,
                      turnaround |-> DISK_OPERATION_TIME
                                       + estimated_moves(track) * DISK_TRACK_MOVE_TIME]
      /\ UNCHANGED <<pending_requests, arm_vars, disk_thread>>
  BY DEF disk_request_create
<1>2. disk_req' \in DiskRequest /\ disk_req'.process = p
  BY <1>1, EstimateIsNat, DiskTrackAssumption
     DEF DiskRequest, DISK_OPERATION_TIME, DISK_TRACK_MOVE_TIME
<1>3. ~InPending(p) /\ \A q \in Process : InPending(q)' = InPending(q)
  BY <1>1 DEF WaitsForDisk, InPending, Unserved
<1> QED BY <1>1, <1>2, <1>3
        DEF DiskInv, DiskTypeOK, arm_vars, ServedNodeIsListed, OnTrack,
            OneRequestPerProcess, Unserved

LEMMA AddDiskInv == DiskInv /\ AddRequest => DiskInv'
<1> SUFFICES ASSUME DiskInv, AddRequest PROVE DiskInv'
  OBVIOUS
<1>1. /\ disk_req \in DiskRequest /\ disk_req' = NULL
      /\ pending_requests \in Seq(DiskRequest)
      /\ pending_requests' = Append(pending_requests, disk_req)
      /\ UNCHANGED <<arm_vars, disk_thread>>
  BY DEF AddRequest, disk_request_add, DiskInv, DiskTypeOK
<1>2. /\ pending_requests' \in Seq(DiskRequest)
      /\ Len(pending_requests) \in Nat /\ Len(pending_requests') = Len(pending_requests) + 1
      /\ \A i \in 1..Len(pending_requests) : pending_requests'[i] = pending_requests[i]
      /\ pending_requests'[Len(pending_requests) + 1] = disk_req
  BY <1>1, AppendPlaces
<1>3. /\ DOMAIN pending_requests = 1..Len(pending_requests)
      /\ DOMAIN pending_requests' = 1..(Len(pending_requests) + 1)
  BY <1>1, <1>2
<1>4. DiskTypeOK'
  BY <1>1, <1>2 DEF DiskInv, DiskTypeOK, arm_vars
<1>5. ServedNodeIsListed'
  BY <1>1, <1>2, <1>3 DEF DiskInv, ServedNodeIsListed, arm_vars, OnTrack, DiskTypeOK, DiskThread
<1>6. OneRequestPerProcess'
  <2> SUFFICES ASSUME NEW p \in Process,
                      NEW i \in DOMAIN pending_requests', NEW j \in DOMAIN pending_requests',
                      Unserved(i)', pending_requests'[i].process = p,
                      Unserved(j)', pending_requests'[j].process = p
               PROVE  i = j
    BY <1>1 DEF OneRequestPerProcess
  <2>1. Unserved(i) /\ Unserved(j)
    BY <1>1 DEF Unserved
  <2>2. CASE i \in DOMAIN pending_requests /\ j \in DOMAIN pending_requests
    BY <2>1, <2>2, <1>2, <1>3 DEF DiskInv, OneRequestPerProcess
  <2>3. ASSUME NEW k \in DOMAIN pending_requests, Unserved(k), pending_requests'[k].process = p,
               disk_req.process = p
        PROVE  FALSE
    BY <2>3, <1>2, <1>3 DEF DiskInv, OneRequestPerProcess, InPending, AddRequest
  <2> QED BY <2>1, <2>2, <2>3, <1>2, <1>3
<1> QED BY <1>4, <1>5, <1>6 DEF DiskInv

LEMMA SeekDiskInv == DiskInv /\ rw_disk_op_seek => DiskInv'
<1> SUFFICES ASSUME DiskInv, rw_disk_op_seek PROVE DiskInv'
  OBVIOUS
<1>1. /\ disk_thread.at = "seek"
      /\ UNCHANGED <<pending_requests, arm_vars, disk_req>>
  BY DEF rw_disk_op_seek
<1>2. \/ disk_thread' = [disk_thread EXCEPT !.at = "move"]
      \/ \E i \in DOMAIN pending_requests :
           /\ OnTrack(i)
           /\ disk_thread' = [at |-> "finish", curr |-> i, next |-> i < Len(pending_requests)]
  BY DEF rw_disk_op_seek
<1>3. disk_thread \in DiskThread /\ pending_requests \in Seq(DiskRequest)
  BY DEF DiskInv, DiskTypeOK
<1>4. DOMAIN pending_requests = 1..Len(pending_requests) /\ Len(pending_requests) \in Nat
  BY <1>3
<1>5. /\ disk_thread' \in DiskThread /\ disk_thread'.at \in {"move", "finish"}
      /\ ServedNodeIsListed'
  <2>1. CASE disk_thread' = [disk_thread EXCEPT !.at = "move"]
    <3>1. disk_thread' \in DiskThread /\ disk_thread'.at = "move"
      BY <2>1, <1>3 DEF DiskThread
    <3> QED BY <3>1 DEF ServedNodeIsListed
  <2>2. ASSUME NEW i \in DOMAIN pending_requests, OnTrack(i),
               disk_thread' = [at |-> "finish", curr |-> i, next |-> i < Len(pending_requests)]
        PROVE  /\ disk_thread' \in DiskThread /\ disk_thread'.at = "finish"
               /\ ServedNodeIsListed'
    <3>1. i \in Nat \ {0} /\ (i < Len(pending_requests)) \in BOOLEAN
      BY <1>4
    <3>2. disk_thread' \in DiskThread
      BY <2>2, <3>1 DEF DiskThread
    <3>3. /\ disk_thread'.at = "finish" /\ disk_thread'.curr = i
          /\ disk_thread'.next <=> i < Len(pending_requests)
      BY <2>2
    <3> QED BY <1>1, <2>2, <3>2, <3>3 DEF ServedNodeIsListed, OnTrack, arm_vars
  <2> QED BY <2>1, <2>2, <1>2
<1>6. DiskTypeOK'
  BY <1>1, <1>5 DEF DiskInv, DiskTypeOK, arm_vars
<1>7. \A i : Unserved(i) /\ Unserved(i)'
  BY <1>1, <1>5 DEF Unserved
<1>8. OneRequestPerProcess'
  BY <1>1, <1>7 DEF DiskInv, OneRequestPerProcess, InPending
<1> QED BY <1>5, <1>6, <1>8 DEF DiskInv

LEMMA FinishDiskInv == DiskInv /\ rw_disk_op_finish => DiskInv'
<1> SUFFICES ASSUME DiskInv, rw_disk_op_finish PROVE DiskInv'
  OBVIOUS
<1>1. /\ disk_thread \in DiskThread /\ disk_thread.at = "finish"
      /\ disk_thread' = [disk_thread EXCEPT !.at = "remove"]
      /\ UNCHANGED <<pending_requests, arm_vars, disk_req>>
  BY DEF rw_disk_op_finish, DiskInv, DiskTypeOK
<1>2. DiskTypeOK' /\ ServedNodeIsListed'
  BY <1>1 DEF DiskInv, DiskTypeOK, DiskThread, ServedNodeIsListed, OnTrack, arm_vars
<1>3. \A i : Unserved(i)
  BY <1>1 DEF Unserved
<1>4. OneRequestPerProcess'
  BY <1>1, <1>3 DEF DiskInv, OneRequestPerProcess, InPending
<1> QED BY <1>2, <1>4 DEF DiskInv

(* The places after the node has been taken off, and where they were.      *)
LEMMA RemoveEffect ==
    ASSUME DiskInv, rw_disk_op_remove
    PROVE  LET L == Len(pending_requests)
               k == disk_thread.curr
           IN  /\ L \in Nat /\ k \in 1..L
               /\ pending_requests' \in Seq(DiskRequest)
               /\ DOMAIN pending_requests = 1..L /\ DOMAIN pending_requests' = 1..(L - 1)
               /\ \A i \in 1..(L - 1) :
                    pending_requests'[i] = pending_requests[IF i < k THEN i ELSE i + 1]
               /\ disk_thread' = [disk_thread EXCEPT
                                    !.at = IF disk_thread.next THEN "seek" ELSE "move"]
               /\ disk_thread' \in DiskThread
               /\ \A i : Unserved(i)' /\ (Unserved(i) <=> i # k)
               /\ UNCHANGED <<arm_vars, disk_req>>
<1> DEFINE L == Len(pending_requests)
           k == disk_thread.curr
<1>1. /\ disk_thread.at = "remove"
      /\ pending_requests' = RemoveAt(pending_requests, k)
      /\ disk_thread' = [disk_thread EXCEPT
                           !.at = IF disk_thread.next THEN "seek" ELSE "move"]
      /\ UNCHANGED <<arm_vars, disk_req>>
  BY DEF rw_disk_op_remove
<1>2. pending_requests \in Seq(DiskRequest) /\ disk_thread \in DiskThread
  BY DEF DiskInv, DiskTypeOK
<1>3. L \in Nat /\ k \in 1..L /\ DOMAIN pending_requests = 1..L
  BY <1>1, <1>2 DEF DiskInv, ServedNodeIsListed
<1>4. /\ pending_requests' \in Seq(DiskRequest) /\ Len(pending_requests') = L - 1
      /\ \A i \in 1..(L - 1) :
           pending_requests'[i] = IF i < k THEN pending_requests[i] ELSE pending_requests[i + 1]
  BY <1>1, <1>2, <1>3, RemoveAtPlaces
<1>5. DOMAIN pending_requests' = 1..(L - 1)
  BY <1>4
<1>6. disk_thread' \in DiskThread /\ disk_thread'.at \in {"seek", "move"}
  BY <1>1, <1>2 DEF DiskThread
<1>7. \A i : Unserved(i)' /\ (Unserved(i) <=> i # k)
  BY <1>1, <1>6 DEF Unserved
<1> QED BY <1>1, <1>3, <1>4, <1>5, <1>6, <1>7

LEMMA RemoveDiskInv == DiskInv /\ rw_disk_op_remove => DiskInv'
<1> SUFFICES ASSUME DiskInv, rw_disk_op_remove PROVE DiskInv'
  OBVIOUS
<1> DEFINE L == Len(pending_requests)
           k == disk_thread.curr
           was(i) == IF i < k THEN i ELSE i + 1
<1>1. /\ L \in Nat /\ k \in 1..L
      /\ pending_requests' \in Seq(DiskRequest)
      /\ DOMAIN pending_requests = 1..L /\ DOMAIN pending_requests' = 1..(L - 1)
      /\ \A i \in 1..(L - 1) : pending_requests'[i] = pending_requests[was(i)]
      /\ disk_thread' \in DiskThread
      /\ \A i : Unserved(i)' /\ (Unserved(i) <=> i # k)
      /\ UNCHANGED <<arm_vars, disk_req>>
  BY RemoveEffect
<1>2. disk_thread'.at \in {"seek", "move"}
  BY RemoveEffect DEF DiskInv, DiskTypeOK, DiskThread
<1>3. DiskTypeOK' /\ ServedNodeIsListed'
  BY <1>1, <1>2 DEF DiskInv, DiskTypeOK, ServedNodeIsListed, arm_vars
<1>4. \A i \in 1..(L - 1) : was(i) \in 1..L /\ was(i) # k
  BY <1>1
<1>5. \A i, j \in 1..(L - 1) : was(i) = was(j) => i = j
  BY <1>1
<1> HIDE DEF L, k, was
<1>6. \A i \in 1..(L - 1) : Unserved(was(i))
  BY <1>1, <1>4
<1>7. OneRequestPerProcess'
  BY <1>1, <1>4, <1>5, <1>6 DEF DiskInv, OneRequestPerProcess, InPending
<1> QED BY <1>3, <1>7 DEF DiskInv

(* One tick of the arm: it turns on the spot, or moves by one track.       *)
LEMMA ArmTick ==
    ASSUME DiskInv, arm_move
    PROVE  /\ DISK_TRACK_LIMIT \in Nat
           /\ curr_track \in 0..DISK_TRACK_LIMIT /\ curr_track' \in 0..DISK_TRACK_LIMIT
           /\ forward_dir \in BOOLEAN /\ forward_dir' \in BOOLEAN
           /\ \/ /\ forward_dir /\ curr_track = DISK_TRACK_LIMIT
                 /\ ~forward_dir' /\ curr_track' = curr_track
              \/ /\ forward_dir /\ curr_track # DISK_TRACK_LIMIT
                 /\ forward_dir' /\ curr_track' = curr_track + 1
              \/ /\ ~forward_dir /\ curr_track = 0
                 /\ forward_dir' /\ curr_track' = curr_track
              \/ /\ ~forward_dir /\ curr_track # 0
                 /\ ~forward_dir' /\ curr_track' = curr_track - 1
<1>1. /\ DISK_TRACK_LIMIT \in Nat /\ curr_track \in 0..DISK_TRACK_LIMIT
      /\ forward_dir \in BOOLEAN
  BY DiskTrackLimitAssumption DEF DiskInv, DiskTypeOK, Tracks
<1>2. IF forward_dir
         THEN IF curr_track = DISK_TRACK_LIMIT
                THEN forward_dir' = FALSE /\ curr_track' = curr_track
                ELSE curr_track' = curr_track + 1 /\ forward_dir' = forward_dir
         ELSE IF curr_track = 0
                THEN forward_dir' = TRUE /\ curr_track' = curr_track
                ELSE curr_track' = curr_track - 1 /\ forward_dir' = forward_dir
  BY DEF arm_move
<1>3. CASE forward_dir /\ curr_track = DISK_TRACK_LIMIT
  <2>1. forward_dir' = FALSE /\ curr_track' = curr_track
    BY <1>2, <1>3, Zenon
  <2> QED BY <2>1, <1>1, <1>3
<1>4. CASE forward_dir /\ curr_track # DISK_TRACK_LIMIT
  <2>1. curr_track' = curr_track + 1 /\ forward_dir' = forward_dir
    BY <1>2, <1>4, Zenon
  <2> QED BY <2>1, <1>1, <1>4
<1>5. CASE ~forward_dir /\ curr_track = 0
  <2>1. forward_dir' = TRUE /\ curr_track' = curr_track
    BY <1>2, <1>5, Zenon
  <2> QED BY <2>1, <1>1, <1>5
<1>6. CASE ~forward_dir /\ curr_track # 0
  <2>1. curr_track' = curr_track - 1 /\ forward_dir' = forward_dir
    BY <1>2, <1>6, Zenon
  <2> QED BY <2>1, <1>1, <1>6
<1> QED BY <1>3, <1>4, <1>5, <1>6

LEMMA MoveDiskInv == DiskInv /\ arm_move => DiskInv'
<1> SUFFICES ASSUME DiskInv, arm_move PROVE DiskInv'
  OBVIOUS
<1>1. /\ disk_thread.at = "move"
      /\ disk_thread' = [at |-> "seek", curr |-> 1, next |-> FALSE]
      /\ UNCHANGED <<pending_requests, disk_req>>
  BY DEF arm_move
<1>2. DiskTypeOK'
  BY <1>1, ArmTick DEF DiskInv, DiskTypeOK, DiskThread, Tracks
<1>3. \A i : Unserved(i) /\ Unserved(i)'
  BY <1>1 DEF Unserved
<1>4. ServedNodeIsListed' /\ OneRequestPerProcess'
  BY <1>1, <1>3 DEF DiskInv, ServedNodeIsListed, OneRequestPerProcess, InPending
<1> QED BY <1>2, <1>4 DEF DiskInv

LEMMA NextDiskInv == DiskInv /\ [DiskNext]_disk_vars => DiskInv'
<1> SUFFICES ASSUME DiskInv, [DiskNext]_disk_vars PROVE DiskInv'
  OBVIOUS
<1>1. CASE DiskNext
  BY <1>1, RequestDiskInv, AddDiskInv, SeekDiskInv, FinishDiskInv, RemoveDiskInv, MoveDiskInv
     DEF DiskNext, DiskStep
<1>2. CASE UNCHANGED disk_vars
  BY <1>2 DEF disk_vars, DiskInv, DiskTypeOK, ServedNodeIsListed, OnTrack,
              OneRequestPerProcess, InPending, Unserved
<1> QED BY <1>1, <1>2

-----------------------------------------------------------------------------
(* Which processes wait for a listed request, before and after each step.  *)

LEMMA EstimateIsBounded ==
    ASSUME DiskInv, NEW track \in Tracks
    PROVE  estimated_moves(track) \in 0..(2 * DISK_TRACK_LIMIT)
BY DiskTrackLimitAssumption DEF DiskInv, DiskTypeOK, Tracks, estimated_moves

LEMMA RequestWaits ==
    ASSUME DiskInv, disk_req = NULL,
           NEW p \in Process, NEW track \in DiskTrack \cap Tracks,
           ~WaitsForDisk(p), disk_request_create(p, track)
    PROVE  /\ DiskInv'
           /\ disk_req' \in DiskRequest
           /\ disk_req'.process = p /\ disk_req'.track = track
           /\ \E n \in 0..(2 * DISK_TRACK_LIMIT) :
                disk_req'.turnaround = DISK_OPERATION_TIME + n * DISK_TRACK_MOVE_TIME
           /\ \A q \in Process : InPending(q)' <=> InPending(q)
<1>1. DiskInv'
  BY RequestDiskInv DEF Request
<1>2. /\ disk_req' = [process |-> p, track |-> track,
                      turnaround |-> DISK_OPERATION_TIME
                                       + estimated_moves(track) * DISK_TRACK_MOVE_TIME]
      /\ UNCHANGED <<pending_requests, arm_vars, disk_thread>>
  BY DEF disk_request_create
<1>3. disk_req' \in DiskRequest
  BY <1>2, EstimateIsNat, DiskTrackAssumption
     DEF DiskRequest, DISK_OPERATION_TIME, DISK_TRACK_MOVE_TIME
<1>4. /\ disk_req'.process = p /\ disk_req'.track = track
      /\ disk_req'.turnaround = DISK_OPERATION_TIME
                                  + estimated_moves(track) * DISK_TRACK_MOVE_TIME
  BY <1>2
<1>5. \A q \in Process : InPending(q)' <=> InPending(q)
  BY <1>2 DEF InPending, Unserved
<1> QED BY <1>1, <1>3, <1>4, <1>5, EstimateIsBounded

LEMMA AddWaits ==
    ASSUME DiskInv, AddRequest
    PROVE  /\ DiskInv' /\ disk_req \in DiskRequest /\ disk_req' = NULL
           /\ \A q \in Process : InPending(q)' <=> InPending(q) \/ q = disk_req.process
<1>1. /\ disk_req \in DiskRequest /\ disk_req' = NULL
      /\ pending_requests \in Seq(DiskRequest)
      /\ pending_requests' = Append(pending_requests, disk_req)
      /\ UNCHANGED <<arm_vars, disk_thread>>
  BY DEF AddRequest, disk_request_add, DiskInv, DiskTypeOK
<1> DEFINE L == Len(pending_requests)
<1>2. /\ L \in Nat /\ DOMAIN pending_requests = 1..L /\ DOMAIN pending_requests' = 1..(L + 1)
      /\ \A i \in 1..L : pending_requests'[i] = pending_requests[i]
      /\ pending_requests'[L + 1] = disk_req
  BY <1>1, AppendPlaces
<1>3. \A i : Unserved(i)' <=> Unserved(i)
  BY <1>1 DEF Unserved
<1>4. Unserved(L + 1)
  BY <1>2 DEF DiskInv, ServedNodeIsListed, Unserved
<1> HIDE DEF L
<1>5. \A q \in Process : InPending(q)' <=> InPending(q) \/ q = disk_req.process
  BY <1>2, <1>3, <1>4 DEF InPending
<1> QED BY <1>1, <1>5, AddDiskInv

LEMMA FinishWaits ==
    ASSUME DiskInv, rw_disk_op_finish
    PROVE  /\ DiskInv' /\ disk_req' = disk_req
           /\ served_process \in Process /\ InPending(served_process)
           /\ \A q \in Process : InPending(q)' <=> InPending(q) /\ q # served_process
<1> DEFINE k == disk_thread.curr
<1>1. /\ disk_thread \in DiskThread /\ disk_thread.at = "finish"
      /\ disk_thread' = [disk_thread EXCEPT !.at = "remove"]
      /\ UNCHANGED <<pending_requests, arm_vars, disk_req>>
      /\ pending_requests \in Seq(DiskRequest)
      /\ k \in DOMAIN pending_requests
  BY DEF rw_disk_op_finish, DiskInv, DiskTypeOK, ServedNodeIsListed
<1>2. \A i : Unserved(i) /\ (Unserved(i)' <=> i # k)
  BY <1>1 DEF Unserved, DiskThread
<1>3. /\ served_process = pending_requests[k].process
      /\ served_process \in Process /\ InPending(served_process)
  <2>1. pending_requests[k] \in DiskRequest
    BY <1>1
  <2>2. pending_requests[k].process \in Process
    BY <2>1 DEF DiskRequest
  <2>3. served_process = pending_requests[k].process
    BY DEF served_process
  <2> QED BY <1>1, <1>2, <2>2, <2>3 DEF InPending
<1>4. \A i, j \in DOMAIN pending_requests :
        pending_requests[i].process = pending_requests[j].process => i = j
  <2>1. ASSUME NEW i \in DOMAIN pending_requests
        PROVE  pending_requests[i].process \in Process
    <3>1. pending_requests[i] \in DiskRequest
      BY <1>1
    <3> QED BY <3>1 DEF DiskRequest
  <2> QED BY <2>1, <1>2 DEF DiskInv, OneRequestPerProcess
<1> HIDE DEF k
<1>5. \A q \in Process : InPending(q)' <=> InPending(q) /\ q # served_process
  BY <1>1, <1>2, <1>3, <1>4 DEF InPending
<1> QED BY <1>1, <1>3, <1>5, FinishDiskInv

LEMMA WalkWaits ==
    ASSUME DiskInv, rw_disk_op_seek \/ rw_disk_op_remove \/ arm_move
    PROVE  /\ DiskInv' /\ disk_req' = disk_req
           /\ \A q \in Process : InPending(q)' <=> InPending(q)
<1>1. CASE rw_disk_op_seek
  <2>1. disk_thread.at = "seek" /\ UNCHANGED <<pending_requests, disk_req>>
    BY <1>1 DEF rw_disk_op_seek
  <2>2. disk_thread'.at # "remove"
    BY <1>1 DEF rw_disk_op_seek, DiskInv, DiskTypeOK, DiskThread
  <2> QED BY <1>1, <2>1, <2>2, SeekDiskInv DEF InPending, Unserved
<1>2. CASE arm_move
  <2>1. /\ disk_thread.at # "remove" /\ disk_thread'.at # "remove"
        /\ UNCHANGED <<pending_requests, disk_req>>
    BY <1>2 DEF arm_move
  <2> QED BY <1>2, <2>1, MoveDiskInv DEF InPending, Unserved
<1>3. CASE rw_disk_op_remove
  <2> DEFINE L == Len(pending_requests)
             k == disk_thread.curr
             was(i) == IF i < k THEN i ELSE i + 1
  <2>1. /\ L \in Nat /\ k \in 1..L
        /\ DOMAIN pending_requests = 1..L /\ DOMAIN pending_requests' = 1..(L - 1)
        /\ \A i \in 1..(L - 1) : pending_requests'[i] = pending_requests[was(i)]
        /\ \A i : Unserved(i)' /\ (Unserved(i) <=> i # k)
        /\ disk_req' = disk_req
    BY <1>3, RemoveEffect
  <2>2. /\ \A i \in 1..(L - 1) : was(i) \in 1..L /\ was(i) # k
        /\ \A j \in 1..L : j # k => \E i \in 1..(L - 1) : was(i) = j
    <3>1. \A i \in 1..(L - 1) : was(i) \in 1..L /\ was(i) # k
      BY <2>1
    <3>2. \A j \in 1..L : j < k => j \in 1..(L - 1) /\ was(j) = j
      BY <2>1
    <3>3. \A j \in 1..L : j > k => j - 1 \in 1..(L - 1) /\ was(j - 1) = j
      BY <2>1
    <3>4. \A j \in 1..L : j # k => j < k \/ j > k
      BY <2>1
    <3> QED BY <3>1, <3>2, <3>3, <3>4
  <2> HIDE DEF L, k, was
  <2>3. ASSUME NEW q \in Process, InPending(q)' PROVE InPending(q)
    <3>1. PICK i \in 1..(L - 1) : pending_requests'[i].process = q
      BY <2>1, <2>3 DEF InPending
    <3>2. /\ was(i) \in 1..L /\ Unserved(was(i))
          /\ pending_requests[was(i)].process = q
      BY <2>1, <2>2, <3>1
    <3> QED BY <2>1, <3>2 DEF InPending
  <2>4. ASSUME NEW q \in Process, InPending(q) PROVE InPending(q)'
    <3>1. PICK j \in 1..L : Unserved(j) /\ pending_requests[j].process = q
      BY <2>1, <2>4 DEF InPending
    <3>2. PICK i \in 1..(L - 1) : was(i) = j
      BY <2>1, <2>2, <3>1
    <3>3. Unserved(i)' /\ pending_requests'[i].process = q
      BY <2>1, <3>1, <3>2
    <3> QED BY <2>1, <3>3 DEF InPending
  <2> QED BY <1>3, <2>1, <2>3, <2>4, RemoveDiskInv
<1> QED BY <1>1, <1>2, <1>3

LEMMA DiskInvariant == DiskSpec => []DiskInv
BY InitDiskInv, NextDiskInv, PTL DEF DiskSpec

(* The fields of the disk scheduler and of a request keep their types; in  *)
(* particular the arm never leaves the tracks, whatever track is asked for.*)
THEOREM DiskTypes == DiskSpec => []DiskTypeOK
BY DiskInvariant, PTL DEF DiskInv

(* rw_disk_op_resolve never follows a stale node: the node it serves, and  *)
(* the next one it has read before, are in the list, however many requests *)
(* the CPU thread adds meanwhile.                                          *)
THEOREM DiskServesListed == DiskSpec => []ServedNodeIsListed
BY DiskInvariant, PTL DEF DiskInv

(* A DISK_FINISH answers the one request its process waits for: a process  *)
(* woken before its old node is removed can have a new request listed, but *)
(* never two unserved ones.                                                *)
THEOREM DiskOneRequest == DiskSpec => []OneRequestPerProcess
BY DiskInvariant, PTL DEF DiskInv

-----------------------------------------------------------------------------
(* The way of the arm                                                      *)

(* Whether the walk over the list that the disk thread is in will still    *)
(* come to place i.                                                        *)
WillMeet(i) ==
    \/ disk_thread.at = "seek" /\ disk_thread.curr <= i
    \/ disk_thread.at = "finish" /\ disk_thread.curr = i
    \/ /\ disk_thread.at \in {"finish", "remove"}
       /\ disk_thread.curr < i /\ disk_thread.next

(* The moves of the arm until request i is served: none if the walk will   *)
(* meet it, to the end and back if it is for the track under the arm and   *)
(* the walk has missed it, and what disk_request estimates otherwise.      *)
ToGo(i) ==
    IF OnTrack(i)
      THEN IF WillMeet(i) THEN 0
           ELSE IF forward_dir THEN 2 * (DISK_TRACK_LIMIT - curr_track)
           ELSE 2 * curr_track
      ELSE estimated_moves(pending_requests[i].track)

(* The strengthening: what the arm has done and what it has still to do    *)
(* for a request add up to the same as when it was listed.                 *)
TravelTypeOK == travel \in [Process -> Nat] /\ met \in [Process -> Meeting]

EstimateFor(way) == DISK_OPERATION_TIME + way * DISK_TRACK_MOVE_TIME

OnItsWay(i) ==
    LET p == pending_requests[i].process
    IN  /\ travel[p] + ToGo(i) <= 2 * DISK_TRACK_LIMIT
        /\ met[p] = "ahead" =>
             pending_requests[i].turnaround = EstimateFor(travel[p] + ToGo(i))

InHandAhead ==
    disk_req # NULL /\ met[disk_req.process] = "ahead" =>
        /\ disk_req.track # curr_track
        /\ disk_req.turnaround = EstimateFor(estimated_moves(disk_req.track))

ListedOnTheirWay ==
    \A i \in DOMAIN pending_requests :
        Unserved(i) /\ pending_requests[i].track \in Tracks => OnItsWay(i)

TravelInv == TravelTypeOK /\ ListedOnTheirWay /\ InHandAhead

-----------------------------------------------------------------------------
(* How a step of the disk changes the two histories for a process whose    *)
(* request is listed before and after it.                                  *)
LEMMA KeepsHistory ==
    ASSUME TravelTypeOK, TravelNext, NEW p \in Process,
           NEW i \in DOMAIN pending_requests, NEW j \in DOMAIN pending_requests',
           Unserved(i), pending_requests[i].process = p,
           Unserved(j)', pending_requests'[j].process = p,
           ~InHand(p)', InHand(p) => ~ArmTicks
    PROVE  /\ travel'[p] = travel[p] + (IF curr_track' = curr_track THEN 0 ELSE 1)
           /\ met'[p] = met[p]
<1>1. InPending(p) /\ InPending(p)' /\ WaitsForDisk(p)'
  BY DEF InPending, WaitsForDisk
<1>2. travel'[p] = IF ~InPending(p) \/ ~InPending(p)' THEN 0
                   ELSE IF curr_track' # curr_track THEN travel[p] + 1
                   ELSE travel[p]
  BY DEF TravelNext
<1>3. travel[p] \in Nat
  BY DEF TravelTypeOK
<1>4. travel'[p] = travel[p] + (IF curr_track' = curr_track THEN 0 ELSE 1)
  BY <1>1, <1>2, <1>3
<1>5. met'[p] = CASE ~WaitsForDisk(p)' -> "ahead"
                  [] InHand(p)' /\ ~InHand(p) ->
                       IF disk_req'.track = curr_track THEN "here" ELSE "ahead"
                  [] InHand(p) /\ ArmTicks -> "stale"
                  [] OTHER -> met[p]
  BY DEF TravelNext
<1>6. met'[p] = met[p]
  BY <1>1, <1>5
<1> QED BY <1>4, <1>6

LEMMA TravelTypes == TravelTypeOK /\ TravelNext => TravelTypeOK'
<1> SUFFICES ASSUME TravelTypeOK, TravelNext PROVE TravelTypeOK'
  OBVIOUS
<1>1. ASSUME NEW p \in Process
      PROVE  (IF ~InPending(p) \/ ~InPending(p)' THEN 0
              ELSE IF curr_track' # curr_track THEN travel[p] + 1
              ELSE travel[p]) \in Nat
  BY DEF TravelTypeOK
<1>2. travel' \in [Process -> Nat]
  BY <1>1 DEF TravelNext
<1>3. ASSUME NEW p \in Process
      PROVE  (CASE ~WaitsForDisk(p)' -> "ahead"
                [] InHand(p)' /\ ~InHand(p) ->
                     IF disk_req'.track = curr_track THEN "here" ELSE "ahead"
                [] InHand(p) /\ ArmTicks -> "stale"
                [] OTHER -> met[p]) \in Meeting
  BY DEF TravelTypeOK, Meeting
<1>4. met' \in [Process -> Meeting]
  BY <1>3 DEF TravelNext
<1> QED BY <1>2, <1>4 DEF TravelTypeOK

-----------------------------------------------------------------------------
(* How a step of the disk changes the way that is left.                    *)
LEMMA Places ==
    ASSUME DiskInv
    PROVE  /\ Len(pending_requests) \in Nat
           /\ DOMAIN pending_requests = 1..Len(pending_requests)
           /\ \A i \in DOMAIN pending_requests :
                /\ pending_requests[i] \in DiskRequest
                /\ pending_requests[i].process \in Process
                /\ pending_requests[i].track \in Nat
                /\ pending_requests[i].turnaround \in Int
           /\ DISK_TRACK_LIMIT \in Nat /\ curr_track \in 0..DISK_TRACK_LIMIT
           /\ forward_dir \in BOOLEAN
           /\ disk_thread.at \in {"seek", "finish", "remove", "move"}
           /\ disk_thread.curr \in Nat \ {0}
           /\ disk_thread.next \in BOOLEAN
<1>1. pending_requests \in Seq(DiskRequest)
  BY DEF DiskInv, DiskTypeOK
<1>2. \A i \in DOMAIN pending_requests : pending_requests[i] \in DiskRequest
  BY <1>1
<1>3. \A r \in DiskRequest : r.process \in Process /\ r.track \in Nat /\ r.turnaround \in Int
  BY DEF DiskRequest
<1>4. /\ disk_thread.at \in {"seek", "finish", "remove", "move"}
      /\ disk_thread.curr \in Nat \ {0}
      /\ disk_thread.next \in BOOLEAN
  BY DEF DiskInv, DiskTypeOK, DiskThread
<1>5. Len(pending_requests) \in Nat /\ DOMAIN pending_requests = 1..Len(pending_requests)
  BY <1>1
<1>6. /\ DISK_TRACK_LIMIT \in Nat /\ curr_track \in 0..DISK_TRACK_LIMIT
      /\ forward_dir \in BOOLEAN
  BY DiskTrackLimitAssumption DEF DiskInv, DiskTypeOK, Tracks
<1>7. \A i \in DOMAIN pending_requests :
        /\ pending_requests[i].process \in Process
        /\ pending_requests[i].track \in Nat
        /\ pending_requests[i].turnaround \in Int
  BY <1>2, <1>3
<1> QED BY <1>2, <1>4, <1>5, <1>6, <1>7

LEMMA ToGoBounds ==
    ASSUME DiskInv, NEW i \in DOMAIN pending_requests, pending_requests[i].track \in Tracks
    PROVE  ToGo(i) \in 0..(2 * DISK_TRACK_LIMIT)
<1> DEFINE track == pending_requests[i].track
<1>1. /\ DISK_TRACK_LIMIT \in Nat /\ curr_track \in 0..DISK_TRACK_LIMIT
      /\ track \in 0..DISK_TRACK_LIMIT
  BY Places DEF Tracks
<1> HIDE DEF track
<1>2. estimated_moves(track) \in 0..(2 * DISK_TRACK_LIMIT)
  BY <1>1 DEF estimated_moves
<1>3. /\ 2 * (DISK_TRACK_LIMIT - curr_track) \in 0..(2 * DISK_TRACK_LIMIT)
      /\ 2 * curr_track \in 0..(2 * DISK_TRACK_LIMIT)
      /\ 0 \in 0..(2 * DISK_TRACK_LIMIT)
  BY <1>1
<1> QED BY <1>2, <1>3 DEF ToGo, track

LEMMA SameWay ==
    ASSUME NEW i, NEW j, pending_requests'[j] = pending_requests[i],
           UNCHANGED arm_vars,
           OnTrack(i) => (WillMeet(j)' <=> WillMeet(i))
    PROVE  ToGo(j)' = ToGo(i)
BY DEF ToGo, OnTrack, estimated_moves, arm_vars

LEMMA SeekWay ==
    ASSUME DiskInv, rw_disk_op_seek, NEW i \in DOMAIN pending_requests, OnTrack(i)
    PROVE  WillMeet(i)' <=> WillMeet(i)
<1>1. /\ Len(pending_requests) \in Nat
      /\ DOMAIN pending_requests = 1..Len(pending_requests)
      /\ disk_thread.curr \in Nat
  BY Places
<1>2. disk_thread.at = "seek"
  BY DEF rw_disk_op_seek
<1>3. CASE \E k \in DOMAIN pending_requests : disk_thread.curr <= k /\ OnTrack(k)
  <2>1. PICK k \in DOMAIN pending_requests :
          /\ disk_thread.curr <= k
          /\ disk_thread.curr <= i => k <= i
          /\ disk_thread' = [at |-> "finish", curr |-> k, next |-> k < Len(pending_requests)]
    BY <1>3 DEF rw_disk_op_seek
  <2>2. /\ disk_thread'.at = "finish" /\ disk_thread'.curr = k
        /\ disk_thread'.next <=> k < Len(pending_requests)
    BY <2>1
  <2> QED BY <1>1, <1>2, <2>1, <2>2 DEF WillMeet
<1>4. CASE ~ \E k \in DOMAIN pending_requests : disk_thread.curr <= k /\ OnTrack(k)
  <2>1. disk_thread' = [disk_thread EXCEPT !.at = "move"]
    BY <1>4 DEF rw_disk_op_seek
  <2>2. disk_thread'.at = "move"
    BY <2>1 DEF DiskInv, DiskTypeOK, DiskThread
  <2> QED BY <1>2, <1>4, <2>2 DEF WillMeet
<1> QED BY <1>3, <1>4

LEMMA FinishWay ==
    ASSUME DiskInv, rw_disk_op_finish, NEW i, i # disk_thread.curr
    PROVE  WillMeet(i)' <=> WillMeet(i)
<1>1. /\ disk_thread.at = "finish" /\ disk_thread'.at = "remove"
      /\ disk_thread'.curr = disk_thread.curr /\ disk_thread'.next = disk_thread.next
  BY DEF rw_disk_op_finish, DiskInv, DiskTypeOK, DiskThread
<1> QED BY <1>1 DEF WillMeet

LEMMA RemoveWay ==
    ASSUME DiskInv, rw_disk_op_remove, NEW i \in Nat
    PROVE  WillMeet(i)' <=> WillMeet(IF i < disk_thread.curr THEN i ELSE i + 1)
<1>1. /\ disk_thread.at = "remove" /\ disk_thread'.curr = disk_thread.curr
      /\ disk_thread'.at = IF disk_thread.next THEN "seek" ELSE "move"
  BY DEF rw_disk_op_remove, DiskInv, DiskTypeOK, DiskThread
<1>2. disk_thread.curr \in Nat /\ disk_thread.next \in BOOLEAN
  BY Places
<1>3. CASE disk_thread.next
  BY <1>1, <1>2, <1>3 DEF WillMeet
<1>4. CASE ~disk_thread.next
  BY <1>1, <1>2, <1>4 DEF WillMeet
<1> QED BY <1>3, <1>4

(* The one step that shortens the way.                                     *)
LEMMA MoveWay ==
    ASSUME DiskInv, arm_move, NEW i \in DOMAIN pending_requests,
           pending_requests[i].track \in Tracks
    PROVE  ToGo(i)' = ToGo(i) - (IF curr_track' = curr_track THEN 0 ELSE 1)
<1> DEFINE track == pending_requests[i].track
<1>1. /\ disk_thread.at = "move"
      /\ disk_thread' = [at |-> "seek", curr |-> 1, next |-> FALSE]
      /\ pending_requests' = pending_requests
  BY DEF arm_move
<1>2. i >= 1 /\ track \in 0..DISK_TRACK_LIMIT
  BY Places DEF Tracks
<1>3. ~WillMeet(i) /\ WillMeet(i)'
  BY <1>1, <1>2 DEF WillMeet
<1>4. ToGo(i) = IF track = curr_track
                  THEN IF forward_dir THEN 2 * (DISK_TRACK_LIMIT - curr_track)
                                      ELSE 2 * curr_track
                  ELSE estimated_moves(track)
  BY <1>3 DEF ToGo, OnTrack
<1>5. ToGo(i)' = IF pending_requests[i].track = curr_track' THEN 0
                   ELSE IF forward_dir'
                          THEN IF track >= curr_track' THEN track - curr_track'
                               ELSE (DISK_TRACK_LIMIT - curr_track') + (DISK_TRACK_LIMIT - track)
                          ELSE IF track < curr_track' THEN curr_track' - track
                               ELSE curr_track' + track
  BY <1>1, <1>3 DEF ToGo, OnTrack, estimated_moves
<1> HIDE DEF track
<1>6. estimated_moves(track) =
        IF forward_dir
          THEN IF track >= curr_track THEN track - curr_track
               ELSE (DISK_TRACK_LIMIT - curr_track) + (DISK_TRACK_LIMIT - track)
          ELSE IF track < curr_track THEN curr_track - track
               ELSE curr_track + track
  BY DEF estimated_moves
<1> QED BY <1>2, <1>4, <1>5, <1>6, ArmTick DEF track

-----------------------------------------------------------------------------
LEMMA InitTravelInv == TravelInit => TravelInv
<1> SUFFICES ASSUME TravelInit PROVE TravelInv
  OBVIOUS
<1>1. TravelTypeOK
  BY DEF TravelInit, TravelTypeOK, Meeting
<1>2. ListedOnTheirWay /\ InHandAhead
  BY DEF TravelInit, DiskInit, disk_scheduler_init, ListedOnTheirWay, InHandAhead
<1> QED BY <1>1, <1>2 DEF TravelInv

(* A request listed before and after the step, at place i and then j, goes *)
(* on as before.                                                           *)
LEMMA StaysOnItsWay ==
    ASSUME DiskInv, DiskInv', TravelInv, TravelNext,
           NEW i \in DOMAIN pending_requests, NEW j \in DOMAIN pending_requests',
           Unserved(i), Unserved(j)', pending_requests'[j] = pending_requests[i],
           pending_requests[i].track \in Tracks,
           ToGo(j)' = ToGo(i) - (IF curr_track' = curr_track THEN 0 ELSE 1)
    PROVE  OnItsWay(j)'
<1>1. PICK p \in Process : pending_requests[i].process = p
  BY Places
<1>2. pending_requests'[j].process = p
  BY <1>1
<1>3. InPending(p) /\ InPending(p)'
  BY <1>1, <1>2 DEF InPending
<1>4. ~InHand(p) /\ ~InHand(p)'
  BY <1>3 DEF DiskInv, OneRequestPerProcess, InHand
<1>5. /\ travel'[p] = travel[p] + (IF curr_track' = curr_track THEN 0 ELSE 1)
      /\ met'[p] = met[p]
  BY <1>1, <1>2, <1>4, KeepsHistory DEF TravelInv
<1>6. travel[p] \in Nat
  BY DEF TravelInv, TravelTypeOK
<1>7. ToGo(i) \in Int
  BY ToGoBounds, Places
<1>8. travel'[p] + ToGo(j)' = travel[p] + ToGo(i)
  BY <1>5, <1>6, <1>7
<1>9. OnItsWay(i)
  BY DEF TravelInv, ListedOnTheirWay
<1> QED BY <1>1, <1>2, <1>5, <1>8, <1>9 DEF OnItsWay

(* What is to be shown of a step that leaves the requests of CPU thread    *)
(* and arm alone: each listed request is one that was listed before.       *)
LEMMA SameListed ==
    ASSUME DiskInv, DiskInv', TravelInv, TravelNext, disk_req' = disk_req,
           \A j \in DOMAIN pending_requests' :
             Unserved(j)' /\ pending_requests'[j].track \in Tracks =>
               \E i \in DOMAIN pending_requests :
                 /\ Unserved(i) /\ pending_requests'[j] = pending_requests[i]
                 /\ ToGo(j)' = ToGo(i) - (IF curr_track' = curr_track THEN 0 ELSE 1)
    PROVE  ListedOnTheirWay'
<1> SUFFICES ASSUME NEW j \in DOMAIN pending_requests', Unserved(j)',
                    pending_requests'[j].track \in Tracks
             PROVE  OnItsWay(j)'
  BY DEF ListedOnTheirWay, Tracks
<1>1. PICK i \in DOMAIN pending_requests :
        /\ Unserved(i) /\ pending_requests'[j] = pending_requests[i]
        /\ ToGo(j)' = ToGo(i) - (IF curr_track' = curr_track THEN 0 ELSE 1)
  OBVIOUS
<1> QED BY <1>1, StaysOnItsWay

(* The request the CPU thread has in hand, when it neither makes one nor   *)
(* adds it: a tick of the arm makes it stale.                              *)
LEMMA StaysInHand ==
    ASSUME DiskInv, TravelInv, TravelNext, disk_req' = disk_req
    PROVE  InHandAhead'
<1> SUFFICES ASSUME disk_req # NULL, met'[disk_req.process] = "ahead"
             PROVE  /\ disk_req.track # curr_track'
                    /\ disk_req.turnaround = EstimateFor(estimated_moves(disk_req.track)')
  BY DEF InHandAhead, EstimateFor, estimated_moves
<1>1. PICK p \in Process : p = disk_req.process
  BY DEF DiskInv, DiskTypeOK, DiskRequest
<1>2. InHand(p) /\ InHand(p)' /\ WaitsForDisk(p)'
  BY <1>1 DEF InHand, WaitsForDisk
<1>3. met'[p] = CASE ~WaitsForDisk(p)' -> "ahead"
                  [] InHand(p)' /\ ~InHand(p) ->
                       IF disk_req'.track = curr_track THEN "here" ELSE "ahead"
                  [] InHand(p) /\ ArmTicks -> "stale"
                  [] OTHER -> met[p]
  BY DEF TravelNext
<1>4. ~ArmTicks /\ met[p] = "ahead"
  BY <1>1, <1>2, <1>3
<1>5. UNCHANGED arm_vars /\ InHandAhead
  BY <1>4 DEF ArmTicks, TravelInv
<1> QED BY <1>1, <1>4, <1>5 DEF InHandAhead, arm_vars, estimated_moves

LEMMA RequestTravelInv ==
    ASSUME DiskInv, DiskInv', TravelInv, TravelNext, Request
    PROVE  TravelInv'
<1>1. PICK p \in Process, track \in DiskTrack :
        ~WaitsForDisk(p) /\ disk_request_create(p, track)
  BY DEF Request
<1>2. /\ disk_req = NULL
      /\ disk_req' = [process |-> p, track |-> track,
                      turnaround |-> EstimateFor(estimated_moves(track))]
      /\ UNCHANGED <<pending_requests, arm_vars, disk_thread>>
  BY <1>1 DEF Request, disk_request_create, EstimateFor
<1>3. ListedOnTheirWay'
  <2> SUFFICES ASSUME NEW i \in DOMAIN pending_requests', Unserved(i)',
                      pending_requests'[i].track \in Tracks
               PROVE  OnItsWay(i)'
    BY DEF ListedOnTheirWay, Tracks
  <2>1. /\ i \in DOMAIN pending_requests /\ Unserved(i)
        /\ pending_requests'[i] = pending_requests[i]
    BY <1>2 DEF Unserved
  <2>2. ToGo(i)' = ToGo(i)
    BY <1>2, <2>1, SameWay DEF WillMeet
  <2>3. ToGo(i)' = ToGo(i) - (IF curr_track' = curr_track THEN 0 ELSE 1)
    BY <1>2, <2>1, <2>2, ToGoBounds, Places DEF arm_vars
  <2> QED BY <2>1, <2>3, StaysOnItsWay
<1>4. InHandAhead'
  <2> SUFFICES ASSUME disk_req' # NULL, met'[p] = "ahead"
               PROVE  /\ disk_req'.track # curr_track'
                      /\ disk_req'.turnaround = EstimateFor(estimated_moves(disk_req.track)')
    BY <1>2 DEF InHandAhead, EstimateFor, estimated_moves
  <2>1. ~InHand(p) /\ InHand(p)' /\ WaitsForDisk(p)'
    BY <1>2 DEF InHand, WaitsForDisk
  <2>2. met'[p] = CASE ~WaitsForDisk(p)' -> "ahead"
                    [] InHand(p)' /\ ~InHand(p) ->
                         IF disk_req'.track = curr_track THEN "here" ELSE "ahead"
                    [] InHand(p) /\ ArmTicks -> "stale"
                    [] OTHER -> met[p]
    BY DEF TravelNext
  <2>3. disk_req'.track # curr_track
    BY <2>1, <2>2
  <2> QED BY <1>2, <2>3 DEF arm_vars, estimated_moves
<1> QED BY <1>3, <1>4, TravelTypes DEF TravelInv

LEMMA AddTravelInv ==
    ASSUME DiskInv, DiskInv', TravelInv, TravelNext, AddRequest
    PROVE  TravelInv'
<1>0. PICK n \in Nat : n = Len(pending_requests) + 1
  BY Places
<1>1. /\ disk_req # NULL /\ disk_req \in DiskRequest /\ disk_req' = NULL
      /\ pending_requests' = Append(pending_requests, disk_req)
      /\ UNCHANGED <<arm_vars, disk_thread>>
  BY DEF AddRequest, disk_request_add, DiskInv, DiskTypeOK
<1>2. /\ n >= 1 /\ DOMAIN pending_requests = 1..(n - 1)
      /\ DOMAIN pending_requests' = 1..n
      /\ \A i \in 1..(n - 1) : pending_requests'[i] = pending_requests[i]
      /\ pending_requests'[n] = disk_req
  <2>1. pending_requests \in Seq(DiskRequest)
    BY DEF DiskInv, DiskTypeOK
  <2> QED BY <2>1, <1>0, <1>1, AppendPlaces
<1>3. InHandAhead'
  BY <1>1 DEF InHandAhead
<1>4. ASSUME NEW i \in 1..(n - 1), Unserved(i)', pending_requests'[i].track \in Tracks
      PROVE  OnItsWay(i)'
  <2>1. /\ i \in DOMAIN pending_requests /\ i \in DOMAIN pending_requests'
        /\ pending_requests'[i] = pending_requests[i]
        /\ Unserved(i)
    BY <1>1, <1>2, <1>4 DEF Unserved
  <2>2. ToGo(i)' = ToGo(i)
    BY <1>1, <2>1, SameWay DEF WillMeet
  <2>3. ToGo(i)' = ToGo(i) - (IF curr_track' = curr_track THEN 0 ELSE 1)
    BY <1>1, <1>4, <2>1, <2>2, ToGoBounds, Places DEF arm_vars
  <2> QED BY <1>4, <2>1, <2>3, StaysOnItsWay
<1>5. ASSUME Unserved(n)', disk_req.track \in Tracks
      PROVE  OnItsWay(n)'
  <2>1. PICK p \in Process : p = disk_req.process
    BY <1>1 DEF DiskRequest
  <2>2. InHand(p) /\ ~InHand(p)' /\ ~InPending(p)
    BY <1>1, <2>1 DEF InHand, DiskInv, OneRequestPerProcess
  <2>3. travel'[p] = 0
    BY <2>2 DEF TravelNext
  <2>4. ToGo(n)' \in 0..(2 * DISK_TRACK_LIMIT)
    <3>1. /\ DISK_TRACK_LIMIT \in Nat /\ curr_track \in 0..DISK_TRACK_LIMIT
          /\ disk_req.track \in 0..DISK_TRACK_LIMIT
      BY <1>5, Places DEF Tracks
    <3>2. estimated_moves(disk_req.track) \in 0..(2 * DISK_TRACK_LIMIT)
      BY <3>1 DEF estimated_moves
    <3>3. /\ 2 * (DISK_TRACK_LIMIT - curr_track) \in 0..(2 * DISK_TRACK_LIMIT)
          /\ 2 * curr_track \in 0..(2 * DISK_TRACK_LIMIT)
          /\ 0 \in 0..(2 * DISK_TRACK_LIMIT)
      BY <3>1
    <3> QED BY <3>2, <3>3, <1>1, <1>2 DEF ToGo, OnTrack, arm_vars, estimated_moves
  <2>5. ASSUME met'[p] = "ahead"
        PROVE  disk_req.turnaround = EstimateFor(ToGo(n)')
    <3>1. n \in DOMAIN pending_requests' /\ pending_requests'[n].process = p
      BY <1>2, <2>1
    <3>2. InPending(p)' /\ WaitsForDisk(p)'
      BY <1>5, <3>1 DEF InPending, WaitsForDisk
    <3>3. met'[p] = CASE ~WaitsForDisk(p)' -> "ahead"
                      [] InHand(p)' /\ ~InHand(p) ->
                           IF disk_req'.track = curr_track THEN "here" ELSE "ahead"
                      [] InHand(p) /\ ArmTicks -> "stale"
                      [] OTHER -> met[p]
      BY DEF TravelNext
    <3>4. ~ArmTicks
      BY <1>1 DEF ArmTicks
    <3>5. met[p] = "ahead"
      BY <2>2, <2>5, <3>2, <3>3, <3>4
    <3>6. /\ disk_req.track # curr_track
          /\ disk_req.turnaround = EstimateFor(estimated_moves(disk_req.track))
      BY <1>1, <2>1, <3>5 DEF TravelInv, InHandAhead
    <3>7. ToGo(n)' = estimated_moves(disk_req.track)
      BY <1>1, <1>2, <3>6 DEF ToGo, OnTrack, arm_vars, estimated_moves
    <3> QED BY <3>6, <3>7
  <2> QED BY <1>2, <2>1, <2>3, <2>4, <2>5, Places DEF OnItsWay
<1>6. ListedOnTheirWay'
  <2> SUFFICES ASSUME NEW i \in 1..n, Unserved(i)',
                      pending_requests'[i].track \in Tracks
               PROVE  OnItsWay(i)'
    BY <1>2 DEF ListedOnTheirWay, Tracks
  <2>1. CASE i \in 1..(n - 1)
    BY <2>1, <1>4
  <2>2. CASE i = n
    BY <2>2, <1>2, <1>5
  <2> QED BY <2>1, <2>2, <1>2
<1> QED BY <1>3, <1>6, TravelTypes DEF TravelInv

LEMMA SeekTravelInv ==
    ASSUME DiskInv, DiskInv', TravelInv, TravelNext, rw_disk_op_seek
    PROVE  TravelInv'
<1>1. /\ disk_thread.at = "seek"
      /\ UNCHANGED <<pending_requests, arm_vars, disk_req>>
  BY DEF rw_disk_op_seek
<1>2. ASSUME NEW i \in DOMAIN pending_requests, pending_requests[i].track \in Tracks
      PROVE  /\ Unserved(i) /\ pending_requests'[i] = pending_requests[i]
             /\ ToGo(i)' = ToGo(i) - (IF curr_track' = curr_track THEN 0 ELSE 1)
  <2>1. ToGo(i)' = ToGo(i)
    BY <1>1, SeekWay, SameWay
  <2> QED BY <1>1, <1>2, <2>1, ToGoBounds, Places DEF Unserved, arm_vars
<1>3. ListedOnTheirWay'
  BY <1>1, <1>2, SameListed
<1> QED BY <1>1, <1>3, StaysInHand, TravelTypes DEF TravelInv

LEMMA FinishTravelInv ==
    ASSUME DiskInv, DiskInv', TravelInv, TravelNext, rw_disk_op_finish
    PROVE  TravelInv'
<1>1. /\ disk_thread.at = "finish" /\ disk_thread'.at = "remove"
      /\ disk_thread'.curr = disk_thread.curr
      /\ UNCHANGED <<pending_requests, arm_vars, disk_req>>
  BY DEF rw_disk_op_finish, DiskInv, DiskTypeOK, DiskThread
<1>2. ASSUME NEW i \in DOMAIN pending_requests, pending_requests[i].track \in Tracks,
             Unserved(i)'
      PROVE  /\ Unserved(i) /\ pending_requests'[i] = pending_requests[i]
             /\ ToGo(i)' = ToGo(i) - (IF curr_track' = curr_track THEN 0 ELSE 1)
  <2>1. i # disk_thread.curr /\ Unserved(i)
    BY <1>1, <1>2 DEF Unserved
  <2>2. ToGo(i)' = ToGo(i)
    BY <1>1, <2>1, FinishWay, SameWay
  <2> QED BY <1>1, <1>2, <2>1, <2>2, ToGoBounds, Places DEF arm_vars
<1>3. ListedOnTheirWay'
  BY <1>1, <1>2, SameListed
<1> QED BY <1>1, <1>3, StaysInHand, TravelTypes DEF TravelInv

LEMMA RemoveTravelInv ==
    ASSUME DiskInv, DiskInv', TravelInv, TravelNext, rw_disk_op_remove
    PROVE  TravelInv'
<1> DEFINE L == Len(pending_requests)
           k == disk_thread.curr
           was(i) == IF i < k THEN i ELSE i + 1
<1>1. /\ L \in Nat /\ k \in 1..L
      /\ DOMAIN pending_requests = 1..L /\ DOMAIN pending_requests' = 1..(L - 1)
      /\ \A i \in 1..(L - 1) : pending_requests'[i] = pending_requests[was(i)]
      /\ \A i : Unserved(i) <=> i # k
      /\ UNCHANGED <<arm_vars, disk_req>>
  BY RemoveEffect
<1>2. \A j \in 1..(L - 1) : j \in Nat /\ was(j) \in 1..L /\ was(j) # k
  BY <1>1
<1>3. \A j \in 1..(L - 1) : WillMeet(j)' <=> WillMeet(was(j))
  BY <1>2, RemoveWay
<1> HIDE DEF L, k, was
<1>4. ASSUME NEW j \in DOMAIN pending_requests', pending_requests'[j].track \in Tracks
      PROVE  \E i \in DOMAIN pending_requests :
               /\ Unserved(i) /\ pending_requests'[j] = pending_requests[i]
               /\ ToGo(j)' = ToGo(i) - (IF curr_track' = curr_track THEN 0 ELSE 1)
  <2>1. /\ was(j) \in DOMAIN pending_requests /\ Unserved(was(j))
        /\ pending_requests'[j] = pending_requests[was(j)]
    BY <1>1, <1>2
  <2>2. WillMeet(j)' <=> WillMeet(was(j))
    BY <1>1, <1>3
  <2>3. ToGo(j)' = ToGo(was(j))
    BY <1>1, <2>1, <2>2, SameWay
  <2>4. ToGo(was(j)) \in Int
    BY <1>4, <2>1, ToGoBounds, Places
  <2> QED BY <1>1, <2>1, <2>3, <2>4 DEF arm_vars
<1>5. ListedOnTheirWay'
  BY <1>1, <1>4, SameListed
<1> QED BY <1>1, <1>5, StaysInHand, TravelTypes DEF TravelInv

LEMMA MoveTravelInv ==
    ASSUME DiskInv, DiskInv', TravelInv, TravelNext, arm_move
    PROVE  TravelInv'
<1>1. disk_thread.at = "move" /\ UNCHANGED <<pending_requests, disk_req>>
  BY DEF arm_move
<1>2. \A i \in DOMAIN pending_requests :
        /\ Unserved(i)
        /\ pending_requests[i].track \in Tracks =>
             ToGo(i)' = ToGo(i) - (IF curr_track' = curr_track THEN 0 ELSE 1)
  BY <1>1, MoveWay DEF Unserved
<1>3. ListedOnTheirWay'
  BY <1>1, <1>2, SameListed
<1> QED BY <1>1, <1>3, StaysInHand, TravelTypes DEF TravelInv

LEMMA StutterTravelInv ==
    ASSUME DiskInv, TravelInv, UNCHANGED travel_vars
    PROVE  TravelInv'
BY DEF travel_vars, disk_vars, TravelInv, TravelTypeOK, ListedOnTheirWay, InHandAhead,
       Unserved, OnItsWay, ToGo, OnTrack, WillMeet, estimated_moves, EstimateFor, Tracks

LEMMA TravelInvariant == TravelSpec => [](DiskInv /\ TravelInv)
<1>1. TravelInit => DiskInv /\ TravelInv
  BY InitDiskInv, InitTravelInv DEF TravelInit
<1>2. DiskInv /\ TravelInv /\ [TravelNext]_travel_vars => (DiskInv /\ TravelInv)'
  <2> SUFFICES ASSUME DiskInv, TravelInv, [TravelNext]_travel_vars
               PROVE  DiskInv' /\ TravelInv'
    OBVIOUS
  <2>1. CASE TravelNext
    <3>1. DiskNext
      BY <2>1 DEF TravelNext
    <3>2. DiskInv'
      BY <3>1, NextDiskInv
    <3> QED BY <2>1, <3>1, <3>2, RequestTravelInv, AddTravelInv, SeekTravelInv,
               FinishTravelInv, RemoveTravelInv, MoveTravelInv DEF DiskNext, DiskStep
  <2>2. CASE UNCHANGED travel_vars
    BY <2>2, NextDiskInv, StutterTravelInv DEF travel_vars
  <2> QED BY <2>1, <2>2
<1> QED BY <1>1, <1>2, PTL DEF TravelSpec

(* The turnaround disk_request computes is exact: when a request that was  *)
(* made for another track than the one under the arm, and listed before    *)
(* the arm ticked, is served, the arm has made the moves it foretold.      *)
THEOREM DiskForetells == TravelSpec => []ServedAsForetold
<1>1. DiskInv /\ TravelInv => ServedAsForetold
  <2> SUFFICES ASSUME DiskInv, TravelInv, disk_thread.at = "finish",
                      met[served_process] = "ahead"
               PROVE  travel[served_process] = Foretold(disk_thread.curr)
    BY DEF ServedAsForetold
  <2> DEFINE k == disk_thread.curr
  <2>1. k \in DOMAIN pending_requests /\ OnTrack(k) /\ Unserved(k) /\ WillMeet(k)
    BY DEF DiskInv, ServedNodeIsListed, Unserved, WillMeet
  <2>2. pending_requests[k].track \in Tracks /\ pending_requests[k].process \in Process
    BY <2>1, Places DEF OnTrack, Tracks
  <2>3. OnItsWay(k) /\ ToGo(k) = 0
    BY <2>1, <2>2 DEF TravelInv, ListedOnTheirWay, ToGo
  <2>4. PICK m \in Nat : m = travel[pending_requests[k].process]
    BY <2>2 DEF TravelInv, TravelTypeOK
  <2>5. pending_requests[k].turnaround = 5000 + m * 100
    BY <2>3, <2>4 DEF OnItsWay, served_process, EstimateFor,
                      DISK_OPERATION_TIME, DISK_TRACK_MOVE_TIME
  <2>6. (5000 + m * 100 - 5000) \div 100 = m
    OBVIOUS
  <2> QED BY <2>4, <2>5, <2>6 DEF Foretold, served_process,
                                   DISK_OPERATION_TIME, DISK_TRACK_MOVE_TIME
<1> QED BY <1>1, TravelInvariant, PTL

(* Tracks are those the programs name.                                     *)
NamedTracks ==
    /\ \A i \in DOMAIN pending_requests : pending_requests[i].track \in DiskTrack
    /\ disk_req # NULL => disk_req.track \in DiskTrack

LEMMA NextNamedTracks == DiskInv /\ NamedTracks /\ [DiskNext]_disk_vars => NamedTracks'
<1> SUFFICES ASSUME DiskInv, NamedTracks, [DiskNext]_disk_vars PROVE NamedTracks'
  OBVIOUS
<1>1. CASE Request
  <2>1. /\ pending_requests' = pending_requests
        /\ disk_req'.track \in DiskTrack
    BY <1>1 DEF Request, disk_request_create
  <2> QED BY <2>1 DEF NamedTracks
<1>2. CASE AddRequest
  <2>1. /\ disk_req \in DiskRequest /\ disk_req.track \in DiskTrack /\ disk_req' = NULL
        /\ pending_requests \in Seq(DiskRequest)
        /\ pending_requests' = Append(pending_requests, disk_req)
    BY <1>2 DEF AddRequest, disk_request_add, DiskInv, DiskTypeOK, NamedTracks
  <2> QED BY <2>1, AppendPlaces DEF NamedTracks
<1>3. CASE rw_disk_op_remove
  <2>1. /\ disk_req' = disk_req
        /\ \A j \in DOMAIN pending_requests' :
             \E i \in DOMAIN pending_requests : pending_requests'[j] = pending_requests[i]
    BY <1>3, RemoveEffect
  <2> QED BY <2>1 DEF NamedTracks
<1>4. CASE rw_disk_op_seek \/ rw_disk_op_finish \/ arm_move \/ UNCHANGED disk_vars
  BY <1>4 DEF rw_disk_op_seek, rw_disk_op_finish, arm_move, disk_vars, NamedTracks
<1> QED BY <1>1, <1>2, <1>3, <1>4 DEF DiskNext, DiskStep

(* If the programs name tracks of the disk only, a request waits for one   *)
(* sweep of the arm at most, there and back, even one that is listed while *)
(* the disk thread is at its track and missed by the walk over the list.   *)
THEOREM DiskServesWithinASweep ==
    ASSUME DiskTrack \subseteq Tracks
    PROVE  TravelSpec => []ServedWithinASweep
<1>1. TravelInit => NamedTracks
  BY DEF TravelInit, DiskInit, disk_scheduler_init, NamedTracks
<1>2. DiskInv /\ NamedTracks /\ [TravelNext]_travel_vars => NamedTracks'
  BY NextNamedTracks DEF TravelNext, travel_vars
<1>3. DiskInv /\ TravelInv /\ NamedTracks => ServedWithinASweep
  <2> SUFFICES ASSUME DiskInv, TravelInv, NamedTracks, NEW p \in Process, InPending(p)
               PROVE  travel[p] <= 2 * DISK_TRACK_LIMIT
    BY DEF ServedWithinASweep
  <2>1. PICK i \in DOMAIN pending_requests :
          Unserved(i) /\ pending_requests[i].process = p
    BY DEF InPending
  <2>2. pending_requests[i].track \in Tracks
    BY <2>1 DEF NamedTracks
  <2>3. travel[p] + ToGo(i) <= 2 * DISK_TRACK_LIMIT
    BY <2>1, <2>2 DEF TravelInv, ListedOnTheirWay, OnItsWay
  <2>4. travel[p] \in Nat /\ ToGo(i) \in Nat /\ DISK_TRACK_LIMIT \in Nat
    BY <2>2, ToGoBounds, DiskTrackLimitAssumption DEF TravelInv, TravelTypeOK
  <2> QED BY <2>3, <2>4
<1> QED BY <1>1, <1>2, <1>3, TravelInvariant, PTL DEF TravelSpec

=============================================================================
