-------------------------------- MODULE Logs --------------------------------
(***************************************************************************)
(* Who writes the logs, and the file table whose changes the I/O log       *)
(* tells.  The CPU thread writes the process log, the log of the           *)
(* semaphores and, of the I/O log, the requests, the prints and the files  *)
(* opened and closed; the disk thread writes the disk log and the          *)
(* transfers of the I/O log.                                               *)
(*                                                                         *)
(* The file table is used by the CPU thread alone, and so its functions    *)
(* stay one step each, taken before the records are written.               *)
(***************************************************************************)
EXTENDS LogView, FileTable

CONSTANTS CPU, DISK

ASSUME ThreadAssumption == Thread = {CPU, DISK} /\ CPU # DISK
ASSUME InodeAssumption == IsFiniteSet(Inode)

VARIABLES
    asleep,    \* the processes that wait for the disk
    pending    \* the requests the disk thread can see: <<process, inode>>

io_vars == <<file_vars, asleep, pending>>
log_vars == <<writer_vars, posts, view_vars, memory_vars, print_mutex, screen_vars>>

Record(what, p, inode) == [what |-> what, process |-> p, inode |-> inode]

LogsInit ==
    /\ logs_init
    /\ file_table_init
    /\ asleep = {}
    /\ pending = {}

-----------------------------------------------------------------------------
(* Calls *)

(* A thread begins a call that writes these records.                       *)
begins(t, new) ==
    /\ todo[t] = <<>> /\ at[t] = "idle"
    /\ todo' = [todo EXCEPT ![t] = new]
    /\ UNCHANGED <<list_vars, records, at, node, posts, redrawn, others>>

(* cpu() logs each instruction, and that there is no process, which it     *)
(* does first of all.  It may do so twice in a row: a process that is      *)
(* dispatched at its end, or without a slice, leaves and executes nothing. *)
cpu_logs ==
    /\ log = "process"
    /\ \E what \in {"process", "no_process"} :
         /\ records = <<>> => what = "no_process"
         /\ begins(CPU, <<what>>)
    /\ UNCHANGED io_vars

(* semaphore_P and semaphore_V.                                            *)
semaphore_logs ==
    /\ log = "res_acq"
    /\ begins(CPU, <<"entry">>)
    /\ UNCHANGED io_vars

(* rw_disk_op_resolve, as the disk log sees it.                            *)
disk_logs ==
    /\ log = "disk"
    /\ begins(DISK, <<"entry">>)
    /\ UNCHANGED io_vars

print_request(p) ==
    /\ log = "io" /\ p \notin asleep
    /\ begins(CPU, <<Record("print", p, NULL)>>)
    /\ UNCHANGED io_vars

(* The process sleeps; disk_request logs the request and adds it to the    *)
(* pending ones (request_pends); then fs_read_request or fs_write_request  *)
(* logs that the file is opened, if it was not.                            *)
disk_file_request(p, inode) ==
    /\ log = "io" /\ p \notin asleep
    /\ begins(CPU, <<Record("request", p, inode)>> \o
                   IF inode \in active THEN <<>> ELSE <<Record("open", p, inode)>>)
    /\ fs_request(p, inode)
    /\ asleep' = asleep \cup {p}
    /\ UNCHANGED pending

(* A process that finishes runs: it waits for nothing.                     *)
process_finish_files(p) ==
    /\ log = "io" /\ p \notin asleep
    /\ fs_close_files(p)
    /\ \E closed \in SetToSeqs(active \ active') :
         begins(CPU, [k \in DOMAIN closed |-> Record("close", p, closed[k])])
    /\ UNCHANGED <<asleep, pending>>

rw_disk_op_resolve ==
    /\ log = "io"
    /\ \E request \in pending :
         /\ begins(DISK, <<Record("transfer", request[1], request[2])>>)
         /\ pending' = pending \ {request}
    /\ UNCHANGED <<file_vars, asleep>>

(* What the thread does next, after it has posted the semaphore: the       *)
(* request becomes pending, or the process is woken.                       *)
posted(t) ==
    LET r == records[node[t]]
    IN  IF log # "io" THEN UNCHANGED io_vars
        ELSE /\ pending' = IF r.what = "request"
                             THEN pending \cup {<<r.process, r.inode>>} ELSE pending
             /\ asleep' = IF r.what = "transfer" THEN asleep \ {r.process} ELSE asleep
             /\ UNCHANGED file_vars

Call ==
    \/ cpu_logs \/ semaphore_logs \/ disk_logs \/ rw_disk_op_resolve
    \/ \E p \in Process :
         \/ print_request(p) \/ process_finish_files(p)
         \/ \E inode \in Inode : disk_file_request(p, inode)

Write(t) ==
    \/ (log_create(t) \/ log_add(t)) /\ UNCHANGED io_vars
    \/ log_post(t) /\ posted(t)

Screen == refresh_memory_log \/ refresh_logs \/ prompts \/ other_views

LogsNext ==
    \/ Call
    \/ \E t \in Thread : Write(t)
    \/ (View \/ Screen) /\ UNCHANGED io_vars

(* The views and the refresh thread go on; nobody has to write, nor to     *)
(* type.  A view gets print_mutex in the end: the refresh thread sleeps    *)
(* for a sixth of a second between two rounds, the other views wait for    *)
(* their semaphore.                                                        *)
Fairness ==
    /\ SF_<<log_vars, io_vars>>(View /\ UNCHANGED io_vars)
    /\ WF_<<log_vars, io_vars>>(refresh_logs /\ UNCHANGED io_vars)
    /\ WF_<<log_vars, io_vars>>(refresh_memory_log /\ UNCHANGED io_vars)
    /\ WF_<<log_vars, io_vars>>(other_views /\ others_unlock /\ UNCHANGED io_vars)

LogsSpec == LogsInit /\ [][LogsNext]_<<log_vars, io_vars>> /\ Fairness

-----------------------------------------------------------------------------
(* Properties *)

LogsTypeOK ==
    /\ FileTypeOK
    /\ log \in Log
    /\ {head, tail, i, shown} \subseteq Node \cup {NULL}
    /\ next \in [Node -> Node \cup {NULL}]
    /\ Len(records) <= MaxRecords
    /\ at \in [Thread -> {"idle", "first", "link", "tail", "post"}]
    /\ node \in [Thread -> 0..Len(records)]
    /\ posts + mem_mutex \in 0..Len(records)
    /\ redrawn \in BOOLEAN
    /\ memory_view \in {"wait", "lock", "draw"}
    /\ print_mutex \in {"free", "view", "memory", "refresher", "others"}
    /\ refresh_mutex \in {"free", "user", "refresher"}
    /\ asleep \subseteq Process /\ pending \subseteq Process \X Inode

(* A view follows next from a node, never from NULL, however its steps     *)
(* fall between those of one or two threads that add: it is woken only for *)
(* a record that is in the list, and list_add never makes tail NULL.       *)
ViewHasANode == place # "fault"

AllWritten == \A t \in Thread : todo[t] = <<>> /\ at[t] = "idle"
ViewWaits == place = "wait" /\ posts = 0

(* When all calls are over and the view has used up the semaphore, it      *)
(* stands at the last record: none is left that would be shown only when   *)
(* another is added.                                                       *)
NothingUnnoticed == AllWritten /\ ViewWaits => i = tail

(* With one writer, the records are shown in the order in which they were  *)
(* written; one may be shown again (linked, but not yet the tail) or not   *)
(* at all (added just before the view takes the tail).                     *)
ShownInOrder ==
    [][log # "io" => shown' >= shown]_<<log_vars, io_vars>>

(* mem_mutex is posted once per round of the process view, and not in its  *)
(* first one.  Yet once the second record is in, the memory view has begun *)
(* to draw after the last record when both views come to rest, however     *)
(* long they wait for the screen.                                          *)
MemoryRedrawn ==
    /\ log = "process" /\ AllWritten /\ tail # 1
    /\ ViewWaits /\ mem_mutex = 0 /\ memory_view = "wait"
    => redrawn

(* A view comes to the last record whenever the writers pause, even if the *)
(* user leaves a prompt open.                                              *)
ViewCatchesUp == (AllWritten /\ records # <<>>) ~> ((ViewWaits /\ i = tail) \/ ~AllWritten)

(* The records in the order in which they are made, those of the call of   *)
(* the CPU thread in advance.                                              *)
Records == records \o todo[CPU]

BeingResolved ==
    IF log = "io" THEN Range(todo[DISK]) \cup {records[n] : n \in {node[DISK]} \ {NULL}}
                  ELSE {}

(* The disk transfers to or from files in use: before the transfer of a    *)
(* request that is pending or being resolved, the last record that opens   *)
(* or closes its file is one that opens it.  That record may come later    *)
(* than the request, even later than the transfer, for the CPU thread      *)
(* opens the file after it has made the request.                           *)
TransfersWithinUse ==
    \A request \in pending \cup {<<r.process, r.inode>> : r \in BeingResolved} :
      \E k \in DOMAIN Records :
        /\ Records[k].what = "open" /\ Records[k].inode = request[2]
        /\ \A l \in DOMAIN Records :
             l > k => ~(Records[l].what = "close" /\ Records[l].inode = request[2])
=============================================================================
