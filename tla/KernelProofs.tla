---------------------------- MODULE KernelProofs ----------------------------
(***************************************************************************)
(* Theorems about the whole kernel, for any programs and any number of     *)
(* processes, however the steps of its three threads interleave.           *)
(***************************************************************************)
EXTENDS Kernel, SchedulingProofs, FiniteSetTheorems

(* The histories of DiskTravel play no part here.                          *)
DiskP == INSTANCE DiskProofs WITH DiskTrack <- 0..DISK_TRACK_LIMIT,
                                  travel <- {}, met <- {}
FilesP == INSTANCE FileTableProofs WITH Inode <- 0..DISK_TRACK_LIMIT
MemP == INSTANCE MemoryProofs WITH CodeLen <- [p \in Process |-> code_len(p)]

-----------------------------------------------------------------------------
(* The inductive invariant *)

Asleep(p) == In(blocked_queue, p)
InPlace(p) == scheduled_proc = p \/ Ready(p) \/ Asleep(p)

(* The terminal thread is creating p, the CPU thread is busy with p, and   *)
(* is at one of these steps.                                               *)
Creating(p, steps) == terminal.proc = p /\ terminal.at \in steps
Busy(p, steps) == cpu.proc = p /\ cpu.at \in steps

ThreadTypes ==
    /\ terminal \in [at : {"menu", "load", "pcb", "ready"}, proc : Process \cup {NULL}]
    /\ terminal.proc = NULL <=> terminal.at = "menu"
    /\ cpu \in [at : Places, proc : Process \cup {NULL}, instr : Instr]
    /\ cpu.proc = NULL <=> cpu.at \in {"begin", "check"}
    /\ proc_table \subseteq Process
    /\ pc \in [Process -> Nat]
    /\ proc_memory \in [Process -> {"none", "allocated", "freed"}]
    /\ reused \in [Process -> SUBSET Process]
    /\ strayed \subseteq Sem

(* What the CPU thread, and the terminal thread in mem_req_load, are in    *)
(* the middle of.                                                          *)
CallInv ==
    /\ cpu.at \in {"disk_request", "disk_add"} => cpu.instr.op \in {"READ", "WRITE"}
    /\ cpu.at = "print" => cpu.instr.op = "PRINT"
    /\ disk_req # NULL <=> cpu.at = "disk_add"
    /\ disk_req # NULL => /\ disk_req.process = cpu.proc
                          /\ disk_req.track \in 0..DISK_TRACK_LIMIT
                          /\ disk_req.turnaround \in Charges
    /\ loading # MemP!no_call => /\ terminal.at = "load"
                                 /\ loading.seg.code = terminal.proc
    /\ freeing # MemP!no_call <=> cpu.at = "finish_remaining"
    /\ \A p \in Process :
         /\ Busy(p, {"semaphore"}) =>
              scheduled_proc = p \/ (cpu.instr.op = "SEM_P" /\ Waits(p))
         /\ Busy(p, {"finish_schedule"}) => scheduled_proc = p
         /\ Busy(p, {"finish_release", "finish_remaining", "finish_free"}) =>
              ~InPlace(p) /\ state[p] # "NEW"

(* A process that begins or goes on with an instruction has not overdrawn  *)
(* its slice.                                                              *)
SliceBegins == {"begin", "finish_release", "finish_remaining", "finish_free"}

SliceInv ==
    \A p \in Process :
        /\ scheduled_proc = p /\ cpu.at \in SliceBegins => remaining[p] >= 0
        /\ Busy(p, {"semaphore", "disk_request", "disk_add", "print"}) => remaining[p] >= 0

(* A process sleeps exactly while somebody will wake it, and one will.     *)
SleepInv ==
    \A p \in Process :
        /\ Asleep(p) <=> Waits(p) \/ DiskP!InPending(p) \/ InSysCall(p)
        /\ ~(Waits(p) /\ DiskP!InPending(p))
        /\ ~(InSysCall(p) /\ (Waits(p) \/ DiskP!InPending(p)))

(* What a process has of the kernel at each stage of its life.             *)
LifeInv ==
    \A p \in Process :
        /\ p \in proc_table <=> \/ Creating(p, {"ready"})
                                \/ InPlace(p) /\ ~Busy(p, {"finish_schedule"})
        /\ MemP!Loaded(p) <=> \/ Creating(p, {"pcb", "ready"})
                              \/ InPlace(p) \/ Busy(p, {"finish_release"})
        /\ proc_memory[p] = "allocated" <=>
             \/ terminal.proc = p
             \/ InPlace(p)
             \/ Busy(p, {"finish_release", "finish_remaining", "finish_free"})
        /\ proc_memory[p] = "none" \/ terminal.proc = p => state[p] = "NEW"
        /\ proc_memory[p] # "none" => sems_of(p) \subseteq registered
        /\ \A q \in reused[p] : proc_memory[q] # "none"

KernelInv ==
    /\ SemInv /\ DiskP!DiskInv /\ FilesP!FileInv /\ MemP!MemInv
    /\ ThreadTypes /\ CallInv /\ SliceInv /\ SleepInv /\ LifeInv

-----------------------------------------------------------------------------
(* The assumptions of the components hold.                                 *)

LEMMA Constants ==
    /\ DISK_TRACK_LIMIT \in Nat /\ 0..DISK_TRACK_LIMIT \subseteq Nat
    /\ \A p, q \in Process : SegId[p] = SegId[q] => p = q
    /\ SegSize \in [Process -> Nat]
    /\ [p \in Process |-> code_len(p)] \in [Process -> Nat]
    /\ MAX_MEM_SIZE \in Nat
    /\ PAGE_SIZE \in Nat \ {0}
    /\ INSTRUCTIONS_PER_PAGE \in Nat \ {0}
<1>1. \A p \in Process : code_len(p) \in Nat
  BY ProgramAssumption DEF code_len
<1> QED BY <1>1, ComponentAssumption

LEMMA NullIsNone == NULL \notin Process /\ NULL \notin HardDisk!DiskRequest
BY NullAssumption, ComponentAssumption

(* What the operands of an instruction are.                                *)
LEMMA Operands ==
    ASSUME NEW instr \in Instr
    PROVE  /\ instr.op \in {"OTHER", "EXEC", "PRINT", "READ", "WRITE", "SEM_P", "SEM_V"}
           /\ instr.op \in {"EXEC", "PRINT"} => instr.value \in Charges
           /\ instr.op \in {"READ", "WRITE"} => instr.value \in 0..DISK_TRACK_LIMIT
           /\ instr.op \in {"SEM_P", "SEM_V"} => instr.sem \in Sem
<1>1. CASE instr = NoInstr
  BY <1>1 DEF NoInstr
<1>2. CASE instr \in [op : {"EXEC", "PRINT"}, value : Charges]
  BY <1>2
<1>3. CASE instr \in [op : {"READ", "WRITE"}, value : 0..DISK_TRACK_LIMIT]
  BY <1>3
<1>4. CASE instr \in [op : {"SEM_P", "SEM_V"}, sem : Sem]
  BY <1>4
<1> QED BY <1>1, <1>2, <1>3, <1>4 DEF Instr

LEMMA ProgramNames ==
    ASSUME NEW p \in Process
    PROVE  /\ sems_of(p) \subseteq Sem
           /\ \A i \in 1..Len(Program[p]) :
                /\ Program[p][i] \in Instr
                /\ Program[p][i].op \in {"SEM_P", "SEM_V"} => Program[p][i].sem \in sems_of(p)
<1>1. /\ Program[p] \in Seq(Instr) /\ DOMAIN Program[p] = 1..Len(Program[p])
      /\ \A i \in 1..Len(Program[p]) : Program[p][i] \in Instr
  BY ProgramAssumption
<1> QED BY <1>1, Operands DEF sems_of

-----------------------------------------------------------------------------
(* The steps of the disk, the file table and the memory, as the theorems   *)
(* about each of them have it.                                             *)

LEMMA InitComponents ==
    ASSUME KernelInit
    PROVE  /\ DiskP!DiskInv /\ disk_req = NULL
           /\ \A p \in Process : ~DiskP!InPending(p)
           /\ FilesP!FileInv
           /\ MemP!MemInv /\ \A p \in Process : ~MemP!Loaded(p)
           /\ loading = MemP!no_call /\ freeing = MemP!no_call
<1>1. DiskP!DiskInit /\ disk_req = NULL /\ pending_requests = <<>>
  BY DEF KernelInit, HardDisk!DiskInit, HardDisk!disk_scheduler_init,
         DiskP!DiskInit, DiskP!disk_scheduler_init
<1>2. DiskP!DiskInv
  BY <1>1, Constants, DiskP!InitDiskInv
<1>3. \A p \in Process : ~DiskP!InPending(p)
  BY <1>1 DEF DiskP!InPending
<1>4. FilesP!file_table_init
  BY DEF KernelInit, Files!file_table_init, FilesP!file_table_init
<1>5. FilesP!FileInv
  BY <1>4, ComponentAssumption, FilesP!InitFileInv DEF IsFiniteSet, FilesP!IsFiniteSet
<1>6. MemP!segment_table_init
  BY DEF KernelInit, Mem!segment_table_init, MemP!segment_table_init,
         Mem!no_call, MemP!no_call
<1>7. /\ MemP!MemInv /\ \A p \in Process : ~MemP!Loaded(p)
      /\ loading = MemP!no_call /\ freeing = MemP!no_call
  BY <1>6, Constants, MemP!InitMem
<1> QED BY <1>1, <1>2, <1>3, <1>5, <1>7

LEMMA DiskRequestStep ==
    ASSUME DiskP!DiskInv, disk_req = NULL,
           NEW p \in Process, NEW track \in 0..DISK_TRACK_LIMIT,
           ~DiskP!InPending(p), HardDisk!disk_request_create(p, track)
    PROVE  /\ DiskP!DiskInv'
           /\ disk_req' # NULL
           /\ disk_req'.process = p /\ disk_req'.track = track
           /\ disk_req'.turnaround \in Charges
           /\ \A q \in Process : DiskP!InPending(q)' <=> DiskP!InPending(q)
<1>1. DiskP!disk_request_create(p, track)
  BY DEF HardDisk!disk_request_create, DiskP!disk_request_create,
         HardDisk!estimated_moves, DiskP!estimated_moves,
         HardDisk!DISK_OPERATION_TIME, DiskP!DISK_OPERATION_TIME,
         HardDisk!DISK_TRACK_MOVE_TIME, DiskP!DISK_TRACK_MOVE_TIME,
         HardDisk!arm_vars, DiskP!arm_vars
<1>2. ~DiskP!WaitsForDisk(p) /\ track \in 0..DISK_TRACK_LIMIT \cap DiskP!Tracks
  BY DEF DiskP!WaitsForDisk, DiskP!Tracks
<1>3. /\ DiskP!DiskInv' /\ disk_req' \in DiskP!DiskRequest
      /\ disk_req'.process = p /\ disk_req'.track = track
      /\ \E n \in 0..(2 * DISK_TRACK_LIMIT) :
           disk_req'.turnaround = DiskP!DISK_OPERATION_TIME + n * DiskP!DISK_TRACK_MOVE_TIME
      /\ \A q \in Process : DiskP!InPending(q)' <=> DiskP!InPending(q)
  BY <1>1, <1>2, Constants, DiskP!RequestWaits
<1>4. disk_req' # NULL
  BY <1>3, NullIsNone DEF DiskP!DiskRequest, HardDisk!DiskRequest
<1>5. disk_req'.turnaround \in Charges
  BY <1>3, CostAssumption DEF HardDisk!DISK_OPERATION_TIME, DiskP!DISK_OPERATION_TIME,
         HardDisk!DISK_TRACK_MOVE_TIME, DiskP!DISK_TRACK_MOVE_TIME
<1> QED BY <1>3, <1>4, <1>5

LEMMA DiskAddStep ==
    ASSUME DiskP!DiskInv, disk_req # NULL, HardDisk!disk_request_add
    PROVE  /\ DiskP!DiskInv' /\ disk_req' = NULL
           /\ \A q \in Process : DiskP!InPending(q)' <=> \/ DiskP!InPending(q)
                                                         \/ q = disk_req.process
<1>1. DiskP!AddRequest
  BY DEF HardDisk!disk_request_add, DiskP!AddRequest, DiskP!disk_request_add,
         HardDisk!arm_vars, DiskP!arm_vars
<1> QED BY <1>1, Constants, DiskP!AddWaits

LEMMA DiskFinishStep ==
    ASSUME DiskP!DiskInv, HardDisk!rw_disk_op_finish
    PROVE  /\ DiskP!DiskInv' /\ disk_req' = disk_req
           /\ HardDisk!served_process \in Process
           /\ DiskP!InPending(HardDisk!served_process)
           /\ \A q \in Process : DiskP!InPending(q)' <=> /\ DiskP!InPending(q)
                                                         /\ q # HardDisk!served_process
<1>1. DiskP!rw_disk_op_finish /\ DiskP!served_process = HardDisk!served_process
  BY DEF HardDisk!rw_disk_op_finish, DiskP!rw_disk_op_finish,
         HardDisk!served_process, DiskP!served_process, HardDisk!arm_vars, DiskP!arm_vars
<1> QED BY <1>1, Constants, DiskP!FinishWaits

LEMMA DiskWalkStep ==
    ASSUME DiskP!DiskInv,
           HardDisk!rw_disk_op_seek \/ HardDisk!rw_disk_op_remove \/ HardDisk!arm_move
    PROVE  /\ DiskP!DiskInv' /\ disk_req' = disk_req
           /\ \A q \in Process : DiskP!InPending(q)' <=> DiskP!InPending(q)
<1>1. HardDisk!rw_disk_op_seek => DiskP!rw_disk_op_seek
  BY DEF HardDisk!rw_disk_op_seek, DiskP!rw_disk_op_seek, HardDisk!OnTrack, DiskP!OnTrack,
         HardDisk!arm_vars, DiskP!arm_vars
<1>2. HardDisk!rw_disk_op_remove => DiskP!rw_disk_op_remove
  BY DEF HardDisk!rw_disk_op_remove, DiskP!rw_disk_op_remove,
         HardDisk!RemoveAt, DiskP!RemoveAt, HardDisk!arm_vars, DiskP!arm_vars
<1>3. HardDisk!arm_move => DiskP!arm_move
  BY DEF HardDisk!arm_move, DiskP!arm_move
<1> QED BY <1>1, <1>2, <1>3, Constants, DiskP!WalkWaits

LEMMA DiskStands ==
    ASSUME UNCHANGED disk_vars
    PROVE  /\ DiskP!DiskInv => DiskP!DiskInv'
           /\ disk_req' = disk_req
           /\ \A q \in Process : DiskP!InPending(q)' <=> DiskP!InPending(q)
<1>1. UNCHANGED DiskP!disk_vars
  BY DEF disk_vars, DiskP!disk_vars
<1>2. DiskP!DiskInv => DiskP!DiskInv'
  BY <1>1, Constants, DiskP!NextDiskInv
<1>3. \A q \in Process : DiskP!InPending(q)' <=> DiskP!InPending(q)
  BY DEF disk_vars, DiskP!InPending, DiskP!Unserved
<1> QED BY <1>2, <1>3 DEF disk_vars

LEMMA FileSteps ==
    ASSUME FilesP!FileInv,
           \/ \E p \in Process, i \in 0..DISK_TRACK_LIMIT : Files!fs_request(p, i)
           \/ \E p \in Process : Files!fs_close_files(p)
           \/ UNCHANGED file_vars
    PROVE  FilesP!FileInv'
<1>1. ASSUME NEW p \in Process, NEW i \in 0..DISK_TRACK_LIMIT, Files!fs_request(p, i)
      PROVE  FilesP!FileInv'
  <2>1. FilesP!fs_request(p, i)
    BY <1>1 DEF Files!fs_request, FilesP!fs_request, Files!has_opened_file,
                FilesP!has_opened_file, Files!opened_count, FilesP!opened_count
  <2> QED BY <2>1, ComponentAssumption, FilesP!RequestFileInv DEF IsFiniteSet, FilesP!IsFiniteSet
<1>2. ASSUME NEW p \in Process, Files!fs_close_files(p)
      PROVE  FilesP!FileInv'
  <2>1. FilesP!fs_close_files(p)
    BY <1>2 DEF Files!fs_close_files, FilesP!fs_close_files
  <2> QED BY <2>1, ComponentAssumption, FilesP!CloseFileInv DEF IsFiniteSet, FilesP!IsFiniteSet
<1>3. CASE UNCHANGED file_vars
  BY <1>3 DEF file_vars, FilesP!FileInv, FilesP!FileTypeOK, FilesP!CountsUsers,
              FilesP!ActiveIsInUse, FilesP!Users
<1> QED BY <1>1, <1>2, <1>3

LEMMA MemLoadStep ==
    ASSUME MemP!MemInv, NEW p \in Process, Mem!mem_req_load(p),
           loading = MemP!no_call => ~MemP!Loaded(p),
           loading # MemP!no_call => loading.seg.code = p
    PROVE  /\ MemP!MemInv' /\ freeing' = freeing
           /\ loading' = MemP!no_call =>
                \A q \in Process : MemP!Loaded(q)' <=> MemP!Loaded(q) \/ q = p
           /\ loading' # MemP!no_call =>
                /\ loading'.seg.code = p
                /\ \A q \in Process : MemP!Loaded(q)' <=> MemP!Loaded(q)
<1>1. Mem!load_begin(p) => MemP!load_begin(p)
  BY DEF Mem!load_begin, MemP!load_begin, Mem!no_call, MemP!no_call,
         Mem!segment_create, MemP!segment_create, Mem!PageCount, MemP!PageCount
<1>2. Mem!load_write => MemP!load_write
  BY DEF Mem!load_write, MemP!load_write, Mem!segment_add, MemP!segment_add,
         Mem!no_call, MemP!no_call, Mem!MAXIMUM, MemP!MAXIMUM
<1>3. Mem!load_swap => MemP!load_swap
  BY DEF Mem!load_swap, MemP!load_swap, Mem!memory_page_swap, MemP!memory_page_swap,
         Mem!visited_pages, MemP!visited_pages, Mem!Unused, MemP!Unused, Mem!Pages, MemP!Pages,
         Mem!UnusedBefore, MemP!UnusedBefore,
         Mem!Cardinality, MemP!Cardinality, Mem!IsFiniteSet, MemP!IsFiniteSet
<1>4. Mem!load_sum => MemP!load_sum
  BY DEF Mem!load_sum, MemP!load_sum, Mem!segment_add, MemP!segment_add,
         Mem!no_call, MemP!no_call
<1>5. MemP!mem_req_load(p)
  BY <1>1, <1>2, <1>3, <1>4 DEF Mem!mem_req_load, MemP!mem_req_load
<1> QED BY <1>5, Constants, MemP!LoadMem

LEMMA FindIsFind ==
    ASSUME NEW sid
    PROVE  Mem!segment_find(sid) = MemP!segment_find(sid)
BY DEF Mem!segment_find, MemP!segment_find, Mem!SelectInSeq, MemP!SelectInSeq,
       Mem!Min, MemP!Min

LEMMA MemFreeStep ==
    ASSUME MemP!MemInv, NEW p \in Process,
           Mem!free_begin(SegId[p]) \/ Mem!free_read \/ Mem!free_write
    PROVE  /\ MemP!MemInv' /\ loading' = loading
           /\ freeing = MemP!no_call =>
                /\ MemP!Loaded(p) /\ freeing' # MemP!no_call
                /\ \A q \in Process : MemP!Loaded(q)' <=> MemP!Loaded(q) /\ q # p
           /\ freeing # MemP!no_call =>
                \A q \in Process : MemP!Loaded(q)' <=> MemP!Loaded(q)
<1>1. MemP!segment_free(SegId[p])
  BY FindIsFind DEF Mem!free_begin, MemP!free_begin, Mem!free_read, MemP!free_read,
                    Mem!free_write, MemP!free_write, MemP!segment_free,
                    Mem!no_call, MemP!no_call, Mem!RemoveAt, MemP!RemoveAt
<1> QED BY <1>1, Constants, MemP!FreeMem

LEMMA OwnSegment ==
    ASSUME MemP!MemInv, NEW p \in Process, MemP!Loaded(p)
    PROVE  LET i == Mem!segment_find(SegId[p])
           IN  i # 0 /\ i \in DOMAIN seg_list /\ seg_list[i].code = p
BY FindIsFind, Constants, MemP!FindOwnSegment

LEMMA MemFetchStep ==
    ASSUME MemP!MemInv, NEW p \in Process, MemP!Loaded(p), NEW n \in Nat,
           Mem!set_used(Mem!segment_find(SegId[p]), n)
    PROVE  /\ MemP!MemInv' /\ UNCHANGED <<loading, freeing>>
           /\ \A q \in Process : MemP!Loaded(q)' <=> MemP!Loaded(q)
<1> DEFINE i == Mem!segment_find(SegId[p])
<1>1. i \in DOMAIN seg_list
  BY OwnSegment
<1> HIDE DEF i
<1>2. MemP!set_used(i, n) /\ UNCHANGED <<loading, freeing>>
  BY DEF Mem!set_used, MemP!set_used, i
<1> QED BY <1>1, <1>2, Constants, MemP!SetUsedMem

LEMMA MemStands ==
    ASSUME UNCHANGED mem_vars
    PROVE  /\ MemP!MemInv => MemP!MemInv'
           /\ UNCHANGED <<loading, freeing>>
           /\ \A q \in Process : MemP!Loaded(q)' <=> MemP!Loaded(q)
BY DEF mem_vars, MemP!MemInv, MemP!MemTypeOK, MemP!SegmentsAreOwn, MemP!OneSegmentEach,
       MemP!LoadIsNew, MemP!Loaded

-----------------------------------------------------------------------------
(* The steps of the scheduler, as far as the kernel has to know them.      *)

LEMMA ScheduleMoves ==
    ASSUME SchedInv, NEW flags \in SchedulerFlag, schedule_process(flags),
           NEW x \in Process
    PROVE  /\ InPlace(x)' <=> /\ InPlace(x)
                              /\ x = scheduled_proc => Blocks(flags) \/ Expires(flags)
           /\ Asleep(x)' <=> Asleep(x) \/ (Blocks(flags) /\ x = scheduled_proc)
           /\ state'[x] = "NEW" <=> state[x] = "NEW"
           /\ scheduled_proc' = x => remaining'[x] >= 0 /\ scheduled_proc # x
           /\ scheduled_proc' # x => remaining'[x] = remaining[x]
<1>1. /\ scheduled_proc' = new_scheduled
      /\ x = new_scheduled => Ready(x)
  BY ScheduleEffect, NullAssumption
<1>2. /\ In(high_queue', x) <=> \/ In(high_queue, x) /\ x # new_scheduled
                                \/ Expires(flags) /\ x = scheduled_proc
      /\ In(low_queue', x) <=> In(low_queue, x) /\ x # new_scheduled
      /\ In(blocked_queue', x) <=> \/ In(blocked_queue, x)
                                   \/ Blocks(flags) /\ x = scheduled_proc
  BY ScheduleEffect
<1>3. /\ x = scheduled_proc => ~Ready(x) /\ state[x] = "RUNNING"
      /\ Ready(x) => state[x] # "NEW"
  BY NullAssumption DEF SchedInv, OnePlace, StateAgreesWithPlace
<1>4. /\ Ready(x)' <=> \/ Ready(x) /\ x # new_scheduled
                       \/ Expires(flags) /\ x = scheduled_proc
      /\ Asleep(x)' <=> Asleep(x) \/ (Blocks(flags) /\ x = scheduled_proc)
  BY <1>2 DEF Ready, Asleep
<1>5. InPlace(x)' <=> /\ InPlace(x)
                      /\ x = scheduled_proc => Blocks(flags) \/ Expires(flags)
  <2>1. InPlace(x)' <=> x = new_scheduled \/ Ready(x)' \/ Asleep(x)'
    BY <1>1 DEF InPlace
  <2>2. x = scheduled_proc => ~Asleep(x)
    BY DEF SchedInv, OnePlace, Asleep
  <2> QED BY <1>1, <1>3, <1>4, <2>1, <2>2 DEF InPlace
<1>6. state'[x] = "NEW" <=> state[x] = "NEW"
  BY <1>1, <1>3, ScheduleState
<1>7. remaining'[x] = IF x = new_scheduled THEN new_slice(remaining[x]) ELSE remaining[x]
  BY DEF schedule_process
<1>8. new_slice(remaining[x]) >= 0
  BY DEF new_slice, MAX, MIN, SCHED_HIGH_QUEUE_QUANTUM, SCHED_LOW_QUEUE_QUANTUM,
         SchedInv, SchedTypeOK
<1> QED BY <1>1, <1>3, <1>4, <1>5, <1>6, <1>7, <1>8

LEMMA UnblockMoves ==
    ASSUME SchedInv, NEW p \in Process, NEW queue_flag \in QueueFlag,
           Asleep(p), Unblock(p, queue_flag), NEW x \in Process
    PROVE  /\ InPlace(x)' <=> InPlace(x)
           /\ Asleep(x)' <=> Asleep(x) /\ x # p
           /\ UNCHANGED <<scheduled_proc, state, remaining>>
<1>1. /\ In(blocked_queue', x) <=> In(blocked_queue, x) /\ x # p
      /\ In(high_queue', x) <=> In(high_queue, x) \/ (queue_flag = "HIGH_QUEUE" /\ x = p)
      /\ In(low_queue', x) <=> In(low_queue, x) \/ (queue_flag = "LOW_QUEUE" /\ x = p)
  BY UnblockEffect DEF Asleep, Unblock
<1> QED BY <1>1 DEF InPlace, Ready, Asleep, Unblock, QueueFlag

LEMMA AdmitMoves ==
    ASSUME SchedInv, NEW p \in Process, Admit(p), NEW x \in Process
    PROVE  /\ InPlace(x)' <=> InPlace(x) \/ x = p
           /\ Asleep(x)' <=> Asleep(x)
           /\ state'[x] = "NEW" <=> state[x] = "NEW" /\ x # p
           /\ UNCHANGED <<scheduled_proc, blocked_queue, remaining>>
<1>1. /\ high_queue \in Queue /\ low_queue \in Queue
      /\ ~In(high_queue, p) /\ ~In(low_queue, p)
  BY QueuesOfInv DEF Admit, StateAgreesWithPlace, Ready
<1>2. /\ state' = [state EXCEPT ![p] = "READY"] /\ state \in [Process -> ProcessState]
      /\ UNCHANGED <<scheduled_proc, blocked_queue, remaining>>
      /\ \/ high_queue' = Append(high_queue, p) /\ low_queue' = low_queue
         \/ low_queue' = Append(low_queue, p) /\ high_queue' = high_queue
  BY DEF Admit, schedule_loaded_process, SchedInv, SchedTypeOK
<1>3. (In(high_queue', x) \/ In(low_queue', x)) <=> (In(high_queue, x) \/ In(low_queue, x) \/ x = p)
  <2>1. CASE high_queue' = Append(high_queue, p) /\ low_queue' = low_queue
    BY <1>1, <2>1, QueueAppend
  <2>2. CASE low_queue' = Append(low_queue, p) /\ high_queue' = high_queue
    BY <1>1, <2>2, QueueAppend
  <2> QED BY <1>2, <2>1, <2>2
<1>4. In(blocked_queue', x) <=> In(blocked_queue, x)
  BY <1>2
<1> QED BY <1>2, <1>3, <1>4 DEF InPlace, Ready, Asleep

(* Only the slices change.                                                 *)
LEMMA SchedStands ==
    ASSUME UNCHANGED <<scheduled_proc, queue_vars, state>>, NEW x \in Process
    PROVE  (InPlace(x)' <=> InPlace(x)) /\ (Asleep(x)' <=> Asleep(x))
BY DEF queue_vars, InPlace, Ready, Asleep, In

LEMMA SemStands ==
    ASSUME SemInv, UNCHANGED <<sched_vars, sem_vars>>
    PROVE  SemInv' /\ \A x \in Process : Waits(x)' <=> Waits(x)
<1>1. SchedInv'
  BY DEF SemInv, SchedInv, SchedTypeOK, OnePlace, StateAgreesWithPlace, Ready, In, sched_vars
<1>2. SemInv'
  BY <1>1, WaitersUntouched DEF sched_vars
<1> QED BY <1>2 DEF Waits, WaitsFor, In, sem_vars

LEMMA OtherCallStands ==
    ASSUME SemInv, OtherCall
    PROVE  SemInv' /\ registered' = registered /\ \A x \in Process : Waits(x)' <=> Waits(x)
BY OtherCallSemInv DEF OtherCall, Waits, WaitsFor, In, sem_vars

(* What follows from SchedInv for a process alone.                         *)
LEMMA OnePlaceEach ==
    ASSUME SchedInv, NEW x \in Process
    PROVE  /\ scheduled_proc = x => ~Ready(x) /\ ~Asleep(x) /\ state[x] = "RUNNING"
           /\ Asleep(x) => ~Ready(x) /\ state[x] = "BLOCKED"
           /\ InPlace(x) => state[x] # "NEW"
           /\ x # NULL /\ state[x] \in ProcessState /\ remaining[x] \in Int
BY NullAssumption DEF SchedInv, OnePlace, StateAgreesWithPlace, SchedTypeOK, InPlace, Asleep

-----------------------------------------------------------------------------
LEMMA InitKernelInv == KernelInit => KernelInv
<1> SUFFICES ASSUME KernelInit PROVE KernelInv
  OBVIOUS
<1>1. SemInv
  BY InitSemInv DEF KernelInit, SemInit
<1>2. /\ DiskP!DiskInv /\ disk_req = NULL
      /\ \A p \in Process : ~DiskP!InPending(p)
      /\ FilesP!FileInv
      /\ MemP!MemInv /\ \A p \in Process : ~MemP!Loaded(p)
      /\ loading = MemP!no_call /\ freeing = MemP!no_call
  BY InitComponents
<1>3. /\ proc_table = {}
      /\ pc = [p \in Process |-> 0]
      /\ proc_memory = [p \in Process |-> "none"]
      /\ reused = [p \in Process |-> {}] /\ strayed = {}
      /\ cpu = [at |-> "begin", proc |-> NULL, instr |-> NoInstr]
      /\ terminal = [at |-> "menu", proc |-> NULL]
      /\ state = [p \in Process |-> "NEW"]
      /\ scheduled_proc = NULL
  BY DEF KernelInit, SchedInit, scheduler_init
<1>4. ASSUME NEW p \in Process PROVE p # NULL /\ ~Waits(p) /\ ~InPlace(p) /\ ~Asleep(p)
  <2>1. \A s \in Sem : ~In(waiters[s], p)
    BY EmptyQueue DEF KernelInit, semaphore_table_init
  <2> QED BY <1>1, <1>3, <2>1, OnePlaceEach DEF SemInv, InPlace, Waits, WaitsFor
<1>5. ThreadTypes
  BY <1>3 DEF ThreadTypes, Places, Instr
<1>6. CallInv /\ SliceInv /\ SleepInv /\ LifeInv
  <2>1. CallInv
    BY <1>2, <1>3, <1>4 DEF CallInv, Busy
  <2>2. SliceInv /\ SleepInv
    BY <1>2, <1>3, <1>4 DEF SliceInv, SliceBegins, SleepInv, Busy, InSysCall
  <2>3. LifeInv
    BY <1>2, <1>3, <1>4 DEF LifeInv, Busy, Creating
  <2> QED BY <2>1, <2>2, <2>3
<1> QED BY <1>1, <1>2, <1>5, <1>6 DEF KernelInv

-----------------------------------------------------------------------------
(* The terminal thread *)

LEMMA CreateParseInv ==
    ASSUME KernelInv, NEW p \in Process, create_parse(p)
    PROVE  KernelInv'
<1> USE DEF KernelInv
<1>1. /\ terminal.at = "menu" /\ proc_memory[p] = "none"
      /\ proc_memory' = [proc_memory EXCEPT ![p] = "allocated"]
      /\ terminal' = [at |-> "load", proc |-> p]
      /\ reused' = [reused EXCEPT ![p] = released]
      /\ UNCHANGED <<sched_vars, proc_table, pc, strayed, cpu, disk_vars, file_vars, mem_vars>>
  BY DEF create_parse
<1>2. /\ SemInv' /\ registered' = registered \cup sems_of(p)
      /\ \A x \in Process : Waits(x)' <=> Waits(x)
  BY <1>1, ProgramNames, RegisterNames DEF create_parse
<1>3. /\ DiskP!DiskInv' /\ FilesP!FileInv' /\ MemP!MemInv'
      /\ UNCHANGED <<disk_req, loading, freeing>>
  BY <1>1, DiskStands, FileSteps, MemStands
<1>4. ASSUME NEW x \in Process
      PROVE  /\ InPlace(x)' <=> InPlace(x)
             /\ Asleep(x)' <=> Asleep(x)
             /\ DiskP!InPending(x)' <=> DiskP!InPending(x)
             /\ MemP!Loaded(x)' <=> MemP!Loaded(x)
             /\ UNCHANGED <<scheduled_proc, state, remaining>>
             /\ x # NULL
  BY <1>1, SchedStands, DiskStands, MemStands, NullAssumption DEF sched_vars, queue_vars
<1>5. ThreadTypes'
  BY <1>1, NullAssumption DEF ThreadTypes, released
<1>6. CallInv' /\ SliceInv'
  BY <1>1, <1>2, <1>3, <1>4 DEF CallInv, SliceInv, SliceBegins, Busy
<1>7. SleepInv'
  BY <1>1, <1>2, <1>4 DEF SleepInv, InSysCall
<1>8. LifeInv'
  <2> SUFFICES ASSUME NEW x \in Process
               PROVE  /\ x \in proc_table' <=> \/ Creating(x, {"ready"})'
                                               \/ InPlace(x)' /\ ~Busy(x, {"finish_schedule"})'
                      /\ MemP!Loaded(x)' <=> \/ Creating(x, {"pcb", "ready"})'
                                             \/ InPlace(x)' \/ Busy(x, {"finish_release"})'
                      /\ proc_memory'[x] = "allocated" <=>
                           \/ terminal'.proc = x
                           \/ InPlace(x)'
                           \/ Busy(x, {"finish_release", "finish_remaining", "finish_free"})'
                      /\ proc_memory'[x] = "none" \/ terminal'.proc = x => state'[x] = "NEW"
                      /\ proc_memory'[x] # "none" => sems_of(x) \subseteq registered'
                      /\ \A q \in reused'[x] : proc_memory'[q] # "none"
    BY DEF LifeInv
  <2>1. \A q \in reused'[x] : proc_memory'[q] # "none"
    <3>1. ASSUME NEW q \in released PROVE q \in Process /\ proc_memory[q] # "none"
      BY DEF released, LifeInv, Busy
    <3>2. ASSUME NEW q \in reused[x] PROVE q \in Process /\ proc_memory[q] # "none"
      BY DEF LifeInv, ThreadTypes
    <3> QED BY <1>1, <3>1, <3>2 DEF ThreadTypes
  <2> QED BY <1>1, <1>2, <1>4, <2>1 DEF LifeInv, ThreadTypes, Creating, Busy
<1> QED BY <1>2, <1>3, <1>5, <1>6, <1>7, <1>8

LEMMA CreateLoadInv ==
    ASSUME KernelInv, create_load
    PROVE  KernelInv'
<1> USE DEF KernelInv
<1> DEFINE place == IF loading' = MemP!no_call THEN "pcb" ELSE "load"
<1>1. PICK p \in Process : p = terminal.proc
  BY DEF create_load, ThreadTypes
<1>2. /\ terminal = [at |-> "load", proc |-> p]
      /\ terminal' = [at |-> place, proc |-> p]
      /\ UNCHANGED <<sched_vars, sem_vars, proc_vars, cpu, disk_vars, file_vars>>
  BY <1>1 DEF create_load, ThreadTypes, Mem!no_call, MemP!no_call
<1>3. ~MemP!Loaded(p)
  BY <1>2, OnePlaceEach DEF SemInv, LifeInv, CallInv, Creating, Busy
<1>4. /\ MemP!MemInv' /\ freeing' = freeing
      /\ loading' # MemP!no_call => loading'.seg.code = p
      /\ \A x \in Process : MemP!Loaded(x)' <=> MemP!Loaded(x) \/ (place = "pcb" /\ x = p)
  <2>1. loading # MemP!no_call => loading.seg.code = p
    BY <1>2 DEF CallInv
  <2> QED BY <1>1, <1>3, <2>1, MemLoadStep DEF create_load
<1>5. SemInv' /\ DiskP!DiskInv' /\ FilesP!FileInv' /\ disk_req' = disk_req
  BY <1>2, SemStands, DiskStands, FileSteps
<1>6. ASSUME NEW x \in Process
      PROVE  /\ InPlace(x)' <=> InPlace(x)
             /\ Asleep(x)' <=> Asleep(x)
             /\ Waits(x)' <=> Waits(x)
             /\ DiskP!InPending(x)' <=> DiskP!InPending(x)
             /\ UNCHANGED <<scheduled_proc, state, remaining, registered>>
             /\ x # NULL
  BY <1>2, SchedStands, SemStands, DiskStands, NullAssumption DEF sched_vars, queue_vars, sem_vars
<1>7. ThreadTypes'
  BY <1>2, NullAssumption DEF ThreadTypes, proc_vars
<1>8. CallInv' /\ SliceInv' /\ SleepInv'
  <2>1. CallInv'
    BY <1>2, <1>4, <1>5, <1>6 DEF CallInv, Busy
  <2>2. SliceInv'
    BY <1>2, <1>5, <1>6 DEF SliceInv, SliceBegins, Busy
  <2>3. SleepInv'
    BY <1>2, <1>5, <1>6 DEF SleepInv, InSysCall
  <2> QED BY <2>1, <2>2, <2>3
<1>9. LifeInv'
  BY <1>2, <1>4, <1>6 DEF LifeInv, Creating, Busy, proc_vars
<1> QED BY <1>4, <1>5, <1>7, <1>8, <1>9

LEMMA CreatePcbInv ==
    ASSUME KernelInv, create_pcb
    PROVE  KernelInv'
<1> USE DEF KernelInv
<1>1. PICK p \in Process : p = terminal.proc
  BY DEF create_pcb, ThreadTypes
<1>2. /\ terminal = [at |-> "pcb", proc |-> p]
      /\ terminal' = [at |-> "ready", proc |-> p]
      /\ proc_table' = proc_table \cup {p}
      /\ UNCHANGED <<sched_vars, sem_vars, pc, proc_memory, reused, strayed, cpu,
                     disk_vars, file_vars, mem_vars>>
  BY <1>1 DEF create_pcb, ThreadTypes
<1>3. /\ SemInv' /\ DiskP!DiskInv' /\ FilesP!FileInv' /\ MemP!MemInv'
      /\ UNCHANGED <<disk_req, loading, freeing>>
  BY <1>2, SemStands, DiskStands, FileSteps, MemStands
<1>4. ASSUME NEW x \in Process
      PROVE  /\ InPlace(x)' <=> InPlace(x)
             /\ Asleep(x)' <=> Asleep(x)
             /\ Waits(x)' <=> Waits(x)
             /\ DiskP!InPending(x)' <=> DiskP!InPending(x)
             /\ MemP!Loaded(x)' <=> MemP!Loaded(x)
             /\ UNCHANGED <<scheduled_proc, state, remaining, registered>>
             /\ x # NULL
  BY <1>2, SchedStands, SemStands, DiskStands, MemStands, NullAssumption
     DEF sched_vars, queue_vars, sem_vars
<1>5. ThreadTypes'
  BY <1>2, NullAssumption DEF ThreadTypes
<1>6. CallInv' /\ SliceInv' /\ SleepInv'
  <2>1. CallInv'
    BY <1>2, <1>3, <1>4 DEF CallInv, Busy
  <2>2. SliceInv'
    BY <1>2, <1>3, <1>4 DEF SliceInv, SliceBegins, Busy
  <2>3. SleepInv'
    BY <1>2, <1>3, <1>4 DEF SleepInv, InSysCall
  <2> QED BY <2>1, <2>2, <2>3
<1>7. LifeInv'
  BY <1>2, <1>4 DEF LifeInv, Creating, Busy
<1> QED BY <1>3, <1>5, <1>6, <1>7

LEMMA CreateReadyInv ==
    ASSUME KernelInv, create_ready
    PROVE  KernelInv' /\ OtherCall
<1> USE DEF KernelInv
<1>1. PICK p \in Process : p = terminal.proc
  BY DEF create_ready, ThreadTypes
<1>2. /\ terminal = [at |-> "ready", proc |-> p]
      /\ terminal' = [at |-> "menu", proc |-> NULL]
      /\ UNCHANGED <<sem_vars, proc_vars, cpu, disk_vars, file_vars, mem_vars>>
  BY <1>1 DEF create_ready, ThreadTypes
<1>3. Admit(p) /\ OtherCall
  BY <1>1, <1>2 DEF create_ready, Admit, OtherCall, LifeInv
<1>4. /\ SemInv' /\ DiskP!DiskInv' /\ FilesP!FileInv' /\ MemP!MemInv'
      /\ UNCHANGED <<disk_req, loading, freeing>>
  BY <1>2, <1>3, OtherCallStands, DiskStands, FileSteps, MemStands
<1>5. ASSUME NEW x \in Process
      PROVE  /\ InPlace(x)' <=> InPlace(x) \/ x = p
             /\ Asleep(x)' <=> Asleep(x)
             /\ state'[x] = "NEW" <=> state[x] = "NEW" /\ x # p
             /\ Waits(x)' <=> Waits(x)
             /\ DiskP!InPending(x)' <=> DiskP!InPending(x)
             /\ MemP!Loaded(x)' <=> MemP!Loaded(x)
             /\ UNCHANGED <<scheduled_proc, remaining, registered>>
             /\ x # NULL
  BY <1>2, <1>3, AdmitMoves, OtherCallStands, DiskStands, MemStands, NullAssumption DEF SemInv
<1>6. ThreadTypes'
  BY <1>2, NullAssumption DEF ThreadTypes, proc_vars
<1>7. CallInv' /\ SliceInv' /\ SleepInv'
  <2>1. CallInv'
    BY <1>2, <1>4, <1>5 DEF CallInv, Busy, LifeInv
  <2>2. SliceInv'
    BY <1>2, <1>4, <1>5 DEF SliceInv, SliceBegins, Busy, LifeInv
  <2>3. SleepInv'
    BY <1>2, <1>4, <1>5 DEF SleepInv, InSysCall, LifeInv
  <2> QED BY <2>1, <2>2, <2>3
<1>8. LifeInv'
  <2> SUFFICES ASSUME NEW x \in Process
               PROVE  /\ x \in proc_table' <=> \/ Creating(x, {"ready"})'
                                               \/ InPlace(x)' /\ ~Busy(x, {"finish_schedule"})'
                      /\ MemP!Loaded(x)' <=> \/ Creating(x, {"pcb", "ready"})'
                                             \/ InPlace(x)' \/ Busy(x, {"finish_release"})'
                      /\ proc_memory'[x] = "allocated" <=>
                           \/ terminal'.proc = x
                           \/ InPlace(x)'
                           \/ Busy(x, {"finish_release", "finish_remaining", "finish_free"})'
                      /\ proc_memory'[x] = "none" \/ terminal'.proc = x => state'[x] = "NEW"
                      /\ proc_memory'[x] # "none" => sems_of(x) \subseteq registered'
                      /\ \A q \in reused'[x] : proc_memory'[q] # "none"
    BY DEF LifeInv
  <2>1. ~Busy(p, {"finish_schedule"})
    BY <1>1, <1>2, OnePlaceEach DEF CallInv, LifeInv, InPlace, Busy, SemInv
  <2>2. ~Creating(x, {"ready"})' /\ ~Creating(x, {"pcb", "ready"})' /\ terminal'.proc # x
    BY <1>2, <1>5 DEF Creating
  <2>3. UNCHANGED <<proc_table, proc_memory, reused, cpu>>
    BY <1>2 DEF proc_vars
  <2> QED BY <1>2, <1>5, <2>1, <2>2, <2>3 DEF LifeInv, Creating, Busy
<1> QED BY <1>3, <1>4, <1>6, <1>7, <1>8

-----------------------------------------------------------------------------
(* The CPU thread changes the process, and ends it                         *)

LEMMA DispatchKernelInv ==
    ASSUME KernelInv, cpu_dispatch
    PROVE  KernelInv' /\ OtherCall
<1> USE DEF KernelInv
<1>1. /\ cpu.at \in {"begin", "check"} /\ scheduled_proc = NULL
      /\ schedule_process("NONE") /\ "NONE" \in SchedulerFlag
      /\ cpu' = [at |-> "begin", proc |-> NULL, instr |-> NoInstr]
      /\ UNCHANGED <<sem_vars, proc_vars, terminal, disk_vars, file_vars, mem_vars>>
  BY DEF cpu_dispatch, SchedulerFlag, cpu_goes_on, cpu_goes
<1>2. OtherCall
  BY <1>1 DEF OtherCall, Dispatch
<1>3. /\ SemInv' /\ DiskP!DiskInv' /\ FilesP!FileInv' /\ MemP!MemInv'
      /\ UNCHANGED <<disk_req, loading, freeing>>
  BY <1>1, <1>2, OtherCallStands, DiskStands, FileSteps, MemStands
<1>4. ASSUME NEW x \in Process
      PROVE  /\ InPlace(x)' <=> InPlace(x)
             /\ Asleep(x)' <=> Asleep(x)
             /\ state'[x] = "NEW" <=> state[x] = "NEW"
             /\ scheduled_proc' = x => remaining'[x] >= 0
             /\ Waits(x)' <=> Waits(x)
             /\ DiskP!InPending(x)' <=> DiskP!InPending(x)
             /\ MemP!Loaded(x)' <=> MemP!Loaded(x)
             /\ UNCHANGED registered
             /\ x # NULL
  BY <1>1, <1>2, ScheduleMoves, OtherCallStands, DiskStands, MemStands, NullAssumption
     DEF SemInv, Blocks
<1>5. ThreadTypes'
  BY <1>1 DEF ThreadTypes, proc_vars, Places, Instr
<1>6. CallInv' /\ SliceInv' /\ SleepInv'
  <2>1. CallInv'
    BY <1>1, <1>3, <1>4 DEF CallInv, Busy, ThreadTypes
  <2>2. SliceInv'
    BY <1>1, <1>3, <1>4 DEF SliceInv, SliceBegins, Busy, ThreadTypes
  <2>3. SleepInv'
    BY <1>1, <1>3, <1>4 DEF SleepInv, InSysCall, ThreadTypes
  <2> QED BY <2>1, <2>2, <2>3
<1>7. LifeInv'
  BY <1>1, <1>4 DEF LifeInv, ThreadTypes, Creating, Busy, proc_vars
<1> QED BY <1>2, <1>3, <1>5, <1>6, <1>7

LEMMA InterruptKernelInv ==
    ASSUME KernelInv, NEW p \in Process, cpu_interrupt(p)
    PROVE  KernelInv' /\ OtherCall
<1> USE DEF KernelInv
<1>1. /\ cpu.at \in {"begin", "check"} /\ scheduled_proc = p /\ p # NULL
      /\ schedule_process("QUANTUM_COMPLETED")
      /\ "QUANTUM_COMPLETED" \in SchedulerFlag \ {"SEMAPHORE_BLOCKED"}
      /\ cpu' = [at |-> "begin", proc |-> NULL, instr |-> NoInstr]
      /\ UNCHANGED <<sem_vars, proc_vars, terminal, disk_vars, file_vars, mem_vars>>
  BY NullAssumption
     DEF cpu_interrupt, leaves_inner_loop, SchedulerFlag, cpu_goes_on, cpu_goes
<1>2. OtherCall
  BY <1>1 DEF OtherCall, Interrupt
<1>3. /\ SemInv' /\ DiskP!DiskInv' /\ FilesP!FileInv' /\ MemP!MemInv'
      /\ UNCHANGED <<disk_req, loading, freeing>>
  BY <1>1, <1>2, OtherCallStands, DiskStands, FileSteps, MemStands
<1>4. ASSUME NEW x \in Process
      PROVE  /\ InPlace(x)' <=> InPlace(x)
             /\ Asleep(x)' <=> Asleep(x)
             /\ state'[x] = "NEW" <=> state[x] = "NEW"
             /\ scheduled_proc' = x => remaining'[x] >= 0
             /\ Waits(x)' <=> Waits(x)
             /\ DiskP!InPending(x)' <=> DiskP!InPending(x)
             /\ MemP!Loaded(x)' <=> MemP!Loaded(x)
             /\ UNCHANGED registered
             /\ x # NULL
  BY <1>1, <1>2, ScheduleMoves, OtherCallStands, DiskStands, MemStands, NullAssumption
     DEF SemInv, Blocks, Expires
<1>5. ThreadTypes'
  BY <1>1 DEF ThreadTypes, proc_vars, Places, Instr
<1>6. CallInv' /\ SliceInv' /\ SleepInv'
  <2>1. CallInv'
    BY <1>1, <1>3, <1>4 DEF CallInv, Busy, ThreadTypes
  <2>2. SliceInv'
    BY <1>1, <1>3, <1>4 DEF SliceInv, SliceBegins, Busy, ThreadTypes
  <2>3. SleepInv'
    BY <1>1, <1>3, <1>4 DEF SleepInv, InSysCall, ThreadTypes
  <2> QED BY <2>1, <2>2, <2>3
<1>7. LifeInv'
  BY <1>1, <1>4 DEF LifeInv, ThreadTypes, Creating, Busy, proc_vars
<1> QED BY <1>2, <1>3, <1>5, <1>6, <1>7

LEMMA FinishPcbInv ==
    ASSUME KernelInv, NEW p \in Process, finish_pcb(p)
    PROVE  KernelInv' /\ UNCHANGED sched_vars
<1> USE DEF KernelInv
<1>1. /\ cpu.at \in {"begin", "check"} /\ scheduled_proc = p
      /\ proc_table' = proc_table \ {p}
      /\ cpu' = [at |-> "finish_schedule", proc |-> p, instr |-> NoInstr]
      /\ UNCHANGED <<sched_vars, sem_vars, pc, proc_memory, reused, strayed, terminal,
                     disk_vars, file_vars, mem_vars>>
  BY DEF finish_pcb, leaves_inner_loop, cpu_goes
<1>2. /\ SemInv' /\ DiskP!DiskInv' /\ FilesP!FileInv' /\ MemP!MemInv'
      /\ UNCHANGED <<disk_req, loading, freeing>>
  BY <1>1, SemStands, DiskStands, FileSteps, MemStands
<1>3. ASSUME NEW x \in Process
      PROVE  /\ InPlace(x)' <=> InPlace(x)
             /\ Asleep(x)' <=> Asleep(x)
             /\ Waits(x)' <=> Waits(x)
             /\ DiskP!InPending(x)' <=> DiskP!InPending(x)
             /\ MemP!Loaded(x)' <=> MemP!Loaded(x)
             /\ UNCHANGED <<scheduled_proc, state, remaining, registered>>
             /\ x # NULL
             /\ InPlace(x) => state[x] # "NEW"
  BY <1>1, SchedStands, SemStands, DiskStands, MemStands, NullAssumption, OnePlaceEach
     DEF sched_vars, queue_vars, sem_vars, SemInv
<1>4. ThreadTypes'
  BY <1>1, <1>3 DEF ThreadTypes, Places, Instr
<1>5. CallInv' /\ SliceInv' /\ SleepInv'
  <2>1. CallInv'
    BY <1>1, <1>2, <1>3 DEF CallInv, Busy, ThreadTypes
  <2>2. SliceInv'
    BY <1>1, <1>2, <1>3 DEF SliceInv, SliceBegins, Busy, ThreadTypes
  <2>3. SleepInv'
    BY <1>1, <1>2, <1>3 DEF SleepInv, InSysCall, ThreadTypes
  <2> QED BY <2>1, <2>2, <2>3
<1>6. LifeInv'
  BY <1>1, <1>3 DEF LifeInv, ThreadTypes, Creating, Busy, InPlace
<1> QED BY <1>1, <1>2, <1>4, <1>5, <1>6

LEMMA FinishScheduleInv ==
    ASSUME KernelInv, finish_schedule
    PROVE  KernelInv' /\ OtherCall
<1> USE DEF KernelInv
<1>1. PICK p \in Process : p = cpu.proc
  BY DEF finish_schedule, ThreadTypes
<1>2. cpu.at = "finish_schedule" /\ scheduled_proc = p /\ p # NULL
  BY <1>1, NullAssumption DEF finish_schedule, CallInv, Busy
<1>3. /\ schedule_process("NONE") /\ "NONE" \in SchedulerFlag \ {"SEMAPHORE_BLOCKED"}
      /\ cpu' = [at |-> "finish_release", proc |-> p, instr |-> NoInstr]
      /\ UNCHANGED <<sem_vars, proc_vars, terminal, disk_vars, file_vars, mem_vars>>
  BY <1>1, <1>2 DEF finish_schedule, SchedulerFlag, cpu_goes
<1>4. OtherCall
  BY <1>2, <1>3 DEF OtherCall, Interrupt
<1>5. /\ SemInv' /\ DiskP!DiskInv' /\ FilesP!FileInv' /\ MemP!MemInv'
      /\ UNCHANGED <<disk_req, loading, freeing>>
  BY <1>3, <1>4, OtherCallStands, DiskStands, FileSteps, MemStands
<1>6. ASSUME NEW x \in Process
      PROVE  /\ InPlace(x)' <=> InPlace(x) /\ x # p
             /\ Asleep(x)' <=> Asleep(x)
             /\ state'[x] = "NEW" <=> state[x] = "NEW"
             /\ scheduled_proc' = x => remaining'[x] >= 0
             /\ Waits(x)' <=> Waits(x)
             /\ DiskP!InPending(x)' <=> DiskP!InPending(x)
             /\ MemP!Loaded(x)' <=> MemP!Loaded(x)
             /\ UNCHANGED registered
             /\ x # NULL
             /\ InPlace(x) => state[x] # "NEW"
  BY <1>2, <1>3, <1>4, ScheduleMoves, OtherCallStands, DiskStands, MemStands, NullAssumption,
     OnePlaceEach DEF SemInv, Blocks, Expires
<1>7. InPlace(p)
  BY <1>2 DEF InPlace
<1>8. ThreadTypes'
  BY <1>2, <1>3 DEF ThreadTypes, proc_vars, Places, Instr
<1>9. CallInv' /\ SliceInv' /\ SleepInv'
  <2>1. CallInv'
    BY <1>2, <1>3, <1>5, <1>6, <1>7 DEF CallInv, Busy, ThreadTypes
  <2>2. SliceInv'
    BY <1>2, <1>3, <1>5, <1>6, <1>7 DEF SliceInv, SliceBegins, Busy, ThreadTypes
  <2>3. SleepInv'
    BY <1>2, <1>3, <1>5, <1>6, <1>7 DEF SleepInv, InSysCall, ThreadTypes
  <2> QED BY <2>1, <2>2, <2>3
<1>10. LifeInv'
  BY <1>1, <1>2, <1>3, <1>6, <1>7 DEF LifeInv, ThreadTypes, Creating, Busy, proc_vars
<1> QED BY <1>4, <1>5, <1>8, <1>9, <1>10

LEMMA FinishReleaseInv ==
    ASSUME KernelInv, finish_release
    PROVE  KernelInv' /\ UNCHANGED sched_vars
<1> USE DEF KernelInv
<1>1. PICK p \in Process : p = cpu.proc
  BY DEF finish_release, ThreadTypes
<1>2. /\ cpu.at = "finish_release"
      /\ Files!fs_close_files(p) /\ Mem!free_begin(SegId[p])
      /\ cpu' = [at |-> "finish_remaining", proc |-> p, instr |-> NoInstr]
      /\ UNCHANGED <<sched_vars, sem_vars, proc_vars, terminal, disk_vars>>
  BY <1>1 DEF finish_release, cpu_goes
<1>3. ~InPlace(p) /\ state[p] # "NEW" /\ freeing = MemP!no_call
  BY <1>1, <1>2 DEF CallInv, Busy
<1>4. /\ MemP!MemInv' /\ loading' = loading /\ freeing' # MemP!no_call
      /\ \A x \in Process : MemP!Loaded(x)' <=> MemP!Loaded(x) /\ x # p
  BY <1>2, <1>3, MemFreeStep
<1>5. /\ SemInv' /\ DiskP!DiskInv' /\ FilesP!FileInv' /\ disk_req' = disk_req
  BY <1>2, SemStands, DiskStands, FileSteps
<1>6. ASSUME NEW x \in Process
      PROVE  /\ InPlace(x)' <=> InPlace(x)
             /\ Asleep(x)' <=> Asleep(x)
             /\ Waits(x)' <=> Waits(x)
             /\ DiskP!InPending(x)' <=> DiskP!InPending(x)
             /\ UNCHANGED <<scheduled_proc, state, remaining, registered>>
             /\ x # NULL
  BY <1>2, SchedStands, SemStands, DiskStands, NullAssumption
     DEF sched_vars, queue_vars, sem_vars
<1>7. ThreadTypes'
  BY <1>2, <1>6 DEF ThreadTypes, Places, Instr, proc_vars
<1>8. CallInv' /\ SliceInv' /\ SleepInv'
  <2>1. CallInv'
    BY <1>1, <1>2, <1>3, <1>4, <1>5, <1>6 DEF CallInv, Busy, ThreadTypes
  <2>2. SliceInv'
    BY <1>1, <1>2, <1>3, <1>5, <1>6 DEF SliceInv, SliceBegins, Busy, ThreadTypes
  <2>3. SleepInv'
    BY <1>1, <1>2, <1>3, <1>5, <1>6 DEF SleepInv, InSysCall, ThreadTypes
  <2> QED BY <2>1, <2>2, <2>3
<1>9. LifeInv'
  BY <1>1, <1>2, <1>3, <1>4, <1>6 DEF LifeInv, ThreadTypes, Creating, Busy, proc_vars
<1> QED BY <1>2, <1>4, <1>5, <1>7, <1>8, <1>9

LEMMA FinishRemainingInv ==
    ASSUME KernelInv, finish_remaining
    PROVE  KernelInv' /\ UNCHANGED sched_vars
<1> USE DEF KernelInv
<1> DEFINE place == IF freeing' = MemP!no_call THEN "finish_free" ELSE "finish_remaining"
<1>1. PICK p \in Process : p = cpu.proc
  BY DEF finish_remaining, ThreadTypes
<1>2. /\ cpu.at = "finish_remaining"
      /\ Mem!free_read \/ Mem!free_write
      /\ cpu' = [at |-> place, proc |-> p, instr |-> NoInstr]
      /\ UNCHANGED <<sched_vars, sem_vars, proc_vars, terminal, disk_vars, file_vars>>
  BY <1>1 DEF finish_remaining, cpu_goes, Mem!no_call, MemP!no_call
<1>3. ~InPlace(p) /\ state[p] # "NEW" /\ freeing # MemP!no_call
  BY <1>1, <1>2 DEF CallInv, Busy
<1>4. /\ MemP!MemInv' /\ loading' = loading
      /\ \A x \in Process : MemP!Loaded(x)' <=> MemP!Loaded(x)
  BY <1>2, <1>3, MemFreeStep
<1>5. /\ SemInv' /\ DiskP!DiskInv' /\ FilesP!FileInv' /\ disk_req' = disk_req
  BY <1>2, SemStands, DiskStands, FileSteps
<1>6. ASSUME NEW x \in Process
      PROVE  /\ InPlace(x)' <=> InPlace(x)
             /\ Asleep(x)' <=> Asleep(x)
             /\ Waits(x)' <=> Waits(x)
             /\ DiskP!InPending(x)' <=> DiskP!InPending(x)
             /\ UNCHANGED <<scheduled_proc, state, remaining, registered>>
             /\ x # NULL
  BY <1>2, SchedStands, SemStands, DiskStands, NullAssumption
     DEF sched_vars, queue_vars, sem_vars
<1>7. ThreadTypes'
  BY <1>2, <1>6 DEF ThreadTypes, Places, Instr, proc_vars
<1>8. CallInv' /\ SliceInv' /\ SleepInv'
  <2>1. CallInv'
    BY <1>1, <1>2, <1>3, <1>4, <1>5, <1>6 DEF CallInv, Busy, ThreadTypes
  <2>2. SliceInv'
    BY <1>1, <1>2, <1>3, <1>5, <1>6 DEF SliceInv, SliceBegins, Busy, ThreadTypes
  <2>3. SleepInv'
    BY <1>1, <1>2, <1>3, <1>5, <1>6 DEF SleepInv, InSysCall, ThreadTypes
  <2> QED BY <2>1, <2>2, <2>3
<1>9. LifeInv'
  BY <1>1, <1>2, <1>3, <1>4, <1>6 DEF LifeInv, ThreadTypes, Creating, Busy, proc_vars
<1> QED BY <1>2, <1>4, <1>5, <1>7, <1>8, <1>9

(* The removal at the end of process_finish finds nothing.                 *)
LEMMA FinishFreeInv ==
    ASSUME KernelInv, finish_free
    PROVE  KernelInv' /\ UNCHANGED sched_vars
<1> USE DEF KernelInv
<1>1. PICK p \in Process : p = cpu.proc
  BY DEF finish_free, ThreadTypes
<1>2. /\ cpu.at = "finish_free" /\ unschedule_process(p)
      /\ proc_memory' = [proc_memory EXCEPT ![p] = "freed"]
      /\ cpu' = [at |-> "begin", proc |-> NULL, instr |-> NoInstr]
      /\ UNCHANGED <<sem_vars, proc_table, pc, reused, strayed, terminal,
                     disk_vars, file_vars, mem_vars>>
  BY <1>1 DEF finish_free, cpu_goes_on, cpu_goes
<1>3. ~InPlace(p) /\ state[p] # "NEW"
  BY <1>1, <1>2 DEF CallInv, Busy
<1>4. UNCHANGED sched_vars
  BY <1>2, <1>3 DEF unschedule_process, InPlace, Ready, Asleep, sched_vars
<1>5. /\ SemInv' /\ DiskP!DiskInv' /\ FilesP!FileInv' /\ MemP!MemInv'
      /\ UNCHANGED <<disk_req, loading, freeing>>
  BY <1>2, <1>4, SemStands, DiskStands, FileSteps, MemStands
<1>6. ASSUME NEW x \in Process
      PROVE  /\ InPlace(x)' <=> InPlace(x)
             /\ Asleep(x)' <=> Asleep(x)
             /\ Waits(x)' <=> Waits(x)
             /\ DiskP!InPending(x)' <=> DiskP!InPending(x)
             /\ MemP!Loaded(x)' <=> MemP!Loaded(x)
             /\ UNCHANGED <<scheduled_proc, state, remaining, registered>>
             /\ x # NULL
  BY <1>2, <1>4, SchedStands, SemStands, DiskStands, MemStands, NullAssumption
     DEF sched_vars, queue_vars, sem_vars
<1>7. ThreadTypes'
  BY <1>2 DEF ThreadTypes, Places, Instr
<1>8. CallInv' /\ SliceInv' /\ SleepInv'
  <2>1. CallInv'
    BY <1>1, <1>2, <1>3, <1>5, <1>6 DEF CallInv, Busy, ThreadTypes
  <2>2. SliceInv'
    BY <1>1, <1>2, <1>3, <1>5, <1>6 DEF SliceInv, SliceBegins, Busy, ThreadTypes
  <2>3. SleepInv'
    BY <1>1, <1>2, <1>3, <1>5, <1>6 DEF SleepInv, InSysCall, ThreadTypes
  <2> QED BY <2>1, <2>2, <2>3
<1>9. LifeInv'
  BY <1>1, <1>2, <1>3, <1>6 DEF LifeInv, ThreadTypes, Creating, Busy
<1> QED BY <1>4, <1>5, <1>7, <1>8, <1>9

-----------------------------------------------------------------------------
(* The CPU thread runs an instruction.  It is one of the program, because  *)
(* the segment found is that of the process, or behind them one of another *)
(* program that has been loaded: the semaphore it names is registered.     *)

LEMMA FetchedInstr ==
    ASSUME KernelInv, NEW p \in Process, may_execute(p), NEW instr \in fetched(p)
    PROVE  /\ scheduled_proc = p /\ cpu.at \in {"begin", "check"} /\ remaining[p] >= 0
           /\ MemP!Loaded(p)
           /\ instr \in Instr
           /\ instr.op \in {"SEM_P", "SEM_V"} => instr.sem \in registered \cap Sem
           /\ written(p) <=> pc[p] < Len(Program[p])
           /\ written(p) => instr = Program[p][pc[p] + 1]
<1> USE DEF KernelInv
<1>1. scheduled_proc = p /\ cpu.at \in {"begin", "check"}
  BY DEF may_execute
<1>2. InPlace(p) /\ remaining[p] \in Int /\ state[p] # "NEW"
  BY <1>1, OnePlaceEach DEF InPlace, SemInv
<1>3. remaining[p] >= 0
  BY <1>1, <1>2 DEF may_execute, inner_loop_goes_on, SliceInv, SliceBegins
<1>4. MemP!Loaded(p)
  BY <1>2 DEF LifeInv
<1>5. code_of(p) = Program[p]
  BY <1>4, OwnSegment DEF code_of
<1>6. written(p) <=> pc[p] < Len(Program[p])
  BY <1>5 DEF written
<1>7. pc[p] \in Nat /\ Len(Program[p]) \in Nat
  BY ProgramAssumption DEF ThreadTypes
<1>8. CASE written(p)
  <2>1. instr = Program[p][pc[p] + 1] /\ pc[p] + 1 \in 1..Len(Program[p])
    BY <1>5, <1>6, <1>7, <1>8 DEF fetched
  <2>2. sems_of(p) \subseteq registered /\ sems_of(p) \subseteq Sem
    BY <1>2, ProgramNames DEF LifeInv, ThreadTypes
  <2> QED BY <1>1, <1>3, <1>4, <1>6, <2>1, <2>2, ProgramNames
<1>9. CASE ~written(p)
  <2>1. instr \in UninitInstr \/ instr \in left_overs(p)
    BY <1>9 DEF fetched
  <2>2. instr \in Instr
        /\ (instr.op \in {"SEM_P", "SEM_V"} => instr.sem \in registered \cap Sem)
    <3>1. CASE instr \in UninitInstr
      BY <3>1, ProgramAssumption
    <3>2. CASE instr \in left_overs(p)
      <4>1. PICK q \in Process : proc_memory[q] # "none" /\ instr \in Range(Program[q])
        BY <3>2 DEF left_overs, LifeInv, ThreadTypes
      <4>2. PICK i \in 1..Len(Program[q]) : instr = Program[q][i]
        <5>1. DOMAIN Program[q] = 1..Len(Program[q])
          BY ProgramAssumption
        <5> QED BY <4>1, <5>1 DEF Range
      <4>3. sems_of(q) \subseteq registered /\ sems_of(q) \subseteq Sem
        BY <4>1, ProgramNames DEF LifeInv
      <4> QED BY <4>2, <4>3, ProgramNames
    <3> QED BY <2>1, <3>1, <3>2
  <2> QED BY <1>1, <1>3, <1>4, <1>6, <1>9, <2>2
<1> QED BY <1>8, <1>9

(* What every instruction leaves as it was.                                *)
LEMMA ExecuteLeaves ==
    ASSUME KernelInv, NEW p \in Process, may_execute(p), fetch(p), NEW instr \in fetched(p),
           NEW place \in {"check", "semaphore", "disk_request", "print"},
           NEW q \in Process \cup {NULL}, q = NULL <=> place = "check",
           NEW i \in Instr, cpu' = [at |-> place, proc |-> q, instr |-> i],
           registered' = registered, strayed' \subseteq Sem,
           \A x \in Process : /\ InPlace(x)' <=> InPlace(x)
                              /\ state'[x] = "NEW" <=> state[x] = "NEW"
    PROVE  /\ DiskP!DiskInv' /\ FilesP!FileInv' /\ MemP!MemInv'
           /\ disk_req' = NULL /\ freeing' = MemP!no_call /\ UNCHANGED <<loading, terminal>>
           /\ ThreadTypes' /\ LifeInv'
           /\ \A x \in Process : /\ DiskP!InPending(x)' <=> DiskP!InPending(x)
                                 /\ ~InSysCall(x)
<1> USE DEF KernelInv
<1>1. /\ cpu.at \in {"begin", "check"} /\ cpu.proc = NULL /\ MemP!Loaded(p) /\ pc[p] \in Nat
      /\ freeing = MemP!no_call
  BY FetchedInstr DEF ThreadTypes, CallInv
<1>2. /\ pc' = [pc EXCEPT ![p] = @ + 1]
      /\ Mem!set_used(Mem!segment_find(SegId[p]), pc[p])
      /\ UNCHANGED <<proc_table, proc_memory, reused, terminal, disk_vars, file_vars>>
  BY DEF fetch
<1>3. /\ MemP!MemInv' /\ UNCHANGED <<loading, freeing>>
      /\ \A x \in Process : MemP!Loaded(x)' <=> MemP!Loaded(x)
  BY <1>1, <1>2, MemFetchStep
<1>4. /\ DiskP!DiskInv' /\ FilesP!FileInv' /\ disk_req' = NULL
      /\ \A x \in Process : DiskP!InPending(x)' <=> DiskP!InPending(x)
  BY <1>1, <1>2, DiskStands, FileSteps DEF CallInv
<1>5. \A x \in Process : x # NULL /\ ~InSysCall(x)
  BY <1>1, NullAssumption DEF InSysCall
<1>6. ThreadTypes'
  BY <1>1, <1>2 DEF ThreadTypes, Places
<1>7. LifeInv'
  BY <1>1, <1>2, <1>3, <1>5 DEF LifeInv, Creating, Busy
<1> QED BY <1>1, <1>2, <1>3, <1>4, <1>5, <1>6, <1>7

(* EXEC, and the operations eval has no case for                           *)
LEMMA ExecInv ==
    ASSUME KernelInv, NEW p \in Process, may_execute(p), fetch(p), NEW instr \in fetched(p),
           \/ instr.op = "OTHER" /\ UNCHANGED sched_vars
           \/ instr.op = "EXEC" /\ charge(p, instr.value),
           strayed' \subseteq Sem, UNCHANGED sem_vars, cpu_goes_on("check")
    PROVE  KernelInv' /\ (OtherCall \/ UNCHANGED sched_vars)
<1> USE DEF KernelInv
<1>1. /\ scheduled_proc = p /\ remaining[p] >= 0 /\ instr \in Instr
      /\ cpu' = [at |-> "check", proc |-> NULL, instr |-> NoInstr]
  BY FetchedInstr DEF cpu_goes_on, cpu_goes
<1>2. OtherCall \/ UNCHANGED sched_vars
  BY <1>1, Operands DEF OtherCall, Charge
<1>3. /\ SemInv' /\ registered' = registered
      /\ \A x \in Process : Waits(x)' <=> Waits(x)
  BY <1>2, OtherCallStands, SemStands DEF sem_vars
<1>4. UNCHANGED <<scheduled_proc, queue_vars, state>>
  BY DEF charge, sched_vars, queue_vars
<1>5. \A x \in Process : /\ InPlace(x)' <=> InPlace(x)
                         /\ Asleep(x)' <=> Asleep(x)
                         /\ state'[x] = "NEW" <=> state[x] = "NEW"
                         /\ x # NULL
  BY <1>4, SchedStands, NullAssumption
<1>6. /\ DiskP!DiskInv' /\ FilesP!FileInv' /\ MemP!MemInv'
      /\ disk_req' = NULL /\ freeing' = MemP!no_call /\ UNCHANGED <<loading, terminal>>
      /\ ThreadTypes' /\ LifeInv'
      /\ \A x \in Process : /\ DiskP!InPending(x)' <=> DiskP!InPending(x)
                            /\ ~InSysCall(x)
  <2>1. NoInstr \in Instr /\ "check" \in {"check", "semaphore", "disk_request", "print"}
    BY DEF Instr
  <2> QED BY <1>1, <1>3, <1>5, <2>1, ExecuteLeaves
<1>7. CallInv' /\ SliceInv' /\ SleepInv'
  <2>1. CallInv'
    BY <1>1, <1>3, <1>5, <1>6 DEF CallInv, Busy
  <2>2. SliceInv'
    BY <1>1, <1>3, <1>5, <1>6 DEF SliceInv, SliceBegins, Busy
  <2>3. SleepInv'
    BY <1>1, <1>3, <1>5, <1>6 DEF SleepInv, InSysCall
  <2> QED BY <2>1, <2>2, <2>3
<1> QED BY <1>2, <1>3, <1>6, <1>7

(* The call takes the process off the CPU, and does not wait for the       *)
(* device.                                                                 *)
LEMMA RequestIoInv ==
    ASSUME KernelInv, NEW p \in Process, may_execute(p), fetch(p), NEW instr \in fetched(p),
           strayed' \subseteq Sem,
           schedule_process("IO_REQUESTED"), UNCHANGED sem_vars,
           \/ instr.op \in {"READ", "WRITE"} /\ cpu_goes("disk_request", p, instr)
           \/ instr.op = "PRINT" /\ cpu_goes("print", p, instr)
    PROVE  KernelInv' /\ OtherCall
<1> USE DEF KernelInv
<1>1. /\ scheduled_proc = p /\ remaining[p] >= 0 /\ instr \in Instr
      /\ p # NULL /\ "IO_REQUESTED" \in SchedulerFlag \ {"SEMAPHORE_BLOCKED"}
  BY FetchedInstr, NullAssumption DEF SchedulerFlag
<1>2. PICK place \in {"disk_request", "print"} :
        /\ cpu' = [at |-> place, proc |-> p, instr |-> instr]
        /\ place = "disk_request" => instr.op \in {"READ", "WRITE"}
        /\ place = "print" => instr.op = "PRINT"
  BY DEF cpu_goes
<1>3. OtherCall
  BY <1>1 DEF OtherCall, Interrupt
<1>4. /\ SemInv' /\ registered' = registered
      /\ \A x \in Process : Waits(x)' <=> Waits(x)
  BY <1>3, OtherCallStands
<1>5. \A x \in Process : /\ InPlace(x)' <=> InPlace(x)
                         /\ Asleep(x)' <=> Asleep(x) \/ x = p
                         /\ state'[x] = "NEW" <=> state[x] = "NEW"
                         /\ x # NULL
  BY <1>1, ScheduleMoves, NullAssumption DEF SemInv, Blocks
<1>6. remaining'[p] = remaining[p] /\ ~Asleep(p)
  BY <1>1, ScheduleMoves, OnePlaceEach DEF SemInv
<1>7. /\ DiskP!DiskInv' /\ FilesP!FileInv' /\ MemP!MemInv'
      /\ disk_req' = NULL /\ freeing' = MemP!no_call /\ UNCHANGED <<loading, terminal>>
      /\ ThreadTypes' /\ LifeInv'
      /\ \A x \in Process : /\ DiskP!InPending(x)' <=> DiskP!InPending(x)
                            /\ ~InSysCall(x)
  BY <1>1, <1>2, <1>4, <1>5, ExecuteLeaves
<1>8. CallInv' /\ SliceInv' /\ SleepInv'
  <2>1. CallInv'
    BY <1>1, <1>2, <1>4, <1>5, <1>6, <1>7 DEF CallInv, Busy
  <2>2. SliceInv'
    BY <1>1, <1>2, <1>4, <1>5, <1>6, <1>7 DEF SliceInv, SliceBegins, Busy
  <2>3. SleepInv'
    BY <1>1, <1>2, <1>4, <1>5, <1>6, <1>7 DEF SleepInv, InSysCall
  <2> QED BY <2>1, <2>2, <2>3
<1> QED BY <1>3, <1>4, <1>7, <1>8

LEMMA SemPInv ==
    ASSUME KernelInv, NEW p \in Process, may_execute(p), fetch(p), NEW instr \in fetched(p),
           strayed' \subseteq Sem,
           instr.op = "SEM_P", semaphore_P(instr.sem, p), cpu_goes("semaphore", p, instr)
    PROVE  KernelInv' /\ \E s \in Sem : P(s)
<1> USE DEF KernelInv
<1>1. /\ scheduled_proc = p /\ remaining[p] >= 0 /\ instr \in Instr /\ p # NULL
      /\ instr.sem \in registered \cap Sem
      /\ cpu' = [at |-> "semaphore", proc |-> p, instr |-> instr]
  BY FetchedInstr, NullAssumption DEF cpu_goes
<1>2. instr.sem \in Sem /\ P(instr.sem)
  BY <1>1 DEF P
<1>3. SemInv' /\ registered' = registered
  BY <1>2, PSemInv, PWaits
<1>4. \A x \in Process :
        /\ InPlace(x)' <=> InPlace(x)
        /\ state'[x] = "NEW" <=> state[x] = "NEW"
        /\ x # NULL
        /\ ~(x = p /\ Asleep(x))
  <2> TAKE x \in Process
  <2>1. CASE UNCHANGED sched_vars
    BY <1>1, <2>1, SchedStands, NullAssumption, OnePlaceEach DEF sched_vars, queue_vars, SemInv
  <2>2. CASE schedule_process("SEMAPHORE_BLOCKED")
    BY <1>1, <2>2, ScheduleMoves, NullAssumption, OnePlaceEach DEF SemInv, Blocks, SchedulerFlag
  <2> QED BY <1>2, <2>1, <2>2, PWaits
<1>5. /\ remaining'[p] = remaining[p]
      /\ \/ scheduled_proc' = p /\ \A x \in Process : /\ Waits(x)' <=> Waits(x)
                                                      /\ Asleep(x)' <=> Asleep(x)
         \/ \A x \in Process : /\ Waits(x)' <=> Waits(x) \/ x = p
                               /\ Asleep(x)' <=> Asleep(x) \/ x = p
  <2>1. CASE UNCHANGED sched_vars /\ \A x \in Process : Waits(x)' <=> Waits(x)
    BY <1>1, <2>1, SchedStands DEF sched_vars, queue_vars
  <2>2. CASE /\ schedule_process("SEMAPHORE_BLOCKED")
             /\ \A x \in Process : Waits(x)' <=> Waits(x) \/ x = scheduled_proc
    BY <1>1, <2>2, ScheduleMoves DEF SemInv, Blocks, SchedulerFlag
  <2> QED BY <1>2, <2>1, <2>2, PWaits
<1>6. /\ DiskP!DiskInv' /\ FilesP!FileInv' /\ MemP!MemInv'
      /\ disk_req' = NULL /\ freeing' = MemP!no_call /\ UNCHANGED <<loading, terminal>>
      /\ ThreadTypes' /\ LifeInv'
      /\ \A x \in Process : /\ DiskP!InPending(x)' <=> DiskP!InPending(x)
                            /\ ~InSysCall(x)
  BY <1>1, <1>3, <1>4, ExecuteLeaves
<1>7. CallInv' /\ SliceInv' /\ SleepInv'
  <2>1. CallInv'
    BY <1>1, <1>4, <1>5, <1>6 DEF CallInv, Busy
  <2>2. SliceInv'
    BY <1>1, <1>4, <1>5, <1>6 DEF SliceInv, SliceBegins, Busy
  <2>3. SleepInv'
    <3> SUFFICES ASSUME NEW x \in Process
                 PROVE  /\ Asleep(x)' <=> Waits(x)' \/ DiskP!InPending(x)' \/ InSysCall(x)'
                        /\ ~(Waits(x)' /\ DiskP!InPending(x)')
                        /\ ~(InSysCall(x)' /\ (Waits(x)' \/ DiskP!InPending(x)'))
      BY DEF SleepInv
    <3>1. ~InSysCall(x)' /\ (DiskP!InPending(x)' <=> DiskP!InPending(x))
      BY <1>1, <1>6 DEF InSysCall
    <3>2. /\ Asleep(x) <=> Waits(x) \/ DiskP!InPending(x)
          /\ ~(Waits(x) /\ DiskP!InPending(x))
          /\ x = p => ~DiskP!InPending(x)
      BY <1>4, <1>6 DEF SleepInv
    <3>3. CASE (Waits(x)' <=> Waits(x)) /\ (Asleep(x)' <=> Asleep(x))
      BY <3>1, <3>2, <3>3
    <3>4. CASE (Waits(x)' <=> Waits(x) \/ x = p) /\ (Asleep(x)' <=> Asleep(x) \/ x = p)
      <4>1. CASE x = p
        BY <3>1, <3>2, <3>4, <4>1
      <4>2. CASE x # p
        BY <3>1, <3>2, <3>4, <4>2
      <4> QED BY <4>1, <4>2
    <3> QED BY <1>5, <3>3, <3>4
  <2> QED BY <2>1, <2>2, <2>3
<1> QED BY <1>2, <1>3, <1>6, <1>7

LEMMA SemVInv ==
    ASSUME KernelInv, NEW p \in Process, may_execute(p), fetch(p), NEW instr \in fetched(p),
           strayed' \subseteq Sem,
           instr.op = "SEM_V", semaphore_V(instr.sem), cpu_goes("semaphore", p, instr)
    PROVE  KernelInv' /\ \E s \in Sem : V(s)
<1> USE DEF KernelInv
<1>1. /\ scheduled_proc = p /\ remaining[p] >= 0 /\ instr \in Instr /\ p # NULL
      /\ instr.sem \in registered \cap Sem
      /\ cpu' = [at |-> "semaphore", proc |-> p, instr |-> instr]
  BY FetchedInstr, NullAssumption DEF cpu_goes
<1>2. instr.sem \in Sem /\ V(instr.sem)
  BY <1>1 DEF V
<1>3. SemInv' /\ registered' = registered
  BY <1>2, VSemInv, VWaits
<1>4. /\ \A x \in Process : InPlace(x)' <=> InPlace(x)
      /\ UNCHANGED <<scheduled_proc, state, remaining>>
      /\ \/ \A x \in Process : /\ Waits(x)' <=> Waits(x)
                               /\ Asleep(x)' <=> Asleep(x)
         \/ \E y \in Process :
              /\ Waits(y)
              /\ \A x \in Process : /\ Waits(x)' <=> Waits(x) /\ x # y
                                    /\ Asleep(x)' <=> Asleep(x) /\ x # y
  <2>1. CASE UNCHANGED sched_vars /\ \A x \in Process : Waits(x)' <=> Waits(x)
    BY <1>1, <2>1, SchedStands DEF sched_vars, queue_vars
  <2>2. CASE \E y \in Process : /\ Waits(y) /\ In(blocked_queue, y)
                                /\ Unblock(y, "HIGH_QUEUE")
                                /\ \A x \in Process : Waits(x)' <=> Waits(x) /\ x # y
    <3>1. PICK y \in Process : /\ Waits(y) /\ In(blocked_queue, y)
                               /\ Unblock(y, "HIGH_QUEUE")
                               /\ \A x \in Process : Waits(x)' <=> Waits(x) /\ x # y
      BY <2>2
    <3>2. Asleep(y) /\ "HIGH_QUEUE" \in QueueFlag /\ SchedInv
      BY <3>1 DEF Asleep, QueueFlag, SemInv
    <3>3. \A x \in Process : /\ InPlace(x)' <=> InPlace(x)
                             /\ Asleep(x)' <=> Asleep(x) /\ x # y
      BY <3>1, <3>2, UnblockMoves
    <3>4. UNCHANGED <<scheduled_proc, state, remaining>>
      BY <3>1 DEF Unblock
    <3> QED BY <3>1, <3>3, <3>4
  <2> QED BY <1>2, <2>1, <2>2, VWaits
<1>5. \A x \in Process : x # NULL
  BY NullAssumption
<1>6. /\ DiskP!DiskInv' /\ FilesP!FileInv' /\ MemP!MemInv'
      /\ disk_req' = NULL /\ freeing' = MemP!no_call /\ UNCHANGED <<loading, terminal>>
      /\ ThreadTypes' /\ LifeInv'
      /\ \A x \in Process : /\ DiskP!InPending(x)' <=> DiskP!InPending(x)
                            /\ ~InSysCall(x)
  BY <1>1, <1>3, <1>4, ExecuteLeaves
<1>7. CallInv' /\ SliceInv'
  BY <1>1, <1>4, <1>5, <1>6 DEF CallInv, SliceInv, SliceBegins, Busy
<1>8. SleepInv'
  BY <1>1, <1>4, <1>6 DEF SleepInv, InSysCall
<1> QED BY <1>2, <1>3, <1>6, <1>7, <1>8

LEMMA ExecuteKernelInv ==
    ASSUME KernelInv, NEW p \in Process, cpu_execute(p)
    PROVE  KernelInv' /\ (SemNext \/ UNCHANGED sched_vars)
<1>1. PICK instr \in fetched(p) :
        /\ eval(p, instr)
        /\ strayed' = IF ~written(p) /\ instr.op \in {"SEM_P", "SEM_V"}
                        THEN strayed \cup {instr.sem} ELSE strayed
  BY DEF cpu_execute
<1>2. may_execute(p) /\ fetch(p)
  BY DEF cpu_execute
<1>3. strayed' \subseteq Sem
  BY <1>1, <1>2, FetchedInstr DEF KernelInv, ThreadTypes
<1> QED BY <1>1, <1>2, <1>3, ExecInv, RequestIoInv, SemPInv, SemVInv DEF eval, SemNext

-----------------------------------------------------------------------------
(* The CPU thread goes on with a call                                      *)

LEMMA EvalSemaphoreChargeInv ==
    ASSUME KernelInv, eval_semaphore_charge
    PROVE  KernelInv' /\ (OtherCall \/ UNCHANGED sched_vars)
<1> USE DEF KernelInv
<1>1. PICK p \in Process : p = cpu.proc
  BY DEF eval_semaphore_charge, ThreadTypes
<1>2. /\ cpu.at = "semaphore"
      /\ IF cpu.instr.op = "SEM_P" /\ state[p] = "BLOCKED"
           THEN UNCHANGED sched_vars ELSE charge_semaphore(p, SEMAPHORE_TIME)
      /\ cpu' = [at |-> "check", proc |-> NULL, instr |-> NoInstr]
      /\ UNCHANGED <<sem_vars, proc_vars, terminal, disk_vars, file_vars, mem_vars>>
  BY <1>1 DEF eval_semaphore_charge, cpu_goes_on, cpu_goes
<1>3. ~(cpu.instr.op = "SEM_P" /\ state[p] = "BLOCKED") => scheduled_proc = p
  <2>1. Waits(p) => state[p] = "BLOCKED"
    BY OnePlaceEach DEF SemInv, SleepInv
  <2> QED BY <1>1, <1>2, <2>1 DEF CallInv, Busy
<1>4. remaining[p] >= 0
  BY <1>1, <1>2 DEF SliceInv, SliceBegins, Busy
<1>5. OtherCall \/ UNCHANGED sched_vars
  BY <1>2, <1>3, <1>4, CostAssumption DEF OtherCall, Charge
<1>6. /\ SemInv' /\ registered' = registered
      /\ \A x \in Process : Waits(x)' <=> Waits(x)
  BY <1>2, <1>5, OtherCallStands, SemStands DEF sem_vars
<1>7. UNCHANGED <<scheduled_proc, queue_vars, state>>
  BY <1>2 DEF charge_semaphore, sched_vars, queue_vars
<1>8. /\ DiskP!DiskInv' /\ FilesP!FileInv' /\ MemP!MemInv'
      /\ UNCHANGED <<disk_req, loading, freeing>>
  BY <1>2, DiskStands, FileSteps, MemStands
<1>9. ASSUME NEW x \in Process
      PROVE  /\ InPlace(x)' <=> InPlace(x)
             /\ Asleep(x)' <=> Asleep(x)
             /\ DiskP!InPending(x)' <=> DiskP!InPending(x)
             /\ MemP!Loaded(x)' <=> MemP!Loaded(x)
             /\ UNCHANGED <<scheduled_proc, state>>
             /\ x # NULL
  BY <1>2, <1>7, SchedStands, DiskStands, MemStands, NullAssumption
<1>10. ThreadTypes'
  BY <1>2 DEF ThreadTypes, Places, Instr, proc_vars
<1>11. CallInv' /\ SliceInv' /\ SleepInv'
  <2>1. CallInv'
    BY <1>2, <1>6, <1>8, <1>9 DEF CallInv, Busy
  <2>2. SliceInv'
    BY <1>2, <1>6, <1>8, <1>9 DEF SliceInv, SliceBegins, Busy
  <2>3. SleepInv'
    BY <1>2, <1>6, <1>8, <1>9 DEF SleepInv, InSysCall
  <2> QED BY <2>1, <2>2, <2>3
<1>12. LifeInv'
  BY <1>2, <1>6, <1>9 DEF LifeInv, Creating, Busy, proc_vars
<1> QED BY <1>5, <1>6, <1>8, <1>10, <1>11, <1>12

LEMMA SyscallDiskRequestInv ==
    ASSUME KernelInv, syscall_disk_request
    PROVE  KernelInv' /\ UNCHANGED sched_vars
<1> USE DEF KernelInv
<1>1. PICK p \in Process : p = cpu.proc
  BY DEF syscall_disk_request, ThreadTypes
<1>2. /\ cpu.at = "disk_request"
      /\ HardDisk!disk_request_create(p, cpu.instr.value)
      /\ cpu' = [at |-> "disk_add", proc |-> p, instr |-> cpu.instr]
      /\ UNCHANGED <<sched_vars, sem_vars, proc_vars, terminal, file_vars, mem_vars>>
  BY <1>1 DEF syscall_disk_request, cpu_goes
<1>3. /\ cpu.instr.op \in {"READ", "WRITE"} /\ cpu.instr.value \in 0..DISK_TRACK_LIMIT
      /\ cpu.instr \in Instr /\ disk_req = NULL
  BY <1>2, Operands DEF CallInv, ThreadTypes
<1>4. InSysCall(p) /\ ~DiskP!InPending(p)
  BY <1>1, <1>2 DEF SleepInv, InSysCall
<1>5. /\ DiskP!DiskInv'
      /\ disk_req' # NULL
      /\ disk_req'.process = p /\ disk_req'.track = cpu.instr.value
      /\ disk_req'.turnaround \in Charges
      /\ \A q \in Process : DiskP!InPending(q)' <=> DiskP!InPending(q)
  BY <1>2, <1>3, <1>4, DiskRequestStep
<1>6. /\ SemInv' /\ FilesP!FileInv' /\ MemP!MemInv'
      /\ UNCHANGED <<loading, freeing>>
  BY <1>2, SemStands, FileSteps, MemStands
<1>7. ASSUME NEW x \in Process
      PROVE  /\ InPlace(x)' <=> InPlace(x)
             /\ Asleep(x)' <=> Asleep(x)
             /\ Waits(x)' <=> Waits(x)
             /\ MemP!Loaded(x)' <=> MemP!Loaded(x)
             /\ UNCHANGED <<scheduled_proc, state, remaining, registered>>
             /\ x # NULL
  BY <1>2, SchedStands, SemStands, MemStands, NullAssumption DEF sched_vars, queue_vars, sem_vars
<1>8. ThreadTypes'
  BY <1>2, <1>3, <1>7 DEF ThreadTypes, Places, proc_vars
<1>9. CallInv' /\ SliceInv' /\ SleepInv'
  <2>1. CallInv'
    BY <1>1, <1>2, <1>3, <1>5, <1>6, <1>7 DEF CallInv, Busy
  <2>2. SliceInv'
    BY <1>1, <1>2, <1>3, <1>5, <1>7 DEF SliceInv, SliceBegins, Busy
  <2>3. SleepInv'
    BY <1>1, <1>2, <1>3, <1>5, <1>7 DEF SleepInv, InSysCall
  <2> QED BY <2>1, <2>2, <2>3
<1>10. LifeInv'
  BY <1>2, <1>7 DEF LifeInv, Creating, Busy, proc_vars
<1> QED BY <1>2, <1>5, <1>6, <1>8, <1>9, <1>10

(* From here on the process sleeps for the disk, and no longer in the call. *)
LEMMA SyscallDiskAddInv ==
    ASSUME KernelInv, syscall_disk_add
    PROVE  KernelInv' /\ OtherCall
<1> USE DEF KernelInv
<1>1. PICK p \in Process : p = cpu.proc
  BY DEF syscall_disk_add, ThreadTypes
<1>2. /\ cpu.at = "disk_add"
      /\ HardDisk!disk_request_add
      /\ charge(p, disk_req.turnaround)
      /\ Files!fs_request(p, disk_req.track)
      /\ cpu' = [at |-> "check", proc |-> NULL, instr |-> NoInstr]
      /\ UNCHANGED <<sem_vars, proc_vars, terminal, mem_vars>>
  BY <1>1 DEF syscall_disk_add, cpu_goes_on, cpu_goes
<1>3. /\ disk_req # NULL /\ disk_req.process = p
      /\ disk_req.track \in 0..DISK_TRACK_LIMIT
      /\ disk_req.turnaround \in Charges
  BY <1>1, <1>2 DEF CallInv
<1>4. InSysCall(p) /\ Asleep(p) /\ ~Waits(p) /\ remaining[p] >= 0
  BY <1>1, <1>2 DEF SleepInv, SliceInv, InSysCall, Busy
<1>5. OtherCall
  BY <1>2, <1>3, <1>4 DEF OtherCall, Charge, Asleep
<1>6. /\ DiskP!DiskInv' /\ disk_req' = NULL
      /\ \A x \in Process : DiskP!InPending(x)' <=> DiskP!InPending(x) \/ x = p
  BY <1>2, <1>3, DiskAddStep
<1>7. /\ SemInv' /\ FilesP!FileInv' /\ MemP!MemInv'
      /\ UNCHANGED <<loading, freeing>>
  BY <1>2, <1>3, <1>5, OtherCallStands, FileSteps, MemStands
<1>8. ASSUME NEW x \in Process
      PROVE  /\ InPlace(x)' <=> InPlace(x)
             /\ Asleep(x)' <=> Asleep(x)
             /\ Waits(x)' <=> Waits(x)
             /\ MemP!Loaded(x)' <=> MemP!Loaded(x)
             /\ UNCHANGED <<scheduled_proc, state, registered>>
             /\ x # NULL
  BY <1>2, <1>5, SchedStands, OtherCallStands, MemStands, NullAssumption DEF charge
<1>9. ThreadTypes'
  BY <1>2 DEF ThreadTypes, Places, Instr, proc_vars
<1>10. CallInv' /\ SliceInv' /\ SleepInv'
  <2>1. CallInv'
    BY <1>1, <1>2, <1>4, <1>6, <1>7, <1>8 DEF CallInv, Busy
  <2>2. SliceInv'
    BY <1>1, <1>2, <1>4, <1>6, <1>8 DEF SliceInv, SliceBegins, Busy
  <2>3. SleepInv'
    BY <1>1, <1>2, <1>4, <1>6, <1>8 DEF SleepInv, InSysCall
  <2> QED BY <2>1, <2>2, <2>3
<1>11. LifeInv'
  BY <1>2, <1>8 DEF LifeInv, Creating, Busy, proc_vars
<1> QED BY <1>5, <1>6, <1>7, <1>9, <1>10, <1>11

LEMMA SyscallPrintInv ==
    ASSUME KernelInv, syscall_print
    PROVE  KernelInv' /\ OtherCall
<1> USE DEF KernelInv
<1>1. PICK p \in Process : p = cpu.proc
  BY DEF syscall_print, ThreadTypes
<1>2. /\ cpu.at = "print"
      /\ charge(p, cpu.instr.value)
      /\ cpu' = [at |-> "print_finish", proc |-> p, instr |-> cpu.instr]
      /\ UNCHANGED <<sem_vars, proc_vars, terminal, disk_vars, file_vars, mem_vars>>
  BY <1>1 DEF syscall_print, cpu_goes
<1>3. cpu.instr \in Instr /\ cpu.instr.value \in Charges
  BY <1>2, Operands DEF CallInv, ThreadTypes
<1>4. Asleep(p) /\ remaining[p] >= 0
  BY <1>1, <1>2 DEF SleepInv, SliceInv, InSysCall, Busy
<1>5. OtherCall
  BY <1>2, <1>3, <1>4 DEF OtherCall, Charge, Asleep
<1>6. /\ SemInv' /\ DiskP!DiskInv' /\ FilesP!FileInv' /\ MemP!MemInv'
      /\ UNCHANGED <<disk_req, loading, freeing>>
  BY <1>2, <1>5, OtherCallStands, DiskStands, FileSteps, MemStands
<1>7. ASSUME NEW x \in Process
      PROVE  /\ InPlace(x)' <=> InPlace(x)
             /\ Asleep(x)' <=> Asleep(x)
             /\ Waits(x)' <=> Waits(x)
             /\ DiskP!InPending(x)' <=> DiskP!InPending(x)
             /\ MemP!Loaded(x)' <=> MemP!Loaded(x)
             /\ UNCHANGED <<scheduled_proc, state, registered>>
             /\ x # NULL
  BY <1>2, <1>5, SchedStands, OtherCallStands, DiskStands, MemStands, NullAssumption DEF charge
<1>8. ThreadTypes'
  BY <1>2, <1>3, <1>7 DEF ThreadTypes, Places, proc_vars
<1>9. CallInv' /\ SliceInv' /\ SleepInv'
  <2>1. CallInv'
    BY <1>1, <1>2, <1>6, <1>7 DEF CallInv, Busy
  <2>2. SliceInv'
    BY <1>1, <1>2, <1>6, <1>7 DEF SliceInv, SliceBegins, Busy
  <2>3. SleepInv'
    BY <1>1, <1>2, <1>6, <1>7 DEF SleepInv, InSysCall
  <2> QED BY <2>1, <2>2, <2>3
<1>10. LifeInv'
  BY <1>2, <1>7 DEF LifeInv, Creating, Busy, proc_vars
<1> QED BY <1>5, <1>6, <1>8, <1>9, <1>10

LEMMA PrintFinishInv ==
    ASSUME KernelInv, interrupt_print_finish
    PROVE  KernelInv' /\ OtherCall
<1> USE DEF KernelInv
<1>1. PICK p \in Process : p = cpu.proc
  BY DEF interrupt_print_finish, ThreadTypes
<1>2. /\ cpu.at = "print_finish"
      /\ Unblock(p, "LOW_QUEUE") /\ "LOW_QUEUE" \in QueueFlag
      /\ cpu' = [at |-> "check", proc |-> NULL, instr |-> NoInstr]
      /\ UNCHANGED <<sem_vars, proc_vars, terminal, disk_vars, file_vars, mem_vars>>
  BY <1>1 DEF interrupt_print_finish, Unblock, QueueFlag, cpu_goes_on, cpu_goes
<1>3. InSysCall(p) /\ Asleep(p) /\ ~Waits(p) /\ ~DiskP!InPending(p)
  BY <1>1, <1>2 DEF SleepInv, InSysCall
<1>4. OtherCall
  BY <1>2, <1>3 DEF OtherCall
<1>5. /\ SemInv' /\ DiskP!DiskInv' /\ FilesP!FileInv' /\ MemP!MemInv'
      /\ UNCHANGED <<disk_req, loading, freeing>>
  BY <1>2, <1>4, OtherCallStands, DiskStands, FileSteps, MemStands
<1>6. ASSUME NEW x \in Process
      PROVE  /\ InPlace(x)' <=> InPlace(x)
             /\ Asleep(x)' <=> Asleep(x) /\ x # p
             /\ Waits(x)' <=> Waits(x)
             /\ DiskP!InPending(x)' <=> DiskP!InPending(x)
             /\ MemP!Loaded(x)' <=> MemP!Loaded(x)
             /\ UNCHANGED <<scheduled_proc, state, remaining, registered>>
             /\ x # NULL
  BY <1>2, <1>3, <1>4, UnblockMoves, OtherCallStands, DiskStands, MemStands, NullAssumption
     DEF SemInv
<1>7. ThreadTypes'
  BY <1>2 DEF ThreadTypes, Places, Instr, proc_vars
<1>8. CallInv' /\ SliceInv' /\ SleepInv'
  <2>1. CallInv'
    BY <1>1, <1>2, <1>3, <1>5, <1>6 DEF CallInv, Busy
  <2>2. SliceInv'
    BY <1>1, <1>2, <1>3, <1>5, <1>6 DEF SliceInv, SliceBegins, Busy
  <2>3. SleepInv'
    BY <1>1, <1>2, <1>3, <1>5, <1>6 DEF SleepInv, InSysCall
  <2> QED BY <2>1, <2>2, <2>3
<1>9. LifeInv'
  BY <1>2, <1>6 DEF LifeInv, Creating, Busy, proc_vars
<1> QED BY <1>4, <1>5, <1>7, <1>8, <1>9

-----------------------------------------------------------------------------
(* The disk thread *)

(* The process the request was for is asleep for it, and so for nothing    *)
(* else.                                                                   *)
LEMMA DiskFinishInv ==
    ASSUME KernelInv, disk_finish
    PROVE  KernelInv' /\ OtherCall
<1> USE DEF KernelInv
<1>1. /\ DiskP!DiskInv' /\ disk_req' = disk_req
      /\ HardDisk!served_process \in Process
      /\ DiskP!InPending(HardDisk!served_process)
      /\ \A x \in Process : DiskP!InPending(x)' <=> /\ DiskP!InPending(x)
                                                    /\ x # HardDisk!served_process
  BY DiskFinishStep DEF disk_finish
<1>2. PICK p \in Process : p = HardDisk!served_process
  BY <1>1
<1>3. /\ Unblock(p, "LOW_QUEUE") /\ "LOW_QUEUE" \in QueueFlag
      /\ UNCHANGED <<sem_vars, proc_vars, cpu, terminal, file_vars, mem_vars>>
  BY <1>2 DEF disk_finish, Unblock, QueueFlag, not_disk_vars
<1>4. Asleep(p) /\ ~Waits(p) /\ ~InSysCall(p) /\ DiskP!InPending(p)
  BY <1>1, <1>2 DEF SleepInv
<1>5. OtherCall
  BY <1>3, <1>4 DEF OtherCall
<1>6. /\ SemInv' /\ FilesP!FileInv' /\ MemP!MemInv'
      /\ UNCHANGED <<loading, freeing>>
  BY <1>3, <1>5, OtherCallStands, FileSteps, MemStands
<1>7. ASSUME NEW x \in Process
      PROVE  /\ InPlace(x)' <=> InPlace(x)
             /\ Asleep(x)' <=> Asleep(x) /\ x # p
             /\ Waits(x)' <=> Waits(x)
             /\ DiskP!InPending(x)' <=> DiskP!InPending(x) /\ x # p
             /\ MemP!Loaded(x)' <=> MemP!Loaded(x)
             /\ UNCHANGED <<scheduled_proc, state, remaining, registered>>
  BY <1>1, <1>2, <1>3, <1>4, <1>5, UnblockMoves, OtherCallStands, MemStands DEF SemInv
<1>8. ThreadTypes'
  BY <1>3 DEF ThreadTypes, proc_vars
<1>9. CallInv' /\ SliceInv' /\ SleepInv'
  <2>1. CallInv'
    BY <1>1, <1>3, <1>4, <1>6, <1>7 DEF CallInv, Busy
  <2>2. SliceInv'
    BY <1>1, <1>3, <1>4, <1>7 DEF SliceInv, SliceBegins, Busy
  <2>3. SleepInv'
    BY <1>1, <1>3, <1>4, <1>7 DEF SleepInv, InSysCall
  <2> QED BY <2>1, <2>2, <2>3
<1>10. LifeInv'
  BY <1>3, <1>7 DEF LifeInv, Creating, Busy, proc_vars
<1> QED BY <1>1, <1>5, <1>6, <1>8, <1>9, <1>10

LEMMA DiskWalkInv ==
    ASSUME KernelInv, disk_seek \/ disk_remove \/ disk_move
    PROVE  KernelInv' /\ UNCHANGED sched_vars
<1> USE DEF KernelInv
<1>1. UNCHANGED <<sched_vars, sem_vars, proc_vars, cpu, terminal, file_vars, mem_vars>>
  BY DEF disk_seek, disk_remove, disk_move, not_disk_vars
<1>2. /\ DiskP!DiskInv' /\ disk_req' = disk_req
      /\ \A x \in Process : DiskP!InPending(x)' <=> DiskP!InPending(x)
  BY DiskWalkStep DEF disk_seek, disk_remove, disk_move
<1>3. /\ SemInv' /\ FilesP!FileInv' /\ MemP!MemInv'
      /\ UNCHANGED <<loading, freeing>>
  BY <1>1, SemStands, FileSteps, MemStands
<1>4. ASSUME NEW x \in Process
      PROVE  /\ InPlace(x)' <=> InPlace(x)
             /\ Asleep(x)' <=> Asleep(x)
             /\ Waits(x)' <=> Waits(x)
             /\ MemP!Loaded(x)' <=> MemP!Loaded(x)
             /\ UNCHANGED <<scheduled_proc, state, remaining, registered>>
  BY <1>1, SchedStands, SemStands, MemStands DEF sched_vars, queue_vars, sem_vars
<1>5. ThreadTypes'
  BY <1>1 DEF ThreadTypes, proc_vars
<1>6. CallInv' /\ SliceInv' /\ SleepInv'
  <2>1. CallInv'
    BY <1>1, <1>2, <1>3, <1>4 DEF CallInv, Busy
  <2>2. SliceInv'
    BY <1>1, <1>2, <1>4 DEF SliceInv, SliceBegins, Busy
  <2>3. SleepInv'
    BY <1>1, <1>2, <1>4 DEF SleepInv, InSysCall
  <2> QED BY <2>1, <2>2, <2>3
<1>7. LifeInv'
  BY <1>1, <1>4 DEF LifeInv, Creating, Busy, proc_vars
<1> QED BY <1>1, <1>2, <1>3, <1>5, <1>6, <1>7

-----------------------------------------------------------------------------
(* Every step, and what it is to the scheduler.                            *)

LEMMA NextKernelInv ==
    ASSUME KernelInv, KernelNext
    PROVE  KernelInv' /\ (SemNext \/ UNCHANGED sched_vars)
<1>1. ASSUME NEW p \in Process, create_parse(p)
      PROVE  KernelInv' /\ UNCHANGED sched_vars
  BY <1>1, CreateParseInv DEF create_parse
<1>2. ASSUME CreateStep
      PROVE  KernelInv' /\ (SemNext \/ UNCHANGED sched_vars)
  BY <1>2, CreateLoadInv, CreatePcbInv, CreateReadyInv
     DEF CreateStep, create_load, create_pcb, SemNext
<1>3. ASSUME CpuStep
      PROVE  KernelInv' /\ (SemNext \/ UNCHANGED sched_vars)
  BY <1>3, DispatchKernelInv, ExecuteKernelInv, InterruptKernelInv, FinishPcbInv,
     EvalSemaphoreChargeInv, SyscallDiskRequestInv, SyscallDiskAddInv, SyscallPrintInv,
     PrintFinishInv, FinishScheduleInv, FinishReleaseInv, FinishRemainingInv, FinishFreeInv
     DEF CpuStep, SemNext
<1>4. ASSUME DiskStep
      PROVE  KernelInv' /\ (SemNext \/ UNCHANGED sched_vars)
  BY <1>4, DiskFinishInv, DiskWalkInv DEF DiskStep, SemNext
<1> QED BY <1>1, <1>2, <1>3, <1>4 DEF KernelNext

LEMMA StutterKernelInv ==
    ASSUME KernelInv, UNCHANGED kernel_vars
    PROVE  KernelInv'
<1> USE DEF KernelInv
<1>1. UNCHANGED <<sched_vars, sem_vars, proc_vars, cpu, terminal, disk_vars, file_vars, mem_vars>>
  BY DEF kernel_vars
<1>2. /\ SemInv' /\ DiskP!DiskInv' /\ FilesP!FileInv' /\ MemP!MemInv'
      /\ UNCHANGED <<disk_req, loading, freeing>>
  BY <1>1, SemStands, DiskStands, FileSteps, MemStands
<1>3. ASSUME NEW x \in Process
      PROVE  /\ InPlace(x)' <=> InPlace(x)
             /\ Asleep(x)' <=> Asleep(x)
             /\ Waits(x)' <=> Waits(x)
             /\ DiskP!InPending(x)' <=> DiskP!InPending(x)
             /\ MemP!Loaded(x)' <=> MemP!Loaded(x)
             /\ UNCHANGED <<scheduled_proc, state, remaining, registered>>
  BY <1>1, SchedStands, SemStands, DiskStands, MemStands DEF sched_vars, queue_vars, sem_vars
<1>4. ThreadTypes'
  BY <1>1 DEF ThreadTypes, proc_vars
<1>5. CallInv' /\ SliceInv' /\ SleepInv'
  <2>1. CallInv'
    BY <1>1, <1>2, <1>3 DEF CallInv, Busy
  <2>2. SliceInv'
    BY <1>1, <1>2, <1>3 DEF SliceInv, SliceBegins, Busy
  <2>3. SleepInv'
    BY <1>1, <1>2, <1>3 DEF SleepInv, InSysCall
  <2> QED BY <2>1, <2>2, <2>3
<1>6. LifeInv'
  BY <1>1, <1>3 DEF LifeInv, Creating, Busy, proc_vars
<1> QED BY <1>2, <1>4, <1>5, <1>6

LEMMA KernelInvariant == KernelSafety => []KernelInv
<1>1. KernelInv /\ [KernelNext]_kernel_vars => KernelInv'
  BY NextKernelInv, StutterKernelInv
<1> QED BY <1>1, InitKernelInv, PTL DEF KernelSafety

-----------------------------------------------------------------------------
(* Mutual exclusion: who holds a semaphore                                 *)

OccursAt(p, i, op, s) == Program[p][i].op = op /\ Program[p][i].sem = s

LEMMA OccursFinite ==
    ASSUME NEW p \in Process, NEW k \in Nat, NEW op, NEW s
    PROVE  /\ IsFiniteSet({i \in 1..k \cap DOMAIN Program[p] :
                             Program[p][i].op = op /\ Program[p][i].sem = s})
           /\ Occurs(p, k, op, s) \in Nat
<1> DEFINE Found == {i \in 1..k \cap DOMAIN Program[p] :
                       Program[p][i].op = op /\ Program[p][i].sem = s}
<1>1. IsFiniteSet(1..k) /\ Found \in SUBSET (1..k)
  BY FS_Interval
<1>2. IsFiniteSet(Found)
  BY <1>1, FS_Subset
<1> QED BY <1>2, FS_CardinalityType DEF Occurs

LEMMA OccursNext ==
    ASSUME NEW p \in Process, NEW k \in Nat, NEW op, NEW s
    PROVE  Occurs(p, k + 1, op, s) =
             IF k < Len(Program[p]) /\ OccursAt(p, k + 1, op, s)
               THEN Occurs(p, k, op, s) + 1 ELSE Occurs(p, k, op, s)
<1> DEFINE Found(n) == {i \in 1..n \cap DOMAIN Program[p] :
                          Program[p][i].op = op /\ Program[p][i].sem = s}
<1>1. DOMAIN Program[p] = 1..Len(Program[p]) /\ Len(Program[p]) \in Nat
  BY ProgramAssumption
<1>2. IsFiniteSet(Found(k)) /\ k + 1 \notin Found(k)
  <2>1. k + 1 \notin Found(k)
    OBVIOUS
  <2> QED BY <2>1, OccursFinite
<1>3. CASE k < Len(Program[p]) /\ OccursAt(p, k + 1, op, s)
  <2>1. Found(k + 1) = Found(k) \cup {k + 1}
    BY <1>1, <1>3 DEF OccursAt
  <2>2. Cardinality(Found(k + 1)) = Cardinality(Found(k)) + 1
    BY <1>2, <2>1, FS_AddElement
  <2> QED BY <1>3, <2>2 DEF Occurs
<1>4. CASE ~(k < Len(Program[p]) /\ OccursAt(p, k + 1, op, s))
  <2>1. Found(k + 1) = Found(k)
    BY <1>1, <1>4 DEF OccursAt
  <2> QED BY <1>4, <2>1 DEF Occurs
<1> QED BY <1>3, <1>4

(* A program that has not begun, or does not name s, has taken nothing.    *)
LEMMA TookNothing ==
    ASSUME NEW p \in Process, NEW k \in Nat, NEW s, k = 0 \/ s \notin sems_of(p)
    PROVE  Took(p, k, s) = 0
<1>1. ASSUME NEW op \in {"SEM_P", "SEM_V"} PROVE Occurs(p, k, op, s) = 0
  <2>1. {i \in 1..k \cap DOMAIN Program[p] :
            Program[p][i].op = op /\ Program[p][i].sem = s} = {}
    BY DEF sems_of
  <2> QED BY <2>1, FS_EmptySet DEF Occurs
<1> QED BY <1>1 DEF Took

LEMMA TookWithin ==
    ASSUME NEW p \in Process, NEW k \in Nat, NEW s \in Bracketed
    PROVE  Took(p, k, s) \in {0, 1}
<1>1. DOMAIN Program[p] = 1..Len(Program[p]) /\ Len(Program[p]) \in Nat
  BY ProgramAssumption
<1>2. CASE k <= Len(Program[p])
  BY <1>1, <1>2 DEF Bracketed
<1>3. CASE k > Len(Program[p])
  <2>1. 1..k \cap DOMAIN Program[p] = 1..Len(Program[p]) \cap DOMAIN Program[p]
    BY <1>1, <1>3
  <2>2. \A op : Occurs(p, k, op, s) = Occurs(p, Len(Program[p]), op, s)
    BY <2>1 DEF Occurs
  <2>3. Took(p, k, s) = Took(p, Len(Program[p]), s)
    BY <2>2 DEF Took
  <2>4. Len(Program[p]) \in 0..Len(Program[p])
    BY <1>1
  <2> QED BY <2>3, <2>4 DEF Bracketed
<1> QED BY <1>1, <1>2, <1>3

(* One more instruction takes a unit, gives it back, or leaves s alone.    *)
LEMMA TookNext ==
    ASSUME NEW p \in Process, NEW k \in Nat, NEW s \in Bracketed, NEW instr \in Instr,
           k < Len(Program[p]) => instr = Program[p][k + 1]
    PROVE  /\ k < Len(Program[p]) /\ instr.op = "SEM_P" /\ instr.sem = s =>
                Took(p, k, s) = 0 /\ Took(p, k + 1, s) = 1
           /\ k < Len(Program[p]) /\ instr.op = "SEM_V" /\ instr.sem = s =>
                Took(p, k, s) = 1 /\ Took(p, k + 1, s) = 0
           /\ ~(k < Len(Program[p])) \/ instr.op \notin {"SEM_P", "SEM_V"} \/ instr.sem # s =>
                Took(p, k + 1, s) = Took(p, k, s)
<1> DEFINE written_here == k < Len(Program[p])
           Does(op) == written_here /\ OccursAt(p, k + 1, op, s)
<1>1. \A op \in {"SEM_P", "SEM_V"} :
        Does(op) <=> written_here /\ instr.op = op /\ instr.sem = s
  BY DEF OccursAt
<1>2. \A op : /\ Occurs(p, k, op, s) \in Nat
              /\ Occurs(p, k + 1, op, s) = IF Does(op) THEN Occurs(p, k, op, s) + 1
                                                       ELSE Occurs(p, k, op, s)
  BY OccursFinite, OccursNext
<1>3. k + 1 \in Nat /\ Took(p, k, s) \in {0, 1} /\ Took(p, k + 1, s) \in {0, 1}
  BY TookWithin
<1> HIDE DEF Does
<1>4. \A op : Does(op) => Occurs(p, k + 1, op, s) = Occurs(p, k, op, s) + 1
  BY <1>2
<1>5. \A op : ~Does(op) => Occurs(p, k + 1, op, s) = Occurs(p, k, op, s)
  BY <1>2
<1>6. CASE written_here /\ instr.op = "SEM_P" /\ instr.sem = s
  BY <1>1, <1>2, <1>3, <1>4, <1>5, <1>6 DEF Took
<1>7. CASE written_here /\ instr.op = "SEM_V" /\ instr.sem = s
  BY <1>1, <1>2, <1>3, <1>4, <1>5, <1>7 DEF Took
<1>8. CASE ~written_here \/ instr.op \notin {"SEM_P", "SEM_V"} \/ instr.sem # s
  BY <1>1, <1>5, <1>8 DEF Took
<1> QED BY <1>6, <1>7, <1>8

(* A process owns a unit that a P has given it, at once or after a sleep.  *)
Owns(p, s) == Took(p, pc[p], s) = 1 /\ ~WaitsFor(p, s)

OwnedOnce(s) ==
    /\ \A p \in Process : WaitsFor(p, s) => Took(p, pc[p], s) = 1
    /\ \A p, q \in Process : Owns(p, s) /\ Owns(q, s) => p = q
    /\ S[s] <= 1
    /\ S[s] > 0 <=> \A p \in Process : ~Owns(p, s)

(* The value of a semaphore is 1 less those that own or wait for it, and   *)
(* so a P that does not sleep finds nobody who owns it.  A process that    *)
(* has not been created has run nothing: read_semaphores may register what *)
(* its program names, and finds it free.                                   *)
MutexInv ==
    /\ \A p \in Process : proc_memory[p] = "none" => pc[p] = 0
    /\ \A s \in (registered \cap Bracketed) \ strayed : OwnedOnce(s)

(* Most steps run no instruction and touch no semaphore.                   *)
LEMMA MutexStands ==
    ASSUME KernelInv, MutexInv, UNCHANGED <<pc, sem_vars, strayed>>,
           proc_memory' \in [Process -> {"none", "allocated", "freed"}],
           \A p \in Process : proc_memory'[p] = "none" => proc_memory[p] = "none"
    PROVE  MutexInv'
<1>1. UNCHANGED <<registered, S, waiters, pc, strayed>>
  BY DEF sem_vars
<1>2. ASSUME NEW s \in (registered \cap Bracketed) \ strayed PROVE OwnedOnce(s)'
  BY <1>1, <1>2 DEF MutexInv, OwnedOnce, Owns, WaitsFor, In
<1> QED BY <1>1, <1>2 DEF MutexInv

(* The semaphores of a new program                                         *)
LEMMA RegisterMutex ==
    ASSUME KernelInv, MutexInv, NEW p \in Process, create_parse(p)
    PROVE  MutexInv'
<1>1. /\ proc_memory[p] = "none" /\ proc_memory' = [proc_memory EXCEPT ![p] = "allocated"]
      /\ semaphore_register(sems_of(p)) /\ UNCHANGED <<pc, strayed>>
      /\ proc_memory \in [Process -> {"none", "allocated", "freed"}]
      /\ pc \in [Process -> Nat]
  BY DEF create_parse, KernelInv, ThreadTypes
<1>2. registered \subseteq Sem /\ S \in [Sem -> Int] /\ waiters \in [Sem -> Seq(Process)]
  BY DEF KernelInv, SemInv, SemTypeOK
<1>3. ASSUME NEW s \in (registered \cap Bracketed) \ strayed PROVE OwnedOnce(s)'
  <2>1. S'[s] = S[s] /\ waiters'[s] = waiters[s]
    BY <1>1, <1>2 DEF semaphore_register
  <2> QED BY <1>1, <2>1 DEF MutexInv, OwnedOnce, Owns, WaitsFor
<1>4. ASSUME NEW s \in sems_of(p) \ registered, s \in Bracketed \ strayed
      PROVE  OwnedOnce(s)'
  <2>1. s \in Sem
    BY ProgramNames
  <2>2. S'[s] = 1 /\ waiters'[s] = <<>>
    BY <1>1, <2>1 DEF semaphore_register
  <2>3. \A q \in Process : ~WaitsFor(q, s)'
    BY <2>2, EmptyQueue DEF WaitsFor
  <2>4. ASSUME NEW q \in Process PROVE Took(q, pc[q], s) = 0
    <3>1. pc[q] = 0 \/ s \notin sems_of(q)
      BY DEF KernelInv, LifeInv, MutexInv
    <3> QED BY <1>1, <3>1, TookNothing
  <2>5. \A q \in Process : ~Owns(q, s)'
    BY <1>1, <2>4 DEF Owns
  <2> QED BY <2>2, <2>3, <2>5 DEF OwnedOnce
<1>5. registered' = registered \cup sems_of(p)
  BY <1>1 DEF semaphore_register
<1>6. \A q \in Process : proc_memory'[q] = "none" => pc'[q] = 0
  BY <1>1 DEF MutexInv
<1> QED BY <1>1, <1>3, <1>4, <1>5, <1>6 DEF MutexInv

(* The semaphores an instruction leaves alone                              *)
LEMMA OthersMutex ==
    ASSUME KernelInv, MutexInv, NEW p \in Process, pc' = [pc EXCEPT ![p] = @ + 1],
           NEW s \in (registered \cap Bracketed) \ strayed,
           Took(p, pc[p] + 1, s) = Took(p, pc[p], s),
           S'[s] = S[s], waiters'[s] = waiters[s]
    PROVE  OwnedOnce(s)'
<1>1. \A q \in Process : Took(q, pc'[q], s) = Took(q, pc[q], s)
  BY DEF KernelInv, ThreadTypes
<1>2. \A q \in Process : (WaitsFor(q, s)' <=> WaitsFor(q, s))
  BY DEF WaitsFor
<1>3. \A q \in Process : Owns(q, s)' <=> Owns(q, s)
  BY <1>1, <1>2 DEF Owns
<1> QED BY <1>1, <1>2, <1>3 DEF MutexInv, OwnedOnce

LEMMA PMutex ==
    ASSUME KernelInv, MutexInv, NEW p \in Process, scheduled_proc = p,
           pc' = [pc EXCEPT ![p] = @ + 1],
           NEW s \in (registered \cap Bracketed) \ strayed, semaphore_P(s, p),
           Took(p, pc[p], s) = 0, Took(p, pc[p] + 1, s) = 1
    PROVE  OwnedOnce(s)'
<1>1. /\ s \in Sem /\ S \in [Sem -> Int] /\ waiters[s] \in Queue
      /\ waiters \in [Sem -> Seq(Process)]
      /\ Len(waiters[s]) = IF S[s] < 0 THEN -S[s] ELSE 0
      /\ OwnedOnce(s) /\ pc \in [Process -> Nat]
  BY WaitersAreQueues DEF KernelInv, ThreadTypes, MutexInv, SemInv, SemTypeOK
<1>2. S'[s] = S[s] - 1 /\ S[s] \in Int
  BY <1>1 DEF semaphore_P
<1>3. ~WaitsFor(p, s) /\ ~Owns(p, s)
  BY <1>1 DEF OwnedOnce, Owns
<1>4. /\ Took(p, pc'[p], s) = 1
      /\ \A q \in Process \ {p} : Took(q, pc'[q], s) = Took(q, pc[q], s)
  BY <1>1
<1>5. CASE S'[s] < 0
  <2>1. waiters'[s] = Append(waiters[s], p)
    BY <1>1, <1>5 DEF semaphore_P
  <2>2. \A q \in Process : WaitsFor(q, s)' <=> WaitsFor(q, s) \/ q = p
    BY <1>1, <1>3, <2>1, QueueAppend DEF WaitsFor
  <2>3. \A q \in Process : Owns(q, s)' <=> Owns(q, s)
    BY <1>3, <1>4, <2>2 DEF Owns
  <2>4. \A q \in Process : WaitsFor(q, s)' => Took(q, pc'[q], s) = 1
    BY <1>1, <1>4, <2>2 DEF OwnedOnce
  <2>5. ~(S[s] > 0) /\ ~(S'[s] > 0) /\ S'[s] <= 1
    BY <1>2, <1>5
  <2> QED BY <1>1, <2>3, <2>4, <2>5 DEF OwnedOnce
<1>6. CASE ~(S'[s] < 0)
  <2>1. S[s] = 1 /\ S'[s] = 0 /\ waiters'[s] = waiters[s]
    BY <1>1, <1>2, <1>6 DEF OwnedOnce, semaphore_P
  <2>2. \A q \in Process : WaitsFor(q, s)' <=> WaitsFor(q, s)
    BY <2>1 DEF WaitsFor
  <2>3. \A q \in Process : ~Owns(q, s)
    BY <1>1, <2>1 DEF OwnedOnce
  <2>4. \A q \in Process : Owns(q, s)' <=> q = p
    BY <1>3, <1>4, <2>2, <2>3 DEF Owns
  <2>5. \A q \in Process : WaitsFor(q, s)' => Took(q, pc'[q], s) = 1
    BY <1>1, <1>4, <2>2 DEF OwnedOnce
  <2> QED BY <2>1, <2>4, <2>5 DEF OwnedOnce
<1> QED BY <1>5, <1>6

LEMMA VMutex ==
    ASSUME KernelInv, MutexInv, NEW p \in Process, scheduled_proc = p,
           pc' = [pc EXCEPT ![p] = @ + 1],
           NEW s \in (registered \cap Bracketed) \ strayed, semaphore_V(s),
           Took(p, pc[p], s) = 1, Took(p, pc[p] + 1, s) = 0
    PROVE  OwnedOnce(s)'
<1>1. /\ s \in Sem /\ S \in [Sem -> Int] /\ waiters[s] \in Queue
      /\ waiters \in [Sem -> Seq(Process)]
      /\ Len(waiters[s]) = IF S[s] < 0 THEN -S[s] ELSE 0
      /\ OwnedOnce(s) /\ pc \in [Process -> Nat]
  BY WaitersAreQueues DEF KernelInv, ThreadTypes, MutexInv, SemInv, SemTypeOK
<1>2. S'[s] = S[s] + 1 /\ S[s] \in Int
  BY <1>1 DEF semaphore_V
(* A process that runs waits for nothing.                                  *)
<1>3. ~WaitsFor(p, s)
  BY <1>1 DEF KernelInv, SemInv, SchedInv, OnePlace, WaitersSleep
<1>4. /\ Owns(p, s) /\ S[s] <= 0
      /\ \A q \in Process : Owns(q, s) => q = p
  BY <1>1, <1>2, <1>3 DEF OwnedOnce, Owns
<1>5. /\ Took(p, pc'[p], s) = 0
      /\ \A q \in Process \ {p} : Took(q, pc'[q], s) = Took(q, pc[q], s)
  BY <1>1
<1>6. CASE S[s] < 0
  <2>1. waiters[s] # <<>>
    BY <1>1, <1>2, <1>6
  <2>2. PICK h \in Process : h = Head(waiters[s])
    BY <1>1, <2>1, QueueTail
  <2>3. S'[s] <= 0 /\ waiters'[s] = Tail(waiters[s])
    BY <1>1, <1>2, <1>6 DEF semaphore_V
  <2>4. /\ WaitsFor(h, s)
        /\ \A q \in Process : WaitsFor(q, s)' <=> WaitsFor(q, s) /\ q # h
    BY <1>1, <2>1, <2>2, <2>3, QueueTail DEF WaitsFor
  <2>5. h # p /\ Took(h, pc[h], s) = 1
    BY <1>1, <1>3, <2>4 DEF OwnedOnce
  <2>6. \A q \in Process : Owns(q, s)' <=> q = h
    BY <1>4, <1>5, <2>4, <2>5 DEF Owns
  <2>7. \A q \in Process : WaitsFor(q, s)' => Took(q, pc'[q], s) = 1
    BY <1>1, <1>3, <1>5, <2>4 DEF OwnedOnce
  <2>8. S'[s] <= 1 /\ ~(S'[s] > 0)
    BY <1>2, <2>3
  <2> QED BY <2>6, <2>7, <2>8 DEF OwnedOnce
<1>7. CASE S[s] = 0
  <2>1. S'[s] = 1 /\ waiters'[s] = waiters[s]
    BY <1>1, <1>2, <1>7 DEF semaphore_V
  <2>2. \A q \in Process : WaitsFor(q, s)' <=> WaitsFor(q, s)
    BY <2>1 DEF WaitsFor
  <2>3. \A q \in Process : ~Owns(q, s)'
    BY <1>4, <1>5, <2>2 DEF Owns
  <2>4. \A q \in Process : WaitsFor(q, s)' => Took(q, pc'[q], s) = 1
    BY <1>1, <1>3, <1>5, <2>2 DEF OwnedOnce
  <2> QED BY <2>1, <2>3, <2>4 DEF OwnedOnce
<1> QED BY <1>2, <1>4, <1>6, <1>7

(* The instruction of a process that runs                                  *)
LEMMA ExecuteMutex ==
    ASSUME KernelInv, MutexInv, NEW p \in Process, cpu_execute(p)
    PROVE  MutexInv'
<1>1. PICK instr \in fetched(p) :
        /\ eval(p, instr)
        /\ strayed' = IF ~written(p) /\ instr.op \in {"SEM_P", "SEM_V"}
                        THEN strayed \cup {instr.sem} ELSE strayed
  BY DEF cpu_execute
<1>2. /\ may_execute(p) /\ pc' = [pc EXCEPT ![p] = @ + 1]
      /\ UNCHANGED proc_memory
  BY DEF cpu_execute, fetch
<1>3. /\ scheduled_proc = p /\ instr \in Instr
      /\ written(p) <=> pc[p] < Len(Program[p])
      /\ written(p) => instr = Program[p][pc[p] + 1]
      /\ instr.op \in {"SEM_P", "SEM_V"} => instr.sem \in registered \cap Sem
  BY <1>1, <1>2, FetchedInstr
<1>4. pc \in [Process -> Nat] /\ pc[p] \in Nat /\ proc_memory[p] = "allocated"
  BY <1>3 DEF KernelInv, ThreadTypes, LifeInv, InPlace
<1>5. /\ registered' = registered
      /\ S \in [Sem -> Int] /\ waiters \in [Sem -> Seq(Process)] /\ registered \subseteq Sem
  BY <1>1 DEF eval, sem_vars, semaphore_P, semaphore_V, KernelInv, SemInv, SemTypeOK
<1>6. ASSUME NEW s \in (registered \cap Bracketed) \ strayed' PROVE OwnedOnce(s)'
  <2>1. s \in (registered \cap Bracketed) \ strayed
    BY <1>1
  <2>2. /\ written(p) /\ instr.op = "SEM_P" /\ instr.sem = s =>
             Took(p, pc[p], s) = 0 /\ Took(p, pc[p] + 1, s) = 1
        /\ written(p) /\ instr.op = "SEM_V" /\ instr.sem = s =>
             Took(p, pc[p], s) = 1 /\ Took(p, pc[p] + 1, s) = 0
        /\ ~written(p) \/ instr.op \notin {"SEM_P", "SEM_V"} \/ instr.sem # s =>
             Took(p, pc[p] + 1, s) = Took(p, pc[p], s)
    BY <1>3, <1>4, <2>1, TookNext
  <2>3. CASE written(p) /\ instr.op = "SEM_P" /\ instr.sem = s
    <3>1. semaphore_P(s, p)
      BY <1>1, <2>3 DEF eval
    <3> QED BY <1>2, <1>3, <2>1, <2>2, <2>3, <3>1, PMutex
  <2>4. CASE written(p) /\ instr.op = "SEM_V" /\ instr.sem = s
    <3>1. semaphore_V(s)
      BY <1>1, <2>4 DEF eval
    <3> QED BY <1>2, <1>3, <2>1, <2>2, <2>4, <3>1, VMutex
(* What is in no line of the program leaves s alone, too: it would be in   *)
(* strayed.                                                                *)
  <2>5. CASE ~written(p) \/ instr.op \notin {"SEM_P", "SEM_V"} \/ instr.sem # s
    <3>1. instr.op \notin {"SEM_P", "SEM_V"} \/ instr.sem # s
      BY <1>1, <1>6, <2>5
    <3>2. S'[s] = S[s] /\ waiters'[s] = waiters[s]
      BY <1>1, <1>3, <1>5, <3>1 DEF eval, sem_vars, semaphore_P, semaphore_V
    <3> QED BY <1>2, <2>1, <2>2, <2>5, <3>2, OthersMutex
  <2> QED BY <1>3, <2>3, <2>4, <2>5, Operands
<1>7. \A q \in Process : proc_memory'[q] = "none" => pc'[q] = 0
  BY <1>2, <1>4 DEF MutexInv
<1> QED BY <1>5, <1>6, <1>7 DEF MutexInv

LEMMA NextMutex ==
    ASSUME KernelInv, MutexInv, [KernelNext]_kernel_vars
    PROVE  MutexInv'
<1>1. CASE \E p \in Process : create_parse(p)
  BY <1>1, RegisterMutex
<1>2. CASE \E p \in Process : cpu_execute(p)
  BY <1>2, ExecuteMutex
<1>3. CASE finish_free
  <2>1. proc_memory \in [Process -> {"none", "allocated", "freed"}]
    BY DEF KernelInv, ThreadTypes
  <2> QED BY <1>3, <2>1, MutexStands DEF finish_free
<1>4. CASE UNCHANGED <<sem_vars, proc_memory, pc, strayed>>
  BY <1>4, MutexStands DEF KernelInv, ThreadTypes
<1>5. CreateStep => UNCHANGED <<sem_vars, proc_memory, pc, strayed>>
  BY DEF CreateStep, create_load, create_pcb, create_ready, proc_vars
<1>6. CpuStep => \/ UNCHANGED <<sem_vars, proc_memory, pc, strayed>>
                 \/ finish_free \/ \E p \in Process : cpu_execute(p)
  BY DEF CpuStep, cpu_dispatch, cpu_interrupt, finish_pcb, eval_semaphore_charge,
         syscall_disk_request, syscall_disk_add, syscall_print, interrupt_print_finish,
         finish_schedule, finish_release, finish_remaining, proc_vars
<1>7. DiskStep => UNCHANGED <<sem_vars, proc_memory, pc, strayed>>
  BY DEF DiskStep, disk_seek, disk_finish, disk_remove, disk_move, not_disk_vars, proc_vars
<1>8. UNCHANGED kernel_vars => UNCHANGED <<sem_vars, proc_memory, pc, strayed>>
  BY DEF kernel_vars, proc_vars
<1> QED BY <1>1, <1>2, <1>3, <1>4, <1>5, <1>6, <1>7, <1>8 DEF KernelNext

LEMMA MutexInvariant == KernelSafety => [](KernelInv /\ MutexInv)
<1>1. KernelInit => MutexInv
  BY DEF KernelInit, semaphore_table_init, MutexInv
<1>2. KernelInv /\ MutexInv /\ [KernelNext]_kernel_vars => MutexInv'
  BY NextMutex
<1> QED BY <1>1, <1>2, KernelInvariant, PTL DEF KernelSafety

-----------------------------------------------------------------------------
(* What the invariant says of the properties the runs check.               *)

LEMMA SameTypes ==
    /\ DiskP!DiskTypeOK => HardDisk!DiskTypeOK
    /\ FilesP!FileTypeOK => Files!FileTypeOK
    /\ MemP!MemTypeOK => Mem!MemTypeOK
<1>1. DiskP!DiskTypeOK => HardDisk!DiskTypeOK
  BY DEF DiskP!DiskTypeOK, HardDisk!DiskTypeOK, DiskP!DiskRequest, HardDisk!DiskRequest,
         DiskP!Tracks, HardDisk!Tracks, DiskP!DiskThread, HardDisk!DiskThread
<1>2. FilesP!FileTypeOK => Files!FileTypeOK
  BY DEF FilesP!FileTypeOK, Files!FileTypeOK
<1>3. MemP!MemTypeOK => Mem!MemTypeOK
  BY DEF MemP!MemTypeOK, Mem!MemTypeOK, MemP!Segment, Mem!Segment,
         MemP!no_call, Mem!no_call
<1> QED BY <1>1, <1>2, <1>3

LEMMA PendingWakers ==
    ASSUME KernelInv, NEW p \in Process
    PROVE  LET W == {i \in DOMAIN pending_requests :
                       HardDisk!Unserved(i) /\ pending_requests[i].process = p}
           IN  IF DiskP!InPending(p) THEN \E i : W = {i} ELSE W = {}
<1> DEFINE W == {i \in DOMAIN pending_requests :
                   HardDisk!Unserved(i) /\ pending_requests[i].process = p}
<1>1. \A i : i \in W <=> /\ i \in DOMAIN pending_requests
                         /\ DiskP!Unserved(i) /\ pending_requests[i].process = p
  BY DEF HardDisk!Unserved, DiskP!Unserved
<1>2. \A i, j \in W : i = j
  BY <1>1 DEF KernelInv, DiskP!DiskInv, DiskP!OneRequestPerProcess
<1>3. DiskP!InPending(p) <=> W # {}
  BY <1>1 DEF DiskP!InPending
<1> QED BY <1>2, <1>3

LEMMA SemaphoreWakers ==
    ASSUME KernelInv, NEW p \in Process
    PROVE  LET W == {t \in Sem : WaitsFor(p, t)}
           IN  IF Waits(p) THEN \E s : W = {s} ELSE W = {}
<1>1. \A s, t \in Sem : WaitsFor(p, s) /\ WaitsFor(p, t) => s = t
  BY DEF KernelInv, SemInv, WaitersSleep
<1>2. CASE Waits(p)
  <2>1. PICK s \in Sem : WaitsFor(p, s)
    BY <1>2 DEF Waits
  <2>2. {t \in Sem : WaitsFor(p, t)} = {s}
    BY <1>1, <2>1
  <2> QED BY <1>2, <2>2
<1>3. CASE ~Waits(p)
  <2>1. \A t \in Sem : ~WaitsFor(p, t)
    BY <1>3 DEF Waits
  <2> QED BY <1>3, <2>1
<1> QED BY <1>2, <1>3

LEMMA OneWaker ==
    ASSUME KernelInv, NEW p \in Process
    PROVE  IF Asleep(p) THEN \E w : Wakers(p) = {w} ELSE Wakers(p) = {}
<1> DEFINE ByV == {t \in Sem : WaitsFor(p, t)}
           ByDisk == {i \in DOMAIN pending_requests :
                        HardDisk!Unserved(i) /\ pending_requests[i].process = p}
           ByCall == {q \in Process : q = p /\ InSysCall(q)}
<1>1. Wakers(p) = {<<"V", s>> : s \in ByV} \cup {<<"disk", i>> : i \in ByDisk}
                    \cup {<<"call", cpu.at>> : q \in ByCall}
  BY DEF Wakers
<1>2. IF Waits(p) THEN \E s : ByV = {s} ELSE ByV = {}
  BY SemaphoreWakers
<1>3. IF DiskP!InPending(p) THEN \E i : ByDisk = {i} ELSE ByDisk = {}
  BY PendingWakers
<1>4. IF InSysCall(p) THEN ByCall = {p} ELSE ByCall = {}
  OBVIOUS
<1>5. /\ Asleep(p) <=> Waits(p) \/ DiskP!InPending(p) \/ InSysCall(p)
      /\ ~(Waits(p) /\ DiskP!InPending(p))
      /\ ~(InSysCall(p) /\ (Waits(p) \/ DiskP!InPending(p)))
  BY DEF KernelInv, SleepInv
<1> HIDE DEF ByV, ByDisk, ByCall
<1>6. CASE Waits(p)
  <2>1. PICK s : ByV = {s}
    BY <1>2, <1>6
  <2>2. ByDisk = {} /\ ByCall = {}
    BY <1>3, <1>4, <1>5, <1>6
  <2>3. Wakers(p) = {<<"V", s>>}
    BY <1>1, <2>1, <2>2
  <2> QED BY <1>5, <1>6, <2>3
<1>7. CASE DiskP!InPending(p)
  <2>1. PICK i : ByDisk = {i}
    BY <1>3, <1>7
  <2>2. ByV = {} /\ ByCall = {}
    BY <1>2, <1>4, <1>5, <1>7
  <2>3. Wakers(p) = {<<"disk", i>>}
    BY <1>1, <2>1, <2>2
  <2> QED BY <1>5, <1>7, <2>3
<1>8. CASE InSysCall(p)
  <2>1. ByV = {} /\ ByDisk = {} /\ ByCall = {p}
    BY <1>2, <1>3, <1>4, <1>5, <1>8
  <2>2. Wakers(p) = {<<"call", cpu.at>>}
    BY <1>1, <2>1
  <2> QED BY <1>5, <1>8, <2>2
<1>9. CASE ~Waits(p) /\ ~DiskP!InPending(p) /\ ~InSysCall(p)
  <2>1. ByV = {} /\ ByDisk = {} /\ ByCall = {}
    BY <1>2, <1>3, <1>4, <1>9
  <2>2. Wakers(p) = {}
    BY <1>1, <2>1
  <2> QED BY <1>5, <1>9, <2>2
<1> QED BY <1>6, <1>7, <1>8, <1>9

-----------------------------------------------------------------------------
(* All the variables of the three threads and of the components they share *)
(* keep their types, whatever programs run: NULL enters no queue, list of  *)
(* waiters or request, and the memory that is left is never negative.      *)
THEOREM KernelTypes == KernelSafety => []KernelTypeOK
<1>1. KernelInv => KernelTypeOK
  <2> SUFFICES ASSUME KernelInv PROVE KernelTypeOK
    OBVIOUS
  <2>1. SchedTypeOK /\ SemTypeOK
    BY DEF KernelInv, SemInv, SchedInv
  <2>2. HardDisk!DiskTypeOK /\ Files!FileTypeOK /\ Mem!MemTypeOK
    BY SameTypes DEF KernelInv, DiskP!DiskInv, FilesP!FileInv, MemP!MemInv
  <2> QED BY <2>1, <2>2 DEF KernelInv, ThreadTypes, KernelTypeOK
<1> QED BY <1>1, KernelInvariant, PTL

(* Whatever the order in which the three threads call the scheduler, they  *)
(* call it as its specification allows: a process is put into a queue once *)
(* (create_ready), only one that sleeps is woken, a slice is charged while *)
(* it is not overdrawn, and process_finish finds nothing left to remove.   *)
THEOREM KernelImplementsScheduler == KernelSafety => KernelImplementsSched
<1>1. KernelInit => SchedInit
  BY DEF KernelInit
<1>2. KernelInv /\ [KernelNext]_kernel_vars => [SchedNext]_sched_vars
  <2>1. ASSUME KernelInv, KernelNext PROVE SchedNext \/ UNCHANGED sched_vars
    <3>1. SemInv
      BY <2>1 DEF KernelInv
    <3> QED BY <2>1, <3>1, NextKernelInv, SemStepIsSchedStep
  <2>2. ASSUME UNCHANGED kernel_vars PROVE UNCHANGED sched_vars
    BY <2>2 DEF kernel_vars
  <2> QED BY <2>1, <2>2
<1> QED BY <1>1, <1>2, KernelInvariant, PTL DEF KernelSafety, KernelImplementsSched, SchedSpec

(* What holds of the scheduler therefore holds in the kernel: no process   *)
(* overtakes another in a ready queue, and each goes through its life in   *)
(* the order of ProcessLifecycle.                                          *)
THEOREM KernelKeepsOrder == KernelSafety => NoOvertaking /\ ImplementsLifecycle
BY KernelImplementsScheduler, SchedulerKeepsOrder, SchedulerImplementsLifecycle
   DEF KernelImplementsSched

(* The kernel loses no process: one that is in the process table, and past *)
(* its creation, has the CPU or is in a queue (schedule_process, V and the *)
(* interrupt handlers between them always leave it in one).                *)
THEOREM KernelLosesNobody == KernelSafety => []EveryLiveProcessHasAPlace
<1>1. KernelInv => EveryLiveProcessHasAPlace
  <2> SUFFICES ASSUME KernelInv, NEW p \in proc_table, state[p] # "NEW"
               PROVE  scheduled_proc = p \/ Ready(p) \/ In(blocked_queue, p)
    BY DEF EveryLiveProcessHasAPlace
  <2>1. p \in Process
    BY DEF KernelInv, ThreadTypes
  <2>2. InPlace(p)
    BY <2>1 DEF KernelInv, LifeInv, Creating
  <2> QED BY <2>2 DEF InPlace, Asleep
<1> QED BY <1>1, KernelInvariant, PTL

(* A process sleeps exactly while one thing will wake it: the V of one     *)
(* semaphore, one request in the disk's list, or the system call the CPU   *)
(* thread is still in.  DISK_FINISH never answers for another's sleep.     *)
THEOREM KernelWakers == KernelSafety => []EverySleeperHasOneWaker
<1>1. KernelInv => EverySleeperHasOneWaker
  <2> SUFFICES ASSUME KernelInv, NEW p \in Process
               PROVE  IF In(blocked_queue, p) THEN Cardinality(Wakers(p)) = 1
                                              ELSE Wakers(p) = {}
    BY DEF EverySleeperHasOneWaker
  <2> QED BY OneWaker, FS_Singleton DEF Asleep
<1> QED BY <1>1, KernelInvariant, PTL

(* process_finish frees a process_t nobody uses any more: it is in no      *)
(* table, queue, list of waiters or request, and no thread goes on with it.*)
THEOREM KernelNoDangling == KernelSafety => []NoDanglingProcess
<1>1. KernelInv => NoDanglingProcess
  <2> SUFFICES ASSUME KernelInv, NEW p \in Process, proc_memory[p] # "allocated"
               PROVE  /\ p \notin proc_table
                      /\ scheduled_proc # p /\ ~Ready(p) /\ ~In(blocked_queue, p)
                      /\ Wakers(p) = {}
                      /\ cpu.proc # p /\ terminal.proc # p
    BY DEF NoDanglingProcess
  <2>1. /\ terminal.proc # p /\ ~InPlace(p)
        /\ ~Busy(p, {"finish_release", "finish_remaining", "finish_free"})
    BY DEF KernelInv, LifeInv
  <2>2. p \notin proc_table
    BY <2>1 DEF KernelInv, LifeInv, Creating
  <2>3. ~Asleep(p) /\ ~Waits(p) /\ ~InSysCall(p) /\ Wakers(p) = {}
    BY <2>1, OneWaker DEF InPlace, KernelInv, SleepInv
  <2>4. cpu.proc # p
    <3> SUFFICES ASSUME cpu.proc = p PROVE FALSE
      OBVIOUS
    <3>1. p # NULL /\ cpu.at \in Places \ {"begin", "check"}
      BY NullAssumption DEF KernelInv, ThreadTypes
    <3>2. cpu.at \notin {"semaphore", "finish_schedule"}
      BY <2>1, <2>3 DEF KernelInv, CallInv, Busy, InPlace
    <3> QED BY <2>1, <2>3, <3>1, <3>2 DEF Busy, InSysCall, Places
  <2> QED BY <2>1, <2>2, <2>3, <2>4 DEF InPlace, Asleep
<1> QED BY <1>1, KernelInvariant, PTL

(* A process that may run finds its own code: the segment of its id is in  *)
(* the table, and is its own, however creations and ends interleave.       *)
THEOREM KernelRunsOwnCode == KernelSafety => []RunsOwnCode
<1>1. KernelInv => RunsOwnCode
  <2> SUFFICES ASSUME KernelInv, NEW p \in Process, InPlace(p)
               PROVE  LET i == Mem!segment_find(SegId[p])
                      IN  i # 0 /\ seg_list[i].code = p
    BY DEF RunsOwnCode, InPlace, Asleep
  <2>1. MemP!Loaded(p) /\ MemP!MemInv
    BY DEF KernelInv, LifeInv
  <2> QED BY <2>1, OwnSegment
<1> QED BY <1>1, KernelInvariant, PTL

(* Semaphores do what programs use them for: one that every program uses   *)
(* in pairs has one holder at most, however dispatches, sleeps in the disk *)
(* or the printer, and the creation of more programs that register it come *)
(* between a P and its V; and it is free exactly when its value is 1.  It  *)
(* is so until a P or V that an earlier program left in the pages of       *)
(* another (read_code writes nothing for a blank line) is done on it.      *)
THEOREM KernelExcludes == KernelSafety => []MutualExclusion
<1>1. KernelInv /\ MutexInv => MutualExclusion
  <2> SUFFICES ASSUME KernelInv, MutexInv, NEW s \in (registered \cap Bracketed) \ strayed
               PROVE  /\ \A p, q \in Process : Holds(p, s) > 0 /\ Holds(q, s) > 0 => p = q
                      /\ S[s] > 0 <=> \A p \in Process : Holds(p, s) = 0
    BY DEF MutualExclusion, Holders
  <2>1. OwnedOnce(s)
    BY DEF MutexInv
  <2>2. ASSUME NEW p \in Process
        PROVE  (Holds(p, s) > 0 <=> Owns(p, s)) /\ (Holds(p, s) = 0 <=> ~Owns(p, s))
    <3>1. pc[p] \in Nat
      BY DEF KernelInv, ThreadTypes
    <3>2. Took(p, pc[p], s) \in {0, 1}
      BY <3>1, TookWithin
    <3> QED BY <2>1, <3>2 DEF Holds, Owns, OwnedOnce
  <2> QED BY <2>1, <2>2 DEF OwnedOnce
<1> QED BY <1>1, MutexInvariant, PTL

(* The components keep inside the kernel what is proved of each of them:   *)
(* an inode counts its users, and the disk serves a node that is listed,   *)
(* one of at most one for each process.  Of the memory no such thing is    *)
(* true: what is left of it is updated by two threads without a lock.      *)
THEOREM KernelKeepsComponents ==
    KernelSafety => [](/\ ValueCountsWaiters /\ WaitersSleep
                       /\ FilesP!CountsUsers /\ FilesP!ActiveIsInUse
                       /\ DiskP!ServedNodeIsListed /\ DiskP!OneRequestPerProcess)
<1>1. KernelInv => /\ ValueCountsWaiters /\ WaitersSleep
                   /\ FilesP!CountsUsers /\ FilesP!ActiveIsInUse
                   /\ DiskP!ServedNodeIsListed /\ DiskP!OneRequestPerProcess
  BY DEF KernelInv, SemInv, FilesP!FileInv, MemP!MemInv, DiskP!DiskInv
<1> QED BY <1>1, KernelInvariant, PTL
=============================================================================
