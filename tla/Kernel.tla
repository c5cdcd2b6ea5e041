-------------------------------- MODULE Kernel --------------------------------
(***************************************************************************)
(* The simulator as a whole: kernel/kernel.c joins the scheduler, the      *)
(* semaphores, the disk, the file table and the memory, and three threads  *)
(* run it without any lock:                                                *)
(*                                                                         *)
(*   - the CPU thread (cpu/cpu.c) dispatches processes, runs their         *)
(*     instructions and the system calls these make, and ends processes;   *)
(*   - the disk thread (disk/disk.c) moves the arm and emits DISK_FINISH;  *)
(*   - the terminal thread (terminal/terminal.c) creates processes.        *)
(*                                                                         *)
(* `cpu.at' and `terminal.at' say where a thread is between two of its     *)
(* steps.  A step ends where another thread can see, or change, what the   *)
(* thread goes on with.                                                    *)
(***************************************************************************)
EXTENDS Semaphore, FiniteSets

CONSTANTS
    Program,       \* the instructions of each process
    BlankLines,    \* the blank lines of its code section
    UninitInstr,   \* what memory nobody has written may hold as instruction
    LEFT_OVERS,    \* bound: behind so many of its instructions a program may
                   \* find those of others
    SegId, SegSize, MAX_MEM_SIZE, PAGE_SIZE, INSTRUCTIONS_PER_PAGE,
    DISK_TRACK_LIMIT

VARIABLES
    proc_table,       \* kernel_t.proc_table
    pc,               \* process_t.pc
    proc_memory,      \* of the process_t: "none", "allocated" or "freed"
    reused,           \* the processes whose pages had been freed when the
                      \* array of a process's code was allocated
    strayed,          \* history: the semaphores a P or V of no line of the
                      \* running program has been done on
    cpu,              \* where the CPU thread is
    terminal,         \* where the terminal thread is
    pending_requests, curr_track, forward_dir, disk_req, disk_thread,
    active, o_count, o_files,
    seg_list, mem_remaining, loading, freeing

proc_vars == <<proc_table, pc, proc_memory, reused, strayed>>
disk_vars == <<pending_requests, curr_track, forward_dir, disk_req, disk_thread>>
file_vars == <<active, o_count, o_files>>
mem_vars == <<seg_list, mem_remaining, loading, freeing>>
kernel_vars == <<sched_vars, sem_vars, proc_vars, cpu, terminal,
                 disk_vars, file_vars, mem_vars>>

(* read_code counts every line of the code section, and fills in the       *)
(* instructions of those that are not blank.                               *)
code_len(p) == Len(Program[p]) + BlankLines[p]

HardDisk == INSTANCE Disk WITH DiskTrack <- 0..DISK_TRACK_LIMIT
Files == INSTANCE FileTable WITH Inode <- 0..DISK_TRACK_LIMIT
Mem == INSTANCE Memory WITH CodeLen <- [p \in Process |-> code_len(p)]

SEMAPHORE_TIME == 200

(* An operation that eval has no case for does nothing.                    *)
NoInstr == [op |-> "OTHER"]

Instr == {NoInstr}
    \cup [op : {"EXEC", "PRINT"}, value : Charges]
    \cup [op : {"READ", "WRITE"}, value : 0..DISK_TRACK_LIMIT]
    \cup [op : {"SEM_P", "SEM_V"}, sem : Sem]

(* The components are put together as each of them assumes.                *)
ASSUME ComponentAssumption ==
    /\ IsFiniteSet(Process)
    /\ \A p, q \in Process : SegId[p] = SegId[q] => p = q
    /\ SegSize \in [Process -> Nat]
    /\ MAX_MEM_SIZE \in Nat
    /\ PAGE_SIZE \in Nat \ {0}
    /\ INSTRUCTIONS_PER_PAGE \in Nat \ {0}
    /\ DISK_TRACK_LIMIT \in Nat
    /\ NULL \notin HardDisk!DiskRequest

(* Programs read and write tracks of the disk.  Of the memory no program   *)
(* has written, a P or V is left out: its operand would be a stray         *)
(* pointer.                                                                *)
ASSUME ProgramAssumption ==
    /\ Program \in [Process -> Seq(Instr)]
    /\ BlankLines \in [Process -> Nat]
    /\ LEFT_OVERS \in Nat
    /\ UninitInstr \subseteq {instr \in Instr : instr.op \notin {"SEM_P", "SEM_V"}}

(* Charges holds whatever the kernel itself may charge, too.               *)
ASSUME CostAssumption ==
    /\ SEMAPHORE_TIME \in Charges
    /\ \A n \in 0..(2 * DISK_TRACK_LIMIT) :
          HardDisk!DISK_OPERATION_TIME + n * HardDisk!DISK_TRACK_MOVE_TIME \in Charges

(* The semaphores a program names; its file lists them.                    *)
sems_of(p) ==
    {Program[p][i].sem :
        i \in {j \in DOMAIN Program[p] : Program[p][j].op \in {"SEM_P", "SEM_V"}}}

cpu_goes(place, p, instr) == cpu' = [at |-> place, proc |-> p, instr |-> instr]
cpu_goes_on(place) == cpu_goes(place, NULL, NoInstr)

KernelInit ==
    /\ SchedInit
    /\ semaphore_table_init
    /\ HardDisk!DiskInit
    /\ Files!file_table_init
    /\ Mem!segment_table_init
    /\ proc_table = {}
    /\ pc = [p \in Process |-> 0]
    /\ proc_memory = [p \in Process |-> "none"]
    /\ reused = [p \in Process |-> {}]
    /\ strayed = {}
    /\ cpu = [at |-> "begin", proc |-> NULL, instr |-> NoInstr]
    /\ terminal = [at |-> "menu", proc |-> NULL]

-----------------------------------------------------------------------------
(* The terminal thread: process_create.                                    *)

(* The processes whose page arrays segment_free has given back.  The       *)
(* arrays of code are never freed, nor are the names of the semaphores.    *)
released ==
    {p \in Process : \/ proc_memory[p] = "freed"
                     \/ cpu.at = "finish_free" /\ cpu.proc = p}

(* parse_synthetic_program and read_code; read_semaphores registers the    *)
(* semaphores of the program.                                              *)
create_parse(p) ==
    /\ terminal.at = "menu" /\ proc_memory[p] = "none"
    /\ proc_memory' = [proc_memory EXCEPT ![p] = "allocated"]
    /\ reused' = [reused EXCEPT ![p] = released]
    /\ semaphore_register(sems_of(p))
    /\ terminal' = [at |-> "load", proc |-> p]
    /\ UNCHANGED <<sched_vars, proc_table, pc, strayed, cpu,
                   disk_vars, file_vars, mem_vars>>

(* sysCall(MEM_LOAD_REQ), until mem_req_load returns ...                   *)
create_load ==
    /\ terminal.at = "load"
    /\ Mem!mem_req_load(terminal.proc)
    /\ terminal' = [terminal EXCEPT !.at = IF loading' = Mem!no_call THEN "pcb" ELSE @]
    /\ UNCHANGED <<sched_vars, sem_vars, proc_vars, cpu, disk_vars, file_vars>>

(* ... and interruptControl(MEM_LOAD_FINISH): into the process table, and  *)
(* then into a ready queue.                                                *)
create_pcb ==
    /\ terminal.at = "pcb"
    /\ proc_table' = proc_table \cup {terminal.proc}
    /\ terminal' = [terminal EXCEPT !.at = "ready"]
    /\ UNCHANGED <<sched_vars, sem_vars, pc, proc_memory, reused, strayed, cpu,
                   disk_vars, file_vars, mem_vars>>

create_ready ==
    /\ terminal.at = "ready"
    /\ schedule_loaded_process(terminal.proc)
    /\ terminal' = [at |-> "menu", proc |-> NULL]
    /\ UNCHANGED <<sem_vars, proc_vars, cpu, disk_vars, file_vars, mem_vars>>

CreateStep == create_load \/ create_pcb \/ create_ready

-----------------------------------------------------------------------------
(* The CPU thread: the loop of cpu().                                      *)
(*                                                                         *)
(* "begin" is the top of the outer loop, "check" the condition of the      *)
(* inner one.  The inner loop is a do-while: its body may run an           *)
(* instruction of the scheduled process before the condition is looked at. *)
(* Whether it does depends on the clock: an instruction takes a second.    *)

inner_loop_goes_on(p) == remaining[p] > 0 /\ pc[p] < code_len(p)

may_execute(p) ==
    /\ scheduled_proc = p
    /\ cpu.at = "begin" \/ (cpu.at = "check" /\ inner_loop_goes_on(p))

leaves_inner_loop(p) ==
    /\ scheduled_proc = p
    /\ cpu.at \in {"begin", "check"} /\ ~inner_loop_goes_on(p)

(* Nobody is scheduled.                                                    *)
cpu_dispatch ==
    /\ cpu.at \in {"begin", "check"} /\ scheduled_proc = NULL
    /\ schedule_process("NONE")
    /\ cpu_goes_on("begin")
    /\ UNCHANGED <<sem_vars, proc_vars, terminal, disk_vars, file_vars, mem_vars>>

(* sysCall(PROCESS_INTERRUPT, QUANTUM_COMPLETED)                           *)
cpu_interrupt(p) ==
    /\ leaves_inner_loop(p) /\ pc[p] < code_len(p)
    /\ schedule_process("QUANTUM_COMPLETED")
    /\ cpu_goes_on("begin")
    /\ UNCHANGED <<sem_vars, proc_vars, terminal, disk_vars, file_vars, mem_vars>>

(* The program in the segment found for p, and whether its instruction     *)
(* under the pc of p has been read from a line of the file.                *)
code_of(p) == Program[seg_list[Mem!segment_find(SegId[p])].code]
written(p) == pc[p] < Len(code_of(p))

(* Behind them there are the entries of the blank lines, which nobody has  *)
(* written since the array of code was allocated, perhaps where pages had  *)
(* been freed.  Past them the fetch reads the rest of the last page, or    *)
(* whatever block follows the pages.                                       *)
left_overs(p) ==
    UNION {Range(Program[q]) :
             q \in IF pc[p] < code_len(p) THEN reused[p]
                   ELSE {r \in Process : proc_memory[r] # "none"}}

fetched(p) ==
    IF written(p) THEN {code_of(p)[pc[p] + 1]}
    ELSE IF pc[p] < Len(code_of(p)) + LEFT_OVERS THEN UninitInstr \cup left_overs(p)
    ELSE UninitInstr

fetch(p) ==
    /\ pc' = [pc EXCEPT ![p] = @ + 1]
    /\ Mem!set_used(Mem!segment_find(SegId[p]), pc[p])
    /\ UNCHANGED <<proc_table, proc_memory, reused, terminal, disk_vars, file_vars>>

(* eval; each operation goes on below where it takes more than this step.  *)
eval(p, instr) ==
    \/ /\ instr.op = "OTHER"
       /\ UNCHANGED <<sched_vars, sem_vars>>
       /\ cpu_goes_on("check")
    \/ /\ instr.op = "EXEC"
       /\ charge(p, instr.value)
       /\ UNCHANGED sem_vars
       /\ cpu_goes_on("check")
    \/ /\ instr.op = "SEM_P"
       /\ semaphore_P(instr.sem, p)
       /\ cpu_goes("semaphore", p, instr)
    \/ /\ instr.op = "SEM_V"
       /\ semaphore_V(instr.sem)
       /\ cpu_goes("semaphore", p, instr)
    \/ /\ instr.op \in {"READ", "WRITE"}
       /\ schedule_process("IO_REQUESTED")
       /\ UNCHANGED sem_vars
       /\ cpu_goes("disk_request", p, instr)
    \/ /\ instr.op = "PRINT"
       /\ schedule_process("IO_REQUESTED")
       /\ UNCHANGED sem_vars
       /\ cpu_goes("print", p, instr)

cpu_execute(p) ==
    /\ may_execute(p)
    /\ fetch(p)
    /\ \E instr \in fetched(p) :
          /\ eval(p, instr)
          /\ strayed' = IF ~written(p) /\ instr.op \in {"SEM_P", "SEM_V"}
                          THEN strayed \cup {instr.sem} ELSE strayed

(* After a semaphore operation, unless it has put the process to sleep.    *)
eval_semaphore_charge ==
    LET p == cpu.proc
        sleeps == cpu.instr.op = "SEM_P" /\ state[p] = "BLOCKED"
    IN  /\ cpu.at = "semaphore"
        /\ IF sleeps THEN UNCHANGED sched_vars
                     ELSE charge_semaphore(p, SEMAPHORE_TIME)
        /\ cpu_goes_on("check")
        /\ UNCHANGED <<sem_vars, proc_vars, terminal, disk_vars, file_vars, mem_vars>>

(* disk_request reads the arm ...                                          *)
syscall_disk_request ==
    /\ cpu.at = "disk_request"
    /\ HardDisk!disk_request_create(cpu.proc, cpu.instr.value)
    /\ cpu_goes("disk_add", cpu.proc, cpu.instr)
    /\ UNCHANGED <<sched_vars, sem_vars, proc_vars, terminal, file_vars, mem_vars>>

(* ... and lists the request; from then on the disk thread may wake the    *)
(* process.  The charge and sysCall(FS_REQUEST) touch only what this       *)
(* thread uses.                                                            *)
syscall_disk_add ==
    /\ cpu.at = "disk_add"
    /\ HardDisk!disk_request_add
    /\ charge(cpu.proc, disk_req.turnaround)
    /\ Files!fs_request(cpu.proc, disk_req.track)
    /\ cpu_goes_on("check")
    /\ UNCHANGED <<sem_vars, proc_vars, terminal, mem_vars>>

(* print_request: the charge, and at once interruptControl(PRINT_FINISH).  *)
syscall_print ==
    /\ cpu.at = "print"
    /\ charge(cpu.proc, cpu.instr.value)
    /\ cpu_goes("print_finish", cpu.proc, cpu.instr)
    /\ UNCHANGED <<sem_vars, proc_vars, terminal, disk_vars, file_vars, mem_vars>>

interrupt_print_finish ==
    /\ cpu.at = "print_finish"
    /\ schedule_unblock_process(cpu.proc, "LOW_QUEUE")
    /\ cpu_goes_on("check")
    /\ UNCHANGED <<scheduled_proc, state, remaining, sem_vars, proc_vars,
                   terminal, disk_vars, file_vars, mem_vars>>

-----------------------------------------------------------------------------
(* The CPU thread: process_finish.                                         *)

(* Mutant: the process stays in the process table.                         *)
finish_pcbKeepsEntry(p) ==
    /\ leaves_inner_loop(p) /\ pc[p] >= code_len(p)
    /\ cpu_goes("finish_schedule", p, NoInstr)
    /\ UNCHANGED <<sched_vars, sem_vars, proc_vars, terminal,
                   disk_vars, file_vars, mem_vars>>

(* The process leaves the process table first, while it still has the CPU  *)
(* and its segment.                                                        *)
finish_pcb(p) ==
    /\ leaves_inner_loop(p) /\ pc[p] >= code_len(p)
    /\ proc_table' = proc_table \ {p}
    /\ cpu_goes("finish_schedule", p, NoInstr)
    /\ UNCHANGED <<sched_vars, sem_vars, pc, proc_memory, reused, strayed, terminal,
                   disk_vars, file_vars, mem_vars>>

(* Mutant: the CPU is left to nobody, though processes are ready.          *)
finish_scheduleIdles ==
    /\ cpu.at = "finish_schedule"
    /\ scheduled_proc' = NULL
    /\ cpu_goes("finish_release", cpu.proc, NoInstr)
    /\ UNCHANGED <<queue_vars, state, remaining, sem_vars, proc_vars, terminal,
                   disk_vars, file_vars, mem_vars>>

finish_schedule ==
    /\ cpu.at = "finish_schedule"
    /\ IF scheduled_proc = cpu.proc THEN schedule_process("NONE")
                                    ELSE UNCHANGED sched_vars
    /\ cpu_goes("finish_release", cpu.proc, NoInstr)
    /\ UNCHANGED <<sem_vars, proc_vars, terminal, disk_vars, file_vars, mem_vars>>

finish_release ==
    /\ cpu.at = "finish_release"
    /\ Files!fs_close_files(cpu.proc)
    /\ Mem!free_begin(SegId[cpu.proc])
    /\ cpu_goes("finish_remaining", cpu.proc, NoInstr)
    /\ UNCHANGED <<sched_vars, sem_vars, proc_vars, terminal, disk_vars>>

(* segment_free, until it returns.                                         *)
finish_remaining ==
    /\ cpu.at = "finish_remaining"
    /\ Mem!free_read \/ Mem!free_write
    /\ cpu_goes(IF freeing' = Mem!no_call THEN "finish_free" ELSE "finish_remaining",
                cpu.proc, NoInstr)
    /\ UNCHANGED <<sched_vars, sem_vars, proc_vars, terminal, disk_vars, file_vars>>

finish_free ==
    /\ cpu.at = "finish_free"
    /\ unschedule_process(cpu.proc)
    /\ proc_memory' = [proc_memory EXCEPT ![cpu.proc] = "freed"]
    /\ cpu_goes_on("begin")
    /\ UNCHANGED <<sem_vars, proc_table, pc, reused, strayed, terminal,
                   disk_vars, file_vars, mem_vars>>

CpuStep ==
    \/ cpu_dispatch
    \/ \E p \in Process : cpu_execute(p) \/ cpu_interrupt(p) \/ finish_pcb(p)
    \/ eval_semaphore_charge
    \/ syscall_disk_request \/ syscall_disk_add
    \/ syscall_print \/ interrupt_print_finish
    \/ finish_schedule \/ finish_release \/ finish_remaining \/ finish_free

-----------------------------------------------------------------------------
(* The disk thread.                                                        *)

not_disk_vars == <<sem_vars, proc_vars, cpu, terminal, file_vars, mem_vars>>

disk_seek == HardDisk!rw_disk_op_seek /\ UNCHANGED <<sched_vars, not_disk_vars>>
disk_remove == HardDisk!rw_disk_op_remove /\ UNCHANGED <<sched_vars, not_disk_vars>>
disk_move == HardDisk!arm_move /\ UNCHANGED <<sched_vars, not_disk_vars>>

(* interruptControl(DISK_FINISH)                                           *)
disk_finish ==
    /\ HardDisk!rw_disk_op_finish
    /\ schedule_unblock_process(HardDisk!served_process, "LOW_QUEUE")
    /\ UNCHANGED <<scheduled_proc, state, remaining, not_disk_vars>>

DiskStep == disk_seek \/ disk_finish \/ disk_remove \/ disk_move

-----------------------------------------------------------------------------
KernelNext ==
    \/ \E p \in Process : create_parse(p)
    \/ CreateStep
    \/ CpuStep
    \/ DiskStep

(* No thread ever blocks: the CPU and the disk thread poll, and the        *)
(* terminal thread completes a creation it has begun.  Nobody has to       *)
(* create a process.                                                       *)
KernelFairness ==
    /\ WF_kernel_vars(CpuStep)
    /\ WF_kernel_vars(DiskStep)
    /\ WF_kernel_vars(CreateStep)

KernelSafety == KernelInit /\ [][KernelNext]_kernel_vars
KernelSpec == KernelSafety /\ KernelFairness

-----------------------------------------------------------------------------
(* Safety *)

Places == {"begin", "check", "semaphore", "disk_request", "disk_add", "print",
           "print_finish", "finish_schedule", "finish_release", "finish_remaining",
           "finish_free"}

(* Every variable of the composition keeps its type.                       *)
KernelTypeOK ==
    /\ SchedTypeOK
    /\ SemTypeOK
    /\ HardDisk!DiskTypeOK
    /\ Files!FileTypeOK
    /\ Mem!MemTypeOK
    /\ proc_table \subseteq Process
    /\ pc \in [Process -> Nat]
    /\ proc_memory \in [Process -> {"none", "allocated", "freed"}]
    /\ reused \in [Process -> SUBSET Process]
    /\ strayed \subseteq Sem
    /\ cpu.at \in Places /\ cpu.proc \in Process \cup {NULL}
    /\ terminal.at \in {"menu", "load", "pcb", "ready"}
    /\ terminal.proc \in Process \cup {NULL}

(* The kernel uses the scheduler as its specification allows, and so       *)
(* inherits OnePlace, NoOvertaking and the life cycle.  In particular the  *)
(* queue removal at the end of process_finish never finds anything.        *)
KernelImplementsSched == SchedSpec

InSysCall(p) ==
    cpu.proc = p /\ cpu.at \in {"disk_request", "disk_add", "print", "print_finish"}

(* Who will wake p: the V of a semaphore, the disk, or the system call the *)
(* CPU thread is in.                                                       *)
Wakers(p) ==
    {<<"V", s>> : s \in {t \in Sem : WaitsFor(p, t)}}
    \cup {<<"disk", i>> : i \in {j \in DOMAIN pending_requests :
                                   HardDisk!Unserved(j)
                                   /\ pending_requests[j].process = p}}
    \cup {<<"call", cpu.at>> : q \in {q \in Process : q = p /\ InSysCall(q)}}

(* Every process in the blocked queue has exactly one waker, and nobody    *)
(* else has any.  With none it would sleep forever; with two, the second   *)
(* would take a later sleep for the one it answers.                        *)
EverySleeperHasOneWaker ==
    \A p \in Process :
        IF In(blocked_queue, p) THEN Cardinality(Wakers(p)) = 1
                                ELSE Wakers(p) = {}

(* No process is lost: from create_ready on until process_finish a process *)
(* has the CPU or is in a queue.                                           *)
EveryLiveProcessHasAPlace ==
    \A p \in proc_table :
        state[p] # "NEW" => scheduled_proc = p \/ Ready(p) \/ In(blocked_queue, p)

(* No reference outlives its process: when process_finish has freed p,     *)
(* none of the structures the threads go on with points to p.              *)
NoDanglingProcess ==
    \A p \in Process : proc_memory[p] # "allocated" =>
        /\ p \notin proc_table
        /\ scheduled_proc # p /\ ~Ready(p) /\ ~In(blocked_queue, p)
        /\ Wakers(p) = {}
        /\ cpu.proc # p /\ terminal.proc # p

(* How often the first k instructions of p do op on s, and how many units  *)
(* of s they ask for and do not give back.                                 *)
Occurs(p, k, op, s) ==
    Cardinality({i \in 1..k \cap DOMAIN Program[p] :
                   Program[p][i].op = op /\ Program[p][i].sem = s})
Took(p, k, s) == Occurs(p, k, "SEM_P", s) - Occurs(p, k, "SEM_V", s)

(* A P that still waits has not got its unit yet.                          *)
Holds(p, s) == Took(p, pc[p], s) - (IF WaitsFor(p, s) THEN 1 ELSE 0)

Holders(s) == {p \in Process : Holds(p, s) > 0}

(* The semaphores that every program uses in pairs, each V after its P.    *)
Bracketed ==
    {s \in Sem : \A p \in Process :
                   \A k \in 0..Len(Program[p]) : Took(p, k, s) \in {0, 1}}

(* Programs whose V follow their P exclude each other: a semaphore, though *)
(* each program that names it registers it, is held by one at most, and it *)
(* is free exactly when its value says so.  It is so as long as no process *)
(* does a P or V on the semaphore that is in no line of its file.          *)
MutualExclusion ==
    \A s \in (registered \cap Bracketed) \ strayed :
        /\ \A p, q \in Holders(s) : p = q
        /\ S[s] > 0 <=> \A p \in Process : Holds(p, s) = 0

(* A process that may run has its segment, found under its own id, with    *)
(* its own code in it.                                                     *)
RunsOwnCode ==
    \A p \in Process :
        scheduled_proc = p \/ Ready(p) \/ In(blocked_queue, p) =>
            LET i == Mem!segment_find(SegId[p])
            IN  i # 0 /\ seg_list[i].code = p

(* Liveness.  Every process that is created finishes.                      *)
EveryProcessFinishes ==
    \A p \in Process : proc_memory[p] = "allocated" ~> proc_memory[p] = "freed"

-----------------------------------------------------------------------------
(* What docs and comments say and the code does not do *)

(* The README: with its P a program enters the critical region of the      *)
(* semaphore, with its V it leaves it; process.c: blank lines are ignored. *)
(* So one program at a time is in the region, and the semaphore lets       *)
(* nobody in while it is.                                                  *)
CriticalRegion ==
    \A s \in registered \cap Bracketed :
        /\ \A p, q \in Holders(s) : p = q
        /\ S[s] > 0 => \A p \in Process : Holds(p, s) = 0

(* cpu.c: a process whose code has ended is terminated.  It runs no        *)
(* further instruction.                                                    *)
PcWithinCode ==
    [][\A p \in Process : pc'[p] # pc[p] => pc[p] < code_len(p)]_kernel_vars

(* terminal.c: a used page is in use by the process of its segment, which  *)
(* the view looks up in the process table and dereferences.                *)
UsedPageHasProcess ==
    \A i \in DOMAIN seg_list :
        (\E page \in DOMAIN seg_list[i].used : seg_list[i].used[page])
            => seg_list[i].code \in proc_table
===============================================================================
