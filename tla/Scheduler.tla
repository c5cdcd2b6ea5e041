------------------------------ MODULE Scheduler ------------------------------
(***************************************************************************)
(* The short-term scheduler, sched/sched.c.  A process that may run is in  *)
(* the high or in the low queue, a process that waits is in the blocked    *)
(* queue, and one process at most is scheduled.  The operators named after *)
(* C functions are the bodies of those functions: they are used here by an *)
(* environment that calls them in every order the kernel may, and by       *)
(* Semaphore and Kernel in the order the kernel does.                      *)
(*                                                                         *)
(* A linked list of tools/list.c is a sequence.  Each operator is one      *)
(* step: nothing outside the CPU thread looks at the intermediate states   *)
(* of schedule_process, and each list operation is taken as atomic.        *)
(***************************************************************************)
EXTENDS Integers, Sequences, SequencesExt, Functions

CONSTANTS
    Process,    \* the processes the user may create
    NULL,       \* no process
    Priority,   \* the `process start priority' of each process
    Charges     \* what an instruction may cost, in units of time

ASSUME NullAssumption == NULL \notin Process
ASSUME PriorityAssumption == Priority \in [Process -> Int]
ASSUME ChargesAssumption == Charges \subseteq Nat

VARIABLES
    scheduled_proc,   \* the process that has the CPU, or NULL
    high_queue,
    low_queue,
    blocked_queue,
    state,            \* process_t.state
    remaining         \* process_t.remaining, what is left of the time slice

queue_vars == <<high_queue, low_queue, blocked_queue>>
sched_vars == <<scheduled_proc, high_queue, low_queue, blocked_queue,
                state, remaining>>

ProcessState == {"NEW", "BLOCKED", "READY", "RUNNING"}
SchedulerFlag == {"NONE", "IO_REQUESTED", "QUANTUM_COMPLETED",
                  "SEMAPHORE_BLOCKED"}
QueueFlag == {"HIGH_QUEUE", "LOW_QUEUE"}

SCHED_HIGH_QUEUE_QUANTUM == 1000
SCHED_LOW_QUEUE_QUANTUM == 2000

MAX(a, b) == IF a >= b THEN a ELSE b
MIN(a, b) == IF a <= b THEN a ELSE b

-----------------------------------------------------------------------------
(* Lists *)

In(list, p) == \E i \in DOMAIN list : list[i] = p

(* The position of the first node that holds p.                            *)
list_search(list, p) ==
    CHOOSE i \in DOMAIN list :
        list[i] = p /\ \A j \in DOMAIN list : list[j] = p => i <= j

(* The list without its first node that holds p.                           *)
list_remove(list, p) == RemoveAt(list, list_search(list, p))

-----------------------------------------------------------------------------
(* scheduler_init *)

scheduler_init ==
    /\ scheduled_proc = NULL
    /\ high_queue = <<>>
    /\ low_queue = <<>>
    /\ blocked_queue = <<>>

SchedInit ==
    /\ scheduler_init
    /\ state = [p \in Process |-> "NEW"]
    /\ remaining = [p \in Process |-> 0]

-----------------------------------------------------------------------------
(* schedule_process *)

(* Mutant: the low queue is never served.                                  *)
new_scheduledHighOnly == IF high_queue # <<>> THEN Head(high_queue) ELSE NULL

(* The head of the high queue goes first; the low queue is served only     *)
(* when the high one is empty.                                             *)
new_scheduled ==
    CASE high_queue # <<>>                      -> Head(high_queue)
      [] high_queue = <<>> /\ low_queue # <<>>  -> Head(low_queue)
      [] OTHER                                  -> NULL

(* The slice the next process gets, from what it had left.                 *)
new_slice(left) ==
    IF high_queue # <<>>
      THEN MAX(1000, MIN(SCHED_HIGH_QUEUE_QUANTUM,
                         left + SCHED_HIGH_QUEUE_QUANTUM))
      ELSE MAX(0, MIN(SCHED_LOW_QUEUE_QUANTUM,
                      left + SCHED_LOW_QUEUE_QUANTUM))

(* What happens to the process that had the CPU, if there was one.         *)
Blocks(flags) == /\ scheduled_proc # NULL
                 /\ flags \in {"IO_REQUESTED", "SEMAPHORE_BLOCKED"}

Expires(flags) == scheduled_proc # NULL /\ flags = "QUANTUM_COMPLETED"

schedule_process(flags) ==
    LET curr == scheduled_proc
        new  == new_scheduled
        high == IF high_queue # <<>> THEN Tail(high_queue) ELSE <<>>
        low  == IF high_queue = <<>> /\ low_queue # <<>>
                  THEN Tail(low_queue) ELSE low_queue
    IN  /\ scheduled_proc' = new
        /\ high_queue' = IF Expires(flags) THEN Append(high, curr) ELSE high
        /\ low_queue' = low
        /\ blocked_queue' = IF Blocks(flags) THEN Append(blocked_queue, curr)
                                             ELSE blocked_queue
        /\ state' = [p \in Process |->
                       CASE p = new                                -> "RUNNING"
                         [] p # new /\ p = curr /\ Blocks(flags)   -> "BLOCKED"
                         [] p # new /\ p = curr /\ Expires(flags)  -> "READY"
                         [] OTHER                                  -> state[p]]
        /\ remaining' = [p \in Process |->
                           IF p = new THEN new_slice(remaining[p])
                                      ELSE remaining[p]]

-----------------------------------------------------------------------------
(* schedule_unblock_process *)

(* Mutant: the process is queued even when it is not in the blocked queue. *)
schedule_unblock_processUnsearched(p, queue_flag) ==
    /\ blocked_queue' = IF In(blocked_queue, p)
                          THEN list_remove(blocked_queue, p) ELSE blocked_queue
    /\ high_queue' = IF queue_flag = "HIGH_QUEUE"
                       THEN Append(high_queue, p) ELSE high_queue
    /\ low_queue' = IF queue_flag = "LOW_QUEUE"
                      THEN Append(low_queue, p) ELSE low_queue

(* Mutant: an unblocked process goes to the front of its queue.            *)
schedule_unblock_processInFront(p, queue_flag) ==
    IF ~In(blocked_queue, p)
      THEN UNCHANGED queue_vars
      ELSE /\ blocked_queue' = list_remove(blocked_queue, p)
           /\ high_queue' = IF queue_flag = "HIGH_QUEUE"
                              THEN Cons(p, high_queue) ELSE high_queue
           /\ low_queue' = IF queue_flag = "LOW_QUEUE"
                             THEN Cons(p, low_queue) ELSE low_queue

(* A process that is not in the blocked queue is left alone.  The process  *)
(* keeps the state BLOCKED: only schedule_process writes it again.         *)
schedule_unblock_process(p, queue_flag) ==
    IF ~In(blocked_queue, p)
      THEN UNCHANGED queue_vars
      ELSE /\ blocked_queue' = list_remove(blocked_queue, p)
           /\ high_queue' = IF queue_flag = "HIGH_QUEUE"
                              THEN Append(high_queue, p) ELSE high_queue
           /\ low_queue' = IF queue_flag = "LOW_QUEUE"
                             THEN Append(low_queue, p) ELSE low_queue

-----------------------------------------------------------------------------
(* Mutant: the process stays NEW.                                          *)
schedule_loaded_processStaysNew(p) ==
    /\ IF Priority[p] = 1
         THEN high_queue' = Append(high_queue, p) /\ UNCHANGED low_queue
         ELSE low_queue' = Append(low_queue, p) /\ UNCHANGED high_queue
    /\ UNCHANGED <<scheduled_proc, blocked_queue, state, remaining>>

(* The scheduling half of interruptControl(MEM_LOAD_FINISH): the process   *)
(* becomes READY and enters a ready queue.                                 *)
schedule_loaded_process(p) ==
    /\ state' = [state EXCEPT ![p] = "READY"]
    /\ IF Priority[p] = 1
         THEN high_queue' = Append(high_queue, p) /\ UNCHANGED low_queue
         ELSE low_queue' = Append(low_queue, p) /\ UNCHANGED high_queue
    /\ UNCHANGED <<scheduled_proc, blocked_queue, remaining>>

(* The time an instruction takes comes off the slice of its process.       *)
charge(p, time) ==
    /\ remaining' = [remaining EXCEPT ![p] = @ - time]
    /\ UNCHANGED <<scheduled_proc, queue_vars, state>>

(* A semaphore operation never takes the slice below zero.                 *)
charge_semaphore(p, time) ==
    /\ remaining' = [remaining EXCEPT ![p] = MAX(0, @ - time)]
    /\ UNCHANGED <<scheduled_proc, queue_vars, state>>

(* The end of process_finish takes the process out of the scheduler queue  *)
(* it is found in, if any.                                                 *)
unschedule_process(p) ==
    /\ high_queue' = IF In(high_queue, p) THEN list_remove(high_queue, p)
                                          ELSE high_queue
    /\ low_queue' = IF ~In(high_queue, p) /\ In(low_queue, p)
                      THEN list_remove(low_queue, p) ELSE low_queue
    /\ blocked_queue' =
         IF ~In(high_queue, p) /\ ~In(low_queue, p) /\ In(blocked_queue, p)
           THEN list_remove(blocked_queue, p) ELSE blocked_queue
    /\ UNCHANGED <<scheduled_proc, state, remaining>>

-----------------------------------------------------------------------------
(* The environment: the calls the kernel may make, in any order.           *)

Admit(p) == state[p] = "NEW" /\ schedule_loaded_process(p)

(* cpu.c: nobody is scheduled.                                             *)
Dispatch == scheduled_proc = NULL /\ schedule_process("NONE")

(* The running process blocks, ends its slice or (NONE) has finished.      *)
Interrupt(flags) == scheduled_proc # NULL /\ schedule_process(flags)

(* A wake-up, from the disk, the printer or a semaphore, may come for any  *)
(* process, even for one that does not wait.                               *)
Unblock(p, queue_flag) ==
    /\ schedule_unblock_process(p, queue_flag)
    /\ UNCHANGED <<scheduled_proc, state, remaining>>

(* A slice is charged to a process that runs, or that has just blocked and *)
(* may already be awake again, while the slice is not overdrawn.           *)
Charge(p) ==
    /\ scheduled_proc = p \/ In(low_queue, p) \/ In(blocked_queue, p)
    /\ remaining[p] >= 0
    /\ \E time \in Charges : charge(p, time) \/ charge_semaphore(p, time)

SchedNext ==
    \/ Dispatch
    \/ \E flags \in SchedulerFlag : Interrupt(flags)
    \/ \E p \in Process :
         \/ Admit(p)
         \/ Charge(p)
         \/ \E queue_flag \in QueueFlag : Unblock(p, queue_flag)

SchedSpec == SchedInit /\ [][SchedNext]_sched_vars

-----------------------------------------------------------------------------
(* Properties *)

(* Every field keeps its type; in particular NULL never enters a queue.    *)
SchedTypeOK ==
    /\ scheduled_proc \in Process \cup {NULL}
    /\ high_queue \in Seq(Process)
    /\ low_queue \in Seq(Process)
    /\ blocked_queue \in Seq(Process)
    /\ state \in [Process -> ProcessState]
    /\ remaining \in [Process -> Int]

Ready(p) == In(high_queue, p) \/ In(low_queue, p)

(* A process is in one place at most: it has the CPU, or it is once in one *)
(* of the three queues.  A process queued twice would be dispatched after  *)
(* process_finish has freed it.                                            *)
OnePlace ==
    /\ IsInjective(high_queue)
    /\ IsInjective(low_queue)
    /\ IsInjective(blocked_queue)
    /\ \A p \in Process :
         /\ ~(In(high_queue, p) /\ In(low_queue, p))
         /\ ~(Ready(p) /\ In(blocked_queue, p))
         /\ scheduled_proc = p => ~Ready(p) /\ ~In(blocked_queue, p)

(* The state field agrees with the place: a scheduled process is RUNNING,  *)
(* a process in the blocked queue is BLOCKED, a process not yet loaded is  *)
(* nowhere.  (A process in a ready queue may still be marked BLOCKED.)     *)
StateAgreesWithPlace ==
    \A p \in Process :
        /\ scheduled_proc = p => state[p] = "RUNNING"
        /\ In(blocked_queue, p) => state[p] = "BLOCKED"
        /\ Ready(p) => state[p] \in {"READY", "BLOCKED"}
        /\ state[p] = "NEW" => scheduled_proc # p /\ ~Ready(p)

Ahead(list, p, q) ==
    \E i, j \in DOMAIN list : i < j /\ list[i] = p /\ list[j] = q

(* A process that stays in the list stays behind those it was behind and   *)
(* ahead of all others, the newcomers included.                            *)
KeepsOrder(list, next) ==
    \A p, q \in Process :
        /\ In(list, p) /\ In(next, p) /\ p # q
        /\ In(list, q) \/ In(next, q)
        /\ ~Ahead(list, q, p)
        => Ahead(next, p, q)

(* The ready queues are first come, first served: in schedule_process and  *)
(* schedule_unblock_process no process leaves a queue before, or gets      *)
(* ahead of, one that came earlier.                                        *)
NoOvertaking ==
    [][KeepsOrder(high_queue, high_queue') /\ KeepsOrder(low_queue, low_queue')
      ]_sched_vars

(* The stage each process is in, for the abstract specification.           *)
stage == [p \in Process |->
            IF state[p] = "NEW" THEN "new"
            ELSE IF scheduled_proc = p THEN "running"
            ELSE IF Ready(p) THEN "ready"
            ELSE IF In(blocked_queue, p) THEN "blocked"
            ELSE "gone"]

Lifecycle == INSTANCE ProcessLifecycle WITH status <- stage

(* The scheduler implements the life cycle: in particular a wake-up never  *)
(* hands over the CPU, a finished process never comes back, and the CPU is *)
(* idle only when both ready queues are empty.                             *)
ImplementsLifecycle == Lifecycle!Spec
=============================================================================
