# A TLA+ model of ribabari

ribabari simulates a small operating system: the user starts *synthetic
programs*, a simulated CPU runs their instructions, and windows show what the
scheduler, the disk, the memory and the semaphores do. This directory holds
TLA+ modules translated from the C source, the TLC configurations that check
them on small instances, and theorems checked by TLAPS. `PROJECT.json` maps each
definition to the lines it stands for, and lists the runs, the mutants, the
hazards and the theorems.

## The system

| Part | State | Operations | Used by |
|---|---|---|---|
| `sched/` scheduler | `scheduled_proc`; high, low and blocked queue; each process's `state`, `remaining` | `schedule_process`, `schedule_unblock_process` | CPU, disk and terminal threads |
| `semaphore/` | the table; value `S` and `waiters` of each semaphore | `semaphore_register`, `semaphore_P`, `semaphore_V` | CPU thread; the terminal thread registers |
| `disk/` | `pending_requests`, `curr_track`, `forward_dir` | `disk_request`, `rw_disk_op_resolve`, the arm | CPU thread requests, disk thread serves |
| `file/` | active inodes, their `o_count`; `o_files` of each process | `fs_read_request`, `fs_write_request`, `fs_close_request` | CPU thread |
| `memory/` | `seg_list` with the pages' used bits, `remaining` | `mem_req_load`, `memory_page_swap`, `segment_find`, `segment_free` | terminal thread loads, CPU thread fetches and frees |
| `kernel/` | `proc_table` and the above | `sysCall`, `interruptControl`, `eval` | all threads |
| `cpu/` | the place in the loop | dispatch, execute, end of slice, end of process | the CPU thread |
| `process/` | `process_t` | `process_create`, `process_finish`, the parser | terminal thread creates, CPU thread finishes |
| `io/` printer | none | `print_request`, which completes at once | CPU thread |
| `tools/list.c` | a doubly linked list | add, search, remove | everything |
| `terminal/log.c` | four lists of records, a semaphore each | `process_log`, `disk_log`, `io_fs_log`, `res_acq_log`, ... | CPU and disk thread write, the views read |
| `terminal/terminal.c` | windows, `print_mutex`, `refresh_mutex` | `refresh_*_log`, `refresh_logs`, prompts, the menu | five view threads, the refresh thread and the terminal thread |

Three threads change the kernel's state, without any lock (the mutex inside a
semaphore is only ever taken by the CPU thread): the **CPU thread**, the **disk
thread** and the **terminal thread**. They meet in the ready queues (the terminal
thread appends new processes, the disk thread appends woken ones, the CPU thread
dispatches), the blocked queue, the disk's list, the process table, the segment
list and the semaphore table. The views only read: four of them follow a log,
which its writers announce with a semaphore; the memory view looks at the segments
and the resource view's title at the semaphore table as they are.

What is hard, and what would make each part correct:

* **Scheduler.** A process must be in exactly one place through any sequence of
  blocks, wake-ups and slices (`OnePlace`, `StateAgreesWithPlace`); queues are
  served in order (`NoOvertaking`).
* **Sleep and wake-up.** `schedule_unblock_process` drops a wake-up for a process
  that is not in the blocked queue. That is only right if nobody is woken before
  he sleeps, and each sleeper has one waker (`WaitersSleep`,
  `EverySleeperHasOneWaker`).
* **Semaphores.** The value counts the waiters; `semaphore_V` relies on it when it
  takes the head of the list (`ValueCountsWaiters`). A semaphore is registered by
  every program that names it, and must survive that (`MutualExclusion`). Behind
  the code of a program with blank lines the CPU may find the P and V of an earlier
  one, and then a critical region has no bounds (`CriticalRegion`).
* **Disk.** The walk over the pending requests goes on from a node read before an
  interrupt and a removal, while the list grows (`ServedNodeIsListed`,
  `ServedWithinASweep`). A process is woken before its request is off the list
  (`OneRequestPerProcess`). Since it may ask for the same track again before that,
  two processes can keep the arm where it is while a third waits for another track;
  only requests for that one track can (`EveryRequestIsServed`).
* **Process end.** `process_finish` takes a process apart in steps while the other
  threads run; nothing may refer to it afterwards (`NoDanglingProcess`).
* **Files and memory.** Counts follow the processes (`CountsUsers`,
  `ActiveIsInUse`), a process runs its own code (`RunsOwnCode`), and the second-chance
  pass frees enough (`SwapFreesEnough`). Two threads read and write what is left of
  the memory without a lock: memory is lost (`NoLostMemory` is violated), but only
  where two of these updates overlap (`LostByOverlapOnly`).
* **Lists.** No list has a lock, and most are changed by two threads: where they
  do not meet the list must stay whole, and a walk must miss nobody
  (`IntactUnlessTheyMeet`, `SearchMissesNobody`); where they meet it does not
  (`AddedIsListed`).
* **Program files.** Blank lines, a missing last newline, operations the parser
  does not know and fields it does not set all leave something in memory that is
  used later (`PagesHoldTheProgram`, `SemaphoresAreKnown`, `FreesItsOwnNames`).
* **Logs.** A view goes on from a node whose `next` is not set yet, while records
  arrive faster than it looks (`ViewHasANode`, `NothingUnnoticed`, `ShownInOrder`,
  `MemoryRedrawn`), and shares the screen with a prompt that waits for the user
  (`ViewCatchesUp`). What the I/O log tells of a file has to be in order though two
  threads write it (`TransfersWithinUse`).
* **Liveness.** Every request is served if no walk goes on for ever, and every
  process finishes (`EveryRequestIsServed`, `EveryProcessFinishes`).

## The modules

| Module | Models | Composed of |
|---|---|---|
| `ProcessLifecycle` | what the scheduler promises: new, ready, running, blocked, gone | |
| `Scheduler` | `sched/sched.c`, the scheduling half of `MEM_LOAD_FINISH` | |
| `Semaphore` | `semaphore/semaphore.c` | extends `Scheduler` |
| `Disk` | `disk/disk.c` | |
| `DiskTravel` | `Disk` with a history of the arm's way | extends `Disk` |
| `FileTable` | `file/file.c`, `has_opened_file` | |
| `Memory` | `memory/memory.c`, the fetch's used bit | |
| `Loader` | program files, the parser (`process/process.c`, `process/instruction.c`), the contents of the pages | extends `Memory` |
| `SemaphoreTable` | the semaphore table as an array: `realloc`, pointers held across it | |
| `LinkedList` | `tools/list.c` with its pointers, one step per function | |
| `ListSteps` | the same statement by statement, with two threads | extends `LinkedList`, and implements it |
| `LogView` | a log, its semaphore, the view that follows it, the screen's locks | |
| `Logs` | who writes the logs; the order of the I/O log | extends `LogView`, `FileTable` |
| `Kernel` | `kernel/kernel.c`, `cpu/cpu.c`, `process/process.c`, `io/print.c` | extends `Semaphore`; instances of `Disk`, `FileTable`, `Memory` |
| `SchedulingProofs` | theorems about `Scheduler` and `Semaphore` | extends `Semaphore` |
| `DiskProofs` | theorems about `Disk` and `DiskTravel` | extends `DiskTravel` |
| `FileTableProofs` | theorems about `FileTable` | extends `FileTable` |
| `MemoryProofs` | what the operations of `Memory` keep, the second-chance pass | extends `Memory` |
| `LoaderProofs` | theorems about `Loader` | extends `Loader`, `MemoryProofs` |
| `LinkedListProofs` | theorems about `LinkedList` and `ListSteps` | extends `ListSteps` |
| `LogsProofs` | theorems about `LogView` and `Logs` | extends `Logs`, `FileTableProofs` |
| `KernelProofs` | theorems about `Kernel` | extends `Kernel`, `SchedulingProofs`; instances of `DiskProofs`, `FileTableProofs`, `MemoryProofs` |
| `MC*` | values of the constants for TLC | |

Operators carry the names of the C functions they stand for. Each component has
an environment of its own (the last actions before its properties), which calls
the operators in every order the rest of the program may, and in more; `Kernel`
calls the same operators in the order the program does. Operators whose name is
that of another with something added (`semaphore_VWakesLast`) are mutants: a
plausible mistake in the operator that follows, which the runs must notice.

**Variables.** Outside `LinkedList`, `ListSteps` and `LogView` a linked list is a
sequence. The fields of `process_t` are
functions on `Process`: `state`, `remaining`, `pc`, `o_files`, and `proc_memory`,
which says whether the structure has been allocated or freed. `cpu.at`,
`terminal.at` and `disk_thread.at` say where a thread is; `cpu.proc`,
`disk_req` and `disk_thread.curr`/`next` are the local variables that survive a
step.

**Steps.** A step ends wherever another thread can see, or change, what the
thread goes on with. So these windows are open:

* `disk_request` has read the arm and has not listed the request (the several
  reads of the arm that make up one estimate are one step);
* the disk thread has found a node; has woken its process; has removed the node;
* `sysCall(DISK_*_REQUEST)` has scheduled another process and has not yet
  requested; `print_request` has charged and not yet woken;
* `process_create` has parsed, loaded, entered the table, entered a queue;
* `process_finish` has left the table, the CPU, the files and the segment list, has
  given the memory back, has left the queues;
* `mem_req_load` on the terminal thread has read `remaining`, has written it, has
  made the pass and read it again (`load_begin`, `load_write`, `load_swap`,
  `load_sum`), and `segment_free` on the CPU thread has read it to compare, has read
  it again for the sum (`MIN` is a macro), has written it (`free_begin`, `free_read`,
  `free_write`). `loading` and `freeing` hold what a thread has read and not yet
  written. In `Kernel` these are steps of `create_load`, `finish_release` and
  `finish_remaining`.

Merged into one step are the body of `schedule_process`, of `semaphore_P` and of
`semaphore_V`; the charge of a disk request with `sysCall(FS_REQUEST)`, and the
closing of the files with the removal of the segment, which the CPU thread alone
does; a whole parse, but for what `SemaphoreTable` shows of it; and the
second-chance pass. While the pass walks, the CPU thread may set a used bit or
remove a segment. The first shifts what the next pass finds; the second lets the
walk stand at a freed segment, which is listed as a hazard and not modelled. One
operation on a linked list is one step of these modules. That is an assumption,
since the lists have no lock; `ListSteps` says when it is right.

The other modules open the windows these leave closed:

* `ListSteps`: each statement of `list_add`, `list_remove_head` and
  `list_remove_node` that reads or writes the list, `size++` in two steps. `uses`
  holds what each of two threads does with a list, one entry for each way the
  program uses one. `listed` is the sequence the other modules have; `met` is set
  as soon as two threads are at the same end of the list, or remove neighbours.
  `HeadsAssumption` says of the lists of the program that only the CPU takes heads,
  and that no other thread takes a node off a list it takes the head of. A walk is
  not a step: `Meets` says which nodes the pointers lead it to.
* `SemaphoreTable`: `realloc`, the store of the pointer, `len++`, and the
  initialisation of name and of waiters; each turn of the loops of `semaphore_find`
  and `sem_blocked_count`. A block `realloc` has moved away from is freed, and a
  pointer into it reads anything.
* `LogView`: between the statements of `list_add` that a follower can see, between
  `list_add` and `sem_post`, and in a view between its reads of the list. There are
  four logs, each with its own list, semaphore and view, so the model has one, and
  `log` says which. What the logs and views share is the screen. Its locks are in the
  model: `print_mutex`, which every view holds while it draws, that of the memory too
  (`refresh_memory_log` waits, takes it, lets go of it; the views of the logs that are
  not looked at are `other_views`), and `refresh_mutex`. The CPU may write two records
  in a row that no process is running (`cpu_logs`): one that is dispatched at the end
  of its code, or without a slice, resets the flag (`cpu.c:65`) and executes nothing.
* `Loader`: `process_create` is parsed and loaded in two steps; the parse is one
  step, for only the terminal thread parses. `record` and `semaphores` say which
  block of memory a `process_t` has and what is left in its field.

**Data left out.** Names, time stamps, sizes of inodes, the angular velocity and
the wording of a record are only displayed, and whether a request of the disk reads or
writes is only logged. The clock is left out: the body of the
CPU's do-while either executes an instruction or looks at its condition. An
instruction no line of the file has written, at the end of an array of code with
blank lines or past it, may be any of `UninitInstr` or one that is left of other
programs: page arrays are freed (`memory.c:163`) and their memory is handed out
again, and the names in them, `strdup`'d at `instruction.c:20`, are never freed, so
that a P or V in them still works. `reused` holds the processes whose pages had been
freed when the array was allocated; `strayed` is a history of the semaphores such
a P or V was done on. In `Loader` a
line of a file is a record, and cutting a character off a name is the function
`Cut`; the numbers at the head of a file are constants.

## What is checked

| Run | Instance | Shows |
|---|---|---|
| `semaphore` | 3 processes, 2 semaphores, `S` at most 1, one charge that overdraws any slice | `ValueCountsWaiters`, `WaitersSleep`, `VWakesTheFirstWaiter`; of the scheduler `OnePlace`, `StateAgreesWithPlace`, `NoOvertaking`; the calls are ones `Scheduler` allows, and it refines `ProcessLifecycle` |
| `disk` | 3 processes, 3 tracks | the walk, one request per process, one sweep, the turnaround; every request is served if the walks end, and only requests for the track under the arm keep one from ending |
| `loader` | 4 program files, 3 processes at a time, 3 units of memory for 6 | the pages hold the program in order; semaphores named are registered; `remaining` never goes below zero; `LostByOverlapOnly`, `SwapFreesEnough` |
| `kernel_nested` | 2 programs, 2 nested semaphores, disk, printer, a shared file, overdrawn slices, page swaps | no process is lost; refines `Scheduler`; every process finishes |
| `kernel_shared` | 3 programs, one with a blank line, 2 semaphores of which one may have two waiters, the disk in a critical section | one waker for each sleeper, no dangling reference, own code; mutual exclusion on each semaphore no left over P or V is done on |
| `linked_list` | 4 nodes, 2 threads, the five ways a list is used | whole unless two threads meet; a walk misses nobody; one thread alone implements `LinkedList` |
| `io_log` | 4 records, 2 writers, a view, the refresh thread, the user; 2 processes and a file | the views, the memory view, the screen; file counts; the order of the I/O log |

Five runs end in a violation. Each refutes a statement of the repository:

| Run | Statement | What the code does |
|---|---|---|
| `kernel_pc` | `cpu.c:113` "The process has finished its execution, then it must be terminated" | A process whose last instruction blocks comes back with its `pc` at the end; the do-while executes before it looks, and fetches past the code. |
| `kernel_used_page` | `terminal.c:1049` "the page index ... otherwise, returns -1" | While `process_finish` is between the table and the segment, a used page has no process, and `page_inuse_index` dereferences the `NULL` it is given. |
| `list_race` | `list.c:60` "It adds the content at the end of the linked list" | The terminal thread adds to a ready queue (`kernel.c:192`) from which the CPU thread takes the only node: `list_remove_head` sets `tail` to `NULL`, or `head` past the new node, between the lines of `list_add`. The process is never scheduled. |
| `sem_table` | `semaphore.h:24` "This list is not NULL since this semaphore is initialized" | `len` counts an entry before `semaphore_init` sets its waiters (`semaphore.c:77`), and `realloc` frees an array the CPU thread or the resource view is walking. |
| `loader_names` | `process.c:137` "It frees the process allocated memory" | Without a line of semaphores the field is never set; in a block another process has used, `process_finish` frees that one's array a second time. |

Other differences between text and code were met on the way:

* a start priority of 1 goes to the high queue, while `README.md:81` says that 0 is
  the highest (`kernel.c:191`);
* `read_code` counts the blank lines that `process.c:259` says to ignore, so that the
  CPU executes as many entries nobody has written at the end of the code
  (`process.c:238`; `PagesHoldTheProgram` says where they are). One of them may be
  the V of a program that has finished: it is executed while another program is in
  the critical region that `README.md:118` says it bounds, and a third enters.
  `MCKernelBlankLine.cfg` states this as `CriticalRegion`, and TLC finds the
  violation; `MutualExclusion` says what is left of it. A file in the format of the
  README whose list of semaphores is empty has such a line;
* `segment_free` "sums the freed memory to the amount of addressable memory space"
  (`memory.c:159`), but on the CPU thread, while on the terminal thread a load may
  have read `remaining` and not yet written what it computes from it
  (`memory.c:192`): when the last process has finished, less than the whole memory
  is left. `MCLoaderMemory.cfg` states that nothing is lost as `NoLostMemory`, and
  TLC finds the violation; `LostByOverlapOnly` says when alone it can be;
* for the track under an arm that moves inwards the way to track 0 and back is
  charged (`disk.c:136` has `<` where the other direction has `>=`), while
  `disk.h:77` says that `turnaround` is what the disk will take;
* after a swap `remaining` is all that was freed, without the part the new segment
  takes (`memory.c:203`), while `memory.h:62` says it is what is available;
* the arm visits `DISK_TRACK_LIMIT + 1` tracks (`disk.c:69`, `disk.h:18`);
* an unblocked process stays marked `BLOCKED` until it is scheduled (`sched.c:98`;
  `StateAgreesWithPlace` allows it);
* the `break` of `memory_page_swap` leaves only the loop over one segment
  (`memory.c:88`): in each segment that follows, the pass still drops one page, which
  `visited_pages` models as it is;
* blank lines that end in CRLF are recognised (`process.c:260`), but not the line of
  semaphores before them (`process.c:203`).

**Bounds.** Three processes are the fewest with a queue of two behind a running
one; every property of the scheduler relates two processes at most. Two semaphores
are the fewest that nest. In `disk` three processes give lists of four nodes,
since a process that was woken may ask again before its old node is removed; and
starvation takes three: two that keep each other's walk alive and one that waits
for another track. Three tracks have an inner track, and one no program names.
`SBound` cuts the value of a semaphore that is released without having been
acquired; the behaviour does not depend on the value above zero. Four list nodes
are two more than the threads that may hold one. `MaxRecords` is 4: the records of
a request, of the file it opens, of the transfer and of the file closed; a view
needs three to have one shown, one passed over and one to wait for. `Screened`
names the logs beside which the refresh thread and the user run: all but the I/O
log, which has two writers, and whose view is the same as that of the disk log. In
`loader` there are three blocks for four files, one for each process alive: a
fourth is parsed when one has finished, so that blocks are used again. In
`kernel_*` the programs are cut from the samples `synt1` to `synt4`: the lengths
bound every counter. `LEFT_OVERS` bounds how far behind the written instructions
of a process those of other programs may be found; 2 is one more than the blank
lines. The two larger programs of `loader` do not fit into its memory together, so
that one is loaded by a pass while another process ends. Processes, semaphores and
nodes that the constants do not tell apart are symmetric in `semaphore` and
`linked_list`. Deadlock is checked, except where a run may really stop: in
`semaphore` when every process has finished, in `loader` when the parser has left
the simulator, in `linked_list`, `list_race` and `io_log` when all nodes or
records are used up.

**Fairness.** `KernelFairness` is weak fairness of each thread. The CPU thread and
the disk thread poll and never block, the terminal thread completes a creation it
has begun, and the operating system schedules all three. Nobody is bound to create
a process. In `DiskFairness`, likewise, nobody is bound to make a request, nor to
stop making them: no fairness of the threads ends a walk that the processes it wakes
keep alive, for the arm moves only after it. In the program each of them needs a turn
of the CPU, whose instructions take a second, between its wake-up and the removal of
its node, which is a matter of time and not of order. So `EveryRequestIsServed` has
the hypothesis that walks end (`WalksEnd`), and its second part says
what alone keeps one from ending.
In `Logs` a view is strongly fair, for it competes for `print_mutex` with a refresh
thread that sleeps for a sixth of a second between two rounds (`terminal.c:128`),
with the memory view and with the views of the other logs. The refresh thread and the
memory view are weakly fair, and another view that has the mutex lets go of it;
writers may pause, and the user may leave a prompt open, for ever.
`EveryProcessFinishes` holds for programs that acquire semaphores in one order and
release them, have no blank lines and do not end with an instruction that blocks; for
others it does not.

## What is proved

Every theorem holds for all values of the constants that the assumptions named
here allow. The assumptions are evaluated by TLC on every instance that is run.

| Assumption | Says | Why the code justifies it |
|---|---|---|
| `NullAssumption`, `PriorityAssumption`, `ChargesAssumption` (`Scheduler`) | `NULL` is no process; priorities are integers; charges are not negative | `process_t` pointers; `int priority`; times of a program file |
| `ProcessAssumption` (`FileTable`) | there are finitely many processes | memory is finite |
| `DiskTrackLimitAssumption`, `DiskTrackAssumption` (`Disk`) | the last track is a natural number, and so is every track asked for, on the disk or past it; only `DiskServesWithinASweep` has the hypothesis, `DiskTrack \subseteq Tracks`, that none is past it | `disk.h`; a negative track is a hazard listed separately |
| `SegIdAssumption`, `MemoryAssumption` (`Memory`) | sizes are natural numbers and no two processes share a segment id | the repository's README forbids equal ids |
| `LoaderAssumption`, `FileAssumption` (`Loader`) | `NULL` and `UNSET` are none of the other values; the fields of a program file have the shape the format gives them | `process.c` reads them in this order |
| `ThreadAssumption`, `InodeAssumption` (`Logs`), `BoundAssumption` (`LogView`) | the CPU and the disk thread are two; there are finitely many files; the bound on the records is a number | `main.c`; a disk has finitely many blocks; the bound may be any |
| `NullAssumption` (`LinkedList`), `UsesAssumption`, `HeadsAssumption` (`ListSteps`) | `NULL` is no node; each thread calls some of the three functions; the heads of a list are taken by one thread, and nodes of that list by no other | pointers; `ListSteps.tla` lists the callers |
| `ComponentAssumption` (`Kernel`) | the above, for the components put together | |
| `ProgramAssumption` (`Kernel`) | programs read and write tracks of the disk; memory that held no instruction before (`UninitInstr`) holds no P or V | tracks off the disk are a hazard listed separately; the operand of such a P would be a stray pointer. The P and V that other programs have left are modelled (`left_overs`) |
| `CostAssumption` (`Kernel`) | what the kernel charges is among the charges | `kernel.c`, `disk.c` |

`SchedulingProofs`, of the scheduler, for any processes, priorities and charges:

* `SchedulerTypes`, `SchedulerOnePlace`, `SchedulerStates`: the invariants
  `SchedTypeOK`, `OnePlace` and `StateAgreesWithPlace`. None is inductive alone.
  Their conjunction `SchedInv` is: `Admit` appends a process without looking
  whether it is queued, which is safe because a `NEW` process is nowhere (the
  states); the states after `schedule_process` are right because the process that
  takes the CPU is not the one that leaves it (one place); and `Head` of a queue
  is a process only if the queues hold no `NULL` (the types).
* `SchedulerKeepsOrder`: `NoOvertaking`. Each queue changes by an append, a tail,
  or the removal of a member, and none of these changes the order of the rest.
* `SchedulerImplementsLifecycle`: `Scheduler` implements `ProcessLifecycle` under
  the mapping `stage`. Each call is an admission, a switch of the CPU, a wake-up or
  a stutter.

The proofs rest on lemmas about queues (sequences without repetition): which
processes are in a queue after an append, after its head is taken, after a member
is removed (`QueueAppend`, `QueueTail`, `QueueRemove`); and on `ScheduleEffect`,
which says where every process is after `schedule_process`.

`SchedulingProofs`, of the semaphores, for any processes and any semaphore names: `SemTypeOK`,
`ValueCountsWaiters`, `WaitersSleep`, `VWakesTheFirstWaiter`, and that the calls
a semaphore makes are ones the scheduler's specification allows
(`SemImplementsSched`), so that `NoOvertaking` carries over. The inductive
invariant `SemInv` adds to the scheduler's invariant that a name not yet in the
table has value 0. No part of it is inductive alone: P keeps `WaitersSleep` only
because the process that runs is in no queue (`OnePlace`); V takes the head of a
list only because the value counts the waiters, and wakes it only because waiters
sleep. `VEffect` says what V does to a semaphore somebody waits for.

`DiskProofs`, for any track limit and any processes: `DiskTypeOK`,
`ServedNodeIsListed` and `OneRequestPerProcess`, together inductive (`DiskInv`): a
removal leaves the position of the next node right only if the node it takes off is
the one that was served, and a process that was woken may ask again only because
its old node is the one at that position. With the history of `DiskTravel`,
`TravelInv` gives `ServedAsForetold`: at every moment the moves made and the moves
to go to a request's track (`ToGo`) make up the estimate. `NamedTracks`, that
programs name only tracks the arm reaches, gives `ServedWithinASweep`.

`FileTableProofs`, for any finite set of processes and any files: `FileTypeOK`, `CountsUsers`,
`ActiveIsInUse`. The invariant `FileInv` is the three together: a count is right
after a request only if an inode that is not active has no users, and dropping an
inode is right only if its count is right. The type invariant says that
`o_count` never goes below zero, which needs both.

`MemoryProofs` and `LoaderProofs`, for any segments, pages and program files:
`LostByOverlapOnly`, `SwapFreesEnough`, `SemaphoresAreKnown`, `PagesHoldTheProgram`
and `LoaderTypeOK`. `SemaphoresAreKnown` says that the names in the code of a created
process are in the semaphore table, from the parse on; it does not say that the
process itself put them there, and for a name cut at the end of a file it may be
another. `Memory` states what `memory_page_swap` visits and leaves in closed form, by which unused
pages come before which, since the provers cannot reason by induction over its two
loops; `PassIsTheLoop` in `MCLoader` says that this is the loop, and TLC evaluates
it on segment lists of several shapes. The proofs count units and pages as sets:
the pages freed before the pass stops are fewer than the segment needs
(`PassFreesNoMore`), and all of them together enough when any are left
(`PassFreesEnough`). The invariant of the table, `MemInv`, says that a segment has
the size of its process, each process one segment, and a segment that is being
loaded is that of a process which has none. `LostByOverlapOnly` is a statement about
behaviours: if updates never overlap, `Balanced` is inductive, which counts what is
left, what the segments hold and what a call under way has taken or will give back,
and says what a thread has read is still so when it writes; at rest it is
`NoLostMemory`. Without the hypothesis it is false.

`LoaderInv` adds that a process is parsed and loaded once and that what waits to be
loaded is known. `PagesHoldTheProgram` needs besides that the array which waits is
that of the process being parsed, and that the pages of each process keep what
`read_code` gave for it (`PagesInv`); that two lines never share a slot of the pages
(`SlotsDiffer`); and that the place of a line in the array is the number of the
instructions before it (`ReadCodePlaces`). `Loader` defines the place by that number
(`Before`) and not by the loop; `PlacesAreTheLoop` in `MCLoader` compares the two.

`LinkedListProofs`, for any set of nodes: `ListTypes` and `ListRepresents`, that the
pointers stand for the sequence of the nodes added and not removed, in both
directions. This is what lets the other modules write a list as a sequence.
`PointersRepresent` is inductive together with the types: an insertion or removal
changes the pointers of two neighbours, and no other node of the sequence has them
as neighbours because no node is in it twice. The lemmas say which place of the
sequence a node has after an append, and after the removal of the head, the tail
or a node in between.

`LinkedListProofs`, of `ListSteps`, for any nodes, any number of threads and any uses
the assumptions allow:

* `ListIntactUnlessTheyMeet`: `IntactUnlessTheyMeet`. The inductive invariant is
  `~met => StepInv`. While calls are under way the pointers do not stand for
  `listed`, but they miss it in a known way: `Spots(Ahead)` are the places which the
  pointers before them already skip, `Spots(Behind)` those the pointers behind them
  skip, `Spots(Off)` those whose own pointers no longer count, and the node of the
  thread that adds joins the end at `Linking` and the tail at `Ending`. That two
  threads have not met keeps the skipped places apart and the last place whole,
  which is what each statement relies on when it writes through `next[n]` or
  `prev[n]`; without it none of the cases goes through.
* `LoneCallsAreAtomic`: `LoneCallIsAtomic`. With one thread, `SinceCall` says at each
  statement what has changed since the call; `before` is then what `LinkedList` sees,
  and the return is its one step. A lone thread meets nobody, so that `StepInv` holds.
* `WalksMissNobody`: `SearchMissesNobody`. A set that holds the node a walk starts
  from, and is closed under `next`, holds every place behind it that is not skipped:
  an induction over the places, with the numbers for which it holds as a set
  (`NaturalsIn`, from the well-foundedness of `<`). Conversely the places behind a
  node, with the node being added, are such a set, so the walk meets no other.

`LogsProofs`, for any number of records, any processes and any finite set of files:
`LogsTypeOK`, `ViewHasANode`, `NothingUnnoticed`, `MemoryRedrawn`, `ShownInOrder`
and `TransfersWithinUse`. The inductive invariant `LogsInv` has two halves.

* `ListInv` is about the list and the view. `FirstRecord` says that only one thread
  writes until the first record is the tail, so that a view that is woken finds a
  node, and the tails it takes are nodes. `OneWriter` says how far the list can be
  ahead of its tail: one record, and so a view that has shown the record being
  linked does not fall behind it when it takes the tail. `Noticed` says that a
  record which is the tail, and which a waiting view has not reached, has a post
  left or a thread about to post; for the process view, which uses up one post
  before its first round, it counts the posts until then. `PostsAreRecords` gives
  the bound on the semaphores. Nothing in `Noticed` needs the list to be whole, and
  so `NothingUnnoticed` holds even of the I/O log when two threads that add lose a
  node.
* `IoInv` is about the requests and the files: a process has one request at most,
  in the call of the CPU thread, pending, or in the call of the disk thread
  (`OneRequestEach`), sleeps meanwhile and so keeps the file open; and of a file that
  is active an `open` comes after the last `close`, counting the records the CPU
  thread is about to write. Records of the disk thread may fall anywhere between
  these (`OpenedStays`).

`KernelProofs`, for any programs, processes and semaphores and any interleaving of
the three threads:

| Theorem | Property |
|---|---|
| `KernelTypes` | `KernelTypeOK` |
| `KernelImplementsScheduler` | `KernelImplementsSched`: the kernel implements the specification of the scheduler |
| `KernelKeepsOrder` | hence `NoOvertaking` and the life cycle of a process |
| `KernelLosesNobody` | `EveryLiveProcessHasAPlace` |
| `KernelWakers` | `EverySleeperHasOneWaker` |
| `KernelNoDangling` | `NoDanglingProcess` |
| `KernelRunsOwnCode` | `RunsOwnCode` |
| `KernelExcludes` | `MutualExclusion` |
| `KernelKeepsComponents` | the invariants of the components hold inside the kernel |

They follow from one inductive invariant, `KernelInv` (for `KernelExcludes` together
with `MutexInv`, below). It joins the invariants of the components with five parts of
its own: `ThreadTypes`; `CallInv`, what the CPU thread, and a load or the freeing of a
segment, is in the middle of, so that its next step finds the process where the last
left it; `SliceInv`, that a process which runs has not overdrawn its slice, without
which a charge would not be one the scheduler allows; `SleepInv`, that a process
sleeps exactly while it waits for a semaphore, has a request in the
disk's list or is in a system call, and for one of them only; and `LifeInv`, what
a process has at each stage of its life: an entry of the process table, a
segment, memory, a state other than new, registered semaphores, and pages only of
programs that were parsed before it in its array of code. None
of these theorems has a smaller invariant. That `DISK_FINISH` wakes no process
asleep for a semaphore needs `SleepInv`; that a sleeping process still has its
segment needs `LifeInv`; that a fetch finds the process's own program, and so a
semaphore that is registered, even if another program has left it, needs both the segment (`LifeInv`) and the uniqueness of
ids (`MemInv`). The steps of the components are taken from the proofs about each
of them (`DiskFinishStep`, `MemFreeStep`, ...): the kernel's proof sees only which
processes are asleep, in place, pending or loaded after a step.

`MutualExclusion` speaks of the semaphores in `Bracketed`: those on which every
program, after any number of its instructions, has done as many V as P or one P more.
For others it is false, and should be. `MutexInv` says of each of them that nobody
waits who has not asked for it, that one process at most owns it (has asked and does
not wait), and that its value is 1 exactly when nobody does (`OwnedOnce`). A P that
finds the value at 1 therefore becomes the only owner; a V is the owner's, since a
process that runs waits for nothing (`KernelInv`), and hands the semaphore to the head
of the waiters or leaves it free. A semaphore is new, with value 1, only when it was
not in the table: then no process that names it has been created yet, since creating
one registers its semaphores (`LifeInv`), and nobody has run a P on it. `TookNext`
says what one more written instruction adds to the count. A P or V no line of the
program has written makes the semaphore one of `strayed`, of which nothing is said any
more; the others keep their owner through it.

`SchedulerTypes`, `FileTableTypes` and the parts of `KernelKeepsComponents` state
invariants that runs check as a part of `KernelTypeOK` and `LogsTypeOK` or for a
component alone. `ListTypes` and `ListRepresents` have no run of their own:
`linked_list` checks `PointersRepresent` and that `ListSteps` implements `LinkedList`.

Every safety property and action property of the passing runs is stated by a theorem.
Only model-checked, and why:

* liveness (`EveryRequestIsServed`, `EveryProcessFinishes`, `ViewCatchesUp`), which
  needs fairness and `ENABLED`, out of the reach of TLAPS;
* that the closed forms of `memory_page_swap` and `read_code` are the loops of the
  code (`PassIsTheLoop`, `PlacesAreTheLoop` in `MCLoader`): what a fold or
  `SelectSeq` computes for every list is an induction over a recursive definition,
  and the library's theorems for that take an operator as a parameter, which the
  provers cannot instantiate;
* the five runs that end in a violation.

## Not modelled

* **Windows.** Layout, colours, titles, the keys of the menu and what curses does
  when two threads draw at once (`terminal.c:805`). `Terminal` is therefore only
  partly modelled: what is left draws, and changes nothing the simulator reads.
* **Three threads in one list.** The low queue is appended to by the terminal and
  the disk thread while the CPU thread removes its head. The runs of `ListSteps` have
  two threads, of which one may be either of the former; its theorems have any number.
* **Kernel on racing lists.** `Kernel` goes on as if every list operation were one
  step; what follows in it from a lost node is what `list_race` and the hazard at
  `kernel.c:192` say: a process that is never scheduled.
* **Freed memory**, but for a `process_t` (`Loader`), the semaphore table
  (`SemaphoreTable`) and the instructions left in page arrays (`Kernel`): the memory
  view, or the second-chance pass, may stand at a segment that is freed.
* **The pass over the pages in steps**, against the CPU thread that sets used bits.
* **Widths of integers**: a size of 2 GB, the elapsed time after two idle seconds.
* **Tracks off the disk** and **equal segment ids**, which the repository's README
  does not mention or forbids.
* **Text**: lines longer than the buffer, names with spaces, numbers that are none.
* `list_free`, which nobody calls.

Those that are hazards are in the list of hazards, with the line where they bite.

## Plan

1. Done: scheduler, semaphores, disk, files, memory, and the kernel that composes
   them; the proofs about the scheduler, the semaphores and the file table.
2. Done: the linked list with its pointers and its races, and the proof that it is a
   sequence; the semaphore table as an array; the loader; the logs and their views.
3. Done: the proofs about the disk, the memory, the loader and the logs; that
   `Kernel` implements `Scheduler`, and the safety of the kernel for any programs.
4. Done: the proofs about `ListSteps`, that the pages hold the program, and mutual
   exclusion in the kernel for programs that pair their P and V.
5. Left: a run of `ListSteps` with a third thread, for the low queue; `Kernel` on lists that
   race; the memory view and the pass at a segment that is freed.
