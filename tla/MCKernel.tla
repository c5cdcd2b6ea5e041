------------------------------ MODULE MCKernel ------------------------------
(* Small machines for the kernel.  The programs are cut from the sample    *)
(* programs synt1 to synt4: nested semaphores around I/O, in one order.    *)
EXTENDS Kernel, TLC

CONSTANTS p1, p2, p3, s, t

Exec(time) == [op |-> "EXEC", value |-> time]
Printing(time) == [op |-> "PRINT", value |-> time]
Read(track) == [op |-> "READ", value |-> track]
Write(track) == [op |-> "WRITE", value |-> track]
AcquireOf(sem) == [op |-> "SEM_P", sem |-> sem]
ReleaseOf(sem) == [op |-> "SEM_V", sem |-> sem]

(* Two processes: nested critical sections with disk and printer inside.   *)
NestedProgram ==
    (p1 :> <<AcquireOf(s), Read(1), AcquireOf(t), Exec(1200), ReleaseOf(t),
             Printing(100), ReleaseOf(s)>>)
    @@ (p2 :> <<Exec(400), Read(0), AcquireOf(s), AcquireOf(t), Write(1),
                ReleaseOf(t), ReleaseOf(s)>>)

(* Three processes with a critical section: with the disk in it, and a     *)
(* blank line in the program; with another critical section in it; alone.  *)
SharedProgram ==
    (p1 :> <<AcquireOf(s), Read(1), ReleaseOf(s)>>)
    @@ (p2 :> <<AcquireOf(s), AcquireOf(t), ReleaseOf(t), ReleaseOf(s)>>)
    @@ (p3 :> <<AcquireOf(s), ReleaseOf(s)>>)

(* One program that ends with a read, one without I/O.                     *)
ReadProgram ==
    (p1 :> <<Exec(500), Read(1)>>) @@ (p2 :> <<Exec(500), Exec(800)>>)

(* Two programs with a critical section, and one with a blank line.        *)
BlankLineProgram ==
    (p1 :> <<Exec(100)>>)
    @@ (p2 :> <<AcquireOf(s), ReleaseOf(s)>>)
    @@ (p3 :> <<AcquireOf(s), ReleaseOf(s)>>)

NoBlankLines == [p \in Process |-> 0]
OneBlankLine == [p \in Process |-> IF p = p1 THEN 1 ELSE 0]

MCPriority == [p \in Process |-> IF p = p1 THEN 1 ELSE 0]

(* Memory no program has written holds an operation eval does not know, or *)
(* one that goes through.                                                  *)
MCUninitInstr == {NoInstr, Exec(300)}

MCSegId == [p \in Process |-> p]
MCSegSize == [p \in Process |-> IF p = p1 THEN 2 ELSE 3]

(* Whatever the programs above may be charged.                             *)
MCCharges ==
    {100, 200, 300, 400, 500, 800, 1200, 2500}
    \cup {HardDisk!DISK_OPERATION_TIME + n * HardDisk!DISK_TRACK_MOVE_TIME :
            n \in 0..(2 * DISK_TRACK_LIMIT)}
=============================================================================
