------------------------------ MODULE Semaphore ------------------------------
(***************************************************************************)
(* The counting semaphores of the simulated programs,                      *)
(* semaphore/semaphore.c.  A semaphore has a value S that may go below     *)
(* zero and a list of waiters; P puts the caller to sleep through the      *)
(* scheduler and V wakes the process that has waited longest.              *)
(*                                                                         *)
(* P and V run on the CPU thread under the semaphore's own mutex, which    *)
(* nobody else takes: each is one step.                                    *)
(***************************************************************************)
EXTENDS Scheduler

CONSTANT Sem   \* the semaphore names programs may use

VARIABLES
    registered,   \* the semaphores in the semaphore table
    S,            \* semaphore_t.S
    waiters       \* semaphore_t.waiters

sem_vars == <<registered, S, waiters>>

semaphore_table_init ==
    /\ registered = {}
    /\ S = [s \in Sem |-> 0]
    /\ waiters = [s \in Sem |-> <<>>]

(* Mutant: a semaphore is made anew each time it is registered.            *)
semaphore_registerAnew(names) ==
    /\ registered' = registered \cup names
    /\ S' = [s \in Sem |-> IF s \in names THEN 1 ELSE S[s]]
    /\ waiters' = [s \in Sem |-> IF s \in names THEN <<>> ELSE waiters[s]]

(* Registering is idempotent: a semaphore already in the table keeps its   *)
(* value and its waiters.                                                  *)
semaphore_register(names) ==
    LET new == names \ registered
    IN  /\ registered' = registered \cup new
        /\ S' = [s \in Sem |-> IF s \in new THEN 1 ELSE S[s]]
        /\ waiters' = [s \in Sem |-> IF s \in new THEN <<>> ELSE waiters[s]]

(* Mutant: sleep() first, and then the scheduled process is listed.        *)
semaphore_PSleepsFirst(s, p) ==
    /\ S' = [S EXCEPT ![s] = @ - 1]
    /\ IF S'[s] < 0
         THEN /\ schedule_process("SEMAPHORE_BLOCKED")
              /\ waiters' = [waiters EXCEPT ![s] = Append(@, scheduled_proc')]
         ELSE UNCHANGED <<waiters, sched_vars>>
    /\ UNCHANGED registered

(* Mutant: the process is put to sleep and keeps the CPU.                  *)
semaphore_PKeepsCpu(s, p) ==
    /\ S' = [S EXCEPT ![s] = @ - 1]
    /\ IF S'[s] < 0
         THEN /\ waiters' = [waiters EXCEPT ![s] = Append(@, p)]
              /\ blocked_queue' = Append(blocked_queue, p)
              /\ state' = [state EXCEPT ![p] = "BLOCKED"]
              /\ UNCHANGED <<scheduled_proc, high_queue, low_queue, remaining>>
         ELSE UNCHANGED <<waiters, sched_vars>>
    /\ UNCHANGED registered

semaphore_P(s, p) ==
    /\ S' = [S EXCEPT ![s] = @ - 1]
    /\ IF S'[s] < 0
         THEN /\ waiters' = [waiters EXCEPT ![s] = Append(@, p)]
              /\ schedule_process("SEMAPHORE_BLOCKED")
         ELSE UNCHANGED <<waiters, sched_vars>>
    /\ UNCHANGED registered

(* Mutant: the last waiter is not woken.                                   *)
semaphore_VOneTooFew(s) ==
    /\ S' = [S EXCEPT ![s] = @ + 1]
    /\ IF S'[s] < 0
         THEN /\ waiters' = [waiters EXCEPT ![s] = Tail(@)]
              /\ schedule_unblock_process(Head(waiters[s]), "HIGH_QUEUE")
         ELSE UNCHANGED <<waiters, queue_vars>>
    /\ UNCHANGED <<registered, scheduled_proc, state, remaining>>

(* Mutant: the process that is woken stays in the list of waiters.         *)
semaphore_VKeepsWaiter(s) ==
    /\ S' = [S EXCEPT ![s] = @ + 1]
    /\ IF S'[s] <= 0 THEN schedule_unblock_process(Head(waiters[s]), "HIGH_QUEUE")
                     ELSE UNCHANGED queue_vars
    /\ UNCHANGED <<waiters, registered, scheduled_proc, state, remaining>>

(* Mutant: the head of the list is removed and the tail woken.             *)
semaphore_VWakesLast(s) ==
    /\ S' = [S EXCEPT ![s] = @ + 1]
    /\ IF S'[s] <= 0
         THEN /\ waiters' = [waiters EXCEPT ![s] = Tail(@)]
              /\ schedule_unblock_process(Last(waiters[s]), "HIGH_QUEUE")
         ELSE UNCHANGED <<waiters, queue_vars>>
    /\ UNCHANGED <<registered, scheduled_proc, state, remaining>>

semaphore_V(s) ==
    /\ S' = [S EXCEPT ![s] = @ + 1]
    /\ IF S'[s] <= 0
         THEN /\ waiters' = [waiters EXCEPT ![s] = Tail(@)]
              /\ schedule_unblock_process(Head(waiters[s]), "HIGH_QUEUE")
         ELSE UNCHANGED <<waiters, queue_vars>>
    /\ UNCHANGED <<registered, scheduled_proc, state, remaining>>

-----------------------------------------------------------------------------
(* The environment: programs that use any registered semaphore in any      *)
(* order, end a slice, wait for I/O and finish.                            *)

WaitsFor(p, s) == In(waiters[s], p)
Waits(p) == \E s \in Sem : WaitsFor(p, s)

Register(s) == semaphore_register({s}) /\ UNCHANGED sched_vars

P(s) ==
    /\ scheduled_proc # NULL /\ s \in registered
    /\ semaphore_P(s, scheduled_proc)

V(s) ==
    /\ scheduled_proc # NULL /\ s \in registered
    /\ semaphore_V(s)

(* Everything else the scheduler is asked for.  An I/O device wakes only   *)
(* processes that wait for it, and so none that waits for a semaphore.     *)
OtherCall ==
    /\ \/ Dispatch
       \/ \E flags \in SchedulerFlag \ {"SEMAPHORE_BLOCKED"} : Interrupt(flags)
       \/ \E p \in Process :
            \/ Admit(p)
            \/ Charge(p)
            \/ ~Waits(p) /\ Unblock(p, "LOW_QUEUE")
    /\ UNCHANGED sem_vars

SemInit == SchedInit /\ semaphore_table_init

SemNext ==
    \/ \E s \in Sem : Register(s) \/ P(s) \/ V(s)
    \/ OtherCall

SemSpec == SemInit /\ [][SemNext]_<<sched_vars, sem_vars>>

-----------------------------------------------------------------------------
(* Properties *)

SemTypeOK ==
    /\ registered \subseteq Sem
    /\ S \in [Sem -> Int]
    /\ waiters \in [Sem -> Seq(Process)]

(* A negative value counts the waiters, and nobody waits otherwise.  This  *)
(* is what lets semaphore_V take the head of the list without looking      *)
(* whether there is one.                                                   *)
ValueCountsWaiters ==
    \A s \in Sem : Len(waiters[s]) = IF S[s] < 0 THEN -S[s] ELSE 0

(* A waiter is asleep, and waits for one semaphore, once.  Were it already *)
(* out of the blocked queue, schedule_unblock_process would return early   *)
(* and the V meant for it would be lost.                                   *)
WaitersSleep ==
    /\ \A s \in Sem : IsInjective(waiters[s])
    /\ \A s \in Sem, p \in Process : WaitsFor(p, s) => In(blocked_queue, p)
    /\ \A s, t \in Sem, p \in Process :
         WaitsFor(p, s) /\ WaitsFor(p, t) => s = t

(* A V on a semaphore somebody waits for makes the process that has waited *)
(* longest ready, puts it in the high queue, and wakes nobody else.        *)
VWakesTheFirstWaiter ==
    [][\A s \in Sem :
         S'[s] > S[s] /\ waiters[s] # <<>> =>
            \A p \in Process :
               In(blocked_queue, p) /\ ~In(blocked_queue', p)
                 <=> p = Head(waiters[s]) /\ In(high_queue', p)
      ]_<<sched_vars, sem_vars>>

(* The scheduler is used as its specification allows.                      *)
SemImplementsSched == SchedSpec
=============================================================================
