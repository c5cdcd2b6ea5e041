-------------------------- MODULE SchedulingProofs --------------------------
(***************************************************************************)
(* Theorems about the scheduler, for any set of processes, any priorities  *)
(* and any charges, and about the semaphores, for any names: first what    *)
(* the scheduler keeps, then that P and V use it as it may be used.        *)
(***************************************************************************)
EXTENDS Semaphore, TLAPS

-----------------------------------------------------------------------------
(* Lists.  A queue of distinct processes stays one when a process it does  *)
(* not hold is appended, and when its head or any member is removed; the   *)
(* lemmas say which processes are in it afterwards.                        *)

Queue == {q \in Seq(Process) : IsInjective(q)}

LEMMA EmptyQueue ==
    /\ <<>> \in Queue
    /\ \A x : ~In(<<>>, x)
BY DEF Queue, IsInjective, In

LEMMA QueueAppend ==
    ASSUME NEW q \in Queue, NEW p \in Process, ~In(q, p)
    PROVE  /\ Append(q, p) \in Queue
           /\ \A x : In(Append(q, p), x) <=> In(q, x) \/ x = p
<1>1. Append(q, p) \in Seq(Process) /\ Len(Append(q, p)) = Len(q) + 1
  BY DEF Queue
<1>2. \A i \in 1..Len(q) : Append(q, p)[i] = q[i]
  BY DEF Queue
<1>3. Append(q, p)[Len(q) + 1] = p
  BY DEF Queue
<1>4. IsInjective(Append(q, p))
  BY <1>1, <1>2, <1>3 DEF IsInjective, In, Queue
<1>5. ASSUME NEW x PROVE In(Append(q, p), x) <=> In(q, x) \/ x = p
  BY <1>1, <1>2, <1>3 DEF In, Queue
<1> QED BY <1>1, <1>4, <1>5 DEF Queue

LEMMA QueueTail ==
    ASSUME NEW q \in Queue, q # <<>>
    PROVE  /\ Tail(q) \in Queue
           /\ Head(q) \in Process /\ In(q, Head(q))
           /\ \A x : In(Tail(q), x) <=> In(q, x) /\ x # Head(q)
<1>1. /\ Tail(q) \in Seq(Process) /\ Len(Tail(q)) = Len(q) - 1
      /\ Len(q) >= 1 /\ Len(q) \in Nat
  BY DEF Queue
<1>2. \A i \in 1..(Len(q) - 1) : Tail(q)[i] = q[i + 1]
  BY DEF Queue
<1>3. Head(q) = q[1] /\ Head(q) \in Process
  BY <1>1 DEF Queue
<1>4. IsInjective(Tail(q))
  BY <1>1, <1>2 DEF IsInjective, Queue
<1>5. In(q, Head(q))
  BY <1>1, <1>3 DEF In, Queue
<1>6. ASSUME NEW x PROVE In(Tail(q), x) <=> In(q, x) /\ x # Head(q)
  <2>1. ASSUME In(Tail(q), x) PROVE In(q, x) /\ x # Head(q)
    BY <2>1, <1>1, <1>2, <1>3 DEF In, IsInjective, Queue
  <2>2. ASSUME In(q, x), x # Head(q) PROVE In(Tail(q), x)
    <3>1. PICK i \in 1..Len(q) : q[i] = x
      BY <2>2 DEF In, Queue
    <3>2. i - 1 \in 1..(Len(q) - 1)
      BY <3>1, <2>2, <1>1, <1>3
    <3>3. Tail(q)[i - 1] = x
      BY <3>1, <3>2, <1>1, <1>2
    <3>4. i - 1 \in DOMAIN Tail(q)
      BY <3>2, <1>1
    <3> HIDE DEF In
    <3> QED BY <3>3, <3>4 DEF In
  <2> QED BY <2>1, <2>2
<1> QED BY <1>1, <1>3, <1>4, <1>5, <1>6 DEF Queue

LEMMA QueueRemove ==
    ASSUME NEW q \in Queue, NEW p \in Process, In(q, p)
    PROVE  /\ list_remove(q, p) \in Queue
           /\ \A x : In(list_remove(q, p), x) <=> In(q, x) /\ x # p
<1> DEFINE i == list_search(q, p)
           r == list_remove(q, p)
<1>1. i \in 1..Len(q) /\ q[i] = p /\ Len(q) \in Nat
  <2>1. PICK k \in DOMAIN q : q[k] = p
    BY DEF In
  <2>2. \A j \in DOMAIN q : q[j] = p => j = k
    BY <2>1 DEF Queue, IsInjective
  <2>3. k \in Int /\ DOMAIN q = 1..Len(q) /\ Len(q) \in Nat
    BY <2>1 DEF Queue
  <2>4. \E m \in DOMAIN q : q[m] = p /\ \A j \in DOMAIN q : q[j] = p => m <= j
    BY <2>1, <2>2, <2>3
  <2> QED BY <2>3, <2>4 DEF list_search
<1> HIDE DEF i
<1> DEFINE a == SubSeq(q, 1, i - 1)
           b == SubSeq(q, i + 1, Len(q))
<1>2. r = a \o b
  BY DEF list_remove, RemoveAt, i
<1>3. a \in Seq(Process) /\ Len(a) = i - 1 /\ \A j \in 1..(i - 1) : a[j] = q[j]
  BY <1>1 DEF Queue
<1>4. /\ b \in Seq(Process) /\ Len(b) = Len(q) - i
      /\ \A j \in 1..(Len(q) - i) : b[j] = q[i + j]
  BY <1>1 DEF Queue
<1> HIDE DEF a, b, r
<1>5. r \in Seq(Process) /\ Len(r) = Len(q) - 1
  <2>1. a \in Seq(Process) /\ b \in Seq(Process)
    BY <1>3, <1>4
  <2>2. a \o b \in Seq(Process) /\ Len(a \o b) = Len(a) + Len(b)
    BY <2>1
  <2> QED BY <2>2, <1>1, <1>2, <1>3, <1>4
<1>6. \A j \in 1..(Len(q) - 1) : r[j] = IF j < i THEN q[j] ELSE q[j + 1]
  <2> SUFFICES ASSUME NEW j \in 1..(Len(q) - 1)
               PROVE  r[j] = IF j < i THEN q[j] ELSE q[j + 1]
    OBVIOUS
  <2>1. CASE j < i
    BY <2>1, <1>1, <1>2, <1>3, <1>4
  <2>2. CASE j >= i
    <3>1. j - (i - 1) \in 1..(Len(q) - i) /\ i + (j - (i - 1)) = j + 1
      BY <2>2, <1>1
    <3>2. r[j] = b[j - (i - 1)]
      BY <2>2, <1>1, <1>2, <1>3, <1>4
    <3> QED BY <3>1, <3>2, <2>2, <1>1, <1>4
  <2> QED BY <2>1, <2>2, <1>1
<1>7. IsInjective(r)
  BY <1>1, <1>5, <1>6 DEF IsInjective, Queue
<1>8. ASSUME NEW x PROVE In(r, x) <=> In(q, x) /\ x # p
  <2>1. ASSUME In(r, x) PROVE In(q, x) /\ x # p
    <3>1. PICK k \in 1..(Len(q) - 1) : r[k] = x
      BY <2>1, <1>1, <1>5 DEF In
    <3>2. PICK j \in 1..Len(q) : q[j] = x /\ j # i
      BY <3>1, <1>1, <1>6
    <3> QED BY <3>2, <1>1 DEF In, IsInjective, Queue
  <2>2. ASSUME In(q, x), x # p PROVE In(r, x)
    <3>1. PICK k \in 1..Len(q) : q[k] = x
      BY <2>2 DEF In, Queue
    <3>2. CASE k < i
      BY <3>1, <3>2, <1>1, <1>5, <1>6 DEF In
    <3>3. CASE k > i
      <4>1. k - 1 \in 1..(Len(q) - 1) /\ r[k - 1] = x
        BY <3>1, <3>3, <1>1, <1>6
      <4> QED BY <4>1, <1>5 DEF In
    <3> QED BY <3>1, <3>2, <3>3, <2>2, <1>1
  <2> QED BY <2>1, <2>2
<1> QED BY <1>5, <1>7, <1>8 DEF Queue, r

-----------------------------------------------------------------------------
(* The inductive invariant.  OnePlace needs the types (NULL is in no       *)
(* queue) and the agreement of the state with the place: Admit may append  *)
(* a NEW process only because a NEW process is nowhere.                    *)

SchedInv == SchedTypeOK /\ OnePlace /\ StateAgreesWithPlace

LEMMA QueuesOfInv ==
    SchedInv <=>
        /\ scheduled_proc \in Process \cup {NULL}
        /\ high_queue \in Queue /\ low_queue \in Queue /\ blocked_queue \in Queue
        /\ state \in [Process -> ProcessState]
        /\ remaining \in [Process -> Int]
        /\ \A p \in Process :
             /\ ~(In(high_queue, p) /\ In(low_queue, p))
             /\ ~(Ready(p) /\ In(blocked_queue, p))
             /\ scheduled_proc = p => ~Ready(p) /\ ~In(blocked_queue, p)
        /\ StateAgreesWithPlace
BY DEF SchedInv, SchedTypeOK, OnePlace, Queue

(* Where every process is after schedule_process.                          *)
LEMMA ScheduleEffect ==
    ASSUME SchedInv, NEW flags \in SchedulerFlag, schedule_process(flags)
    PROVE  /\ high_queue' \in Queue /\ low_queue' \in Queue
           /\ blocked_queue' \in Queue
           /\ scheduled_proc' = new_scheduled
           /\ \/ new_scheduled \in Process /\ Ready(new_scheduled)
              \/ new_scheduled = NULL /\ \A x \in Process : ~Ready(x)
           /\ \A x \in Process :
                /\ In(high_queue', x) <=> \/ In(high_queue, x) /\ x # new_scheduled
                                          \/ Expires(flags) /\ x = scheduled_proc
                /\ In(low_queue', x) <=> In(low_queue, x) /\ x # new_scheduled
                /\ In(blocked_queue', x) <=> \/ In(blocked_queue, x)
                                             \/ Blocks(flags) /\ x = scheduled_proc
<1> DEFINE high == IF high_queue # <<>> THEN Tail(high_queue) ELSE <<>>
           low  == IF high_queue = <<>> /\ low_queue # <<>>
                     THEN Tail(low_queue) ELSE low_queue
<1>0. /\ scheduled_proc \in Process \cup {NULL}
      /\ high_queue \in Queue /\ low_queue \in Queue /\ blocked_queue \in Queue
      /\ \A p \in Process :
           /\ ~(In(high_queue, p) /\ In(low_queue, p))
           /\ scheduled_proc = p => ~Ready(p) /\ ~In(blocked_queue, p)
  BY QueuesOfInv
<1>1. /\ scheduled_proc' = new_scheduled
      /\ high_queue' = IF Expires(flags) THEN Append(high, scheduled_proc) ELSE high
      /\ low_queue' = low
      /\ blocked_queue' = IF Blocks(flags) THEN Append(blocked_queue, scheduled_proc)
                                    ELSE blocked_queue
  BY DEF schedule_process, Blocks, Expires
<1>2. \/ new_scheduled \in Process /\ Ready(new_scheduled)
      \/ new_scheduled = NULL /\ \A x \in Process : ~Ready(x)
  <2>1. CASE high_queue # <<>>
    BY <2>1, <1>0, QueueTail DEF new_scheduled, Ready
  <2>2. CASE high_queue = <<>> /\ low_queue # <<>>
    BY <2>2, <1>0, QueueTail DEF new_scheduled, Ready
  <2>3. CASE high_queue = <<>> /\ low_queue = <<>>
    BY <2>3, EmptyQueue DEF new_scheduled, Ready
  <2> QED BY <2>1, <2>2, <2>3
<1>3. /\ high \in Queue
      /\ \A x \in Process : In(high, x) <=> In(high_queue, x) /\ x # new_scheduled
  <2>1. CASE high_queue # <<>>
    BY <2>1, <1>0, QueueTail DEF new_scheduled
  <2>2. CASE high_queue = <<>>
    BY <2>2, EmptyQueue
  <2> QED BY <2>1, <2>2
<1>4. /\ low \in Queue
      /\ \A x \in Process : In(low, x) <=> In(low_queue, x) /\ x # new_scheduled
  <2>1. CASE high_queue # <<>>
    <3>1. new_scheduled \in Process /\ In(high_queue,  new_scheduled)
      BY <2>1, <1>0, QueueTail DEF new_scheduled
    <3> QED BY <3>1, <2>1, <1>0
  <2>2. CASE high_queue = <<>> /\ low_queue # <<>>
    BY <2>2, <1>0, QueueTail DEF new_scheduled
  <2>3. CASE high_queue = <<>> /\ low_queue = <<>>
    BY <2>3, EmptyQueue
  <2> QED BY <2>1, <2>2, <2>3
<1>5. Expires(flags) \/ Blocks(flags) => /\ scheduled_proc \in Process
                                         /\ ~In(high_queue, scheduled_proc)
                                         /\ ~In(blocked_queue, scheduled_proc)
  BY <1>0 DEF Ready, Blocks, Expires
<1> HIDE DEF high, low
<1>6. /\ high_queue' \in Queue
      /\ \A x \in Process : In(high_queue', x) <=>
           \/ In(high_queue, x) /\ x # new_scheduled
           \/ Expires(flags) /\ x = scheduled_proc
  BY <1>1, <1>3, <1>5, QueueAppend
<1>7. /\ blocked_queue' \in Queue
      /\ \A x \in Process : In(blocked_queue', x) <=>
           \/ In(blocked_queue, x)
           \/ Blocks(flags) /\ x = scheduled_proc
  BY <1>0, <1>1, <1>5, QueueAppend
<1> QED BY <1>1, <1>2, <1>4, <1>6, <1>7

(* The state of every process after schedule_process.                      *)
LEMMA ScheduleState ==
    ASSUME SchedInv, NEW flags \in SchedulerFlag, schedule_process(flags),
           NEW x \in Process
    PROVE  state'[x] = IF x = new_scheduled THEN "RUNNING"
                       ELSE IF /\ x = scheduled_proc
                               /\ flags \in {"IO_REQUESTED", "SEMAPHORE_BLOCKED"}
                         THEN "BLOCKED"
                       ELSE IF x = scheduled_proc /\ flags = "QUANTUM_COMPLETED"
                         THEN "READY"
                       ELSE state[x]
<1>1. x # NULL
  BY NullAssumption
<1> QED BY <1>1 DEF schedule_process, SchedulerFlag, Blocks, Expires

LEMMA ScheduleInv ==
    ASSUME SchedInv, NEW flags \in SchedulerFlag, schedule_process(flags)
    PROVE  SchedInv'
<1> DEFINE new == new_scheduled
           curr == scheduled_proc
<1>1. /\ high_queue' \in Queue /\ low_queue' \in Queue
      /\ blocked_queue' \in Queue
      /\ scheduled_proc' = new
      /\ \/ new \in Process /\ Ready(new)
         \/ new = NULL /\ \A x \in Process : ~Ready(x)
      /\ \A x \in Process :
           /\ In(high_queue', x) <=> \/ In(high_queue, x) /\ x # new
                                     \/ Expires(flags) /\ x = curr
           /\ In(low_queue', x) <=> In(low_queue, x) /\ x # new
           /\ In(blocked_queue', x) <=> \/ In(blocked_queue, x)
                                        \/ Blocks(flags) /\ x = curr
  BY ScheduleEffect
<1>2. \A x \in Process :
        state'[x] = IF x = new THEN "RUNNING"
                    ELSE IF /\ x = curr
                            /\ flags \in {"IO_REQUESTED", "SEMAPHORE_BLOCKED"}
                      THEN "BLOCKED"
                    ELSE IF x = curr /\ flags = "QUANTUM_COMPLETED" THEN "READY"
                    ELSE state[x]
  BY ScheduleState
<1>3. /\ scheduled_proc \in Process \cup {NULL}
      /\ state \in [Process -> ProcessState]
      /\ remaining \in [Process -> Int]
      /\ \A p \in Process :
           /\ ~(In(high_queue, p) /\ In(low_queue, p))
           /\ ~(Ready(p) /\ In(blocked_queue, p))
           /\ scheduled_proc = p => ~Ready(p) /\ ~In(blocked_queue, p)
      /\ StateAgreesWithPlace
  BY QueuesOfInv
<1> HIDE DEF new
<1>4. state' \in [Process -> ProcessState]
  BY <1>2, <1>3 DEF schedule_process, ProcessState
<1>5. remaining' \in [Process -> Int]
  BY <1>3 DEF schedule_process, new_slice, MAX, MIN, SCHED_HIGH_QUEUE_QUANTUM,
              SCHED_LOW_QUEUE_QUANTUM
<1>6. \A p \in Process :
        /\ ~(In(high_queue', p) /\ In(low_queue', p))
        /\ ~((In(high_queue', p) \/ In(low_queue', p)) /\ In(blocked_queue', p))
        /\ scheduled_proc' = p => /\ ~(In(high_queue', p) \/ In(low_queue', p))
                                  /\ ~In(blocked_queue', p)
  <2> SUFFICES ASSUME NEW p \in Process
               PROVE  /\ ~(In(high_queue', p) /\ In(low_queue', p))
                      /\ ~(/\ In(high_queue', p) \/ In(low_queue', p)
                           /\ In(blocked_queue', p))
                      /\ scheduled_proc' = p =>
                           /\ ~(In(high_queue', p) \/ In(low_queue', p))
                           /\ ~In(blocked_queue', p)
    OBVIOUS
  <2>1. ~(Blocks(flags) /\ Expires(flags))
    BY DEF Blocks, Expires
  <2>2. scheduled_proc' = p => Ready(p)
    BY <1>1, NullAssumption
  <2>3. p = curr => ~Ready(p) /\ ~In(blocked_queue, p)
    BY <1>3
  <2>4. /\ In(high_queue', p) => \/ In(high_queue, p) /\ p # new
                                 \/ p = curr /\ Expires(flags)
        /\ In(low_queue', p) => In(low_queue, p) /\ p # new
        /\ In(blocked_queue', p) => \/ In(blocked_queue, p)
                                    \/ p = curr /\ Blocks(flags)
    BY <1>1
  <2>5. ~(In(high_queue, p) /\ In(low_queue, p)) /\ ~(Ready(p) /\ In(blocked_queue, p))
    BY <1>3
  <2>6. scheduled_proc' = new
    BY <1>1
  <2> QED BY <2>1, <2>2, <2>3, <2>4, <2>5, <2>6 DEF Ready
<1>7. StateAgreesWithPlace'
  <2> SUFFICES ASSUME NEW p \in Process
               PROVE  /\ scheduled_proc' = p => state'[p] = "RUNNING"
                      /\ In(blocked_queue', p) => state'[p] = "BLOCKED"
                      /\ Ready(p)' => state'[p] \in {"READY", "BLOCKED"}
                      /\ state'[p] = "NEW" => scheduled_proc' # p /\ ~Ready(p)'
    BY DEF StateAgreesWithPlace
  <2>1. ASSUME scheduled_proc' = p PROVE state'[p] = "RUNNING"
    BY <2>1, <1>1, <1>2
  <2>2. ASSUME In(blocked_queue', p) PROVE state'[p] = "BLOCKED"
    <3>1. p # new
      BY <2>2, <1>6, <1>1
    <3>2. CASE p = curr
      <4>1. Blocks(flags)
        BY <2>2, <3>2, <1>1, <1>3
      <4> QED BY <4>1, <3>1, <3>2, <1>2 DEF Blocks
    <3>3. CASE p # curr
      BY <2>2, <3>1, <3>3, <1>1, <1>2, <1>3 DEF StateAgreesWithPlace
    <3> QED BY <3>2, <3>3
  <2>3. ASSUME Ready(p)' PROVE state'[p] \in {"READY", "BLOCKED"}
    <3>1. p # new
      BY <2>3, <1>6, <1>1 DEF Ready
    <3>2. CASE p = curr
      <4>1. Expires(flags)
        BY <2>3, <3>2, <1>1, <1>3 DEF Ready
      <4> QED BY <4>1, <3>1, <3>2, <1>2 DEF Expires
    <3>3. CASE p # curr
      <4>1. Ready(p)
        BY <2>3, <3>3, <1>1 DEF Ready
      <4> QED BY <4>1, <3>1, <3>3, <1>2, <1>3 DEF StateAgreesWithPlace
    <3> QED BY <3>2, <3>3
  <2>4. ASSUME state'[p] = "NEW" PROVE scheduled_proc' # p /\ ~Ready(p)'
    BY <2>1, <2>3, <2>4
  <2> QED BY <2>1, <2>2, <2>3, <2>4
<1>8. scheduled_proc' \in Process \cup {NULL}
  BY <1>1
<1> QED BY <1>1, <1>4, <1>5, <1>6, <1>7, <1>8, QueuesOfInv
          DEF SchedInv, SchedTypeOK, OnePlace, Queue, Ready

(* Where every process is after a wake-up that finds its process.          *)
LEMMA UnblockEffect ==
    ASSUME SchedInv, NEW p \in Process, NEW queue_flag \in QueueFlag,
           schedule_unblock_process(p, queue_flag), In(blocked_queue, p)
    PROVE  /\ high_queue' \in Queue /\ low_queue' \in Queue
           /\ blocked_queue' \in Queue
           /\ \A x \in Process :
                /\ In(blocked_queue', x) <=> In(blocked_queue, x) /\ x # p
                /\ In(high_queue', x) <=> \/ In(high_queue, x)
                                          \/ queue_flag = "HIGH_QUEUE" /\ x = p
                /\ In(low_queue', x) <=> \/ In(low_queue, x)
                                         \/ queue_flag = "LOW_QUEUE" /\ x = p
<1>1. /\ high_queue \in Queue /\ low_queue \in Queue /\ blocked_queue \in Queue
      /\ ~In(high_queue, p) /\ ~In(low_queue, p)
  BY QueuesOfInv DEF Ready
<1>2. /\ blocked_queue' = list_remove(blocked_queue, p)
      /\ high_queue' = IF queue_flag = "HIGH_QUEUE"
                         THEN Append(high_queue, p) ELSE high_queue
      /\ low_queue' = IF queue_flag = "LOW_QUEUE"
                        THEN Append(low_queue, p) ELSE low_queue
  BY DEF schedule_unblock_process
<1>3. /\ blocked_queue' \in Queue
      /\ \A x : In(blocked_queue', x) <=> In(blocked_queue, x) /\ x # p
  BY <1>1, <1>2, QueueRemove
<1>4. /\ high_queue' \in Queue
      /\ \A x : In(high_queue', x) <=> \/ In(high_queue, x)
                                       \/ queue_flag = "HIGH_QUEUE" /\ x = p
  BY <1>1, <1>2, QueueAppend
<1>5. /\ low_queue' \in Queue
      /\ \A x : In(low_queue', x) <=> \/ In(low_queue, x)
                                      \/ queue_flag = "LOW_QUEUE" /\ x = p
  BY <1>1, <1>2, QueueAppend
<1> QED BY <1>3, <1>4, <1>5

LEMMA UnblockInv ==
    ASSUME SchedInv, NEW p \in Process, NEW queue_flag \in QueueFlag,
           Unblock(p, queue_flag)
    PROVE  SchedInv'
<1>1. CASE ~In(blocked_queue, p)
  <2>1. UNCHANGED sched_vars
    BY <1>1 DEF Unblock, schedule_unblock_process, queue_vars, sched_vars
  <2> QED BY <2>1 DEF SchedInv, SchedTypeOK, OnePlace, StateAgreesWithPlace,
                      Ready, In, sched_vars
<1>2. CASE In(blocked_queue, p)
  <2>1. /\ high_queue' \in Queue /\ low_queue' \in Queue
        /\ blocked_queue' \in Queue
        /\ \A x \in Process :
             /\ In(blocked_queue', x) <=> In(blocked_queue, x) /\ x # p
             /\ In(high_queue', x) <=> \/ In(high_queue, x)
                                       \/ queue_flag = "HIGH_QUEUE" /\ x = p
             /\ In(low_queue', x) <=> \/ In(low_queue, x)
                                      \/ queue_flag = "LOW_QUEUE" /\ x = p
    BY <1>2, UnblockEffect DEF Unblock
  <2>2. UNCHANGED <<scheduled_proc, state, remaining>>
    BY DEF Unblock
  <2>3. /\ scheduled_proc \in Process \cup {NULL}
        /\ state \in [Process -> ProcessState]
        /\ remaining \in [Process -> Int]
        /\ \A x \in Process :
             /\ ~(In(high_queue, x) /\ In(low_queue, x))
             /\ ~(Ready(x) /\ In(blocked_queue, x))
             /\ scheduled_proc = x => ~Ready(x) /\ ~In(blocked_queue, x)
        /\ StateAgreesWithPlace
    BY QueuesOfInv
  <2>4. \A x \in Process :
          /\ ~(In(high_queue', x) /\ In(low_queue', x))
          /\ ~((In(high_queue', x) \/ In(low_queue', x)) /\ In(blocked_queue', x))
          /\ scheduled_proc' = x => /\ ~(In(high_queue', x) \/ In(low_queue', x))
                                    /\ ~In(blocked_queue', x)
    <3> SUFFICES ASSUME NEW x \in Process
                 PROVE  /\ ~(In(high_queue', x) /\ In(low_queue', x))
                        /\ ~(/\ In(high_queue', x) \/ In(low_queue', x)
                             /\ In(blocked_queue', x))
                        /\ scheduled_proc' = x =>
                             /\ ~(In(high_queue', x) \/ In(low_queue', x))
                             /\ ~In(blocked_queue', x)
      OBVIOUS
    <3>1. ~(queue_flag = "HIGH_QUEUE" /\ queue_flag = "LOW_QUEUE")
      OBVIOUS
    <3>2. /\ ~(In(high_queue, x) /\ In(low_queue, x))
          /\ ~(Ready(x) /\ In(blocked_queue, x))
          /\ scheduled_proc = x => ~Ready(x) /\ ~In(blocked_queue, x)
      BY <2>3
    <3>3. /\ In(blocked_queue', x) <=> In(blocked_queue, x) /\ x # p
          /\ In(high_queue', x) <=> \/ In(high_queue, x)
                                    \/ queue_flag = "HIGH_QUEUE" /\ x = p
          /\ In(low_queue', x) <=> \/ In(low_queue, x)
                                   \/ queue_flag = "LOW_QUEUE" /\ x = p
      BY <2>1
    <3> QED BY <1>2, <2>2, <3>1, <3>2, <3>3 DEF Ready
  <2>5. StateAgreesWithPlace'
    <3> SUFFICES ASSUME NEW x \in Process
                 PROVE  /\ scheduled_proc = x => state[x] = "RUNNING"
                        /\ In(blocked_queue', x) => state[x] = "BLOCKED"
                        /\ Ready(x)' => state[x] \in {"READY", "BLOCKED"}
                        /\ state[x] = "NEW" => scheduled_proc # x /\ ~Ready(x)'
      BY <2>2 DEF StateAgreesWithPlace
    <3>1. /\ In(blocked_queue', x) => In(blocked_queue, x)
          /\ Ready(x)' => Ready(x) \/ In(blocked_queue, x)
      BY <1>2, <2>1 DEF Ready
    <3>2. /\ scheduled_proc = x => state[x] = "RUNNING"
          /\ In(blocked_queue, x) => state[x] = "BLOCKED"
          /\ Ready(x) => state[x] \in {"READY", "BLOCKED"}
          /\ state[x] = "NEW" => scheduled_proc # x /\ ~Ready(x)
      BY <2>3 DEF StateAgreesWithPlace
    <3> QED BY <3>1, <3>2
  <2> QED BY <2>1, <2>2, <2>3, <2>4, <2>5
          DEF SchedInv, SchedTypeOK, OnePlace, Queue, Ready
<1> QED BY <1>1, <1>2

LEMMA AdmitInv ==
    ASSUME SchedInv, NEW p \in Process, Admit(p)
    PROVE  SchedInv'
<1>1. /\ scheduled_proc \in Process \cup {NULL}
      /\ high_queue \in Queue /\ low_queue \in Queue /\ blocked_queue \in Queue
      /\ state \in [Process -> ProcessState]
      /\ remaining \in [Process -> Int]
      /\ \A x \in Process :
           /\ ~(In(high_queue, x) /\ In(low_queue, x))
           /\ ~(Ready(x) /\ In(blocked_queue, x))
           /\ scheduled_proc = x => ~Ready(x) /\ ~In(blocked_queue, x)
      /\ StateAgreesWithPlace
  BY QueuesOfInv
<1>2. scheduled_proc # p /\ ~Ready(p) /\ ~In(blocked_queue, p)
  BY <1>1 DEF Admit, StateAgreesWithPlace
<1>3. /\ state' = [state EXCEPT ![p] = "READY"]
      /\ UNCHANGED <<scheduled_proc, blocked_queue, remaining>>
      /\ \/ high_queue' = Append(high_queue, p) /\ low_queue' = low_queue
         \/ low_queue' = Append(low_queue, p) /\ high_queue' = high_queue
  BY DEF Admit, schedule_loaded_process
<1>4. /\ high_queue' \in Queue /\ low_queue' \in Queue
      /\ \/ \A x \in Process : /\ In(high_queue', x) <=> In(high_queue, x) \/ x = p
                               /\ In(low_queue', x) <=> In(low_queue, x)
         \/ \A x \in Process : /\ In(high_queue', x) <=> In(high_queue, x)
                               /\ In(low_queue', x) <=> In(low_queue, x) \/ x = p
  <2>1. ~In(high_queue, p) /\ ~In(low_queue, p)
    BY <1>2 DEF Ready
  <2>2. CASE high_queue' = Append(high_queue, p) /\ low_queue' = low_queue
    BY <1>1, <2>1, <2>2, QueueAppend
  <2>3. CASE low_queue' = Append(low_queue, p) /\ high_queue' = high_queue
    BY <1>1, <2>1, <2>3, QueueAppend
  <2> QED BY <1>3, <2>2, <2>3
<1>5. \A x \in Process :
        /\ ~(In(high_queue', x) /\ In(low_queue', x))
        /\ ~((In(high_queue', x) \/ In(low_queue', x)) /\ In(blocked_queue', x))
        /\ scheduled_proc' = x => /\ ~(In(high_queue', x) \/ In(low_queue', x))
                                  /\ ~In(blocked_queue', x)
  BY <1>1, <1>2, <1>3, <1>4 DEF Ready
<1>6. state' \in [Process -> ProcessState]
  BY <1>1, <1>3 DEF ProcessState
<1>7. StateAgreesWithPlace'
  BY <1>1, <1>2, <1>3, <1>4 DEF StateAgreesWithPlace, Ready
<1> QED BY <1>1, <1>3, <1>4, <1>5, <1>6, <1>7
      DEF SchedInv, SchedTypeOK, OnePlace, Queue, Ready

LEMMA ChargeInv ==
    ASSUME SchedInv, NEW p \in Process, Charge(p)
    PROVE  SchedInv'
<1>1. UNCHANGED <<scheduled_proc, queue_vars, state>>
  BY DEF Charge, charge, charge_semaphore
<1>2. PICK time \in Charges :
        \/ remaining' = [remaining EXCEPT ![p] = @ - time]
        \/ remaining' = [remaining EXCEPT ![p] = MAX(0, @ - time)]
  BY DEF Charge, charge, charge_semaphore
<1>3. time \in Int
  BY ChargesAssumption
<1>4. remaining' \in [Process -> Int]
  BY <1>2, <1>3 DEF SchedInv, SchedTypeOK, MAX
<1> QED BY <1>1, <1>4 DEF SchedInv, SchedTypeOK, OnePlace, StateAgreesWithPlace,
                          Ready, In, queue_vars

LEMMA InitInv == SchedInit => SchedInv
<1> SUFFICES ASSUME SchedInit PROVE SchedInv
  OBVIOUS
<1>1. /\ scheduled_proc = NULL
      /\ high_queue = <<>> /\ low_queue = <<>> /\ blocked_queue = <<>>
      /\ state = [p \in Process |-> "NEW"]
      /\ remaining = [p \in Process |-> 0]
  BY DEF SchedInit, scheduler_init
<1>2. \A p \in Process : ~Ready(p) /\ ~In(blocked_queue, p) /\ scheduled_proc # p
  BY <1>1, EmptyQueue, NullAssumption DEF Ready
<1> QED BY <1>1, <1>2, EmptyQueue, QueuesOfInv
        DEF StateAgreesWithPlace, ProcessState

LEMMA NextInv == SchedInv /\ [SchedNext]_sched_vars => SchedInv'
<1> SUFFICES ASSUME SchedInv, [SchedNext]_sched_vars PROVE SchedInv'
  OBVIOUS
<1>1. CASE Dispatch
  BY <1>1, ScheduleInv DEF Dispatch, SchedulerFlag
<1>2. ASSUME NEW flags \in SchedulerFlag, Interrupt(flags) PROVE SchedInv'
  BY <1>2, ScheduleInv DEF Interrupt
<1>3. ASSUME NEW p \in Process, Admit(p) PROVE SchedInv'
  BY <1>3, AdmitInv
<1>4. ASSUME NEW p \in Process, Charge(p) PROVE SchedInv'
  BY <1>4, ChargeInv
<1>5. ASSUME NEW p \in Process, NEW queue_flag \in QueueFlag,
             Unblock(p, queue_flag)
      PROVE  SchedInv'
  BY <1>5, UnblockInv
<1>6. CASE UNCHANGED sched_vars
  BY <1>6 DEF SchedInv, SchedTypeOK, OnePlace, StateAgreesWithPlace, Ready, In,
              sched_vars
<1> QED BY <1>1, <1>2, <1>3, <1>4, <1>5, <1>6 DEF SchedNext

LEMMA SchedSpecInv == SchedSpec => []SchedInv
BY InitInv, NextInv, PTL DEF SchedSpec

(* Every field keeps its type; NULL is never queued nor dispatched from a  *)
(* queue (sched.c, schedule_process and schedule_unblock_process).         *)
THEOREM SchedulerTypes == SchedSpec => []SchedTypeOK
<1>1. SchedInv => SchedTypeOK
  BY DEF SchedInv
<1> QED BY <1>1, SchedSpecInv, PTL

(* A process is never in two places, nor twice in one, whatever wake-ups   *)
(* arrive.                                                                 *)
THEOREM SchedulerOnePlace == SchedSpec => []OnePlace
<1>1. SchedInv => OnePlace
  BY DEF SchedInv
<1> QED BY <1>1, SchedSpecInv, PTL

(* The state field always agrees with the place of the process.            *)
THEOREM SchedulerStates == SchedSpec => []StateAgreesWithPlace
<1>1. SchedInv => StateAgreesWithPlace
  BY DEF SchedInv
<1> QED BY <1>1, SchedSpecInv, PTL

-----------------------------------------------------------------------------
(* The ready queues are first come, first served.                          *)

(* A list that loses d nodes in front and gains, at its end, processes it  *)
(* did not hold keeps the order of the others.                             *)
LEMMA OrderKept ==
    ASSUME NEW q \in Queue, NEW m \in Seq(Process), NEW d \in {0, 1},
           d <= Len(q), Len(q) - d <= Len(m),
           \A k \in 1..(Len(q) - d) : m[k] = q[k + d],
           \A k \in (Len(q) - d + 1)..Len(m) : ~In(q, m[k])
    PROVE  KeepsOrder(q, m)
<1>1. /\ Len(q) \in Nat /\ Len(m) \in Nat
      /\ DOMAIN q = 1..Len(q) /\ DOMAIN m = 1..Len(m)
  BY DEF Queue
<1>2. SUFFICES ASSUME NEW a \in Process, NEW b \in Process,
                      In(q, a), In(m, a), a # b, In(q, b) \/ In(m, b), ~Ahead(q, b, a)
               PROVE  Ahead(m, a, b)
  BY DEF KeepsOrder
<1>3. PICK i \in 1..(Len(q) - d) : m[i] = a /\ q[i + d] = a
  <2>1. PICK i \in 1..Len(m) : m[i] = a
    BY <1>1, <1>2 DEF In
  <2>2. i \in 1..(Len(q) - d)
    BY <2>1, <1>1, <1>2
  <2> QED BY <2>1, <2>2
<1>4. CASE In(q, b)
  <2>1. PICK j \in 1..Len(q) : q[j] = b
    BY <1>1, <1>4 DEF In
  <2>2. i + d \in 1..Len(q)
    BY <1>1, <1>3
  <2>3. j > i + d
    BY <1>1, <1>2, <1>3, <2>1, <2>2 DEF Ahead
  <2>4. j - d \in 1..(Len(q) - d) /\ i < j - d /\ (j - d) + d = j
    BY <1>1, <1>3, <2>1, <2>3
  <2>5. m[j - d] = b
    BY <2>1, <2>4
  <2>6. i \in 1..Len(m) /\ j - d \in 1..Len(m)
    BY <1>1, <1>3, <2>4
  <2> QED BY <1>1, <1>3, <2>4, <2>5, <2>6 DEF Ahead
<1>5. CASE ~In(q, b)
  <2>1. PICK j \in 1..Len(m) : m[j] = b
    BY <1>1, <1>2, <1>5 DEF In
  <2>2. j > Len(q) - d
    <3>1. SUFFICES ASSUME j \in 1..(Len(q) - d) PROVE FALSE
      BY <1>1, <2>1
    <3>2. j + d \in 1..Len(q) /\ q[j + d] = b
      BY <1>1, <2>1, <3>1
    <3> QED BY <1>1, <1>5, <3>2 DEF In
  <2>3. i \in 1..Len(m) /\ i < j
    BY <1>1, <1>3, <2>1, <2>2
  <2> QED BY <1>1, <1>3, <2>1, <2>3 DEF Ahead
<1> QED BY <1>4, <1>5

LEMMA OrderSame ==
    ASSUME NEW q \in Queue
    PROVE  KeepsOrder(q, q)
<1>1. q \in Seq(Process) /\ Len(q) \in Nat
  BY DEF Queue
<1> QED BY <1>1, OrderKept

LEMMA OrderAppend ==
    ASSUME NEW q \in Queue, NEW p \in Process, ~In(q, p)
    PROVE  KeepsOrder(q, Append(q, p))
<1>1. q \in Seq(Process) /\ Len(q) \in Nat
  BY DEF Queue
<1> DEFINE m == Append(q, p)
<1>2. /\ m \in Seq(Process) /\ Len(m) = Len(q) + 1
      /\ \A k \in 1..Len(q) : m[k] = q[k]
      /\ m[Len(q) + 1] = p
  BY <1>1
<1> HIDE DEF m
<1>3. /\ \A k \in 1..(Len(q) - 0) : m[k] = q[k + 0]
      /\ \A k \in (Len(q) - 0 + 1)..Len(m) : ~In(q, m[k])
  BY <1>1, <1>2
<1>4. KeepsOrder(q, m)
  BY <1>1, <1>2, <1>3, OrderKept
<1> QED BY <1>4 DEF m

LEMMA OrderTail ==
    ASSUME NEW q \in Queue, q # <<>>
    PROVE  /\ KeepsOrder(q, Tail(q))
           /\ \A p \in Process : ~In(q, p) => KeepsOrder(q, Append(Tail(q), p))
<1>1. q \in Seq(Process) /\ Len(q) \in Nat /\ Len(q) >= 1
  BY DEF Queue
<1>2. /\ Tail(q) \in Seq(Process) /\ Len(Tail(q)) = Len(q) - 1
      /\ \A k \in 1..(Len(q) - 1) : Tail(q)[k] = q[k + 1]
  BY <1>1
<1>3. KeepsOrder(q, Tail(q))
  <2> DEFINE m == Tail(q)
  <2>1. /\ m \in Seq(Process) /\ Len(m) = Len(q) - 1
        /\ \A k \in 1..(Len(q) - 1) : m[k] = q[k + 1]
    BY <1>2
  <2> HIDE DEF m
  <2>2. \A k \in (Len(q) - 1 + 1)..Len(m) : ~In(q, m[k])
    BY <1>1, <2>1
  <2>3. KeepsOrder(q, m)
    BY <1>1, <2>1, <2>2, OrderKept
  <2> QED BY <2>3 DEF m
<1>4. ASSUME NEW p \in Process, ~In(q, p)
      PROVE  KeepsOrder(q, Append(Tail(q), p))
  <2> DEFINE m == Append(Tail(q), p)
  <2>1. /\ m \in Seq(Process) /\ Len(m) = Len(q)
        /\ \A k \in 1..(Len(q) - 1) : m[k] = Tail(q)[k]
        /\ m[Len(q)] = p
    BY <1>1, <1>2
  <2> HIDE DEF m
  <2>2. \A k \in 1..(Len(q) - 1) : m[k] = q[k + 1]
    BY <1>2, <2>1
  <2>3. \A k \in (Len(q) - 1 + 1)..Len(m) : ~In(q, m[k])
    BY <1>1, <1>4, <2>1
  <2>4. KeepsOrder(q, m)
    BY <1>1, <2>1, <2>2, <2>3, OrderKept
  <2> QED BY <2>4 DEF m
<1> QED BY <1>3, <1>4

LEMMA NextKeepsOrder ==
    ASSUME SchedInv, SchedNext
    PROVE  KeepsOrder(high_queue, high_queue') /\ KeepsOrder(low_queue, low_queue')
<1>1. /\ high_queue \in Queue /\ low_queue \in Queue
      /\ scheduled_proc \in Process \cup {NULL}
      /\ \A p \in Process :
           /\ ~(Ready(p) /\ In(blocked_queue, p))
           /\ scheduled_proc = p => ~Ready(p)
      /\ StateAgreesWithPlace
  BY QueuesOfInv
<1>2. ASSUME NEW flags \in SchedulerFlag, schedule_process(flags)
      PROVE  KeepsOrder(high_queue, high_queue') /\ KeepsOrder(low_queue, low_queue')
  <2>1. /\ low_queue' = IF high_queue = <<>> /\ low_queue # <<>>
                          THEN Tail(low_queue) ELSE low_queue
        /\ high_queue # <<>> =>
             high_queue' = IF Expires(flags) THEN Append(Tail(high_queue), scheduled_proc)
                                             ELSE Tail(high_queue)
        /\ high_queue = <<>> =>
             high_queue' = IF Expires(flags) THEN Append(high_queue, scheduled_proc)
                                             ELSE high_queue
    BY <1>2 DEF schedule_process, Expires
  <2>2. Expires(flags) => scheduled_proc \in Process /\ ~In(high_queue, scheduled_proc)
    BY <1>1 DEF Expires, Ready
  <2>3. KeepsOrder(low_queue, low_queue')
    BY <1>1, <2>1, OrderTail, OrderSame
  <2>4. CASE high_queue # <<>>
    <3>1. KeepsOrder(high_queue, Tail(high_queue))
      BY <1>1, <2>4, OrderTail
    <3>2. Expires(flags) => KeepsOrder(high_queue, Append(Tail(high_queue), scheduled_proc))
      BY <1>1, <2>2, <2>4, OrderTail
    <3>3. CASE Expires(flags)
      BY <2>1, <2>3, <2>4, <3>2, <3>3
    <3>4. CASE ~Expires(flags)
      BY <2>1, <2>3, <2>4, <3>1, <3>4
    <3> QED BY <3>3, <3>4
  <2>5. CASE high_queue = <<>>
    <3>1. KeepsOrder(high_queue, high_queue)
      BY <1>1, OrderSame
    <3>2. Expires(flags) => KeepsOrder(high_queue, Append(high_queue, scheduled_proc))
      BY <1>1, <2>2, OrderAppend
    <3>3. CASE Expires(flags)
      BY <2>1, <2>3, <2>5, <3>2, <3>3
    <3>4. CASE ~Expires(flags)
      BY <2>1, <2>3, <2>5, <3>1, <3>4
    <3> QED BY <3>3, <3>4
  <2> QED BY <2>3, <2>4, <2>5
<1>3. ASSUME NEW p \in Process, Admit(p) \/ \E queue_flag \in QueueFlag : Unblock(p, queue_flag)
      PROVE  /\ high_queue' = high_queue \/ (high_queue' = Append(high_queue, p) /\ ~Ready(p))
             /\ low_queue' = low_queue \/ (low_queue' = Append(low_queue, p) /\ ~Ready(p))
  <2>1. CASE Admit(p)
    <3>1. ~Ready(p)
      BY <1>1, <2>1 DEF Admit, StateAgreesWithPlace
    <3> QED BY <2>1, <3>1 DEF Admit, schedule_loaded_process
  <2>2. ASSUME NEW queue_flag \in QueueFlag, Unblock(p, queue_flag)
        PROVE  /\ high_queue' = high_queue \/ (high_queue' = Append(high_queue, p) /\ ~Ready(p))
               /\ low_queue' = low_queue \/ (low_queue' = Append(low_queue, p) /\ ~Ready(p))
    <3>1. CASE In(blocked_queue, p)
      <4>1. ~Ready(p)
        BY <1>1, <3>1
      <4>2. /\ high_queue' = IF queue_flag = "HIGH_QUEUE" THEN Append(high_queue, p)
                                                          ELSE high_queue
            /\ low_queue' = IF queue_flag = "LOW_QUEUE" THEN Append(low_queue, p)
                                                        ELSE low_queue
        BY <2>2, <3>1 DEF Unblock, schedule_unblock_process
      <4> QED BY <4>1, <4>2
    <3>2. CASE ~In(blocked_queue, p)
      <4>1. UNCHANGED queue_vars
        BY <2>2, <3>2 DEF Unblock, schedule_unblock_process
      <4> QED BY <4>1 DEF queue_vars
    <3> QED BY <3>1, <3>2
  <2> QED BY <1>3, <2>1, <2>2
<1>4. ASSUME NEW p \in Process, Charge(p)
      PROVE  high_queue' = high_queue /\ low_queue' = low_queue
  BY <1>4 DEF Charge, charge, charge_semaphore, queue_vars
<1>5. CASE Dispatch \/ \E flags \in SchedulerFlag : Interrupt(flags)
  BY <1>2, <1>5 DEF Dispatch, Interrupt, SchedulerFlag
<1>6. ASSUME NEW p \in Process, Admit(p) \/ \E queue_flag \in QueueFlag : Unblock(p, queue_flag)
      PROVE  KeepsOrder(high_queue, high_queue') /\ KeepsOrder(low_queue, low_queue')
  <2>1. ~Ready(p) => ~In(high_queue, p) /\ ~In(low_queue, p)
    BY DEF Ready
  <2> QED BY <1>1, <1>3, <1>6, <2>1, OrderAppend, OrderSame
<1>7. ASSUME NEW p \in Process, Charge(p)
      PROVE  KeepsOrder(high_queue, high_queue') /\ KeepsOrder(low_queue, low_queue')
  BY <1>1, <1>4, <1>7, OrderSame
<1> QED BY <1>5, <1>6, <1>7 DEF SchedNext

(* No process is served before, or gets ahead of, one that came earlier to *)
(* the same ready queue, through any wake-up, end of slice or dispatch.    *)
THEOREM SchedulerKeepsOrder == SchedSpec => NoOvertaking
<1>1. SchedInv /\ [SchedNext]_sched_vars =>
        [KeepsOrder(high_queue, high_queue') /\ KeepsOrder(low_queue, low_queue')]_sched_vars
  BY NextKeepsOrder
<1> QED BY <1>1, SchedSpecInv, PTL DEF SchedSpec, NoOvertaking

-----------------------------------------------------------------------------
(* The scheduler implements the life cycle of a process.                   *)

stage_of(p) == IF state[p] = "NEW" THEN "new"
               ELSE IF scheduled_proc = p THEN "running"
               ELSE IF Ready(p) THEN "ready"
               ELSE IF In(blocked_queue, p) THEN "blocked"
               ELSE "gone"

LEMMA StageOf ==
    /\ stage = [p \in Process |-> stage_of(p)]
    /\ stage' = [p \in Process |-> stage_of(p)']
BY DEF stage, stage_of

(* Under the invariant the stages are told apart by the place alone.       *)
LEMMA StageByPlace ==
    ASSUME SchedInv, NEW p \in Process
    PROVE  /\ stage_of(p) = "running" <=> scheduled_proc = p
           /\ stage_of(p) = "ready" <=> Ready(p)
           /\ stage_of(p) = "blocked" <=> In(blocked_queue, p)
           /\ stage_of(p) = "new" <=> state[p] = "NEW"
<1>1. /\ ~(Ready(p) /\ In(blocked_queue, p))
      /\ scheduled_proc = p => ~Ready(p) /\ ~In(blocked_queue, p)
      /\ scheduled_proc = p => state[p] # "NEW"
      /\ In(blocked_queue, p) => state[p] # "NEW"
      /\ Ready(p) => state[p] # "NEW"
  BY DEF SchedInv, OnePlace, StateAgreesWithPlace
<1> QED BY <1>1 DEF stage_of

LEMMA ScheduleSwitches ==
    ASSUME SchedInv, NEW flags \in SchedulerFlag, schedule_process(flags)
    PROVE  \E out \in {"ready", "blocked", "gone"} : Lifecycle!Switch(out)
<1> DEFINE out == IF Blocks(flags) THEN "blocked"
                  ELSE IF Expires(flags) THEN "ready" ELSE "gone"
           next == {p \in Process : p = new_scheduled}
<1>1. /\ scheduled_proc' = new_scheduled
      /\ \/ new_scheduled \in Process /\ Ready(new_scheduled)
         \/ new_scheduled = NULL /\ \A x \in Process : ~Ready(x)
      /\ \A x \in Process :
           /\ In(high_queue', x) <=> \/ In(high_queue, x) /\ x # new_scheduled
                                     \/ Expires(flags) /\ x = scheduled_proc
           /\ In(low_queue', x) <=> In(low_queue, x) /\ x # new_scheduled
           /\ In(blocked_queue', x) <=> \/ In(blocked_queue, x)
                                        \/ Blocks(flags) /\ x = scheduled_proc
  BY ScheduleEffect
<1>2. SchedInv'
  BY ScheduleInv
<1>3. Lifecycle!InStage("ready") = {x \in Process : Ready(x)}
  BY StageOf, StageByPlace DEF Lifecycle!InStage
<1>4. next \in SUBSET Lifecycle!InStage("ready")
  BY <1>1, <1>3, NullAssumption
<1>5. next = {} => Lifecycle!InStage("ready") = {}
  BY <1>1, <1>3
<1>6. ASSUME NEW p \in Process
      PROVE  stage_of(p)' = IF p \in next THEN "running"
                            ELSE IF stage_of(p) = "running" THEN out
                            ELSE stage_of(p)
  <2>1. CASE p \in next
    <3>1. scheduled_proc' = p
      BY <1>1, <2>1
    <3>2. state'[p] # "NEW"
      BY <3>1, <1>2 DEF SchedInv, StateAgreesWithPlace
    <3> QED BY <2>1, <3>1, <3>2 DEF stage_of
  <2>2. CASE p \notin next /\ scheduled_proc = p
    <3>1. p # new_scheduled /\ scheduled_proc' # p
      BY <1>1, <2>2
    <3>2. state[p] = "RUNNING" /\ ~Ready(p) /\ ~In(blocked_queue, p)
      BY <2>2 DEF SchedInv, OnePlace, StateAgreesWithPlace
    <3>3. state'[p] # "NEW"
      BY <3>1, <3>2, ScheduleState
    <3>4. /\ Ready(p)' <=> Expires(flags)
          /\ In(blocked_queue', p) <=> Blocks(flags)
      BY <1>1, <2>2, <3>1, <3>2 DEF Ready
    <3>5. ~(Blocks(flags) /\ Expires(flags))
      BY DEF Blocks, Expires
    <3>6. stage_of(p)' = out
      BY <3>1, <3>3, <3>4, <3>5 DEF stage_of
    <3>7. stage_of(p) = "running"
      BY <2>2, StageByPlace
    <3> QED BY <2>2, <3>6, <3>7
  <2>3. CASE p \notin next /\ scheduled_proc # p
    <3>1. p # new_scheduled /\ scheduled_proc' # p
      BY <1>1, <2>3
    <3>2. state'[p] = state[p]
      BY <2>3, <3>1, ScheduleState
    <3>3. /\ Ready(p)' <=> Ready(p)
          /\ In(blocked_queue', p) <=> In(blocked_queue, p)
      BY <1>1, <2>3, <3>1 DEF Ready
    <3>4. stage_of(p)' = stage_of(p)
      BY <2>3, <3>1, <3>2, <3>3 DEF stage_of
    <3>5. stage_of(p) # "running"
      BY <2>3, StageByPlace
    <3> QED BY <2>3, <3>4, <3>5
  <2> QED BY <2>1, <2>2, <2>3
<1>7. out \in {"ready", "blocked", "gone"}
  OBVIOUS
<1> HIDE DEF next, out
<1>8. stage' = [p \in Process |-> IF p \in next THEN "running"
                                  ELSE IF stage[p] = "running" THEN out
                                  ELSE stage[p]]
  BY <1>6, StageOf
<1>9. \A p, q \in next : p = q
  BY DEF next
<1> QED BY <1>4, <1>5, <1>7, <1>8, <1>9 DEF Lifecycle!Switch

LEMMA UnblockWakes ==
    ASSUME SchedInv, NEW p \in Process, NEW queue_flag \in QueueFlag,
           Unblock(p, queue_flag)
    PROVE  Lifecycle!Wake(p) \/ UNCHANGED stage
<1>1. CASE ~In(blocked_queue, p)
  <2>1. UNCHANGED sched_vars
    BY <1>1 DEF Unblock, schedule_unblock_process, queue_vars, sched_vars
  <2> QED BY <2>1 DEF stage, Ready, In, sched_vars
<1>2. CASE In(blocked_queue, p)
  <2>1. \A x \in Process :
          /\ In(blocked_queue', x) <=> In(blocked_queue, x) /\ x # p
          /\ In(high_queue', x) <=> \/ In(high_queue, x)
                                    \/ queue_flag = "HIGH_QUEUE" /\ x = p
          /\ In(low_queue', x) <=> \/ In(low_queue, x)
                                   \/ queue_flag = "LOW_QUEUE" /\ x = p
    BY <1>2, UnblockEffect DEF Unblock
  <2>2. UNCHANGED <<scheduled_proc, state>>
    BY DEF Unblock
  <2>3. /\ stage_of(p) = "blocked"
        /\ scheduled_proc # p /\ state[p] # "NEW"
    BY <1>2, StageByPlace DEF SchedInv, OnePlace, StateAgreesWithPlace
  <2>4. Ready(p)'
    BY <2>1 DEF Ready, QueueFlag
  <2>5. stage_of(p)' = "ready"
    BY <2>2, <2>3, <2>4 DEF stage_of
  <2>6. \A x \in Process \ {p} : stage_of(x)' = stage_of(x)
    BY <2>1, <2>2 DEF stage_of, Ready
  <2>7. stage' = [stage EXCEPT ![p] = "ready"]
    BY <2>5, <2>6, StageOf
  <2>8. stage[p] = "blocked"
    BY <2>3, StageOf
  <2> QED BY <2>7, <2>8 DEF Lifecycle!Wake
<1> QED BY <1>1, <1>2

LEMMA AdmitAdmits ==
    ASSUME SchedInv, NEW p \in Process, Admit(p)
    PROVE  Lifecycle!Admit(p)
<1>1. /\ state \in [Process -> ProcessState]
      /\ high_queue \in Queue /\ low_queue \in Queue
  BY QueuesOfInv
<1>2. state[p] = "NEW" /\ scheduled_proc # p /\ ~Ready(p) /\ ~In(blocked_queue, p)
  BY DEF Admit, SchedInv, StateAgreesWithPlace
<1>3. /\ state' = [state EXCEPT ![p] = "READY"]
      /\ UNCHANGED <<scheduled_proc, blocked_queue>>
      /\ \/ high_queue' = Append(high_queue, p) /\ low_queue' = low_queue
         \/ low_queue' = Append(low_queue, p) /\ high_queue' = high_queue
  BY DEF Admit, schedule_loaded_process
<1>4. \A x \in Process : Ready(x)' <=> Ready(x) \/ x = p
  <2>1. ~In(high_queue, p) /\ ~In(low_queue, p)
    BY <1>2 DEF Ready
  <2>2. CASE high_queue' = Append(high_queue, p) /\ low_queue' = low_queue
    BY <1>1, <2>1, <2>2, QueueAppend DEF Ready
  <2>3. CASE low_queue' = Append(low_queue, p) /\ high_queue' = high_queue
    BY <1>1, <2>1, <2>3, QueueAppend DEF Ready
  <2> QED BY <1>3, <2>2, <2>3
<1>5. stage_of(p) = "new" /\ stage_of(p)' = "ready"
  BY <1>1, <1>2, <1>3, <1>4 DEF stage_of
<1>6. \A x \in Process \ {p} : stage_of(x)' = stage_of(x)
  BY <1>1, <1>3, <1>4 DEF stage_of
<1>7. stage' = [stage EXCEPT ![p] = "ready"]
  BY <1>5, <1>6, StageOf
<1>8. stage[p] = "new"
  BY <1>5, StageOf
<1> QED BY <1>7, <1>8 DEF Lifecycle!Admit

LEMMA StageInit == SchedInit => Lifecycle!Init
BY DEF SchedInit, Lifecycle!Init, stage

LEMMA StageNext ==
    SchedInv /\ [SchedNext]_sched_vars => [Lifecycle!Next]_stage
<1> SUFFICES ASSUME SchedInv, [SchedNext]_sched_vars
             PROVE  Lifecycle!Next \/ UNCHANGED stage
  OBVIOUS
<1>1. CASE Dispatch
  BY <1>1, ScheduleSwitches DEF Dispatch, SchedulerFlag, Lifecycle!Next
<1>2. ASSUME NEW flags \in SchedulerFlag, Interrupt(flags)
      PROVE  Lifecycle!Next
  BY <1>2, ScheduleSwitches DEF Interrupt, Lifecycle!Next
<1>3. ASSUME NEW p \in Process, Admit(p) PROVE Lifecycle!Next
  BY <1>3, AdmitAdmits DEF Lifecycle!Next
<1>4. ASSUME NEW p \in Process, Charge(p) PROVE UNCHANGED stage
  <2>1. UNCHANGED <<scheduled_proc, queue_vars, state>>
    BY <1>4 DEF Charge, charge, charge_semaphore
  <2> QED BY <2>1 DEF stage, Ready, In, queue_vars
<1>5. ASSUME NEW p \in Process, NEW queue_flag \in QueueFlag,
             Unblock(p, queue_flag)
      PROVE  Lifecycle!Next \/ UNCHANGED stage
  BY <1>5, UnblockWakes DEF Lifecycle!Next
<1>6. CASE UNCHANGED sched_vars
  BY <1>6 DEF stage, Ready, In, sched_vars
<1> QED BY <1>1, <1>2, <1>3, <1>4, <1>5, <1>6 DEF SchedNext

(* The queues of sched.c implement the life cycle: a process goes from one *)
(* stage to the next in order only, one process at most runs, and the CPU  *)
(* is left idle only when no process is ready.                             *)
THEOREM SchedulerImplementsLifecycle == SchedSpec => ImplementsLifecycle
<1>1. SchedSpec => []SchedInv
  BY SchedSpecInv
<1>2. Lifecycle!Init /\ [][Lifecycle!Next]_stage => ImplementsLifecycle
  BY DEF ImplementsLifecycle, Lifecycle!Spec
<1> QED BY <1>1, <1>2, StageInit, StageNext, PTL DEF SchedSpec

-----------------------------------------------------------------------------
(* The semaphores                                                          *)

sem_all_vars == <<sched_vars, sem_vars>>

(* What semaphore_register finds for a name that is not in the table.      *)
UnregisteredAreUnused == \A s \in Sem \ registered : S[s] = 0

(* The inductive invariant.  P keeps WaitersSleep because the process that *)
(* runs is in no queue (OnePlace, in SchedInv), hence waits for nothing; V *)
(* takes the head of the list only because the value counts the waiters,   *)
(* and finds it in the blocked queue only because waiters sleep.           *)
SemInv ==
    /\ SchedInv
    /\ SemTypeOK
    /\ UnregisteredAreUnused
    /\ ValueCountsWaiters
    /\ WaitersSleep

LEMMA WaitersAreQueues ==
    ASSUME SemInv, NEW s \in Sem
    PROVE  /\ waiters[s] \in Queue
           /\ S[s] \in Int
           /\ Len(waiters[s]) = IF S[s] < 0 THEN -S[s] ELSE 0
BY DEF SemInv, SemTypeOK, ValueCountsWaiters, WaitersSleep, Queue

(* WaitersSleep and ValueCountsWaiters after a step that leaves the lists  *)
(* of waiters alone and takes none of them out of the blocked queue.       *)
LEMMA WaitersUntouched ==
    ASSUME SemInv, SchedInv', UNCHANGED sem_vars,
           \A p \in Process : In(blocked_queue, p) /\ Waits(p) => In(blocked_queue', p)
    PROVE  SemInv'
<1>1. SemTypeOK' /\ UnregisteredAreUnused' /\ ValueCountsWaiters'
  BY DEF SemInv, SemTypeOK, UnregisteredAreUnused, ValueCountsWaiters, sem_vars
<1>2. WaitersSleep'
  <2>1. waiters' = waiters
    BY DEF sem_vars
  <2>2. \A s \in Sem : IsInjective(waiters'[s])
    BY <2>1 DEF SemInv, WaitersSleep
  <2>3. \A s \in Sem, p \in Process :
          WaitsFor(p, s)' => In(blocked_queue', p)
    BY <2>1 DEF SemInv, WaitersSleep, WaitsFor, Waits, In
  <2>4. \A s, t \in Sem, p \in Process :
          WaitsFor(p, s)' /\ WaitsFor(p, t)' => s = t
    BY <2>1 DEF SemInv, WaitersSleep, WaitsFor, In
  <2> QED BY <2>2, <2>3, <2>4 DEF WaitersSleep
<1> QED BY <1>1, <1>2 DEF SemInv

LEMMA InitSemInv == SemInit => SemInv
<1> SUFFICES ASSUME SemInit PROVE SemInv
  OBVIOUS
<1>1. SchedInv
  BY InitInv DEF SemInit
<1>2. /\ registered = {}
      /\ S = [s \in Sem |-> 0]
      /\ waiters = [s \in Sem |-> <<>>]
  BY DEF SemInit, semaphore_table_init
<1>3. SemTypeOK /\ UnregisteredAreUnused /\ ValueCountsWaiters
  BY <1>2 DEF SemTypeOK, UnregisteredAreUnused, ValueCountsWaiters
<1>4. WaitersSleep
  BY <1>2, EmptyQueue DEF WaitersSleep, WaitsFor, Queue
<1> QED BY <1>1, <1>3, <1>4 DEF SemInv

(* A program registers all of its semaphores at once.                      *)
LEMMA RegisterNames ==
    ASSUME SemInv, NEW names \in SUBSET Sem, semaphore_register(names),
           UNCHANGED sched_vars
    PROVE  /\ SemInv' /\ registered' = registered \cup names
           /\ \A x \in Process : Waits(x)' <=> Waits(x)
<1> DEFINE new == names \ registered
<1>1. SchedInv'
  BY DEF SemInv, SchedInv, SchedTypeOK, OnePlace,
         StateAgreesWithPlace, Ready, In, sched_vars
<1>2. /\ registered' = registered \cup names
      /\ S' = [t \in Sem |-> IF t \in new THEN 1 ELSE S[t]]
      /\ waiters' = [t \in Sem |-> IF t \in new THEN <<>> ELSE waiters[t]]
      /\ blocked_queue' = blocked_queue
  BY DEF semaphore_register, sched_vars
<1>3. SemTypeOK'
  BY <1>2 DEF SemInv, SemTypeOK
<1>4. UnregisteredAreUnused' /\ ValueCountsWaiters'
  BY <1>2 DEF SemInv, UnregisteredAreUnused, ValueCountsWaiters
<1>5. ASSUME NEW t \in Sem PROVE waiters'[t] = waiters[t]
  <2>1. CASE t \in new
    <3>1. Len(waiters[t]) = 0
      BY <2>1 DEF SemInv, UnregisteredAreUnused, ValueCountsWaiters
    <3>2. waiters[t] = <<>>
      BY <3>1 DEF SemInv, SemTypeOK
    <3> QED BY <1>2, <2>1, <3>2
  <2> QED BY <1>2, <2>1
<1>6. \A t \in Sem, x \in Process : WaitsFor(x, t)' <=> WaitsFor(x, t)
  BY <1>5 DEF WaitsFor
<1>7. WaitersSleep'
  BY <1>2, <1>5, <1>6 DEF SemInv, WaitersSleep
<1> QED BY <1>1, <1>2, <1>3, <1>4, <1>6, <1>7 DEF SemInv, Waits

LEMMA RegisterSemInv ==
    ASSUME SemInv, NEW s \in Sem, Register(s)
    PROVE  SemInv'
BY RegisterNames DEF Register

LEMMA PSemInv ==
    ASSUME SemInv, NEW s \in Sem, P(s)
    PROVE  SemInv'
<1> DEFINE p == scheduled_proc
<1>1. /\ p \in Process /\ s \in registered
      /\ S' = [S EXCEPT ![s] = @ - 1]
      /\ S \in [Sem -> Int] /\ waiters \in [Sem -> Seq(Process)]
      /\ registered' = registered /\ registered \subseteq Sem
  BY DEF P, semaphore_P, SemInv, SchedInv, SchedTypeOK, SemTypeOK
<1>2. /\ S'[s] = S[s] - 1
      /\ \A t \in Sem \ {s} : S'[t] = S[t]
  BY <1>1
<1>3. UnregisteredAreUnused' /\ S' \in [Sem -> Int]
  BY <1>1, <1>2 DEF SemInv, UnregisteredAreUnused
<1>4. CASE S'[s] < 0
  <2>1. /\ waiters' = [waiters EXCEPT ![s] = Append(@, p)]
        /\ schedule_process("SEMAPHORE_BLOCKED")
    BY <1>4 DEF P, semaphore_P
  <2>2. SchedInv'
    BY <2>1, ScheduleInv DEF SemInv, SchedulerFlag
  <2>3. \A x \in Process : In(blocked_queue', x) <=> In(blocked_queue, x) \/ x = p
    BY <2>1, <1>1, ScheduleEffect, NullAssumption DEF SemInv, SchedulerFlag, Blocks
  <2>4. \A t \in Sem : ~In(waiters[t], p)
    <3>1. ~In(blocked_queue, p)
      BY <1>1 DEF SemInv, SchedInv, OnePlace
    <3> QED BY <3>1, <1>1 DEF SemInv, WaitersSleep, WaitsFor
  <2>5. /\ waiters'[s] = Append(waiters[s], p)
        /\ \A t \in Sem \ {s} : waiters'[t] = waiters[t]
    BY <2>1, <1>1
  <2>6. /\ waiters'[s] \in Queue
        /\ \A x : In(waiters'[s], x) <=> In(waiters[s], x) \/ x = p
    BY <2>4, <2>5, <1>1, WaitersAreQueues, QueueAppend
  <2>7. SemTypeOK'
    BY <1>1, <1>3, <2>1 DEF SemTypeOK
  <2>8. ValueCountsWaiters'
    <3>1. Len(waiters'[s]) = Len(waiters[s]) + 1
      BY <2>5, <1>1
    <3>2. Len(waiters'[s]) = IF S'[s] < 0 THEN -S'[s] ELSE 0
      BY <3>1, <1>2, <1>4, WaitersAreQueues
    <3>3. \A t \in Sem \ {s} : Len(waiters'[t]) = IF S'[t] < 0 THEN -S'[t] ELSE 0
      BY <1>2, <2>5 DEF SemInv, ValueCountsWaiters
    <3> QED BY <3>2, <3>3 DEF ValueCountsWaiters
  <2>9. WaitersSleep'
    <3>1. \A t \in Sem : IsInjective(waiters'[t])
      BY <2>5, <2>6 DEF SemInv, WaitersSleep, Queue
    <3>2. \A t \in Sem, x \in Process :
            In(waiters'[t], x) <=> In(waiters[t], x) \/ (t = s /\ x = p)
      BY <2>5, <2>6
    <3>3. \A t \in Sem, x \in Process : In(waiters'[t], x) => In(blocked_queue', x)
      BY <3>2, <2>3 DEF SemInv, WaitersSleep, WaitsFor
    <3>4. \A t, u \in Sem, x \in Process :
            In(waiters'[t], x) /\ In(waiters'[u], x) => t = u
      BY <3>2, <2>4 DEF SemInv, WaitersSleep, WaitsFor
    <3> QED BY <3>1, <3>3, <3>4 DEF WaitersSleep, WaitsFor
  <2> QED BY <1>3, <2>2, <2>7, <2>8, <2>9 DEF SemInv
<1>5. CASE ~(S'[s] < 0)
  <2>1. UNCHANGED <<waiters, sched_vars>>
    BY <1>5 DEF P, semaphore_P
  <2>2. SchedInv'
    BY <2>1 DEF SemInv, SchedInv, SchedTypeOK, OnePlace,
                StateAgreesWithPlace, Ready, In, sched_vars
  <2>3. SemTypeOK'
    BY <1>1, <1>3, <2>1 DEF SemTypeOK
  <2>4. ValueCountsWaiters'
    <3>1. Len(waiters'[s]) = IF S'[s] < 0 THEN -S'[s] ELSE 0
      BY <2>1, <1>2, <1>5, WaitersAreQueues
    <3>2. \A t \in Sem \ {s} : Len(waiters'[t]) = IF S'[t] < 0 THEN -S'[t] ELSE 0
      BY <1>2, <2>1 DEF SemInv, ValueCountsWaiters
    <3> QED BY <3>1, <3>2 DEF ValueCountsWaiters
  <2>5. WaitersSleep'
    BY <2>1 DEF SemInv, WaitersSleep, WaitsFor, In, sched_vars
  <2> QED BY <1>3, <2>2, <2>3, <2>4, <2>5 DEF SemInv
<1> QED BY <1>4, <1>5

(* What V does to a semaphore somebody waits for.                          *)
LEMMA VEffect ==
    ASSUME SemInv, NEW s \in Sem, V(s), waiters[s] # <<>>
    PROVE  /\ Head(waiters[s]) \in Process
           /\ In(blocked_queue, Head(waiters[s]))
           /\ Unblock(Head(waiters[s]), "HIGH_QUEUE")
           /\ waiters' = [waiters EXCEPT ![s] = Tail(@)]
           /\ \A x \in Process :
                /\ In(blocked_queue', x) <=> In(blocked_queue, x) /\ x # Head(waiters[s])
                /\ In(high_queue', x) <=> In(high_queue, x) \/ x = Head(waiters[s])
<1>1. waiters[s] \in Queue /\ Head(waiters[s]) \in Process /\ In(waiters[s], Head(waiters[s]))
  BY WaitersAreQueues, QueueTail
<1>2. Len(waiters[s]) \in Nat \ {0}
  BY <1>1 DEF Queue
<1>3. S[s] < 0 /\ S[s] \in Int
  BY <1>2, WaitersAreQueues
<1>4. S'[s] <= 0
  BY <1>3 DEF V, semaphore_V, SemInv, SemTypeOK
<1>5. /\ waiters' = [waiters EXCEPT ![s] = Tail(@)]
      /\ Unblock(Head(waiters[s]), "HIGH_QUEUE")
  BY <1>4 DEF V, semaphore_V, Unblock
<1>6. In(blocked_queue, Head(waiters[s]))
  BY <1>1 DEF SemInv, WaitersSleep, WaitsFor
<1>7. \A x \in Process :
        /\ In(blocked_queue', x) <=> In(blocked_queue, x) /\ x # Head(waiters[s])
        /\ In(high_queue', x) <=> In(high_queue, x) \/ x = Head(waiters[s])
  BY <1>1, <1>5, <1>6, UnblockEffect DEF SemInv, QueueFlag, Unblock
<1> QED BY <1>1, <1>5, <1>6, <1>7

LEMMA VSemInv ==
    ASSUME SemInv, NEW s \in Sem, V(s)
    PROVE  SemInv'
<1> DEFINE p == Head(waiters[s])
<1>1. /\ s \in registered /\ registered' = registered
      /\ registered \subseteq Sem
      /\ S' = [S EXCEPT ![s] = @ + 1]
      /\ S \in [Sem -> Int] /\ waiters \in [Sem -> Seq(Process)]
  BY DEF V, semaphore_V, SemInv, SemTypeOK
<1>2. /\ S'[s] = S[s] + 1
      /\ \A t \in Sem \ {s} : S'[t] = S[t]
  BY <1>1
<1>3. UnregisteredAreUnused' /\ S' \in [Sem -> Int]
  BY <1>1, <1>2 DEF SemInv, UnregisteredAreUnused
<1>4. CASE waiters[s] # <<>>
  <2>1. /\ p \in Process /\ In(blocked_queue, p)
        /\ Unblock(p, "HIGH_QUEUE")
        /\ waiters' = [waiters EXCEPT ![s] = Tail(@)]
        /\ \A x \in Process :
             In(blocked_queue', x) <=> In(blocked_queue, x) /\ x # p
    BY <1>4, VEffect
  <2>2. SchedInv'
    BY <2>1, UnblockInv DEF SemInv, QueueFlag
  <2>3. /\ waiters'[s] = Tail(waiters[s])
        /\ \A t \in Sem \ {s} : waiters'[t] = waiters[t]
    BY <2>1, <1>1
  <2>4. /\ waiters[s] \in Queue /\ Tail(waiters[s]) \in Queue
        /\ In(waiters[s], p)
        /\ \A x : In(Tail(waiters[s]), x) <=> In(waiters[s], x) /\ x # p
    BY <1>4, WaitersAreQueues, QueueTail
  <2>5. Tail(waiters[s]) \in Seq(Process)
    BY <2>4 DEF Queue
  <2>6. SemTypeOK'
    BY <1>1, <1>3, <2>1, <2>5 DEF SemTypeOK
  <2>7. ValueCountsWaiters'
    <3>1. Len(waiters'[s]) = Len(waiters[s]) - 1 /\ Len(waiters[s]) \in Nat \ {0}
      BY <2>3, <1>1, <1>4
    <3>2. Len(waiters'[s]) = IF S'[s] < 0 THEN -S'[s] ELSE 0
      BY <3>1, <1>2, WaitersAreQueues
    <3>3. \A t \in Sem \ {s} : Len(waiters'[t]) = IF S'[t] < 0 THEN -S'[t] ELSE 0
      BY <1>2, <2>3 DEF SemInv, ValueCountsWaiters
    <3> QED BY <3>2, <3>3 DEF ValueCountsWaiters
  <2>8. WaitersSleep'
    <3>1. \A t \in Sem : IsInjective(waiters'[t])
      BY <2>3, <2>4 DEF SemInv, WaitersSleep, Queue
    <3>2. \A t \in Sem, x \in Process :
            In(waiters'[t], x) => In(waiters[t], x) /\ x # p
      <4> SUFFICES ASSUME NEW t \in Sem, NEW x \in Process, In(waiters'[t], x)
                   PROVE  In(waiters[t], x) /\ x # p
        OBVIOUS
      <4>1. CASE t = s
        BY <4>1, <2>3, <2>4
      <4>2. CASE t # s
        BY <4>2, <2>1, <2>3, <2>4 DEF SemInv, WaitersSleep, WaitsFor
      <4> QED BY <4>1, <4>2
    <3>3. \A t \in Sem, x \in Process : In(waiters'[t], x) => In(blocked_queue', x)
      BY <3>2, <2>1 DEF SemInv, WaitersSleep, WaitsFor
    <3>4. \A t, u \in Sem, x \in Process :
            In(waiters'[t], x) /\ In(waiters'[u], x) => t = u
      BY <3>2 DEF SemInv, WaitersSleep, WaitsFor
    <3> QED BY <3>1, <3>3, <3>4 DEF WaitersSleep, WaitsFor
  <2> QED BY <1>3, <2>2, <2>6, <2>7, <2>8 DEF SemInv
<1>5. CASE waiters[s] = <<>>
  <2>1. S[s] >= 0 /\ S[s] \in Int
    BY <1>5, WaitersAreQueues
  <2>2. ~(S'[s] <= 0)
    BY <2>1, <1>2
  <2>3. UNCHANGED <<waiters, sched_vars>>
    BY <2>2 DEF V, semaphore_V, queue_vars, sched_vars
  <2>4. SchedInv'
    BY <2>3 DEF SemInv, SchedInv, SchedTypeOK, OnePlace,
                StateAgreesWithPlace, Ready, In, sched_vars
  <2>5. SemTypeOK'
    BY <1>1, <1>3, <2>3 DEF SemTypeOK
  <2>6. ValueCountsWaiters'
    <3>1. Len(waiters'[s]) = IF S'[s] < 0 THEN -S'[s] ELSE 0
      BY <2>1, <2>3, <1>2, WaitersAreQueues
    <3>2. \A t \in Sem \ {s} : Len(waiters'[t]) = IF S'[t] < 0 THEN -S'[t] ELSE 0
      BY <1>2, <2>3 DEF SemInv, ValueCountsWaiters
    <3> QED BY <3>1, <3>2 DEF ValueCountsWaiters
  <2>7. WaitersSleep'
    BY <2>3 DEF SemInv, WaitersSleep, WaitsFor, In, sched_vars
  <2> QED BY <1>3, <2>4, <2>5, <2>6, <2>7 DEF SemInv
<1> QED BY <1>4, <1>5

(* Who waits after a P: the caller besides, if the P puts it to sleep.     *)
LEMMA PWaits ==
    ASSUME SemInv, NEW s \in Sem, P(s)
    PROVE  /\ registered' = registered
           /\ \/ /\ UNCHANGED sched_vars
                 /\ \A x \in Process : Waits(x)' <=> Waits(x)
              \/ /\ schedule_process("SEMAPHORE_BLOCKED")
                 /\ \A x \in Process : Waits(x)' <=> Waits(x) \/ x = scheduled_proc
<1> DEFINE p == scheduled_proc
<1>1. /\ p \in Process /\ registered' = registered /\ waiters \in [Sem -> Seq(Process)]
  BY DEF P, semaphore_P, SemInv, SchedInv, SchedTypeOK, SemTypeOK
<1>2. CASE S'[s] < 0
  <2>1. /\ waiters' = [waiters EXCEPT ![s] = Append(@, p)]
        /\ schedule_process("SEMAPHORE_BLOCKED")
    BY <1>2 DEF P, semaphore_P
  <2>2. ~In(waiters[s], p)
    BY <1>1 DEF SemInv, SchedInv, OnePlace, WaitersSleep, WaitsFor
  <2>3. \A x : In(waiters'[s], x) <=> In(waiters[s], x) \/ x = p
    BY <1>1, <2>1, <2>2, WaitersAreQueues, QueueAppend
  <2>4. \A t \in Sem \ {s} : waiters'[t] = waiters[t]
    BY <1>1, <2>1
  <2>5. \A x \in Process : Waits(x)' <=> Waits(x) \/ x = p
    BY <2>3, <2>4 DEF Waits, WaitsFor
  <2> QED BY <1>1, <2>1, <2>5
<1>3. CASE ~(S'[s] < 0)
  BY <1>1, <1>3 DEF P, semaphore_P, Waits, WaitsFor, In
<1> QED BY <1>2, <1>3

(* Who waits after a V: all but the process that has waited longest.       *)
LEMMA VWaits ==
    ASSUME SemInv, NEW s \in Sem, V(s)
    PROVE  /\ registered' = registered
           /\ \/ /\ UNCHANGED sched_vars
                 /\ \A x \in Process : Waits(x)' <=> Waits(x)
              \/ \E p \in Process :
                   /\ Waits(p) /\ In(blocked_queue, p)
                   /\ Unblock(p, "HIGH_QUEUE")
                   /\ \A x \in Process : Waits(x)' <=> Waits(x) /\ x # p
<1>1. registered' = registered /\ waiters \in [Sem -> Seq(Process)]
  BY DEF V, semaphore_V, SemInv, SemTypeOK
<1>2. CASE waiters[s] = <<>>
  <2>1. S[s] >= 0 /\ S[s] \in Int
    BY <1>2, WaitersAreQueues
  <2>2. ~(S'[s] <= 0)
    BY <2>1 DEF V, semaphore_V, SemInv, SemTypeOK
  <2>3. UNCHANGED <<waiters, sched_vars>>
    BY <2>2 DEF V, semaphore_V, queue_vars, sched_vars
  <2> QED BY <1>1, <2>3 DEF Waits, WaitsFor, In
<1>3. CASE waiters[s] # <<>>
  <2> DEFINE p == Head(waiters[s])
  <2>1. /\ p \in Process /\ In(blocked_queue, p) /\ Unblock(p, "HIGH_QUEUE")
        /\ waiters' = [waiters EXCEPT ![s] = Tail(@)]
    BY <1>3, VEffect
  <2>2. /\ In(waiters[s], p)
        /\ \A x : In(Tail(waiters[s]), x) <=> In(waiters[s], x) /\ x # p
    BY <1>3, WaitersAreQueues, QueueTail
  <2>3. /\ waiters'[s] = Tail(waiters[s])
        /\ \A t \in Sem \ {s} : waiters'[t] = waiters[t]
    BY <1>1, <2>1
  <2>4. \A t \in Sem \ {s} : ~In(waiters[t], p)
    BY <2>1, <2>2 DEF SemInv, WaitersSleep, WaitsFor
  <2> HIDE DEF p
  <2>5. \A x \in Process : Waits(x)' <=> Waits(x) /\ x # p
    BY <2>2, <2>3, <2>4 DEF Waits, WaitsFor
  <2>6. Waits(p)
    BY <2>2 DEF Waits, WaitsFor
  <2> QED BY <1>1, <2>1, <2>5, <2>6
<1> QED BY <1>2, <1>3

LEMMA OtherCallSemInv ==
    ASSUME SemInv, OtherCall
    PROVE  SemInv'
<1> SUFFICES /\ SchedInv'
             /\ \A p \in Process :
                  In(blocked_queue, p) /\ Waits(p) => In(blocked_queue', p)
  BY WaitersUntouched DEF OtherCall
<1>0. SchedInv
  BY DEF SemInv
<1>1. CASE Dispatch
  <2>1. schedule_process("NONE") /\ "NONE" \in SchedulerFlag
    BY <1>1 DEF Dispatch, SchedulerFlag
  <2> QED BY <1>0, <2>1, ScheduleInv, ScheduleEffect
<1>2. CASE \E flags \in SchedulerFlag \ {"SEMAPHORE_BLOCKED"} : Interrupt(flags)
  <2>1. PICK flags \in SchedulerFlag : schedule_process(flags)
    BY <1>2 DEF Interrupt
  <2> QED BY <1>0, <2>1, ScheduleInv, ScheduleEffect
<1>3. ASSUME NEW p \in Process, Admit(p)
      PROVE  SchedInv' /\ blocked_queue' = blocked_queue
  BY <1>0, <1>3, AdmitInv DEF Admit, schedule_loaded_process
<1>4. ASSUME NEW p \in Process, Charge(p)
      PROVE  SchedInv' /\ blocked_queue' = blocked_queue
  BY <1>0, <1>4, ChargeInv DEF Charge, charge, charge_semaphore, queue_vars
<1>5. ASSUME NEW p \in Process, ~Waits(p), Unblock(p, "LOW_QUEUE")
      PROVE  /\ SchedInv'
             /\ \A x \in Process :
                  In(blocked_queue, x) /\ Waits(x) => In(blocked_queue', x)
  <2>1. SchedInv' /\ "LOW_QUEUE" \in QueueFlag
    BY <1>0, <1>5, UnblockInv DEF QueueFlag
  <2>2. CASE In(blocked_queue, p)
    BY <1>0, <1>5, <2>1, <2>2, UnblockEffect DEF Unblock
  <2>3. CASE ~In(blocked_queue, p)
    BY <1>5, <2>1, <2>3 DEF Unblock, schedule_unblock_process, queue_vars
  <2> QED BY <2>1, <2>2, <2>3
<1> QED BY <1>1, <1>2, <1>3, <1>4, <1>5 DEF OtherCall

LEMMA SemInvariant == SemSpec => []SemInv
<1>1. SemInv /\ [SemNext]_<<sched_vars, sem_vars>> => SemInv'
  <2> SUFFICES ASSUME SemInv, [SemNext]_<<sched_vars, sem_vars>> PROVE SemInv'
    OBVIOUS
  <2>1. CASE SemNext
    BY <2>1, RegisterSemInv, PSemInv, VSemInv, OtherCallSemInv DEF SemNext
  <2>2. CASE UNCHANGED <<sched_vars, sem_vars>>
    <3>1. SchedInv'
      BY <2>2 DEF SemInv, SchedInv, SchedTypeOK, OnePlace,
                  StateAgreesWithPlace, Ready, In, sched_vars
    <3> QED BY <2>2, <3>1, WaitersUntouched DEF sched_vars
  <2> QED BY <2>1, <2>2
<1> QED BY <1>1, InitSemInv, PTL DEF SemSpec

(* The fields of a semaphore (semaphore.h) keep their types; in particular *)
(* NULL is never in a list of waiters, though P adds whoever has the CPU.  *)
THEOREM SemaphoreTypes == SemSpec => []SemTypeOK
BY SemInvariant, PTL DEF SemInv

(* The value of a semaphore (semaphore.h) counts its waiters when it is    *)
(* negative, for any number of processes and semaphores: semaphore_V never *)
(* takes the head of an empty list.                                        *)
THEOREM SemaphoreValues == SemSpec => []ValueCountsWaiters
BY SemInvariant, PTL DEF SemInv

(* A process in a list of waiters is in the blocked queue, and in no other *)
(* list: schedule_unblock_process never drops the wake-up of a V.          *)
THEOREM SemaphoreWaiters == SemSpec => []WaitersSleep
BY SemInvariant, PTL DEF SemInv

(* semaphore_V wakes the process that has waited longest, and no other.    *)
THEOREM SemaphoreWakes == SemSpec => VWakesTheFirstWaiter
<1> DEFINE Wakes ==
      \A s \in Sem :
         S'[s] > S[s] /\ waiters[s] # <<>> =>
            \A p \in Process :
               In(blocked_queue, p) /\ ~In(blocked_queue', p)
                 <=> p = Head(waiters[s]) /\ In(high_queue', p)
<1>1. SemInv /\ [SemNext]_<<sched_vars, sem_vars>> => [Wakes]_<<sched_vars, sem_vars>>
  <2> SUFFICES ASSUME SemInv, SemNext, NEW s \in Sem,
                      S'[s] > S[s], waiters[s] # <<>>, NEW p \in Process
               PROVE  In(blocked_queue, p) /\ ~In(blocked_queue', p)
                        <=> p = Head(waiters[s]) /\ In(high_queue', p)
    OBVIOUS
  <2>1. S[s] < 0 /\ S[s] \in Int /\ S \in [Sem -> Int]
    <3>1. Len(waiters[s]) \in Nat \ {0}
      BY WaitersAreQueues DEF Queue
    <3> QED BY <3>1, WaitersAreQueues DEF SemInv, SemTypeOK
  <2>2. ASSUME NEW t \in Sem, Register(t) PROVE FALSE
    BY <2>1, <2>2 DEF Register, semaphore_register, SemInv, UnregisteredAreUnused
  <2>3. ASSUME NEW t \in Sem, P(t) PROVE FALSE
    BY <2>1, <2>3 DEF P, semaphore_P
  <2>4. ASSUME OtherCall PROVE FALSE
    BY <2>1, <2>4 DEF OtherCall, sem_vars
  <2>5. PICK t \in Sem : V(t)
    BY <2>2, <2>3, <2>4 DEF SemNext
  <2>6. S' = [S EXCEPT ![t] = S[t] + 1]
    BY <2>5 DEF V, semaphore_V
  <2>7. s = t
    BY <2>1, <2>6
  <2>8. V(s)
    BY <2>5, <2>7
  <2> QED BY <2>8, VEffect
<1> QED BY <1>1, SemInvariant, PTL DEF SemSpec, VWakesTheFirstWaiter

(* What a step that uses semaphores is to the scheduler: P and V call it as *)
(* the CPU thread does, and V with a process that is in the blocked queue. *)
LEMMA SemStepIsSchedStep ==
    ASSUME SemInv, SemNext
    PROVE  SchedNext \/ UNCHANGED sched_vars
<1>1. ASSUME NEW s \in Sem, Register(s) PROVE UNCHANGED sched_vars
  BY <1>1 DEF Register
<1>2. ASSUME NEW s \in Sem, P(s) PROVE SchedNext \/ UNCHANGED sched_vars
  BY <1>2 DEF P, semaphore_P, SchedNext, Interrupt, SchedulerFlag
<1>3. ASSUME NEW s \in Sem, V(s) PROVE SchedNext \/ UNCHANGED sched_vars
  <2>1. CASE waiters[s] # <<>>
    BY <1>3, <2>1, VEffect DEF SchedNext, QueueFlag
  <2>2. CASE waiters[s] = <<>>
    <3>1. S[s] >= 0 /\ S[s] \in Int
      BY <2>2, WaitersAreQueues
    <3>2. ~(S'[s] <= 0)
      BY <3>1, <1>3 DEF V, semaphore_V, SemInv, SemTypeOK
    <3> QED BY <3>2, <1>3 DEF V, semaphore_V, queue_vars, sched_vars
  <2> QED BY <2>1, <2>2
<1>4. ASSUME OtherCall PROVE SchedNext
  BY <1>4 DEF OtherCall, SchedNext, QueueFlag
<1> QED BY <1>1, <1>2, <1>3, <1>4 DEF SemNext

(* Semaphores call the scheduler as its specification allows: what holds   *)
(* of the scheduler holds of a scheduler used by semaphores.               *)
THEOREM SemaphoreImplementsScheduler == SemSpec => SemImplementsSched
<1>1. SemInit => SchedInit
  BY DEF SemInit
<1>2. SemInv /\ [SemNext]_<<sched_vars, sem_vars>> => [SchedNext]_sched_vars
  BY SemStepIsSchedStep DEF sched_vars
<1> QED BY <1>1, <1>2, SemInvariant, PTL DEF SemSpec, SemImplementsSched, SchedSpec

(* Neither P nor V, nor any other call in between, lets a process overtake *)
(* another in a ready queue.                                               *)
THEOREM SemaphoreKeepsOrder == SemSpec => NoOvertaking
BY SemaphoreImplementsScheduler, SchedulerKeepsOrder DEF SemImplementsSched
=============================================================================
