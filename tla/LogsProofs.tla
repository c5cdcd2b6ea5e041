------------------------------ MODULE LogsProofs ------------------------------
(***************************************************************************)
(* Theorems about the logs, for any set of processes and any finite set of *)
(* files, any number of records, and any order in which the writers, the   *)
(* view, the refresh thread and the user take their steps.                 *)
(***************************************************************************)
EXTENDS Logs, FileTableProofs

-----------------------------------------------------------------------------
(* The inductive invariant                                                 *)

FileRecord ==
    [what : {"print", "request", "open", "close", "transfer"},
     process : Process, inode : Inode \cup {NULL}]

Entry == {"process", "no_process", "entry"} \cup FileRecord

Place == {"start", "lock", "show", "tail", "wait"}

Fields ==
    /\ log \in Log
    /\ records \in Seq(Entry) /\ Len(records) <= MaxRecords
    /\ todo \in [Thread -> Seq(Entry)]
    /\ head \in 0..Len(records) /\ tail \in 0..Len(records)
    /\ i \in 0..Len(records) /\ shown \in 0..Len(records)
    /\ next \in [Node -> 0..Len(records)]
    /\ at \in [Thread -> {"idle", "first", "link", "tail", "post"}]
    /\ node \in [Thread -> 0..Len(records)]
    /\ \A t \in Thread : node[t] = NULL <=> at[t] = "idle"
    /\ posts \in Nat /\ mem_mutex \in Nat /\ redrawn \in BOOLEAN
    /\ memory_view \in {"wait", "lock", "draw"}
    /\ place \in Place
    /\ print_mutex \in {"free", "view", "memory", "refresher", "others"}
    /\ refresh_mutex \in {"free", "user", "refresher"}

(* Every record is posted at most once, and every post is used up once, by *)
(* a round of the view, which may then post mem_mutex.                     *)
Written(t) == IF at[t] = "idle" THEN 0 ELSE 1
InRound == IF place \in {"lock", "show", "tail"} THEN 1 ELSE 0
PostsAreRecords ==
    posts + mem_mutex + Written(CPU) + Written(DISK) + InRound <= Len(records)

(* Until the first record is the tail, one thread writes: the CPU thread,  *)
(* or for the disk log the disk thread.  So `first' is entered once.       *)
Silent(t) == todo[t] = <<>> /\ at[t] = "idle"
FirstRecord ==
    /\ log \in {"process", "res_acq"} => Silent(DISK)
    /\ log = "disk" => Silent(CPU)
    /\ log = "io" /\ tail = NULL => Silent(DISK) /\ pending = {}
    /\ tail = NULL => posts = 0 /\ place = "start" /\ redrawn
    /\ tail # NULL => head # NULL
    /\ \A t \in Thread :
         /\ at[t] = "first" => tail = NULL
         /\ at[t] \in {"link", "post"} => tail # NULL
         /\ at[t] = "tail" => head # NULL
    /\ place = "wait" => i # NULL

(* With one writer the list is 1, 2, ..., and the view is never more than  *)
(* the record that is being linked ahead of the tail.                      *)
Writer == IF log = "disk" THEN DISK ELSE CPU
OneWriter ==
    log # "io" =>
      /\ IF at[Writer] \in {"first", "link", "tail"}
           THEN Len(records) = tail + 1 /\ node[Writer] = tail + 1
           ELSE Len(records) = tail
      /\ head \in {NULL, 1}
      /\ \A n \in Node : next[n] \in {NULL, n + 1}
      /\ place = "start" => shown = NULL
      /\ place \in {"lock", "show"} /\ i # NULL => shown <= i
      /\ place = "wait" => shown <= i + 1

(* A record is the tail before it is posted.  The process view uses up one *)
(* post before its first round, and the memory view is not woken for it.   *)
Posting == \E t \in Thread : at[t] = "post"
Noticed ==
    /\ place = "wait" /\ i # tail => posts > 0 \/ Posting
    /\ log = "process" =>
         /\ place = "start" => tail = posts + (IF at[CPU] = "post" THEN 1 ELSE 0)
         /\ ~redrawn => \/ posts > 0 \/ mem_mutex > 0 \/ InRound = 1
                        \/ tail = 1 \/ at[CPU] = "post" \/ memory_view = "lock"

ListInv == Fields /\ PostsAreRecords /\ FirstRecord /\ OneWriter /\ Noticed

(* A process has one request at most: not yet pending, pending, or being   *)
(* resolved.                                                               *)
Current(t) == {records[n] : n \in {node[t]} \ {NULL}}
Asking == {r \in Range(todo[CPU]) \cup Current(CPU) : r.what = "request"}
Resolving == Range(todo[DISK]) \cup Current(DISK)
Waiting == pending \cup {<<r.process, r.inode>> : r \in Asking \cup Resolving}

Calls ==
    /\ records \in Seq(FileRecord)
    /\ todo \in [Thread -> Seq(FileRecord)]
    /\ \A k \in DOMAIN todo[CPU] :
         todo[CPU][k].what = "request" => k = 1 /\ at[CPU] = "idle"
    /\ Len(todo[DISK]) <= 1 /\ (at[DISK] # "idle" => todo[DISK] = <<>>)
    /\ \A r \in Resolving : r.what = "transfer" /\ r.inode \in Inode
    /\ \A r \in Asking : r.inode \in Inode
    /\ \A r \in Range(todo[CPU]) \cup Current(CPU) : r.what # "transfer"

OneRequestEach ==
    /\ \A a \in Waiting : a[1] \in asleep /\ a[2] \in o_files[a[1]]
    /\ \A a, b \in pending : a[1] = b[1] => a = b
    /\ \A r \in Asking \cup Resolving, a \in pending : a[1] # r.process
    /\ \A r \in Asking, s \in Resolving : r.process # s.process

(* The last mark that opens or closes a file opens it, if it is active.    *)
OpenedLast(f) ==
    \E k \in DOMAIN Records :
      /\ Records[k].what = "open" /\ Records[k].inode = f
      /\ \A l \in DOMAIN Records :
           l > k => ~(Records[l].what = "close" /\ Records[l].inode = f)

IoFields == asleep \in SUBSET Process /\ pending \in SUBSET (Process \X Inode)

IoInv ==
    /\ log = "io" => Calls /\ OneRequestEach /\ \A f \in active : OpenedLast(f)
    /\ log # "io" => pending = {}

LogsInv == ListInv /\ FileInv /\ IoFields /\ IoInv

-----------------------------------------------------------------------------
(* The list and the view                                                   *)

LEMMA Threads ==
    /\ CPU \in Thread /\ DISK \in Thread /\ CPU # DISK
    /\ \A t \in Thread : t = CPU \/ t = DISK
BY ThreadAssumption

LEMMA InitListInv == LogsInit => ListInv
BY BoundAssumption, Threads
   DEF LogsInit, logs_init, ListInv, Fields, Place, PostsAreRecords, FirstRecord, OneWriter,
       Noticed, Node, NULL, Written, InRound, Silent, Writer, Log

(* A call begins: by the CPU thread, by the disk thread for the disk log,  *)
(* or by the disk thread for a request that is pending.                    *)
LEMMA BeginsListInv ==
    ASSUME ListInv, NEW t \in Thread, NEW new \in Seq(Entry), begins(t, new),
           pending' \in SUBSET pending,
           \/ t = CPU /\ log # "disk"
           \/ t = DISK /\ log = "disk"
           \/ t = DISK /\ log = "io" /\ pending # {}
    PROVE  ListInv'
<1>1. /\ todo[t] = <<>> /\ at[t] = "idle"
      /\ todo' = [todo EXCEPT ![t] = new]
      /\ UNCHANGED <<log, head, tail, next, records, at, node, posts, redrawn, i, place, shown>>
      /\ UNCHANGED <<mem_mutex, memory_view, print_mutex, refresh_mutex>>
  BY DEF begins, list_vars, others, view_vars, screen_vars
<1>2. Fields'
  BY <1>1 DEF ListInv, Fields, Place
<1>3. PostsAreRecords' /\ Noticed'
  BY <1>1 DEF ListInv, PostsAreRecords, Written, InRound, Noticed, Posting
<1>4. FirstRecord'
  BY <1>1, Threads DEF ListInv, Fields, FirstRecord, Silent
<1>5. OneWriter'
  BY <1>1 DEF ListInv, OneWriter, Writer
<1> QED BY <1>2, <1>3, <1>4, <1>5 DEF ListInv

LEMMA CreateListInv ==
    ASSUME ListInv, NEW t \in Thread, log_create(t), UNCHANGED io_vars
    PROVE  ListInv'
<1> DEFINE r == Head(todo[t])
           L == Len(records)
<1>1. /\ todo[t] # <<>> /\ L < MaxRecords /\ at[t] = "idle"
      /\ at' = [at EXCEPT ![t] = IF tail = NULL THEN "first" ELSE "link"]
      /\ records' = Append(records, r)
      /\ todo' = [todo EXCEPT ![t] = Tail(@)]
      /\ node' = [node EXCEPT ![t] = Len(records')]
      /\ UNCHANGED <<log, head, tail, next, posts, redrawn, i, place, shown>>
      /\ UNCHANGED <<mem_mutex, memory_view, print_mutex, refresh_mutex, pending>>
  BY DEF log_create, goes, list_vars, others, view_vars, screen_vars, io_vars
<1>2. /\ todo \in [Thread -> Seq(Entry)] /\ records \in Seq(Entry)
      /\ at \in [Thread -> {"idle", "first", "link", "tail", "post"}]
      /\ node \in [Thread -> 0..L]
  BY DEF ListInv, Fields
<1>3. r \in Entry /\ Tail(todo[t]) \in Seq(Entry)
  BY <1>1, <1>2
<1>4. L \in Nat /\ records' \in Seq(Entry) /\ Len(records') = L + 1
  BY <1>1, <1>2, <1>3
<1>5. todo' \in [Thread -> Seq(Entry)]
  BY <1>1, <1>2, <1>3
<1>6. /\ node' = [node EXCEPT ![t] = L + 1]
      /\ node' \in [Thread -> 0..(L + 1)]
  BY <1>1, <1>2, <1>4
<1> HIDE DEF r, L
<1>7. Fields'
  <2>1. /\ head \in 0..L /\ tail \in 0..L /\ i \in 0..L /\ shown \in 0..L
        /\ next \in [Node -> 0..L] /\ posts \in Nat /\ mem_mutex \in Nat /\ redrawn \in BOOLEAN
        /\ memory_view \in {"wait", "lock", "draw"}
        /\ log \in Log /\ place \in Place
        /\ print_mutex \in {"free", "view", "memory", "refresher", "others"}
        /\ refresh_mutex \in {"free", "user", "refresher"}
        /\ \A u \in Thread : node[u] = NULL <=> at[u] = "idle"
    BY DEF ListInv, Fields, L
  <2>2. /\ head \in 0..(L + 1) /\ tail \in 0..(L + 1) /\ i \in 0..(L + 1)
        /\ shown \in 0..(L + 1) /\ next \in [Node -> 0..(L + 1)]
    BY <2>1, <1>4
  <2>3. L + 1 <= MaxRecords
    BY <1>1, <1>4, BoundAssumption
  <2>4. at' \in [Thread -> {"idle", "first", "link", "tail", "post"}]
    BY <1>1, <1>2
  <2>5. \A u \in Thread : node'[u] = NULL <=> at'[u] = "idle"
    BY <1>1, <1>2, <1>4, <1>6, <2>1 DEF NULL
  <2> QED BY <1>1, <1>4, <1>5, <1>6, <2>1, <2>2, <2>3, <2>4, <2>5 DEF Fields
<1>8. PostsAreRecords'
  <2>1. /\ posts \in Nat /\ mem_mutex \in Nat
        /\ posts + mem_mutex + Written(CPU) + Written(DISK) + InRound <= L
    BY DEF ListInv, Fields, PostsAreRecords, L
  <2>2. /\ Written(CPU) \in Nat /\ Written(DISK) \in Nat /\ InRound \in Nat /\ InRound' = InRound
    BY <1>1 DEF Written, InRound
  <2>3. \/ Written(CPU)' = Written(CPU) + 1 /\ Written(DISK)' = Written(DISK)
        \/ Written(DISK)' = Written(DISK) + 1 /\ Written(CPU)' = Written(CPU)
    BY <1>1, <1>2, Threads DEF Written
  <2> QED BY <1>1, <1>4, <2>1, <2>2, <2>3 DEF PostsAreRecords
<1>9. FirstRecord'
  BY <1>1, <1>2, <1>3, Threads DEF ListInv, Fields, FirstRecord, Silent
<1>10. OneWriter'
  BY <1>1, <1>2, <1>4, <1>6, Threads
     DEF ListInv, FirstRecord, Silent, OneWriter, Writer, Log, Fields, L
<1>11. Noticed'
  BY <1>1, <1>2, Threads DEF ListInv, Noticed, Posting, InRound
<1> QED BY <1>7, <1>8, <1>9, <1>10, <1>11 DEF ListInv

(* list_add: the head, or next of the tail, and then the tail.             *)
LEMMA AddListInv ==
    ASSUME ListInv, NEW t \in Thread, log_add(t), UNCHANGED io_vars
    PROVE  ListInv'
<1> DEFINE L == Len(records)
<1>1. UNCHANGED <<log, records, todo, node, posts, redrawn, i, place, shown, mem_mutex,
                  memory_view, print_mutex, refresh_mutex, pending>>
  BY DEF log_add, others, view_vars, screen_vars, io_vars
<1>2. /\ L \in Nat /\ node \in [Thread -> 0..L]
      /\ at \in [Thread -> {"idle", "first", "link", "tail", "post"}]
      /\ at[t] # "idle" => node[t] \in 1..L
      /\ head \in 0..L /\ tail \in 0..L /\ next \in [Node -> 0..L] /\ L <= MaxRecords
  BY DEF ListInv, Fields, NULL
<1>3. \/ /\ at[t] = "first" /\ at' = [at EXCEPT ![t] = "tail"]
         /\ head' = node[t] /\ UNCHANGED <<tail, next>>
      \/ /\ at[t] = "link" /\ at' = [at EXCEPT ![t] = "tail"]
         /\ next' = [next EXCEPT ![tail] = node[t]] /\ UNCHANGED <<head, tail>>
      \/ /\ at[t] = "tail" /\ at' = [at EXCEPT ![t] = "post"]
         /\ tail' = node[t] /\ UNCHANGED <<head, next>>
  BY DEF log_add, goes
<1>4. at[t] \in {"first", "link", "tail"} /\ at'[t] \in {"tail", "post"}
  BY <1>2, <1>3
<1>5. /\ at' \in [Thread -> {"idle", "first", "link", "tail", "post"}]
      /\ \A u \in Thread \ {t} : at'[u] = at[u]
  BY <1>2, <1>3
<1>6. Fields'
  <2>1. head' \in 0..L /\ tail' \in 0..L /\ next' \in [Node -> 0..L]
    <3>1. node[t] \in 0..L
      BY <1>2
    <3> HIDE DEF L
    <3> QED BY <1>2, <1>3, <3>1
  <2>2. \A u \in Thread : node[u] = NULL <=> at'[u] = "idle"
    BY <1>2, <1>4, <1>5 DEF ListInv, Fields, NULL
  <2> HIDE DEF L
  <2> QED BY <1>1, <1>5, <2>1, <2>2 DEF ListInv, Fields, L
<1>7. PostsAreRecords'
  <2>1. Written(CPU)' = Written(CPU) /\ Written(DISK)' = Written(DISK) /\ InRound' = InRound
    BY <1>1, <1>4, <1>5, Threads DEF Written, InRound
  <2> QED BY <1>1, <2>1 DEF ListInv, PostsAreRecords
<1>8. FirstRecord'
  <2>1. node[t] # NULL
    BY <1>2, <1>4 DEF NULL
  <2>2. tail' = NULL => tail = NULL
    BY <1>3, <2>1
  <2>3. \A u \in Thread \ {t} : tail = NULL => at[u] = "idle"
    BY <1>4, Threads DEF ListInv, Fields, FirstRecord, Silent, Log
  <2>4. \A u \in Thread : Silent(u) => Silent(u)'
    BY <1>1, <1>4, <1>5 DEF Silent
  <2>5. head # NULL => head' # NULL
    BY <1>3, <2>1
  <2>6. \A u \in Thread : /\ at'[u] = "first" => tail' = NULL
                          /\ at'[u] \in {"link", "post"} => tail' # NULL
                          /\ at'[u] = "tail" => head' # NULL
    BY <1>2, <1>3, <1>4, <1>5, <2>1, <2>2, <2>3 DEF ListInv, FirstRecord
  <2>7. tail' # NULL => head' # NULL
    BY <1>3, <2>1 DEF ListInv, FirstRecord
  <2>8. /\ log \in {"process", "res_acq"} => Silent(DISK)'
        /\ log = "disk" => Silent(CPU)'
        /\ log = "io" /\ tail' = NULL => Silent(DISK)' /\ pending = {}
    BY <2>2, <2>4, Threads DEF ListInv, FirstRecord
  <2>9. /\ tail' = NULL => posts = 0 /\ place = "start" /\ redrawn
        /\ place = "wait" => i # NULL
    BY <2>2 DEF ListInv, FirstRecord
  <2> QED BY <1>1, <2>6, <2>7, <2>8, <2>9 DEF FirstRecord
<1>9. ASSUME log # "io" PROVE t = Writer
  BY <1>4, <1>9, Threads DEF ListInv, Fields, FirstRecord, Silent, Writer, Log
<1>10. OneWriter'
  <2> SUFFICES ASSUME log # "io" PROVE OneWriter'
    BY <1>1 DEF OneWriter
  <2>1. L = tail + 1 /\ node[t] = tail + 1 /\ t = Writer /\ Writer' = Writer
    BY <1>1, <1>4, <1>9 DEF ListInv, OneWriter, Writer
  <2>2. head' \in {NULL, 1}
    BY <1>3, <2>1 DEF ListInv, FirstRecord, OneWriter, NULL
  <2>3. \A n \in Node : next'[n] \in {NULL, n + 1}
    BY <1>2, <1>3, <2>1 DEF ListInv, OneWriter
  <2>4. IF at'[t] \in {"first", "link", "tail"}
          THEN L = tail' + 1 /\ node[t] = tail' + 1
          ELSE L = tail'
    BY <1>2, <1>3, <2>1
  <2> QED BY <1>1, <2>1, <2>2, <2>3, <2>4 DEF ListInv, OneWriter
<1>11. Noticed'
  <2>1. /\ Posting => Posting'
        /\ tail' # tail => Posting'
    BY <1>2, <1>3, <1>5 DEF Posting
  <2>2. ASSUME log = "process"
        PROVE  /\ place = "start" => tail' = posts + (IF at'[CPU] = "post" THEN 1 ELSE 0)
               /\ at[CPU] = "post" => at'[CPU] = "post"
               /\ tail' # tail => at'[CPU] = "post"
    <3>1. t = CPU /\ node[t] = tail + 1
      BY <1>4, <1>9, <2>2 DEF Writer, ListInv, OneWriter
    <3>2. posts \in Nat /\ tail \in Nat
      BY DEF ListInv, Fields
    <3>3. at[CPU] # "post" /\ (place = "start" => tail = posts)
      BY <1>4, <2>2, <3>1, <3>2 DEF ListInv, Noticed
    <3>4. \/ at'[CPU] = "tail" /\ tail' = tail
          \/ at'[CPU] = "post" /\ tail' = tail + 1
      BY <1>2, <1>3, <3>1
    <3> QED BY <3>2, <3>3, <3>4
  <2>3. InRound' = InRound
    BY <1>1 DEF InRound
  <2> QED BY <1>1, <2>1, <2>2, <2>3 DEF ListInv, Noticed
<1> QED BY <1>6, <1>7, <1>8, <1>10, <1>11 DEF ListInv

LEMMA PostListInv ==
    ASSUME ListInv, NEW t \in Thread, log_post(t)
    PROVE  ListInv'
<1>1. /\ at[t] = "post" /\ at' = [at EXCEPT ![t] = "idle"]
      /\ node' = [node EXCEPT ![t] = NULL]
      /\ posts' = posts + 1 /\ redrawn' = FALSE
      /\ UNCHANGED <<log, head, tail, next, records, todo, i, place, shown, mem_mutex,
                     memory_view, print_mutex, refresh_mutex>>
  BY DEF log_post, post, goes, list_vars, others, view_vars, screen_vars
<1>2. Fields'
  <2>1. /\ at' \in [Thread -> {"idle", "first", "link", "tail", "post"}]
        /\ node' \in [Thread -> 0..Len(records)]
        /\ \A u \in Thread : node'[u] = NULL <=> at'[u] = "idle"
        /\ posts' \in Nat
    BY <1>1 DEF ListInv, Fields, NULL
  <2> QED BY <1>1, <2>1 DEF ListInv, Fields
<1>3. PostsAreRecords'
  <2>1. \/ Written(CPU)' = Written(CPU) - 1 /\ Written(DISK)' = Written(DISK)
        \/ Written(DISK)' = Written(DISK) - 1 /\ Written(CPU)' = Written(CPU)
    BY <1>1, Threads DEF Written, ListInv, Fields
  <2>2. /\ Written(CPU) \in Nat /\ Written(DISK) \in Nat /\ InRound \in Nat /\ InRound' = InRound
    BY <1>1 DEF Written, InRound
  <2>3. /\ posts \in Nat /\ mem_mutex \in Nat /\ Len(records) \in Nat
        /\ posts + mem_mutex + Written(CPU) + Written(DISK) + InRound <= Len(records)
    BY DEF ListInv, Fields, PostsAreRecords
  <2> QED BY <1>1, <2>1, <2>2, <2>3 DEF PostsAreRecords
<1>4. tail # NULL
  BY <1>1 DEF ListInv, FirstRecord
<1>5. FirstRecord'
  BY <1>1, <1>4, Threads DEF ListInv, Fields, FirstRecord, Silent
<1>6. OneWriter'
  BY <1>1, Threads DEF ListInv, Fields, FirstRecord, Silent, OneWriter, Writer, Log
<1>7. Noticed'
  <2>1. posts' > 0
    BY <1>1 DEF ListInv, Fields
  <2>2. log = "process" => t = CPU
    BY <1>1, Threads DEF ListInv, FirstRecord, Silent
  <2> QED BY <1>1, <2>1, <2>2 DEF ListInv, Fields, Noticed
<1> QED BY <1>2, <1>3, <1>5, <1>6, <1>7 DEF ListInv

(* The steps of the four views, put together.                              *)
ViewStarts ==
    /\ place = "start" /\ place' = IF log = "process" THEN "wait" ELSE "lock"
    /\ posts > 0 /\ posts' = posts - 1 /\ i' = head
    /\ UNCHANGED <<shown, mem_mutex>>
ViewFollows ==
    /\ place = "wait" /\ place' = "lock"
    /\ posts > 0 /\ posts' = posts - 1 /\ i' = next[i]
    /\ UNCHANGED <<shown, mem_mutex>>
ViewShows ==
    /\ place = "show" /\ i # NULL /\ shown' = i
    /\ \/ place' = "show" /\ i' = next[i]
       \/ place' = "tail" /\ i' = i
    /\ UNCHANGED <<posts, mem_mutex>>
ViewTakesTail ==
    /\ place = "tail" /\ place' = "wait" /\ i' = tail
    /\ mem_mutex' = IF log = "process" THEN mem_mutex + 1 ELSE mem_mutex
    /\ UNCHANGED <<posts, shown>>
ViewGoesOn ==
    /\ \/ place = "lock" /\ place' = "show"
       \/ place = "show" /\ place' = "tail"
    /\ UNCHANGED <<i, shown, posts, mem_mutex>>

LEMMA ViewSteps ==
    ASSUME ListInv, View
    PROVE  /\ UNCHANGED <<log, head, tail, next, records, todo, at, node, memory_view, redrawn,
                         refresh_mutex>>
           /\ print_mutex' \in {print_mutex, "free", "view"}
           /\ ViewStarts \/ ViewFollows \/ ViewShows \/ ViewTakesTail \/ ViewGoesOn
<1>1. UNCHANGED <<log, head, tail, next, records, todo, at, node, memory_view, redrawn,
                         refresh_mutex>>
  BY DEF View, writer_vars, list_vars, screen_vars
<1> USE DEF view_goes, waits, locks, shows, loop_ends, breaks_off, takes_tail, takes_next,
            starts, ViewStarts, ViewFollows, ViewShows, ViewTakesTail, ViewGoesOn
<1>2. place = "wait" => i # NULL
  BY DEF ListInv, FirstRecord
<1>3. CASE log # "process" /\ follows
  <2>1. print_mutex' \in {print_mutex, "free", "view"}
    BY <1>3 DEF follows
  <2>2. starts("lock") => ViewStarts
    BY <1>3
  <2>3. locks \/ loop_ends => ViewGoesOn
    OBVIOUS
  <2>4. shows => ViewShows
    OBVIOUS
  <2>5. takes_tail("wait") /\ UNCHANGED mem_mutex => ViewTakesTail
    BY <1>3
  <2>6. takes_next => ViewFollows
    BY <1>2
  <2> HIDE DEF view_goes, waits, locks, shows, loop_ends, breaks_off, takes_tail, takes_next,
              starts, ViewStarts, ViewFollows, ViewShows, ViewTakesTail, ViewGoesOn
  <2> QED BY <1>1, <1>3, <2>1, <2>2, <2>3, <2>4, <2>5, <2>6 DEF follows
<1>4. CASE refresh_process_log
  <2>1. print_mutex' \in {print_mutex, "free", "view"}
    BY <1>4 DEF refresh_process_log
  <2>2. log = "process" /\ starts("wait") => ViewStarts
    OBVIOUS
  <2>3. locks \/ loop_ends => ViewGoesOn
    OBVIOUS
  <2>4. shows \/ breaks_off => ViewShows
    OBVIOUS
  <2>5. log = "process" /\ takes_tail("wait") /\ mem_mutex' = mem_mutex + 1 => ViewTakesTail
    OBVIOUS
  <2>6. takes_next => ViewFollows
    BY <1>2
  <2> HIDE DEF view_goes, waits, locks, shows, loop_ends, breaks_off, takes_tail, takes_next,
              starts, ViewStarts, ViewFollows, ViewShows, ViewTakesTail, ViewGoesOn
  <2> QED BY <1>1, <1>4, <2>1, <2>2, <2>3, <2>4, <2>5, <2>6 DEF refresh_process_log
<1> QED BY <1>1, <1>3, <1>4
        DEF View, refresh_io_log, refresh_disk_log, refresh_res_acq_log

LEMMA ViewListInv ==
    ASSUME ListInv, View, UNCHANGED io_vars
    PROVE  ListInv'
<1> DEFINE L == Len(records)
<1>1. /\ UNCHANGED <<log, head, tail, next, records, todo, at, node, memory_view, redrawn, refresh_mutex,
                     pending>>
      /\ print_mutex' \in {print_mutex, "free", "view"}
      /\ ViewStarts \/ ViewFollows \/ ViewShows \/ ViewTakesTail \/ ViewGoesOn
  BY ViewSteps DEF io_vars
<1>2. /\ L \in Nat /\ L <= MaxRecords /\ posts \in Nat /\ mem_mutex \in Nat
      /\ head \in 0..L /\ tail \in 0..L /\ i \in 0..L /\ shown \in 0..L
      /\ next \in [Node -> 0..L]
      /\ place \in Place /\ log \in Log
  BY DEF ListInv, Fields
<1>3. \A n \in 1..L : n \in Node
  BY <1>2, BoundAssumption DEF Node
<1>4. i # NULL => i \in Node /\ next[i] \in 0..L
  BY <1>2, <1>3 DEF NULL
<1>5. place = "wait" => i # NULL
  BY DEF ListInv, FirstRecord
<1> USE DEF ViewStarts, ViewFollows, ViewShows, ViewTakesTail, ViewGoesOn
<1>6. Fields'
  <2>1. /\ i' \in 0..L /\ shown' \in 0..L /\ posts' \in Nat /\ mem_mutex' \in Nat
        /\ place' \in Place
    BY <1>1, <1>2, <1>4, <1>5 DEF Place
  <2> HIDE DEF L, ViewStarts, ViewFollows, ViewShows, ViewTakesTail, ViewGoesOn
  <2> QED BY <1>1, <2>1 DEF ListInv, Fields, L
<1>7. PostsAreRecords'
  <2>1. Written(CPU)' = Written(CPU) /\ Written(DISK)' = Written(DISK)
    BY <1>1 DEF Written
  <2>2. Written(CPU) \in Nat /\ Written(DISK) \in Nat
    BY DEF Written
  <2>3. posts' + mem_mutex' + InRound' <= posts + mem_mutex + InRound
    BY <1>1, <1>2 DEF InRound
  <2>4. posts' \in Nat /\ mem_mutex' \in Nat /\ InRound \in Nat /\ InRound' \in Nat
    BY <1>1, <1>2 DEF InRound
  <2>5. posts + mem_mutex + Written(CPU) + Written(DISK) + InRound <= L
    BY DEF ListInv, PostsAreRecords
  <2> HIDE DEF L, ViewStarts, ViewFollows, ViewShows, ViewTakesTail, ViewGoesOn
  <2>6. \A a, b, c, d, e, f, g, h \in Nat :
          f + g + h <= a + b + e /\ a + b + c + d + e <= L => f + g + c + d + h <= L
    BY <1>2
  <2>7. posts' + mem_mutex' + Written(CPU) + Written(DISK) + InRound' <= L
    BY <1>2, <2>2, <2>3, <2>4, <2>5, <2>6
  <2> QED BY <1>1, <2>1, <2>7 DEF PostsAreRecords, L
<1>8. FirstRecord'
  <2>1. tail # NULL
    BY <1>1, <1>2 DEF ListInv, FirstRecord
  <2>2. \A t \in Thread : Silent(t)' = Silent(t)
    BY <1>1 DEF Silent
  <2>3. place' = "wait" => i' # NULL
    BY <1>1, <2>1 DEF ListInv, FirstRecord
  <2> HIDE DEF ViewStarts, ViewFollows, ViewShows, ViewTakesTail, ViewGoesOn
  <2> QED BY <1>1, <2>1, <2>2, <2>3, Threads DEF ListInv, FirstRecord
<1>9. OneWriter'
  <2> SUFFICES ASSUME log # "io" PROVE OneWriter'
    BY <1>1 DEF OneWriter
  <2>1. /\ head \in {NULL, 1} /\ (i # NULL => next[i] \in {NULL, i + 1})
        /\ place = "start" => shown = NULL
        /\ place \in {"lock", "show"} /\ i # NULL => shown <= i
        /\ place = "wait" => shown <= i + 1
        /\ L <= tail + 1
    BY <1>2, <1>4 DEF ListInv, OneWriter
  <2>2. /\ place' \in {"lock", "show"} /\ i' # NULL => shown' <= i'
        /\ place' = "wait" => shown' <= i' + 1
        /\ place' # "start"
    BY <1>1, <1>2, <1>5, <2>1 DEF NULL
  <2>3. Writer' = Writer
    BY <1>1 DEF Writer
  <2> HIDE DEF ViewStarts, ViewFollows, ViewShows, ViewTakesTail, ViewGoesOn
  <2> QED BY <1>1, <2>1, <2>2, <2>3 DEF ListInv, OneWriter
<1>10. Noticed'
  <2>1. place' = "wait" /\ i' # tail => posts' > 0 \/ Posting
    <3>1. CASE ViewStarts /\ log = "process" /\ head # tail
      <4>1. tail = posts + (IF at[CPU] = "post" THEN 1 ELSE 0) /\ head = 1
        BY <3>1, <1>2 DEF ListInv, Noticed, OneWriter, FirstRecord
      <4>2. at[CPU] = "post" => Posting
        BY Threads DEF Posting
      <4> QED BY <3>1, <1>2, <4>1, <4>2
    <3> QED BY <1>1, <3>1
  <2>2. ASSUME log = "process", ~redrawn
        PROVE  \/ posts' > 0 \/ mem_mutex' > 0 \/ InRound' = 1
               \/ tail = 1 \/ at[CPU] = "post" \/ memory_view = "lock"
    <3>1. \/ posts > 0 \/ mem_mutex > 0 \/ InRound = 1
          \/ tail = 1 \/ at[CPU] = "post" \/ memory_view = "lock"
      BY <2>2 DEF ListInv, Noticed
    <3>2. CASE ViewStarts
      <4>1. tail = posts + (IF at[CPU] = "post" THEN 1 ELSE 0)
        BY <3>2, <2>2 DEF ListInv, Noticed
      <4> QED BY <1>2, <3>2, <4>1
    <3>3. CASE ViewTakesTail
      BY <3>3, <1>2, <2>2
    <3>4. CASE ViewFollows \/ ViewShows \/ ViewGoesOn
      BY <3>1, <3>4 DEF InRound
    <3> QED BY <1>1, <3>2, <3>3, <3>4
  <2>3. Posting' = Posting /\ place' # "start"
    BY <1>1 DEF Posting
  <2> HIDE DEF ViewStarts, ViewFollows, ViewShows, ViewTakesTail, ViewGoesOn
  <2> QED BY <1>1, <2>1, <2>2, <2>3 DEF Noticed
<1> QED BY <1>6, <1>7, <1>8, <1>9, <1>10 DEF ListInv

(* The memory view, the refresh thread and the user.                       *)
LEMMA ScreenListInv ==
    ASSUME ListInv, Screen, UNCHANGED io_vars
    PROVE  ListInv'
<1>1. UNCHANGED <<log, head, tail, next, records, todo, at, node, posts, i, place, shown, pending>>
  BY DEF Screen, refresh_memory_log, refresh_logs, prompts, other_views, writer_vars, list_vars,
         view_vars, io_vars
<1>2. /\ print_mutex' \in {print_mutex, "free", "memory", "refresher", "others"}
      /\ refresh_mutex' \in {refresh_mutex, "free", "refresher", "user"}
      /\ \/ mem_mutex' = mem_mutex /\ redrawn' = redrawn /\ memory_view' = memory_view
         \/ /\ mem_mutex > 0 /\ mem_mutex' = mem_mutex - 1 /\ memory_view' = "lock"
            /\ redrawn' = redrawn
         \/ mem_mutex' = mem_mutex /\ memory_view' = "draw" /\ redrawn' = TRUE
         \/ /\ mem_mutex' = mem_mutex /\ redrawn' = redrawn
            /\ memory_view = "draw" /\ memory_view' = "wait"
  BY DEF Screen, refresh_memory_log, refresh_logs, prompts, other_views, others_lock,
         others_unlock, takes, screen_vars, memory_vars
<1>3. Fields'
  <2>1. mem_mutex \in Nat /\ redrawn \in BOOLEAN
    BY DEF ListInv, Fields
  <2>3. mem_mutex' \in Nat
    BY <1>2, <2>1
  <2>4. redrawn' \in BOOLEAN /\ memory_view' \in {"wait", "lock", "draw"}
    BY <1>2, <2>1 DEF ListInv, Fields
  <2>2. /\ print_mutex' \in {"free", "view", "memory", "refresher", "others"}
        /\ refresh_mutex' \in {"free", "user", "refresher"}
    BY <1>2 DEF ListInv, Fields
  <2> QED BY <1>1, <2>2, <2>3, <2>4 DEF ListInv, Fields
<1>4. PostsAreRecords'
  <2>1. /\ Written(CPU)' = Written(CPU) /\ Written(DISK)' = Written(DISK) /\ InRound' = InRound
        /\ Written(CPU) \in Nat /\ Written(DISK) \in Nat /\ InRound \in Nat
        /\ posts \in Nat /\ mem_mutex \in Nat
    BY <1>1 DEF Written, InRound, ListInv, Fields
  <2>2. /\ posts + mem_mutex + Written(CPU) + Written(DISK) + InRound <= Len(records)
        /\ Len(records) \in Nat /\ Len(records') = Len(records)
    BY <1>1 DEF ListInv, Fields, PostsAreRecords
  <2> QED BY <1>1, <1>2, <2>1, <2>2 DEF PostsAreRecords
<1>5. FirstRecord' /\ OneWriter' /\ Noticed'
  BY <1>1, <1>2 DEF ListInv, FirstRecord, Silent, OneWriter, Writer, Noticed, Posting, InRound
<1> QED BY <1>3, <1>4, <1>5 DEF ListInv

LEMMA StutterListInv ==
    ASSUME ListInv, UNCHANGED <<log_vars, io_vars>>
    PROVE  ListInv'
BY DEF log_vars, writer_vars, list_vars, view_vars, memory_vars, screen_vars, io_vars, ListInv, Fields,
       PostsAreRecords, Written, InRound, FirstRecord, Silent, OneWriter, Writer, Noticed, Posting

-----------------------------------------------------------------------------
(* The requests and the files                                              *)

LEMMA ConcatPlaces ==
    ASSUME NEW D, NEW s \in Seq(D), NEW u \in Seq(D)
    PROVE  /\ s \o u \in Seq(D) /\ Len(s) \in Nat /\ Len(u) \in Nat
           /\ Len(s \o u) = Len(s) + Len(u)
           /\ \A k \in 1..Len(s) : (s \o u)[k] = s[k]
           /\ \A k \in 1..Len(u) : (s \o u)[Len(s) + k] = u[k]
OBVIOUS

(* Records that do not close a file, put in between the records, leave it  *)
(* opened last.                                                            *)
LEMMA OpenedStays ==
    ASSUME NEW f, Records \in Seq(FileRecord), Records' \in Seq(FileRecord),
           NEW m \in 0..Len(Records), NEW d \in Nat,
           Len(Records') = Len(Records) + d,
           \A k \in 1..m : Records'[k] = Records[k],
           \A k \in (m + 1)..Len(Records) : Records'[k + d] = Records[k],
           \A k \in (m + 1)..(m + d) : ~(Records'[k].what = "close" /\ Records'[k].inode = f)
    PROVE  OpenedLast(f) => OpenedLast(f)'
<1> SUFFICES ASSUME OpenedLast(f) PROVE OpenedLast(f)'
  OBVIOUS
<1> DEFINE L == Len(Records)
           new(k) == IF k <= m THEN k ELSE k + d
<1>1. DOMAIN Records = 1..L /\ DOMAIN Records' = 1..(L + d) /\ L \in Nat
  OBVIOUS
<1>2. PICK k \in 1..L :
        /\ Records[k].what = "open" /\ Records[k].inode = f
        /\ \A l \in 1..L : l > k => ~(Records[l].what = "close" /\ Records[l].inode = f)
  BY <1>1 DEF OpenedLast
<1>3. new(k) \in 1..(L + d) /\ Records'[new(k)] = Records[k]
  BY <1>1
<1>4. ASSUME NEW l \in 1..(L + d), l > new(k)
      PROVE  ~(Records'[l].what = "close" /\ Records'[l].inode = f)
  <2>1. CASE l <= m
    <3>1. l \in 1..L /\ l > k /\ Records'[l] = Records[l]
      BY <1>1, <1>4, <2>1
    <3> QED BY <3>1, <1>2
  <2>2. CASE l > m /\ l <= m + d
    BY <1>1, <2>2
  <2>3. CASE l > m + d
    <3>1. l - d \in (m + 1)..L /\ l - d > k /\ (l - d) + d = l
      BY <1>1, <1>4, <2>3
    <3>2. Records'[l] = Records[l - d]
      BY <3>1
    <3> QED BY <3>1, <3>2, <1>2
  <2> QED BY <1>1, <2>1, <2>2, <2>3
<1> QED BY <1>1, <1>2, <1>3, <1>4 DEF OpenedLast

LEMMA RecordsType ==
    ASSUME Calls
    PROVE  /\ Records \in Seq(FileRecord) /\ records \in Seq(FileRecord)
           /\ todo[CPU] \in Seq(FileRecord)
BY Threads DEF Calls, Records

(* What the CPU thread does when a call of it begins: nothing is under way.*)
LEMMA CallBegins ==
    ASSUME Fields, Calls, NEW t \in Thread, NEW new \in Seq(FileRecord), begins(t, new)
    PROVE  /\ todo[t] = <<>> /\ Range(todo[t]) = {} /\ Current(t) = {}
           /\ at[t] = "idle" /\ at' = at /\ records' = records /\ node' = node
           /\ todo'[t] = new /\ \A u \in Thread \ {t} : todo'[u] = todo[u]
           /\ todo' \in [Thread -> Seq(FileRecord)]
           /\ \A u \in Thread : Current(u)' = Current(u)
<1>1. /\ todo[t] = <<>> /\ at[t] = "idle"
      /\ todo' = [todo EXCEPT ![t] = new]
      /\ UNCHANGED <<records, at, node>>
  BY DEF begins
<1>2. node[t] = NULL
  BY <1>1 DEF Fields
<1>3. Range(todo[t]) = {} /\ Current(t) = {}
  BY <1>1, <1>2 DEF Range, Current
<1> QED BY <1>1, <1>3 DEF Calls, Current

(* A call keeps to the records that its thread writes.                     *)
LEMMA CallKeepsCalls ==
    ASSUME Fields, Calls, NEW t \in Thread, NEW new \in Seq(FileRecord), begins(t, new),
           t = CPU => \A k \in DOMAIN new :
                        /\ new[k].what # "transfer"
                        /\ new[k].what = "request" => k = 1 /\ new[k].inode \in Inode,
           t = DISK => /\ Len(new) <= 1
                       /\ \A k \in DOMAIN new : new[k].what = "transfer" /\ new[k].inode \in Inode
    PROVE  Calls'
<1>1. /\ Current(t) = {} /\ at[t] = "idle" /\ at' = at /\ records' = records
      /\ todo'[t] = new /\ \A u \in Thread \ {t} : todo'[u] = todo[u]
      /\ todo' \in [Thread -> Seq(FileRecord)]
      /\ \A u \in Thread : Current(u)' = Current(u)
  BY CallBegins
<1>2. \A r \in Range(new) : \E k \in DOMAIN new : r = new[k]
  BY DEF Range
<1>3. CASE t = CPU
  <2>1. /\ todo'[CPU] = new /\ at[CPU] = "idle" /\ todo'[DISK] = todo[DISK]
        /\ Current(CPU)' = {} /\ Current(DISK)' = Current(DISK)
    BY <1>1, <1>3, Threads
  <2>2. Resolving' = Resolving
    BY <2>1 DEF Resolving
  <2>3. \A r \in Range(new) : r.what # "transfer" /\ (r.what = "request" => r.inode \in Inode)
    BY <1>2, <1>3
  <2>4. /\ \A r \in Asking' : r.inode \in Inode
        /\ \A r \in Range(todo'[CPU]) \cup Current(CPU)' : r.what # "transfer"
    BY <2>1, <2>3 DEF Asking
  <2>5. \A k \in DOMAIN todo'[CPU] :
          todo'[CPU][k].what = "request" => k = 1 /\ at'[CPU] = "idle"
    BY <1>1, <1>3, <2>1
  <2> QED BY <1>1, <2>1, <2>2, <2>4, <2>5 DEF Calls
<1>4. CASE t = DISK
  <2>1. /\ todo'[DISK] = new /\ at[DISK] = "idle" /\ todo'[CPU] = todo[CPU]
        /\ Current(DISK)' = {} /\ Current(CPU)' = Current(CPU)
    BY <1>1, <1>4, Threads
  <2>2. Asking' = Asking
    BY <2>1 DEF Asking
  <2>3. \A r \in Resolving' : r.what = "transfer" /\ r.inode \in Inode
    BY <1>2, <1>4, <2>1 DEF Resolving
  <2>4. Len(todo'[DISK]) <= 1 /\ at'[DISK] = "idle"
    BY <1>1, <1>4, <2>1
  <2> QED BY <1>1, <2>1, <2>2, <2>3, <2>4 DEF Calls
<1> QED BY <1>3, <1>4, Threads

(* A call of the CPU thread adds its records after those there are.        *)
LEMMA CallKeepsOpen ==
    ASSUME Fields, Calls, NEW new \in Seq(FileRecord), begins(CPU, new), NEW f,
           \A k \in 1..Len(new) : ~(new[k].what = "close" /\ new[k].inode = f)
    PROVE  OpenedLast(f) => OpenedLast(f)'
<1>1. /\ todo[CPU] = <<>> /\ records' = records /\ todo'[CPU] = new
      /\ records \in Seq(FileRecord)
  BY CallBegins, Threads, RecordsType
<1>2. Records = records
  BY <1>1 DEF Records
<1>3. Records' = records \o new
  BY <1>1 DEF Records
<1> DEFINE L == Len(Records)
<1>4. /\ L \in Nat /\ Len(new) \in Nat /\ Len(Records') = L + Len(new)
      /\ Records \in Seq(FileRecord) /\ Records' \in Seq(FileRecord)
      /\ \A k \in 1..L : Records'[k] = Records[k]
      /\ \A k \in 1..Len(new) : Records'[L + k] = new[k]
  BY <1>1, <1>2, <1>3, ConcatPlaces
<1>5. ASSUME NEW k \in (L + 1)..(L + Len(new))
      PROVE  ~(Records'[k].what = "close" /\ Records'[k].inode = f)
  <2>1. k - L \in 1..Len(new) /\ L + (k - L) = k
    BY <1>4
  <2> QED BY <1>4, <2>1
<1>6. \A k \in (L + 1)..L : Records'[k + Len(new)] = Records[k]
  BY <1>4
<1>7. L \in 0..L
  BY <1>4
<1> HIDE DEF L
<1> QED BY <1>4, <1>5, <1>6, <1>7, OpenedStays DEF L

LEMMA PrintIoInv ==
    ASSUME LogsInv, log = "io", NEW p \in Process, print_request(p)
    PROVE  IoInv'
<1> DEFINE r == Record("print", p, NULL)
<1>1. Fields /\ Calls /\ OneRequestEach /\ \A f \in active : OpenedLast(f)
  BY DEF LogsInv, ListInv, IoInv
<1>2. r \in FileRecord /\ r.what = "print" /\ <<r>> \in Seq(FileRecord)
  BY DEF Record, FileRecord
<1> HIDE DEF r
<1>3. begins(CPU, <<r>>) /\ UNCHANGED <<active, o_count, o_files, asleep, pending>> /\ log' = log
  BY DEF print_request, r, io_vars, file_vars, begins, others
<1>4. /\ todo[CPU] = <<>> /\ Range(todo[CPU]) = {} /\ Current(CPU) = {}
      /\ at[CPU] = "idle" /\ at' = at /\ records' = records /\ node' = node
      /\ todo'[CPU] = <<r>> /\ todo'[DISK] = todo[DISK]
      /\ todo' \in [Thread -> Seq(FileRecord)]
      /\ \A u \in Thread : Current(u)' = Current(u)
  BY <1>1, <1>2, <1>3, CallBegins, Threads
<1>5. Range(todo'[CPU]) = {r}
  BY <1>4 DEF Range
<1>6. Asking = {} /\ Asking' = {} /\ Resolving' = Resolving
  BY <1>2, <1>4, <1>5, Threads DEF Asking, Resolving
<1>7. Calls'
  <2>1. \A k \in DOMAIN <<r>> : <<r>>[k] = r
    OBVIOUS
  <2> QED BY <1>1, <1>2, <1>3, <2>1, Threads, CallKeepsCalls
<1>8. OneRequestEach'
  BY <1>1, <1>3, <1>6 DEF OneRequestEach, Waiting
<1>9. \A f \in active : OpenedLast(f)'
  <2>1. \A k \in 1..Len(<<r>>) : <<r>>[k] = r
    OBVIOUS
  <2> QED BY <1>1, <1>2, <1>3, <2>1, CallKeepsOpen
<1> QED BY <1>3, <1>7, <1>8, <1>9 DEF IoInv

LEMMA RequestIoInv ==
    ASSUME LogsInv, log = "io", NEW p \in Process, NEW f \in Inode, disk_file_request(p, f)
    PROVE  IoInv'
<1> DEFINE r == Record("request", p, f)
           o == Record("open", p, f)
           new == <<r>> \o IF f \in active THEN <<>> ELSE <<o>>
<1>1. Fields /\ Calls /\ OneRequestEach /\ (\A g \in active : OpenedLast(g)) /\ FileTypeOK
  BY DEF LogsInv, ListInv, IoInv, FileInv
<1>2. /\ r \in FileRecord /\ r.what = "request" /\ r.process = p /\ r.inode = f
      /\ o \in FileRecord /\ o.what = "open" /\ o.inode = f
  BY DEF Record, FileRecord
<1>3. /\ begins(CPU, new) /\ p \notin asleep /\ asleep' = asleep \cup {p}
      /\ pending' = pending /\ log' = log /\ fs_request(p, f)
  BY DEF disk_file_request, begins, others
<1>4. /\ active' = active \cup {f} /\ f \in o_files'[p]
      /\ \A q \in Process : o_files[q] \subseteq o_files'[q]
  BY <1>1, <1>3 DEF fs_request, has_opened_file, FileTypeOK
<1> HIDE DEF r, o
<1>5. /\ new \in Seq(FileRecord) /\ Len(new) \in {1, 2} /\ new[1] = r
      /\ f \in active => Len(new) = 1
      /\ f \notin active => Len(new) = 2 /\ new[2] = o
  BY <1>2
<1>6. \A k \in DOMAIN new : \/ k = 1 /\ new[k] = r
                            \/ k = 2 /\ new[k] = o
  BY <1>5
<1> HIDE DEF new
<1>7. /\ todo[CPU] = <<>> /\ Range(todo[CPU]) = {} /\ Current(CPU) = {}
      /\ records' = records /\ todo'[CPU] = new /\ todo'[DISK] = todo[DISK]
      /\ \A u \in Thread : Current(u)' = Current(u)
  BY <1>1, <1>3, <1>5, CallBegins, Threads
<1>8. Asking = {} /\ Asking' = {r} /\ Resolving' = Resolving
  <2>1. r \in Range(new) /\ \A s \in Range(new) : s = r \/ s = o
    BY <1>5, <1>6 DEF Range
  <2> QED BY <1>2, <1>7, <2>1, Threads DEF Asking, Resolving
<1>9. Calls'
  BY <1>1, <1>2, <1>3, <1>5, <1>6, Threads, CallKeepsCalls
<1>10. OneRequestEach'
  <2>1. Waiting' = Waiting \cup {<<p, f>>}
    BY <1>2, <1>3, <1>8 DEF Waiting
  <2>2. \A a \in Waiting : a[1] \in asleep /\ a[2] \in o_files[a[1]]
    BY <1>1 DEF OneRequestEach
  <2>3. \A a \in Waiting' : a[1] \in asleep' /\ a[2] \in o_files'[a[1]]
    <3>1. asleep \in SUBSET Process
      BY DEF LogsInv, IoFields
    <3> QED BY <1>3, <1>4, <2>1, <2>2, <3>1
  <2>4. \A a \in pending : a[1] # p
    BY <1>3, <2>2 DEF Waiting
  <2>5. ASSUME NEW s \in Resolving PROVE s.process # p
    <3>1. <<s.process, s.inode>> \in Waiting
      BY DEF Waiting
    <3>2. <<s.process, s.inode>>[1] \in asleep
      BY <2>2, <3>1
    <3> QED BY <1>3, <3>2
  <2> QED BY <1>1, <1>2, <1>3, <1>8, <2>3, <2>4, <2>5 DEF OneRequestEach
<1>11. ASSUME NEW g \in active PROVE OpenedLast(g)'
  <2>1. \A k \in 1..Len(new) : ~(new[k].what = "close" /\ new[k].inode = g)
    BY <1>2, <1>5, <1>6
  <2> QED BY <1>1, <1>3, <1>5, <2>1, CallKeepsOpen
<1>12. ASSUME f \notin active PROVE OpenedLast(f)'
  <2> DEFINE L == Len(records)
  <2>1. /\ records \in Seq(FileRecord) /\ L \in Nat /\ Len(new) = 2 /\ new[2] = o
        /\ Records' = records \o new
    BY <1>1, <1>5, <1>7, <1>12, RecordsType DEF Records
  <2>2. Len(Records') = L + 2 /\ Records' \in Seq(FileRecord) /\ Records'[L + 2] = o
    <3>1. 2 \in 1..Len(new)
      BY <2>1
    <3>2. /\ records \o new \in Seq(FileRecord) /\ Len(records \o new) = L + Len(new)
          /\ \A k \in 1..Len(new) : (records \o new)[L + k] = new[k]
      <4>1. records \in Seq(FileRecord) /\ new \in Seq(FileRecord)
        BY <1>5, <2>1
      <4> QED BY ONLY <4>1, ConcatPlaces
    <3> HIDE DEF L
    <3> QED BY <2>1, <3>1, <3>2
  <2>3. DOMAIN Records' = 1..(L + 2)
    BY <2>2
  <2>4. L + 2 \in DOMAIN Records' /\ \A l \in DOMAIN Records' : ~(l > L + 2)
    BY <2>1, <2>3
  <2> QED BY <1>2, <2>2, <2>4 DEF OpenedLast
<1> QED BY <1>3, <1>4, <1>9, <1>10, <1>11, <1>12 DEF IoInv

LEMMA FinishIoInv ==
    ASSUME LogsInv, log = "io", NEW p \in Process, process_finish_files(p)
    PROVE  IoInv'
<1>1. Fields /\ Calls /\ OneRequestEach /\ (\A g \in active : OpenedLast(g)) /\ FileTypeOK
  BY DEF LogsInv, ListInv, IoInv, FileInv
<1>2. /\ p \notin asleep /\ fs_close_files(p) /\ UNCHANGED <<asleep, pending, log>>
  BY DEF process_finish_files, begins, others
<1>3. active' \subseteq active /\ o_files' = [o_files EXCEPT ![p] = {}]
  BY <1>2 DEF fs_close_files
<1> DEFINE C == active \ active'
<1>4. PICK closed \in SetToSeqs(C) :
        begins(CPU, [k \in DOMAIN closed |-> Record("close", p, closed[k])])
  BY DEF process_finish_files
<1> DEFINE new == [k \in DOMAIN closed |-> Record("close", p, closed[k])]
<1>5. /\ C \subseteq Inode /\ Cardinality(C) \in Nat
      /\ closed \in [1..Cardinality(C) -> C]
  BY <1>1, <1>4, InodeAssumption, FS_Subset, FS_CardinalityType DEF FileTypeOK, SetToSeqs
<1> HIDE DEF C
<1>6. \A k \in 1..Cardinality(C) :
        /\ new[k] \in FileRecord /\ new[k].what = "close" /\ new[k].inode \in C
  BY <1>5 DEF Record, FileRecord
<1>7. new \in Seq(FileRecord) /\ Len(new) = Cardinality(C) /\ DOMAIN new = 1..Cardinality(C)
  BY <1>5, <1>6
<1>8. begins(CPU, new)
  BY <1>4
<1> HIDE DEF new
<1>9. /\ todo[CPU] = <<>> /\ Range(todo[CPU]) = {} /\ Current(CPU) = {}
      /\ todo'[CPU] = new /\ todo'[DISK] = todo[DISK]
      /\ \A u \in Thread : Current(u)' = Current(u)
  BY <1>1, <1>7, <1>8, CallBegins, Threads
<1>10. Asking = {} /\ Asking' = {} /\ Resolving' = Resolving
  <2>1. \A s \in Range(new) : s.what = "close"
    BY <1>6, <1>7 DEF Range
  <2> QED BY <1>9, <2>1, Threads DEF Asking, Resolving
<1>11. Calls'
  BY <1>1, <1>6, <1>7, <1>8, Threads, CallKeepsCalls
<1>12. OneRequestEach'
  <2>1. Waiting' = Waiting
    BY <1>2, <1>10 DEF Waiting
  <2>2. \A a \in Waiting : a[1] \in asleep /\ a[2] \in o_files[a[1]]
    BY <1>1 DEF OneRequestEach
  <2>3. asleep \in SUBSET Process
    BY DEF LogsInv, IoFields
  <2>4. \A a \in Waiting : o_files'[a[1]] = o_files[a[1]]
    BY <1>1, <1>2, <1>3, <2>2, <2>3 DEF FileTypeOK
  <2> QED BY <1>1, <1>2, <1>10, <2>1, <2>2, <2>4 DEF OneRequestEach
<1>13. ASSUME NEW g \in active' PROVE OpenedLast(g)'
  <2>1. g \in active /\ g \notin C
    BY <1>3, <1>13 DEF C
  <2>2. \A k \in 1..Len(new) : ~(new[k].what = "close" /\ new[k].inode = g)
    BY <1>6, <1>7, <2>1
  <2> QED BY <1>1, <1>7, <1>8, <2>1, <2>2, CallKeepsOpen
<1> QED BY <1>2, <1>11, <1>12, <1>13 DEF IoInv

LEMMA ResolveIoInv ==
    ASSUME LogsInv, rw_disk_op_resolve
    PROVE  IoInv'
<1>1. Fields /\ Calls /\ OneRequestEach /\ (\A g \in active : OpenedLast(g)) /\ IoFields
  BY DEF LogsInv, ListInv, IoInv, rw_disk_op_resolve
<1>2. PICK request \in pending :
        /\ begins(DISK, <<Record("transfer", request[1], request[2])>>)
        /\ pending' = pending \ {request}
        /\ UNCHANGED <<active, o_files, asleep, log>>
  BY DEF rw_disk_op_resolve, file_vars, begins, others
<1> DEFINE r == Record("transfer", request[1], request[2])
<1>3. request \in Process \X Inode
  BY <1>1, <1>2 DEF IoFields
<1>4. /\ r \in FileRecord /\ r.what = "transfer"
      /\ r.process = request[1] /\ r.inode = request[2] /\ r.inode \in Inode
      /\ request = <<r.process, r.inode>>
  BY <1>3 DEF Record, FileRecord
<1>5. begins(DISK, <<r>>)
  BY <1>2
<1> HIDE DEF r
<1>6. <<r>> \in Seq(FileRecord) /\ Len(<<r>>) = 1 /\ \A k \in DOMAIN <<r>> : <<r>>[k] = r
  BY <1>4
<1>7. /\ todo[DISK] = <<>> /\ Range(todo[DISK]) = {} /\ Current(DISK) = {} /\ records' = records
      /\ todo'[DISK] = <<r>> /\ todo'[CPU] = todo[CPU]
      /\ \A u \in Thread : Current(u)' = Current(u)
  BY <1>1, <1>5, <1>6, CallBegins, Threads
<1>8. Resolving = {} /\ Resolving' = {r} /\ Asking' = Asking
  <2>1. Range(<<r>>) = {r}
    BY <1>6 DEF Range
  <2> QED BY <1>7, <2>1, Threads DEF Asking, Resolving
<1>9. Calls'
  <2>1. /\ Len(<<r>>) <= 1
        /\ \A k \in DOMAIN <<r>> : <<r>>[k].what = "transfer" /\ <<r>>[k].inode \in Inode
    BY <1>4, <1>6
  <2> HIDE DEF LogsInv
  <2> QED BY <1>1, <1>5, <1>6, <2>1, Threads, CallKeepsCalls
<1>10. OneRequestEach'
  <2>1. Waiting' \subseteq Waiting
    BY <1>2, <1>4, <1>8 DEF Waiting
  <2>2. \A a \in Waiting' : a[1] \in asleep' /\ a[2] \in o_files'[a[1]]
    BY <1>1, <1>2, <2>1 DEF OneRequestEach
  <2>3. \A a \in pending' : a[1] # r.process
    BY <1>1, <1>2, <1>4 DEF OneRequestEach
  <2>4. \A s \in Asking : s.process # r.process
    BY <1>1, <1>2, <1>4 DEF OneRequestEach
  <2> QED BY <1>1, <1>2, <1>8, <2>2, <2>3, <2>4 DEF OneRequestEach
<1>11. Records' = Records
  BY <1>7 DEF Records
<1>12. \A g \in active : OpenedLast(g)'
  BY <1>1, <1>11 DEF OpenedLast
<1> QED BY <1>2, <1>9, <1>10, <1>12 DEF IoInv, rw_disk_op_resolve

(* Writing a record takes it from the call to the list.                    *)
LEMMA CreateIoInv ==
    ASSUME LogsInv, log = "io", NEW t \in Thread, log_create(t), UNCHANGED io_vars
    PROVE  IoInv'
<1> DEFINE r == Head(todo[t])
           L == Len(records)
<1>1. Fields /\ Calls /\ OneRequestEach /\ (\A g \in active : OpenedLast(g))
  BY DEF LogsInv, ListInv, IoInv
<1>2. /\ todo[t] # <<>> /\ at[t] = "idle"
      /\ at' = [at EXCEPT ![t] = IF tail = NULL THEN "first" ELSE "link"]
      /\ records' = Append(records, r) /\ log' = log
      /\ todo' = [todo EXCEPT ![t] = Tail(@)]
      /\ node' = [node EXCEPT ![t] = Len(records')]
      /\ UNCHANGED <<active, o_files, asleep, pending>>
  BY DEF log_create, goes, others, io_vars, file_vars
<1>3. /\ todo \in [Thread -> Seq(FileRecord)] /\ records \in Seq(FileRecord)
      /\ todo[t] \in Seq(FileRecord)
      /\ at \in [Thread -> {"idle", "first", "link", "tail", "post"}]
      /\ node \in [Thread -> 0..L] /\ node[t] = NULL /\ L \in Nat
  BY <1>1, <1>2 DEF Calls, Fields
<1>4. /\ r \in FileRecord /\ r = todo[t][1] /\ Tail(todo[t]) \in Seq(FileRecord)
      /\ Len(todo[t]) \in Nat \ {0} /\ Len(Tail(todo[t])) = Len(todo[t]) - 1
      /\ \A k \in 1..(Len(todo[t]) - 1) : Tail(todo[t])[k] = todo[t][k + 1]
  BY <1>2, <1>3
<1> HIDE DEF r, L
<1>5. /\ records' \in Seq(FileRecord) /\ Len(records') = L + 1 /\ records'[L + 1] = r
      /\ \A k \in 1..L : records'[k] = records[k]
  BY <1>2, <1>3, <1>4 DEF L
<1>6. /\ todo' \in [Thread -> Seq(FileRecord)] /\ todo'[t] = Tail(todo[t])
      /\ \A u \in Thread \ {t} : todo'[u] = todo[u] /\ at'[u] = at[u] /\ node'[u] = node[u]
      /\ node'[t] = L + 1 /\ at'[t] # "idle"
  BY <1>2, <1>3, <1>4, <1>5
<1>7. /\ Current(t) = {} /\ Current(t)' = {r}
      /\ \A u \in Thread \ {t} : Current(u)' = Current(u)
  <2>1. Current(t) = {}
    BY <1>3 DEF Current
  <2>2. node'[t] # NULL
    BY <1>3, <1>6 DEF NULL
  <2>3. Current(t)' = {records'[node'[t]]}
    BY <2>2 DEF Current
  <2>4. ASSUME NEW u \in Thread \ {t} PROVE Current(u)' = Current(u)
    <3>1. node'[u] = node[u] /\ node[u] \in 0..L
      BY <1>3, <1>6
    <3>2. \A n \in {node[u]} \ {NULL} : records'[n] = records[n]
      BY <1>3, <1>5, <3>1 DEF NULL
    <3> QED BY <3>1, <3>2 DEF Current
  <2> QED BY <1>5, <1>6, <2>1, <2>3, <2>4
<1>8. Range(todo[t]) = Range(todo'[t]) \cup {r}
  <2>1. DOMAIN todo[t] = 1..Len(todo[t]) /\ DOMAIN todo'[t] = 1..(Len(todo[t]) - 1)
    BY <1>3, <1>4, <1>6
  <2>2. ASSUME NEW k \in 1..Len(todo[t]), k # 1
        PROVE  k - 1 \in 1..(Len(todo[t]) - 1) /\ todo'[t][k - 1] = todo[t][k]
    BY <1>4, <1>6, <2>2
  <2>3. ASSUME NEW k \in 1..(Len(todo[t]) - 1)
        PROVE  k + 1 \in 1..Len(todo[t]) /\ todo'[t][k] = todo[t][k + 1]
    BY <1>4, <1>6
  <2>4. 1 \in 1..Len(todo[t]) /\ todo[t][1] = r
    BY <1>4
  <2>5. \A x \in Range(todo[t]) : x \in Range(todo'[t]) \cup {r}
    <3> TAKE x \in Range(todo[t])
    <3>1. PICK k \in 1..Len(todo[t]) : x = todo[t][k]
      BY <2>1 DEF Range
    <3>2. CASE k = 1
      BY <2>4, <3>1, <3>2
    <3>3. CASE k # 1
      BY <2>1, <2>2, <3>1, <3>3 DEF Range
    <3> QED BY <3>2, <3>3
  <2>6. \A x \in Range(todo'[t]) \cup {r} : x \in Range(todo[t])
    <3>1. r \in Range(todo[t])
      BY <2>1, <2>4 DEF Range
    <3>2. ASSUME NEW x \in Range(todo'[t]) PROVE x \in Range(todo[t])
      <4>1. PICK k \in 1..(Len(todo[t]) - 1) : x = todo'[t][k]
        BY <2>1 DEF Range
      <4> QED BY <2>1, <2>3, <4>1 DEF Range
    <3> QED BY <3>1, <3>2
  <2> QED BY <2>5, <2>6
<1>9. Asking' = Asking /\ Resolving' = Resolving
  <2>1. CASE t = CPU
    BY <1>6, <1>7, <1>8, <2>1, Threads DEF Asking, Resolving
  <2>2. CASE t = DISK
    BY <1>6, <1>7, <1>8, <2>2, Threads DEF Asking, Resolving
  <2> QED BY <2>1, <2>2, Threads
<1>10. Calls'
  <2>1. ASSUME NEW k \in DOMAIN todo'[CPU], todo'[CPU][k].what = "request"
        PROVE  k = 1 /\ at'[CPU] = "idle"
    <3>1. CASE t = CPU
      <4>1. k \in 1..(Len(todo[CPU]) - 1)
        BY <1>4, <1>6, <2>1, <3>1
      <4>2. k + 1 \in DOMAIN todo[CPU] /\ todo[CPU][k + 1].what = "request" /\ k + 1 # 1
        BY <1>3, <1>4, <1>6, <2>1, <3>1, <4>1
      <4> QED BY <1>1, <4>2 DEF Calls
    <3>2. CASE t # CPU
      BY <1>1, <1>6, <2>1, <3>2, Threads DEF Calls
    <3> QED BY <3>1, <3>2
  <2>2. Len(todo'[DISK]) <= 1 /\ (at'[DISK] # "idle" => todo'[DISK] = <<>>)
    <3>1. CASE t = DISK
      <4>1. Len(todo'[DISK]) = 0
        BY <1>1, <1>4, <1>6, <3>1 DEF Calls
      <4> QED BY <1>6, <3>1, <4>1, Threads
    <3>2. CASE t # DISK
      BY <1>1, <1>6, <3>2, Threads DEF Calls
    <3> QED BY <3>1, <3>2
  <2>3. Range(todo'[CPU]) \cup Current(CPU)' = Range(todo[CPU]) \cup Current(CPU)
    <3>1. CASE t = CPU
      BY <1>7, <1>8, <3>1
    <3>2. CASE t # CPU
      BY <1>6, <1>7, <3>2, Threads
    <3> QED BY <3>1, <3>2
  <2> QED BY <1>1, <1>5, <1>6, <1>9, <2>1, <2>2, <2>3 DEF Calls
<1>11. OneRequestEach'
  BY <1>1, <1>2, <1>9 DEF OneRequestEach, Waiting
<1>12. ASSUME NEW f \in active PROVE OpenedLast(f)'
  <2> DEFINE n == Len(todo[CPU])
  <2>1. /\ Records \in Seq(FileRecord) /\ Len(Records) = L + n /\ n \in Nat
        /\ todo[CPU] \in Seq(FileRecord)
        /\ \A k \in 1..L : Records[k] = records[k]
        /\ \A k \in 1..n : Records[L + k] = todo[CPU][k]
    BY <1>3, Threads, ConcatPlaces DEF Records, L
  <2>2. /\ Records' \in Seq(FileRecord) /\ Len(Records') = L + 1 + Len(todo'[CPU])
        /\ Len(todo'[CPU]) \in Nat
        /\ \A k \in 1..(L + 1) : Records'[k] = records'[k]
        /\ \A k \in 1..Len(todo'[CPU]) : Records'[L + 1 + k] = todo'[CPU][k]
    <3>1. todo'[CPU] \in Seq(FileRecord) /\ records' \in Seq(FileRecord)
      BY <1>5, <1>6, Threads
    <3> DEFINE u == todo'[CPU]
               v == records'
    <3>2. /\ v \o u \in Seq(FileRecord) /\ Len(v \o u) = Len(v) + Len(u) /\ Len(u) \in Nat
          /\ \A k \in 1..Len(v) : (v \o u)[k] = v[k]
          /\ \A k \in 1..Len(u) : (v \o u)[Len(v) + k] = u[k]
      BY ONLY <3>1, ConcatPlaces
    <3>3. Records' = v \o u /\ Len(v) = L + 1
      BY <1>5 DEF Records
    <3> HIDE DEF u, v
    <3>4. /\ Records' \in Seq(FileRecord) /\ Len(Records') = L + 1 + Len(u)
          /\ \A k \in 1..(L + 1) : Records'[k] = v[k]
          /\ \A k \in 1..Len(u) : Records'[L + 1 + k] = u[k]
      BY <3>2, <3>3
    <3> QED BY <3>2, <3>4 DEF u, v
  <2>3. OpenedLast(f)
    BY <1>1
  <2> DEFINE n1 == Len(todo'[CPU])
  <2> HIDE DEF n, n1
  <2>4. L \in Nat /\ n \in Nat /\ n1 \in Nat /\ Len(Records) = L + n /\ Len(Records') = L + 1 + n1
    BY <1>3, <2>1, <2>2 DEF n1
  <2>5. /\ \A k \in 1..L : Records[k] = records[k] /\ Records'[k] = records[k]
        /\ Records'[L + 1] = r
    <3>1. \A k \in 1..L : k \in 1..(L + 1)
      BY <2>4
    <3>2. L + 1 \in 1..(L + 1)
      BY <2>4
    <3> QED BY <1>5, <2>1, <2>2, <3>1, <3>2
  <2>6. CASE t = CPU
    <3>1. /\ n = n1 + 1 /\ todo[CPU][1] = r
          /\ \A k \in 1..n1 : todo'[CPU][k] = todo[CPU][k + 1]
      <4>1. t = CPU /\ n = Len(todo[t]) /\ n1 = Len(Tail(todo[t])) /\ todo'[t] = Tail(todo[t])
        BY <1>6, <2>6 DEF n, n1
      <4>2. n1 = n - 1
        BY <1>4, <4>1
      <4>3. n = n1 + 1
        BY <2>4, <4>2
      <4>4. \A k \in 1..n1 : todo'[t][k] = todo[t][k + 1]
        BY <1>4, <4>1, <4>2
      <4> QED BY <1>4, <4>1, <4>3, <4>4
    <3>2. ASSUME NEW k \in 1..Len(Records) PROVE Records'[k] = Records[k]
      <4>1. CASE k <= L
        BY <2>4, <2>5, <4>1
      <4>2. CASE k = L + 1
        <5>1. 1 \in 1..n
          BY <2>4, <3>1
        <5> QED BY <2>1, <2>5, <3>1, <4>2, <5>1
      <4>3. CASE k > L + 1
        <5> DEFINE j == k - (L + 1)
        <5>1. j \in 1..n1 /\ L + 1 + j = k /\ j + 1 \in 1..n /\ L + (j + 1) = k
          BY <2>4, <3>1, <4>3
        <5> HIDE DEF j
        <5>2. Records'[L + 1 + j] = todo'[CPU][j] /\ Records[L + (j + 1)] = todo[CPU][j + 1]
          BY <2>1, <2>2, <5>1 DEF n1
        <5> QED BY <3>1, <5>1, <5>2
      <4> QED BY <2>4, <4>1, <4>2, <4>3
    <3>3. /\ Len(Records) \in 0..Len(Records) /\ Len(Records') = Len(Records) + 0
          /\ \A k \in (Len(Records) + 1)..Len(Records) : Records'[k + 0] = Records[k]
          /\ \A k \in (Len(Records) + 1)..(Len(Records) + 0) :
               ~(Records'[k].what = "close" /\ Records'[k].inode = f)
      BY <2>4, <3>1
    <3> QED BY <2>1, <2>2, <2>3, <3>2, <3>3, OpenedStays
  <2>7. CASE t = DISK
    <3>1. todo'[CPU] = todo[CPU] /\ n1 = n
      BY <1>6, <2>7, Threads DEF n, n1
    <3>2. r.what = "transfer"
      BY <1>1, <1>8, <2>7 DEF Calls, Resolving
    <3>3. ASSUME NEW k \in (L + 1)..Len(Records) PROVE Records'[k + 1] = Records[k]
      <4> DEFINE j == k - L
      <4>1. j \in 1..n /\ L + j = k /\ L + 1 + j = k + 1
        BY <2>4
      <4> HIDE DEF j
      <4>2. Records'[L + 1 + j] = todo'[CPU][j] /\ Records[L + j] = todo[CPU][j]
        BY <2>1, <2>2, <3>1, <4>1 DEF n1
      <4> QED BY <3>1, <4>1, <4>2
    <3>4. \A k \in (L + 1)..(L + 1) : ~(Records'[k].what = "close" /\ Records'[k].inode = f)
      BY <2>4, <2>5, <3>2
    <3>5. L \in 0..Len(Records) /\ Len(Records') = Len(Records) + 1
      BY <2>4, <3>1
    <3>6. \A k \in 1..L : Records'[k] = Records[k]
      BY <2>5
    <3> QED BY <2>1, <2>2, <2>3, <3>3, <3>4, <3>5, <3>6, OpenedStays
  <2> QED BY <2>6, <2>7, Threads
<1> QED BY <1>2, <1>10, <1>11, <1>12 DEF IoInv

(* The request is pending, or its process woken, when the record is posted.*)
LEMMA PostIoInv ==
    ASSUME LogsInv, log = "io", NEW t \in Thread, log_post(t), posted(t)
    PROVE  IoInv' /\ IoFields'
<1> DEFINE r == records[node[t]]
<1>1. Fields /\ Calls /\ OneRequestEach /\ (\A g \in active : OpenedLast(g)) /\ IoFields
  BY DEF LogsInv, ListInv, IoInv
<1>2. /\ at[t] = "post" /\ at' = [at EXCEPT ![t] = "idle"]
      /\ node' = [node EXCEPT ![t] = NULL]
      /\ UNCHANGED <<records, todo, log>>
  BY DEF log_post, post, goes, others
<1>3. /\ pending' = IF r.what = "request" THEN pending \cup {<<r.process, r.inode>>} ELSE pending
      /\ asleep' = IF r.what = "transfer" THEN asleep \ {r.process} ELSE asleep
      /\ UNCHANGED <<active, o_files>>
  BY DEF posted, file_vars
<1> HIDE DEF r
<1>4. /\ at' \in [Thread -> {"idle", "first", "link", "tail", "post"}]
      /\ node[t] # NULL /\ node'[t] = NULL /\ at'[t] = "idle"
      /\ \A u \in Thread \ {t} : at'[u] = at[u] /\ node'[u] = node[u]
  BY <1>1, <1>2 DEF Fields
<1>5. /\ Current(t) = {r} /\ Current(t)' = {}
      /\ \A u \in Thread \ {t} : Current(u)' = Current(u)
  BY <1>2, <1>4 DEF Current, r
<1>6. Records' = Records
  BY <1>2 DEF Records
<1>7. \A g \in active : OpenedLast(g)'
  BY <1>1, <1>6 DEF OpenedLast
<1>8. CASE t = CPU
  <2>1. \A k \in DOMAIN todo[CPU] : todo[CPU][k].what # "request"
    BY <1>1, <1>2, <1>8 DEF Calls
  <2>2. \A s \in Range(todo[CPU]) : s.what # "request"
    BY <2>1 DEF Range
  <2>3. r.what # "transfer" /\ asleep' = asleep
    BY <1>1, <1>3, <1>5, <1>8 DEF Calls
  <2>4. /\ Asking = (IF r.what = "request" THEN {r} ELSE {})
        /\ Asking' = {} /\ Resolving' = Resolving
    BY <1>2, <1>5, <1>8, <2>2, Threads DEF Asking, Resolving
  <2>5. Calls'
    <3>1. Range(todo[CPU])' \cup Current(CPU)' \subseteq Range(todo[CPU]) \cup Current(CPU)
      BY <1>2, <1>5, <1>8
    <3>2. at'[DISK] = at[DISK]
      BY <1>4, <1>8, Threads
    <3> QED BY <1>1, <1>2, <2>1, <2>4, <3>1, <3>2 DEF Calls
  <2>6. Waiting' = Waiting
    BY <1>3, <2>4 DEF Waiting
  <2>7. OneRequestEach'
    <3>1. CASE r.what = "request"
      <4>1. /\ Asking = {r} /\ pending' = pending \cup {<<r.process, r.inode>>}
        BY <1>3, <2>4, <3>1
      <4>2. \A a \in pending : a[1] # r.process
        BY <1>1, <4>1 DEF OneRequestEach
      <4>3. \A s \in Resolving : s.process # r.process
        BY <1>1, <4>1 DEF OneRequestEach
      <4>4. \A a \in pending' : a \in pending \/ (a = <<r.process, r.inode>> /\ a[1] = r.process)
        BY <4>1
      <4>5. \A a, b \in pending' : a[1] = b[1] => a = b
        BY <1>1, <4>2, <4>4 DEF OneRequestEach
      <4>6. \A s \in Resolving, a \in pending' : a[1] # s.process
        BY <1>1, <4>3, <4>4 DEF OneRequestEach
      <4> QED BY <1>1, <1>3, <2>3, <2>4, <2>6, <4>5, <4>6 DEF OneRequestEach
    <3>2. CASE r.what # "request"
      BY <1>1, <1>3, <2>3, <2>4, <2>6, <3>2 DEF OneRequestEach
    <3> QED BY <3>1, <3>2
  <2>8. IoFields'
    <3>1. r.what = "request" => r.process \in Process /\ r.inode \in Inode
      <4>1. r \in FileRecord
        BY <1>1, <1>4 DEF Calls, Fields, r, NULL
      <4>2. r.what = "request" => r.inode \in Inode
        BY <1>1, <2>4 DEF Calls
      <4> QED BY <4>1, <4>2 DEF FileRecord
    <3> QED BY <1>1, <1>3, <2>3, <3>1 DEF IoFields
  <2> QED BY <1>2, <1>3, <1>7, <2>5, <2>7, <2>8 DEF IoInv
<1>9. CASE t = DISK
  <2>1. todo[DISK] = <<>> /\ Range(todo[DISK]) = {}
    BY <1>1, <1>2, <1>9 DEF Calls, Range
  <2>2. /\ Resolving = {r} /\ Resolving' = {} /\ Asking' = Asking
    BY <1>2, <1>5, <1>9, <2>1, Threads DEF Asking, Resolving
  <2>3. r.what = "transfer" /\ pending' = pending /\ asleep' = asleep \ {r.process}
    BY <1>1, <1>3, <2>2 DEF Calls
  <2>4. Calls'
    <3>1. at'[CPU] = at[CPU] /\ Current(CPU)' = Current(CPU)
      BY <1>4, <1>5, <1>9, Threads
    <3> QED BY <1>1, <1>2, <2>1, <2>2, <3>1 DEF Calls
  <2>5. OneRequestEach'
    <3>1. Waiting' \subseteq Waiting
      BY <2>2, <2>3 DEF Waiting
    <3>2. \A a \in pending : a[1] # r.process
      BY <1>1, <2>2 DEF OneRequestEach
    <3>3. \A s \in Asking : s.process # r.process
      BY <1>1, <2>2 DEF OneRequestEach
    <3>4. ASSUME NEW a \in Waiting' PROVE a[1] # r.process
      <4>1. CASE a \in pending
        BY <3>2, <4>1
      <4>2. CASE a \notin pending
        <5>1. PICK s \in Asking : a = <<s.process, s.inode>>
          BY <2>2, <2>3, <4>2 DEF Waiting
        <5>2. a[1] = s.process
          BY <5>1
        <5> QED BY <3>3, <5>2
      <4> QED BY <4>1, <4>2
    <3>5. \A a \in Waiting' : a[1] \in asleep' /\ a[2] \in o_files'[a[1]]
      BY <1>1, <1>3, <2>3, <3>1, <3>4 DEF OneRequestEach
    <3> QED BY <1>1, <2>2, <2>3, <3>5 DEF OneRequestEach
  <2>6. IoFields'
    BY <1>1, <2>3 DEF IoFields
  <2> QED BY <1>2, <1>3, <1>7, <2>4, <2>5, <2>6 DEF IoInv
<1> QED BY <1>8, <1>9, Threads

(* Nothing else touches what the requests and the files depend on, but for *)
(* the places of the threads within list_add.                              *)
LEMMA OtherIoInv ==
    ASSUME LogsInv, UNCHANGED <<log, records, todo, node>>, UNCHANGED io_vars,
           \A t \in Thread : at'[t] = "idle" <=> at[t] = "idle"
    PROVE  IoInv'
<1> SUFFICES ASSUME log = "io" PROVE IoInv'
  BY DEF LogsInv, IoInv, io_vars
<1>1. UNCHANGED <<active, o_files, asleep, pending>>
  BY DEF io_vars, file_vars
<1>2. /\ Asking' = Asking /\ Resolving' = Resolving /\ Records' = Records
      /\ (\A t \in Thread : Current(t)' = Current(t)) /\ todo' = todo /\ records' = records
  BY Threads DEF Asking, Resolving, Current, Records
<1>3. Calls'
  BY <1>2, Threads DEF LogsInv, IoInv, Calls
<1>4. OneRequestEach'
  BY <1>1, <1>2 DEF LogsInv, IoInv, OneRequestEach, Waiting
<1>5. \A f \in active' : OpenedLast(f)'
  BY <1>1, <1>2 DEF LogsInv, IoInv, OpenedLast
<1> QED BY <1>3, <1>4, <1>5 DEF IoInv

-----------------------------------------------------------------------------
(* The whole                                                               *)

LEMMA SameFileInv == FileInv /\ UNCHANGED file_vars => FileInv'
BY DEF file_vars, FileInv, FileTypeOK, CountsUsers, ActiveIsInUse, Users

LEMMA InitLogsInv == LogsInit => LogsInv
<1> SUFFICES ASSUME LogsInit PROVE LogsInv
  OBVIOUS
<1>1. ListInv /\ FileInv
  BY InitListInv, InitFileInv DEF LogsInit
<1>2. IoFields
  BY DEF LogsInit, IoFields
<1>3. /\ records = <<>> /\ todo = [t \in Thread |-> <<>>]
      /\ at = [t \in Thread |-> "idle"] /\ node = [t \in Thread |-> NULL]
      /\ active = {} /\ pending = {}
  BY DEF LogsInit, logs_init, file_table_init
<1>4. Asking = {} /\ Resolving = {} /\ Range(todo[CPU]) = {} /\ Current(CPU) = {}
  BY <1>3, Threads DEF Asking, Resolving, Range, Current
<1>5. Calls
  BY <1>3, <1>4, Threads DEF Calls
<1>6. OneRequestEach /\ \A f \in active : OpenedLast(f)
  BY <1>3, <1>4 DEF OneRequestEach, Waiting
<1> QED BY <1>1, <1>2, <1>3, <1>5, <1>6 DEF LogsInv, IoInv

LEMMA PlainCallLogsInv ==
    ASSUME LogsInv, cpu_logs \/ semaphore_logs \/ disk_logs
    PROVE  LogsInv'
<1>1. log # "io" /\ log' = log /\ UNCHANGED io_vars
  BY DEF cpu_logs, semaphore_logs, disk_logs, begins, others
<1>2. pending' \in SUBSET pending
  BY <1>1 DEF io_vars
<1>3. \A what \in {"process", "no_process", "entry"} : <<what>> \in Seq(Entry)
  BY DEF Entry
<1>4. ListInv'
  <2>1. ListInv
    BY DEF LogsInv
  <2>2. CASE cpu_logs
    <3>1. PICK what \in {"process", "no_process"} : begins(CPU, <<what>>)
      BY <2>2 DEF cpu_logs
    <3>2. log # "disk" /\ <<what>> \in Seq(Entry)
      BY <1>3, <2>2 DEF cpu_logs
    <3> QED BY <1>2, <2>1, <3>1, <3>2, Threads, BeginsListInv
  <2>3. CASE semaphore_logs
    <3>1. begins(CPU, <<"entry">>) /\ log # "disk"
      BY <2>3 DEF semaphore_logs
    <3> QED BY <1>2, <1>3, <2>1, <3>1, Threads, BeginsListInv
  <2>4. CASE disk_logs
    <3>1. begins(DISK, <<"entry">>) /\ log = "disk"
      BY <2>4 DEF disk_logs
    <3> QED BY <1>2, <1>3, <2>1, <3>1, Threads, BeginsListInv
  <2> QED BY <2>2, <2>3, <2>4
<1>5. FileInv' /\ IoFields' /\ IoInv'
  BY <1>1, SameFileInv DEF LogsInv, io_vars, IoFields, IoInv
<1> QED BY <1>4, <1>5 DEF LogsInv

(* A call about a file, whose records a list of any length may hold.       *)
LEMMA FileCallListInv ==
    ASSUME LogsInv, NEW t \in Thread, NEW new \in Seq(FileRecord), begins(t, new),
           log = "io", pending' \in SUBSET pending, t = DISK => pending # {}
    PROVE  ListInv'
<1>1. new \in Seq(Entry)
  <2>1. FileRecord \subseteq Entry
    BY DEF Entry
  <2> QED BY <2>1
<1> QED BY <1>1, BeginsListInv, Threads DEF LogsInv

LEMMA FileCallLogsInv ==
    ASSUME LogsInv, NEW p \in Process,
           \/ print_request(p) \/ process_finish_files(p)
           \/ \E f \in Inode : disk_file_request(p, f)
    PROVE  LogsInv'
<1>1. CASE print_request(p)
  <2>1. /\ begins(CPU, <<Record("print", p, NULL)>>) /\ log = "io" /\ log' = log
        /\ UNCHANGED io_vars
    BY <1>1 DEF print_request, begins, others
  <2>2. <<Record("print", p, NULL)>> \in Seq(FileRecord)
    BY DEF Record, FileRecord
  <2>3. ListInv'
    BY <2>1, <2>2, FileCallListInv, Threads DEF io_vars
  <2> QED BY <1>1, <2>1, <2>3, PrintIoInv, SameFileInv DEF LogsInv, io_vars, IoFields
<1>2. CASE process_finish_files(p)
  <2>1. /\ log = "io" /\ fs_close_files(p) /\ UNCHANGED <<asleep, pending>>
    BY <1>2 DEF process_finish_files
  <2> DEFINE C == active \ active'
  <2>2. PICK closed \in SetToSeqs(C) :
          begins(CPU, [k \in DOMAIN closed |-> Record("close", p, closed[k])])
    BY <1>2 DEF process_finish_files
  <2>3. [k \in DOMAIN closed |-> Record("close", p, closed[k])] \in Seq(FileRecord)
    <3>1. C \subseteq Inode /\ Cardinality(C) \in Nat
      BY InodeAssumption, FS_Subset, FS_CardinalityType DEF LogsInv, FileInv, FileTypeOK
    <3>2. closed \in [1..Cardinality(C) -> C]
      BY <2>2 DEF SetToSeqs
    <3> HIDE DEF C
    <3>3. \A k \in 1..Cardinality(C) : Record("close", p, closed[k]) \in FileRecord
      BY <3>1, <3>2 DEF Record, FileRecord
    <3> QED BY <3>1, <3>2, <3>3
  <2>4. ListInv'
    BY <2>1, <2>2, <2>3, FileCallListInv, Threads
  <2>5. FileInv'
    BY <2>1, CloseFileInv DEF LogsInv
  <2>6. IoFields'
    BY <2>1 DEF LogsInv, IoFields
  <2> QED BY <1>2, <2>1, <2>4, <2>5, <2>6, FinishIoInv DEF LogsInv
<1>3. ASSUME NEW f \in Inode, disk_file_request(p, f) PROVE LogsInv'
  <2> DEFINE new == <<Record("request", p, f)>> \o
                      IF f \in active THEN <<>> ELSE <<Record("open", p, f)>>
  <2>1. /\ log = "io" /\ begins(CPU, new) /\ fs_request(p, f)
        /\ asleep' = asleep \cup {p} /\ pending' = pending
    BY <1>3 DEF disk_file_request
  <2>2. new \in Seq(FileRecord)
    <3>1. Record("request", p, f) \in FileRecord /\ Record("open", p, f) \in FileRecord
      BY DEF Record, FileRecord
    <3> QED BY <3>1
  <2> HIDE DEF new
  <2>3. ListInv'
    BY <2>1, <2>2, FileCallListInv, Threads
  <2>4. FileInv'
    BY <2>1, RequestFileInv DEF LogsInv
  <2>5. IoFields'
    BY <2>1 DEF LogsInv, IoFields
  <2> QED BY <1>3, <2>1, <2>3, <2>4, <2>5, RequestIoInv DEF LogsInv
<1> QED BY <1>1, <1>2, <1>3

LEMMA ResolveLogsInv ==
    ASSUME LogsInv, rw_disk_op_resolve
    PROVE  LogsInv'
<1>1. PICK request \in pending :
        /\ begins(DISK, <<Record("transfer", request[1], request[2])>>)
        /\ pending' = pending \ {request}
  BY DEF rw_disk_op_resolve
<1>2. log = "io" /\ UNCHANGED <<file_vars, asleep>>
  BY DEF rw_disk_op_resolve
<1>3. <<Record("transfer", request[1], request[2])>> \in Seq(FileRecord)
  BY <1>1 DEF LogsInv, IoFields, Record, FileRecord
<1>4. ListInv'
  BY <1>1, <1>2, <1>3, FileCallListInv, Threads
<1>5. FileInv' /\ IoFields'
  BY <1>1, <1>2, SameFileInv DEF LogsInv, IoFields
<1> QED BY <1>4, <1>5, ResolveIoInv DEF LogsInv

LEMMA WriteLogsInv ==
    ASSUME LogsInv, NEW t \in Thread, Write(t)
    PROVE  LogsInv'
<1> USE DEF LogsInv
<1>1. CASE log_create(t) /\ UNCHANGED io_vars
  <2>1. log' = log
    BY <1>1 DEF log_create, others
  <2>2. IoInv'
    BY <1>1, <2>1, CreateIoInv DEF IoInv, io_vars
  <2> QED BY <1>1, <2>2, CreateListInv, SameFileInv DEF io_vars, IoFields
<1>2. CASE log_add(t) /\ UNCHANGED io_vars
  <2>1. UNCHANGED <<log, records, todo, node>>
    BY <1>2 DEF log_add, others
  <2>2. \A u \in Thread : at'[u] = "idle" <=> at[u] = "idle"
    BY <1>2 DEF log_add, goes, ListInv, Fields
  <2>3. IoInv'
    BY <1>2, <2>1, <2>2, OtherIoInv
  <2> QED BY <1>2, <2>3, AddListInv, SameFileInv DEF io_vars, IoFields
<1>3. CASE log_post(t) /\ posted(t)
  <2>1. log' = log /\ UNCHANGED file_vars
    BY <1>3 DEF log_post, post, others, posted, io_vars
  <2>2. IoInv' /\ IoFields'
    <3>1. CASE log = "io"
      BY <1>3, <3>1, PostIoInv
    <3>2. CASE log # "io"
      BY <1>3, <2>1, <3>2 DEF posted, io_vars, IoFields, IoInv
    <3> QED BY <3>1, <3>2
  <2> QED BY <1>3, <2>1, <2>2, PostListInv, SameFileInv
<1> QED BY <1>1, <1>2, <1>3 DEF Write

LEMMA NextLogsInv == LogsInv /\ [LogsNext]_<<log_vars, io_vars>> => LogsInv'
<1> SUFFICES ASSUME LogsInv, [LogsNext]_<<log_vars, io_vars>> PROVE LogsInv'
  OBVIOUS
<1>1. CASE Call
  BY <1>1, PlainCallLogsInv, FileCallLogsInv, ResolveLogsInv DEF Call
<1>2. CASE \E t \in Thread : Write(t)
  BY <1>2, WriteLogsInv
<1>3. CASE (View \/ Screen) /\ UNCHANGED io_vars
  <2>1. ListInv'
    BY <1>3, ViewListInv, ScreenListInv DEF LogsInv
  <2>2. UNCHANGED <<log, records, todo, at, node>>
    BY <1>3 DEF View, Screen, refresh_memory_log, refresh_logs, prompts, other_views, writer_vars
  <2>3. IoInv'
    BY <1>3, <2>2, OtherIoInv
  <2> QED BY <1>3, <2>1, <2>3, SameFileInv DEF LogsInv, io_vars, IoFields
<1>4. CASE UNCHANGED <<log_vars, io_vars>>
  <2>1. UNCHANGED <<log, records, todo, at, node>> /\ UNCHANGED io_vars
    BY <1>4 DEF log_vars, writer_vars
  <2>2. IoInv'
    BY <2>1, OtherIoInv
  <2> QED BY <1>4, <2>1, <2>2, StutterListInv, SameFileInv DEF LogsInv, io_vars, IoFields
<1> QED BY <1>1, <1>2, <1>3, <1>4 DEF LogsNext

LEMMA LogsInvariant == LogsSpec => []LogsInv
BY InitLogsInv, NextLogsInv, PTL DEF LogsSpec

(* The variables of a log (log.c) and of the view keep their types; in     *)
(* particular no semaphore is posted more often than records are made.     *)
THEOREM LogsTypes == LogsSpec => []LogsTypeOK
<1>1. LogsInv => LogsTypeOK
  <2> SUFFICES ASSUME LogsInv PROVE LogsTypeOK
    OBVIOUS
  <2> DEFINE L == Len(records)
  <2>1. L \in Nat /\ L <= MaxRecords
    BY DEF LogsInv, ListInv, Fields
  <2>2. \A n \in 0..L : n \in Node \cup {NULL}
    BY <2>1, BoundAssumption DEF Node, NULL
  <2>3. posts + mem_mutex \in 0..L
    <3>1. /\ posts \in Nat /\ mem_mutex \in Nat /\ InRound \in Nat
          /\ Written(CPU) \in Nat /\ Written(DISK) \in Nat
          /\ posts + mem_mutex + Written(CPU) + Written(DISK) + InRound <= L
      BY DEF LogsInv, ListInv, Fields, PostsAreRecords, InRound, Written
    <3>2. \A a, b, c, d, e \in Nat : a + b + c + d + e <= L => a + b \in 0..L
      BY <2>1
    <3> HIDE DEF L
    <3> QED BY <3>1, <3>2
  <2> QED BY <2>1, <2>2, <2>3
          DEF LogsInv, ListInv, Fields, FileInv, IoFields, LogsTypeOK
<1> QED BY <1>1, LogsInvariant, PTL

(* refresh_xxx_log (terminal.c) never reads i->next of NULL: it is woken   *)
(* for the first time when the list has a node, and every tail it takes    *)
(* afterwards is one.                                                      *)
THEOREM LogsViewHasANode == LogsSpec => []ViewHasANode
<1>1. LogsInv => ViewHasANode
  BY DEF LogsInv, ListInv, Fields, Place, ViewHasANode
<1> QED BY <1>1, LogsInvariant, PTL

(* A view that waits for the semaphore of its log, with no call under way, *)
(* stands at the tail: no record is left unshown until the next one, even  *)
(* if the two threads that write the I/O log have lost a node.             *)
THEOREM LogsNothingUnnoticed == LogsSpec => []NothingUnnoticed
<1>1. LogsInv => NothingUnnoticed
  BY DEF LogsInv, ListInv, Fields, Noticed, Posting, NothingUnnoticed, AllWritten, ViewWaits
<1> QED BY <1>1, LogsInvariant, PTL

(* The memory view is woken by the process view alone, and still has drawn *)
(* what the last instruction changed when both have come to a rest.        *)
THEOREM LogsMemoryRedrawn == LogsSpec => []MemoryRedrawn
<1>1. LogsInv => MemoryRedrawn
  BY Threads DEF LogsInv, ListInv, Noticed, InRound, MemoryRedrawn, AllWritten, ViewWaits
<1> QED BY <1>1, LogsInvariant, PTL

(* No transfer of the disk thread falls on a file that the CPU thread has  *)
(* closed, though the disk thread gets the request before the file is open.*)
THEOREM LogsTransfersWithinUse == LogsSpec => []TransfersWithinUse
<1>1. LogsInv => TransfersWithinUse
  <2> SUFFICES ASSUME LogsInv,
                      NEW request \in pending \cup {<<r.process, r.inode>> : r \in BeingResolved}
               PROVE  OpenedLast(request[2])
    BY DEF TransfersWithinUse, OpenedLast
  <2>0. log = "io"
    BY DEF LogsInv, IoInv, BeingResolved
  <2>1. Calls /\ OneRequestEach /\ \A f \in active : OpenedLast(f)
    BY <2>0 DEF LogsInv, IoInv
  <2>2. BeingResolved = Resolving
    BY <2>0 DEF BeingResolved, Resolving, Current
  <2>3. request \in Waiting
    BY <2>2 DEF Waiting
  <2>4. request[1] \in asleep /\ request[2] \in o_files[request[1]]
    BY <2>1, <2>3 DEF OneRequestEach
  <2>5. request[1] \in Process /\ request[2] \in Inode
    BY <2>4 DEF LogsInv, IoFields, FileInv, FileTypeOK
  <2>6. request[2] \in active
    BY <2>4, <2>5 DEF LogsInv, FileInv, ActiveIsInUse, Users
  <2> QED BY <2>1, <2>6
<1> QED BY <1>1, LogsInvariant, PTL

(* With one writer a view never shows a record before one that it has      *)
(* shown already, though it runs ahead of the tail by a record.            *)
THEOREM LogsShowInOrder == LogsSpec => ShownInOrder
<1>1. LogsInv /\ [LogsNext]_<<log_vars, io_vars>>
        => [log # "io" => shown' >= shown]_<<log_vars, io_vars>>
  <2> SUFFICES ASSUME LogsInv, LogsNext, log # "io" PROVE shown' >= shown
    OBVIOUS
  <2>1. shown \in Nat /\ i \in Nat
    BY DEF LogsInv, ListInv, Fields
  <2>2. CASE View
    <3>1. shown' = shown \/ (place = "show" /\ i # NULL /\ shown' = i)
      BY <2>2, ViewSteps DEF LogsInv, ViewStarts, ViewFollows, ViewShows, ViewTakesTail, ViewGoesOn
    <3> QED BY <2>1, <3>1 DEF LogsInv, ListInv, OneWriter
  <2>3. CASE ~View
    <3>1. shown' = shown
      BY <2>3 DEF LogsNext, Call, cpu_logs, semaphore_logs, disk_logs, rw_disk_op_resolve,
                  print_request, process_finish_files, disk_file_request, begins,
                  Write, log_create, log_add, log_post, post, others, view_vars,
                  Screen, refresh_memory_log, refresh_logs, prompts, other_views
    <3> QED BY <2>1, <3>1
  <2> QED BY <2>2, <2>3
<1> QED BY <1>1, LogsInvariant, PTL DEF LogsSpec, ShownInOrder
=============================================================================
