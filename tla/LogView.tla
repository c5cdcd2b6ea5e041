------------------------------- MODULE LogView -------------------------------
(***************************************************************************)
(* A log of the simulator and the terminal thread that shows it            *)
(* (terminal/log.c, terminal/terminal.c).  A writer adds a record with     *)
(* list_add and then posts the semaphore of the log.  The view waits for   *)
(* the semaphore and follows next from where it stopped; nothing else      *)
(* keeps writers and view apart.                                           *)
(*                                                                         *)
(* The four logs have a list, a semaphore and a view each, and so one of   *)
(* them is looked at at a time: `log' says which.  All views, that of the  *)
(* memory too, and the refresh thread share the screen through print_mutex *)
(* and refresh_mutex; the user holds refresh_mutex for as long as a prompt *)
(* is open.                                                                *)
(*                                                                         *)
(* Nodes are named by the numbers of the records they hold.  list_add is   *)
(* taken apart where a view or another writer can tell: prev and size,     *)
(* which ListSteps has too, are read by neither.                           *)
(***************************************************************************)
EXTENDS Naturals, Sequences, SequencesExt

CONSTANTS
    Thread,
    MaxRecords,   \* a bound: the records of a log
    Screened      \* a bound: the logs beside which refresh_logs, the views of
                  \* the other logs and the user run

ASSUME BoundAssumption == MaxRecords \in Nat

NULL == 0
Node == 1..MaxRecords
Log == {"process", "disk", "io", "res_acq"}

VARIABLES
    log,            \* the log that is written and followed
    head, tail, next,
    records,        \* the records made so far, each in the node of its number
    todo,           \* the records the call of each thread has still to write
    at, node,       \* where each thread is in list_add, and the new node
    posts,          \* log_mutex, disk_mutex, io_mutex or res_acq_mutex
    i,              \* the node the view is at
    place,          \* where the view is
    shown,          \* the node it has shown last
    mem_mutex,      \* posted by the process view for the memory view
    redrawn,        \* whether the memory view has begun a redraw since the
                    \* last post of the log
    memory_view,    \* where the memory view is: "wait", "lock" or "draw"
    print_mutex, refresh_mutex,   \* who holds them, or "free"
    refresher,      \* where refresh_logs is
    user            \* "menu" or "prompt"

list_vars == <<head, tail, next>>
writer_vars == <<log, list_vars, records, todo, at, node>>
view_vars == <<i, place, shown>>
memory_vars == <<mem_mutex, memory_view, redrawn>>
screen_vars == <<refresh_mutex, refresher, user>>

(* The lists are created empty before any thread starts (main.c).          *)
logs_init ==
    /\ log \in Log
    /\ head = NULL /\ tail = NULL /\ next = [n \in Node |-> NULL]
    /\ records = <<>>
    /\ todo = [t \in Thread |-> <<>>]
    /\ at = [t \in Thread |-> "idle"] /\ node = [t \in Thread |-> NULL]
    /\ posts = 0
    /\ i = NULL /\ place = "start" /\ shown = NULL
    /\ mem_mutex = 0 /\ memory_view = "wait" /\ redrawn = TRUE
    /\ print_mutex = "free" /\ refresh_mutex = "free"
    /\ refresher = "asleep" /\ user = "menu"

-----------------------------------------------------------------------------
(* Writers: process_log, disk_log, io_fs_log, res_acq_log and the others   *)
(* differ in the record only.                                              *)

others == <<log, view_vars, mem_mutex, memory_view, print_mutex, screen_vars>>

goes(t, from, to) == at[t] = from /\ at' = [at EXCEPT ![t] = to]

log_create(t) ==
    /\ todo[t] # <<>> /\ Len(records) < MaxRecords
    /\ goes(t, "idle", IF tail = NULL THEN "first" ELSE "link")
    /\ records' = Append(records, Head(todo[t]))
    /\ todo' = [todo EXCEPT ![t] = Tail(@)]
    /\ node' = [node EXCEPT ![t] = Len(records')]
    /\ UNCHANGED <<list_vars, posts, redrawn, others>>

log_add(t) ==
    /\ \/ goes(t, "first", "tail") /\ head' = node[t] /\ UNCHANGED <<tail, next>>
       \/ goes(t, "link", "tail") /\ next' = [next EXCEPT ![tail] = node[t]] /\ UNCHANGED <<head, tail>>
       \/ goes(t, "tail", "post") /\ tail' = node[t] /\ UNCHANGED <<head, next>>
    /\ UNCHANGED <<records, todo, node, posts, redrawn, others>>

post(t) ==
    /\ node' = [node EXCEPT ![t] = NULL]
    /\ redrawn' = FALSE
    /\ UNCHANGED <<list_vars, records, todo, others>>

(* Mutant: the semaphore is posted before the record is the tail.          *)
log_postEarly(t) ==
    /\ \/ goes(t, "tail", "post") /\ posts' = posts + 1 /\ UNCHANGED tail
       \/ goes(t, "post", "idle") /\ tail' = node[t] /\ UNCHANGED posts
    /\ redrawn' = FALSE
    /\ node' = [node EXCEPT ![t] = IF at[t] = "post" THEN NULL ELSE @]
    /\ UNCHANGED <<head, next, records, todo, others>>

(* Mutant: xxx_log posts the semaphore, and its caller does so again.      *)
log_postTwice(t) ==
    /\ goes(t, "post", "idle")
    /\ posts' = posts + 2
    /\ post(t)

log_post(t) ==
    /\ goes(t, "post", "idle")
    /\ posts' = posts + 1
    /\ post(t)

-----------------------------------------------------------------------------
(* The views.  All follow their log in the same way, but for the process   *)
(* view, which waits once more before it begins, stops at a record that    *)
(* says that no process is running, and posts mem_mutex each time round.   *)
(*                                                                         *)
(* What a view does between two reads of the list is one step with the     *)
(* later of them: sem_wait with what is read next, unlocking with the tail.*)

view_goes(from, to) == place = from /\ place' = to

waits == posts > 0 /\ posts' = posts - 1

(* Before the loop: `i = list->head'.                                      *)
starts(to) ==
    /\ view_goes("start", to)
    /\ waits
    /\ i' = head
    /\ UNCHANGED <<shown, mem_mutex, print_mutex>>

locks ==
    /\ view_goes("lock", "show")
    /\ print_mutex = "free" /\ print_mutex' = "view"
    /\ UNCHANGED <<i, shown, posts, mem_mutex>>

(* One turn of the for loop.                                               *)
shows ==
    /\ view_goes("show", "show") /\ i # NULL
    /\ shown' = i /\ i' = next[i]
    /\ UNCHANGED <<posts, mem_mutex, print_mutex>>

(* The turn in which the process view breaks off.                          *)
breaks_off ==
    /\ view_goes("show", "tail") /\ i # NULL /\ records[i] = "no_process"
    /\ shown' = i
    /\ UNCHANGED <<i, posts, mem_mutex, print_mutex>>

loop_ends ==
    /\ view_goes("show", "tail") /\ i = NULL
    /\ UNCHANGED <<i, shown, posts, mem_mutex, print_mutex>>

(* Mutant: the view goes on from where its loop ended.                     *)
takes_tailForgotten(to) ==
    /\ view_goes("tail", to)
    /\ print_mutex' = "free"
    /\ UNCHANGED <<i, shown, posts>>

(* Mutant: the view goes back to the head, and shows everything again.     *)
takes_tailHead(to) ==
    /\ view_goes("tail", to)
    /\ print_mutex' = "free"
    /\ i' = head
    /\ UNCHANGED <<shown, posts>>

(* `i = list->tail'.                                                       *)
takes_tail(to) ==
    /\ view_goes("tail", to)
    /\ print_mutex' = "free"
    /\ i' = tail
    /\ UNCHANGED <<shown, posts>>

(* `i = i->next'.                                                          *)
takes_next ==
    /\ view_goes("wait", IF i = NULL THEN "fault" ELSE "lock")
    /\ waits
    /\ i' = IF i = NULL THEN NULL ELSE next[i]
    /\ UNCHANGED <<shown, mem_mutex, print_mutex>>

follows ==
    \/ starts("lock") \/ locks \/ shows \/ loop_ends
    \/ takes_tail("wait") /\ UNCHANGED mem_mutex
    \/ takes_next

refresh_io_log == log = "io" /\ follows
refresh_disk_log == log = "disk" /\ follows
refresh_res_acq_log == log = "res_acq" /\ follows

(* Mutant: mem_mutex is posted only when the loop has come to its end.     *)
refresh_process_logPostsAtEnd ==
    /\ log = "process"
    /\ \/ starts("wait")
       \/ takes_next
       \/ locks
       \/ shows /\ records[i] # "no_process"
       \/ breaks_off \/ loop_ends
       \/ takes_tail("wait") /\ mem_mutex' = IF i = NULL THEN mem_mutex + 1 ELSE mem_mutex

refresh_process_log ==
    /\ log = "process"
    /\ \/ starts("wait")
       \/ takes_next
       \/ locks
       \/ shows /\ records[i] # "no_process"
       \/ breaks_off \/ loop_ends
       \/ takes_tail("wait") /\ mem_mutex' = mem_mutex + 1

View ==
    /\ \/ refresh_io_log \/ refresh_disk_log \/ refresh_res_acq_log
       \/ refresh_process_log
    /\ UNCHANGED <<writer_vars, memory_view, redrawn, screen_vars>>

(* The memory view draws the segments as they are when it has the screen   *)
(* (it keeps no place in a log); what matters here is when it begins.      *)
refresh_memory_log ==
    /\ \/ /\ memory_view = "wait" /\ memory_view' = "lock"
          /\ mem_mutex > 0 /\ mem_mutex' = mem_mutex - 1
          /\ UNCHANGED <<print_mutex, redrawn>>
       \/ /\ memory_view = "lock" /\ memory_view' = "draw"
          /\ print_mutex = "free" /\ print_mutex' = "memory"
          /\ redrawn' = TRUE
          /\ UNCHANGED mem_mutex
       \/ /\ memory_view = "draw" /\ memory_view' = "wait"
          /\ print_mutex' = "free"
          /\ UNCHANGED <<mem_mutex, redrawn>>
    /\ UNCHANGED <<writer_vars, posts, view_vars, screen_vars>>

-----------------------------------------------------------------------------
(* The screen *)

takes(mutex, who) == mutex = "free" /\ mutex' = who

(* The views of the other logs hold print_mutex while they show records.   *)
others_lock == log \in Screened /\ takes(print_mutex, "others")
others_unlock == print_mutex = "others" /\ print_mutex' = "free"

other_views ==
    /\ others_lock \/ others_unlock
    /\ UNCHANGED <<writer_vars, posts, view_vars, memory_vars, screen_vars>>

(* Mutant: the refresh thread takes its locks in the other order.          *)
refresh_logsPrintFirst ==
    /\ log \in Screened
    /\ \/ /\ refresher = "asleep" /\ refresher' = "drawing"
          /\ takes(print_mutex, "refresher") /\ UNCHANGED refresh_mutex
       \/ /\ refresher = "drawing" /\ refresher' = "title"
          /\ takes(refresh_mutex, "refresher") /\ UNCHANGED print_mutex
       \/ /\ refresher = "title" /\ refresher' = "asleep"
          /\ print_mutex' = "free" /\ refresh_mutex' = "free"
    /\ UNCHANGED <<writer_vars, posts, view_vars, memory_vars, user>>

(* It draws under refresh_mutex, and takes print_mutex too for each title  *)
(* that a view writes as well.                                             *)
refresh_logs ==
    /\ log \in Screened
    /\ \/ /\ refresher = "asleep" /\ refresher' = "drawing"
          /\ takes(refresh_mutex, "refresher") /\ UNCHANGED print_mutex
       \/ /\ refresher = "drawing" /\ refresher' = "title"
          /\ takes(print_mutex, "refresher") /\ UNCHANGED refresh_mutex
       \/ /\ refresher = "title" /\ refresher' = "drawing"
          /\ print_mutex' = "free" /\ UNCHANGED refresh_mutex
       \/ /\ refresher = "drawing" /\ refresher' = "asleep"
          /\ refresh_mutex' = "free" /\ UNCHANGED print_mutex
    /\ UNCHANGED <<writer_vars, posts, view_vars, memory_vars, user>>

(* The name of a program is asked for, and a warning shown, with           *)
(* refresh_mutex held until the user has typed.                            *)
prompts ==
    /\ log \in Screened
    /\ \/ user = "menu" /\ takes(refresh_mutex, "user") /\ user' = "prompt"
       \/ user = "prompt" /\ refresh_mutex' = "free" /\ user' = "menu"
    /\ UNCHANGED <<writer_vars, posts, view_vars, memory_vars, print_mutex, refresher>>
=============================================================================
