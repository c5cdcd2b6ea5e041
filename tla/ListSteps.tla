------------------------------ MODULE ListSteps ------------------------------
(***************************************************************************)
(* The functions of tools/list.c taken apart, and the threads that call    *)
(* them without a lock.  A step is one statement, or one condition, that   *)
(* reads or writes the list; size is read and written in two steps.        *)
(*                                                                         *)
(* `uses' says which functions each thread calls.  The lists of the        *)
(* program are used in these ways, each by the threads given here:         *)
(*   ready queues      CPU adds and removes the head, terminal adds        *)
(*   blocked queue     CPU adds and removes a node, disk removes a node    *)
(*   pending requests  CPU adds, disk removes a node                       *)
(*   process table     terminal adds, CPU removes a node                   *)
(*   I/O log           CPU adds, disk adds                                 *)
(*   waiters, inodes   CPU adds and removes the head, or nodes             *)
(***************************************************************************)
EXTENDS LinkedList, Integers, FiniteSets

CONSTANTS Thread, Uses

Function == {"add", "remove_head", "remove_node"}

ASSUME UsesAssumption == Uses \subseteq [Thread -> SUBSET Function]

(* A list that a thread takes the head of loses nodes to no other thread:  *)
(* the heads are the CPU's.                                                *)
ASSUME HeadsAssumption ==
    \A f \in Uses : \A t, u \in Thread :
        t # u /\ "remove_head" \in f[t] => f[u] \subseteq {"add"}

VARIABLES
    uses,      \* what each thread does with the list
    at,        \* the next statement of each thread
    node,      \* its local variable node, temp, or the argument node
    counted,   \* size, as it was read to be changed
    created,   \* the nodes made so far; no node is made twice
    removed,   \* the nodes that were taken off
    met,       \* whether two threads were ever at the same end (Meeting)
    before     \* the list before the call a lone thread is in

step_vars == <<list_vars, uses, at, node, counted, created, removed, met, before>>

Busy(t) == at[t] \notin {"idle", "fault"}
Adding(t) == at[t] \in {"add", "add_first", "add_link", "add_back", "add_tail",
                        "add_size", "add_store"}
Removing(t) == Busy(t) /\ ~Adding(t)
Lone == \E t \in Thread : \A u \in Thread \ {t} : uses[u] = {}

StepsInit ==
    /\ list_init
    /\ uses \in Uses
    /\ at = [t \in Thread |-> "idle"]
    /\ node = [t \in Thread |-> NULL]
    /\ counted = [t \in Thread |-> 0]
    /\ created = {}
    /\ removed = {}
    /\ met = FALSE
    /\ before = <<>>

-----------------------------------------------------------------------------
local_vars == <<uses, created, removed, before, listed>>

(* The thread goes from one place to another.                              *)
goes(t, from, to) ==
    /\ at[t] = from
    /\ at' = [at EXCEPT ![t] = to]
    /\ UNCHANGED <<local_vars, node, counted>>

(* A thread enters a function with the node it is about.                   *)
call(t, function, place, n) ==
    /\ at[t] = "idle" /\ function \in uses[t]
    /\ at' = [at EXCEPT ![t] = place]
    /\ node' = [node EXCEPT ![t] = n]
    /\ before' = IF Lone THEN [head |-> head, tail |-> tail, size |-> size,
                               next |-> next, prev |-> prev]
                         ELSE before
    /\ UNCHANGED <<pointer_vars, size, listed, uses, counted, removed>>

returns(t, from) ==
    /\ at[t] = from
    /\ at' = [at EXCEPT ![t] = "idle"]
    /\ node' = [node EXCEPT ![t] = NULL]
    /\ counted' = [counted EXCEPT ![t] = 0]
    /\ before' = <<>>
    /\ UNCHANGED <<pointer_vars, uses, created>>

(* size++ and size-- begin by reading size.                                *)
reads_size(t, from, to) ==
    /\ at[t] = from
    /\ at' = [at EXCEPT ![t] = to]
    /\ counted' = [counted EXCEPT ![t] = size]
    /\ UNCHANGED <<pointer_vars, size, local_vars, node>>

-----------------------------------------------------------------------------
(* list_add *)

add_create(t) ==
    /\ \E n \in Node \ created : call(t, "add", "add", n) /\ created' = created \cup {n}

add_test(t) ==
    /\ goes(t, "add", IF tail = NULL THEN "add_first" ELSE "add_link")
    /\ UNCHANGED <<pointer_vars, size>>

add_first(t) ==
    /\ goes(t, "add_first", "add_tail")
    /\ head' = node[t]
    /\ UNCHANGED <<tail, next, prev, size>>

(* list->tail is read again: another thread may have made it NULL.         *)
add_link(t) ==
    /\ goes(t, "add_link", IF tail = NULL THEN "fault" ELSE "add_back")
    /\ next' = [n \in Node |-> IF n = tail THEN node[t] ELSE next[n]]
    /\ UNCHANGED <<head, tail, prev, size>>

add_back(t) ==
    /\ goes(t, "add_back", "add_tail")
    /\ prev' = [prev EXCEPT ![node[t]] = tail]
    /\ UNCHANGED <<head, tail, next, size>>

add_tail(t) ==
    /\ goes(t, "add_tail", "add_size")
    /\ tail' = node[t]
    /\ UNCHANGED <<head, next, prev, size>>

(* The node counts as added from now on, unless it is off again already.   *)
add_return(t) ==
    /\ returns(t, "add_store")
    /\ size' = counted[t] + 1
    /\ listed' = IF node[t] \in removed THEN listed ELSE Append(listed, node[t])
    /\ UNCHANGED removed

AddStep(t) ==
    \/ add_test(t) \/ add_first(t) \/ add_link(t) \/ add_back(t) \/ add_tail(t)
    \/ reads_size(t, "add_size", "add_store") \/ add_return(t)

-----------------------------------------------------------------------------
(* list_remove_head *)

(* On an empty list it returns NULL and does nothing.                      *)
head_take(t) ==
    /\ head # NULL
    /\ call(t, "remove_head", "head", head)
    /\ UNCHANGED created

head_test(t) ==
    /\ goes(t, "head", IF next[head] # NULL THEN "head_second" ELSE "head_last")
    /\ UNCHANGED <<pointer_vars, size>>

head_second(t) ==
    /\ goes(t, "head_second", "head_next")
    /\ prev' = [n \in Node |-> IF n = next[head] THEN NULL ELSE prev[n]]
    /\ UNCHANGED <<head, tail, next, size>>

head_last(t) ==
    /\ goes(t, "head_last", "head_next")
    /\ tail' = NULL
    /\ UNCHANGED <<head, next, prev, size>>

(* Mutant: the node is detached before the head has moved on.              *)
head_nextDetachesFirst(t) ==
    /\ goes(t, "head_next", "head_detach")
    /\ head' = NULL
    /\ next' = [next EXCEPT ![node[t]] = NULL]
    /\ UNCHANGED <<tail, prev, size>>

head_next(t) ==
    /\ goes(t, "head_next", "head_detach")
    /\ head' = next[head]
    /\ UNCHANGED <<tail, next, prev, size>>

head_detach(t) ==
    /\ goes(t, "head_detach", "remove_size")
    /\ next' = [next EXCEPT ![node[t]] = NULL]
    /\ prev' = [prev EXCEPT ![node[t]] = NULL]
    /\ UNCHANGED <<head, tail, size>>

-----------------------------------------------------------------------------
(* list_remove_node *)

(* The caller has found the node in the list, and no other thread removes  *)
(* the same node.                                                          *)
node_take(t) ==
    /\ \E n \in Node :
         /\ Listed(n) /\ \A u \in Thread : node[u] # n
         /\ call(t, "remove_node", "node_prev", n)
    /\ UNCHANGED created

node_prev(t) ==
    LET n == node[t]
    IN  /\ goes(t, "node_prev", "node_next")
        /\ IF prev[n] # NULL
             THEN next' = [next EXCEPT ![prev[n]] = next[n]] /\ UNCHANGED head
             ELSE head' = (IF head = n THEN next[n] ELSE head) /\ UNCHANGED next
        /\ UNCHANGED <<tail, prev, size>>

(* `else if' reads tail in a step of its own.                              *)
node_next(t) ==
    LET n == node[t]
    IN  /\ goes(t, "node_next", IF next[n] # NULL THEN "remove_size" ELSE "node_tail")
        /\ prev' = [m \in Node |-> IF m = next[n] THEN prev[n] ELSE prev[m]]
        /\ UNCHANGED <<head, tail, next, size>>

(* Mutant: the tail stays when its node goes.                              *)
node_tailStays(t) ==
    /\ goes(t, "node_tail", "remove_size")
    /\ UNCHANGED <<pointer_vars, size>>

node_tail(t) ==
    /\ goes(t, "node_tail", "remove_size")
    /\ tail' = IF tail = node[t] THEN prev[node[t]] ELSE tail
    /\ UNCHANGED <<head, next, prev, size>>

delisted(n) ==
    IF Listed(n) THEN RemoveAt(listed, CHOOSE i \in DOMAIN listed : listed[i] = n) ELSE listed

(* Mutant: a node that was removed is still counted.                       *)
remove_returnUncounted(t) ==
    /\ returns(t, "remove_store")
    /\ listed' = delisted(node[t])
    /\ removed' = removed \cup {node[t]}
    /\ UNCHANGED size

remove_return(t) ==
    /\ returns(t, "remove_store")
    /\ size' = counted[t] - 1
    /\ listed' = delisted(node[t])
    /\ removed' = removed \cup {node[t]}

RemoveStep(t) ==
    \/ head_test(t) \/ head_second(t) \/ head_last(t) \/ head_next(t) \/ head_detach(t)
    \/ node_prev(t) \/ node_next(t) \/ node_tail(t)
    \/ reads_size(t, "remove_size", "remove_store") \/ remove_return(t)

-----------------------------------------------------------------------------
(* Two threads meet: both add; or one adds while another removes the last  *)
(* node, or the one that is being added; or they remove neighbours.        *)
Neighbours(m, n) ==
    \E i \in 1..(Len(listed) - 1) : {listed[i], listed[i + 1]} = {m, n}

MeetAtTheEnd(t, u) ==
    Adding(t) /\ (Adding(u) \/ (Removing(u)
                                 /\ \/ node[u] = node[t]
                                    \/ listed # <<>> /\ node[u] = listed[Len(listed)]))

Meeting ==
    \E t, u \in Thread :
        /\ t # u
        /\ \/ MeetAtTheEnd(t, u)
           \/ Removing(t) /\ Removing(u) /\ Neighbours(node[t], node[u])

StepsNext ==
    /\ \E t \in Thread :
         \/ add_create(t) \/ head_take(t) \/ node_take(t)
         \/ AddStep(t) \/ RemoveStep(t)
    /\ met' = (met \/ Meeting')

StepsSpec == StepsInit /\ [][StepsNext]_step_vars

-----------------------------------------------------------------------------
(* Properties *)

Quiet == \A t \in Thread : at[t] = "idle"

(* As long as no two threads have met, nobody follows a NULL, and whenever *)
(* no call is under way the pointers stand for the nodes added and not     *)
(* removed, in the order in which the calls returned.  So a lock is only   *)
(* missing where threads meet: a queue of one process or none, or two      *)
(* threads that add.                                                       *)
IntactUnlessTheyMeet ==
    ~met => /\ \A t \in Thread : at[t] # "fault"
            /\ Quiet => PointersRepresent

(* A walk goes along next from the first node it is given.  It meets the   *)
(* nodes that are in every set which holds the first node and is closed    *)
(* under next.                                                             *)
Meets(first, n) ==
    \A R \in SUBSET Node :
        (first # NULL => first \in R) /\ (\A m \in R : next[m] # NULL => next[m] \in R)
          => n \in R

(* Even while calls are under way, a walk (list_search, FOREACH, the views)*)
(* from the head meets every node whose list_add has returned and whose    *)
(* removal has not begun, and from one of them it meets those that are     *)
(* behind it in the list and never again one that is not: each is met once *)
(* and in order.                                                           *)
SearchMissesNobody ==
    LET Settled == {i \in DOMAIN listed : \A t \in Thread : node[t] # listed[i]}
    IN  ~met => /\ \A i \in Settled : Meets(head, listed[i])
                /\ \A i, k \in Settled : Meets(next[listed[i]], listed[k]) <=> i < k

(* With one thread each call is one step of LinkedList, the list as it was *)
(* before the call being what LinkedList sees until the call returns.      *)
seen == IF before # <<>> THEN before
        ELSE [head |-> head, tail |-> tail, size |-> size, next |-> next, prev |-> prev]

Atomic == INSTANCE LinkedList WITH
    head <- seen.head, tail <- seen.tail, size <- seen.size,
    next <- seen.next, prev <- seen.prev

LoneCallIsAtomic == [][Lone => [Atomic!ListNext]_(Atomic!list_vars)]_step_vars

(* list.c: list_add adds the content at the end of the list.  When all     *)
(* calls have returned, what was added and not removed can be reached.     *)
AddedIsListed == Quiet => \A n \in Node : Listed(n) => Meets(head, n)
=============================================================================
