----------------------------- MODULE LinkedList -----------------------------
(***************************************************************************)
(* The doubly linked list, tools/list.c, with its pointers.  The other     *)
(* modules write a list as a sequence; here `listed' is that sequence, and *)
(* Represents says that the pointers stand for it.  Each function is one   *)
(* step, as it is when one thread uses the list; ListSteps takes the       *)
(* functions apart.                                                        *)
(*                                                                         *)
(* A node stands for its content too: list_add makes a node for each call. *)
(***************************************************************************)
EXTENDS Naturals, Sequences, SequencesExt, Functions

CONSTANTS Node, NULL

ASSUME NullAssumption == NULL \notin Node

VARIABLES
    head, tail, size,   \* list_t
    next, prev,         \* list_node_t
    listed              \* the nodes added and not removed, in order

pointer_vars == <<head, tail, next, prev>>
list_vars == <<head, tail, size, next, prev, listed>>

Listed(n) == \E i \in DOMAIN listed : listed[i] = n

list_init ==
    /\ head = NULL
    /\ tail = NULL
    /\ size = 0
    /\ next = [n \in Node |-> NULL]
    /\ prev = [n \in Node |-> NULL]
    /\ listed = <<>>

(* list_node_create returns a node with both pointers NULL.                *)
list_add(n) ==
    /\ ~Listed(n)
    /\ IF tail = NULL
         THEN /\ head' = n
              /\ next' = [next EXCEPT ![n] = NULL]
              /\ prev' = [prev EXCEPT ![n] = NULL]
         ELSE /\ next' = [next EXCEPT ![n] = NULL, ![tail] = n]
              /\ prev' = [prev EXCEPT ![n] = tail]
              /\ UNCHANGED head
    /\ tail' = n
    /\ size' = size + 1
    /\ listed' = Append(listed, n)

list_remove_head ==
    /\ head # NULL
    /\ IF next[head] # NULL
         THEN /\ prev' = [prev EXCEPT ![next[head]] = NULL, ![head] = NULL]
              /\ UNCHANGED tail
         ELSE /\ tail' = NULL
              /\ prev' = [prev EXCEPT ![head] = NULL]
    /\ head' = next[head]
    /\ next' = [next EXCEPT ![head] = NULL]
    /\ size' = size - 1
    /\ listed' = Tail(listed)

(* The node keeps its own pointers.                                        *)
list_remove_node(i) ==
    LET n == listed[i]
    IN  /\ IF prev[n] # NULL
             THEN next' = [next EXCEPT ![prev[n]] = next[n]] /\ UNCHANGED head
             ELSE /\ head' = IF head = n THEN next[n] ELSE head
                  /\ UNCHANGED next
        /\ IF next[n] # NULL
             THEN prev' = [prev EXCEPT ![next[n]] = prev[n]] /\ UNCHANGED tail
             ELSE /\ tail' = IF tail = n THEN prev[n] ELSE tail
                  /\ UNCHANGED prev
        /\ size' = size - 1
        /\ listed' = RemoveAt(listed, i)

list_remove_tail ==
    /\ tail # NULL
    /\ IF prev[tail] # NULL
         THEN /\ next' = [next EXCEPT ![prev[tail]] = NULL, ![tail] = NULL]
              /\ UNCHANGED head
         ELSE /\ head' = NULL
              /\ next' = [next EXCEPT ![tail] = NULL]
    /\ tail' = prev[tail]
    /\ prev' = [prev EXCEPT ![tail] = NULL]
    /\ size' = size - 1
    /\ listed' = Front(listed)

ListNext ==
    \/ \E n \in Node : list_add(n)
    \/ list_remove_head
    \/ \E i \in DOMAIN listed : list_remove_node(i)
    \/ list_remove_tail

ListSpec == list_init /\ [][ListNext]_list_vars

-----------------------------------------------------------------------------
(* Properties *)

ListTypeOK ==
    /\ head \in Node \cup {NULL}
    /\ tail \in Node \cup {NULL}
    /\ size \in Nat
    /\ next \in [Node -> Node \cup {NULL}]
    /\ prev \in [Node -> Node \cup {NULL}]
    /\ listed \in Seq(Node)

(* The pointers of the list and of its nodes stand for the sequence: from  *)
(* head along next, and from tail along prev, one meets the nodes that     *)
(* were added and not removed, in the order in which they were added.      *)
PointersRepresent ==
    /\ IsInjective(listed)
    /\ head = IF listed = <<>> THEN NULL ELSE listed[1]
    /\ tail = IF listed = <<>> THEN NULL ELSE listed[Len(listed)]
    /\ \A i \in DOMAIN listed :
         /\ next[listed[i]] = IF i = Len(listed) THEN NULL ELSE listed[i + 1]
         /\ prev[listed[i]] = IF i = 1 THEN NULL ELSE listed[i - 1]

(* list_empty looks at head and size is only displayed: both agree with    *)
(* the sequence.                                                           *)
Represents == PointersRepresent /\ size = Len(listed)
=============================================================================
