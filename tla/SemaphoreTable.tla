--------------------------- MODULE SemaphoreTable ---------------------------
(***************************************************************************)
(* The semaphore table, semaphore/semaphore.c, as the array it is.  The    *)
(* terminal thread registers the names of a new program: realloc may move  *)
(* the array, and an entry is counted before it is initialised.  The CPU   *)
(* thread looks names up and keeps the pointer it finds through a P or V;  *)
(* the resource view adds up the waiters of all entries.  None of them     *)
(* takes a lock on the table.                                              *)
(*                                                                         *)
(* Semaphore has the values and the waiters, and registers in one step.    *)
(***************************************************************************)
EXTENDS Naturals, Sequences

CONSTANTS
    Name,           \* semaphore names
    UNSET, NULL     \* memory nobody has written, and no name

VARIABLES
    table, len,     \* semaphore_table_t: the block table points to, and len
    block,          \* the block realloc gave last; those before it are freed
    entries,        \* its entries [name, waiters]
    register,       \* terminal thread: the step of semaphore_register, the name
    find,           \* CPU thread: the step, the name, and the pointer sem
    count           \* resource view: the step, and the pointer sem

vars == <<table, len, block, entries, register, find, count>>

Initialised(entry) == entry.name # UNSET /\ entry.waiters # UNSET
Registered == {entries[i].name : i \in {j \in DOMAIN entries : Initialised(entries[j])}}

(* A pointer is a block and a place in it.                                 *)
first_entry == [block |-> table, place |-> 1]
next_entry(sem) == [sem EXCEPT !.place = @ + 1]

(* sem < &table[len], where table and len are read anew in each turn.  The *)
(* order of two blocks is anything.                                        *)
before_end(sem) ==
    IF sem.block = table THEN {sem.place <= len} ELSE BOOLEAN

Init ==
    /\ table = 0 /\ len = 0 /\ block = 0
    /\ entries = <<>>
    /\ register = [at |-> "idle", name |-> NULL]
    /\ find = [at |-> "idle", name |-> NULL, sem |-> first_entry]
    /\ count = [at |-> "idle", sem |-> first_entry]

-----------------------------------------------------------------------------
(* semaphore_register; nobody else changes the table.                      *)

register_search(name) ==
    /\ register.at = "idle"
    /\ name \notin Registered
    /\ register' = [at |-> "realloc", name |-> name]
    /\ UNCHANGED <<table, len, block, entries, find, count>>

register_realloc ==
    /\ register.at = "realloc"
    /\ block' \in {block, block + 1}
    /\ entries' = Append(entries, [name |-> UNSET, waiters |-> UNSET])
    /\ register' = [register EXCEPT !.at = "table"]
    /\ UNCHANGED <<table, len, find, count>>

register_table ==
    /\ register.at = "table"
    /\ table' = block
    /\ register' = [register EXCEPT !.at = "len"]
    /\ UNCHANGED <<len, block, entries, find, count>>

register_len ==
    /\ register.at = "len"
    /\ len' = len + 1
    /\ register' = [register EXCEPT !.at = "name"]
    /\ UNCHANGED <<table, block, entries, find, count>>

semaphore_init_name ==
    /\ register.at = "name"
    /\ entries' = [entries EXCEPT ![len].name = register.name]
    /\ register' = [register EXCEPT !.at = "waiters"]
    /\ UNCHANGED <<table, len, block, find, count>>

semaphore_init_waiters ==
    /\ register.at = "waiters"
    /\ entries' = [entries EXCEPT ![len].waiters = <<>>]
    /\ register' = [at |-> "idle", name |-> NULL]
    /\ UNCHANGED <<table, len, block, find, count>>

-----------------------------------------------------------------------------
(* semaphore_find for a P or V: the parser has seen to it that the name is *)
(* registered.                                                             *)

find_start(name) ==
    /\ find.at = "idle"
    /\ name \in Registered
    /\ find' = [at |-> "test", name |-> name, sem |-> first_entry]
    /\ UNCHANGED <<table, len, block, entries, register, count>>

find_test ==
    /\ find.at = "test"
    /\ \E goes_on \in before_end(find.sem) :
         find' = [find EXCEPT !.at = IF goes_on THEN "read" ELSE "idle"]
    /\ UNCHANGED <<table, len, block, entries, register, count>>

(* A pointer into the array as it is.                                      *)
InTable(sem) == sem.block = block /\ sem.place \in DOMAIN entries

(* What a freed block holds is anything.                                   *)
find_read ==
    /\ find.at = "read"
    /\ \E name \in IF InTable(find.sem) THEN {entries[find.sem.place].name}
                   ELSE Name \cup {UNSET} :
         find' = IF name = find.name THEN [find EXCEPT !.at = "use"]
                 ELSE [find EXCEPT !.at = "test", !.sem = next_entry(@)]
    /\ UNCHANGED <<table, len, block, entries, register, count>>

(* semaphore_P or semaphore_V with the pointer.                            *)
find_use ==
    /\ find.at = "use"
    /\ find' = [find EXCEPT !.at = "idle"]
    /\ UNCHANGED <<table, len, block, entries, register, count>>

-----------------------------------------------------------------------------
(* sem_blocked_count                                                       *)

count_start ==
    /\ count.at = "idle"
    /\ count' = [at |-> "test", sem |-> first_entry]
    /\ UNCHANGED <<table, len, block, entries, register, find>>

count_test ==
    /\ count.at = "test"
    /\ \E goes_on \in before_end(count.sem) :
         count' = [count EXCEPT !.at = IF goes_on THEN "read" ELSE "idle"]
    /\ UNCHANGED <<table, len, block, entries, register, find>>

count_read ==
    /\ count.at = "read"
    /\ count' = [at |-> "test", sem |-> next_entry(count.sem)]
    /\ UNCHANGED <<table, len, block, entries, register, find>>

Next ==
    \/ \E name \in Name : register_search(name) \/ find_start(name)
    \/ register_realloc \/ register_table \/ register_len
    \/ semaphore_init_name \/ semaphore_init_waiters
    \/ find_test \/ find_read \/ find_use
    \/ count_start \/ count_test \/ count_read

SemTableSpec == Init /\ [][Next]_vars

-----------------------------------------------------------------------------
(* Properties *)

(* semaphore.h:24: the waiters are not NULL "since this semaphore is       *)
(* initialized".  A thread that is about to use an entry, the CPU thread   *)
(* in semaphore_find, P or V and the resource view in sem_blocked_count,   *)
(* has one of the table, and it is initialised.                            *)
EntriesAreInitialised ==
    \A sem \in {thread.sem : thread \in {t \in {find, count} : t.at \in {"read", "use"}}} :
        InTable(sem) /\ Initialised(entries[sem.place])
=============================================================================
