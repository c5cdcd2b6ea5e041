------------------------------ MODULE FileTable ------------------------------
(***************************************************************************)
(* The table of active files, file/file.c.  A file is an inode, made when  *)
(* a process first reads or writes its track and dropped when the last     *)
(* process that has used it finishes; o_count counts these processes.      *)
(* Only the CPU thread uses the table, and each function is one step.      *)
(*                                                                         *)
(* Inodes are named by their track: INODE_NUMBER(DISK_BLOCK(track)) is     *)
(* one-to-one on the tracks of the disk.                                   *)
(***************************************************************************)
EXTENDS Naturals, FiniteSets

CONSTANTS Process, Inode

ASSUME ProcessAssumption == IsFiniteSet(Process)

VARIABLES
    active,    \* the inodes in the ilist of the file table
    o_count,   \* inode_t.o_count, for the active inodes
    o_files    \* process_t.o_files; has_opened_file keeps it free of repeats

file_vars == <<active, o_count, o_files>>

file_table_init ==
    /\ active = {}
    /\ o_count = [i \in Inode |-> 0]
    /\ o_files = [p \in Process |-> {}]

has_opened_file(p, i) == i \in o_files[p]

(* fs_open_request puts a new inode, opened by nobody, in the table.       *)
opened_count(i) == IF i \in active THEN o_count[i] ELSE 0

(* Mutant: a file is counted each time it is read or written.              *)
fs_requestCountsAll(p, i) ==
    /\ active' = active \cup {i}
    /\ o_count' = [o_count EXCEPT ![i] = opened_count(i) + 1]
    /\ o_files' = [o_files EXCEPT ![p] = @ \cup {i}]

(* fs_read_request and fs_write_request differ in time stamps only.        *)
fs_request(p, i) ==
    /\ active' = active \cup {i}
    /\ IF has_opened_file(p, i)
         THEN /\ o_count' = [o_count EXCEPT ![i] = opened_count(i)]
              /\ UNCHANGED o_files
         ELSE /\ o_count' = [o_count EXCEPT ![i] = opened_count(i) + 1]
              /\ o_files' = [o_files EXCEPT ![p] = @ \cup {i}]

(* Mutant: a file nobody has open any more stays active.                   *)
fs_close_filesKeepsLast(p) ==
    /\ o_count' = [i \in Inode |->
                      IF i \in o_files[p] \cap active THEN o_count[i] - 1
                                                      ELSE o_count[i]]
    /\ o_files' = [o_files EXCEPT ![p] = {}]
    /\ UNCHANGED active

(* Mutant: a file is dropped by the first process that finishes with it.   *)
fs_close_filesDropsAll(p) ==
    /\ o_count' = [i \in Inode |->
                      IF i \in o_files[p] \cap active THEN o_count[i] - 1
                                                      ELSE o_count[i]]
    /\ active' = active \ o_files[p]
    /\ o_files' = [o_files EXCEPT ![p] = {}]

(* process_finish calls fs_close_request for each file of the process; the *)
(* list of files is freed with the process.                                *)
fs_close_files(p) ==
    LET closed == {i \in o_files[p] \cap active : o_count[i] - 1 = 0}
    IN  /\ o_count' = [i \in Inode |->
                         IF i \in o_files[p] \cap active THEN o_count[i] - 1
                                                         ELSE o_count[i]]
        /\ active' = active \ closed
        /\ o_files' = [o_files EXCEPT ![p] = {}]

FileNext ==
    \E p \in Process : fs_close_files(p) \/ \E i \in Inode : fs_request(p, i)

FileSpec == file_table_init /\ [][FileNext]_file_vars

-----------------------------------------------------------------------------
(* Properties *)

FileTypeOK ==
    /\ active \subseteq Inode
    /\ o_count \in [Inode -> Nat]
    /\ o_files \in [Process -> SUBSET Inode]

Users(i) == {p \in Process : i \in o_files[p]}

(* The count of an inode is the number of processes that have the file     *)
(* open.  An inode counted too low is dropped while in use, one counted    *)
(* too high is never dropped.                                              *)
CountsUsers == \A i \in Inode : o_count[i] = Cardinality(Users(i))

(* A file is in the table exactly while some process has it open.          *)
ActiveIsInUse == \A i \in Inode : i \in active <=> Users(i) # {}
=============================================================================
