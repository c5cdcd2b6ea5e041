--------------------------- MODULE FileTableProofs ---------------------------
(***************************************************************************)
(* Theorems about the file table, for any finite set of processes and any  *)
(* set of files.                                                           *)
(***************************************************************************)
EXTENDS FileTable, FiniteSetTheorems, TLAPS

(* The inductive invariant.  A count is right after a request only if an   *)
(* inode that is not active has no users, and an inode is dropped at the   *)
(* right moment only if its count is right.                                *)
FileInv == FileTypeOK /\ CountsUsers /\ ActiveIsInUse

(* Sets of users are finite; they gain and lose one process at a time.     *)
LEMMA UsersFinite ==
    ASSUME NEW i \in Inode
    PROVE  IsFiniteSet(Users(i)) /\ Cardinality(Users(i)) \in Nat
BY ProcessAssumption, FS_Subset, FS_CardinalityType DEF Users

LEMMA UserAdded ==
    ASSUME NEW U \in SUBSET Process, NEW p \in Process, p \notin U
    PROVE  Cardinality(U \cup {p}) = Cardinality(U) + 1
BY ProcessAssumption, FS_Subset, FS_AddElement

LEMMA UserRemoved ==
    ASSUME NEW U \in SUBSET Process, NEW p \in U
    PROVE  Cardinality(U \ {p}) = Cardinality(U) - 1
BY ProcessAssumption, FS_Subset, FS_RemoveElement

LEMMA NoUsers ==
    ASSUME NEW U \in SUBSET Process
    PROVE  Cardinality(U) = 0 <=> U = {}
BY ProcessAssumption, FS_Subset, FS_EmptySet

LEMMA InitFileInv == file_table_init => FileInv
<1> SUFFICES ASSUME file_table_init PROVE FileInv
  OBVIOUS
<1>1. \A i \in Inode : Users(i) = {}
  BY DEF file_table_init, Users
<1> QED BY <1>1, FS_EmptySet DEF file_table_init, FileInv, FileTypeOK, CountsUsers, ActiveIsInUse

LEMMA RequestFileInv ==
    ASSUME FileInv, NEW p \in Process, NEW i \in Inode, fs_request(p, i)
    PROVE  FileInv'
<1> USE DEF FileInv
<1>1. opened_count(i) = Cardinality(Users(i)) /\ opened_count(i) \in Nat
  <2>1. CASE i \in active
    BY <2>1, UsersFinite DEF opened_count, CountsUsers
  <2>2. CASE i \notin active
    BY <2>2, FS_EmptySet DEF opened_count, ActiveIsInUse
  <2> QED BY <2>1, <2>2
<1>2. CASE has_opened_file(p, i)
  <2>1. i \in active /\ active' = active
    BY <1>2 DEF fs_request, has_opened_file, ActiveIsInUse, Users
  <2>2. \A j \in Inode : o_count'[j] = o_count[j]
    BY <1>2, <2>1 DEF fs_request, FileTypeOK, opened_count
  <2>3. o_count' = o_count
    BY <1>2, <2>2 DEF fs_request, FileTypeOK
  <2> QED BY <1>2, <2>1, <2>3 DEF fs_request, FileTypeOK, CountsUsers, ActiveIsInUse, Users
<1>3. CASE ~has_opened_file(p, i)
  <2>1. /\ active' = active \cup {i}
        /\ o_count' = [o_count EXCEPT ![i] = opened_count(i) + 1]
        /\ o_files' = [o_files EXCEPT ![p] = @ \cup {i}]
    BY <1>3 DEF fs_request
  <2>2. /\ p \notin Users(i)
        /\ Users(i)' = Users(i) \cup {p}
        /\ \A j \in Inode \ {i} : Users(j)' = Users(j)
    BY <1>3, <2>1 DEF has_opened_file, Users, FileTypeOK
  <2>3. Users(i) \in SUBSET Process
    BY DEF Users
  <2>4. FileTypeOK'
    BY <2>1, <1>1 DEF FileTypeOK
  <2>5. CountsUsers'
    <3>1. o_count'[i] = Cardinality(Users(i)')
      BY <2>1, <2>2, <2>3, <1>1, UserAdded DEF FileTypeOK
    <3>2. \A j \in Inode \ {i} : o_count'[j] = Cardinality(Users(j)')
      BY <2>1, <2>2 DEF FileTypeOK, CountsUsers
    <3> QED BY <3>1, <3>2 DEF CountsUsers
  <2>6. ActiveIsInUse'
    BY <2>1, <2>2 DEF ActiveIsInUse
  <2> QED BY <2>4, <2>5, <2>6
<1> QED BY <1>2, <1>3

LEMMA CloseFileInv ==
    ASSUME FileInv, NEW p \in Process, fs_close_files(p)
    PROVE  FileInv'
<1> USE DEF FileInv
<1>1. o_files[p] \subseteq active
  BY DEF FileTypeOK, ActiveIsInUse, Users
<1>2. /\ o_count' = [i \in Inode |-> IF i \in o_files[p] THEN o_count[i] - 1
                                                        ELSE o_count[i]]
      /\ active' = active \ {i \in o_files[p] : o_count[i] - 1 = 0}
      /\ o_files' = [o_files EXCEPT ![p] = {}]
  BY <1>1 DEF fs_close_files
<1>3. ASSUME NEW i \in Inode, i \in o_files[p]
      PROVE  /\ Users(i)' = Users(i) \ {p}
             /\ o_count'[i] = Cardinality(Users(i)') /\ o_count'[i] \in Nat
             /\ i \in active' <=> Users(i)' # {}
  <2>1. p \in Users(i) /\ Users(i) \in SUBSET Process
    BY <1>3 DEF Users
  <2>2. Users(i)' = Users(i) \ {p}
    BY <1>2, <1>3 DEF Users, FileTypeOK
  <2>3. /\ o_count'[i] = o_count[i] - 1
        /\ o_count[i] = Cardinality(Users(i))
    BY <1>2, <1>3 DEF CountsUsers
  <2>4. o_count'[i] = Cardinality(Users(i) \ {p})
    BY <2>1, <2>3, UserRemoved
  <2>5. Users(i) \ {p} \in SUBSET Process /\ Cardinality(Users(i) \ {p}) \in Nat
    BY <2>1, ProcessAssumption, FS_Subset, FS_CardinalityType
  <2>6. i \in active' <=> o_count'[i] # 0
    BY <1>1, <1>2, <1>3, <2>3
  <2> QED BY <2>2, <2>4, <2>5, <2>6, NoUsers
<1>4. ASSUME NEW i \in Inode, i \notin o_files[p]
      PROVE  /\ Users(i)' = Users(i)
             /\ o_count'[i] = o_count[i]
             /\ i \in active' <=> i \in active
  BY <1>2, <1>4 DEF Users, FileTypeOK
<1>5. FileTypeOK'
  <2>1. \A i \in Inode : o_count'[i] \in Nat
    BY <1>3, <1>4 DEF FileTypeOK
  <2> QED BY <1>2, <2>1 DEF FileTypeOK
<1>6. CountsUsers'
  BY <1>3, <1>4 DEF CountsUsers
<1>7. ActiveIsInUse'
  BY <1>3, <1>4 DEF ActiveIsInUse
<1> QED BY <1>5, <1>6, <1>7

LEMMA FileInvariant == FileSpec => []FileInv
<1>1. FileInv /\ [FileNext]_file_vars => FileInv'
  <2> SUFFICES ASSUME FileInv, [FileNext]_file_vars PROVE FileInv'
    OBVIOUS
  <2>1. CASE FileNext
    BY <2>1, RequestFileInv, CloseFileInv DEF FileNext
  <2>2. CASE UNCHANGED file_vars
    BY <2>2 DEF file_vars, FileInv, FileTypeOK, CountsUsers, ActiveIsInUse, Users
  <2> QED BY <2>1, <2>2
<1> QED BY <1>1, InitFileInv, PTL DEF FileSpec

(* The fields of the file table (file.h) keep their types; in particular   *)
(* o_count never goes below zero in fs_close_request.                      *)
THEOREM FileTableTypes == FileSpec => []FileTypeOK
BY FileInvariant, PTL DEF FileInv

(* However often each process has read and written a file in whatever      *)
(* order, o_count is the number of processes that have it open.            *)
THEOREM FileTableCounts == FileSpec => []CountsUsers
BY FileInvariant, PTL DEF FileInv

(* fs_close_request drops an inode with its last user, and only then.      *)
THEOREM FileTableActive == FileSpec => []ActiveIsInUse
BY FileInvariant, PTL DEF FileInv
=============================================================================
