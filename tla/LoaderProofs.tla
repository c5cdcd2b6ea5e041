---------------------------- MODULE LoaderProofs ----------------------------
(***************************************************************************)
(* Theorems about the loader and the memory it fills, for any program      *)
(* files, any sizes and any pages.                                         *)
(***************************************************************************)
EXTENDS Loader, MemoryProofs

loader_vars == <<mem_vars, load_vars>>

(* A process is parsed once, then loaded once: the guard on its record     *)
(* keeps it from having two segments.                                      *)
LoadedOnce ==
    /\ \A p \in Process : Loaded(p) => record[p] # NULL
    /\ parsing # NULL => ~Loaded(parsing) /\ record[parsing] # NULL

(* What the parser has let pass is known while it waits to be loaded.      *)
CodeIsKnown ==
    \A i \in DOMAIN code :
        code[i] # UNSET /\ code[i].op \in {"P", "V"} => code[i].arg \in sem_names

(* The call of mem_req_load that is under way is for the process that is   *)
(* parsed, and that of segment_free for the one that ends.                 *)
CallsAreTheirs ==
    /\ loading # no_call => parsing # NULL /\ loading.seg.code = parsing
    /\ freeing = no_call <=> finishing = NULL
    /\ finishing # NULL =>
          ~Loaded(finishing) /\ record[finishing] # NULL /\ finishing # parsing

(* The inductive invariant.                                                *)
LoaderInv ==
    /\ MemInv
    /\ CallsAreTheirs
    /\ LoaderTypeOK
    /\ DOMAIN text = Process
    /\ LoadedOnce
    /\ CodeIsKnown
    /\ SemaphoresAreKnown

-----------------------------------------------------------------------------
(* The pages of a segment have a place for each line of the code.          *)

LEMMA SlotInPages ==
    ASSUME NEW n \in Nat, NEW i \in 0..(n - 1), NEW k \in Nat \ {0}
    PROVE  /\ i \div k \in 0..((n + k - 1) \div k - 1)
           /\ i % k \in 0..(k - 1)
<1> DEFINE q == i \div k
           m == (n + k - 1) \div k
<1>1. q \in Nat /\ i % k \in 0..(k - 1) /\ k * q <= i
  OBVIOUS
<1>2. m \in Nat /\ n + k - 1 < k * (m + 1)
  OBVIOUS
<1>3. k * (q + 1) < k * (m + 1)
  <2>1. k * (q + 1) = k * q + k
    BY <1>1
  <2> HIDE DEF q, m
  <2>2. k * q + k <= i + k
    BY <1>1
  <2> QED BY <1>1, <1>2, <2>1, <2>2
<1> HIDE DEF q, m
<1>4. q + 1 < m + 1
  BY <1>1, <1>2, <1>3
<1> QED BY <1>1, <1>2, <1>4 DEF q, m

LEMMA PagesHoldSomeLine ==
    ASSUME NEW p \in Process, NEW i \in 0..(CodeLen[p] - 1)
    PROVE  \/ segment_populate(p)[slot_of(i)] = UNSET
           \/ \E k \in DOMAIN code : segment_populate(p)[slot_of(i)] = code[k]
<1>1. /\ CodeLen[p] \in Nat /\ INSTRUCTIONS_PER_PAGE \in Nat \ {0}
  BY MemoryAssumption
<1>2. slot_of(i) \in (0..(PageCount(p) - 1)) \X (0..(INSTRUCTIONS_PER_PAGE - 1))
  BY <1>1, SlotInPages DEF slot_of, PAGE_NUMBER, PAGE_OFFSET, PageCount
<1>3. CASE \E k \in DOMAIN code : slot_of(i) = slot_of(k - 1)
  <2> DEFINE k == CHOOSE k \in DOMAIN code : slot_of(i) = slot_of(k - 1)
  <2>1. k \in DOMAIN code
    BY <1>3
  <2>2. segment_populate(p)[slot_of(i)] = code[k]
    BY <1>2, <1>3 DEF segment_populate
  <2> QED BY <2>1, <2>2
<1>4. CASE ~ \E k \in DOMAIN code : slot_of(i) = slot_of(k - 1)
  <2>1. segment_populate(p)[slot_of(i)] = UNSET
    BY <1>2, <1>4 DEF segment_populate
  <2> QED BY <2>1
<1> QED BY <1>3, <1>4

LEMMA Division ==
    ASSUME NEW n \in Nat \ {0}, NEW x \in Nat
    PROVE  x = n * (x \div n) + (x % n)
OBVIOUS

(* No two lines of the code share a place in the pages.                    *)
LEMMA SlotsDiffer ==
    ASSUME NEW i \in Nat, NEW k \in Nat, slot_of(i) = slot_of(k)
    PROVE  i = k
<1> DEFINE n == INSTRUCTIONS_PER_PAGE
<1>1. n \in Nat \ {0}
  BY MemoryAssumption
<1>2. i \div n = k \div n /\ i % n = k % n
  BY DEF slot_of, PAGE_NUMBER, PAGE_OFFSET
<1> HIDE DEF n
<1>3. i = n * (i \div n) + (i % n) /\ k = n * (k \div n) + (k % n)
  BY <1>1, Division
<1> QED BY <1>2, <1>3

LEMMA PagesHoldTheLine ==
    ASSUME NEW p \in Process, DOMAIN code = 1..CodeLen[p], NEW i \in 0..(CodeLen[p] - 1)
    PROVE  segment_populate(p)[slot_of(i)] = code[i + 1]
<1>1. CodeLen[p] \in Nat /\ INSTRUCTIONS_PER_PAGE \in Nat \ {0}
  BY MemoryAssumption
<1>2. slot_of(i) \in (0..(PageCount(p) - 1)) \X (0..(INSTRUCTIONS_PER_PAGE - 1))
  BY <1>1, SlotInPages DEF slot_of, PAGE_NUMBER, PAGE_OFFSET, PageCount
<1>3. i + 1 \in DOMAIN code /\ slot_of(i) = slot_of((i + 1) - 1)
  BY <1>1
<1>4. \A k \in DOMAIN code : slot_of(i) = slot_of(k - 1) => k = i + 1
  <2> SUFFICES ASSUME NEW k \in 1..CodeLen[p], slot_of(i) = slot_of(k - 1) PROVE k = i + 1
    OBVIOUS
  <2>1. i \in Nat /\ k - 1 \in Nat
    BY <1>1
  <2>2. i = k - 1
    BY <2>1, SlotsDiffer
  <2> QED BY <1>1, <2>2
<1>5. (CHOOSE k \in DOMAIN code : slot_of(i) = slot_of(k - 1)) = i + 1
  BY <1>3, <1>4
<1> QED BY <1>2, <1>3, <1>5 DEF segment_populate

-----------------------------------------------------------------------------
(* The place a line has among others                                       *)

LEMMA BeforeCounts ==
    ASSUME NEW lines \in SUBSET Nat, IsFiniteSet(lines), NEW j \in lines
    PROVE  /\ Before(lines, j) \in 0..(Cardinality(lines) - 1)
           /\ \A k \in lines : k < j => Before(lines, k) < Before(lines, j)
<1> DEFINE Earlier(k) == {l \in lines : l < k}
<1>1. ASSUME NEW k \in lines
      PROVE  IsFiniteSet(Earlier(k)) /\ Cardinality(Earlier(k)) \in Nat
  BY FS_Subset, FS_CardinalityType
<1>2. Cardinality(Earlier(j)) < Cardinality(lines)
  <2>1. j \notin Earlier(j)
    OBVIOUS
  <2>2. Earlier(j) # lines /\ Earlier(j) \in SUBSET lines
    BY <2>1
  <2> HIDE DEF Earlier
  <2>3. /\ Cardinality(Earlier(j)) <= Cardinality(lines)
        /\ Cardinality(lines) # Cardinality(Earlier(j))
    BY <2>2, FS_Subset
  <2> QED BY <1>1, <2>3, FS_CardinalityType
<1>3. ASSUME NEW k \in lines, k < j
      PROVE  Cardinality(Earlier(k)) < Cardinality(Earlier(j))
  <2>0. lines \subseteq Nat /\ j \in Nat /\ k \in Nat
    OBVIOUS
  <2>1. k \in Earlier(j) /\ k \notin Earlier(k) /\ Earlier(k) \in SUBSET Earlier(j)
    <3>1. k \in Earlier(j) /\ k \notin Earlier(k)
      BY <1>3, <2>0
    <3>2. \A l \in lines : l < k => l < j
      BY <1>3, <2>0
    <3> QED BY <3>1, <3>2
  <2> HIDE DEF Earlier
  <2>2. /\ Cardinality(Earlier(k)) <= Cardinality(Earlier(j))
        /\ Cardinality(Earlier(j)) # Cardinality(Earlier(k))
    BY <1>1, <2>1, FS_Subset
  <2> QED BY <1>1, <2>2
<1> QED BY <1>1, <1>2, <1>3, FS_CardinalityType DEF Before

LEMMA InstrLines ==
    ASSUME NEW p \in Process
    PROVE  /\ instr_lines(p) \in SUBSET Nat /\ IsFiniteSet(instr_lines(p))
           /\ Cardinality(instr_lines(p)) \in 0..CodeLen[p]
<1>1. Len(File[p].lines) \in Nat /\ head_lines(p) \in Nat
  BY FileAssumption DEF head_lines
<1>2. IsFiniteSet(code_section(p)) /\ code_section(p) \in SUBSET Nat
  <2>1. head_lines(p) + 1 \in Int /\ Len(File[p].lines) \in Int
    BY <1>1
  <2>2. IsFiniteSet(code_section(p))
    BY <2>1, FS_Interval DEF code_section
  <2>3. code_section(p) \subseteq Nat
    BY <1>1 DEF code_section
  <2> QED BY <2>2, <2>3
<1>3. instr_lines(p) \in SUBSET code_section(p)
  BY DEF instr_lines
<1>4. /\ IsFiniteSet(instr_lines(p))
      /\ Cardinality(instr_lines(p)) <= Cardinality(code_section(p))
  BY <1>2, <1>3, FS_Subset
<1> QED BY <1>2, <1>3, <1>4, FS_CardinalityType, FileAssumption

(* read_code puts an instruction behind those before it, and leaves the    *)
(* rest of the array as malloc gave it.                                    *)
LEMMA ReadCodePlaces ==
    ASSUME NEW p \in Process
    PROVE  /\ DOMAIN read_code(p) = 1..CodeLen[p]
           /\ \A j \in instr_lines(p) :
                /\ Before(instr_lines(p), j) \in 0..(CodeLen[p] - 1)
                /\ read_code(p)[Before(instr_lines(p), j) + 1] = instr_parse(p, j)
           /\ \A i \in Cardinality(instr_lines(p))..(CodeLen[p] - 1) :
                read_code(p)[i + 1] = UNSET
<1> DEFINE lines == instr_lines(p)
           here(i) == {j \in lines : Before(lines, j) = i - 1}
<1>1. CodeLen[p] \in Nat
  BY MemoryAssumption
<1>2. lines \in SUBSET Nat /\ IsFiniteSet(lines) /\ Cardinality(lines) \in 0..CodeLen[p]
  BY InstrLines
<1>3. ASSUME NEW i \in 1..CodeLen[p]
      PROVE  read_code(p)[i] = IF here(i) = {} THEN UNSET
                               ELSE instr_parse(p, CHOOSE j \in here(i) : TRUE)
  BY <1>3 DEF read_code
<1>4. ASSUME NEW j \in lines
      PROVE  /\ Before(lines, j) \in 0..(CodeLen[p] - 1)
             /\ read_code(p)[Before(lines, j) + 1] = instr_parse(p, j)
  <2> DEFINE i == Before(lines, j) + 1
  <2>1. \A k \in lines : /\ Before(lines, k) \in 0..(Cardinality(lines) - 1)
                         /\ \A l \in lines : l < k => Before(lines, l) < Before(lines, k)
    BY <1>2, BeforeCounts
  <2>2. Before(lines, j) \in 0..(CodeLen[p] - 1) /\ i \in 1..CodeLen[p]
    BY <1>1, <1>2, <2>1
  <2>3. \A k \in lines : Before(lines, k) = Before(lines, j) => k = j
    BY <1>2, <2>1
  <2>4. j \in here(i) /\ \A k \in here(i) : k = j
    BY <2>2, <2>3
  <2> HIDE DEF i, here
  <2>5. here(i) # {} /\ (CHOOSE k \in here(i) : TRUE) = j
    BY <2>4
  <2>6. read_code(p)[i] = instr_parse(p, j)
    BY <1>3, <2>2, <2>5
  <2> QED BY <2>2, <2>6 DEF i
<1>5. ASSUME NEW i \in Cardinality(lines)..(CodeLen[p] - 1)
      PROVE  read_code(p)[i + 1] = UNSET
  <2>1. i + 1 \in 1..CodeLen[p] /\ i >= Cardinality(lines) /\ (i + 1) - 1 = i
    BY <1>1, <1>2
  <2>2. \A k \in lines : Before(lines, k) \in 0..(Cardinality(lines) - 1)
    BY <1>2, BeforeCounts
  <2>3. here(i + 1) = {}
    BY <1>2, <2>1, <2>2
  <2> QED BY <1>3, <2>1, <2>3
<1>6. DOMAIN read_code(p) = 1..CodeLen[p]
  BY DEF read_code
<1> QED BY <1>4, <1>5, <1>6

-----------------------------------------------------------------------------
(* What the parser lets pass *)

LEMMA NamesOfFile ==
    ASSUME NEW p \in Process
    PROVE  read_semaphores(p) \subseteq Name
<1>1. CASE sem_line(p) = blank
  BY <1>1 DEF read_semaphores
<1>2. CASE sem_line(p) # blank
  <2>1. sem_line(p).arg \in Seq(Name)
    BY <1>2, FileAssumption
  <2> QED BY <1>2, <2>1 DEF read_semaphores, ToSet
<1> QED BY <1>1, <1>2

LEMMA ReadCodeIsKnown ==
    ASSUME NEW p \in Process, NEW names,
           \A j \in instr_lines(p) : ~parse_exits(p, j, names)
    PROVE  /\ Len(read_code(p)) = CodeLen[p]
           /\ \A i \in DOMAIN read_code(p) :
                LET instr == read_code(p)[i]
                IN  instr # UNSET /\ instr.op \in {"P", "V"} => instr.arg \in names
<1>1. CodeLen[p] \in Nat
  BY MemoryAssumption
<1>2. Len(read_code(p)) = CodeLen[p] /\ DOMAIN read_code(p) = 1..CodeLen[p]
  BY <1>1 DEF read_code
<1>3. ASSUME NEW i \in 1..CodeLen[p], read_code(p)[i] # UNSET,
             read_code(p)[i].op \in {"P", "V"}
      PROVE  read_code(p)[i].arg \in names
  <2>1. PICK j \in instr_lines(p) : read_code(p)[i] = instr_parse(p, j)
    BY <1>3 DEF read_code
  <2> DEFINE line == File[p].lines[j]
  <2>2. instr_parse(p, j).op = IF line.op \in Known \cup {"P", "V"} THEN line.op ELSE UNSET
    BY DEF instr_parse
  <2>3. line.op \in {"P", "V"}
    BY <1>3, <2>1, <2>2, LoaderAssumption
  <2>4. instr_parse(p, j).arg = name_read(p, j)
    BY <2>3 DEF instr_parse
  <2>5. name_read(p, j) \in names
    BY <2>1, <2>3 DEF parse_exits, line
  <2> QED BY <2>1, <2>4, <2>5
<1> QED BY <1>2, <1>3

-----------------------------------------------------------------------------
(* The steps *)

LEMMA InitLoaderInv == LoaderInit => LoaderInv
<1> SUFFICES ASSUME LoaderInit PROVE LoaderInv
  OBVIOUS
<1>1. MemInv /\ \A p \in Process : ~Loaded(p)
  BY InitMem DEF LoaderInit
<1>2. LoaderTypeOK
  BY <1>1 DEF LoaderInit, LoaderTypeOK, MemInv
<1>3. CallsAreTheirs
  BY InitMem DEF LoaderInit, CallsAreTheirs
<1> QED BY <1>1, <1>2, <1>3
     DEF LoaderInit, LoaderInv, LoadedOnce, CodeIsKnown, SemaphoresAreKnown

LEMMA CreateLoaderInv ==
    ASSUME LoaderInv, NEW p \in Process, process_create(p)
    PROVE  LoaderInv'
<1> DEFINE names == sem_names \cup read_semaphores(p)
           exits == \E j \in instr_lines(p) : parse_exits(p, j, names)
<1>1. /\ parsing = NULL /\ record[p] = NULL
      /\ UNCHANGED <<text, finishing, seg_list, mem_remaining, loading, freeing>>
  BY DEF process_create, mem_vars
<1>2. /\ MemInv' /\ DOMAIN text' = Process
      /\ \A q \in Process : Loaded(q)' <=> Loaded(q)
  BY <1>1 DEF LoaderInv, MemInv, MemTypeOK, SegmentsAreOwn, OneSegmentEach,
              LoadIsNew, Loaded
<1>3. CASE exits
  <2>1. halted' = TRUE /\ UNCHANGED <<parsing, sem_names, code, record, semaphores, allocated>>
    BY <1>3 DEF process_create
  <2>2. LoaderTypeOK'
    BY <1>1, <1>2, <2>1 DEF LoaderInv, LoaderTypeOK, MemInv
  <2>3. CallsAreTheirs'
    BY <1>1, <1>2, <2>1 DEF LoaderInv, LoaderTypeOK, CallsAreTheirs
  <2> QED BY <1>1, <1>2, <2>1, <2>2, <2>3
       DEF LoaderInv, LoadedOnce, CodeIsKnown, SemaphoresAreKnown
<1>4. CASE ~exits
  <2>1. /\ parsing' = p /\ sem_names' = names /\ code' = read_code(p) /\ halted' = halted
        /\ allocated' = IF sem_line(p) = blank THEN allocated ELSE allocated \cup {p}
    BY <1>4 DEF process_create
  <2>2. PICK r \in Record : /\ record' = [record EXCEPT ![p] = r]
                            /\ semaphores' = IF sem_line(p) = blank THEN semaphores
                                             ELSE [semaphores EXCEPT ![r] = p]
    BY <1>4 DEF process_create
  <2>3. r # NULL /\ p # NULL
    BY LoaderAssumption
  <2>4. /\ Len(code') = CodeLen[p]
        /\ \A i \in DOMAIN code' :
             code'[i] # UNSET /\ code'[i].op \in {"P", "V"} => code'[i].arg \in names
    BY <1>4, <2>1, ReadCodeIsKnown
  <2>5. LoaderTypeOK'
    <3>1. names \subseteq Name
      BY NamesOfFile DEF LoaderInv, LoaderTypeOK
    <3>2. record' \in [Process -> Record \cup {NULL}] /\ semaphores' \in [Record -> Process \cup {NULL}]
      BY <2>2 DEF LoaderInv, LoaderTypeOK
    <3>3. allocated' \subseteq Process /\ halted' \in BOOLEAN
      BY <2>1, Zenon DEF LoaderInv, LoaderTypeOK
    <3> HIDE DEF names
    <3>4. finishing' \in Process \cup {NULL}
      BY <1>1 DEF LoaderInv, LoaderTypeOK
    <3> QED BY <1>2, <2>1, <2>3, <2>4, <3>1, <3>2, <3>3, <3>4 DEF LoaderTypeOK, MemInv
  <2>6. LoadedOnce'
    <3>1. \A q \in Process : record[q] # NULL => record'[q] # NULL
      BY <2>2, <2>3 DEF LoaderInv, LoaderTypeOK
    <3>2. record'[p] # NULL
      BY <2>2, <2>3 DEF LoaderInv, LoaderTypeOK
    <3> QED BY <1>1, <1>2, <2>1, <3>1, <3>2 DEF LoaderInv, LoadedOnce
  <2>7. CodeIsKnown'
    BY <2>1, <2>4 DEF CodeIsKnown
  <2>8. SemaphoresAreKnown'
    BY <1>1, <1>2, <2>1 DEF LoaderInv, SemaphoresAreKnown
  <2>9. CallsAreTheirs'
    <3>1. loading = no_call
      BY <1>1 DEF LoaderInv, CallsAreTheirs
    <3>2. finishing # NULL =>
            /\ finishing \in Process /\ finishing # p /\ ~Loaded(finishing)
            /\ record'[finishing] # NULL
      BY <1>1, <2>2 DEF LoaderInv, LoaderTypeOK, CallsAreTheirs
    <3> QED BY <1>1, <1>2, <2>1, <3>1, <3>2 DEF LoaderInv, CallsAreTheirs
  <2> QED BY <1>2, <2>5, <2>6, <2>7, <2>8, <2>9 DEF LoaderInv
<1> QED BY <1>3, <1>4

LEMMA LoadLoaderInv ==
    ASSUME LoaderInv, NEW p \in Process, load(p)
    PROVE  LoaderInv'
<1>1. /\ parsing = p /\ mem_req_load(p)
      /\ IF loading' = no_call
           THEN /\ text' = [text EXCEPT ![p] = segment_populate(p)]
                /\ parsing' = NULL /\ code' = <<>>
           ELSE UNCHANGED <<text, parsing, code>>
      /\ UNCHANGED <<sem_names, finishing, record, semaphores, allocated, halted>>
  BY DEF load
<1>2. ~Loaded(p) /\ record[p] # NULL /\ p # NULL /\ finishing # p
  BY <1>1, LoaderAssumption DEF LoaderInv, LoadedOnce, CallsAreTheirs
<1>3. /\ MemInv' /\ freeing' = freeing
      /\ loading' = no_call => \A q \in Process : Loaded(q)' <=> Loaded(q) \/ q = p
      /\ loading' # no_call => /\ loading'.seg.code = p
                               /\ \A q \in Process : Loaded(q)' <=> Loaded(q)
  BY <1>1, <1>2, LoadMem DEF LoaderInv, CallsAreTheirs
<1>4. LoaderTypeOK'
  BY <1>1, <1>3 DEF LoaderInv, LoaderTypeOK, MemInv
<1>5. LoadedOnce'
  <2>1. CASE loading' = no_call
    BY <1>1, <1>2, <1>3, <2>1 DEF LoaderInv, LoadedOnce
  <2>2. CASE loading' # no_call
    BY <1>1, <1>2, <1>3, <2>2 DEF LoaderInv, LoadedOnce
  <2> QED BY <2>1, <2>2
<1>6. CodeIsKnown'
  BY <1>1 DEF LoaderInv, CodeIsKnown
<1>7. SemaphoresAreKnown'
  <2> SUFFICES ASSUME NEW q \in Process, Loaded(q)', NEW i \in 0..(CodeLen[q] - 1),
                      text'[q][slot_of(i)] # UNSET,
                      text'[q][slot_of(i)].op \in {"P", "V"}
               PROVE  text'[q][slot_of(i)].arg \in sem_names
    BY <1>1 DEF SemaphoresAreKnown
  <2>1. CASE q = p /\ loading' = no_call
    <3>1. text'[q] = segment_populate(p)
      BY <1>1, <2>1 DEF LoaderInv
    <3>2. PICK k \in DOMAIN code : text'[q][slot_of(i)] = code[k]
      BY <2>1, <3>1, PagesHoldSomeLine
    <3> QED BY <3>2 DEF LoaderInv, CodeIsKnown
  <2>2. CASE q # p \/ loading' # no_call
    <3>1. text'[q] = text[q] /\ Loaded(q)
      BY <1>1, <1>3, <2>2 DEF LoaderInv
    <3> QED BY <3>1 DEF LoaderInv, SemaphoresAreKnown
  <2> QED BY <2>1, <2>2
<1>8. CallsAreTheirs'
  <2>1. finishing # NULL => /\ finishing \in Process /\ finishing # p
                            /\ ~Loaded(finishing)' /\ record[finishing] # NULL
    BY <1>1, <1>2, <1>3 DEF LoaderInv, LoaderTypeOK, CallsAreTheirs
  <2>2. finishing # NULL => finishing # parsing'
    BY <1>1, <1>2
  <2> QED BY <1>1, <1>2, <1>3, <2>1, <2>2 DEF LoaderInv, CallsAreTheirs
<1>9. DOMAIN text' = Process
  BY <1>1 DEF LoaderInv
<1> QED BY <1>1, <1>3, <1>4, <1>5, <1>6, <1>7, <1>8, <1>9 DEF LoaderInv

LEMMA FetchLoaderInv ==
    ASSUME LoaderInv, NEW p \in Process, fetch(p)
    PROVE  LoaderInv'
<1>1. PICK pc \in 0..(CodeLen[p] - 1) : set_used(segment_find(SegId[p]), pc)
  BY DEF fetch
<1>2. Loaded(p) /\ UNCHANGED load_vars
  BY DEF fetch
<1>0. UNCHANGED <<loading, freeing>>
  BY <1>1 DEF set_used
<1>3. segment_find(SegId[p]) \in DOMAIN seg_list /\ pc \in Nat
  BY <1>2, FindOwnSegment, MemoryAssumption DEF LoaderInv
<1>4. MemInv' /\ \A q \in Process : Loaded(q)' <=> Loaded(q)
  BY <1>1, <1>3, SetUsedMem DEF LoaderInv
<1>5. LoaderTypeOK'
  BY <1>2, <1>4 DEF LoaderInv, LoaderTypeOK, MemInv, load_vars
<1>6. LoadedOnce' /\ CodeIsKnown' /\ SemaphoresAreKnown' /\ DOMAIN text' = Process
  <2>1. LoadedOnce'
    BY <1>2, <1>4 DEF LoaderInv, LoaderTypeOK, LoadedOnce, load_vars
  <2> QED BY <1>2, <1>4, <2>1 DEF LoaderInv, CodeIsKnown, SemaphoresAreKnown, load_vars
<1>7. CallsAreTheirs'
  BY <1>0, <1>2, <1>4 DEF LoaderInv, LoaderTypeOK, CallsAreTheirs, load_vars
<1> QED BY <1>4, <1>5, <1>6, <1>7 DEF LoaderInv

LEMMA FinishLoaderInv ==
    ASSUME LoaderInv, NEW p \in Process, process_finish(p)
    PROVE  LoaderInv'
<1> DEFINE array == semaphores[record[p]]
<1>1. /\ IF finishing = NULL THEN Loaded(p) ELSE finishing = p
      /\ segment_free(SegId[p])
      /\ UNCHANGED <<parsing, sem_names, code, semaphores>>
  BY DEF process_finish
<1>2. /\ MemInv' /\ loading' = loading
      /\ finishing = NULL => /\ Loaded(p) /\ freeing' # no_call
                             /\ \A q \in Process : Loaded(q)' <=> Loaded(q) /\ q # p
      /\ finishing # NULL => \A q \in Process : Loaded(q)' <=> Loaded(q)
  BY <1>1, FreeMem DEF LoaderInv, CallsAreTheirs
<1>3. p # NULL /\ p # parsing /\ record[p] # NULL /\ ~Loaded(p)'
  <2>1. p # NULL
    BY LoaderAssumption
  <2>2. CASE finishing = NULL
    BY <1>2, <2>1, <2>2 DEF LoaderInv, LoadedOnce
  <2>3. CASE finishing # NULL
    BY <1>1, <1>2, <2>1, <2>3 DEF LoaderInv, CallsAreTheirs
  <2> QED BY <2>1, <2>2, <2>3
<1>4. \A q \in Process : Loaded(q)' => Loaded(q)
  BY <1>2
<1>5. CASE freeing' # no_call
  <2>1. finishing' = p /\ UNCHANGED <<text, record, allocated, halted>>
    BY <1>5 DEF process_finish
  <2>2. LoaderTypeOK'
    BY <1>1, <1>2, <2>1 DEF LoaderInv, LoaderTypeOK, MemInv
  <2>3. CallsAreTheirs'
    BY <1>1, <1>2, <1>3, <1>5, <2>1 DEF LoaderInv, CallsAreTheirs
  <2>4. LoadedOnce'
    <3>1. parsing # NULL => parsing \in Process
      BY DEF LoaderInv, LoaderTypeOK
    <3> QED BY <1>1, <1>4, <2>1, <3>1 DEF LoaderInv, LoadedOnce
  <2>5. SemaphoresAreKnown'
    BY <1>1, <1>4, <2>1 DEF LoaderInv, SemaphoresAreKnown
  <2>6. CodeIsKnown' /\ DOMAIN text' = Process
    BY <1>1, <2>1 DEF LoaderInv, CodeIsKnown
  <2> QED BY <1>2, <2>2, <2>3, <2>4, <2>5, <2>6 DEF LoaderInv
<1>6. CASE freeing' = no_call
  <2>1. /\ finishing' = NULL
        /\ text' = [text EXCEPT ![p] = <<>>]
        /\ record' = [record EXCEPT ![p] = NULL]
        /\ allocated' = allocated \ {array}
        /\ halted' \in IF array \in allocated \cup {NULL} THEN {FALSE} ELSE BOOLEAN
    BY <1>6 DEF process_finish
  <2>2. LoaderTypeOK'
    <3>1. halted' \in BOOLEAN
      BY <2>1, Zenon
    <3> HIDE DEF array
    <3> QED BY <1>1, <1>2, <2>1, <3>1 DEF LoaderInv, LoaderTypeOK, MemInv
  <2>3. \A q \in Process : q # p => record'[q] = record[q] /\ text'[q] = text[q]
    BY <2>1 DEF LoaderInv, LoaderTypeOK
  <2>4. LoadedOnce'
    <3>1. \A q \in Process : Loaded(q)' => record'[q] # NULL
      BY <1>3, <1>4, <2>3 DEF LoaderInv, LoadedOnce
    <3>2. ASSUME NEW q \in Process, q = parsing
          PROVE  ~Loaded(q)' /\ record'[q] # NULL
      <4>1. q # NULL
        BY LoaderAssumption
      <4> QED BY <1>3, <1>4, <2>3, <3>2, <4>1 DEF LoaderInv, LoadedOnce
    <3>3. parsing # NULL => parsing \in Process
      BY DEF LoaderInv, LoaderTypeOK
    <3> QED BY <1>1, <3>1, <3>2, <3>3 DEF LoadedOnce
  <2>5. SemaphoresAreKnown'
    BY <1>1, <1>3, <1>4, <2>3 DEF LoaderInv, SemaphoresAreKnown
  <2>6. CodeIsKnown' /\ DOMAIN text' = Process
    BY <1>1, <2>1 DEF LoaderInv, CodeIsKnown
  <2>7. CallsAreTheirs'
    BY <1>1, <1>2, <1>6, <2>1 DEF LoaderInv, CallsAreTheirs
  <2> QED BY <1>2, <2>2, <2>4, <2>5, <2>6, <2>7 DEF LoaderInv
<1> QED BY <1>5, <1>6

LEMMA NextLoaderInv == LoaderInv /\ [LoaderNext]_loader_vars => LoaderInv'
<1> SUFFICES ASSUME LoaderInv, [LoaderNext]_loader_vars PROVE LoaderInv'
  OBVIOUS
<1>1. CASE UNCHANGED loader_vars
  BY <1>1 DEF loader_vars, mem_vars, load_vars, LoaderInv, MemInv, MemTypeOK, SegmentsAreOwn,
              OneSegmentEach, LoadIsNew, CallsAreTheirs, LoaderTypeOK, LoadedOnce, CodeIsKnown,
              SemaphoresAreKnown, Loaded
<1>2. ASSUME NEW p \in Process, process_create(p) PROVE LoaderInv'
  BY <1>2, CreateLoaderInv
<1>3. ASSUME NEW p \in Process, load(p) PROVE LoaderInv'
  BY <1>3, LoadLoaderInv
<1>4. ASSUME NEW p \in Process, fetch(p) PROVE LoaderInv'
  BY <1>4, FetchLoaderInv
<1>5. ASSUME NEW p \in Process, process_finish(p) PROVE LoaderInv'
  BY <1>5, FinishLoaderInv
<1> QED BY <1>1, <1>2, <1>3, <1>4, <1>5 DEF LoaderNext

LEMMA LoaderInvariant == LoaderSpec => []LoaderInv
<1>1. LoaderInit => LoaderInv
  BY InitLoaderInv
<1>2. LoaderInv /\ [LoaderNext]_loader_vars => LoaderInv'
  BY NextLoaderInv
<1> QED BY <1>1, <1>2, PTL DEF LoaderSpec, loader_vars

-----------------------------------------------------------------------------
(* What is in the pages                                                    *)

(* The code that waits to be loaded is that of the process that is parsed, *)
(* and the pages of a process keep its code until it ends.                 *)
PagesInv ==
    /\ parsing # NULL => code = read_code(parsing)
    /\ \A p \in Process : Loaded(p) =>
         \A i \in 0..(CodeLen[p] - 1) : text[p][slot_of(i)] = read_code(p)[i + 1]

LEMMA LoadPagesInv ==
    ASSUME LoaderInv, PagesInv, NEW p \in Process, load(p)
    PROVE  PagesInv'
<1>1. /\ parsing = p /\ mem_req_load(p)
      /\ IF loading' = no_call
           THEN /\ text' = [text EXCEPT ![p] = segment_populate(p)]
                /\ parsing' = NULL
           ELSE UNCHANGED <<text, parsing, code>>
  BY DEF load
<1>2. p # NULL /\ code = read_code(p)
  BY <1>1, LoaderAssumption DEF PagesInv
<1>3. ~Loaded(p)
  BY <1>1, <1>2 DEF LoaderInv, LoadedOnce
<1>4. /\ loading' = no_call => \A q \in Process : Loaded(q)' <=> Loaded(q) \/ q = p
      /\ loading' # no_call => \A q \in Process : Loaded(q)' <=> Loaded(q)
  BY <1>1, <1>3, LoadMem DEF LoaderInv, CallsAreTheirs
<1>5. CASE loading' = no_call
  <2>1. \A i \in 0..(CodeLen[p] - 1) : text'[p][slot_of(i)] = read_code(p)[i + 1]
    <3>1. text'[p] = segment_populate(p) /\ DOMAIN code = 1..CodeLen[p]
      BY <1>1, <1>2, <1>5, ReadCodePlaces DEF LoaderInv
    <3> QED BY <1>2, <3>1, PagesHoldTheLine
  <2>2. \A q \in Process \ {p} : text'[q] = text[q]
    BY <1>1, <1>5 DEF LoaderInv
  <2> QED BY <1>1, <1>4, <1>5, <2>1, <2>2 DEF PagesInv
<1>6. CASE loading' # no_call
  BY <1>1, <1>4, <1>6 DEF PagesInv
<1> QED BY <1>5, <1>6

LEMMA NextPagesInv == LoaderInv /\ PagesInv /\ [LoaderNext]_loader_vars => PagesInv'
<1> SUFFICES ASSUME LoaderInv, PagesInv, [LoaderNext]_loader_vars PROVE PagesInv'
  OBVIOUS
<1>1. CASE UNCHANGED loader_vars
  BY <1>1 DEF loader_vars, mem_vars, load_vars, PagesInv, Loaded
<1>2. ASSUME NEW p \in Process, process_create(p) PROVE PagesInv'
  <2>1. /\ UNCHANGED <<text, mem_vars>>
        /\ UNCHANGED <<parsing, code>> \/ (parsing' = p /\ code' = read_code(p))
    BY <1>2 DEF process_create
  <2>2. \A q \in Process : Loaded(q)' <=> Loaded(q)
    BY <2>1 DEF mem_vars, Loaded
  <2> QED BY <2>1, <2>2 DEF PagesInv
<1>3. ASSUME NEW p \in Process, load(p) PROVE PagesInv'
  BY <1>3, LoadPagesInv
<1>4. ASSUME NEW p \in Process, fetch(p) PROVE PagesInv'
  <2>1. PICK pc \in 0..(CodeLen[p] - 1) : set_used(segment_find(SegId[p]), pc)
    BY <1>4 DEF fetch
  <2>2. Loaded(p) /\ UNCHANGED <<parsing, code, text>>
    BY <1>4 DEF fetch, load_vars
  <2>3. segment_find(SegId[p]) \in DOMAIN seg_list /\ pc \in Nat
    BY <2>2, FindOwnSegment, MemoryAssumption DEF LoaderInv
  <2>4. \A q \in Process : Loaded(q)' <=> Loaded(q)
    BY <2>1, <2>3, SetUsedMem DEF LoaderInv
  <2> QED BY <2>2, <2>4 DEF PagesInv
<1>5. ASSUME NEW p \in Process, process_finish(p) PROVE PagesInv'
  <2>1. /\ IF finishing = NULL THEN Loaded(p) ELSE finishing = p
        /\ segment_free(SegId[p]) /\ UNCHANGED <<parsing, code>>
        /\ text' = text \/ text' = [text EXCEPT ![p] = <<>>]
    BY <1>5 DEF process_finish
  <2>2. \A q \in Process : Loaded(q)' => Loaded(q) /\ q # p
    BY <2>1, FreeMem DEF LoaderInv, CallsAreTheirs
  <2>3. \A q \in Process \ {p} : text'[q] = text[q]
    BY <2>1 DEF LoaderInv
  <2> QED BY <2>1, <2>2, <2>3 DEF PagesInv
<1> QED BY <1>1, <1>2, <1>3, <1>4, <1>5 DEF LoaderNext

LEMMA PagesInvariant == LoaderSpec => [](LoaderInv /\ PagesInv)
<1>1. LoaderInit => PagesInv
  <2> SUFFICES ASSUME LoaderInit PROVE PagesInv
    OBVIOUS
  <2>1. parsing = NULL /\ \A p \in Process : ~Loaded(p)
    BY InitMem DEF LoaderInit
  <2> QED BY <2>1 DEF PagesInv
<1> QED BY <1>1, NextPagesInv, LoaderInvariant, PTL DEF LoaderSpec, loader_vars

-----------------------------------------------------------------------------
(* The fields of the loader and of the table keep their types: the memory  *)
(* that remains never goes below zero, and the array of a request has a    *)
(* place for each line of its code section.                                *)
THEOREM LoaderTypes == LoaderSpec => []LoaderTypeOK
<1>1. LoaderInv => LoaderTypeOK
  BY DEF LoaderInv
<1> QED BY <1>1, LoaderInvariant, PTL

LEMMA NextBalanced ==
    ASSUME LoaderInv, Balanced, [LoaderNext]_loader_vars, ~UpdatesOverlap, ~UpdatesOverlap'
    PROVE  Balanced'
<1>1. CASE UNCHANGED mem_vars
  BY <1>1 DEF mem_vars, Balanced, Available, Pending, Allocated
<1>2. ASSUME NEW p \in Process, load(p) PROVE Balanced'
  <2>1. mem_req_load(p) /\ ~Loaded(p)
    BY <1>2, LoaderAssumption DEF load, LoaderInv, LoadedOnce
  <2> QED BY <2>1, LoadKeepsBalance DEF LoaderInv
<1>3. ASSUME NEW p \in Process, fetch(p) PROVE Balanced'
  <2>1. PICK pc \in 0..(CodeLen[p] - 1) : set_used(segment_find(SegId[p]), pc)
    BY <1>3 DEF fetch
  <2>2. segment_find(SegId[p]) \in DOMAIN seg_list /\ pc \in Nat
    BY <1>3, FindOwnSegment, MemoryAssumption DEF LoaderInv, fetch
  <2> QED BY <2>1, <2>2, UseKeepsBalance DEF LoaderInv
<1>4. ASSUME NEW p \in Process, process_finish(p) PROVE Balanced'
  BY <1>4, FreeKeepsBalance DEF process_finish, LoaderInv
<1>5. ASSUME NEW p \in Process, process_create(p) PROVE UNCHANGED mem_vars
  BY <1>5 DEF process_create
<1> QED BY <1>1, <1>2, <1>3, <1>4, <1>5 DEF LoaderNext, loader_vars

(* Memory is lost only where segment_free gives back a segment between the *)
(* read and the write of a load: in any other order of their steps, the    *)
(* pass, which counts pages nobody has given back, and the cut at the size *)
(* of the memory lose nothing.                                             *)
THEOREM LoaderLosesByOverlapOnly == LoaderSpec => LostByOverlapOnly
<1>1. LoaderInit => Balanced
  BY InitBalanced DEF LoaderInit
<1>2. /\ LoaderInv /\ Balanced /\ [LoaderNext]_loader_vars
      /\ ~UpdatesOverlap /\ ~UpdatesOverlap'
      => Balanced'
  BY NextBalanced
<1>3. LoaderInv /\ Balanced => NoLostMemory
  BY BalancedAtRest DEF LoaderInv, MemInv
<1> QED BY <1>1, <1>2, <1>3, LoaderInvariant, PTL
     DEF LostByOverlapOnly, LoaderSpec, loader_vars

(* A P or V in a page of a loaded process names a registered semaphore:    *)
(* sysCall(SEMAPHORE_P) finds what it looks for.                           *)
THEOREM LoaderKnowsSemaphores == LoaderSpec => []SemaphoresAreKnown
<1>1. LoaderInv => SemaphoresAreKnown
  BY DEF LoaderInv
<1> QED BY <1>1, LoaderInvariant, PTL

(* The CPU that fetches from the pages of a process finds the instructions *)
(* of its file in their order, and after them nothing anybody has written, *)
(* whatever was parsed, loaded, swapped and freed before.                  *)
THEOREM LoaderHoldsThePrograms == LoaderSpec => []PagesHoldTheProgram
<1>1. LoaderInv /\ PagesInv => PagesHoldTheProgram
  <2> SUFFICES ASSUME LoaderInv, PagesInv, NEW p \in Process, Loaded(p), WellFormed(p)
               PROVE  /\ \A j \in Program(p) :
                           LET line == File[p].lines[j]
                               instr == text[p][slot_of(Before(Program(p), j))]
                           IN  /\ instr.arg = line.arg
                               /\ line.op \in Known \cup {"P", "V"} => instr.op = line.op
                      /\ \A i \in Cardinality(Program(p))..(CodeLen[p] - 1) :
                           text[p][slot_of(i)] = UNSET
    BY DEF PagesHoldTheProgram
  <2>1. CodeLen[p] \in Nat /\ Len(File[p].lines) \in Nat /\ File[p].newline
    BY MemoryAssumption, FileAssumption DEF WellFormed
  <2>2. Program(p) = instr_lines(p)
    <3>1. CASE sem_line(p) = blank
      BY <2>1, <3>1 DEF Program, instr_lines, code_section, head_lines
    <3>2. CASE sem_line(p) # blank
      <4>1. File[p].lines[2] = blank /\ head_lines(p) = 2
        BY <3>2 DEF WellFormed, head_lines
      <4>2. \A j \in 2..Len(File[p].lines) :
               File[p].lines[j] # blank => j \in 3..Len(File[p].lines)
        BY <2>1, <4>1
      <4> QED BY <2>1, <4>1, <4>2 DEF Program, instr_lines, code_section
    <3> QED BY <3>1, <3>2
  <2>3. \A i \in 0..(CodeLen[p] - 1) : text[p][slot_of(i)] = read_code(p)[i + 1]
    BY DEF PagesInv
  <2>4. ASSUME NEW j \in instr_lines(p)
        PROVE  text[p][slot_of(Before(instr_lines(p), j))] = instr_parse(p, j)
    BY <2>3, <2>4, ReadCodePlaces
  <2>5. ASSUME NEW j \in instr_lines(p)
        PROVE  /\ instr_parse(p, j).arg = File[p].lines[j].arg
               /\ File[p].lines[j].op \in Known \cup {"P", "V"} =>
                    instr_parse(p, j).op = File[p].lines[j].op
    BY <2>1 DEF instr_parse, name_read
  <2>6. ASSUME NEW i \in Cardinality(instr_lines(p))..(CodeLen[p] - 1)
        PROVE  text[p][slot_of(i)] = UNSET
    <3>1. i \in 0..(CodeLen[p] - 1)
      BY <2>1, <2>6, InstrLines
    <3> QED BY <2>3, <3>1, ReadCodePlaces
  <2> QED BY <2>2, <2>4, <2>5, <2>6
<1> QED BY <1>1, PagesInvariant, PTL

(* The second-chance pass frees what a load needs if the unused pages are  *)
(* enough, and beyond it less than a page for each segment: the break that *)
(* leaves only the inner loop costs no more.                               *)
THEOREM LoaderSwapsEnough == LoaderSpec => SwapFreesEnough
<1>1. ASSUME LoaderInv, [LoaderNext]_loader_vars, mem_vars' # mem_vars,
             loading.at = "swap", loading'.at = "sum"
      PROVE  LET size == loading.seg.size
                 freed == loading'.value - mem_remaining
             IN  /\ PAGE_SIZE * Cardinality(Unused(seg_list)) >= size => freed >= size
                 /\ freed < size + PAGE_SIZE * (Len(seg_list) + 1)
  <2>1. load_swap
    <3>1. PICK p \in Process :
            process_create(p) \/ load(p) \/ fetch(p) \/ process_finish(p)
      BY <1>1 DEF loader_vars, LoaderNext
    <3>2. ~process_create(p)
      BY <1>1 DEF process_create
    <3>3. ~fetch(p) /\ ~process_finish(p)
      BY <1>1 DEF fetch, set_used, process_finish, segment_free, free_begin, free_read, free_write
    <3>4. mem_req_load(p)
      BY <3>1, <3>2, <3>3 DEF load
    <3> QED BY <1>1, <3>4 DEF mem_req_load, load_begin, load_write, load_sum, no_call, segment_add
  <2> QED BY <1>1, <2>1, SwapMem DEF LoaderInv
<1>2. LoaderInv /\ [LoaderNext]_loader_vars =>
        [loading.at = "swap" /\ loading'.at = "sum" =>
           LET size == loading.seg.size
               freed == loading'.value - mem_remaining
           IN  /\ PAGE_SIZE * Cardinality(Unused(seg_list)) >= size => freed >= size
               /\ freed < size + PAGE_SIZE * (Len(seg_list) + 1)
        ]_mem_vars
  BY <1>1
<1> QED BY <1>2, LoaderInvariant, PTL DEF SwapFreesEnough, LoaderSpec, loader_vars
=============================================================================
