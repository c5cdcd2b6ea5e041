------------------------------- MODULE Loader -------------------------------
(***************************************************************************)
(* From a program file to the pages of a segment: process_create parses    *)
(* the file, process/process.c and process/instruction.c, and the memory   *)
(* copies the code into the pages from which the CPU fetches it; at its    *)
(* end process_finish frees what the process was given.                    *)
(*                                                                         *)
(* A file is its lines after the four numbers of its head.  The first of   *)
(* them lists semaphores or is blank; the others are instructions          *)
(* [op, arg] or blank.  The last one may lack its newline.                 *)
(***************************************************************************)
EXTENDS Memory

CONSTANTS
    NULL, UNSET,      \* no pointer, and memory the parser has not written
    Name,             \* semaphore names
    Cut,              \* a name without its last character
    File,             \* the program file of each process
    Record            \* the blocks malloc gives for a process_t

blank == [op |-> "blank", arg |-> NULL]
Known == {"exec", "read", "write", "print"}

(* The first line lists semaphores or is blank: the program asks for no    *)
(* line in between.  read_code counts every line after the head, the blank *)
(* ones included.                                                          *)
sem_line(p) == File[p].lines[1]
head_lines(p) == IF sem_line(p) = blank THEN 1 ELSE 2
code_section(p) == (head_lines(p) + 1)..Len(File[p].lines)

ASSUME LoaderAssumption ==
    NULL \notin Process \cup Record /\ UNSET \notin Known \cup {"P", "V"}

ASSUME FileAssumption ==
    \A p \in Process :
      /\ \/ sem_line(p) = blank
         \/ sem_line(p).op = "names" /\ sem_line(p).arg \in Seq(Name)
      /\ Len(File[p].lines) \in Nat
      /\ CodeLen[p] = Cardinality(code_section(p))

VARIABLES
    parsing,       \* the process the terminal thread has parsed and not loaded
    sem_names,     \* the names in the semaphore table
    code,          \* the array of the memory request that is being made
    text,          \* the contents of the pages of the segment
    finishing,     \* the process the CPU thread is about to free
    record,        \* where the process_t of a process is, NULL if it has none
    semaphores,    \* the field of a record: the process whose array it points to
    allocated,     \* the processes whose array of names is not freed
    halted         \* the simulator has ended

load_vars == <<parsing, sem_names, code, text, finishing, record, semaphores, allocated,
               halted>>

LoaderInit ==
    /\ segment_table_init
    /\ parsing = NULL
    /\ sem_names = {}
    /\ code = <<>>
    /\ text = [p \in Process |-> <<>>]
    /\ finishing = NULL
    /\ record = [p \in Process |-> NULL]
    /\ semaphores = [r \in Record |-> NULL]
    /\ allocated = {}
    /\ halted = FALSE

-----------------------------------------------------------------------------
(* Parsing *)

(* The name of a P or V loses two characters, the bracket and the newline; *)
(* where there is no newline, the last character of the name.              *)
name_read(p, j) ==
    LET name == File[p].lines[j].arg
    IN  IF ~File[p].newline /\ j = Len(File[p].lines) THEN Cut[name] ELSE name

(* An operation the parser does not know leaves op as it was.              *)
instr_parse(p, j) ==
    LET line == File[p].lines[j]
    IN  [op  |-> IF line.op \in Known \cup {"P", "V"} THEN line.op ELSE UNSET,
         arg |-> IF line.op \in {"P", "V"} THEN name_read(p, j) ELSE line.arg]

(* Mutant: the parser takes any name.                                      *)
parse_exitsNever(p, j, names) == File[p].lines[j].op = "bare"

(* exit(0) for a semaphore that is not registered; and an instruction      *)
(* without an operand passes NULL to atoi.                                 *)
parse_exits(p, j, names) ==
    \/ File[p].lines[j].op \in {"P", "V"} /\ name_read(p, j) \notin names
    \/ File[p].lines[j].op = "bare"

instr_lines(p) == {j \in code_section(p) : File[p].lines[j] # blank}

(* One place for each line; the instructions take the first of them, each  *)
(* behind those of the lines before it.                                    *)
Before(lines, j) == Cardinality({k \in lines : k < j})

(* Mutant: a blank line is parsed into a place of its own.                 *)
read_codeBlanks(p) == [i \in 1..CodeLen[p] |-> instr_parse(p, head_lines(p) + i)]

read_code(p) ==
    [i \in 1..CodeLen[p] |->
       LET here == {j \in instr_lines(p) : Before(instr_lines(p), j) = i - 1}
       IN  IF here = {} THEN UNSET ELSE instr_parse(p, CHOOSE j \in here : TRUE)]

read_semaphores(p) ==
    IF sem_line(p) = blank THEN {} ELSE ToSet(sem_line(p).arg)

(* malloc gives a block that is free, with whatever its last owner left in *)
(* it.  The field of the names is set only if there are names.             *)
process_create(p) ==
    LET names == sem_names \cup read_semaphores(p)
    IN  /\ parsing = NULL /\ record[p] = NULL
        /\ IF \E j \in instr_lines(p) : parse_exits(p, j, names)
             THEN /\ halted' = TRUE
                  /\ UNCHANGED <<parsing, sem_names, code, record, semaphores, allocated>>
             ELSE /\ \E r \in Record \ {record[q] : q \in Process} :
                       /\ record' = [record EXCEPT ![p] = r]
                       /\ semaphores' = IF sem_line(p) = blank THEN semaphores
                                        ELSE [semaphores EXCEPT ![r] = p]
                  /\ allocated' = IF sem_line(p) = blank THEN allocated
                                  ELSE allocated \cup {p}
                  /\ parsing' = p
                  /\ sem_names' = names
                  /\ code' = read_code(p)
                  /\ UNCHANGED halted
        /\ UNCHANGED <<text, finishing, mem_vars>>

-----------------------------------------------------------------------------
(* Loading, fetching, finishing *)

PAGE_NUMBER(i) == i \div INSTRUCTIONS_PER_PAGE
PAGE_OFFSET(i) == i % INSTRUCTIONS_PER_PAGE

slot_of(i) == <<PAGE_NUMBER(i), PAGE_OFFSET(i)>>

segment_populate(p) ==
    [slot \in (0..(PageCount(p) - 1)) \X (0..(INSTRUCTIONS_PER_PAGE - 1)) |->
       IF \E i \in DOMAIN code : slot = slot_of(i - 1)
         THEN code[CHOOSE i \in DOMAIN code : slot = slot_of(i - 1)]
         ELSE UNSET]

(* The pages have their code when the segment is in the list.              *)
load(p) ==
    /\ parsing = p
    /\ mem_req_load(p)
    /\ IF loading' = no_call
         THEN /\ text' = [text EXCEPT ![p] = segment_populate(p)]
              /\ parsing' = NULL /\ code' = <<>>
         ELSE UNCHANGED <<text, parsing, code>>
    /\ UNCHANGED <<sem_names, finishing, record, semaphores, allocated, halted>>

fetch(p) ==
    /\ Loaded(p) /\ finishing = NULL
    /\ \E pc \in 0..(CodeLen[p] - 1) : set_used(segment_find(SegId[p]), pc)
    /\ UNCHANGED load_vars

(* Freeing the segment takes several steps.  With the last of them goes    *)
(* what process_finish frees after it; an array that is freed twice may    *)
(* end the simulator.                                                      *)
process_finish(p) ==
    LET array == semaphores[record[p]]
    IN  /\ IF finishing = NULL THEN Loaded(p) ELSE finishing = p
        /\ segment_free(SegId[p])
        /\ IF freeing' # no_call
             THEN finishing' = p /\ UNCHANGED <<text, record, allocated, halted>>
             ELSE /\ finishing' = NULL
                  /\ text' = [text EXCEPT ![p] = <<>>]
                  /\ record' = [record EXCEPT ![p] = NULL]
                  /\ allocated' = allocated \ {array}
                  /\ halted' \in IF array \in allocated \cup {NULL} THEN {FALSE} ELSE BOOLEAN
        /\ UNCHANGED <<parsing, sem_names, code, semaphores>>

LoaderNext ==
    /\ ~halted
    /\ \E p \in Process : process_create(p) \/ load(p) \/ fetch(p) \/ process_finish(p)

LoaderSpec == LoaderInit /\ [][LoaderNext]_<<mem_vars, load_vars>>

-----------------------------------------------------------------------------
(* Properties *)

LoaderTypeOK ==
    /\ MemTypeOK
    /\ {parsing, finishing} \subseteq Process \cup {NULL}
    /\ sem_names \subseteq Name
    /\ IF parsing = NULL THEN code = <<>> ELSE Len(code) = CodeLen[parsing]
    /\ record \in [Process -> Record \cup {NULL}]
    /\ semaphores \in [Record -> Process \cup {NULL}]
    /\ allocated \subseteq Process
    /\ halted \in BOOLEAN

(* The format the README gives: a line of semaphores, which may be blank,  *)
(* a blank line if it is not, and instructions that end with a newline.    *)
WellFormed(p) ==
    File[p].newline /\ (sem_line(p) = blank \/ File[p].lines[2] = blank)

(* The instructions of the program.                                        *)
Program(p) == {j \in 2..Len(File[p].lines) : File[p].lines[j] # blank}

(* Whatever was loaded, swapped and freed before, the CPU that fetches     *)
(* from the pages 0, 1, 2, ... of a process executes the instructions of   *)
(* its file in order; the entries that blank lines were counted for follow *)
(* them, and the parser has not written those.                             *)
PagesHoldTheProgram ==
    \A p \in Process : Loaded(p) /\ WellFormed(p) =>
       /\ \A j \in Program(p) :
             LET line == File[p].lines[j]
                 instr == text[p][slot_of(Before(Program(p), j))]
             IN  /\ instr.arg = line.arg
                 /\ line.op \in Known \cup {"P", "V"} => instr.op = line.op
       /\ \A i \in Cardinality(Program(p))..(CodeLen[p] - 1) :
             text[p][slot_of(i)] = UNSET

(* A P or V that is fetched names a semaphore of the table, also where the *)
(* name was cut short: the kernel uses what semaphore_find returns without *)
(* a look at it.                                                           *)
SemaphoresAreKnown ==
    \A p \in Process : Loaded(p) =>
       \A i \in 0..(CodeLen[p] - 1) :
          LET instr == text[p][slot_of(i)]
          IN  instr # UNSET /\ instr.op \in {"P", "V"} => instr.arg \in sem_names

(* process.c:137: process_finish "frees the process allocated memory".     *)
(* The array it frees is its own, or there is none.                        *)
FreesItsOwnNames ==
    [][\A p \in Process :
         process_finish(p) => semaphores[record[p]] \in {p, NULL}]_<<mem_vars, load_vars>>
=============================================================================
