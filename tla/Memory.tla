------------------------------- MODULE Memory -------------------------------
(***************************************************************************)
(* The segment table, memory/memory.c.  Each process gets one segment when *)
(* it is loaded.  When the memory left is too small, the second-chance     *)
(* pass over the pages of the other segments finds pages to unload; the    *)
(* simulator only counts what they free.                                   *)
(***************************************************************************)
EXTENDS Integers, Sequences, SequencesExt, FiniteSetsExt

CONSTANTS
    Process,
    SegId,            \* the segment id of each process
    SegSize,          \* the size its program file asks for
    CodeLen,          \* the length of its code
    MAX_MEM_SIZE,
    PAGE_SIZE,
    INSTRUCTIONS_PER_PAGE

(* The README: the segment identifier must be unique.                      *)
ASSUME SegIdAssumption ==
    \A p, q \in Process : SegId[p] = SegId[q] => p = q
ASSUME MemoryAssumption ==
    /\ SegSize \in [Process -> Nat]
    /\ CodeLen \in [Process -> Nat]
    /\ MAX_MEM_SIZE \in Nat
    /\ PAGE_SIZE \in Nat \ {0}
    /\ INSTRUCTIONS_PER_PAGE \in Nat \ {0}

VARIABLES
    seg_list,        \* segment_table_t.seg_list
    mem_remaining,   \* segment_table_t.remaining
    loading,         \* the call of mem_req_load that is under way
    freeing          \* the call of segment_free that is under way

mem_vars == <<seg_list, mem_remaining, loading, freeing>>

MAXIMUM(a, b) == IF a >= b THEN a ELSE b

no_call == [at |-> "none"]

segment_table_init ==
    /\ seg_list = <<>>
    /\ mem_remaining = MAX_MEM_SIZE
    /\ loading = no_call
    /\ freeing = no_call

-----------------------------------------------------------------------------
(* A segment holds the code of the process `code', and a used bit for each *)
(* of its pages.                                                           *)
PageCount(p) == (CodeLen[p] + INSTRUCTIONS_PER_PAGE - 1) \div INSTRUCTIONS_PER_PAGE

segment_create(p) ==
    [id |-> SegId[p], size |-> SegSize[p], code |-> p,
     used |-> [i \in 1..PageCount(p) |-> FALSE]]

(* The position of the first segment with that id, 0 if there is none.     *)
segment_find(sid) ==
    SelectInSeq(seg_list, LAMBDA seg : seg.id = sid)

-----------------------------------------------------------------------------
(* memory_page_swap *)

(* A page is named by the place of its segment and its own number.         *)
Pages(list) == UNION {{i} \X DOMAIN list[i].used : i \in DOMAIN list}
Unused(list) == {page \in Pages(list) : ~list[page[1]].used[page[2]]}

UnusedBefore(list, page) ==
    {other \in Unused(list) : \/ other[1] < page[1]
                              \/ other[1] = page[1] /\ other[2] < page[2]}

(* The pages the pass looks at.  The break that follows a sufficient page  *)
(* leaves the inner loop: the pass still looks at the first page of each   *)
(* later segment.                                                          *)
visited_pages(list, size) ==
    {page \in Pages(list) :
        page[2] = 1 \/ PAGE_SIZE * Cardinality(UnusedBefore(list, page)) < size}

(* Of the pages the pass looks at, the used ones lose their bit, and the   *)
(* others count as freed.                                                  *)
memory_page_swap(list, size) ==
    LET visited == visited_pages(list, size)
    IN  [freed |-> PAGE_SIZE * Cardinality(Unused(list) \cap visited),
         segs  |-> [i \in DOMAIN list |->
                      [list[i] EXCEPT !.used =
                         [j \in DOMAIN @ |-> @[j] /\ <<i, j>> \notin visited]]]]

-----------------------------------------------------------------------------
(* `remaining' is read and written without a lock, by mem_req_load on the  *)
(* terminal thread and by segment_free on the CPU thread.  So each of them *)
(* has a step for every read of it and one for every write; the record of  *)
(* the call holds what the thread has read and not yet written.            *)

load_begin(p) ==
    LET seg == segment_create(p)
    IN  /\ loading = no_call
        /\ loading' = [at |-> "write", seg |-> seg, value |-> mem_remaining - seg.size]
        /\ UNCHANGED <<seg_list, mem_remaining, freeing>>

(* segment_populate and segment_add end the call.                          *)
segment_add == seg_list' = Append(seg_list, loading.seg) /\ loading' = no_call

(* Mutant: what is left may go below zero.                                 *)
load_writeUnbounded ==
    /\ loading.at = "write"
    /\ mem_remaining' = loading.value
    /\ IF loading.value < 0
         THEN loading' = [loading EXCEPT !.at = "swap"] /\ UNCHANGED seg_list
         ELSE segment_add
    /\ UNCHANGED freeing

load_write ==
    /\ loading.at = "write"
    /\ mem_remaining' = MAXIMUM(0, loading.value)
    /\ IF loading.value < 0
         THEN loading' = [loading EXCEPT !.at = "swap"] /\ UNCHANGED seg_list
         ELSE segment_add
    /\ UNCHANGED freeing

(* Mutant: what the pass has freed is not added.                           *)
load_swapAddsNothing ==
    /\ loading.at = "swap"
    /\ seg_list' = memory_page_swap(seg_list, loading.seg.size).segs
    /\ loading' = [loading EXCEPT !.at = "sum", !.value = mem_remaining]
    /\ UNCHANGED <<mem_remaining, freeing>>

(* Whether `remaining' is read before the pass or after it is up to the    *)
(* compiler.                                                               *)
load_swap ==
    LET pass == memory_page_swap(seg_list, loading.seg.size)
    IN  /\ loading.at = "swap"
        /\ seg_list' = pass.segs
        /\ loading' = [loading EXCEPT !.at = "sum", !.value = mem_remaining + pass.freed]
        /\ UNCHANGED <<mem_remaining, freeing>>

load_sum ==
    /\ loading.at = "sum"
    /\ mem_remaining' = loading.value
    /\ segment_add
    /\ UNCHANGED freeing

mem_req_load(p) == load_begin(p) \/ load_write \/ load_swap \/ load_sum

(* Mutant: what the swaps have counted is not cut off.                     *)
free_beginUncut(sid) ==
    LET i == segment_find(sid)
    IN  /\ freeing = no_call /\ i # 0
        /\ seg_list' = RemoveAt(seg_list, i)
        /\ freeing' = [at |-> "read", value |-> seg_list[i].size]
        /\ UNCHANGED <<mem_remaining, loading>>

(* Mutant: the first segment of the list is freed, whatever its id.        *)
free_beginFirst(sid) ==
    LET i == segment_find(sid)
        size == seg_list[1].size
    IN  /\ freeing = no_call /\ i # 0
        /\ seg_list' = Tail(seg_list)
        /\ freeing' = IF MAX_MEM_SIZE <= mem_remaining + size
                        THEN [at |-> "write", value |-> MAX_MEM_SIZE]
                        ELSE [at |-> "read", value |-> size]
        /\ UNCHANGED <<mem_remaining, loading>>

(* MIN is a macro: it reads `remaining' to compare, and again for the sum. *)
free_begin(sid) ==
    LET i == segment_find(sid)
        size == seg_list[i].size
    IN  /\ freeing = no_call /\ i # 0
        /\ seg_list' = RemoveAt(seg_list, i)
        /\ freeing' = IF MAX_MEM_SIZE <= mem_remaining + size
                        THEN [at |-> "write", value |-> MAX_MEM_SIZE]
                        ELSE [at |-> "read", value |-> size]
        /\ UNCHANGED <<mem_remaining, loading>>

free_read ==
    /\ freeing.at = "read"
    /\ freeing' = [at |-> "write", value |-> mem_remaining + freeing.value]
    /\ UNCHANGED <<seg_list, mem_remaining, loading>>

free_write ==
    /\ freeing.at = "write"
    /\ mem_remaining' = freeing.value
    /\ freeing' = no_call
    /\ UNCHANGED <<seg_list, loading>>

segment_free(sid) == free_begin(sid) \/ free_read \/ free_write

(* cpu.c: the CPU fetches the instruction pc (from 0) of segment i and     *)
(* sets the used bit of its page.  The array of pages is not checked: past *)
(* its end there is no bit to set.                                         *)
set_used(i, pc) ==
    LET page == pc \div INSTRUCTIONS_PER_PAGE + 1
    IN  /\ seg_list' = IF page \in DOMAIN seg_list[i].used
                         THEN [seg_list EXCEPT ![i].used[page] = TRUE]
                         ELSE seg_list
        /\ UNCHANGED <<mem_remaining, loading, freeing>>

-----------------------------------------------------------------------------
(* Properties *)

Loaded(p) == \E i \in DOMAIN seg_list : seg_list[i].code = p

Segment == [id : {SegId[p] : p \in Process}, size : Nat, code : Process,
            used : Seq(BOOLEAN)]

MemTypeOK ==
    /\ seg_list \in Seq(Segment)
    /\ mem_remaining \in Nat
    /\ loading \in {no_call} \cup [at : {"write", "swap"}, seg : Segment, value : Int]
                               \cup [at : {"sum"}, seg : Segment, value : Nat]
    /\ freeing \in {no_call} \cup [at : {"read", "write"}, value : Nat]

(* What the segments hold, unit by unit.                                   *)
Held(list) == UNION {{i} \X (1..list[i].size) : i \in DOMAIN list}
Allocated == Cardinality(Held(seg_list))

(* memory.c: the freed memory is summed to what is available.  Whenever no *)
(* call is under way, what is left and what the segments hold make up the  *)
(* whole memory at least, and all of it is left when there is no segment.  *)
NoLostMemory ==
    loading = no_call /\ freeing = no_call =>
        /\ mem_remaining + Allocated >= MAX_MEM_SIZE
        /\ seg_list = <<>> => mem_remaining = MAX_MEM_SIZE

(* A load has read what is left, and not yet written it, while a segment   *)
(* is freed: one of the two overwrites what the other has written.         *)
UpdatesOverlap == loading.at \in {"write", "sum"} /\ freeing # no_call

(* Only an overlap of two updates loses memory, and nothing else does: not *)
(* the pass, which counts pages that are not given back, and not the end   *)
(* of a process in the middle of a pass.                                   *)
LostByOverlapOnly == []~UpdatesOverlap => []NoLostMemory

(* The pass of a load that does not fit finds what it needs if the pages   *)
(* without a second chance are enough for it; and though it looks at a     *)
(* page of each later segment when it has enough, it frees less than one   *)
(* page for each segment beyond what it needs.                             *)
SwapFreesEnough ==
    [][loading.at = "swap" /\ loading'.at = "sum" =>
         LET size == loading.seg.size
             freed == loading'.value - mem_remaining
         IN  /\ PAGE_SIZE * Cardinality(Unused(seg_list)) >= size => freed >= size
             /\ freed < size + PAGE_SIZE * (Len(seg_list) + 1)
      ]_mem_vars
=============================================================================
