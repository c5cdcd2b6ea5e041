------------------------------ MODULE MCLoader ------------------------------
(* Four program files: one as the README has it, with a blank line in its  *)
(* code; one without semaphores, with an operation nobody knows; one       *)
(* without the blank line and without the newline at its end; one with an  *)
(* operation and no operand.  Three of them do not fit into the memory.    *)
EXTENDS Loader, TLC

CONSTANTS p1, p2, p3, p4, s, st, r1, r2, r3

MCCut == (s :> s) @@ (st :> s)

I(op, arg) == [op |-> op, arg |-> arg]

MCFile ==
    (p1 :> [newline |-> TRUE,
            lines |-> <<I("names", <<s, st>>), blank, I("P", st), blank, I("read", 1), I("V", st)>>])
 @@ (p2 :> [newline |-> TRUE,
            lines |-> <<blank, I("exec", 2), I("jump", 1), I("print", 3)>>])
 @@ (p3 :> [newline |-> FALSE,
            lines |-> <<I("names", <<st>>), I("exec", 1), I("V", st)>>])
 @@ (p4 :> [newline |-> TRUE, lines |-> <<blank, I("bare", NULL)>>])

MCCodeLen == (p1 :> 4) @@ (p2 :> 3) @@ (p3 :> 1) @@ (p4 :> 1)
MCSegId == (p1 :> 1) @@ (p2 :> 2) @@ (p3 :> 3) @@ (p4 :> 4)
MCSegSize == (p1 :> 2) @@ (p2 :> 1) @@ (p3 :> 2) @@ (p4 :> 1)
-----------------------------------------------------------------------------
(* The pass over the pages as memory.c writes it, two loops with a break   *)
(* in the inner one, against its definition in Memory, for all lists of up *)
(* to three segments of up to three pages.                                 *)

look_at(pass, list, i, j, size) ==
    LET freed == pass.freed + IF list[i].used[j] THEN 0 ELSE PAGE_SIZE
    IN  IF pass.broken THEN pass
        ELSE [freed |-> freed, broken |-> freed >= size,
              segs |-> [pass.segs EXCEPT ![i].used[j] = FALSE]]

pages_loop(pass, list, i, size) ==
    FoldLeft(LAMBDA x, j : look_at(x, list, i, j, size),
             [pass EXCEPT !.broken = FALSE], [j \in DOMAIN list[i].used |-> j])

segments_loop(list, size) ==
    FoldLeft(LAMBDA x, i : pages_loop(x, list, i, size),
             [freed |-> 0, broken |-> FALSE, segs |-> list], [i \in DOMAIN list |-> i])

UsedBits == UNION {[1..n -> BOOLEAN] : n \in 0..3}
Lists == {<<>>} \cup UNION {[1..n -> [used : UsedBits]] : n \in 1..3}

ASSUME PassIsTheLoop ==
    \A list \in Lists, size \in 0..5 :
        LET pass == memory_page_swap(list, size)
            loop == segments_loop(list, size)
        IN  pass.freed = loop.freed /\ pass.segs = loop.segs

-----------------------------------------------------------------------------
(* The places Loader gives the instructions against the loop of read_code, *)
(* which passes over the blank lines and puts each other line behind the   *)
(* last one.                                                               *)
ASSUME PlacesAreTheLoop ==
    \A p \in Process :
        LET section == SubSeq(File[p].lines, head_lines(p) + 1, Len(File[p].lines))
            loop == SelectSeq(section, LAMBDA line : line # blank)
        IN  /\ Len(loop) = Cardinality(instr_lines(p))
            /\ \A j \in instr_lines(p) :
                  loop[Before(instr_lines(p), j) + 1] = File[p].lines[j]
=============================================================================
