---------------------------- MODULE MemoryProofs ----------------------------
(***************************************************************************)
(* Theorems about the segment table, for any processes, sizes and pages.   *)
(* Memory states no specification of its own: what is proved here of its   *)
(* operations is used where a specification calls them.                    *)
(***************************************************************************)
EXTENDS Memory, FiniteSetTheorems, WellFoundedInduction, TLAPS

-----------------------------------------------------------------------------
(* Sets of numbers, and finite unions *)

LEMMA LeastNumber ==
    ASSUME NEW T \in SUBSET Nat, T # {}
    PROVE  \E n \in T : \A m \in T : n <= m
<1> DEFINE Less == {pair \in Nat \X Nat : pair[1] < pair[2]}
<1>1. IsWellFoundedOn(Less, Nat)
  BY NatLessThanWellFounded DEF OpToRel
<1>2. \E n \in T : \A m \in T : ~(<<m, n>> \in Less)
  <2> HIDE DEF Less
  <2> QED BY <1>1, WFMin
<1>3. \A m, n \in Nat : ~(<<m, n>> \in Less) => n <= m
  <2>1. \A m, n \in Nat : m < n => <<m, n>> \in Less
    OBVIOUS
  <2> QED BY <2>1
<1> HIDE DEF Less
<1> QED BY <1>2, <1>3

(* A set of numbers that stays below a bound has a greatest one.           *)
LEMMA GreatestNumber ==
    ASSUME NEW T \in SUBSET Nat, T # {}, NEW b \in Nat, \A n \in T : n <= b
    PROVE  \E n \in T : \A m \in T : m <= n
<1> DEFINE D == {d \in 0..b : b - d \in T}
<1>1. D \in SUBSET Nat /\ D # {}
  <2>1. PICK n \in T : TRUE
    OBVIOUS
  <2>2. n \in Nat /\ n <= b
    BY <2>1
  <2>3. b - n \in 0..b /\ b - (b - n) = n
    BY <2>2
  <2>4. b - n \in D
    BY <2>1, <2>3
  <2>5. \A d \in D : d \in Nat
    OBVIOUS
  <2> HIDE DEF D
  <2> QED BY <2>4, <2>5
<1>2. PICK d \in D : \A e \in D : d <= e
  BY <1>1, LeastNumber
<1>3. ASSUME NEW m \in T PROVE m <= b - d
  <2>1. m \in Nat /\ m <= b /\ b - m \in 0..b /\ b - (b - m) = m
    BY <1>3
  <2>2. d <= b - m
    BY <1>2, <1>3, <2>1
  <2> QED BY <1>2, <2>1, <2>2
<1> QED BY <1>2, <1>3

LEMMA UpTo ==
    ASSUME NEW n \in Nat
    PROVE  IsFiniteSet(1..n) /\ Cardinality(1..n) = n
<1>1. 1 \in Int /\ n \in Int
  OBVIOUS
<1>2. /\ IsFiniteSet(1..n)
      /\ Cardinality(1..n) = IF 1 > n THEN 0 ELSE n - 1 + 1
  BY <1>1, FS_Interval, Zenon
<1> QED BY <1>2

LEMMA UnionBound ==
    ASSUME NEW A, NEW B, IsFiniteSet(A), IsFiniteSet(B)
    PROVE  /\ IsFiniteSet(A \cup B)
           /\ Cardinality(A) \in Nat /\ Cardinality(B) \in Nat
           /\ Cardinality(A \cup B) \in Nat
           /\ Cardinality(A \cup B) <= Cardinality(A) + Cardinality(B)
           /\ A \cap B = {} => Cardinality(A \cup B) = Cardinality(A) + Cardinality(B)
<1>1. /\ IsFiniteSet(A \cup B)
      /\ Cardinality(A \cup B) = Cardinality(A) + Cardinality(B) - Cardinality(A \cap B)
  BY FS_Union
<1>2. IsFiniteSet(A \cap B)
  BY FS_Intersection
<1>3. /\ Cardinality(A) \in Nat /\ Cardinality(B) \in Nat
      /\ Cardinality(A \cap B) \in Nat /\ Cardinality(A \cup B) \in Nat
  BY <1>1, <1>2, FS_CardinalityType
<1>4. A \cap B = {} => Cardinality(A \cap B) = 0
  BY FS_EmptySet
<1> QED BY <1>1, <1>3, <1>4

(* The union of as many finite sets as a list has places is finite.        *)
LEMMA FiniteFamily ==
    ASSUME NEW n \in Nat, NEW F, \A i \in 1..n : IsFiniteSet(F[i])
    PROVE  IsFiniteSet(UNION {F[i] : i \in 1..n})
<1> DEFINE S == {F[i] : i \in 1..n}
           f == [i \in 1..n |-> F[i]]
<1>1. f \in Surjection(1..n, S)
  <2>1. f \in [1..n -> S] /\ \A T \in S : \E i \in 1..n : f[i] = T
    OBVIOUS
  <2> QED BY <2>1 DEF Surjection
<1>2. IsFiniteSet(1..n)
  BY UpTo
<1>3. IsFiniteSet(S)
  <2> HIDE DEF S, f
  <2> QED BY <1>1, <1>2, FS_Surjection
<1>4. \A T \in S : IsFiniteSet(T)
  OBVIOUS
<1> HIDE DEF S
<1>5. IsFiniteSet(UNION S)
  BY <1>3, <1>4, FS_UNION
<1> QED BY <1>5 DEF S

LEMMA TimesPage ==
    ASSUME NEW a \in Nat, NEW b \in Nat, a <= b
    PROVE  PAGE_SIZE * a \in Nat /\ PAGE_SIZE * a <= PAGE_SIZE * b
BY MemoryAssumption

-----------------------------------------------------------------------------
(* The pages of a list of segments *)

LEMMA SegmentFields ==
    ASSUME NEW list \in Seq(Segment)
    PROVE  /\ Len(list) \in Nat /\ DOMAIN list = 1..Len(list)
           /\ \A i \in DOMAIN list :
                /\ list[i] \in Segment
                /\ list[i].code \in Process
                /\ list[i].size \in Nat
                /\ list[i].used \in Seq(BOOLEAN)
                /\ DOMAIN list[i].used = 1..Len(list[i].used)
                /\ Len(list[i].used) \in Nat
<1>1. \A i \in DOMAIN list : list[i] \in Segment
  OBVIOUS
<1> QED BY <1>1 DEF Segment

LEMMA PageNames ==
    ASSUME NEW list \in Seq(Segment)
    PROVE  /\ \A page \in Pages(list) :
                /\ page = <<page[1], page[2]>>
                /\ page[1] \in DOMAIN list /\ page[1] \in Nat
                /\ page[2] \in DOMAIN list[page[1]].used /\ page[2] \in Nat
           /\ \A i \in DOMAIN list : \A j \in DOMAIN list[i].used : <<i, j>> \in Pages(list)
<1>1. ASSUME NEW page \in Pages(list)
      PROVE  /\ page = <<page[1], page[2]>>
             /\ page[1] \in DOMAIN list /\ page[1] \in Nat
             /\ page[2] \in DOMAIN list[page[1]].used /\ page[2] \in Nat
  <2>1. PICK i \in DOMAIN list : page \in {i} \X DOMAIN list[i].used
    BY <1>1 DEF Pages
  <2>2. i \in Nat /\ DOMAIN list[i].used \subseteq Nat
    BY <2>1, SegmentFields
  <2> QED BY <2>1, <2>2
<1>2. ASSUME NEW i \in DOMAIN list, NEW j \in DOMAIN list[i].used
      PROVE  <<i, j>> \in Pages(list)
  <2>1. <<i, j>> \in {i} \X DOMAIN list[i].used
    BY <1>2
  <2> QED BY <2>1 DEF Pages
<1> QED BY <1>1, <1>2

LEMMA PagesFinite ==
    ASSUME NEW list \in Seq(Segment)
    PROVE  IsFiniteSet(Pages(list))
<1> DEFINE F == [i \in DOMAIN list |-> {i} \X DOMAIN list[i].used]
<1>1. ASSUME NEW i \in 1..Len(list) PROVE IsFiniteSet(F[i])
  <2>1. /\ i \in DOMAIN list
        /\ DOMAIN list[i].used = 1..Len(list[i].used)
        /\ Len(list[i].used) \in Nat
    <3>1. i \in DOMAIN list
      BY SegmentFields
    <3>2. Len(list[i].used) \in Nat /\ DOMAIN list[i].used = 1..Len(list[i].used)
      BY <3>1, SegmentFields
    <3> QED BY <3>1, <3>2
  <2>2. IsFiniteSet({i}) /\ IsFiniteSet(DOMAIN list[i].used)
    BY <2>1, FS_Singleton, UpTo
  <2>3. IsFiniteSet({i} \X DOMAIN list[i].used)
    BY <2>2, FS_Product
  <2> QED BY <2>1, <2>3
<1>2. Pages(list) = UNION {F[i] : i \in 1..Len(list)}
  BY SegmentFields DEF Pages
<1>3. Len(list) \in Nat
  BY SegmentFields
<1> HIDE DEF F
<1> QED BY <1>1, <1>2, <1>3, FiniteFamily

LEMMA UnusedFinite ==
    ASSUME NEW list \in Seq(Segment), NEW T \in SUBSET Unused(list)
    PROVE  IsFiniteSet(T) /\ Cardinality(T) \in Nat
<1>1. T \in SUBSET Pages(list)
  BY DEF Unused
<1> QED BY <1>1, PagesFinite, FS_Subset, FS_CardinalityType

-----------------------------------------------------------------------------
(* The order of the pass *)

LEMMA BeforeIsTotal ==
    ASSUME NEW list \in Seq(Segment), NEW x \in Unused(list), NEW y \in Unused(list)
    PROVE  x = y \/ x \in UnusedBefore(list, y) \/ y \in UnusedBefore(list, x)
<1>1. /\ x = <<x[1], x[2]>> /\ x[1] \in Nat /\ x[2] \in Nat
      /\ y = <<y[1], y[2]>> /\ y[1] \in Nat /\ y[2] \in Nat
  BY PageNames DEF Unused
<1>2. x[1] = y[1] /\ x[2] = y[2] => x = y
  BY <1>1
<1> QED BY <1>1, <1>2 DEF UnusedBefore

(* A later page has more unused ones before it.                            *)
LEMMA BeforeGrows ==
    ASSUME NEW list \in Seq(Segment),
           NEW x \in Pages(list), NEW y \in UnusedBefore(list, x)
    PROVE  /\ y \in Unused(list)
           /\ Cardinality(UnusedBefore(list, y)) \in Nat
           /\ Cardinality(UnusedBefore(list, x)) \in Nat
           /\ Cardinality(UnusedBefore(list, y)) < Cardinality(UnusedBefore(list, x))
<1> DEFINE B(page) == UnusedBefore(list, page)
<1>1. y \in Unused(list) /\ B(x) \subseteq Unused(list) /\ B(y) \subseteq Unused(list)
  BY DEF UnusedBefore
<1>2. /\ x[1] \in Nat /\ x[2] \in Nat
      /\ \A z \in Unused(list) : z[1] \in Nat /\ z[2] \in Nat
  BY PageNames DEF Unused
<1>3. y \notin B(y) /\ B(y) \cup {y} \subseteq B(x)
  BY <1>1, <1>2 DEF UnusedBefore
<1> HIDE DEF B
<1>4. /\ IsFiniteSet(B(x)) /\ Cardinality(B(x)) \in Nat
      /\ IsFiniteSet(B(y)) /\ Cardinality(B(y)) \in Nat
  BY <1>1, UnusedFinite
<1>5. Cardinality(B(y) \cup {y}) = Cardinality(B(y)) + 1
  BY <1>3, <1>4, FS_AddElement
<1>6. Cardinality(B(y) \cup {y}) <= Cardinality(B(x))
  BY <1>3, <1>4, FS_Subset
<1> QED BY <1>1, <1>4, <1>5, <1>6 DEF B

-----------------------------------------------------------------------------
(* What the pass frees *)

(* If the unused pages are enough, the pass finds enough of them: of those *)
(* it leaves out, the first has only visited ones before it, and these     *)
(* were enough.                                                            *)
LEMMA PassFreesEnough ==
    ASSUME NEW list \in Seq(Segment), NEW size \in Nat,
           PAGE_SIZE * Cardinality(Unused(list)) >= size
    PROVE  memory_page_swap(list, size).freed >= size
<1> DEFINE B(page) == UnusedBefore(list, page)
           V == Unused(list) \cap visited_pages(list, size)
           W == Unused(list) \ V
           N == {Cardinality(B(x)) : x \in W}
<1>1. memory_page_swap(list, size).freed = PAGE_SIZE * Cardinality(V)
  BY DEF memory_page_swap
<1>2. /\ IsFiniteSet(V) /\ Cardinality(V) \in Nat
      /\ \A x \in Unused(list) : Cardinality(B(x)) \in Nat
  BY UnusedFinite DEF UnusedBefore
<1>3. CASE W = {}
  <2>1. V = Unused(list)
    BY <1>3
  <2> QED BY <1>1, <2>1
<1>4. CASE W # {}
  <2>1. N \in SUBSET Nat /\ N # {}
    BY <1>2, <1>4
  <2>2. PICK x \in W : \A y \in W : Cardinality(B(x)) <= Cardinality(B(y))
    <3> HIDE DEF W, B
    <3>1. PICK n \in N : \A m \in N : n <= m
      <4> HIDE DEF N
      <4> QED BY <2>1, LeastNumber
    <3> QED BY <3>1
  <2>3. /\ x \in Unused(list) /\ x \in Pages(list)
        /\ ~(PAGE_SIZE * Cardinality(B(x)) < size)
    BY <2>2 DEF Unused, visited_pages
  <2>4. ASSUME NEW y \in B(x) PROVE y \in V
    <3>1. /\ y \in Unused(list)
          /\ Cardinality(B(y)) \in Nat /\ Cardinality(B(x)) \in Nat
          /\ Cardinality(B(y)) < Cardinality(B(x))
      BY <2>3, <2>4, BeforeGrows
    <3>2. y \notin W
      BY <2>2, <3>1
    <3> QED BY <3>1, <3>2
  <2> HIDE DEF B, V, W
  <2>5. Cardinality(B(x)) \in Nat /\ Cardinality(B(x)) <= Cardinality(V)
    BY <1>2, <2>3, <2>4, FS_Subset
  <2>6. /\ PAGE_SIZE * Cardinality(B(x)) \in Nat
        /\ PAGE_SIZE * Cardinality(B(x)) <= PAGE_SIZE * Cardinality(V)
        /\ PAGE_SIZE * Cardinality(V) \in Nat
    BY <1>2, <2>5, TimesPage
  <2> QED BY <1>1, <2>3, <2>6
<1> QED BY <1>3, <1>4

(* What was needed, a page, and one more for each segment.  Of the pages   *)
(* visited with less than what is needed before them, all are before the   *)
(* last one.                                                               *)
LEMMA PassFreesNoMore ==
    ASSUME NEW list \in Seq(Segment), NEW size \in Nat
    PROVE  /\ memory_page_swap(list, size).freed \in Nat
           /\ memory_page_swap(list, size).freed < size + PAGE_SIZE * (Len(list) + 1)
<1> DEFINE B(page) == UnusedBefore(list, page)
           V == Unused(list) \cap visited_pages(list, size)
           Short == {x \in Unused(list) : PAGE_SIZE * Cardinality(B(x)) < size}
           First == {x \in Unused(list) : x[2] = 1}
           N == {Cardinality(B(x)) : x \in Short}
<1>1. memory_page_swap(list, size).freed = PAGE_SIZE * Cardinality(V)
  BY DEF memory_page_swap
<1>2. V \subseteq Short \cup First
  BY DEF visited_pages
<1>3. /\ IsFiniteSet(V) /\ Cardinality(V) \in Nat
      /\ IsFiniteSet(Short) /\ Cardinality(Short) \in Nat
      /\ IsFiniteSet(First) /\ Cardinality(First) \in Nat
      /\ IsFiniteSet(Short \cup First) /\ Cardinality(Short \cup First) \in Nat
  <2>1. V \subseteq Unused(list) /\ Short \cup First \subseteq Unused(list)
    OBVIOUS
  <2> HIDE DEF V, Short, First
  <2> QED BY <2>1, UnusedFinite
<1>4. \A x \in Unused(list) : IsFiniteSet(B(x)) /\ Cardinality(B(x)) \in Nat
  BY UnusedFinite DEF UnusedBefore
<1>5. Len(list) \in Nat
  BY SegmentFields
<1>6. Cardinality(First) <= Len(list)
  <2> DEFINE f == [x \in First |-> x[1]]
  <2>1. ASSUME NEW x \in First PROVE x = <<x[1], 1>> /\ x[1] \in 1..Len(list)
    BY <2>1, PageNames, SegmentFields DEF Unused
  <2>2. f \in Injection(First, 1..Len(list))
    <3>1. f \in [First -> 1..Len(list)]
      <4> HIDE DEF First
      <4> QED BY <2>1
    <3>2. \A x, y \in First : f[x] = f[y] => x = y
      <4>1. \A x \in First : x = <<f[x], 1>>
        <5> HIDE DEF First
        <5> QED BY <2>1
      <4> HIDE DEF First, f
      <4> QED BY <4>1
    <3> HIDE DEF First, f
    <3> QED BY <3>1, <3>2 DEF Injection, IsInjective
  <2>3. IsFiniteSet(1..Len(list)) /\ Cardinality(1..Len(list)) = Len(list)
    BY <1>5, UpTo
  <2> HIDE DEF First, f
  <2> QED BY <2>2, <2>3, FS_Injection
<1>7. PAGE_SIZE * Cardinality(Short) < size + PAGE_SIZE
  <2>1. CASE Short = {}
    <3>1. Cardinality(Short) = 0
      BY <2>1, FS_EmptySet
    <3> HIDE DEF Short
    <3> QED BY <3>1, MemoryAssumption
  <2>2. CASE Short # {}
    <3>1. N \in SUBSET Nat /\ N # {}
      BY <1>4, <2>2
    <3>2. \A n \in N : n <= size
      <4>1. \A n \in Nat : PAGE_SIZE * n < size => n <= size
        BY MemoryAssumption
      <4> QED BY <1>4, <4>1
    <3>3. PICK x \in Short : \A y \in Short : Cardinality(B(y)) <= Cardinality(B(x))
      <4> HIDE DEF Short, B
      <4>1. PICK n \in N : \A m \in N : m <= n
        <5> HIDE DEF N
        <5> QED BY <3>1, <3>2, GreatestNumber
      <4> QED BY <4>1
    <3>4. ASSUME NEW y \in Short PROVE y \in B(x) \cup {x}
      <4>1. x \in B(y) => Cardinality(B(x)) < Cardinality(B(y))
        BY BeforeGrows DEF Unused
      <4>2. Cardinality(B(y)) <= Cardinality(B(x))
        BY <3>3, <3>4
      <4>3. x = y \/ x \in B(y) \/ y \in B(x)
        BY BeforeIsTotal
      <4> QED BY <1>4, <4>1, <4>2, <4>3
    <3>5. /\ x \in Unused(list) /\ PAGE_SIZE * Cardinality(B(x)) < size
      BY <3>3
    <3> HIDE DEF Short, B
    <3>6. /\ IsFiniteSet(B(x) \cup {x})
          /\ Cardinality(B(x) \cup {x}) \in Nat
          /\ Cardinality(B(x) \cup {x}) <= Cardinality(B(x)) + 1
      <4>1. IsFiniteSet({x}) /\ Cardinality({x}) = 1
        BY FS_Singleton
      <4> QED BY <1>4, <3>5, <4>1, UnionBound
    <3>7. Cardinality(Short) <= Cardinality(B(x)) + 1
      <4>1. Short \subseteq B(x) \cup {x}
        BY <3>4
      <4>2. Cardinality(Short) <= Cardinality(B(x) \cup {x})
        BY <3>6, <4>1, FS_Subset
      <4> QED BY <1>3, <1>4, <3>5, <3>6, <4>2
    <3>8. PAGE_SIZE * Cardinality(Short) <= PAGE_SIZE * (Cardinality(B(x)) + 1)
      BY <1>3, <1>4, <3>5, <3>7, TimesPage
    <3>9. PAGE_SIZE * (Cardinality(B(x)) + 1) = PAGE_SIZE * Cardinality(B(x)) + PAGE_SIZE
      BY <1>4, <3>5, MemoryAssumption
    <3>10. PAGE_SIZE * Cardinality(Short) \in Nat /\ PAGE_SIZE * Cardinality(B(x)) \in Nat
      BY <1>3, <1>4, <3>5, TimesPage
    <3>11. PAGE_SIZE \in Nat
      BY MemoryAssumption
    <3> QED BY <3>5, <3>8, <3>9, <3>10, <3>11
  <2> QED BY <2>1, <2>2
<1> HIDE DEF V, Short, First
<1>8. Cardinality(V) <= Cardinality(Short) + Len(list)
  <2>1. Cardinality(V) <= Cardinality(Short \cup First)
    BY <1>2, <1>3, FS_Subset
  <2>2. Cardinality(Short \cup First) <= Cardinality(Short) + Cardinality(First)
    BY <1>3, UnionBound
  <2> QED BY <1>3, <1>5, <1>6, <2>1, <2>2
<1>9. PAGE_SIZE * Cardinality(V) <= PAGE_SIZE * (Cardinality(Short) + Len(list))
  BY <1>3, <1>5, <1>8, TimesPage
<1>10. PAGE_SIZE * (Cardinality(Short) + Len(list)) < size + PAGE_SIZE * (Len(list) + 1)
  BY <1>3, <1>5, <1>7, MemoryAssumption
<1>11. PAGE_SIZE * Cardinality(V) \in Nat
  BY <1>3, TimesPage
<1> QED BY <1>1, <1>3, <1>5, <1>9, <1>10, <1>11, MemoryAssumption

-----------------------------------------------------------------------------
(* What the segments hold *)

LEMMA UnitNames ==
    ASSUME NEW list \in Seq(Segment)
    PROVE  /\ \A u \in Held(list) :
                u = <<u[1], u[2]>> /\ u[1] \in DOMAIN list /\ u[2] \in 1..list[u[1]].size
           /\ \A i \in DOMAIN list : \A b \in 1..list[i].size : <<i, b>> \in Held(list)
<1>1. ASSUME NEW u \in Held(list)
      PROVE  u = <<u[1], u[2]>> /\ u[1] \in DOMAIN list /\ u[2] \in 1..list[u[1]].size
  <2>1. PICK i \in DOMAIN list : u \in {i} \X (1..list[i].size)
    BY <1>1 DEF Held
  <2> QED BY <2>1
<1>2. ASSUME NEW i \in DOMAIN list, NEW b \in 1..list[i].size
      PROVE  <<i, b>> \in Held(list)
  <2>1. <<i, b>> \in {i} \X (1..list[i].size)
    BY <1>2
  <2> QED BY <2>1 DEF Held
<1> QED BY <1>1, <1>2

LEMMA SegmentUnits ==
    ASSUME NEW i, NEW n \in Nat
    PROVE  IsFiniteSet({i} \X (1..n)) /\ Cardinality({i} \X (1..n)) = n
<1>1. /\ IsFiniteSet({i}) /\ Cardinality({i}) = 1
      /\ IsFiniteSet(1..n) /\ Cardinality(1..n) = n
  BY FS_Singleton, UpTo
<1>2. /\ IsFiniteSet({i} \X (1..n))
      /\ Cardinality({i} \X (1..n)) = Cardinality({i}) * Cardinality(1..n)
  BY <1>1, FS_Product
<1> QED BY <1>1, <1>2

LEMMA HeldFinite ==
    ASSUME NEW list \in Seq(Segment)
    PROVE  IsFiniteSet(Held(list)) /\ Cardinality(Held(list)) \in Nat
<1> DEFINE F == [i \in DOMAIN list |-> {i} \X (1..list[i].size)]
<1>1. ASSUME NEW i \in 1..Len(list) PROVE IsFiniteSet(F[i])
  <2>1. i \in DOMAIN list /\ list[i].size \in Nat
    BY SegmentFields
  <2>2. IsFiniteSet({i} \X (1..list[i].size))
    BY <2>1, SegmentUnits
  <2> QED BY <2>1, <2>2
<1>2. Held(list) = UNION {F[i] : i \in 1..Len(list)}
  BY SegmentFields DEF Held
<1>3. Len(list) \in Nat
  BY SegmentFields
<1> HIDE DEF F
<1> QED BY <1>1, <1>2, <1>3, FiniteFamily, FS_CardinalityType

LEMMA HeldAppend ==
    ASSUME NEW list \in Seq(Segment), NEW seg \in Segment
    PROVE  Cardinality(Held(Append(list, seg))) = Cardinality(Held(list)) + seg.size
<1> DEFINE n == Len(list) + 1
           New == {n} \X (1..seg.size)
<1>1. /\ Append(list, seg) \in Seq(Segment) /\ DOMAIN list = 1..Len(list)
      /\ Len(list) \in Nat /\ DOMAIN Append(list, seg) = 1..n
      /\ \A i \in DOMAIN list : Append(list, seg)[i] = list[i]
      /\ Append(list, seg)[n] = seg
  OBVIOUS
<1>2. seg.size \in Nat
  BY DEF Segment
<1>3. Held(Append(list, seg)) = Held(list) \cup New
  <2>1. ASSUME NEW u \in Held(Append(list, seg)) PROVE u \in Held(list) \cup New
    <3>1. PICK i \in 1..n : u \in {i} \X (1..Append(list, seg)[i].size)
      BY <1>1, <2>1 DEF Held
    <3>2. CASE i = n
      BY <1>1, <3>1, <3>2
    <3>3. CASE i # n
      <4>1. i \in DOMAIN list /\ Append(list, seg)[i] = list[i]
        BY <1>1, <3>3
      <4> QED BY <3>1, <4>1 DEF Held
    <3> QED BY <3>2, <3>3
  <2>2. ASSUME NEW u \in Held(list) PROVE u \in Held(Append(list, seg))
    <3>1. PICK i \in DOMAIN list : u \in {i} \X (1..list[i].size)
      BY <2>2 DEF Held
    <3>2. i \in DOMAIN Append(list, seg) /\ Append(list, seg)[i] = list[i]
      BY <1>1
    <3> QED BY <3>1, <3>2 DEF Held
  <2>3. ASSUME NEW u \in New PROVE u \in Held(Append(list, seg))
    <3>1. n \in DOMAIN Append(list, seg) /\ Append(list, seg)[n].size = seg.size
      BY <1>1
    <3> HIDE DEF n
    <3> QED BY <2>3, <3>1 DEF Held
  <2> HIDE DEF New
  <2> QED BY <2>1, <2>2, <2>3
<1>4. Held(list) \cap New = {}
  <2>1. \A u \in Held(list) : u[1] # n
    BY <1>1, UnitNames
  <2>2. \A u \in New : u[1] = n
    OBVIOUS
  <2> HIDE DEF New, n
  <2> QED BY <2>1, <2>2
<1>5. IsFiniteSet(New) /\ Cardinality(New) = seg.size
  BY <1>2, SegmentUnits
<1> HIDE DEF New
<1> QED BY <1>3, <1>4, <1>5, HeldFinite, UnionBound

(* A list without its k-th segment.                                        *)
LEMMA RemoveAtPlaces ==
    ASSUME NEW D, NEW s \in Seq(D), NEW k \in 1..Len(s)
    PROVE  /\ RemoveAt(s, k) \in Seq(D)
           /\ Len(s) \in Nat /\ Len(RemoveAt(s, k)) = Len(s) - 1
           /\ \A i \in 1..(Len(s) - 1) :
                RemoveAt(s, k)[i] = IF i < k THEN s[i] ELSE s[i + 1]
<1> DEFINE before == SubSeq(s, 1, k - 1)
           after  == SubSeq(s, k + 1, Len(s))
           r      == RemoveAt(s, k)
<1>1. k \in Int /\ 1 <= k /\ k <= Len(s) /\ Len(s) \in Nat
  OBVIOUS
<1>2. /\ before \in Seq(D) /\ Len(before) = k - 1
      /\ \A i \in 1..(k - 1) : before[i] = s[i]
  BY <1>1
<1>3. /\ after \in Seq(D) /\ Len(after) = Len(s) - k
      /\ \A i \in 1..(Len(s) - k) : after[i] = s[k + i]
  BY <1>1
<1>4. r = before \o after
  BY DEF RemoveAt
<1> HIDE DEF before, after, r
<1>5. r \in Seq(D) /\ Len(r) = Len(s) - 1
  <2>1. before \o after \in Seq(D) /\ Len(before \o after) = Len(before) + Len(after)
    BY <1>2, <1>3
  <2> QED BY <2>1, <1>1, <1>2, <1>3, <1>4
<1>6. ASSUME NEW i \in 1..(Len(s) - 1)
      PROVE  r[i] = IF i < k THEN s[i] ELSE s[i + 1]
  <2>0. i \in Int /\ 1 <= i /\ i <= Len(s) - 1
    BY <1>1
  <2>1. CASE i < k
    BY <2>0, <2>1, <1>1, <1>2, <1>3, <1>4
  <2>2. CASE i >= k
    <3>1. i - (k - 1) \in 1..(Len(s) - k) /\ k + (i - (k - 1)) = i + 1
      BY <2>0, <2>2, <1>1
    <3>2. r[i] = after[i - (k - 1)]
      BY <2>0, <2>2, <1>1, <1>2, <1>3, <1>4
    <3> QED BY <3>1, <3>2, <2>0, <2>2, <1>1, <1>3
  <2> QED BY <2>0, <2>1, <2>2, <1>1
<1> QED BY <1>5, <1>6, <1>1 DEF r

LEMMA HeldRemove ==
    ASSUME NEW list \in Seq(Segment), NEW k \in 1..Len(list)
    PROVE  Cardinality(Held(RemoveAt(list, k))) = Cardinality(Held(list)) - list[k].size
<1> DEFINE less == RemoveAt(list, k)
           old(i) == IF i < k THEN i ELSE i + 1
           Own == {k} \X (1..list[k].size)
           Rest == Held(list) \ Own
           f == [u \in Held(less) |-> <<old(u[1]), u[2]>>]
<1>1. /\ less \in Seq(Segment) /\ Len(list) \in Nat /\ k \in Int /\ 1 <= k /\ k <= Len(list)
      /\ DOMAIN less = 1..(Len(list) - 1) /\ DOMAIN list = 1..Len(list)
      /\ \A i \in DOMAIN less : less[i] = list[old(i)]
  <2>1. /\ less \in Seq(Segment) /\ Len(list) \in Nat /\ Len(less) = Len(list) - 1
        /\ \A i \in 1..(Len(list) - 1) : less[i] = IF i < k THEN list[i] ELSE list[i + 1]
    BY RemoveAtPlaces
  <2> HIDE DEF less
  <2> QED BY <2>1
<1>2. list[k].size \in Nat
  BY <1>1, SegmentFields
<1>3. /\ \A i \in DOMAIN less : old(i) \in DOMAIN list /\ old(i) # k
      /\ \A i, j \in DOMAIN less : old(i) = old(j) => i = j
      /\ \A j \in DOMAIN list : j # k => \E i \in DOMAIN less : old(i) = j
  <2>1. \A i \in DOMAIN less : old(i) \in DOMAIN list /\ old(i) # k
    BY <1>1
  <2>2. \A i, j \in DOMAIN less : old(i) = old(j) => i = j
    BY <1>1
  <2>3. ASSUME NEW j \in DOMAIN list, j # k PROVE \E i \in DOMAIN less : old(i) = j
    <3>1. CASE j < k
      BY <1>1, <2>3, <3>1
    <3>2. CASE j > k
      <4>1. j - 1 \in DOMAIN less /\ old(j - 1) = j
        BY <1>1, <2>3, <3>2
      <4> QED BY <4>1
    <3> QED BY <1>1, <2>3, <3>1, <3>2
  <2> QED BY <2>1, <2>2, <2>3
<1> HIDE DEF less, old
<1>4. \A u \in Held(less) : f[u] \in Rest
  <2> SUFFICES ASSUME NEW u \in Held(less) PROVE <<old(u[1]), u[2]>> \in Rest
    OBVIOUS
  <2>1. u[1] \in DOMAIN less /\ u[2] \in 1..less[u[1]].size
    BY <1>1, UnitNames
  <2>2. old(u[1]) \in DOMAIN list /\ old(u[1]) # k /\ u[2] \in 1..list[old(u[1])].size
    BY <1>1, <1>3, <2>1
  <2>3. <<old(u[1]), u[2]>> \in Held(list)
    BY <2>2, UnitNames
  <2> QED BY <2>2, <2>3
<1>5. \A u, v \in Held(less) : f[u] = f[v] => u = v
  <2> SUFFICES ASSUME NEW u \in Held(less), NEW v \in Held(less),
                      old(u[1]) = old(v[1]), u[2] = v[2]
               PROVE  u = v
    OBVIOUS
  <2>1. /\ u = <<u[1], u[2]>> /\ u[1] \in DOMAIN less
        /\ v = <<v[1], v[2]>> /\ v[1] \in DOMAIN less
    BY <1>1, UnitNames
  <2> QED BY <1>3, <2>1
<1>6. \A w \in Rest : \E u \in Held(less) : f[u] = w
  <2> SUFFICES ASSUME NEW w \in Rest
               PROVE  \E u \in Held(less) : <<old(u[1]), u[2]>> = w
    OBVIOUS
  <2>1. w = <<w[1], w[2]>> /\ w[1] \in DOMAIN list /\ w[2] \in 1..list[w[1]].size
    BY UnitNames
  <2>2. w[1] # k
    BY <2>1
  <2>3. PICK i \in DOMAIN less : old(i) = w[1]
    BY <1>3, <2>1, <2>2
  <2>4. <<i, w[2]>> \in Held(less)
    <3>1. w[2] \in 1..less[i].size
      BY <1>1, <2>1, <2>3
    <3> QED BY <1>1, <3>1, UnitNames
  <2> QED BY <2>1, <2>3, <2>4
<1>7. ExistsBijection(Held(less), Rest)
  <2>1. f \in [Held(less) -> Rest]
    <3> HIDE DEF Rest
    <3> QED BY <1>4
  <2> HIDE DEF f, Rest
  <2>2. f \in Bijection(Held(less), Rest)
    BY <1>5, <1>6, <2>1 DEF Bijection, Injection, Surjection, IsInjective
  <2> QED BY <2>2 DEF ExistsBijection
<1>8. IsFiniteSet(Held(less)) /\ IsFiniteSet(Held(list))
  BY <1>1, HeldFinite
<1>9. Cardinality(Rest) = Cardinality(Held(less))
  <2> HIDE DEF Rest
  <2> QED BY <1>7, <1>8, FS_Bijection
<1>10. Held(list) \cap Own = Own
  <2>1. \A u \in Own : u = <<k, u[2]>> /\ u[2] \in 1..list[k].size
    OBVIOUS
  <2>2. \A u \in Own : u \in Held(list)
    <3> HIDE DEF Own
    <3> QED BY <1>1, <2>1, UnitNames
  <2> HIDE DEF Own
  <2> QED BY <2>2
<1>11. Cardinality(Own) = list[k].size
  BY <1>2, SegmentUnits
<1>12. Cardinality(Rest) = Cardinality(Held(list)) - Cardinality(Own)
  <2> HIDE DEF Own
  <2> QED BY <1>8, <1>10, FS_Difference
<1> HIDE DEF Own, Rest
<1> QED BY <1>9, <1>11, <1>12 DEF less

LEMMA HeldSame ==
    ASSUME NEW list \in Seq(Segment), NEW other,
           DOMAIN other = DOMAIN list,
           \A i \in DOMAIN list : other[i].size = list[i].size
    PROVE  Held(other) = Held(list)
BY DEF Held

-----------------------------------------------------------------------------
(* The operations of the table *)

(* Each segment is the one made for its process ...                        *)
SegmentsAreOwn ==
    \A i \in DOMAIN seg_list :
        /\ seg_list[i].id = SegId[seg_list[i].code]
        /\ seg_list[i].size = SegSize[seg_list[i].code]

(* ... and no process has two: without this segment_free would leave one.  *)
OneSegmentEach ==
    \A i, j \in DOMAIN seg_list : seg_list[i].code = seg_list[j].code => i = j

(* The segment that is being loaded is for a process that has none.        *)
LoadIsNew ==
    loading # no_call =>
        /\ ~Loaded(loading.seg.code)
        /\ loading.seg.id = SegId[loading.seg.code]
        /\ loading.seg.size = SegSize[loading.seg.code]

(* The inductive invariant of the table.                                   *)
MemInv == MemTypeOK /\ SegmentsAreOwn /\ OneSegmentEach /\ LoadIsNew

LEMMA FindSegment ==
    ASSUME NEW sid, MemTypeOK
    PROVE  /\ segment_find(sid) \in 0..Len(seg_list)
           /\ segment_find(sid) # 0 => /\ segment_find(sid) \in DOMAIN seg_list
                                       /\ seg_list[segment_find(sid)].id = sid
           /\ segment_find(sid) = 0 => \A i \in DOMAIN seg_list : seg_list[i].id # sid
<1> DEFINE I == {i \in 1..Len(seg_list) : seg_list[i].id = sid}
<1>1. segment_find(sid) = IF I # {} THEN Min(I) ELSE 0
  BY DEF segment_find, SelectInSeq
<1>2. Len(seg_list) \in Nat /\ DOMAIN seg_list = 1..Len(seg_list)
  BY DEF MemTypeOK
<1>3. CASE I # {}
  <2>1. I \in SUBSET Nat
    BY <1>2
  <2> HIDE DEF I
  <2>2. \E n \in I : \A m \in I : n <= m
    BY <1>3, <2>1, LeastNumber
  <2>3. Min(I) \in I
    BY <2>2 DEF Min
  <2> QED BY <1>1, <1>2, <1>3, <2>3 DEF I
<1>4. CASE I = {}
  BY <1>1, <1>2, <1>4
<1> QED BY <1>3, <1>4

(* A process finds its own segment, if it has one.                         *)
LEMMA FindOwnSegment ==
    ASSUME MemInv, NEW p \in Process
    PROVE  /\ Loaded(p) <=> segment_find(SegId[p]) # 0
           /\ Loaded(p) => /\ segment_find(SegId[p]) \in DOMAIN seg_list
                           /\ seg_list[segment_find(SegId[p])].code = p
<1>1. \A i \in DOMAIN seg_list : seg_list[i].id = SegId[p] <=> seg_list[i].code = p
  <2>1. \A i \in DOMAIN seg_list : seg_list[i].code \in Process
    BY SegmentFields DEF MemInv, MemTypeOK
  <2> QED BY <2>1, SegIdAssumption DEF MemInv, SegmentsAreOwn
<1> QED BY <1>1, FindSegment DEF Loaded, MemInv

LEMMA NewSegment ==
    ASSUME NEW p \in Process
    PROVE  /\ segment_create(p) \in Segment
           /\ segment_create(p).id = SegId[p]
           /\ segment_create(p).size = SegSize[p] /\ SegSize[p] \in Nat
           /\ segment_create(p).code = p
<1>1. CodeLen[p] \in Nat /\ SegSize[p] \in Nat /\ INSTRUCTIONS_PER_PAGE \in Nat \ {0}
  BY MemoryAssumption
<1>2. PageCount(p) \in Nat
  BY <1>1 DEF PageCount
<1>3. [i \in 1..PageCount(p) |-> FALSE] \in Seq(BOOLEAN)
  <2>1. \A f, n : n \in Nat /\ f \in [1..n -> BOOLEAN] => f \in Seq(BOOLEAN)
    OBVIOUS
  <2>2. [i \in 1..PageCount(p) |-> FALSE] \in [1..PageCount(p) -> BOOLEAN]
    BY Zenon
  <2> QED BY <1>2, <2>1, <2>2
<1> QED BY <1>1, <1>3 DEF segment_create, Segment

(* The pass changes nothing but used bits.                                 *)
LEMMA PassKeepsSegments ==
    ASSUME NEW list \in Seq(Segment), NEW size
    PROVE  LET segs == memory_page_swap(list, size).segs
           IN  /\ segs \in Seq(Segment)
               /\ DOMAIN segs = DOMAIN list /\ Len(segs) = Len(list)
               /\ \A i \in DOMAIN list : /\ segs[i].id = list[i].id
                                         /\ segs[i].size = list[i].size
                                         /\ segs[i].code = list[i].code
<1> DEFINE used(i) == [j \in DOMAIN list[i].used |->
                         list[i].used[j] /\ <<i, j>> \notin visited_pages(list, size)]
           segs == [i \in DOMAIN list |-> [list[i] EXCEPT !.used = used(i)]]
<1>1. memory_page_swap(list, size).segs = segs
  BY DEF memory_page_swap
<1>2. ASSUME NEW i \in DOMAIN list
      PROVE  /\ segs[i] \in Segment /\ segs[i].id = list[i].id
             /\ segs[i].size = list[i].size /\ segs[i].code = list[i].code
  <2>1. /\ list[i] \in Segment /\ DOMAIN list[i].used = 1..Len(list[i].used)
        /\ Len(list[i].used) \in Nat
    BY SegmentFields
  <2>2. used(i) \in Seq(BOOLEAN)
    BY <2>1
  <2> HIDE DEF used
  <2> QED BY <2>1, <2>2 DEF Segment
<1>3. DOMAIN list = 1..Len(list) /\ Len(list) \in Nat
  BY SegmentFields
<1>4. DOMAIN segs = DOMAIN list
  OBVIOUS
<1> HIDE DEF segs
<1>5. segs \in Seq(Segment) /\ Len(segs) = Len(list)
  <2>1. segs = [i \in 1..Len(list) |-> segs[i]]
    BY <1>3 DEF segs
  <2> QED BY <1>2, <1>3, <2>1
<1> QED BY <1>1, <1>2, <1>4, <1>5

LEMMA MemTypes ==
    ASSUME MemTypeOK
    PROVE  /\ seg_list \in Seq(Segment) /\ mem_remaining \in Nat
           /\ Len(seg_list) \in Nat /\ DOMAIN seg_list = 1..Len(seg_list)
           /\ Allocated \in Nat /\ MAX_MEM_SIZE \in Nat
BY SegmentFields, HeldFinite, MemoryAssumption DEF MemTypeOK, Allocated

(* What a thread keeps of its call.                                        *)
LEMMA CallTypes ==
    ASSUME MemTypeOK
    PROVE  /\ loading.at \in {"none", "write", "swap", "sum"}
           /\ loading = no_call <=> loading.at = "none"
           /\ loading # no_call =>
                /\ loading.seg \in Segment /\ loading.seg.code \in Process
                /\ loading.seg.size \in Nat /\ loading.value \in Int
                /\ loading = [at |-> loading.at, seg |-> loading.seg, value |-> loading.value]
           /\ loading.at = "sum" => loading.value \in Nat
           /\ freeing.at \in {"none", "read", "write"}
           /\ freeing = no_call <=> freeing.at = "none"
           /\ freeing # no_call =>
                /\ freeing.value \in Nat
                /\ freeing = [at |-> freeing.at, value |-> freeing.value]
<1>1. loading = no_call \/ loading \in [at : {"write", "swap"}, seg : Segment, value : Int]
                        \/ loading \in [at : {"sum"}, seg : Segment, value : Nat]
  BY DEF MemTypeOK
<1>2. freeing = no_call \/ freeing \in [at : {"read", "write"}, value : Nat]
  BY DEF MemTypeOK
<1>3. \A seg \in Segment : seg.code \in Process /\ seg.size \in Nat
  BY DEF Segment
<1> QED BY <1>1, <1>2, <1>3 DEF no_call

LEMMA InitMem ==
    ASSUME segment_table_init
    PROVE  /\ MemInv /\ \A p \in Process : ~Loaded(p)
           /\ loading = no_call /\ freeing = no_call
           /\ Allocated = 0 /\ mem_remaining = MAX_MEM_SIZE
<1>1. /\ seg_list = <<>> /\ DOMAIN seg_list = {} /\ mem_remaining = MAX_MEM_SIZE
      /\ loading = no_call /\ freeing = no_call
  BY DEF segment_table_init
<1>2. MemTypeOK
  BY <1>1, MemoryAssumption DEF MemTypeOK
<1>3. Allocated = 0
  <2>1. Held(seg_list) = {}
    BY <1>1 DEF Held
  <2> QED BY <2>1, FS_EmptySet DEF Allocated
<1> QED BY <1>1, <1>2, <1>3 DEF MemInv, SegmentsAreOwn, OneSegmentEach, LoadIsNew, Loaded

(* The load has read what is left.                                         *)
LEMMA LoadBeginMem ==
    ASSUME MemInv, NEW p \in Process, ~Loaded(p), load_begin(p)
    PROVE  /\ MemInv' /\ \A q \in Process : Loaded(q)' <=> Loaded(q)
           /\ loading = no_call /\ loading' # no_call
           /\ loading'.at = "write" /\ loading'.seg.code = p
           /\ loading'.seg.size \in Nat
           /\ loading'.value = mem_remaining - loading'.seg.size
<1>1. /\ segment_create(p) \in Segment /\ segment_create(p).id = SegId[p]
      /\ segment_create(p).size = SegSize[p] /\ SegSize[p] \in Nat
      /\ segment_create(p).code = p
  BY NewSegment
<1>2. /\ loading = no_call /\ UNCHANGED <<seg_list, mem_remaining, freeing>>
      /\ loading' = [at |-> "write", seg |-> segment_create(p),
                     value |-> mem_remaining - SegSize[p]]
  BY <1>1 DEF load_begin
<1>3. mem_remaining \in Nat
  BY MemTypes DEF MemInv
<1>4. /\ loading' \in [at : {"write", "swap"}, seg : Segment, value : Int]
      /\ loading' # no_call
  BY <1>1, <1>2, <1>3 DEF no_call
<1>5. MemTypeOK'
  BY <1>2, <1>4 DEF MemInv, MemTypeOK
<1>6. LoadIsNew'
  BY <1>1, <1>2 DEF LoadIsNew, Loaded
<1> QED BY <1>1, <1>2, <1>4, <1>5, <1>6
     DEF MemInv, SegmentsAreOwn, OneSegmentEach, Loaded

(* The segment is added.                                                   *)
LEMMA SegmentAdded ==
    ASSUME MemInv, loading # no_call, segment_add
    PROVE  /\ seg_list' \in Seq(Segment) /\ seg_list' # <<>>
           /\ SegmentsAreOwn' /\ OneSegmentEach'
           /\ Allocated' = Allocated + loading.seg.size
           /\ \A q \in Process : Loaded(q)' <=> Loaded(q) \/ q = loading.seg.code
<1> DEFINE seg == loading.seg
           p == seg.code
           n == Len(seg_list)
<1>1. /\ seg_list \in Seq(Segment) /\ n \in Nat /\ DOMAIN seg_list = 1..n
  BY MemTypes DEF MemInv
<1>2. /\ seg \in Segment /\ seg.id = SegId[p] /\ p \in Process
      /\ seg.size = SegSize[p] /\ seg.size \in Nat /\ ~Loaded(p)
  BY CallTypes DEF MemInv, LoadIsNew
<1>3. seg_list' = Append(seg_list, seg)
  BY DEF segment_add
<1> HIDE DEF seg
<1>4. /\ seg_list' \in Seq(Segment) /\ DOMAIN seg_list' = 1..(n + 1) /\ Len(seg_list') = n + 1
      /\ \A i \in 1..n : seg_list'[i] = seg_list[i]
      /\ seg_list'[n + 1] = seg
  BY <1>1, <1>2, <1>3
<1>5. \A i \in 1..n : seg_list'[i].code # p
  BY <1>1, <1>2, <1>4 DEF Loaded
<1>6. SegmentsAreOwn'
  BY <1>1, <1>2, <1>4 DEF MemInv, SegmentsAreOwn
<1>7. OneSegmentEach'
  BY <1>1, <1>2, <1>4, <1>5 DEF MemInv, OneSegmentEach
<1>8. Allocated' = Allocated + seg.size
  BY <1>1, <1>2, <1>3, HeldAppend DEF Allocated
<1>9. \A q \in Process : Loaded(q)' <=> Loaded(q) \/ q = p
  <2> SUFFICES ASSUME NEW q \in Process PROVE Loaded(q)' <=> Loaded(q) \/ q = p
    OBVIOUS
  <2>1. Loaded(q)' <=> \E i \in 1..(n + 1) : seg_list'[i].code = q
    BY <1>4 DEF Loaded
  <2>2. \A i \in 1..(n + 1) : i \in 1..n \/ i = n + 1
    BY <1>1
  <2>3. n + 1 \in 1..(n + 1) /\ \A i \in 1..n : i \in 1..(n + 1)
    BY <1>1
  <2> QED BY <1>1, <1>2, <1>4, <2>1, <2>2, <2>3 DEF Loaded
<1>10. seg_list' # <<>>
  BY <1>1, <1>4
<1> QED BY <1>4, <1>6, <1>7, <1>8, <1>9, <1>10 DEF seg

(* The call goes on: it is still in the same load, or has added the        *)
(* segment of its process.                                                 *)
LEMMA LoadWriteMem ==
    ASSUME MemInv, load_write
    PROVE  /\ MemInv' /\ loading # no_call /\ mem_remaining' = MAXIMUM(0, loading.value)
           /\ IF loading.value < 0
                THEN /\ seg_list' = seg_list /\ loading' # no_call /\ loading'.at = "swap"
                     /\ loading'.seg = loading.seg
                ELSE loading' = no_call /\ segment_add
<1>1. /\ loading.at = "write" /\ mem_remaining' = MAXIMUM(0, loading.value)
      /\ freeing' = freeing
      /\ IF loading.value < 0
           THEN loading' = [loading EXCEPT !.at = "swap"] /\ seg_list' = seg_list
           ELSE segment_add
  BY DEF load_write
<1>2. /\ loading # no_call /\ loading.seg \in Segment /\ loading.value \in Int
      /\ loading = [at |-> loading.at, seg |-> loading.seg, value |-> loading.value]
  BY <1>1, CallTypes DEF MemInv
<1>3. mem_remaining' \in Nat
  BY <1>1, <1>2 DEF MAXIMUM
<1>4. CASE loading.value < 0
  <2>1. loading' = [at |-> "swap", seg |-> loading.seg, value |-> loading.value]
    BY <1>1, <1>2, <1>4
  <2>2. /\ loading' # no_call
        /\ loading' \in [at : {"write", "swap"}, seg : Segment, value : Int]
    BY <1>2, <2>1 DEF no_call
  <2>3. MemTypeOK'
    BY <1>1, <1>3, <1>4, <2>2 DEF MemInv, MemTypeOK
  <2> QED BY <1>1, <1>2, <1>4, <2>1, <2>2, <2>3
       DEF MemInv, SegmentsAreOwn, OneSegmentEach, LoadIsNew, Loaded
<1>5. CASE ~(loading.value < 0)
  <2>1. loading' = no_call
    BY <1>1, <1>5 DEF segment_add
  <2>2. seg_list' \in Seq(Segment) /\ SegmentsAreOwn' /\ OneSegmentEach'
    BY <1>1, <1>2, <1>5, SegmentAdded
  <2>3. MemTypeOK'
    BY <1>1, <1>3, <2>1, <2>2 DEF MemInv, MemTypeOK
  <2> QED BY <1>1, <1>2, <1>5, <2>1, <2>2, <2>3 DEF MemInv, LoadIsNew
<1> QED BY <1>4, <1>5

LEMMA LoadSwapMem ==
    ASSUME MemInv, load_swap
    PROVE  /\ MemInv' /\ loading # no_call /\ mem_remaining' = mem_remaining
           /\ loading' # no_call /\ loading'.at = "sum" /\ loading'.seg = loading.seg
           /\ loading'.value \in Nat /\ loading'.value >= mem_remaining
           /\ Allocated' = Allocated
           /\ \A q \in Process : Loaded(q)' <=> Loaded(q)
<1> DEFINE pass == memory_page_swap(seg_list, loading.seg.size)
           n == Len(seg_list)
<1>1. /\ loading.at = "swap" /\ seg_list' = pass.segs
      /\ loading' = [loading EXCEPT !.at = "sum", !.value = mem_remaining + pass.freed]
      /\ UNCHANGED <<mem_remaining, freeing>>
  BY DEF load_swap
<1>2. /\ seg_list \in Seq(Segment) /\ n \in Nat /\ DOMAIN seg_list = 1..n
      /\ mem_remaining \in Nat
  BY MemTypes DEF MemInv
<1>3. /\ loading # no_call /\ loading.seg \in Segment /\ loading.seg.size \in Nat
      /\ loading.seg.code \in Process
      /\ loading = [at |-> loading.at, seg |-> loading.seg, value |-> loading.value]
  BY <1>1, CallTypes DEF MemInv
<1>4. pass.freed \in Nat
  BY <1>2, <1>3, PassFreesNoMore
<1>5. /\ seg_list' \in Seq(Segment) /\ DOMAIN seg_list' = 1..n
      /\ \A i \in 1..n : /\ seg_list'[i].id = seg_list[i].id
                         /\ seg_list'[i].size = seg_list[i].size
                         /\ seg_list'[i].code = seg_list[i].code
  BY <1>1, <1>2, PassKeepsSegments
<1> HIDE DEF pass
<1>6. loading' = [at |-> "sum", seg |-> loading.seg, value |-> mem_remaining + pass.freed]
  BY <1>1, <1>3
<1>7. /\ loading' # no_call /\ loading' \in [at : {"sum"}, seg : Segment, value : Nat]
      /\ loading'.value \in Nat /\ loading'.value >= mem_remaining
      /\ loading'.seg = loading.seg /\ loading'.at = "sum"
  BY <1>2, <1>3, <1>4, <1>6 DEF no_call
<1>8. MemTypeOK'
  BY <1>1, <1>5, <1>7 DEF MemInv, MemTypeOK
<1>9. SegmentsAreOwn' /\ OneSegmentEach'
  BY <1>2, <1>5 DEF MemInv, SegmentsAreOwn, OneSegmentEach
<1>10. \A q \in Process : Loaded(q)' <=> Loaded(q)
  BY <1>2, <1>5 DEF Loaded
<1>11. LoadIsNew'
  BY <1>3, <1>7, <1>10 DEF MemInv, LoadIsNew
<1>12. Allocated' = Allocated
  <2>1. Held(seg_list') = Held(seg_list)
    BY <1>2, <1>5, HeldSame
  <2> QED BY <2>1 DEF Allocated
<1> QED BY <1>1, <1>3, <1>7, <1>8, <1>9, <1>10, <1>11, <1>12 DEF MemInv

LEMMA LoadSumMem ==
    ASSUME MemInv, load_sum
    PROVE  /\ MemInv' /\ loading # no_call /\ mem_remaining' = loading.value
           /\ loading' = no_call /\ segment_add
<1>1. /\ loading.at = "sum" /\ mem_remaining' = loading.value
      /\ segment_add /\ freeing' = freeing /\ loading' = no_call
  BY DEF load_sum, segment_add
<1>2. loading # no_call /\ loading.value \in Nat
  BY <1>1, CallTypes DEF MemInv
<1>3. seg_list' \in Seq(Segment) /\ SegmentsAreOwn' /\ OneSegmentEach'
  BY <1>1, <1>2, SegmentAdded
<1>4. MemTypeOK'
  BY <1>1, <1>2, <1>3 DEF MemInv, MemTypeOK
<1> QED BY <1>1, <1>2, <1>3, <1>4 DEF MemInv, LoadIsNew

(* What mem_req_load does to the table, step by step.                      *)
LEMMA LoadMem ==
    ASSUME MemInv, NEW p \in Process, mem_req_load(p),
           loading = no_call => ~Loaded(p),
           loading # no_call => loading.seg.code = p
    PROVE  /\ MemInv' /\ freeing' = freeing
           /\ loading' = no_call => \A q \in Process : Loaded(q)' <=> Loaded(q) \/ q = p
           /\ loading' # no_call => /\ loading'.seg.code = p
                                    /\ \A q \in Process : Loaded(q)' <=> Loaded(q)
<1>1. CASE load_begin(p)
  <2>1. loading = no_call /\ freeing' = freeing
    BY <1>1 DEF load_begin
  <2> QED BY <1>1, <2>1, LoadBeginMem
<1>2. CASE load_write
  <2>1. freeing' = freeing
    BY <1>2 DEF load_write
  <2>2. CASE loading.value < 0
    BY <1>2, <2>1, <2>2, LoadWriteMem DEF Loaded
  <2>3. CASE ~(loading.value < 0)
    BY <1>2, <2>1, <2>3, LoadWriteMem, SegmentAdded
  <2> QED BY <2>2, <2>3
<1>3. CASE load_swap
  <2>1. freeing' = freeing
    BY <1>3 DEF load_swap
  <2> QED BY <1>3, <2>1, LoadSwapMem
<1>4. CASE load_sum
  <2>1. freeing' = freeing
    BY <1>4 DEF load_sum
  <2> QED BY <1>4, <2>1, LoadSumMem, SegmentAdded
<1> QED BY <1>1, <1>2, <1>3, <1>4 DEF mem_req_load

(* The segment of the process leaves the table, and what it held is still  *)
(* to be given back.                                                       *)
LEMMA FreeBeginMem ==
    ASSUME MemInv, NEW p \in Process, free_begin(SegId[p])
    PROVE  /\ MemInv' /\ Loaded(p)
           /\ \A q \in Process : Loaded(q)' <=> Loaded(q) /\ q # p
           /\ freeing = no_call /\ freeing' # no_call
           /\ loading' = loading /\ mem_remaining' = mem_remaining
           /\ \E size \in Nat :
                /\ Allocated' = Allocated - size
                /\ freeing' = IF MAX_MEM_SIZE <= mem_remaining + size
                                THEN [at |-> "write", value |-> MAX_MEM_SIZE]
                                ELSE [at |-> "read", value |-> size]
<1> DEFINE k == segment_find(SegId[p])
           n == Len(seg_list)
           old(i) == IF i < k THEN i ELSE i + 1
<1>1. /\ seg_list \in Seq(Segment) /\ mem_remaining \in Nat
      /\ n \in Nat /\ DOMAIN seg_list = 1..n /\ Allocated \in Nat
  BY MemTypes DEF MemInv
<1>2. /\ k # 0 /\ seg_list' = RemoveAt(seg_list, k)
      /\ freeing = no_call /\ loading' = loading /\ mem_remaining' = mem_remaining
      /\ freeing' = IF MAX_MEM_SIZE <= mem_remaining + seg_list[k].size
                      THEN [at |-> "write", value |-> MAX_MEM_SIZE]
                      ELSE [at |-> "read", value |-> seg_list[k].size]
  BY DEF free_begin
<1>3. Loaded(p) /\ k \in 1..n /\ seg_list[k].code = p /\ seg_list[k].size \in Nat
  BY <1>1, <1>2, FindOwnSegment, SegmentFields
<1> HIDE DEF k
<1>4. /\ seg_list' \in Seq(Segment) /\ DOMAIN seg_list' = 1..(n - 1) /\ Len(seg_list') = n - 1
      /\ \A i \in 1..(n - 1) : /\ seg_list'[i] = seg_list[old(i)]
                               /\ old(i) \in 1..n /\ old(i) # k
      /\ \A i, j \in 1..(n - 1) : old(i) = old(j) => i = j
      /\ \A j \in 1..n : j # k => \E i \in 1..(n - 1) : old(i) = j
  <2>1. /\ seg_list' \in Seq(Segment) /\ Len(seg_list') = n - 1
        /\ \A i \in 1..(n - 1) : seg_list'[i] = IF i < k THEN seg_list[i] ELSE seg_list[i + 1]
    BY <1>1, <1>2, <1>3, RemoveAtPlaces
  <2>2. \A i \in 1..(n - 1) : seg_list'[i] = seg_list[old(i)] /\ old(i) \in 1..n /\ old(i) # k
    BY <1>1, <1>3, <2>1
  <2>3. \A i, j \in 1..(n - 1) : old(i) = old(j) => i = j
    BY <1>1, <1>3
  <2>4. ASSUME NEW j \in 1..n, j # k PROVE \E i \in 1..(n - 1) : old(i) = j
    <3>1. CASE j < k
      BY <1>1, <1>3, <2>4, <3>1
    <3>2. CASE j > k
      <4>1. j - 1 \in 1..(n - 1) /\ old(j - 1) = j
        BY <1>1, <1>3, <2>4, <3>2
      <4> QED BY <4>1
    <3> QED BY <1>1, <1>3, <2>4, <3>1, <3>2
  <2>5. DOMAIN seg_list' = 1..(n - 1)
    BY <1>1, <2>1
  <2> HIDE DEF old
  <2> QED BY <2>1, <2>2, <2>3, <2>4, <2>5
<1> HIDE DEF old
<1>5. freeing' \in [at : {"read", "write"}, value : Nat] /\ freeing' # no_call
  BY <1>2, <1>3, MemoryAssumption DEF no_call
<1>6. SegmentsAreOwn'
  BY <1>1, <1>4 DEF MemInv, SegmentsAreOwn
<1>7. OneSegmentEach'
  <2> SUFFICES ASSUME NEW i \in 1..(n - 1), NEW j \in 1..(n - 1),
                      seg_list'[i].code = seg_list'[j].code
               PROVE  i = j
    BY <1>4 DEF OneSegmentEach
  <2>1. seg_list[old(i)].code = seg_list[old(j)].code
    BY <1>4
  <2>2. old(i) = old(j)
    BY <1>1, <1>4, <2>1 DEF MemInv, OneSegmentEach
  <2> QED BY <1>4, <2>2
<1>8. Allocated' = Allocated - seg_list[k].size /\ Allocated' \in Nat
  <2>1. Cardinality(Held(seg_list')) = Cardinality(Held(seg_list)) - seg_list[k].size
    BY <1>1, <1>2, <1>3, HeldRemove
  <2>2. Cardinality(Held(seg_list')) \in Nat
    BY <1>4, HeldFinite
  <2> QED BY <2>1, <2>2 DEF Allocated
<1>9. \A q \in Process : Loaded(q)' <=> Loaded(q) /\ q # p
  <2> SUFFICES ASSUME NEW q \in Process PROVE Loaded(q)' <=> Loaded(q) /\ q # p
    OBVIOUS
  <2>1. Loaded(q)' <=> \E i \in 1..(n - 1) : seg_list[old(i)].code = q
    BY <1>4 DEF Loaded
  <2>2. \A j \in 1..n : seg_list[j].code = p => j = k
    BY <1>1, <1>3 DEF MemInv, OneSegmentEach
  <2> QED BY <1>1, <1>3, <1>4, <2>1, <2>2 DEF Loaded
<1>10. LoadIsNew'
  BY <1>2, <1>3, <1>9, CallTypes DEF MemInv, LoadIsNew
<1>11. MemTypeOK'
  BY <1>1, <1>2, <1>4, <1>5 DEF MemInv, MemTypeOK
<1> QED BY <1>2, <1>3, <1>5, <1>6, <1>7, <1>8, <1>9, <1>10, <1>11 DEF MemInv

(* The rest of segment_free changes only what is left.                     *)
LEMMA FreeReadMem ==
    ASSUME MemInv, free_read
    PROVE  /\ MemInv' /\ freeing # no_call /\ freeing.at = "read"
           /\ UNCHANGED <<seg_list, mem_remaining, loading>>
           /\ freeing'.at = "write" /\ freeing' # no_call
           /\ freeing'.value = mem_remaining + freeing.value
<1>1. /\ freeing.at = "read" /\ UNCHANGED <<seg_list, mem_remaining, loading>>
      /\ freeing' = [at |-> "write", value |-> mem_remaining + freeing.value]
  BY DEF free_read
<1>2. /\ freeing # no_call /\ freeing.value \in Nat /\ mem_remaining \in Nat
  BY <1>1, CallTypes, MemTypes DEF MemInv
<1>3. freeing' \in [at : {"read", "write"}, value : Nat] /\ freeing' # no_call
  BY <1>1, <1>2 DEF no_call
<1>4. MemTypeOK'
  BY <1>1, <1>3 DEF MemInv, MemTypeOK
<1> QED BY <1>1, <1>2, <1>3, <1>4
     DEF MemInv, SegmentsAreOwn, OneSegmentEach, LoadIsNew, Loaded

LEMMA FreeWriteMem ==
    ASSUME MemInv, free_write
    PROVE  /\ MemInv' /\ freeing # no_call /\ freeing.at = "write" /\ freeing' = no_call
           /\ UNCHANGED <<seg_list, loading>> /\ mem_remaining' = freeing.value
<1>1. /\ freeing.at = "write" /\ mem_remaining' = freeing.value
      /\ freeing' = no_call /\ UNCHANGED <<seg_list, loading>>
  BY DEF free_write
<1>2. freeing # no_call /\ freeing.value \in Nat
  BY <1>1, CallTypes DEF MemInv
<1>3. MemTypeOK'
  BY <1>1, <1>2 DEF MemInv, MemTypeOK
<1> QED BY <1>1, <1>2, <1>3
     DEF MemInv, SegmentsAreOwn, OneSegmentEach, LoadIsNew, Loaded

(* What segment_free does to the table, step by step.                      *)
LEMMA FreeMem ==
    ASSUME MemInv, NEW p \in Process, segment_free(SegId[p])
    PROVE  /\ MemInv' /\ loading' = loading
           /\ freeing = no_call =>
                /\ Loaded(p) /\ freeing' # no_call
                /\ \A q \in Process : Loaded(q)' <=> Loaded(q) /\ q # p
           /\ freeing # no_call => \A q \in Process : Loaded(q)' <=> Loaded(q)
<1>1. CASE free_begin(SegId[p])
  BY <1>1, FreeBeginMem
<1>2. CASE free_read
  BY <1>2, FreeReadMem DEF Loaded
<1>3. CASE free_write
  BY <1>3, FreeWriteMem DEF Loaded
<1> QED BY <1>1, <1>2, <1>3 DEF segment_free

LEMMA SetUsedMem ==
    ASSUME MemInv, NEW i \in DOMAIN seg_list, NEW pc \in Nat, set_used(i, pc)
    PROVE  /\ MemInv' /\ \A q \in Process : Loaded(q)' <=> Loaded(q)
           /\ Allocated' = Allocated /\ (seg_list' = <<>> <=> seg_list = <<>>)
<1> DEFINE page == pc \div INSTRUCTIONS_PER_PAGE + 1
           n == Len(seg_list)
<1>1. /\ seg_list \in Seq(Segment) /\ mem_remaining \in Nat
      /\ n \in Nat /\ DOMAIN seg_list = 1..n
  BY MemTypes DEF MemInv
<1>2. /\ UNCHANGED <<mem_remaining, loading, freeing>>
      /\ seg_list' = IF page \in DOMAIN seg_list[i].used
                       THEN [seg_list EXCEPT ![i].used[page] = TRUE]
                       ELSE seg_list
  BY DEF set_used
<1> HIDE DEF page
<1>3. /\ seg_list' \in Seq(Segment) /\ DOMAIN seg_list' = 1..n
      /\ \A j \in 1..n : /\ seg_list'[j].id = seg_list[j].id
                         /\ seg_list'[j].size = seg_list[j].size
                         /\ seg_list'[j].code = seg_list[j].code
  <2>1. CASE page \notin DOMAIN seg_list[i].used
    BY <1>1, <1>2, <2>1
  <2>2. CASE page \in DOMAIN seg_list[i].used
    <3> DEFINE used == [seg_list[i].used EXCEPT ![page] = TRUE]
               seg == [seg_list[i] EXCEPT !.used = used]
    <3>1. /\ seg_list[i] \in Segment /\ seg_list[i].used \in Seq(BOOLEAN)
          /\ DOMAIN seg_list[i].used = 1..Len(seg_list[i].used)
      BY <1>1, SegmentFields
    <3>2. used \in Seq(BOOLEAN)
      <4>1. \A f, m : m \in Nat /\ f \in [1..m -> BOOLEAN] => f \in Seq(BOOLEAN)
        OBVIOUS
      <4>2. /\ seg_list[i].used \in [1..Len(seg_list[i].used) -> BOOLEAN]
            /\ Len(seg_list[i].used) \in Nat
        BY <3>1
      <4>3. used \in [1..Len(seg_list[i].used) -> BOOLEAN]
        BY <4>2, Zenon
      <4> QED BY <4>1, <4>2, <4>3
    <3>3. seg_list' = [seg_list EXCEPT ![i] = seg]
      BY <1>2, <2>2
    <3> HIDE DEF used
    <3>4. /\ seg \in Segment /\ seg.id = seg_list[i].id
          /\ seg.size = seg_list[i].size /\ seg.code = seg_list[i].code
      BY <3>1, <3>2 DEF Segment
    <3> HIDE DEF seg
    <3> QED BY <1>1, <3>3, <3>4
  <2> QED BY <2>1, <2>2
<1>4. SegmentsAreOwn' /\ OneSegmentEach'
  BY <1>1, <1>3 DEF MemInv, SegmentsAreOwn, OneSegmentEach
<1>5. Allocated' = Allocated /\ (seg_list' = <<>> <=> seg_list = <<>>)
  <2>1. Held(seg_list') = Held(seg_list)
    BY <1>1, <1>3, HeldSame
  <2>2. seg_list' = <<>> <=> seg_list = <<>>
    BY <1>1, <1>3
  <2> QED BY <2>1, <2>2 DEF Allocated
<1>6. \A q \in Process : Loaded(q)' <=> Loaded(q)
  BY <1>1, <1>3 DEF Loaded
<1>7. LoadIsNew'
  BY <1>2, <1>6, CallTypes DEF MemInv, LoadIsNew
<1>8. MemTypeOK'
  BY <1>1, <1>2, <1>3 DEF MemInv, MemTypeOK
<1> QED BY <1>4, <1>5, <1>6, <1>7, <1>8 DEF MemInv

(* The bounds of SwapFreesEnough hold of each pass.                        *)
LEMMA SwapMem ==
    ASSUME MemInv, load_swap
    PROVE  LET size == loading.seg.size
               freed == loading'.value - mem_remaining
           IN  /\ PAGE_SIZE * Cardinality(Unused(seg_list)) >= size => freed >= size
               /\ freed < size + PAGE_SIZE * (Len(seg_list) + 1)
<1> DEFINE size == loading.seg.size
           pass == memory_page_swap(seg_list, size)
<1>1. /\ loading.at = "swap"
      /\ loading' = [loading EXCEPT !.at = "sum", !.value = mem_remaining + pass.freed]
  BY DEF load_swap
<1>2. /\ seg_list \in Seq(Segment) /\ mem_remaining \in Nat /\ size \in Nat
      /\ loading = [at |-> loading.at, seg |-> loading.seg, value |-> loading.value]
  BY <1>1, CallTypes, MemTypes DEF MemInv
<1>3. /\ PAGE_SIZE * Cardinality(Unused(seg_list)) >= size => pass.freed >= size
      /\ pass.freed \in Nat /\ pass.freed < size + PAGE_SIZE * (Len(seg_list) + 1)
  BY <1>2, PassFreesNoMore, PassFreesEnough
<1> HIDE DEF pass
<1>4. loading'.value = mem_remaining + pass.freed
  BY <1>1, <1>2
<1>5. loading'.value - mem_remaining = pass.freed
  BY <1>2, <1>3, <1>4
<1> QED BY <1>3, <1>5

-----------------------------------------------------------------------------
(* The balance of the memory *)

(* What a load has taken, and not yet added a segment for; and what will   *)
(* be left when the free that is under way has written it.                 *)
Pending == IF loading.at \in {"swap", "sum"} THEN loading.seg.size ELSE 0
Available ==
    IF freeing.at = "none" THEN mem_remaining
    ELSE IF freeing.at = "read" THEN mem_remaining + freeing.value
    ELSE freeing.value

(* Nothing is lost in the middle of a call either, as long as what a load  *)
(* has read is still what is left.                                         *)
Balanced ==
    /\ Available + Allocated + Pending >= MAX_MEM_SIZE
    /\ freeing # no_call => Available <= MAX_MEM_SIZE
    /\ freeing = no_call /\ seg_list = <<>> /\ loading.at \in {"none", "write"}
          => mem_remaining = MAX_MEM_SIZE
    /\ loading.at = "write" => loading.value = mem_remaining - loading.seg.size
    /\ loading.at = "sum" => loading.value >= mem_remaining

LEMMA BalancedAtRest ==
    ASSUME MemTypeOK, Balanced
    PROVE  NoLostMemory
BY CallTypes, MemTypes DEF Balanced, Pending, Available, NoLostMemory, no_call

LEMMA InitBalanced ==
    ASSUME segment_table_init
    PROVE  Balanced
<1>1. loading.at = "none" /\ freeing.at = "none"
  BY InitMem DEF no_call
<1> QED BY <1>1, InitMem, MemoryAssumption DEF Balanced, Pending, Available

LEMMA LoadKeepsBalance ==
    ASSUME MemInv, Balanced, ~UpdatesOverlap, ~UpdatesOverlap',
           NEW p \in Process, mem_req_load(p), loading = no_call => ~Loaded(p)
    PROVE  Balanced'
<1> DEFINE R == mem_remaining
           A == Allocated
           size == loading.seg.size
<1>1. R \in Nat /\ A \in Nat /\ MAX_MEM_SIZE \in Nat
  BY MemTypes DEF MemInv
<1>2. CASE load_begin(p)
  <2>1. /\ loading.at = "none" /\ loading'.at = "write"
        /\ loading'.value = R - loading'.seg.size
        /\ UNCHANGED <<seg_list, mem_remaining, freeing>>
    BY <1>2, LoadBeginMem DEF load_begin, no_call
  <2>2. Allocated' = Allocated
    BY <2>1 DEF Allocated
  <2> QED BY <2>1, <2>2 DEF Balanced, Pending, Available
<1>3. CASE load_write
  <2>1. /\ loading.at = "write" /\ freeing' = freeing
        /\ freeing.at = "none" /\ freeing = no_call
    BY <1>3, CallTypes DEF load_write, UpdatesOverlap, MemInv
  <2>2. /\ loading # no_call /\ size \in Nat /\ loading.value = R - size
        /\ R + A >= MAX_MEM_SIZE
    BY <2>1, CallTypes, <1>1 DEF MemInv, Balanced, Available, Pending
  <2>3. CASE loading.value < 0
    <3>1. /\ mem_remaining' = 0 /\ seg_list' = seg_list /\ loading'.at = "swap"
          /\ loading'.seg = loading.seg
      BY <1>1, <1>3, <2>2, <2>3, LoadWriteMem DEF MAXIMUM
    <3>2. A' = A
      BY <3>1 DEF Allocated
    <3>3. 0 + A + size >= MAX_MEM_SIZE
      BY <1>1, <2>2, <2>3
    <3> QED BY <2>1, <3>1, <3>2, <3>3 DEF Balanced, Available, Pending
  <2>4. CASE ~(loading.value < 0)
    <3>1. /\ mem_remaining' = R - size /\ loading' = no_call /\ segment_add
      BY <1>1, <1>3, <2>2, <2>4, LoadWriteMem DEF MAXIMUM
    <3>2. A' = A + size /\ seg_list' # <<>>
      BY <3>1, <2>2, SegmentAdded
    <3>3. R - size + (A + size) + 0 >= MAX_MEM_SIZE
      BY <1>1, <2>2
    <3>4. loading'.at = "none"
      BY <3>1 DEF no_call
    <3> QED BY <2>1, <3>1, <3>2, <3>3, <3>4 DEF Balanced, Available, Pending
  <2> QED BY <2>3, <2>4
<1>4. CASE load_swap
  <2>1. /\ loading.at = "swap" /\ loading'.at = "sum" /\ loading'.seg = loading.seg
        /\ mem_remaining' = R /\ A' = A /\ freeing' = freeing /\ loading'.value >= R
    BY <1>4, LoadSwapMem DEF load_swap
  <2>2. freeing = no_call
    BY <2>1 DEF UpdatesOverlap
  <2> QED BY <2>1, <2>2 DEF Balanced, Available, Pending
<1>5. CASE load_sum
  <2>1. /\ loading.at = "sum" /\ freeing' = freeing /\ freeing = no_call
        /\ freeing.at = "none"
    BY <1>5, CallTypes DEF load_sum, UpdatesOverlap, MemInv
  <2>2. /\ mem_remaining' = loading.value /\ loading' = no_call /\ segment_add
        /\ loading # no_call /\ size \in Nat /\ loading.value \in Nat
    BY <1>5, <2>1, LoadSumMem, CallTypes DEF MemInv
  <2>3. A' = A + size /\ seg_list' # <<>> /\ loading'.at = "none"
    BY <2>2, SegmentAdded DEF no_call
  <2>4. R + A + size >= MAX_MEM_SIZE /\ loading.value >= R
    BY <2>1 DEF Balanced, Available, Pending
  <2>5. loading.value + (A + size) + 0 >= MAX_MEM_SIZE
    BY <1>1, <2>2, <2>4
  <2> QED BY <2>1, <2>2, <2>3, <2>5 DEF Balanced, Available, Pending
<1> QED BY <1>2, <1>3, <1>4, <1>5 DEF mem_req_load

LEMMA FreeKeepsBalance ==
    ASSUME MemInv, Balanced, ~UpdatesOverlap, ~UpdatesOverlap',
           NEW p \in Process, segment_free(SegId[p])
    PROVE  Balanced'
<1> DEFINE R == mem_remaining
           A == Allocated
<1>1. /\ R \in Nat /\ A \in Nat /\ MAX_MEM_SIZE \in Nat
      /\ Pending \in Nat /\ loading.at \in {"none", "write", "swap", "sum"}
  BY MemTypes, CallTypes DEF MemInv, Pending, no_call
<1>2. CASE free_begin(SegId[p])
  <2>1. PICK size \in Nat :
          /\ A' = A - size
          /\ freeing' = IF MAX_MEM_SIZE <= R + size
                          THEN [at |-> "write", value |-> MAX_MEM_SIZE]
                          ELSE [at |-> "read", value |-> size]
    BY <1>2, FreeBeginMem
  <2>2. /\ freeing.at = "none" /\ freeing' # no_call /\ loading' = loading
        /\ mem_remaining' = R /\ MemInv'
    BY <1>2, FreeBeginMem DEF no_call
  <2>3. R + A + Pending >= MAX_MEM_SIZE
    BY <2>2 DEF Balanced, Available
  <2>4. A' \in Nat /\ Pending' = Pending
    <3>1. seg_list' \in Seq(Segment)
      BY <2>2 DEF MemInv, MemTypeOK
    <3> QED BY <2>2, <3>1, HeldFinite DEF Allocated, Pending
  <2>5. loading.at \notin {"write", "sum"}
    BY <2>2 DEF UpdatesOverlap
  <2>6. Available' + A' + Pending' >= MAX_MEM_SIZE /\ Available' <= MAX_MEM_SIZE
    <3>1. CASE MAX_MEM_SIZE <= R + size
      <4>1. freeing' = [at |-> "write", value |-> MAX_MEM_SIZE]
        BY <2>1, <3>1
      <4>2. Available' = MAX_MEM_SIZE
        BY <4>1 DEF Available
      <4>3. Allocated' \in Nat /\ Pending' \in Nat /\ MAX_MEM_SIZE \in Nat
        BY <1>1, <2>4
      <4>4. \A a, b, m \in Nat : m + a + b >= m /\ m <= m
        OBVIOUS
      <4> QED BY <4>2, <4>3, <4>4
    <3>2. CASE ~(MAX_MEM_SIZE <= R + size)
      <4>1. freeing' = [at |-> "read", value |-> size]
        BY <2>1, <3>2
      <4>2. Available' = R + size
        BY <2>2, <4>1 DEF Available
      <4> QED BY <1>1, <2>1, <2>3, <2>4, <3>2, <4>2
    <3> QED BY <3>1, <3>2
  <2> QED BY <2>2, <2>5, <2>6 DEF Balanced
<1>3. CASE free_read
  <2>1. /\ freeing # no_call /\ freeing.at = "read" /\ freeing' # no_call
        /\ freeing'.at = "write" /\ freeing'.value = R + freeing.value
        /\ UNCHANGED <<seg_list, mem_remaining, loading>>
    BY <1>3, FreeReadMem
  <2>2. A' = A /\ Pending' = Pending /\ Available' = Available
    BY <2>1 DEF Allocated, Pending, Available
  <2>3. loading.at \notin {"write", "sum"}
    BY <2>1 DEF UpdatesOverlap
  <2> QED BY <2>1, <2>2, <2>3 DEF Balanced
<1>4. CASE free_write
  <2>1. /\ freeing # no_call /\ freeing.at = "write" /\ freeing' = no_call
        /\ UNCHANGED <<seg_list, loading>> /\ mem_remaining' = freeing.value
        /\ freeing.value \in Nat /\ freeing'.at = "none"
    BY <1>4, FreeWriteMem, CallTypes DEF MemInv, no_call
  <2>2. A' = A /\ Pending' = Pending /\ Available' = Available /\ Available = freeing.value
    BY <2>1 DEF Allocated, Pending, Available
  <2>3. loading.at \notin {"write", "sum"}
    BY <2>1 DEF UpdatesOverlap
  <2>4. ASSUME seg_list' = <<>>, loading'.at \in {"none", "write"}
        PROVE  mem_remaining' = MAX_MEM_SIZE
    <3>1. A = 0 /\ Pending = 0
      <4>1. Held(seg_list) = {}
        BY <2>1, <2>4 DEF Held
      <4> QED BY <2>1, <2>4, <4>1, FS_EmptySet DEF Allocated, Pending
    <3>2. freeing.value >= MAX_MEM_SIZE /\ freeing.value <= MAX_MEM_SIZE
      BY <1>1, <2>1, <2>2, <3>1 DEF Balanced
    <3> QED BY <1>1, <2>1, <3>2
  <2> QED BY <2>1, <2>2, <2>3, <2>4 DEF Balanced
<1> QED BY <1>2, <1>3, <1>4 DEF segment_free

LEMMA UseKeepsBalance ==
    ASSUME MemInv, Balanced, NEW i \in DOMAIN seg_list, NEW pc \in Nat, set_used(i, pc)
    PROVE  Balanced'
<1>1. /\ Allocated' = Allocated /\ (seg_list' = <<>> <=> seg_list = <<>>)
      /\ UNCHANGED <<mem_remaining, loading, freeing>>
  BY SetUsedMem DEF set_used
<1> QED BY <1>1 DEF Balanced, Available, Pending
=============================================================================
