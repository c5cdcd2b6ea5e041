-------------------------- MODULE LinkedListProofs --------------------------
(***************************************************************************)
(* Theorems about the doubly linked list, for any set of nodes.            *)
(*                                                                         *)
(* LinkedList: whatever calls one thread makes, in whatever order, the     *)
(* pointers stand for the sequence of nodes that were added and not        *)
(* removed.  This is what the modules that write a list as a sequence rely *)
(* on.                                                                     *)
(*                                                                         *)
(* ListSteps: for any threads, and any ways in which they use the list,    *)
(* this also holds statement by statement until two threads meet at the    *)
(* end of the list or at neighbours; until then a walk misses nobody; and  *)
(* the calls of a lone thread are steps of LinkedList.                     *)
(***************************************************************************)
EXTENDS ListSteps, TLAPS, SequenceTheorems, WellFoundedInduction

(* The inductive invariant.  Nodes are distinct, so a pointer that is      *)
(* changed belongs to one place of the sequence only.                      *)
ListInv == ListTypeOK /\ Represents

-----------------------------------------------------------------------------
(* What the four changes of the sequence do to its places.                 *)

LEMMA AppendPlaces ==
    ASSUME NEW s \in Seq(Node), NEW n \in Node
    PROVE  /\ Append(s, n) \in Seq(Node) /\ Append(s, n) # <<>>
           /\ Len(Append(s, n)) = Len(s) + 1
           /\ \A i \in 1..Len(s) : Append(s, n)[i] = s[i]
           /\ Append(s, n)[Len(s) + 1] = n
OBVIOUS

LEMMA TailPlaces ==
    ASSUME NEW s \in Seq(Node), s # <<>>
    PROVE  /\ Tail(s) \in Seq(Node) /\ Len(Tail(s)) = Len(s) - 1
           /\ \A i \in 1..(Len(s) - 1) : Tail(s)[i] = s[i + 1]
OBVIOUS

LEMMA FrontPlaces ==
    ASSUME NEW s \in Seq(Node), s # <<>>
    PROVE  /\ Front(s) \in Seq(Node) /\ Len(Front(s)) = Len(s) - 1
           /\ \A i \in 1..(Len(s) - 1) : Front(s)[i] = s[i]
<1>1. Len(s) \in Nat /\ Len(s) >= 1
  OBVIOUS
<1>2. PICK p \in Nat : Len(s) = p + 1
  BY <1>1
<1>3. \A i \in 1..p : i \in 1..Len(s)
  BY <1>2
<1> DEFINE f == SubSeq(s, 1, p)
<1>4. f \in Seq(Node) /\ Len(f) = p /\ \A i \in 1..p : f[i] = s[i]
  BY <1>2, <1>3
<1>5. Front(s) = f /\ Len(s) - 1 = p
  BY <1>2 DEF Front
<1> HIDE DEF f
<1> QED BY <1>4, <1>5

LEMMA RemoveAtPlaces ==
    ASSUME NEW s \in Seq(Node), NEW k \in 1..Len(s)
    PROVE  /\ RemoveAt(s, k) \in Seq(Node) /\ Len(RemoveAt(s, k)) = Len(s) - 1
           /\ \A i \in 1..(Len(s) - 1) :
                RemoveAt(s, k)[i] = IF i < k THEN s[i] ELSE s[i + 1]
<1> DEFINE a == SubSeq(s, 1, k - 1)
           b == SubSeq(s, k + 1, Len(s))
<1>1. k \in Int /\ 1 <= k /\ k <= Len(s) /\ Len(s) \in Nat
  OBVIOUS
<1>2. a \in Seq(Node) /\ Len(a) = k - 1 /\ \A i \in 1..(k - 1) : a[i] = s[i]
  BY <1>1
<1>3. /\ b \in Seq(Node) /\ Len(b) = Len(s) - k
      /\ \A i \in 1..(Len(s) - k) : b[i] = s[k + i]
  BY <1>1
<1> DEFINE r == RemoveAt(s, k)
<1>4. r = a \o b
  BY DEF RemoveAt
<1> HIDE DEF a, b, r
<1>5. r \in Seq(Node) /\ Len(r) = Len(s) - 1
  <2>1. a \in Seq(Node) /\ b \in Seq(Node)
    BY <1>2, <1>3
  <2>2. a \o b \in Seq(Node) /\ Len(a \o b) = Len(a) + Len(b)
    BY <2>1
  <2>3. Len(a) + Len(b) = Len(s) - 1
    BY <1>1, <1>2, <1>3
  <2> HIDE DEF r
  <2> QED BY <2>2, <2>3, <1>4
<1>6. ASSUME NEW i \in 1..(Len(s) - 1)
      PROVE  r[i] = IF i < k THEN s[i] ELSE s[i + 1]
  <2>0. i \in Int /\ 1 <= i /\ i <= Len(s) - 1
    BY <1>1
  <2>1. CASE i < k
    BY <2>0, <2>1, <1>1, <1>2, <1>3, <1>4
  <2>2. CASE i >= k
    <3>1. i - (k - 1) \in 1..(Len(s) - k) /\ k + (i - (k - 1)) = i + 1
      BY <2>0, <2>2, <1>1
    <3>2. r[i] = b[i - (k - 1)]
      BY <2>0, <2>2, <1>1, <1>2, <1>3, <1>4
    <3> QED BY <3>1, <3>2, <2>0, <2>2, <1>1, <1>3
  <2> QED BY <2>0, <2>1, <2>2, <1>1
<1> QED BY <1>5, <1>6 DEF r

-----------------------------------------------------------------------------
(* What the pointers say of the first L places of l.                       *)
Linked(l, L, nx, pv) ==
    \A i \in 1..L :
      /\ l[i] \in Node
      /\ nx[l[i]] = IF i = L THEN NULL ELSE l[i + 1]
      /\ pv[l[i]] = IF i = 1 THEN NULL ELSE l[i - 1]

Distinct(l, L) == \A i, j \in 1..L : l[i] = l[j] => i = j

Pointers == [Node -> Node \cup {NULL}]

(* The invariant, place by place.                                          *)
LEMMA Places ==
    ASSUME ListInv
    PROVE  /\ listed \in Seq(Node) /\ Len(listed) \in Nat /\ size = Len(listed)
           /\ Linked(listed, Len(listed), next, prev) /\ Distinct(listed, Len(listed))
           /\ next \in Pointers /\ prev \in Pointers
           /\ listed = <<>> => head = NULL /\ tail = NULL
           /\ listed # <<>> =>
                /\ Len(listed) >= 1 /\ head = listed[1] /\ tail = listed[Len(listed)]
                /\ head \in Node /\ tail \in Node
<1>1. listed \in Seq(Node) /\ next \in Pointers /\ prev \in Pointers
  BY DEF ListInv, ListTypeOK, Pointers
<1>2. Len(listed) \in Nat /\ DOMAIN listed = 1..Len(listed)
      /\ \A i \in 1..Len(listed) : listed[i] \in Node
  BY <1>1
<1>3. Linked(listed, Len(listed), next, prev) /\ Distinct(listed, Len(listed))
  BY <1>2 DEF ListInv, Represents, PointersRepresent, IsInjective, Linked, Distinct
<1>4. /\ size = Len(listed)
      /\ listed = <<>> => head = NULL /\ tail = NULL
      /\ listed # <<>> => head = listed[1] /\ tail = listed[Len(listed)]
  BY DEF ListInv, Represents, PointersRepresent
<1>5. listed # <<>> => Len(listed) >= 1
  BY <1>1
<1>6. listed # <<>> => listed[1] \in Node /\ listed[Len(listed)] \in Node
  BY <1>2, <1>5
<1> QED BY <1>1, <1>2, <1>3, <1>4, <1>5, <1>6

(* And back: what must be shown of the new state.                          *)
LEMMA FromPlaces ==
    ASSUME listed' \in Seq(Node), size' = Len(listed'),
           Linked(listed', Len(listed'), next', prev'), Distinct(listed', Len(listed')),
           next' \in Pointers, prev' \in Pointers,
           head' = IF listed' = <<>> THEN NULL ELSE listed'[1],
           tail' = IF listed' = <<>> THEN NULL ELSE listed'[Len(listed')]
    PROVE  ListInv'
<1>1. DOMAIN listed' = 1..Len(listed') /\ Len(listed') \in Nat
  OBVIOUS
<1>2. listed' # <<>> => listed'[1] \in Node /\ listed'[Len(listed')] \in Node
  OBVIOUS
<1>3. ListTypeOK'
  BY <1>1, <1>2 DEF ListTypeOK, Pointers
<1>4. PointersRepresent'
  BY <1>1 DEF PointersRepresent, IsInjective, Linked, Distinct
<1> QED BY <1>3, <1>4 DEF ListInv, Represents

-----------------------------------------------------------------------------
(* What each function does to the pointers, over places only.              *)

LEMMA LinkedAfterAdd ==
    ASSUME NEW L \in Nat, NEW l, NEW m, NEW n \in Node, NEW nx \in Pointers, NEW pv \in Pointers,
           NEW nx2, NEW pv2, L # 0,
           Linked(l, L, nx, pv), Distinct(l, L),
           \A i \in 1..L : l[i] # n /\ m[i] = l[i],
           m[L + 1] = n,
           nx2 = [nx EXCEPT ![n] = NULL, ![l[L]] = n],
           pv2 = [pv EXCEPT ![n] = l[L]]
    PROVE  Linked(m, L + 1, nx2, pv2)
<1> SUFFICES ASSUME NEW i \in 1..(L + 1)
             PROVE  /\ m[i] \in Node
                    /\ nx2[m[i]] = IF i = L + 1 THEN NULL ELSE m[i + 1]
                    /\ pv2[m[i]] = IF i = 1 THEN NULL ELSE m[i - 1]
  BY DEF Linked
<1>1. CASE i = L + 1
  <2>1. L \in 1..L /\ l[L] \in Node /\ m[L] = l[L] /\ l[L] # n
    BY DEF Linked
  <2>2. nx2[n] = NULL /\ pv2[n] = l[L]
    BY <2>1 DEF Pointers
  <2> QED BY <1>1, <2>1, <2>2
<1>2. CASE i = L
  <2>1. L \in 1..L /\ l[L] \in Node /\ m[L] = l[L] /\ l[L] # n
        /\ pv[l[L]] = IF L = 1 THEN NULL ELSE l[L - 1]
    BY DEF Linked
  <2>2. nx2[l[L]] = n /\ pv2[l[L]] = pv[l[L]]
    BY <2>1 DEF Pointers
  <2>3. L # 1 => m[L - 1] = l[L - 1]
    BY <2>1
  <2> QED BY <1>2, <2>1, <2>2, <2>3
<1>3. CASE i < L
  <2>1. i \in 1..L /\ i + 1 \in 1..L /\ L \in 1..L /\ l[i] \in Node
        /\ nx[l[i]] = l[i + 1] /\ pv[l[i]] = IF i = 1 THEN NULL ELSE l[i - 1]
    BY <1>3 DEF Linked
  <2>2. l[i] # n /\ l[i] # l[L] /\ l[L] \in Node
    BY <1>3, <2>1 DEF Distinct, Linked
  <2>3. nx2[l[i]] = nx[l[i]] /\ pv2[l[i]] = pv[l[i]]
    BY <2>1, <2>2 DEF Pointers
  <2>4. m[i] = l[i] /\ m[i + 1] = l[i + 1] /\ (i # 1 => m[i - 1] = l[i - 1])
    BY <2>1
  <2> QED BY <1>3, <2>1, <2>3, <2>4
<1> QED BY <1>1, <1>2, <1>3

LEMMA LinkedAfterRemoveHead ==
    ASSUME NEW L \in Nat, NEW l, NEW m, NEW nx \in Pointers, NEW pv \in Pointers,
           NEW nx2, NEW pv2, L >= 1,
           Linked(l, L, nx, pv), Distinct(l, L),
           \A i \in 1..(L - 1) : m[i] = l[i + 1],
           nx2 = [nx EXCEPT ![l[1]] = NULL],
           L > 1 => pv2 = [pv EXCEPT ![l[2]] = NULL, ![l[1]] = NULL]
    PROVE  Linked(m, L - 1, nx2, pv2)
<1> SUFFICES ASSUME NEW i \in 1..(L - 1)
             PROVE  /\ m[i] \in Node
                    /\ nx2[m[i]] = IF i = L - 1 THEN NULL ELSE m[i + 1]
                    /\ pv2[m[i]] = IF i = 1 THEN NULL ELSE m[i - 1]
  BY DEF Linked
<1> DEFINE k == i + 1
<1>1. i \in 1..L /\ k \in 1..L /\ 1 \in 1..L /\ 2 \in 1..L /\ m[i] = l[k]
  OBVIOUS
<1>2. l[k] \in Node /\ l[1] \in Node /\ l[2] \in Node
      /\ nx[l[k]] = (IF k = L THEN NULL ELSE l[k + 1]) /\ pv[l[k]] = l[i]
  BY <1>1 DEF Linked
<1>3. l[k] # l[1] /\ (i # 1 => l[k] # l[2])
  BY <1>1 DEF Distinct
<1>4. nx2[l[k]] = nx[l[k]] /\ pv2[l[k]] = IF i = 1 THEN NULL ELSE pv[l[k]]
  BY <1>1, <1>2, <1>3 DEF Pointers
<1>5. (i # L - 1 => m[i + 1] = l[k + 1]) /\ (i # 1 => m[i - 1] = l[i])
  OBVIOUS
<1> QED BY <1>1, <1>2, <1>4, <1>5

LEMMA LinkedAfterRemoveTail ==
    ASSUME NEW L \in Nat, NEW l, NEW m, NEW nx \in Pointers, NEW pv \in Pointers,
           NEW nx2, NEW pv2, L >= 1,
           Linked(l, L, nx, pv), Distinct(l, L),
           \A i \in 1..(L - 1) : m[i] = l[i],
           pv2 = [pv EXCEPT ![l[L]] = NULL],
           L > 1 => nx2 = [nx EXCEPT ![l[L - 1]] = NULL, ![l[L]] = NULL]
    PROVE  Linked(m, L - 1, nx2, pv2)
<1> SUFFICES ASSUME NEW i \in 1..(L - 1)
             PROVE  /\ m[i] \in Node
                    /\ nx2[m[i]] = IF i = L - 1 THEN NULL ELSE m[i + 1]
                    /\ pv2[m[i]] = IF i = 1 THEN NULL ELSE m[i - 1]
  BY DEF Linked
<1>1. i \in 1..L /\ i # L /\ L \in 1..L /\ L - 1 \in 1..L /\ m[i] = l[i]
  OBVIOUS
<1>2. l[i] \in Node /\ l[L] \in Node /\ l[L - 1] \in Node
      /\ nx[l[i]] = l[i + 1] /\ pv[l[i]] = IF i = 1 THEN NULL ELSE l[i - 1]
  BY <1>1 DEF Linked
<1>3. l[i] # l[L] /\ (i # L - 1 => l[i] # l[L - 1])
  BY <1>1 DEF Distinct
<1>4. pv2[l[i]] = pv[l[i]] /\ nx2[l[i]] = IF i = L - 1 THEN NULL ELSE nx[l[i]]
  BY <1>1, <1>2, <1>3 DEF Pointers
<1>5. (i # L - 1 => m[i + 1] = l[i + 1]) /\ (i # 1 => m[i - 1] = l[i - 1])
  OBVIOUS
<1> QED BY <1>1, <1>2, <1>4, <1>5

LEMMA LinkedAfterRemoveNode ==
    ASSUME NEW L \in Nat, NEW k \in 1..L, NEW l, NEW m, NEW nx \in Pointers, NEW pv \in Pointers,
           NEW nx2, NEW pv2,
           Linked(l, L, nx, pv), Distinct(l, L),
           \A i \in 1..(L - 1) : m[i] = IF i < k THEN l[i] ELSE l[i + 1],
           nx2 = IF k = 1 THEN nx ELSE [nx EXCEPT ![l[k - 1]] = nx[l[k]]],
           pv2 = IF k = L THEN pv ELSE [pv EXCEPT ![l[k + 1]] = pv[l[k]]]
    PROVE  Linked(m, L - 1, nx2, pv2)
<1> SUFFICES ASSUME NEW i \in 1..(L - 1)
             PROVE  /\ m[i] \in Node
                    /\ nx2[m[i]] = IF i = L - 1 THEN NULL ELSE m[i + 1]
                    /\ pv2[m[i]] = IF i = 1 THEN NULL ELSE m[i - 1]
  BY DEF Linked
<1>0. nx[l[k]] = (IF k = L THEN NULL ELSE l[k + 1])
      /\ pv[l[k]] = IF k = 1 THEN NULL ELSE l[k - 1]
  BY DEF Linked
<1>1. ASSUME NEW j \in 1..L, j # k
      PROVE  /\ nx2[l[j]] = IF j = k - 1 THEN nx[l[k]] ELSE nx[l[j]]
             /\ pv2[l[j]] = IF j = k + 1 THEN pv[l[k]] ELSE pv[l[j]]
  <2>1. l[j] \in Node
    BY DEF Linked
  <2>2. nx2[l[j]] = IF j = k - 1 THEN nx[l[k]] ELSE nx[l[j]]
    <3>1. CASE k = 1
      BY <3>1
    <3>2. CASE k # 1
      <4>1. k - 1 \in 1..L /\ l[k - 1] \in Node /\ (j # k - 1 => l[j] # l[k - 1])
        BY <3>2 DEF Linked, Distinct
      <4> QED BY <4>1, <3>2, <2>1 DEF Pointers
    <3> QED BY <3>1, <3>2
  <2>3. pv2[l[j]] = IF j = k + 1 THEN pv[l[k]] ELSE pv[l[j]]
    <3>1. CASE k = L
      BY <3>1
    <3>2. CASE k # L
      <4>1. k + 1 \in 1..L /\ l[k + 1] \in Node /\ (j # k + 1 => l[j] # l[k + 1])
        BY <3>2 DEF Linked, Distinct
      <4> QED BY <4>1, <3>2, <2>1 DEF Pointers
    <3> QED BY <3>1, <3>2
  <2> QED BY <2>2, <2>3
<1>2. CASE i < k
  <2>1. i \in 1..L /\ i # k /\ m[i] = l[i] /\ l[i] \in Node
        /\ nx[l[i]] = l[i + 1] /\ pv[l[i]] = IF i = 1 THEN NULL ELSE l[i - 1]
    BY <1>2 DEF Linked
  <2>2. /\ nx2[l[i]] = IF i = k - 1 THEN nx[l[k]] ELSE l[i + 1]
        /\ pv2[l[i]] = IF i = 1 THEN NULL ELSE l[i - 1]
    BY <2>1, <1>1, <1>2
  <2>3. /\ i # L - 1 => m[i + 1] = IF i = k - 1 THEN l[k + 1] ELSE l[i + 1]
        /\ i # 1 => m[i - 1] = l[i - 1]
    BY <1>2
  <2> QED BY <2>1, <2>2, <2>3, <1>0, <1>2
<1>3. CASE i >= k
  <2> DEFINE j == i + 1
  <2>1. j \in 1..L /\ j # k /\ j # k - 1 /\ m[i] = l[j] /\ l[j] \in Node
        /\ nx[l[j]] = (IF j = L THEN NULL ELSE l[j + 1]) /\ pv[l[j]] = l[i]
    BY <1>3 DEF Linked
  <2>2. /\ nx2[l[j]] = IF j = L THEN NULL ELSE l[j + 1]
        /\ pv2[l[j]] = IF j = k + 1 THEN pv[l[k]] ELSE l[i]
    BY <2>1, <1>1
  <2>3. /\ i # L - 1 => m[i + 1] = l[j + 1]
        /\ i # 1 => m[i - 1] = IF i = k THEN l[k - 1] ELSE l[i]
    BY <1>3
  <2> QED BY <2>1, <2>2, <2>3, <1>0, <1>3
<1> QED BY <1>2, <1>3

-----------------------------------------------------------------------------
(* The invariant is kept by each function.                                 *)

LEMMA InitListInv == list_init => ListInv
BY DEF list_init, ListInv, ListTypeOK, Represents, PointersRepresent, IsInjective

LEMMA AddListInv ==
    ASSUME ListInv, NEW n \in Node, list_add(n)
    PROVE  ListInv'
<1> DEFINE L == Len(listed)
<1>1. \A i \in 1..L : listed[i] # n
  BY Places DEF list_add, Listed
<1>2. /\ listed' \in Seq(Node) /\ listed' # <<>> /\ Len(listed') = L + 1
      /\ \A i \in 1..L : listed'[i] = listed[i]
      /\ listed'[L + 1] = n
  BY Places, AppendPlaces DEF list_add
<1>3. Distinct(listed', L + 1)
  BY <1>1, <1>2, Places DEF Distinct
<1>4. size' = L + 1 /\ tail' = n /\ head' = listed'[1] /\ next' \in Pointers /\ prev' \in Pointers
  BY <1>2, Places, NullAssumption DEF list_add, Pointers
<1>5. Linked(listed', L + 1, next', prev')
  <2>1. CASE listed = <<>>
    <3>1. L = 0 /\ next'[n] = NULL /\ prev'[n] = NULL
      BY <2>1, Places DEF list_add, Pointers
    <3> QED BY <3>1, <1>2 DEF Linked
  <2>2. CASE listed # <<>>
    <3>1. /\ next' = [next EXCEPT ![n] = NULL, ![listed[L]] = n]
          /\ prev' = [prev EXCEPT ![n] = listed[L]]
          /\ L \in Nat /\ L # 0
      BY <2>2, Places, NullAssumption DEF list_add
    <3>2. Linked(listed, L, next, prev) /\ Distinct(listed, L) /\ next \in Pointers /\ prev \in Pointers
      BY Places
    <3> HIDE DEF L
    <3> QED BY <3>1, <3>2, <1>1, <1>2, LinkedAfterAdd
  <2> QED BY <2>1, <2>2
<1> QED BY <1>2, <1>3, <1>4, <1>5, FromPlaces

LEMMA RemoveHeadListInv ==
    ASSUME ListInv, list_remove_head
    PROVE  ListInv'
<1> DEFINE L == Len(listed)
<1>1. L \in Nat /\ L >= 1 /\ listed # <<>> /\ head = listed[1] /\ head \in Node
  BY Places DEF list_remove_head
<1>2. /\ listed' \in Seq(Node) /\ Len(listed') = L - 1
      /\ \A i \in 1..(L - 1) : listed'[i] = listed[i + 1]
  BY <1>1, Places, TailPlaces DEF list_remove_head
<1>3. Distinct(listed', L - 1)
  BY <1>1, <1>2, Places DEF Distinct
<1>4. next[head] = IF L = 1 THEN NULL ELSE listed[2]
  BY <1>1, Places DEF Linked
<1>5. L > 1 => listed[2] \in Node /\ listed[2] # NULL
  BY <1>1, Places, NullAssumption DEF Linked
<1>6. /\ next' = [next EXCEPT ![listed[1]] = NULL]
      /\ L > 1 => prev' = [prev EXCEPT ![listed[2]] = NULL, ![listed[1]] = NULL]
      /\ next' \in Pointers /\ prev' \in Pointers
  BY <1>1, <1>4, <1>5, Places DEF list_remove_head, Pointers
<1>7. size' = L - 1 /\ (listed' = <<>> <=> L = 1)
  <2>1. size' = L - 1
    BY Places DEF list_remove_head
  <2> QED BY <2>1, <1>1, <1>2
<1>8. /\ head' = IF listed' = <<>> THEN NULL ELSE listed'[1]
      /\ tail' = IF listed' = <<>> THEN NULL ELSE listed'[L - 1]
  BY <1>1, <1>2, <1>4, <1>5, <1>7, Places DEF list_remove_head
<1>9. Linked(listed', L - 1, next', prev')
  <2>1. Linked(listed, L, next, prev) /\ Distinct(listed, L) /\ next \in Pointers /\ prev \in Pointers
    BY Places
  <2> HIDE DEF L
  <2> QED BY <2>1, <1>1, <1>2, <1>6, LinkedAfterRemoveHead
<1> QED BY <1>2, <1>3, <1>6, <1>7, <1>8, <1>9, FromPlaces

LEMMA RemoveTailListInv ==
    ASSUME ListInv, list_remove_tail
    PROVE  ListInv'
<1> DEFINE L == Len(listed)
<1>1. L \in Nat /\ L >= 1 /\ listed # <<>> /\ tail = listed[L] /\ head = listed[1] /\ tail \in Node
  BY Places DEF list_remove_tail
<1>2. /\ listed' \in Seq(Node) /\ Len(listed') = L - 1
      /\ \A i \in 1..(L - 1) : listed'[i] = listed[i]
  BY <1>1, Places, FrontPlaces DEF list_remove_tail
<1>3. Distinct(listed', L - 1)
  BY <1>1, <1>2, Places DEF Distinct
<1>4. prev[tail] = IF L = 1 THEN NULL ELSE listed[L - 1]
  BY <1>1, Places DEF Linked
<1>5. L > 1 => listed[L - 1] \in Node /\ listed[L - 1] # NULL
  BY <1>1, Places, NullAssumption DEF Linked
<1>6. /\ prev' = [prev EXCEPT ![listed[L]] = NULL]
      /\ L > 1 => next' = [next EXCEPT ![listed[L - 1]] = NULL, ![listed[L]] = NULL]
      /\ next' \in Pointers /\ prev' \in Pointers
  BY <1>1, <1>4, <1>5, Places DEF list_remove_tail, Pointers
<1>7. size' = L - 1 /\ (listed' = <<>> <=> L = 1)
  BY <1>1, <1>2, Places DEF list_remove_tail
<1>8. /\ head' = IF listed' = <<>> THEN NULL ELSE listed'[1]
      /\ tail' = IF listed' = <<>> THEN NULL ELSE listed'[L - 1]
  BY <1>1, <1>2, <1>4, <1>5, <1>7 DEF list_remove_tail
<1>9. Linked(listed', L - 1, next', prev')
  <2>1. Linked(listed, L, next, prev) /\ Distinct(listed, L) /\ next \in Pointers /\ prev \in Pointers
    BY Places
  <2> HIDE DEF L
  <2> QED BY <2>1, <1>1, <1>2, <1>6, LinkedAfterRemoveTail
<1> QED BY <1>2, <1>3, <1>6, <1>7, <1>8, <1>9, FromPlaces

LEMMA RemoveNodeListInv ==
    ASSUME ListInv, NEW k \in DOMAIN listed, list_remove_node(k)
    PROVE  ListInv'
<1> DEFINE L == Len(listed)
           n == listed[k]
<1>1. /\ L \in Nat /\ L >= 1 /\ listed # <<>> /\ k \in 1..L
      /\ head = listed[1] /\ tail = listed[L]
  BY Places
<1>2. /\ listed' \in Seq(Node) /\ Len(listed') = L - 1
      /\ \A i \in 1..(L - 1) :
           listed'[i] = IF i < k THEN listed[i] ELSE listed[i + 1]
  BY <1>1, Places, RemoveAtPlaces DEF list_remove_node
<1>3. Distinct(listed', L - 1)
  BY <1>1, <1>2, Places DEF Distinct
<1>4. /\ n \in Node
      /\ next[n] = IF k = L THEN NULL ELSE listed[k + 1]
      /\ prev[n] = IF k = 1 THEN NULL ELSE listed[k - 1]
      /\ k # L => listed[k + 1] \in Node /\ listed[k + 1] # NULL
      /\ k # 1 => listed[k - 1] \in Node /\ listed[k - 1] # NULL
  BY <1>1, Places, NullAssumption DEF Linked
<1>5. n = head <=> k = 1
  BY <1>1, Places DEF Distinct
<1>6. n = tail <=> k = L
  BY <1>1, Places DEF Distinct
<1>7. /\ next' = IF k = 1 THEN next ELSE [next EXCEPT ![listed[k - 1]] = next[n]]
      /\ prev' = IF k = L THEN prev ELSE [prev EXCEPT ![listed[k + 1]] = prev[n]]
      /\ head' = IF k = 1 THEN next[n] ELSE head
      /\ tail' = IF k = L THEN prev[n] ELSE tail
  <2> HIDE DEF n, L
  <2>1. (prev[n] # NULL <=> k # 1) /\ (next[n] # NULL <=> k # L)
    BY <1>4
  <2>2. prev[n] = IF k = 1 THEN NULL ELSE listed[k - 1]
    BY <1>4
  <2>3. next[n] = IF k = L THEN NULL ELSE listed[k + 1]
    BY <1>4
  <2> QED BY <2>1, <2>2, <2>3, <1>5, <1>6 DEF list_remove_node, n
<1>8. next' \in Pointers /\ prev' \in Pointers
  <2>1. next \in Pointers /\ prev \in Pointers
    BY Places
  <2> HIDE DEF n, L
  <2> QED BY <2>1, <1>4, <1>7 DEF Pointers
<1>9. size' = L - 1 /\ (listed' = <<>> <=> L = 1)
  BY <1>1, <1>2, Places DEF list_remove_node
<1>10. /\ head' = IF listed' = <<>> THEN NULL ELSE listed'[1]
       /\ tail' = IF listed' = <<>> THEN NULL ELSE listed'[L - 1]
  <2> HIDE DEF n, L
  <2> QED BY <1>1, <1>2, <1>4, <1>7, <1>9
<1>11. Linked(listed', L - 1, next', prev')
  <2>1. Linked(listed, L, next, prev) /\ Distinct(listed, L) /\ next \in Pointers /\ prev \in Pointers
    BY Places
  <2>2. /\ next' = IF k = 1 THEN next ELSE [next EXCEPT ![listed[k - 1]] = next[listed[k]]]
        /\ prev' = IF k = L THEN prev ELSE [prev EXCEPT ![listed[k + 1]] = prev[listed[k]]]
    BY <1>7
  <2> HIDE DEF n, L
  <2> QED BY <2>1, <2>2, <1>1, <1>2, LinkedAfterRemoveNode
<1> QED BY <1>2, <1>3, <1>8, <1>9, <1>10, <1>11, FromPlaces

LEMMA ListInvariant == ListSpec => []ListInv
<1>1. ListInv /\ [ListNext]_list_vars => ListInv'
  <2> SUFFICES ASSUME ListInv, [ListNext]_list_vars PROVE ListInv'
    OBVIOUS
  <2>1. CASE \E n \in Node : list_add(n)
    BY <2>1, AddListInv
  <2>2. CASE list_remove_head
    BY <2>2, RemoveHeadListInv
  <2>3. CASE \E k \in DOMAIN listed : list_remove_node(k)
    BY <2>3, RemoveNodeListInv
  <2>4. CASE list_remove_tail
    BY <2>4, RemoveTailListInv
  <2>5. CASE UNCHANGED list_vars
    BY <2>5 DEF list_vars, ListInv, ListTypeOK, Represents, PointersRepresent
  <2> QED BY <2>1, <2>2, <2>3, <2>4, <2>5 DEF ListNext
<1> QED BY <1>1, InitListInv, PTL DEF ListSpec

(* The fields of list_t and list_node_t keep their types; size does not go *)
(* below zero.                                                             *)
THEOREM ListTypes == ListSpec => []ListTypeOK
BY ListInvariant, PTL DEF ListInv

(* From head along next and from tail along prev one meets the nodes that  *)
(* were added and not removed, in the order in which they were added, and  *)
(* size is their number.                                                   *)
THEOREM ListRepresents == ListSpec => []Represents
BY ListInvariant, PTL DEF ListInv

-----------------------------------------------------------------------------
(* ListSteps: places that are skipped.                                     *)

(* While calls are under way some places of the list are skipped: A holds  *)
(* those the pointers before them skip, B those the pointers behind them   *)
(* skip, O those whose own pointers no longer matter.  j is the node being *)
(* added once the end of the list points at it, e once tail does.          *)
Onward(l, L, A, j, i) ==
    LET k == IF i + 1 \in A THEN i + 2 ELSE i + 1 IN IF k <= L THEN l[k] ELSE j

Backward(l, B, i) ==
    LET k == IF i - 1 \in B THEN i - 2 ELSE i - 1 IN IF k >= 1 THEN l[k] ELSE NULL

Forwards(l, L, A, O, j, hd, nx) ==
    /\ hd = Onward(l, L, A, j, 0)
    /\ \A i \in (1..L) \ O : nx[l[i]] = Onward(l, L, A, j, i)

Backwards(l, L, B, O, e, tl, pv) ==
    /\ tl = IF e = NULL THEN Backward(l, B, L + 1) ELSE e
    /\ \A i \in (1..L) \ O : pv[l[i]] = Backward(l, B, i)

Nodes(l, L) == Distinct(l, L) /\ \A i \in 1..L : l[i] \in Node

LEMMA ForwardsSkip ==
    ASSUME NEW L \in Nat, NEW l, NEW A, NEW O, NEW j, NEW hd, NEW nx \in Pointers,
           NEW k \in 1..L, NEW hd2, NEW nx2,
           Nodes(l, L), Forwards(l, L, A, O, j, hd, nx), k \notin O, k + 1 \notin A,
           nx2 = IF k = 1 THEN nx ELSE [nx EXCEPT ![l[k - 1]] = nx[l[k]]],
           hd2 = IF k = 1 THEN nx[l[k]] ELSE hd
    PROVE  Forwards(l, L, A \cup {k}, O, j, hd2, nx2)
<1> DEFINE A2 == A \cup {k}
<1>1. nx[l[k]] = Onward(l, L, A2, j, k - 1)
  BY DEF Forwards, Onward
<1>2. \A i \in Int : i + 1 # k => Onward(l, L, A2, j, i) = Onward(l, L, A, j, i)
  BY DEF Onward
<1> HIDE DEF A2
<1>3. hd2 = Onward(l, L, A2, j, 0)
  BY <1>1, <1>2 DEF Forwards
<1>4. ASSUME NEW i \in (1..L) \ O
      PROVE  nx2[l[i]] = Onward(l, L, A2, j, i)
  <2>1. CASE i + 1 = k
    <3>1. k # 1 /\ k - 1 = i /\ l[i] \in Node
      BY <2>1 DEF Nodes
    <3> QED BY <3>1, <1>1, <2>1 DEF Pointers
  <2>2. CASE i + 1 # k
    <3>1. nx2[l[i]] = nx[l[i]]
      <4>1. k # 1 => k - 1 \in 1..L /\ l[k - 1] # l[i] /\ l[i] \in Node
        BY <2>2 DEF Nodes, Distinct
      <4> QED BY <4>1 DEF Pointers
    <3> QED BY <3>1, <1>2, <2>2 DEF Forwards
  <2> QED BY <2>1, <2>2
<1>5. Forwards(l, L, A2, O, j, hd2, nx2)
  BY <1>3, <1>4 DEF Forwards
<1> QED BY <1>5 DEF A2

LEMMA BackwardsSkip ==
    ASSUME NEW L \in Nat, NEW l, NEW B, NEW O, NEW e, NEW tl, NEW pv \in Pointers,
           NEW k \in 1..L, NEW tl2, NEW pv2,
           Nodes(l, L), Backwards(l, L, B, O, e, tl, pv), k \notin O, k - 1 \notin B,
           k = L => e = NULL,
           pv2 = IF k = L THEN pv ELSE [pv EXCEPT ![l[k + 1]] = pv[l[k]]],
           tl2 = IF k = L THEN pv[l[k]] ELSE tl
    PROVE  Backwards(l, L, B \cup {k}, O, e, tl2, pv2)
<1> DEFINE B2 == B \cup {k}
<1>1. pv[l[k]] = Backward(l, B2, k + 1)
  <2>1. pv[l[k]] = Backward(l, B, k)
    BY DEF Backwards
  <2> QED BY <2>1 DEF Backward
<1>2. \A i \in Int : i - 1 # k => Backward(l, B2, i) = Backward(l, B, i)
  BY DEF Backward
<1> HIDE DEF B2
<1>3. tl2 = IF e = NULL THEN Backward(l, B2, L + 1) ELSE e
  BY <1>1, <1>2 DEF Backwards
<1>4. ASSUME NEW i \in (1..L) \ O
      PROVE  pv2[l[i]] = Backward(l, B2, i)
  <2>1. CASE i - 1 = k
    <3>1. k # L /\ k + 1 = i /\ l[i] \in Node
      BY <2>1 DEF Nodes
    <3> QED BY <3>1, <1>1, <2>1 DEF Pointers
  <2>2. CASE i - 1 # k
    <3>1. pv2[l[i]] = pv[l[i]]
      <4>1. k # L => k + 1 \in 1..L /\ l[k + 1] # l[i] /\ l[i] \in Node
        BY <2>2 DEF Nodes, Distinct
      <4> QED BY <4>1 DEF Pointers
    <3> QED BY <3>1, <1>2, <2>2 DEF Backwards
  <2> QED BY <2>1, <2>2
<1>5. Backwards(l, L, B2, O, e, tl2, pv2)
  BY <1>3, <1>4 DEF Backwards
<1> QED BY <1>5 DEF B2

LEMMA ForwardsJoin ==
    ASSUME NEW L \in Nat, NEW l, NEW A, NEW O, NEW hd, NEW nx \in Pointers,
           NEW n \in Node, NEW hd2, NEW nx2,
           Nodes(l, L), Forwards(l, L, A, O, NULL, hd, nx), A \subseteq 1..L, L \notin A,
           hd2 = IF L = 0 THEN n ELSE hd,
           nx2 = IF L = 0 THEN nx ELSE [nx EXCEPT ![l[L]] = n]
    PROVE  Forwards(l, L, A, O, n, hd2, nx2)
<1>1. Onward(l, L, A, n, L) = n
  BY DEF Onward
<1>2. \A i \in 0..(L - 1) : Onward(l, L, A, n, i) = Onward(l, L, A, NULL, i)
  BY DEF Onward
<1>3. hd2 = Onward(l, L, A, n, 0)
  BY <1>1, <1>2 DEF Forwards
<1>4. ASSUME NEW i \in (1..L) \ O
      PROVE  nx2[l[i]] = Onward(l, L, A, n, i)
  <2>1. l[i] \in Node /\ l[L] \in Node /\ (i # L => l[i] # l[L])
    BY DEF Nodes, Distinct
  <2>2. nx2[l[i]] = IF i = L THEN n ELSE nx[l[i]]
    BY <2>1 DEF Pointers
  <2> QED BY <2>2, <1>1, <1>2 DEF Forwards
<1> QED BY <1>3, <1>4 DEF Forwards

(* A node that is not in the list, or whose pointers no longer matter, may *)
(* change its own.                                                         *)
LEMMA ForwardsOwn ==
    ASSUME NEW L \in Nat, NEW l, NEW A, NEW O, NEW j, NEW hd, NEW nx \in Pointers,
           NEW n \in Node, NEW v, Nodes(l, L),
           Forwards(l, L, A, O, j, hd, nx), \A i \in 1..L : l[i] = n => i \in O
    PROVE  Forwards(l, L, A, O, j, hd, [nx EXCEPT ![n] = v])
BY DEF Forwards, Nodes, Pointers

LEMMA BackwardsOwn ==
    ASSUME NEW L \in Nat, NEW l, NEW B, NEW O, NEW e, NEW tl, NEW pv \in Pointers,
           NEW n \in Node, NEW v, Nodes(l, L),
           Backwards(l, L, B, O, e, tl, pv), \A i \in 1..L : l[i] = n => i \in O
    PROVE  Backwards(l, L, B, O, e, tl, [pv EXCEPT ![n] = v])
BY DEF Backwards, Nodes, Pointers

(* list_add returns.                                                       *)
LEMMA ForwardsAppend ==
    ASSUME NEW L \in Nat, NEW l, NEW m, NEW A, NEW O, NEW hd, NEW nx,
           NEW n, A \subseteq 1..L, L \notin A,
           Forwards(l, L, A, O, n, hd, nx), nx[n] = NULL,
           \A i \in 1..L : m[i] = l[i], m[L + 1] = n
    PROVE  Forwards(m, L + 1, A, O, NULL, hd, nx)
<1>1. \A i \in 0..L : Onward(m, L + 1, A, NULL, i) = Onward(l, L, A, n, i)
  BY DEF Onward
<1>2. Onward(m, L + 1, A, NULL, L + 1) = NULL
  BY DEF Onward
<1> QED BY <1>1, <1>2 DEF Forwards

LEMMA BackwardsAppend ==
    ASSUME NEW L \in Nat, NEW l, NEW m, NEW B, NEW O, NEW tl, NEW pv,
           NEW n, B \subseteq 1..L, L \notin B, n # NULL,
           Backwards(l, L, B, O, n, tl, pv), pv[n] = IF L = 0 THEN NULL ELSE l[L],
           \A i \in 1..L : m[i] = l[i], m[L + 1] = n
    PROVE  Backwards(m, L + 1, B, O, NULL, tl, pv)
<1>1. \A i \in 1..L : Backward(m, B, i) = Backward(l, B, i)
  BY DEF Backward
<1>2. Backward(m, B, L + 1) = (IF L = 0 THEN NULL ELSE l[L]) /\ Backward(m, B, L + 2) = n
  BY DEF Backward
<1>3. tl = n
  BY DEF Backwards
<1> QED BY <1>1, <1>2, <1>3 DEF Backwards

(* A call that has removed place k returns: the places behind it move up.  *)
Shift(k, i) == IF i < k THEN i ELSE i + 1
Shifted(L, k, S) == {i \in 1..(L - 1) : Shift(k, i) \in S}

LEMMA ForwardsRemove ==
    ASSUME NEW L \in Nat, NEW l, NEW m, NEW A, NEW O, NEW j, NEW hd, NEW nx,
           NEW k \in 1..L, A \subseteq 1..L, k \in A, k - 1 \notin A, k + 1 \notin A,
           Forwards(l, L, A, O, j, hd, nx),
           \A i \in 1..(L - 1) : m[i] = l[Shift(k, i)]
    PROVE  Forwards(m, L - 1, Shifted(L, k, A), Shifted(L, k, O), j, hd, nx)
<1> DEFINE A2 == Shifted(L, k, A)
<1>1. \A i \in 0..(L - 1) : Onward(m, L - 1, A2, j, i) = Onward(l, L, A, j, Shift(k, i))
  <2> SUFFICES ASSUME NEW i \in 0..(L - 1)
               PROVE  Onward(m, L - 1, A2, j, i) = Onward(l, L, A, j, Shift(k, i))
    OBVIOUS
  <2>0. \A x \in Int : x \in A => x >= 1 /\ x <= L
    OBVIOUS
  <2>1. \A x \in 1..(L - 1) : x \in A2 <=> Shift(k, x) \in A
    BY DEF Shifted
  <2>2. \A x \in Int : x \in A2 => x >= 1 /\ x <= L - 1
    BY DEF Shifted
  <2> HIDE DEF A2
  <2>3. CASE i + 1 < k
    BY <2>0, <2>1, <2>2, <2>3 DEF Onward, Shift
  <2>4. CASE i + 1 = k
    BY <2>0, <2>1, <2>2, <2>4 DEF Onward, Shift
  <2>5. CASE i >= k
    BY <2>0, <2>1, <2>2, <2>5 DEF Onward, Shift
  <2> QED BY <2>3, <2>4, <2>5
<1> HIDE DEF A2
<1>2. hd = Onward(m, L - 1, A2, j, 0)
  BY <1>1 DEF Forwards, Shift
<1>3. ASSUME NEW i \in (1..(L - 1)) \ Shifted(L, k, O)
      PROVE  nx[m[i]] = Onward(m, L - 1, A2, j, i)
  <2>1. Shift(k, i) \in (1..L) \ O
    BY DEF Shift, Shifted
  <2> QED BY <2>1, <1>1 DEF Forwards
<1>4. Forwards(m, L - 1, A2, Shifted(L, k, O), j, hd, nx)
  BY <1>2, <1>3 DEF Forwards
<1> QED BY <1>4 DEF A2

LEMMA BackwardsRemove ==
    ASSUME NEW L \in Nat, NEW l, NEW m, NEW B, NEW O, NEW e, NEW tl, NEW pv,
           NEW k \in 1..L, B \subseteq 1..L, k \in B, k - 1 \notin B, k + 1 \notin B,
           Backwards(l, L, B, O, e, tl, pv),
           \A i \in 1..(L - 1) : m[i] = l[Shift(k, i)]
    PROVE  Backwards(m, L - 1, Shifted(L, k, B), Shifted(L, k, O), e, tl, pv)
<1> DEFINE B2 == Shifted(L, k, B)
<1>1. \A i \in 1..L : Backward(m, B2, i) = Backward(l, B, Shift(k, i))
  <2> SUFFICES ASSUME NEW i \in 1..L
               PROVE  Backward(m, B2, i) = Backward(l, B, Shift(k, i))
    OBVIOUS
  <2>0. \A x \in Int : x \in B => x >= 1 /\ x <= L
    OBVIOUS
  <2>1. \A x \in 1..(L - 1) : x \in B2 <=> Shift(k, x) \in B
    BY DEF Shifted
  <2>2. \A x \in Int : x \in B2 => x >= 1 /\ x <= L - 1
    BY DEF Shifted
  <2> HIDE DEF B2
  <2>3. CASE i < k
    BY <2>0, <2>1, <2>2, <2>3 DEF Backward, Shift
  <2>4. CASE i = k
    BY <2>0, <2>1, <2>2, <2>4 DEF Backward, Shift
  <2>5. CASE i > k
    BY <2>0, <2>1, <2>2, <2>5 DEF Backward, Shift
  <2> QED BY <2>3, <2>4, <2>5
<1> HIDE DEF B2
<1>2. tl = IF e = NULL THEN Backward(m, B2, L) ELSE e
  BY <1>1 DEF Backwards, Shift
<1>3. ASSUME NEW i \in (1..(L - 1)) \ Shifted(L, k, O)
      PROVE  pv[m[i]] = Backward(m, B2, i)
  <2>1. Shift(k, i) \in (1..L) \ O
    BY DEF Shift, Shifted
  <2> QED BY <2>1, <1>1 DEF Backwards
<1>4. Backwards(m, L - 1, B2, Shifted(L, k, O), e, tl, pv)
  BY <1>2, <1>3 DEF Backwards
<1> QED BY <1>4 DEF B2

-----------------------------------------------------------------------------
(* The invariant of ListSteps, for as long as no two threads have met.     *)

AtEnd == {"add", "add_first", "add_link", "add_back", "add_tail", "add_size", "add_store"}
InHead == {"head", "head_second", "head_last", "head_next", "head_detach"}
InNode == {"node_prev", "node_next", "node_tail"}
Leaving == {"remove_size", "remove_store"}
AtNode == InHead \cup InNode \cup Leaving
Place == {"idle"} \cup AtEnd \cup AtNode

(* Where the pointers before the node, the pointers behind it, and its own *)
(* ones have changed; where the end of the list, and tail, point at the    *)
(* node that is added.                                                     *)
Ahead == {"node_next", "node_tail", "head_detach", "remove_size", "remove_store"}
Behind == {"head_next", "head_detach", "remove_size", "remove_store"}
Off == {"head_detach", "remove_size", "remove_store"}
Linking == {"add_back", "add_tail", "add_size", "add_store"}
Ending == {"add_size", "add_store"}

(* The places of the list whose nodes are being removed by threads at P.   *)
Spots(P) == {i \in 1..Len(listed) : \E t \in Thread : at[t] \in P /\ node[t] = listed[i]}

(* j is the node of the thread at P, and NULL when there is none.          *)
Joins(P, j) ==
    /\ \A t \in Thread : at[t] \in P => j = node[t]
    /\ (\A t \in Thread : at[t] \notin P) => j = NULL

StepTypes ==
    /\ uses \in Uses
    /\ head \in Node \cup {NULL} /\ tail \in Node \cup {NULL}
    /\ next \in Pointers /\ prev \in Pointers
    /\ listed \in Seq(Node) /\ Nodes(listed, Len(listed))
    /\ at \in [Thread -> Place] /\ node \in [Thread -> Node \cup {NULL}]
    /\ created \subseteq Node /\ removed \subseteq created

(* A node that was not made yet is nowhere and points nowhere.             *)
NewNodes ==
    /\ \A i \in 1..Len(listed) : listed[i] \in created
    /\ \A n \in Node \ created : next[n] = NULL /\ prev[n] = NULL

(* What a thread at place p with node n is about.                          *)
AboutNode(p, n) ==
    /\ p = "idle" => n = NULL
    /\ p \in AtEnd => n \in created \ removed /\ ~Listed(n)
    /\ p \in AtNode => Listed(n)
    /\ p \in InHead => n = listed[1]
    /\ p = "add_first" => Len(listed) = 0
    /\ p \in {"add_link", "add_back"} => Len(listed) # 0
    /\ p = "head_second" => Len(listed) # 1
    /\ p = "head_last" => Len(listed) = 1
    /\ p = "node_tail" => n = listed[Len(listed)]

AllowedBy(p, f) ==
    /\ p \in AtNode => ~(f \subseteq {"add"})
    /\ p \in InHead => "remove_head" \in f

ThreadInv ==
    /\ StepTypes /\ NewNodes
    /\ \A t \in Thread : AboutNode(at[t], node[t]) /\ AllowedBy(at[t], uses[t])
    /\ \A t, u \in Thread : t # u /\ node[t] = node[u] => node[t] = NULL

(* The node of a thread that adds.                                         *)
AddedNode ==
    \A t \in Thread : at[t] \in AtEnd =>
      /\ next[node[t]] = NULL
      /\ prev[node[t]] = IF at[t] \in {"add_tail"} \cup Ending /\ Len(listed) # 0
                           THEN listed[Len(listed)] ELSE NULL

PointerInv ==
    /\ \A j \in Node \cup {NULL} : Joins(Linking, j) =>
         Forwards(listed, Len(listed), Spots(Ahead), Spots(Off), j, head, next)
    /\ \A e \in Node \cup {NULL} : Joins(Ending, e) =>
         Backwards(listed, Len(listed), Spots(Behind), Spots(Off), e, tail, prev)
    /\ AddedNode

StepInv == ThreadInv /\ PointerInv /\ ~Meeting

-----------------------------------------------------------------------------
(* What it says of two threads.                                            *)

LEMMA PlaceKinds ==
    ASSUME NEW t \in Thread, at[t] \in Place
    PROVE  /\ Adding(t) <=> at[t] \in AtEnd
           /\ Removing(t) <=> at[t] \in AtNode
BY DEF Adding, Removing, Busy, Place, AtEnd, AtNode, InHead, InNode, Leaving

LEMMA TypeFacts ==
    ASSUME StepTypes
    PROVE  /\ Len(listed) \in Nat /\ DOMAIN listed = 1..Len(listed)
           /\ Len(listed) = 0 <=> listed = <<>>
           /\ \A i \in 1..Len(listed) : listed[i] \in Node
           /\ \A t \in Thread : at[t] \in Place
           /\ \A n : Listed(n) <=> \E i \in 1..Len(listed) : listed[i] = n
BY DEF StepTypes, Listed

LEMMA Apart ==
    ASSUME ThreadInv, ~Meeting
    PROVE  /\ \A t, u \in Thread : at[t] \in AtEnd /\ at[u] \in AtEnd => t = u
           /\ \A t \in Thread : at[t] \in AtEnd => Len(listed) \notin Spots(AtNode)
           /\ \A i \in Spots(AtNode) : i - 1 \notin Spots(AtNode) /\ i + 1 \notin Spots(AtNode)
<1>1. StepTypes /\ \A t \in Thread : at[t] \in Place
  BY TypeFacts DEF ThreadInv
<1>2. \A t \in Thread : /\ Adding(t) <=> at[t] \in AtEnd
                        /\ Removing(t) <=> at[t] \in AtNode
  BY <1>1, PlaceKinds
<1>3. AtEnd \cap AtNode = {}
  BY DEF AtEnd, AtNode, InHead, InNode, Leaving
<1>4. \A t, u \in Thread : at[t] \in AtEnd /\ at[u] \in AtEnd => t = u
  BY <1>2 DEF Meeting, MeetAtTheEnd
<1>5. ASSUME NEW t \in Thread, at[t] \in AtEnd, Len(listed) \in Spots(AtNode)
      PROVE  FALSE
  <2>1. PICK u \in Thread : at[u] \in AtNode /\ node[u] = listed[Len(listed)]
    BY <1>5 DEF Spots
  <2>2. listed # <<>> /\ t # u
    BY <1>1, <1>3, <1>5, <2>1, TypeFacts DEF Spots
  <2> QED BY <1>2, <1>5, <2>1, <2>2 DEF Meeting, MeetAtTheEnd
<1>6. ASSUME NEW i \in Spots(AtNode), i + 1 \in Spots(AtNode)
      PROVE  FALSE
  <2>1. PICK t \in Thread : at[t] \in AtNode /\ node[t] = listed[i]
    BY DEF Spots
  <2>2. PICK u \in Thread : at[u] \in AtNode /\ node[u] = listed[i + 1]
    BY <1>6 DEF Spots
  <2>3. i \in 1..(Len(listed) - 1) /\ i \in 1..Len(listed) /\ i + 1 \in 1..Len(listed)
    BY <1>1, <1>6, TypeFacts DEF Spots
  <2>4. t # u
    BY <1>1, <2>1, <2>2, <2>3 DEF StepTypes, Nodes, Distinct
  <2>5. Neighbours(node[t], node[u])
    BY <2>1, <2>2, <2>3 DEF Neighbours
  <2> QED BY <1>2, <2>1, <2>2, <2>4, <2>5 DEF Meeting
<1>7. \A i \in Spots(AtNode) : i - 1 \in Spots(AtNode) => (i - 1) + 1 = i
  BY <1>1, TypeFacts DEF Spots
<1> QED BY <1>4, <1>5, <1>6, <1>7

LEMMA SpotsWithin ==
    ASSUME NEW P, NEW Q, P \subseteq Q
    PROVE  Spots(P) \subseteq Spots(Q) /\ Spots(P) \subseteq 1..Len(listed)
BY DEF Spots

(* A thread that removes a node has it at one place, and when the thread   *)
(* moves on only that place changes.                                       *)
LEMMA SpotOf ==
    ASSUME ThreadInv, NEW t \in Thread, at[t] \in AtNode
    PROVE  \E k \in 1..Len(listed) :
             /\ node[t] = listed[k] /\ node[t] \in Node
             /\ at[t] \in InHead => k = 1
             /\ at[t] = "node_tail" => k = Len(listed)
             /\ \A P : k \in Spots(P) <=> at[t] \in P
<1>1. PICK k \in 1..Len(listed) : node[t] = listed[k]
  BY TypeFacts DEF ThreadInv, AboutNode
<1>2. node[t] \in Node
  BY <1>1, TypeFacts DEF ThreadInv
<1>3. node[t] # NULL
  BY <1>2, NullAssumption
<1>4. /\ at[t] \in InHead => k = 1
      /\ at[t] = "node_tail" => k = Len(listed)
  BY <1>1, TypeFacts DEF ThreadInv, AboutNode, StepTypes, Nodes, Distinct
<1>5. ASSUME NEW P
      PROVE  k \in Spots(P) <=> at[t] \in P
  <2>1. \A u \in Thread : node[u] = listed[k] => u = t
    BY <1>1, <1>3 DEF ThreadInv
  <2> QED BY <1>1, <2>1 DEF Spots
<1> QED BY <1>1, <1>2, <1>4, <1>5

LEMMA SpotMoves ==
    ASSUME ThreadInv, NEW t \in Thread, NEW q, NEW k \in 1..Len(listed), NEW P,
           node[t] = listed[k], node[t] \in Node,
           at' = [at EXCEPT ![t] = q], UNCHANGED <<node, listed>>
    PROVE  Spots(P)' = IF q \in P THEN Spots(P) \cup {k} ELSE Spots(P) \ {k}
<1>1. \A u \in Thread : at'[u] = IF u = t THEN q ELSE at[u]
  BY DEF ThreadInv, StepTypes
<1>2. \A u \in Thread, i \in 1..Len(listed) : node[u] = listed[i] => (u = t <=> i = k)
  BY NullAssumption DEF ThreadInv, StepTypes, Nodes, Distinct
<1> QED BY <1>1, <1>2 DEF Spots

(* Places that a thread neither leaves nor enters.                         *)
LEMMA SpotsStay ==
    ASSUME ThreadInv, NEW t \in Thread, NEW q, NEW P, at[t] \notin P, q \notin P,
           at' = [at EXCEPT ![t] = q], \A u \in Thread \ {t} : node'[u] = node[u],
           listed' = listed
    PROVE  Spots(P)' = Spots(P)
<1>1. \A u \in Thread : at'[u] = IF u = t THEN q ELSE at[u]
  BY DEF ThreadInv, StepTypes
<1>2. \A u \in Thread : at'[u] \in P \/ at[u] \in P => u # t
  BY <1>1
<1> QED BY <1>1, <1>2 DEF Spots

LEMMA JoinsExist ==
    ASSUME ThreadInv, ~Meeting, NEW P, P \subseteq AtEnd
    PROVE  \E j \in Node \cup {NULL} : Joins(P, j)
<1>1. CASE \A t \in Thread : at[t] \notin P
  <2>1. Joins(P, NULL)
    BY <1>1 DEF Joins
  <2> QED BY <2>1
<1>2. CASE \E t \in Thread : at[t] \in P
  <2>1. PICK t \in Thread : at[t] \in P
    BY <1>2
  <2>2. Joins(P, node[t]) /\ node[t] \in Node \cup {NULL}
    BY <2>1, Apart DEF Joins, ThreadInv, StepTypes
  <2> QED BY <2>2
<1> QED BY <1>1, <1>2

LEMMA JoinsStay ==
    ASSUME ThreadInv, NEW t \in Thread, NEW q, NEW P, NEW j,
           at[t] \in P <=> q \in P, q \in P => node'[t] = node[t],
           at' = [at EXCEPT ![t] = q], \A u \in Thread \ {t} : node'[u] = node[u]
    PROVE  Joins(P, j)' <=> Joins(P, j)
<1>1. \A u \in Thread : at'[u] = IF u = t THEN q ELSE at[u]
  BY DEF ThreadInv, StepTypes
<1>2. \A u \in Thread : (at'[u] \in P <=> at[u] \in P) /\ (at[u] \in P => node'[u] = node[u])
  BY <1>1
<1> QED BY <1>2 DEF Joins

-----------------------------------------------------------------------------
(* What a step inside a function has to show.                              *)

LEMMA ThreadMoves ==
    ASSUME ThreadInv, NEW t \in Thread, NEW q \in Place,
           at' = [at EXCEPT ![t] = q], UNCHANGED <<node, listed, uses, created, removed>>,
           AboutNode(q, node[t]), AllowedBy(q, uses[t]),
           head' \in Node \cup {NULL}, tail' \in Node \cup {NULL},
           next' \in Pointers, prev' \in Pointers,
           \A n \in Node \ created : next'[n] = NULL /\ prev'[n] = NULL
    PROVE  ThreadInv'
<1>1. \A u \in Thread : at'[u] = IF u = t THEN q ELSE at[u]
  BY DEF ThreadInv, StepTypes
<1>2. StepTypes' /\ NewNodes'
  BY DEF ThreadInv, StepTypes, NewNodes, Nodes, Distinct
<1>3. \A u \in Thread : AboutNode(at'[u], node[u])
  BY <1>1 DEF ThreadInv
<1>4. \A p, n : AboutNode(p, n) <=> AboutNode(p, n)'
  BY DEF AboutNode, Listed
<1>5. \A u \in Thread : AboutNode(at[u], node[u])'
  BY <1>3 DEF AboutNode, Listed
<1>6. \A u \in Thread : AllowedBy(at[u], uses[u])'
  BY <1>1 DEF ThreadInv, AllowedBy
<1> QED BY <1>2, <1>5, <1>6 DEF ThreadInv

LEMMA RemoverMoves ==
    ASSUME StepInv, ~Meeting', NEW t \in Thread, NEW q \in AtNode, at[t] \in AtNode,
           at' = [at EXCEPT ![t] = q], UNCHANGED <<node, listed, uses, created, removed>>,
           AboutNode(q, node[t]), AllowedBy(q, uses[t]),
           head' \in Node \cup {NULL}, tail' \in Node \cup {NULL},
           next' \in Pointers, prev' \in Pointers,
           \A n \in Node : ~Listed(n) => next'[n] = next[n] /\ prev'[n] = prev[n],
           \A j \in Node \cup {NULL} : Joins(Linking, j) =>
             Forwards(listed, Len(listed), Spots(Ahead)', Spots(Off)', j, head', next'),
           \A e \in Node \cup {NULL} : Joins(Ending, e) =>
             Backwards(listed, Len(listed), Spots(Behind)', Spots(Off)', e, tail', prev')
    PROVE  StepInv'
<1>1. q \in Place /\ q \notin AtEnd /\ at[t] \notin AtEnd
  BY DEF Place, AtNode, AtEnd, InHead, InNode, Leaving
<1>2. \A u \in Thread : at'[u] = IF u = t THEN q ELSE at[u]
  BY DEF StepInv, ThreadInv, StepTypes
<1>3. \A n \in Node \ created : ~Listed(n)
  BY TypeFacts DEF StepInv, ThreadInv, NewNodes
<1>4. ThreadInv'
  BY <1>1, <1>3, ThreadMoves DEF StepInv, ThreadInv, NewNodes
<1>5. \A P \in {Linking, Ending} : \A j : Joins(P, j)' <=> Joins(P, j)
  <2>1. \A P \in {Linking, Ending} : q \notin P /\ at[t] \notin P
    BY <1>1 DEF Linking, Ending, AtEnd
  <2> QED BY <2>1, JoinsStay DEF StepInv
<1>6. AddedNode'
  <2> SUFFICES ASSUME NEW u \in Thread, at'[u] \in AtEnd
               PROVE  /\ next'[node[u]] = NULL
                      /\ prev'[node[u]] = IF at'[u] \in {"add_tail"} \cup Ending /\ Len(listed) # 0
                                            THEN listed[Len(listed)] ELSE NULL
    BY DEF AddedNode
  <2>1. u # t /\ at'[u] = at[u]
    BY <1>1, <1>2
  <2>2. node[u] \in Node /\ ~Listed(node[u])
    BY <2>1 DEF StepInv, ThreadInv, StepTypes, AboutNode
  <2> QED BY <2>1, <2>2 DEF StepInv, PointerInv, AddedNode
<1>7. PointerInv'
  BY <1>5, <1>6 DEF PointerInv
<1> QED BY <1>4, <1>7 DEF StepInv

LEMMA AdderJoins ==
    ASSUME ThreadInv, ~Meeting, NEW t \in Thread, at[t] \in AtEnd, NEW P, P \subseteq AtEnd, NEW j
    PROVE  Joins(P, j) <=> j = IF at[t] \in P THEN node[t] ELSE NULL
BY Apart DEF Joins

LEMMA AdderJoinsNext ==
    ASSUME ThreadInv, ~Meeting, NEW t \in Thread, at[t] \in AtEnd, NEW P, P \subseteq AtEnd, NEW j,
           NEW q, at' = [at EXCEPT ![t] = q]
    PROVE  Joins(P, j)' <=> j = IF q \in P THEN node'[t] ELSE NULL
<1>1. \A u \in Thread : at'[u] = IF u = t THEN q ELSE at[u]
  BY DEF ThreadInv, StepTypes
<1>2. \A u \in Thread : at'[u] \in P => u = t
  BY <1>1, Apart
<1> QED BY <1>1, <1>2 DEF Joins

(* All other threads remove, and none of them the last node.               *)
LEMMA AdderMoves ==
    ASSUME StepInv, ~Meeting', NEW t \in Thread, NEW q \in AtEnd, at[t] \in AtEnd,
           at' = [at EXCEPT ![t] = q], UNCHANGED <<node, listed, uses, created, removed>>,
           AboutNode(q, node[t]),
           head' \in Node \cup {NULL}, tail' \in Node \cup {NULL},
           next' \in Pointers, prev' \in Pointers,
           \A n \in Node \ created : next'[n] = next[n] /\ prev'[n] = prev[n],
           Forwards(listed, Len(listed), Spots(Ahead), Spots(Off),
                    IF q \in Linking THEN node[t] ELSE NULL, head', next'),
           Backwards(listed, Len(listed), Spots(Behind), Spots(Off),
                     IF q \in Ending THEN node[t] ELSE NULL, tail', prev'),
           next'[node[t]] = NULL,
           prev'[node[t]] = IF q \in {"add_tail"} \cup Ending /\ Len(listed) # 0
                              THEN listed[Len(listed)] ELSE NULL
    PROVE  StepInv'
<1>1. q \in Place /\ q \notin AtNode /\ at[t] \notin AtNode
  BY DEF Place, AtNode, AtEnd, InHead, InNode, Leaving
<1>2. \A u \in Thread : at'[u] = IF u = t THEN q ELSE at[u]
  BY DEF StepInv, ThreadInv, StepTypes
<1>3. ThreadInv'
  <2>1. AllowedBy(q, uses[t])
    BY <1>1 DEF AllowedBy, AtNode
  <2>2. \A n \in Node \ created : next'[n] = NULL /\ prev'[n] = NULL
    BY DEF StepInv, ThreadInv, NewNodes
  <2>3. ThreadInv
    BY DEF StepInv
  <2> QED BY <1>1, <2>1, <2>2, <2>3, ThreadMoves
<1>4. \A P \in {Ahead, Behind, Off} : Spots(P)' = Spots(P)
  <2>1. \A P \in {Ahead, Behind, Off} : q \notin P /\ at[t] \notin P
    BY <1>1 DEF Ahead, Behind, Off, AtNode, InHead, InNode, Leaving
  <2> QED BY <1>1, <2>1, SpotsStay DEF StepInv
<1>5. Linking \subseteq AtEnd /\ Ending \subseteq AtEnd
  BY DEF Linking, Ending, AtEnd
<1>6. /\ \A j : Joins(Linking, j)' <=> j = IF q \in Linking THEN node[t] ELSE NULL
      /\ \A e : Joins(Ending, e)' <=> e = IF q \in Ending THEN node[t] ELSE NULL
  BY <1>5, AdderJoinsNext DEF StepInv
<1>7. AddedNode'
  BY <1>2, Apart DEF AddedNode, StepInv
<1>8. PointerInv'
  BY <1>4, <1>6, <1>7 DEF PointerInv
<1> QED BY <1>3, <1>8 DEF StepInv

-----------------------------------------------------------------------------
(* What a thread sees of the node it removes: its neighbours are nobody's, *)
(* so until it is off its pointers lead to them, and those before and      *)
(* behind it lead to it until the thread has changed them.                 *)
Sees(t, k) ==
    /\ node[t] = listed[k] /\ node[t] \in Node
    /\ at[t] \in InHead => k = 1
    /\ at[t] = "node_tail" => k = Len(listed)
    /\ at[t] \notin Ahead => k \notin Spots(Ahead)
    /\ at[t] \notin Behind => k \notin Spots(Behind)
    /\ k \in Spots(Off) <=> at[t] \in Off
    /\ k + 1 \notin Spots(Ahead) /\ k - 1 \notin Spots(Ahead)
    /\ k + 1 \notin Spots(Behind) /\ k - 1 \notin Spots(Behind)
    /\ k = Len(listed) => \A j : Joins(Linking, j) \/ Joins(Ending, j) => j = NULL
    /\ at[t] \notin Off =>
         /\ next[node[t]] = IF k = Len(listed) THEN NULL ELSE listed[k + 1]
         /\ prev[node[t]] = IF k = 1 THEN NULL ELSE listed[k - 1]
    /\ k = 1 /\ at[t] \notin Ahead => head = node[t]
    /\ k = Len(listed) /\ at[t] \notin Behind => tail = node[t]

LEMMA RemoverSees ==
    ASSUME StepInv, NEW t \in Thread, at[t] \in AtNode
    PROVE  \E k \in 1..Len(listed) : Sees(t, k)
<1> DEFINE L == Len(listed)
<1>1. PICK k \in 1..L :
             /\ node[t] = listed[k] /\ node[t] \in Node
             /\ at[t] \in InHead => k = 1
             /\ at[t] = "node_tail" => k = L
             /\ \A P : k \in Spots(P) <=> at[t] \in P
  BY SpotOf DEF StepInv
<1>2. k \in Spots(AtNode) /\ L \in Nat
  BY <1>1, TypeFacts DEF StepInv, ThreadInv
<1>3. ASSUME NEW P, P \subseteq AtNode
      PROVE  k - 1 \notin Spots(P) /\ k + 1 \notin Spots(P)
  BY <1>2, <1>3, Apart, SpotsWithin DEF StepInv
<1>4. /\ Ahead \subseteq AtNode /\ Behind \subseteq AtNode
      /\ Linking \subseteq AtEnd /\ Ending \subseteq AtEnd
  BY DEF Ahead, Behind, AtNode, InHead, InNode, Leaving, Linking, Ending, AtEnd
<1>5. ASSUME k = L, NEW j, Joins(Linking, j) \/ Joins(Ending, j)
      PROVE  j = NULL
  <2>1. \A u \in Thread : at[u] \notin AtEnd
    BY <1>2, <1>5, Apart DEF StepInv
  <2> QED BY <2>1, <1>4, <1>5 DEF Joins
<1>6. PICK j \in Node \cup {NULL} : Joins(Linking, j)
  BY <1>4, JoinsExist DEF StepInv
<1>7. PICK e \in Node \cup {NULL} : Joins(Ending, e)
  BY <1>4, JoinsExist DEF StepInv
<1>8. /\ Forwards(listed, L, Spots(Ahead), Spots(Off), j, head, next)
      /\ Backwards(listed, L, Spots(Behind), Spots(Off), e, tail, prev)
  BY <1>6, <1>7 DEF StepInv, PointerInv
<1>9. /\ k + 1 \notin Spots(Ahead) /\ k - 1 \notin Spots(Ahead)
      /\ k + 1 \notin Spots(Behind) /\ k - 1 \notin Spots(Behind)
  BY <1>3, <1>4
<1>10. k = L => j = NULL /\ e = NULL
  BY <1>5, <1>6, <1>7
<1>11. ASSUME at[t] \notin Off
       PROVE  /\ next[node[t]] = IF k = L THEN NULL ELSE listed[k + 1]
              /\ prev[node[t]] = IF k = 1 THEN NULL ELSE listed[k - 1]
  <2>1. k \notin Spots(Off)
    BY <1>1, <1>11
  <2> HIDE DEF L
  <2> QED BY <2>1, <1>1, <1>2, <1>8, <1>9, <1>10 DEF Forwards, Backwards, Onward, Backward
<1>12. ASSUME k = 1, at[t] \notin Ahead
       PROVE  head = node[t]
  <2>1. k \notin Spots(Ahead)
    BY <1>1, <1>12
  <2> HIDE DEF L
  <2> QED BY <2>1, <1>1, <1>2, <1>8, <1>12 DEF Forwards, Onward
<1>13. ASSUME k = L, at[t] \notin Behind
       PROVE  tail = node[t]
  <2>1. k \notin Spots(Behind)
    BY <1>1, <1>13
  <2> HIDE DEF L
  <2> QED BY <2>1, <1>1, <1>2, <1>8, <1>10, <1>13 DEF Backwards, Backward
<1>14. Sees(t, k)
  BY <1>1, <1>5, <1>9, <1>11, <1>12, <1>13 DEF Sees
<1> QED BY <1>14

(* A thread that removes the head until it has moved head on.              *)
LEMMA HeadSees ==
    ASSUME StepInv, NEW t \in Thread, at[t] \in InHead, at[t] \notin Off
    PROVE  /\ Len(listed) \in Nat /\ 1 \in 1..Len(listed)
           /\ node[t] = listed[1] /\ node[t] \in Node /\ head = node[t] /\ Sees(t, 1)
           /\ Len(listed) # 1 => 2 \in 1..Len(listed) /\ listed[2] \in Node
           /\ next[head] = IF Len(listed) = 1 THEN NULL ELSE listed[2]
           /\ prev[head] = NULL
<1>1. at[t] \in AtNode /\ at[t] \notin Ahead
  BY DEF AtNode, Ahead, Off, InHead
<1>2. PICK k \in 1..Len(listed) : Sees(t, k)
  BY <1>1, RemoverSees
<1>3. k = 1
  BY <1>2 DEF Sees
<1>4. Sees(t, 1) /\ 1 \in 1..Len(listed)
  BY <1>2, <1>3
<1>5. Len(listed) \in Nat /\ \A i \in 1..Len(listed) : listed[i] \in Node
  BY TypeFacts DEF StepInv, ThreadInv
<1>6. Len(listed) # 1 => 2 \in 1..Len(listed) /\ listed[2] \in Node
  <2>1. \A x \in Nat : 1 \in 1..x => (x # 1 => 2 \in 1..x)
    OBVIOUS
  <2>2. Len(listed) # 1 => 2 \in 1..Len(listed)
    BY <2>1, <1>4, <1>5
  <2> QED BY <2>2, <1>5
<1>7. node[t] = listed[1] /\ node[t] \in Node /\ head = node[t]
  BY <1>1, <1>4 DEF Sees
<1>8. /\ next[node[t]] = IF k = Len(listed) THEN NULL ELSE listed[k + 1]
      /\ prev[node[t]] = IF k = 1 THEN NULL ELSE listed[k - 1]
  BY <1>2 DEF Sees
<1>9. /\ next[node[t]] = IF Len(listed) = 1 THEN NULL ELSE listed[2]
      /\ prev[node[t]] = NULL
  BY <1>3, <1>8
<1> QED BY <1>4, <1>5, <1>6, <1>7, <1>9

(* The places of a function that change nothing of what the invariant says *)
(* of the pointers.                                                        *)
LEMMA SameSpots ==
    ASSUME ThreadInv, NEW t \in Thread, NEW q, at[t] \in AtNode,
           at' = [at EXCEPT ![t] = q], UNCHANGED <<node, listed>>, NEW P,
           q \in P <=> at[t] \in P
    PROVE  Spots(P)' = Spots(P)
<1>1. PICK k \in 1..Len(listed) : /\ node[t] = listed[k] /\ node[t] \in Node
                                  /\ k \in Spots(P) <=> at[t] \in P
  BY SpotOf
<1>2. Spots(P)' = IF q \in P THEN Spots(P) \cup {k} ELSE Spots(P) \ {k}
  BY <1>1, SpotMoves
<1> QED BY <1>1, <1>2

LEMMA head_testInv ==
    ASSUME StepInv, ~Meeting', NEW t \in Thread, head_test(t)
    PROVE  StepInv'
<1> DEFINE q == IF next[head] # NULL THEN "head_second" ELSE "head_last"
<1>1. /\ at[t] = "head" /\ at' = [at EXCEPT ![t] = q]
      /\ UNCHANGED <<node, listed, uses, created, removed, pointer_vars>>
  BY DEF head_test, goes, local_vars
<1>2. at[t] \in InHead /\ at[t] \in AtNode /\ q \in InHead /\ q \in AtNode
  BY <1>1 DEF InHead, AtNode
<1>4. /\ q = "head_second" => Len(listed) # 1
      /\ q = "head_last" => Len(listed) = 1
  <2>1. at[t] \notin Off
    BY <1>1 DEF Off
  <2>2. /\ Len(listed) # 1 => listed[2] \in Node
        /\ next[head] = IF Len(listed) = 1 THEN NULL ELSE listed[2]
    BY <2>1, <1>2, HeadSees
  <2> QED BY <2>2, NullAssumption
<1>5. AboutNode(q, node[t]) /\ AllowedBy(q, uses[t])
  <2>1. AboutNode("head", node[t]) /\ AllowedBy("head", uses[t])
    BY <1>1 DEF StepInv, ThreadInv
  <2> QED BY <2>1, <1>4 DEF AboutNode, AllowedBy, AtNode, InHead, AtEnd
<1>6. \A P \in {Ahead, Behind, Off} : Spots(P)' = Spots(P)
  <2>1. \A P \in {Ahead, Behind, Off} : q \notin P /\ at[t] \notin P
    BY <1>1 DEF Ahead, Behind, Off
  <2> HIDE DEF q
  <2> QED BY <2>1, <1>1, <1>2, SameSpots DEF StepInv
<1> HIDE DEF q
<1>7. pointer_vars' = pointer_vars => UNCHANGED <<head, tail, next, prev>>
  BY DEF pointer_vars
<1>8. /\ head' \in Node \cup {NULL} /\ tail' \in Node \cup {NULL}
      /\ next' \in Pointers /\ prev' \in Pointers
  BY <1>1, <1>7 DEF StepInv, ThreadInv, StepTypes
<1> QED BY <1>1, <1>2, <1>5, <1>6, <1>7, <1>8, RemoverMoves DEF StepInv, PointerInv

LEMMA ForwardsWeaker ==
    ASSUME NEW L, NEW l, NEW A, NEW O, NEW j, NEW hd, NEW nx, NEW O2, O \subseteq O2,
           Forwards(l, L, A, O, j, hd, nx)
    PROVE  Forwards(l, L, A, O2, j, hd, nx)
BY DEF Forwards

LEMMA BackwardsWeaker ==
    ASSUME NEW L, NEW l, NEW B, NEW O, NEW e, NEW tl, NEW pv, NEW O2, O \subseteq O2,
           Backwards(l, L, B, O, e, tl, pv)
    PROVE  Backwards(l, L, B, O2, e, tl, pv)
BY DEF Backwards

LEMMA head_secondInv ==
    ASSUME StepInv, ~Meeting', NEW t \in Thread, head_second(t)
    PROVE  StepInv'
<1> DEFINE L == Len(listed)
<1>1. /\ at[t] = "head_second" /\ at' = [at EXCEPT ![t] = "head_next"]
      /\ UNCHANGED <<node, listed, uses, created, removed, head, tail, next>>
  BY DEF head_second, goes, local_vars
<1>2. /\ at[t] \in InHead /\ at[t] \in AtNode /\ "head_next" \in AtNode
      /\ at[t] \notin Off /\ at[t] \notin Ahead
  BY <1>1 DEF InHead, AtNode, Off, Ahead
<1>3. /\ L \in Nat /\ Nodes(listed, L) /\ next \in Pointers /\ prev \in Pointers
      /\ \A n : Listed(n) <=> \E i \in 1..L : listed[i] = n
      /\ L # 1
  BY <1>1, TypeFacts DEF StepInv, ThreadInv, StepTypes, AboutNode
<1>4. /\ 1 \in 1..L /\ node[t] = listed[1] /\ node[t] \in Node /\ head = node[t] /\ Sees(t, 1)
      /\ 2 \in 1..L /\ listed[2] \in Node /\ next[head] = listed[2] /\ prev[head] = NULL
  BY <1>2, <1>3, HeadSees
<1>5. 1 \notin Spots(Off) /\ 1 - 1 \notin Spots(Behind)
  BY <1>2, <1>4 DEF Sees
<1>6. prev' = [prev EXCEPT ![listed[2]] = prev[listed[1]]]
  BY <1>3, <1>4 DEF head_second, Pointers
<1> HIDE DEF L
<1>7. /\ Spots(Ahead)' = Spots(Ahead) /\ Spots(Off)' = Spots(Off)
      /\ Spots(Behind)' = Spots(Behind) \cup {1}
  <2>1. /\ "head_next" \notin Ahead /\ "head_next" \notin Off /\ "head_next" \in Behind
    BY DEF Ahead, Off, Behind
  <2>2. ThreadInv
    BY DEF StepInv
  <2> QED BY <2>1, <2>2, <1>1, <1>2, <1>4, SameSpots, SpotMoves DEF L
<1>8. ASSUME NEW e \in Node \cup {NULL}, Joins(Ending, e)
      PROVE  Backwards(listed, L, Spots(Behind) \cup {1}, Spots(Off), e, tail, prev')
  <2>1. Backwards(listed, L, Spots(Behind), Spots(Off), e, tail, prev)
    BY <1>8 DEF StepInv, PointerInv, L
  <2>2. 1 + 1 = 2 /\ 1 # L
    BY <1>3
  <2> QED BY <2>1, <2>2, <1>3, <1>4, <1>5, <1>6, BackwardsSkip
<1>9. AboutNode("head_next", node[t]) /\ AllowedBy("head_next", uses[t])
  <2>1. AboutNode("head_second", node[t]) /\ AllowedBy("head_second", uses[t])
    BY <1>1 DEF StepInv, ThreadInv
  <2> QED BY <2>1 DEF AboutNode, AllowedBy, AtNode, InHead, AtEnd
<1>10. prev' \in Pointers /\ \A n \in Node : ~Listed(n) => prev'[n] = prev[n]
  BY <1>3, <1>4, <1>6 DEF Pointers
<1>11. head \in Node \cup {NULL} /\ tail \in Node \cup {NULL}
  BY DEF StepInv, ThreadInv, StepTypes
<1> QED BY <1>1, <1>2, <1>3, <1>7, <1>8, <1>9, <1>10, <1>11, RemoverMoves DEF StepInv, PointerInv, L

LEMMA head_lastInv ==
    ASSUME StepInv, ~Meeting', NEW t \in Thread, head_last(t)
    PROVE  StepInv'
<1> DEFINE L == Len(listed)
<1>1. /\ at[t] = "head_last" /\ at' = [at EXCEPT ![t] = "head_next"] /\ tail' = NULL
      /\ UNCHANGED <<node, listed, uses, created, removed, head, next, prev>>
  BY DEF head_last, goes, local_vars
<1>2. at[t] \in InHead /\ at[t] \in AtNode /\ "head_next" \in AtNode /\ at[t] \notin Off
  BY <1>1 DEF InHead, AtNode, Off
<1>3. /\ L = 1 /\ Nodes(listed, L) /\ next \in Pointers /\ prev \in Pointers
      /\ head \in Node \cup {NULL}
  BY <1>1 DEF StepInv, ThreadInv, StepTypes, AboutNode
<1>4. node[t] = listed[1] /\ node[t] \in Node /\ Sees(t, 1) /\ prev[listed[1]] = NULL
  BY <1>2, HeadSees
<1> HIDE DEF L
<1>5. 1 \notin Spots(Off) /\ 1 - 1 \notin Spots(Behind)
  BY <1>2, <1>4 DEF Sees
<1>6. /\ Spots(Ahead)' = Spots(Ahead) /\ Spots(Off)' = Spots(Off)
      /\ Spots(Behind)' = Spots(Behind) \cup {1}
  <2>1. /\ "head_next" \notin Ahead /\ "head_next" \notin Off /\ "head_next" \in Behind
        /\ at[t] \notin Ahead
    BY <1>1 DEF Ahead, Off, Behind
  <2>2. ThreadInv /\ 1 \in 1..L
    BY <1>3 DEF StepInv
  <2> QED BY <2>1, <2>2, <1>1, <1>2, <1>4, SameSpots, SpotMoves DEF L
<1>7. ASSUME NEW e \in Node \cup {NULL}, Joins(Ending, e)
      PROVE  Backwards(listed, L, Spots(Behind) \cup {1}, Spots(Off), e, tail', prev)
  <2>1. Backwards(listed, L, Spots(Behind), Spots(Off), e, tail, prev)
    BY <1>7 DEF StepInv, PointerInv, L
  <2>2. e = NULL /\ L \in Nat /\ 1 \in 1..L
    BY <1>3, <1>4, <1>7 DEF Sees, L
  <2> QED BY <2>1, <2>2, <1>1, <1>3, <1>4, <1>5, BackwardsSkip
<1>8. AboutNode("head_next", node[t]) /\ AllowedBy("head_next", uses[t])
  <2>1. AboutNode("head_last", node[t]) /\ AllowedBy("head_last", uses[t])
    BY <1>1 DEF StepInv, ThreadInv
  <2> QED BY <2>1 DEF AboutNode, AllowedBy, AtNode, InHead, AtEnd
<1> QED BY <1>1, <1>2, <1>3, <1>6, <1>7, <1>8, RemoverMoves DEF StepInv, PointerInv, L

LEMMA head_nextInv ==
    ASSUME StepInv, ~Meeting', NEW t \in Thread, head_next(t)
    PROVE  StepInv'
<1> DEFINE L == Len(listed)
<1>1. /\ at[t] = "head_next" /\ at' = [at EXCEPT ![t] = "head_detach"] /\ head' = next[head]
      /\ UNCHANGED <<node, listed, uses, created, removed, tail, next, prev>>
  BY DEF head_next, goes, local_vars
<1>2. at[t] \in InHead /\ at[t] \in AtNode /\ "head_detach" \in AtNode /\ at[t] \notin Off
  BY <1>1 DEF InHead, AtNode, Off
<1>3. /\ Nodes(listed, L) /\ next \in Pointers /\ prev \in Pointers
      /\ tail \in Node \cup {NULL}
  BY <1>1 DEF StepInv, ThreadInv, StepTypes
<1>4. /\ L \in Nat /\ 1 \in 1..L
      /\ node[t] = listed[1] /\ node[t] \in Node /\ head = node[t] /\ Sees(t, 1)
  BY <1>2, HeadSees
<1> HIDE DEF L
<1>5. 1 \notin Spots(Off) /\ 1 + 1 \notin Spots(Ahead)
  BY <1>2, <1>4 DEF Sees
<1>6. /\ Spots(Ahead)' = Spots(Ahead) \cup {1} /\ Spots(Off)' = Spots(Off) \cup {1}
      /\ Spots(Behind)' = Spots(Behind)
  <2>1. /\ "head_detach" \in Ahead /\ "head_detach" \in Off /\ "head_detach" \in Behind
        /\ at[t] \in Behind
    BY <1>1 DEF Ahead, Off, Behind
  <2>2. /\ ThreadInv /\ 1 \in 1..Len(listed) /\ node[t] = listed[1] /\ node[t] \in Node
        /\ at' = [at EXCEPT ![t] = "head_detach"] /\ UNCHANGED <<node, listed>>
    BY <1>1, <1>4 DEF StepInv, L
  <2> PICK k \in 1..Len(listed) : k = 1
    BY <2>2
  <2>3. Spots(Ahead)' = Spots(Ahead) \cup {k}
    BY <2>1, <2>2, SpotMoves
  <2>4. Spots(Off)' = Spots(Off) \cup {k}
    BY <2>1, <2>2, SpotMoves
  <2>5. Spots(Behind)' = Spots(Behind)
    BY <2>1, <2>2, <1>1, <1>2, SameSpots
  <2> QED BY <2>3, <2>4, <2>5
<1>7. ASSUME NEW j \in Node \cup {NULL}, Joins(Linking, j)
      PROVE  Forwards(listed, L, Spots(Ahead) \cup {1}, Spots(Off) \cup {1}, j, head', next)
  <2>1. Forwards(listed, L, Spots(Ahead), Spots(Off), j, head, next)
    BY <1>7 DEF StepInv, PointerInv, L
  <2>2. Forwards(listed, L, Spots(Ahead) \cup {1}, Spots(Off), j, head', next)
    BY <2>1, <1>1, <1>3, <1>4, <1>5, ForwardsSkip
  <2> QED BY <2>2, ForwardsWeaker
<1>8. ASSUME NEW e \in Node \cup {NULL}, Joins(Ending, e)
      PROVE  Backwards(listed, L, Spots(Behind), Spots(Off) \cup {1}, e, tail, prev)
  <2>1. Backwards(listed, L, Spots(Behind), Spots(Off), e, tail, prev)
    BY <1>8 DEF StepInv, PointerInv, L
  <2> QED BY <2>1, BackwardsWeaker
<1>9. AboutNode("head_detach", node[t]) /\ AllowedBy("head_detach", uses[t])
  <2>1. AboutNode("head_next", node[t]) /\ AllowedBy("head_next", uses[t])
    BY <1>1 DEF StepInv, ThreadInv
  <2> QED BY <2>1 DEF AboutNode, AllowedBy, AtNode, InHead, AtEnd
<1>10. head' \in Node \cup {NULL}
  BY <1>1, <1>3, <1>4 DEF Pointers
<1> QED BY <1>1, <1>2, <1>3, <1>6, <1>7, <1>8, <1>9, <1>10, RemoverMoves DEF L

LEMMA head_detachInv ==
    ASSUME StepInv, ~Meeting', NEW t \in Thread, head_detach(t)
    PROVE  StepInv'
<1> DEFINE L == Len(listed)
           n == node[t]
<1>1. /\ at[t] = "head_detach" /\ at' = [at EXCEPT ![t] = "remove_size"]
      /\ next' = [next EXCEPT ![n] = NULL] /\ prev' = [prev EXCEPT ![n] = NULL]
      /\ UNCHANGED <<node, listed, uses, created, removed, head, tail>>
  BY DEF head_detach, goes, local_vars
<1>2. at[t] \in AtNode /\ "remove_size" \in AtNode /\ at[t] \in Off
  BY <1>1 DEF InHead, AtNode, Leaving, Off
<1>3. /\ L \in Nat /\ Nodes(listed, L) /\ next \in Pointers /\ prev \in Pointers
      /\ head \in Node \cup {NULL} /\ tail \in Node \cup {NULL}
      /\ \A x : Listed(x) <=> \E i \in 1..L : listed[i] = x
  BY TypeFacts DEF StepInv, ThreadInv, StepTypes
<1>4. PICK k \in 1..L : Sees(t, k)
  BY <1>2, RemoverSees
<1>5. n = listed[k] /\ n \in Node /\ k \in Spots(Off)
  BY <1>2, <1>4 DEF Sees
<1> HIDE DEF L, n
<1>6. \A P \in {Ahead, Behind, Off} : Spots(P)' = Spots(P)
  <2>1. \A P \in {Ahead, Behind, Off} : "remove_size" \in P /\ at[t] \in P
    BY <1>1 DEF Ahead, Behind, Off
  <2> QED BY <2>1, <1>1, <1>2, SameSpots DEF StepInv
<1>7. \A i \in 1..L : listed[i] = n => i \in Spots(Off)
  BY <1>3, <1>5 DEF Nodes, Distinct
<1>8. ASSUME NEW j \in Node \cup {NULL}, Joins(Linking, j)
      PROVE  Forwards(listed, L, Spots(Ahead), Spots(Off), j, head, next')
  <2>1. Forwards(listed, L, Spots(Ahead), Spots(Off), j, head, next)
    BY <1>8 DEF StepInv, PointerInv, L
  <2> QED BY <2>1, <1>1, <1>3, <1>5, <1>7, ForwardsOwn
<1>9. ASSUME NEW e \in Node \cup {NULL}, Joins(Ending, e)
      PROVE  Backwards(listed, L, Spots(Behind), Spots(Off), e, tail, prev')
  <2>1. Backwards(listed, L, Spots(Behind), Spots(Off), e, tail, prev)
    BY <1>9 DEF StepInv, PointerInv, L
  <2> QED BY <2>1, <1>1, <1>3, <1>5, <1>7, BackwardsOwn
<1>10. AboutNode("remove_size", n) /\ AllowedBy("remove_size", uses[t])
  <2>1. AboutNode("head_detach", n) /\ AllowedBy("head_detach", uses[t])
    BY <1>1 DEF StepInv, ThreadInv, n
  <2> QED BY <2>1 DEF AboutNode, AllowedBy, AtNode, InHead, AtEnd, Leaving
<1>11. /\ next' \in Pointers /\ prev' \in Pointers
       /\ \A m \in Node : ~Listed(m) => next'[m] = next[m] /\ prev'[m] = prev[m]
  BY <1>1, <1>3, <1>5 DEF Pointers
<1> QED BY <1>1, <1>2, <1>3, <1>6, <1>8, <1>9, <1>10, <1>11, RemoverMoves DEF L, n

(* A thread inside list_remove_node.                                       *)
LEMMA NodeSees ==
    ASSUME StepInv, NEW t \in Thread, at[t] \in InNode
    PROVE  \E k \in 1..Len(listed) :
             /\ Sees(t, k) /\ node[t] = listed[k] /\ node[t] \in Node
             /\ next[node[t]] = IF k = Len(listed) THEN NULL ELSE listed[k + 1]
             /\ prev[node[t]] = IF k = 1 THEN NULL ELSE listed[k - 1]
             /\ k # Len(listed) => k + 1 \in 1..Len(listed) /\ listed[k + 1] \in Node
             /\ k # 1 => k - 1 \in 1..Len(listed) /\ listed[k - 1] \in Node
             /\ k \notin Spots(Off) /\ k + 1 \notin Spots(Ahead) /\ k - 1 \notin Spots(Behind)
<1>1. at[t] \in AtNode /\ at[t] \notin Off
  BY DEF AtNode, Off, InNode
<1>2. PICK k \in 1..Len(listed) : Sees(t, k)
  BY <1>1, RemoverSees
<1>3. Len(listed) \in Nat /\ \A i \in 1..Len(listed) : listed[i] \in Node
  BY TypeFacts DEF StepInv, ThreadInv
<1>4. \A x \in Nat : k \in 1..x => /\ k # x => k + 1 \in 1..x
                                   /\ k # 1 => k - 1 \in 1..x
  OBVIOUS
<1>5. /\ k # Len(listed) => k + 1 \in 1..Len(listed) /\ listed[k + 1] \in Node
      /\ k # 1 => k - 1 \in 1..Len(listed) /\ listed[k - 1] \in Node
  BY <1>3, <1>4
<1>6. node[t] = listed[k] /\ node[t] \in Node
  BY <1>2 DEF Sees
<1>7. /\ next[node[t]] = IF k = Len(listed) THEN NULL ELSE listed[k + 1]
      /\ prev[node[t]] = IF k = 1 THEN NULL ELSE listed[k - 1]
  BY <1>1, <1>2 DEF Sees
<1>8. k \notin Spots(Off) /\ k + 1 \notin Spots(Ahead) /\ k - 1 \notin Spots(Behind)
  BY <1>1, <1>2 DEF Sees
<1> QED BY <1>2, <1>5, <1>6, <1>7, <1>8

LEMMA node_prevInv ==
    ASSUME StepInv, ~Meeting', NEW t \in Thread, node_prev(t)
    PROVE  StepInv'
<1> DEFINE L == Len(listed)
           n == node[t]
<1>1. /\ at[t] = "node_prev" /\ at' = [at EXCEPT ![t] = "node_next"]
      /\ UNCHANGED <<node, listed, uses, created, removed, tail, prev>>
      /\ IF prev[n] # NULL
           THEN next' = [next EXCEPT ![prev[n]] = next[n]] /\ head' = head
           ELSE head' = (IF head = n THEN next[n] ELSE head) /\ next' = next
  BY DEF node_prev, goes, local_vars
<1>2. at[t] \in InNode /\ at[t] \in AtNode /\ "node_next" \in AtNode
  BY <1>1 DEF InNode, AtNode
<1>3. /\ L \in Nat /\ Nodes(listed, L) /\ next \in Pointers /\ prev \in Pointers
      /\ head \in Node \cup {NULL} /\ tail \in Node \cup {NULL}
      /\ \A x : Listed(x) <=> \E i \in 1..L : listed[i] = x
  BY TypeFacts DEF StepInv, ThreadInv, StepTypes
<1>4. PICK k \in 1..L :
             /\ Sees(t, k) /\ n = listed[k] /\ n \in Node
             /\ next[n] = IF k = L THEN NULL ELSE listed[k + 1]
             /\ prev[n] = IF k = 1 THEN NULL ELSE listed[k - 1]
             /\ k # L => k + 1 \in 1..L /\ listed[k + 1] \in Node
             /\ k # 1 => k - 1 \in 1..L /\ listed[k - 1] \in Node
             /\ k \notin Spots(Off) /\ k + 1 \notin Spots(Ahead) /\ k - 1 \notin Spots(Behind)
  BY <1>2, NodeSees
<1>5. k = 1 => head = n
  <2>1. at[t] \notin Ahead
    BY <1>1 DEF Ahead
  <2> QED BY <2>1, <1>4 DEF Sees
<1> HIDE DEF L, n
<1>6. /\ next' = IF k = 1 THEN next ELSE [next EXCEPT ![listed[k - 1]] = next[listed[k]]]
      /\ head' = IF k = 1 THEN next[listed[k]] ELSE head
  <2>1. CASE k = 1
    BY <2>1, <1>1, <1>4, <1>5
  <2>2. CASE k # 1
    <3>1. prev[n] = listed[k - 1] /\ prev[n] # NULL
      BY <2>2, <1>4, NullAssumption
    <3> QED BY <3>1, <2>2, <1>1, <1>4
  <2> QED BY <2>1, <2>2
<1>7. /\ Spots(Ahead)' = Spots(Ahead) \cup {k} /\ Spots(Off)' = Spots(Off)
      /\ Spots(Behind)' = Spots(Behind)
  <2>1. /\ "node_next" \in Ahead /\ "node_next" \notin Off /\ "node_next" \notin Behind
        /\ at[t] \notin Behind /\ at[t] \notin Off
    BY <1>1 DEF Ahead, Off, Behind
  <2>2. ThreadInv
    BY DEF StepInv
  <2>3. Spots(Ahead)' = Spots(Ahead) \cup {k}
    BY <2>1, <2>2, <1>1, <1>4, SpotMoves DEF L, n
  <2>4. Spots(Off)' = Spots(Off)
    BY <2>1, <2>2, <1>1, <1>2, SameSpots
  <2>5. Spots(Behind)' = Spots(Behind)
    BY <2>1, <2>2, <1>1, <1>2, SameSpots
  <2> QED BY <2>3, <2>4, <2>5
<1>8. ASSUME NEW j \in Node \cup {NULL}, Joins(Linking, j)
      PROVE  Forwards(listed, L, Spots(Ahead) \cup {k}, Spots(Off), j, head', next')
  <2>1. Forwards(listed, L, Spots(Ahead), Spots(Off), j, head, next)
    BY <1>8 DEF StepInv, PointerInv, L
  <2> QED BY <2>1, <1>3, <1>4, <1>6, ForwardsSkip
<1>9. AboutNode("node_next", n) /\ AllowedBy("node_next", uses[t])
  <2>1. AboutNode("node_prev", n) /\ AllowedBy("node_prev", uses[t])
    BY <1>1 DEF StepInv, ThreadInv, n
  <2> QED BY <2>1 DEF AboutNode, AllowedBy, AtNode, InHead, InNode, AtEnd, Leaving
<1>10. /\ next' \in Pointers /\ head' \in Node \cup {NULL}
       /\ \A m \in Node : ~Listed(m) => next'[m] = next[m]
  <2>1. next[listed[k]] \in Node \cup {NULL}
    BY <1>3, <1>4 DEF Pointers
  <2> QED BY <2>1, <1>3, <1>4, <1>6 DEF Pointers
<1> QED BY <1>1, <1>2, <1>3, <1>7, <1>8, <1>9, <1>10, RemoverMoves DEF StepInv, PointerInv, L, n

LEMMA node_nextInv ==
    ASSUME StepInv, ~Meeting', NEW t \in Thread, node_next(t)
    PROVE  StepInv'
<1> DEFINE L == Len(listed)
           n == node[t]
           q == IF next[n] # NULL THEN "remove_size" ELSE "node_tail"
<1>1. /\ at[t] = "node_next" /\ at' = [at EXCEPT ![t] = q]
      /\ UNCHANGED <<node, listed, uses, created, removed, head, tail, next>>
      /\ prev' = [m \in Node |-> IF m = next[n] THEN prev[n] ELSE prev[m]]
  BY DEF node_next, goes, local_vars
<1>2. at[t] \in InNode /\ at[t] \in AtNode /\ q \in AtNode
  BY <1>1 DEF InNode, AtNode, Leaving
<1>3. /\ L \in Nat /\ Nodes(listed, L) /\ next \in Pointers /\ prev \in Pointers
      /\ head \in Node \cup {NULL} /\ tail \in Node \cup {NULL}
      /\ \A x : Listed(x) <=> \E i \in 1..L : listed[i] = x
  BY TypeFacts DEF StepInv, ThreadInv, StepTypes
<1>4. PICK k \in 1..L :
             /\ Sees(t, k) /\ n = listed[k] /\ n \in Node
             /\ next[n] = IF k = L THEN NULL ELSE listed[k + 1]
             /\ prev[n] = IF k = 1 THEN NULL ELSE listed[k - 1]
             /\ k # L => k + 1 \in 1..L /\ listed[k + 1] \in Node
             /\ k # 1 => k - 1 \in 1..L /\ listed[k - 1] \in Node
             /\ k \notin Spots(Off) /\ k + 1 \notin Spots(Ahead) /\ k - 1 \notin Spots(Behind)
  BY <1>2, NodeSees
<1> HIDE DEF L, n
<1>5. /\ k = L => q = "node_tail" /\ prev' = prev
      /\ k # L => q = "remove_size" /\ prev' = [prev EXCEPT ![listed[k + 1]] = prev[listed[k]]]
  <2>1. CASE k = L
    <3>1. next[n] = NULL
      BY <2>1, <1>4
    <3>2. prev' = prev
      BY <3>1, <1>1, <1>3, NullAssumption DEF Pointers
    <3> QED BY <2>1, <3>1, <3>2
  <2>2. CASE k # L
    <3>1. next[n] = listed[k + 1] /\ next[n] # NULL
      BY <2>2, <1>4, NullAssumption
    <3>2. prev' = [prev EXCEPT ![listed[k + 1]] = prev[listed[k]]]
      BY <3>1, <1>1, <1>3, <1>4 DEF Pointers
    <3> QED BY <2>2, <3>1, <3>2
  <2> QED BY <2>1, <2>2
<1> HIDE DEF q
<1>6. AboutNode(q, n) /\ AllowedBy(q, uses[t])
  <2>1. AboutNode("node_next", n) /\ AllowedBy("node_next", uses[t])
    BY <1>1 DEF StepInv, ThreadInv, n
  <2>2. q \in {"node_tail", "remove_size"} /\ (q = "node_tail" => n = listed[Len(listed)])
    BY <1>4, <1>5 DEF L
  <2> QED BY <2>1, <2>2 DEF AboutNode, AllowedBy, AtNode, InHead, InNode, AtEnd, Leaving
<1>7. prev' \in Pointers /\ \A m \in Node : ~Listed(m) => prev'[m] = prev[m]
  <2>1. prev[listed[k]] \in Node \cup {NULL}
    BY <1>3, <1>4 DEF Pointers
  <2> QED BY <2>1, <1>3, <1>4, <1>5 DEF Pointers
<1>8. ThreadInv
  BY DEF StepInv
<1>9. CASE k = L
  <2>1. \A P \in {Ahead, Behind, Off} : Spots(P)' = Spots(P)
    <3>1. \A P \in {Ahead, Behind, Off} : q \in P <=> at[t] \in P
      BY <1>1, <1>5, <1>9 DEF Ahead, Behind, Off
    <3> QED BY <3>1, <1>1, <1>2, <1>8, SameSpots
  <2>2. prev' = prev
    BY <1>5, <1>9
  <2> QED BY <2>1, <2>2, <1>1, <1>2, <1>3, <1>6, <1>7, RemoverMoves DEF StepInv, PointerInv, n
<1>10. CASE k # L
  <2>1. /\ Spots(Ahead)' = Spots(Ahead)
        /\ Spots(Off)' = Spots(Off) \cup {k} /\ Spots(Behind)' = Spots(Behind) \cup {k}
    <3>1. /\ q \in Ahead /\ q \in Off /\ q \in Behind /\ at[t] \in Ahead
      BY <1>1, <1>5, <1>10 DEF Ahead, Off, Behind
    <3>2. Spots(Ahead)' = Spots(Ahead)
      BY <3>1, <1>1, <1>2, <1>8, SameSpots
    <3>3. Spots(Off)' = Spots(Off) \cup {k}
      BY <3>1, <1>1, <1>4, <1>8, SpotMoves DEF L, n
    <3>4. Spots(Behind)' = Spots(Behind) \cup {k}
      BY <3>1, <1>1, <1>4, <1>8, SpotMoves DEF L, n
    <3> QED BY <3>2, <3>3, <3>4
  <2>2. ASSUME NEW j \in Node \cup {NULL}, Joins(Linking, j)
        PROVE  Forwards(listed, L, Spots(Ahead), Spots(Off) \cup {k}, j, head, next)
    <3>1. Forwards(listed, L, Spots(Ahead), Spots(Off), j, head, next)
      BY <2>2 DEF StepInv, PointerInv, L
    <3> QED BY <3>1, ForwardsWeaker
  <2>3. ASSUME NEW e \in Node \cup {NULL}, Joins(Ending, e)
        PROVE  Backwards(listed, L, Spots(Behind) \cup {k}, Spots(Off) \cup {k}, e, tail, prev')
    <3>1. Backwards(listed, L, Spots(Behind), Spots(Off), e, tail, prev)
      BY <2>3 DEF StepInv, PointerInv, L
    <3>2. Backwards(listed, L, Spots(Behind) \cup {k}, Spots(Off), e, tail, prev')
      BY <3>1, <1>3, <1>4, <1>5, <1>10, BackwardsSkip
    <3> QED BY <3>2, BackwardsWeaker
  <2> QED BY <2>1, <2>2, <2>3, <1>1, <1>2, <1>3, <1>6, <1>7, RemoverMoves DEF L, n
<1> QED BY <1>9, <1>10

LEMMA node_tailInv ==
    ASSUME StepInv, ~Meeting', NEW t \in Thread, node_tail(t)
    PROVE  StepInv'
<1> DEFINE L == Len(listed)
           n == node[t]
<1>1. /\ at[t] = "node_tail" /\ at' = [at EXCEPT ![t] = "remove_size"]
      /\ UNCHANGED <<node, listed, uses, created, removed, head, next, prev>>
      /\ tail' = IF tail = n THEN prev[n] ELSE tail
  BY DEF node_tail, goes, local_vars
<1>2. at[t] \in InNode /\ at[t] \in AtNode /\ "remove_size" \in AtNode
  BY <1>1 DEF InNode, AtNode, Leaving
<1>3. /\ L \in Nat /\ Nodes(listed, L) /\ next \in Pointers /\ prev \in Pointers
      /\ head \in Node \cup {NULL}
  BY TypeFacts DEF StepInv, ThreadInv, StepTypes
<1>4. PICK k \in 1..L :
             /\ Sees(t, k) /\ n = listed[k] /\ n \in Node
             /\ next[n] = IF k = L THEN NULL ELSE listed[k + 1]
             /\ prev[n] = IF k = 1 THEN NULL ELSE listed[k - 1]
             /\ k # L => k + 1 \in 1..L /\ listed[k + 1] \in Node
             /\ k # 1 => k - 1 \in 1..L /\ listed[k - 1] \in Node
             /\ k \notin Spots(Off) /\ k + 1 \notin Spots(Ahead) /\ k - 1 \notin Spots(Behind)
  BY <1>2, NodeSees
<1>5. k = L /\ tail = n /\ \A e : Joins(Ending, e) => e = NULL
  <2>1. at[t] \notin Behind
    BY <1>1 DEF Behind
  <2> QED BY <2>1, <1>1, <1>4 DEF Sees
<1> HIDE DEF L, n
<1>6. tail' = prev[listed[k]]
  BY <1>1, <1>4, <1>5
<1>7. /\ Spots(Ahead)' = Spots(Ahead)
      /\ Spots(Off)' = Spots(Off) \cup {k} /\ Spots(Behind)' = Spots(Behind) \cup {k}
  <2>1. /\ "remove_size" \in Ahead /\ "remove_size" \in Off /\ "remove_size" \in Behind
        /\ at[t] \in Ahead
    BY <1>1 DEF Ahead, Off, Behind
  <2>2. ThreadInv
    BY DEF StepInv
  <2>3. Spots(Ahead)' = Spots(Ahead)
    BY <2>1, <2>2, <1>1, <1>2, SameSpots
  <2>4. Spots(Off)' = Spots(Off) \cup {k}
    BY <2>1, <2>2, <1>1, <1>4, SpotMoves DEF L, n
  <2>5. Spots(Behind)' = Spots(Behind) \cup {k}
    BY <2>1, <2>2, <1>1, <1>4, SpotMoves DEF L, n
  <2> QED BY <2>3, <2>4, <2>5
<1>8. ASSUME NEW j \in Node \cup {NULL}, Joins(Linking, j)
      PROVE  Forwards(listed, L, Spots(Ahead), Spots(Off) \cup {k}, j, head, next)
  <2>1. Forwards(listed, L, Spots(Ahead), Spots(Off), j, head, next)
    BY <1>8 DEF StepInv, PointerInv, L
  <2> QED BY <2>1, ForwardsWeaker
<1>9. ASSUME NEW e \in Node \cup {NULL}, Joins(Ending, e)
      PROVE  Backwards(listed, L, Spots(Behind) \cup {k}, Spots(Off) \cup {k}, e, tail', prev)
  <2>1. Backwards(listed, L, Spots(Behind), Spots(Off), e, tail, prev)
    BY <1>9 DEF StepInv, PointerInv, L
  <2>2. e = NULL
    BY <1>5, <1>9
  <2>3. Backwards(listed, L, Spots(Behind) \cup {k}, Spots(Off), e, tail', prev)
    BY <2>1, <2>2, <1>3, <1>4, <1>5, <1>6, BackwardsSkip
  <2> QED BY <2>3, BackwardsWeaker
<1>10. AboutNode("remove_size", n) /\ AllowedBy("remove_size", uses[t])
  <2>1. AboutNode("node_tail", n) /\ AllowedBy("node_tail", uses[t])
    BY <1>1 DEF StepInv, ThreadInv, n
  <2> QED BY <2>1 DEF AboutNode, AllowedBy, AtNode, InHead, InNode, AtEnd, Leaving
<1>11. tail' \in Node \cup {NULL}
  BY <1>3, <1>4, <1>6 DEF Pointers
<1> QED BY <1>1, <1>2, <1>3, <1>7, <1>8, <1>9, <1>10, <1>11, RemoverMoves DEF L, n

LEMMA remove_sizeInv ==
    ASSUME StepInv, ~Meeting', NEW t \in Thread, reads_size(t, "remove_size", "remove_store")
    PROVE  StepInv'
<1>1. /\ at[t] = "remove_size" /\ at' = [at EXCEPT ![t] = "remove_store"]
      /\ UNCHANGED <<node, listed, uses, created, removed, head, tail, next, prev>>
  BY DEF reads_size, local_vars, pointer_vars
<1>2. at[t] \in AtNode /\ "remove_store" \in AtNode
  BY <1>1 DEF AtNode, Leaving
<1>3. \A P \in {Ahead, Behind, Off} : Spots(P)' = Spots(P)
  <2>1. \A P \in {Ahead, Behind, Off} : "remove_store" \in P /\ at[t] \in P
    BY <1>1 DEF Ahead, Behind, Off
  <2> QED BY <2>1, <1>1, <1>2, SameSpots DEF StepInv
<1>4. AboutNode("remove_store", node[t]) /\ AllowedBy("remove_store", uses[t])
  <2>1. AboutNode("remove_size", node[t]) /\ AllowedBy("remove_size", uses[t])
    BY <1>1 DEF StepInv, ThreadInv
  <2> QED BY <2>1 DEF AboutNode, AllowedBy, AtNode, InHead, InNode, AtEnd, Leaving
<1>5. /\ head \in Node \cup {NULL} /\ tail \in Node \cup {NULL}
      /\ next \in Pointers /\ prev \in Pointers
  BY DEF StepInv, ThreadInv, StepTypes
<1> QED BY <1>1, <1>2, <1>3, <1>4, <1>5, RemoverMoves DEF StepInv, PointerInv

-----------------------------------------------------------------------------
(* A thread that adds is the only one, and nobody removes the last node:   *)
(* until it has changed it, tail is the end of the list.                   *)
LEMMA AdderSees ==
    ASSUME StepInv, NEW t \in Thread, at[t] \in AtEnd
    PROVE  /\ Len(listed) \notin Spots(Ahead) /\ Len(listed) \notin Spots(Behind)
           /\ Spots(Ahead) \subseteq 1..Len(listed) /\ Spots(Behind) \subseteq 1..Len(listed)
           /\ Spots(Off) \subseteq 1..Len(listed)
           /\ Forwards(listed, Len(listed), Spots(Ahead), Spots(Off),
                       IF at[t] \in Linking THEN node[t] ELSE NULL, head, next)
           /\ Backwards(listed, Len(listed), Spots(Behind), Spots(Off),
                        IF at[t] \in Ending THEN node[t] ELSE NULL, tail, prev)
           /\ Len(listed) \in Nat /\ Nodes(listed, Len(listed))
           /\ next \in Pointers /\ prev \in Pointers
           /\ head \in Node \cup {NULL} /\ tail \in Node \cup {NULL}
           /\ node[t] \in Node /\ node[t] \in created
           /\ \A i \in 1..Len(listed) : listed[i] # node[t] /\ listed[i] \in created
           /\ next[node[t]] = NULL
           /\ prev[node[t]] = IF at[t] \in {"add_tail"} \cup Ending /\ Len(listed) # 0
                                THEN listed[Len(listed)] ELSE NULL
           /\ at[t] \notin Ending => tail = IF Len(listed) = 0 THEN NULL ELSE listed[Len(listed)]
<1> DEFINE L == Len(listed)
           j == IF at[t] \in Linking THEN node[t] ELSE NULL
           e == IF at[t] \in Ending THEN node[t] ELSE NULL
<1>1. /\ L \in Nat /\ Nodes(listed, L) /\ next \in Pointers /\ prev \in Pointers
      /\ head \in Node \cup {NULL} /\ tail \in Node \cup {NULL}
      /\ \A x : Listed(x) <=> \E i \in 1..L : listed[i] = x
  BY TypeFacts DEF StepInv, ThreadInv, StepTypes
<1>2. node[t] \in Node /\ node[t] \in created /\ ~Listed(node[t])
  BY DEF StepInv, ThreadInv, StepTypes, AboutNode
<1>3. \A i \in 1..L : listed[i] # node[t] /\ listed[i] \in created
  BY <1>1, <1>2 DEF StepInv, ThreadInv, NewNodes
<1>4. /\ Ahead \subseteq AtNode /\ Behind \subseteq AtNode /\ Off \subseteq AtNode
      /\ Linking \subseteq AtEnd /\ Ending \subseteq AtEnd
  BY DEF Ahead, Behind, Off, AtNode, InHead, InNode, Leaving, Linking, Ending, AtEnd
<1>5. L \notin Spots(Ahead) /\ L \notin Spots(Behind)
  BY <1>4, Apart, SpotsWithin DEF StepInv
<1>6. Spots(Ahead) \subseteq 1..L /\ Spots(Behind) \subseteq 1..L /\ Spots(Off) \subseteq 1..L
  BY DEF Spots
<1>7. Joins(Linking, j) /\ Joins(Ending, e) /\ j \in Node \cup {NULL} /\ e \in Node \cup {NULL}
  BY <1>2, <1>4, AdderJoins DEF StepInv
<1>8. /\ Forwards(listed, L, Spots(Ahead), Spots(Off), j, head, next)
      /\ Backwards(listed, L, Spots(Behind), Spots(Off), e, tail, prev)
  BY <1>7 DEF StepInv, PointerInv
<1>9. /\ next[node[t]] = NULL
      /\ prev[node[t]] = IF at[t] \in {"add_tail"} \cup Ending /\ L # 0 THEN listed[L] ELSE NULL
  BY DEF StepInv, PointerInv, AddedNode
<1>10. ASSUME at[t] \notin Ending
       PROVE  tail = IF L = 0 THEN NULL ELSE listed[L]
  <2>1. tail = Backward(listed, Spots(Behind), L + 1)
    BY <1>8, <1>10 DEF Backwards
  <2> HIDE DEF L
  <2> QED BY <2>1, <1>1, <1>5 DEF Backward
<1> QED BY <1>1, <1>2, <1>3, <1>5, <1>6, <1>8, <1>9, <1>10

LEMMA add_testInv ==
    ASSUME StepInv, ~Meeting', NEW t \in Thread, add_test(t)
    PROVE  StepInv'
<1> DEFINE q == IF tail = NULL THEN "add_first" ELSE "add_link"
<1>1. /\ at[t] = "add" /\ at' = [at EXCEPT ![t] = q]
      /\ UNCHANGED <<node, listed, uses, created, removed, head, tail, next, prev>>
  BY DEF add_test, goes, local_vars, pointer_vars
<1>2. at[t] \in AtEnd /\ at[t] \notin Ending /\ at[t] \notin Linking /\ at[t] # "add_tail"
      /\ q \in AtEnd /\ q \notin Ending /\ q \notin Linking /\ q # "add_tail"
  BY <1>1 DEF AtEnd, Ending, Linking
<1>3. /\ q = "add_first" => Len(listed) = 0
      /\ q = "add_link" => Len(listed) # 0
  <2>1. /\ tail = IF Len(listed) = 0 THEN NULL ELSE listed[Len(listed)]
        /\ Len(listed) \in Nat /\ Nodes(listed, Len(listed))
    BY <1>2, AdderSees
  <2>2. Len(listed) # 0 => listed[Len(listed)] \in Node
    BY <2>1 DEF Nodes
  <2> QED BY <2>1, <2>2, NullAssumption
<1> HIDE DEF q
<1>4. AboutNode(q, node[t])
  <2>1. AboutNode("add", node[t])
    BY <1>1 DEF StepInv, ThreadInv
  <2>2. q \in {"add_first", "add_link"}
    BY DEF q
  <2> QED BY <2>1, <2>2, <1>3 DEF AboutNode, AtNode, InHead, InNode, AtEnd, Leaving
<1>5. /\ Forwards(listed, Len(listed), Spots(Ahead), Spots(Off), NULL, head, next)
      /\ Backwards(listed, Len(listed), Spots(Behind), Spots(Off), NULL, tail, prev)
      /\ next \in Pointers /\ prev \in Pointers
      /\ head \in Node \cup {NULL} /\ tail \in Node \cup {NULL}
      /\ next[node[t]] = NULL /\ prev[node[t]] = NULL
  BY <1>2, AdderSees
<1> QED BY <1>1, <1>2, <1>4, <1>5, AdderMoves

LEMMA add_firstInv ==
    ASSUME StepInv, ~Meeting', NEW t \in Thread, add_first(t)
    PROVE  StepInv'
<1> DEFINE L == Len(listed)
           n == node[t]
<1>1. /\ at[t] = "add_first" /\ at' = [at EXCEPT ![t] = "add_tail"] /\ head' = n
      /\ UNCHANGED <<node, listed, uses, created, removed, tail, next, prev>>
  BY DEF add_first, goes, local_vars
<1>2. at[t] \in AtEnd /\ at[t] \notin Ending /\ at[t] \notin Linking /\ at[t] # "add_tail"
      /\ "add_tail" \in AtEnd /\ "add_tail" \notin Ending /\ "add_tail" \in Linking
  BY <1>1 DEF AtEnd, Ending, Linking
<1>3. L = 0
  BY <1>1 DEF StepInv, ThreadInv, AboutNode
<1>4. /\ Spots(Ahead) \subseteq 1..L /\ L \notin Spots(Ahead)
      /\ Forwards(listed, L, Spots(Ahead), Spots(Off), NULL, head, next)
      /\ Backwards(listed, L, Spots(Behind), Spots(Off), NULL, tail, prev)
      /\ L \in Nat /\ Nodes(listed, L) /\ n \in Node
      /\ next \in Pointers /\ prev \in Pointers /\ tail \in Node \cup {NULL}
      /\ next[n] = NULL /\ prev[n] = NULL
  BY <1>2, AdderSees
<1>5. AboutNode("add_tail", n)
  <2>1. AboutNode("add_first", n)
    BY <1>1 DEF StepInv, ThreadInv
  <2> QED BY <2>1 DEF AboutNode, AtNode, InHead, InNode, AtEnd, Leaving
<1> HIDE DEF L, n
<1>6. Forwards(listed, L, Spots(Ahead), Spots(Off), n, head', next')
  <2>1. head' = (IF L = 0 THEN n ELSE head)
        /\ next' = IF L = 0 THEN next ELSE [next EXCEPT ![listed[L]] = n]
    BY <1>1, <1>3
  <2> QED BY <2>1, <1>4, ForwardsJoin
<1> QED BY <1>1, <1>2, <1>3, <1>4, <1>5, <1>6, AdderMoves DEF L, n

LEMMA add_linkInv ==
    ASSUME StepInv, ~Meeting', NEW t \in Thread, add_link(t)
    PROVE  StepInv'
<1> DEFINE L == Len(listed)
           n == node[t]
<1>1. /\ at[t] = "add_link" /\ at' = [at EXCEPT ![t] = IF tail = NULL THEN "fault" ELSE "add_back"]
      /\ next' = [m \in Node |-> IF m = tail THEN n ELSE next[m]]
      /\ UNCHANGED <<node, listed, uses, created, removed, head, tail, prev>>
  BY DEF add_link, goes, local_vars
<1>2. at[t] \in AtEnd /\ at[t] \notin Ending /\ at[t] \notin Linking /\ at[t] # "add_tail"
      /\ "add_back" \in AtEnd /\ "add_back" \notin Ending /\ "add_back" \in Linking
  BY <1>1 DEF AtEnd, Ending, Linking
<1>3. L # 0
  BY <1>1 DEF StepInv, ThreadInv, AboutNode
<1>4. /\ Spots(Ahead) \subseteq 1..L /\ L \notin Spots(Ahead)
      /\ Forwards(listed, L, Spots(Ahead), Spots(Off), NULL, head, next)
      /\ Backwards(listed, L, Spots(Behind), Spots(Off), NULL, tail, prev)
      /\ L \in Nat /\ Nodes(listed, L) /\ n \in Node
      /\ next \in Pointers /\ prev \in Pointers
      /\ head \in Node \cup {NULL} /\ tail \in Node \cup {NULL}
      /\ next[n] = NULL /\ prev[n] = NULL
      /\ tail = IF L = 0 THEN NULL ELSE listed[L]
      /\ \A i \in 1..L : listed[i] # n /\ listed[i] \in created
  BY <1>2, AdderSees
<1>5. AboutNode("add_back", n)
  <2>1. AboutNode("add_link", n)
    BY <1>1 DEF StepInv, ThreadInv
  <2> QED BY <2>1 DEF AboutNode, AtNode, InHead, InNode, AtEnd, Leaving
<1> HIDE DEF L, n
<1>6. L \in 1..L /\ tail = listed[L] /\ tail \in Node /\ tail # NULL /\ tail # n /\ tail \in created
  <2>1. L \in 1..L /\ tail = listed[L]
    BY <1>3, <1>4
  <2> QED BY <2>1, <1>4, NullAssumption DEF Nodes
<1>7. at' = [at EXCEPT ![t] = "add_back"] /\ next' = [next EXCEPT ![listed[L]] = n]
  BY <1>1, <1>4, <1>6 DEF Pointers
<1>8. next' \in Pointers /\ next'[n] = NULL /\ \A m \in Node \ created : next'[m] = next[m]
  BY <1>4, <1>6, <1>7 DEF Pointers
<1>9. Forwards(listed, L, Spots(Ahead), Spots(Off), n, head, next')
  <2>1. head = (IF L = 0 THEN n ELSE head)
        /\ next' = IF L = 0 THEN next ELSE [next EXCEPT ![listed[L]] = n]
    BY <1>3, <1>7
  <2> QED BY <2>1, <1>4, ForwardsJoin
<1> QED BY <1>1, <1>2, <1>4, <1>5, <1>7, <1>8, <1>9, AdderMoves DEF L, n

LEMMA add_backInv ==
    ASSUME StepInv, ~Meeting', NEW t \in Thread, add_back(t)
    PROVE  StepInv'
<1> DEFINE L == Len(listed)
           n == node[t]
<1>1. /\ at[t] = "add_back" /\ at' = [at EXCEPT ![t] = "add_tail"]
      /\ prev' = [prev EXCEPT ![n] = tail]
      /\ UNCHANGED <<node, listed, uses, created, removed, head, tail, next>>
  BY DEF add_back, goes, local_vars
<1>2. at[t] \in AtEnd /\ at[t] \notin Ending /\ at[t] \in Linking
      /\ "add_tail" \in AtEnd /\ "add_tail" \notin Ending /\ "add_tail" \in Linking
  BY <1>1 DEF AtEnd, Ending, Linking
<1>3. L # 0
  BY <1>1 DEF StepInv, ThreadInv, AboutNode
<1>4. /\ Forwards(listed, L, Spots(Ahead), Spots(Off), n, head, next)
      /\ Backwards(listed, L, Spots(Behind), Spots(Off), NULL, tail, prev)
      /\ L \in Nat /\ Nodes(listed, L) /\ n \in Node /\ n \in created
      /\ next \in Pointers /\ prev \in Pointers
      /\ head \in Node \cup {NULL} /\ tail \in Node \cup {NULL}
      /\ next[n] = NULL
      /\ tail = IF L = 0 THEN NULL ELSE listed[L]
      /\ \A i \in 1..L : listed[i] # n
  BY <1>2, AdderSees
<1>5. AboutNode("add_tail", n)
  <2>1. AboutNode("add_back", n)
    BY <1>1 DEF StepInv, ThreadInv
  <2> QED BY <2>1 DEF AboutNode, AtNode, InHead, InNode, AtEnd, Leaving
<1> HIDE DEF L, n
<1>6. /\ prev' \in Pointers /\ prev'[n] = listed[L]
      /\ \A m \in Node \ created : prev'[m] = prev[m]
  BY <1>1, <1>3, <1>4 DEF Pointers
<1>7. Backwards(listed, L, Spots(Behind), Spots(Off), NULL, tail, prev')
  BY <1>1, <1>4, BackwardsOwn
<1> QED BY <1>1, <1>2, <1>3, <1>4, <1>5, <1>6, <1>7, AdderMoves DEF L, n

LEMMA add_tailInv ==
    ASSUME StepInv, ~Meeting', NEW t \in Thread, add_tail(t)
    PROVE  StepInv'
<1> DEFINE L == Len(listed)
           n == node[t]
<1>1. /\ at[t] = "add_tail" /\ at' = [at EXCEPT ![t] = "add_size"] /\ tail' = n
      /\ UNCHANGED <<node, listed, uses, created, removed, head, next, prev>>
  BY DEF add_tail, goes, local_vars
<1>2. at[t] \in AtEnd /\ at[t] \notin Ending /\ at[t] \in Linking
      /\ "add_size" \in AtEnd /\ "add_size" \in Ending /\ "add_size" \in Linking
  BY <1>1 DEF AtEnd, Ending, Linking
<1>3. /\ Forwards(listed, L, Spots(Ahead), Spots(Off), n, head, next)
      /\ Backwards(listed, L, Spots(Behind), Spots(Off), NULL, tail, prev)
      /\ n \in Node /\ next \in Pointers /\ prev \in Pointers /\ head \in Node \cup {NULL}
      /\ next[n] = NULL /\ prev[n] = IF L # 0 THEN listed[L] ELSE NULL
  BY <1>1, <1>2, AdderSees
<1>4. AboutNode("add_size", n)
  <2>1. AboutNode("add_tail", n)
    BY <1>1 DEF StepInv, ThreadInv
  <2> QED BY <2>1 DEF AboutNode, AtNode, InHead, InNode, AtEnd, Leaving
<1> HIDE DEF L, n
<1>5. Backwards(listed, L, Spots(Behind), Spots(Off), n, tail', prev)
  BY <1>1, <1>3, NullAssumption DEF Backwards
<1> QED BY <1>1, <1>2, <1>3, <1>4, <1>5, AdderMoves DEF L, n

LEMMA add_sizeInv ==
    ASSUME StepInv, ~Meeting', NEW t \in Thread, reads_size(t, "add_size", "add_store")
    PROVE  StepInv'
<1>1. /\ at[t] = "add_size" /\ at' = [at EXCEPT ![t] = "add_store"]
      /\ UNCHANGED <<node, listed, uses, created, removed, head, tail, next, prev>>
  BY DEF reads_size, local_vars, pointer_vars
<1>2. at[t] \in AtEnd /\ at[t] \in Ending /\ at[t] \in Linking
      /\ "add_store" \in AtEnd /\ "add_store" \in Ending /\ "add_store" \in Linking
  BY <1>1 DEF AtEnd, Ending, Linking
<1>3. AboutNode("add_store", node[t])
  <2>1. AboutNode("add_size", node[t])
    BY <1>1 DEF StepInv, ThreadInv
  <2> QED BY <2>1 DEF AboutNode, AtNode, InHead, InNode, AtEnd, Leaving
<1> QED BY <1>1, <1>2, <1>3, AdderSees, AdderMoves

-----------------------------------------------------------------------------
(* A function is entered and left.                                         *)

LEMMA ThreadCalls ==
    ASSUME StepInv, NEW t \in Thread, NEW q \in Place, NEW n \in Node,
           at[t] = "idle", at' = [at EXCEPT ![t] = q], node' = [node EXCEPT ![t] = n],
           UNCHANGED <<head, tail, next, prev, listed, uses, removed>>,
           created' \subseteq Node, created \subseteq created',
           \A u \in Thread : node[u] # n,
           AboutNode(q, n)', AllowedBy(q, uses[t])
    PROVE  ThreadInv'
<1>1. \A u \in Thread : /\ at'[u] = IF u = t THEN q ELSE at[u]
                        /\ node'[u] = IF u = t THEN n ELSE node[u]
  BY DEF StepInv, ThreadInv, StepTypes
<1>2. StepTypes' /\ NewNodes'
  <2>1. StepTypes'
    BY DEF StepInv, ThreadInv, StepTypes, Nodes, Distinct
  <2>2. NewNodes'
    BY DEF StepInv, ThreadInv, NewNodes
  <2> QED BY <2>1, <2>2
<1>3. \A p, m : AboutNode(p, m) => AboutNode(p, m)'
  BY DEF AboutNode, Listed
<1>4. \A u \in Thread : AboutNode(at[u], node[u])'
  <2> SUFFICES ASSUME NEW u \in Thread PROVE AboutNode(at[u], node[u])'
    OBVIOUS
  <2>1. CASE u = t
    BY <2>1, <1>1 DEF AboutNode, Listed
  <2>2. CASE u # t
    <3>1. AboutNode(at[u], node[u])
      BY DEF StepInv, ThreadInv
    <3>2. at'[u] = at[u] /\ node'[u] = node[u]
      BY <2>2, <1>1
    <3> QED BY <3>1, <3>2 DEF AboutNode, Listed
  <2> QED BY <2>1, <2>2
<1>5. \A u \in Thread : AllowedBy(at[u], uses[u])'
  BY <1>1 DEF StepInv, ThreadInv, AllowedBy
<1>6. \A u, v \in Thread : u # v /\ node'[u] = node'[v] => node'[u] = NULL
  BY <1>1 DEF StepInv, ThreadInv
<1> QED BY <1>2, <1>4, <1>5, <1>6 DEF ThreadInv

(* Entering a function changes no pointer, and what the invariant says of  *)
(* the others stays.                                                       *)
LEMMA CallPointers ==
    ASSUME StepInv, NEW t \in Thread, NEW q, NEW n \in Node,
           q \notin Ahead \cup Behind \cup Off \cup Linking \cup Ending,
           at[t] = "idle", at' = [at EXCEPT ![t] = q], node' = [node EXCEPT ![t] = n],
           UNCHANGED <<head, tail, next, prev, listed, uses, removed>>,
           q \in AtEnd => q = "add" /\ next[n] = NULL /\ prev[n] = NULL
    PROVE  PointerInv'
<1>1. \A u \in Thread : /\ at'[u] = IF u = t THEN q ELSE at[u]
                        /\ node'[u] = IF u = t THEN n ELSE node[u]
  BY DEF StepInv, ThreadInv, StepTypes
<1>2. at[t] \notin Ahead \cup Behind \cup Off \cup Linking \cup Ending
  BY DEF Ahead, Behind, Off, Linking, Ending
<1>3. \A P \in {Ahead, Behind, Off} : Spots(P)' = Spots(P)
  BY <1>1, <1>2, SpotsStay DEF StepInv
<1>4. \A P \in {Linking, Ending} : \A j : Joins(P, j)' <=> Joins(P, j)
  BY <1>1, <1>2, JoinsStay DEF StepInv
<1>5. AddedNode'
  <2> SUFFICES ASSUME NEW u \in Thread, at'[u] \in AtEnd
               PROVE  /\ next[node'[u]] = NULL
                      /\ prev[node'[u]] = IF at'[u] \in {"add_tail"} \cup Ending /\ Len(listed) # 0
                                            THEN listed[Len(listed)] ELSE NULL
    BY DEF AddedNode
  <2>1. CASE u = t
    BY <2>1, <1>1 DEF Ending
  <2>2. CASE u # t
    BY <2>2, <1>1 DEF StepInv, PointerInv, AddedNode
  <2> QED BY <2>1, <2>2
<1>6. /\ Spots(Ahead)' = Spots(Ahead) /\ Spots(Behind)' = Spots(Behind)
      /\ Spots(Off)' = Spots(Off)
      /\ \A j : Joins(Linking, j)' <=> Joins(Linking, j)
      /\ \A e : Joins(Ending, e)' <=> Joins(Ending, e)
  BY <1>3, <1>4
<1>7. PointerInv
  BY DEF StepInv
<1> QED BY <1>5, <1>6, <1>7 DEF PointerInv

LEMMA add_createInv ==
    ASSUME StepInv, ~Meeting', NEW t \in Thread, add_create(t)
    PROVE  StepInv'
<1>1. PICK n \in Node \ created : call(t, "add", "add", n) /\ created' = created \cup {n}
  BY DEF add_create
<1>2. /\ at[t] = "idle" /\ at' = [at EXCEPT ![t] = "add"] /\ node' = [node EXCEPT ![t] = n]
      /\ UNCHANGED <<head, tail, next, prev, listed, uses, removed>>
  BY <1>1 DEF call, pointer_vars
<1>3. /\ "add" \notin Ahead \cup Behind \cup Off \cup Linking \cup Ending
      /\ "add" \in AtEnd /\ "add" \in Place /\ "add" \notin AtNode /\ "add" \notin InHead
  BY DEF Ahead, Behind, Off, Linking, Ending, AtEnd, Place, AtNode, InHead, InNode, Leaving
<1>4. ~Listed(n) /\ n \notin removed /\ next[n] = NULL /\ prev[n] = NULL
  BY <1>1, TypeFacts DEF StepInv, ThreadInv, StepTypes, NewNodes
<1>5. ASSUME NEW u \in Thread
      PROVE  node[u] # n
  <2>1. at[u] \in {"idle"} \cup AtEnd \cup AtNode /\ AboutNode(at[u], node[u])
    BY DEF StepInv, ThreadInv, StepTypes, Place
  <2>2. node[u] = NULL \/ node[u] \in created \/ Listed(node[u])
    BY <2>1 DEF AboutNode
  <2> QED BY <2>2, <1>1, <1>4, NullAssumption
<1>6. AboutNode("add", n)'
  BY <1>1, <1>2, <1>3, <1>4 DEF AboutNode, Listed
<1>7. AllowedBy("add", uses[t])
  BY <1>3 DEF AllowedBy
<1>8. created' \subseteq Node /\ created \subseteq created'
  BY <1>1 DEF StepInv, ThreadInv, StepTypes
<1>9. ThreadInv'
  BY <1>1, <1>2, <1>3, <1>5, <1>6, <1>7, <1>8, ThreadCalls
<1>10. PointerInv'
  BY <1>1, <1>2, <1>3, <1>4, CallPointers
<1> QED BY <1>9, <1>10 DEF StepInv

LEMMA TakesInv ==
    ASSUME StepInv, ~Meeting', NEW t \in Thread, NEW q \in {"head", "node_prev"}, NEW n \in Node,
           at[t] = "idle", at' = [at EXCEPT ![t] = q], node' = [node EXCEPT ![t] = n],
           UNCHANGED <<head, tail, next, prev, listed, uses, removed, created>>,
           Listed(n), \A u \in Thread : node[u] # n, ~(uses[t] \subseteq {"add"}),
           q = "head" => n = listed[1] /\ "remove_head" \in uses[t]
    PROVE  StepInv'
<1>1. /\ q \notin Ahead \cup Behind \cup Off \cup Linking \cup Ending
      /\ q \notin AtEnd /\ q \in Place /\ (q \in InHead => q = "head")
  BY DEF Ahead, Behind, Off, Linking, Ending, AtEnd, Place, AtNode, InHead, InNode, Leaving
<1>2. AboutNode(q, n)'
  BY <1>1 DEF AboutNode, Listed
<1>3. AllowedBy(q, uses[t])
  BY <1>1 DEF AllowedBy
<1>4. created' \subseteq Node /\ created \subseteq created'
  BY DEF StepInv, ThreadInv, StepTypes
<1>5. ThreadInv'
  BY <1>1, <1>2, <1>3, <1>4, ThreadCalls
<1>6. PointerInv'
  BY <1>1, CallPointers
<1> QED BY <1>5, <1>6 DEF StepInv

LEMMA node_takeInv ==
    ASSUME StepInv, ~Meeting', NEW t \in Thread, node_take(t)
    PROVE  StepInv'
<1>1. PICK n \in Node : /\ Listed(n) /\ \A u \in Thread : node[u] # n
                        /\ call(t, "remove_node", "node_prev", n)
  BY DEF node_take
<1>2. /\ at[t] = "idle" /\ at' = [at EXCEPT ![t] = "node_prev"] /\ node' = [node EXCEPT ![t] = n]
      /\ UNCHANGED <<head, tail, next, prev, listed, uses, removed, created>>
      /\ ~(uses[t] \subseteq {"add"})
  BY <1>1 DEF call, pointer_vars, node_take
<1> QED BY <1>1, <1>2, TakesInv

(* Nobody else removes while a thread is about to take the head, so the    *)
(* head is the first node of the list, or the first one being added, and   *)
(* there the threads would meet.                                           *)
LEMMA OnlyRemover ==
    ASSUME ThreadInv, NEW t \in Thread, NEW u \in Thread, t # u,
           "remove_head" \in uses[t]
    PROVE  at[u] \notin AtNode
BY HeadsAssumption DEF ThreadInv, StepTypes, AllowedBy

LEMMA head_takeInv ==
    ASSUME StepInv, ~Meeting', NEW t \in Thread, head_take(t)
    PROVE  StepInv'
<1> DEFINE L == Len(listed)
<1>1. /\ at[t] = "idle" /\ at' = [at EXCEPT ![t] = "head"] /\ node' = [node EXCEPT ![t] = head]
      /\ UNCHANGED <<head, tail, next, prev, listed, uses, removed, created>>
      /\ "remove_head" \in uses[t] /\ head # NULL
  BY DEF head_take, call, pointer_vars
<1>2. /\ L \in Nat /\ head \in Node
      /\ \A x : Listed(x) <=> \E i \in 1..L : listed[i] = x
      /\ \A u \in Thread : at[u] \in Place
      /\ \A u \in Thread : /\ at'[u] = IF u = t THEN "head" ELSE at[u]
                           /\ node'[u] = IF u = t THEN head ELSE node[u]
  BY <1>1, TypeFacts DEF StepInv, ThreadInv, StepTypes
<1>3. \A u \in Thread : at[u] \notin AtNode
  <2>1. at[t] \notin AtNode
    BY <1>1 DEF AtNode, InHead, InNode, Leaving
  <2> QED BY <2>1, <1>1, OnlyRemover DEF StepInv
<1>4. 1 \notin Spots(Ahead)
  BY <1>3 DEF Spots, Ahead, AtNode, InHead, InNode, Leaving
<1>5. PICK j \in Node \cup {NULL} : Joins(Linking, j)
  <2>1. Linking \subseteq AtEnd
    BY DEF Linking, AtEnd
  <2> QED BY <2>1, JoinsExist DEF StepInv
<1>6. head = Onward(listed, L, Spots(Ahead), j, 0)
  BY <1>5 DEF StepInv, PointerInv, Forwards
<1>7. CASE L = 0
  <2>1. head = j
    BY <1>4, <1>6, <1>7 DEF Onward
  <2>2. PICK u \in Thread : at[u] \in Linking /\ node[u] = head
    BY <2>1, <1>1, <1>5 DEF Joins
  <2>3. u # t /\ at[u] \in AtEnd
    BY <2>2, <1>1 DEF Linking, AtEnd
  <2>4. Adding(u)' /\ Removing(t)' /\ node'[t] = node'[u]
    BY <2>2, <2>3, <1>2 DEF Adding, Removing, Busy, AtEnd
  <2> QED BY <2>3, <2>4 DEF Meeting, MeetAtTheEnd
<1>8. CASE L # 0
  <2>1. 1 <= L /\ 1 \in 1..L
    BY <1>2, <1>8
  <2>2. head = listed[1]
    BY <2>1, <1>4, <1>6 DEF Onward
  <2>3. Listed(head)
    BY <2>1, <2>2, <1>2
  <2>4. ASSUME NEW u \in Thread
        PROVE  node[u] # head
    <3>1. AboutNode(at[u], node[u]) /\ at[u] \in {"idle"} \cup AtEnd
      BY <1>2, <1>3 DEF StepInv, ThreadInv, Place
    <3>2. node[u] = NULL \/ ~Listed(node[u])
      BY <3>1 DEF AboutNode
    <3> QED BY <3>2, <2>3, <1>1
  <2>5. ~(uses[t] \subseteq {"add"})
    BY <1>1
  <2> QED BY <2>2, <2>3, <2>4, <2>5, <1>1, <1>2, TakesInv
<1> QED BY <1>7, <1>8

LEMMA add_returnInv ==
    ASSUME StepInv, ~Meeting', NEW t \in Thread, add_return(t)
    PROVE  StepInv'
<1> DEFINE L == Len(listed)
           n == node[t]
<1>1. /\ at[t] = "add_store" /\ at' = [at EXCEPT ![t] = "idle"] /\ node' = [node EXCEPT ![t] = NULL]
      /\ UNCHANGED <<head, tail, next, prev, uses, created, removed>>
      /\ listed' = IF n \in removed THEN listed ELSE Append(listed, n)
  BY DEF add_return, returns, pointer_vars
<1>2. at[t] \in AtEnd /\ at[t] \in Ending /\ at[t] \in Linking
  BY <1>1 DEF AtEnd, Ending, Linking
<1>3. /\ L \notin Spots(Ahead) /\ L \notin Spots(Behind)
      /\ Spots(Ahead) \subseteq 1..L /\ Spots(Behind) \subseteq 1..L
      /\ Forwards(listed, L, Spots(Ahead), Spots(Off), n, head, next)
      /\ Backwards(listed, L, Spots(Behind), Spots(Off), n, tail, prev)
      /\ L \in Nat /\ Nodes(listed, L)
      /\ n \in Node /\ n \in created
      /\ \A i \in 1..L : listed[i] # n /\ listed[i] \in created
      /\ next[n] = NULL /\ prev[n] = IF L # 0 THEN listed[L] ELSE NULL
  BY <1>1, <1>2, AdderSees
<1>4. L \notin Spots(AtNode) /\ \A u \in Thread : at[u] \in AtEnd => u = t
  BY <1>2, Apart DEF StepInv
<1>5. /\ \A u \in Thread : /\ at'[u] = IF u = t THEN "idle" ELSE at[u]
                           /\ node'[u] = IF u = t THEN NULL ELSE node[u]
      /\ \A u \in Thread : node[u] = n => u = t
      /\ listed \in Seq(Node) /\ n \notin removed /\ AboutNode(at[t], n)
  BY <1>1, <1>2, <1>3, NullAssumption DEF StepInv, ThreadInv, StepTypes, AboutNode
<1>6. /\ listed' \in Seq(Node) /\ Len(listed') = L + 1
      /\ \A i \in 1..L : listed'[i] = listed[i]
      /\ listed'[L + 1] = n
  BY <1>1, <1>3, <1>5, AppendPlaces
<1> HIDE DEF L, n
<1>7. Nodes(listed', L + 1)
  BY <1>3, <1>6 DEF Nodes, Distinct
<1>8. StepTypes'
  <2>1. at' \in [Thread -> Place] /\ node' \in [Thread -> Node \cup {NULL}]
    <3>1. at \in [Thread -> Place] /\ node \in [Thread -> Node \cup {NULL}] /\ "idle" \in Place
      BY DEF StepInv, ThreadInv, StepTypes, Place
    <3> QED BY <3>1, <1>1
  <2>2. Nodes(listed', Len(listed'))
    BY <1>6, <1>7
  <2> QED BY <2>1, <2>2, <1>1, <1>6 DEF StepInv, ThreadInv, StepTypes
<1>9. NewNodes'
  <2>1. \A i \in 1..(L + 1) : listed'[i] \in created
    BY <1>3, <1>6
  <2> QED BY <2>1, <1>1, <1>6 DEF StepInv, ThreadInv, NewNodes
<1>10. ASSUME NEW u \in Thread
       PROVE  AboutNode(at[u], node[u])'
  <2>1. CASE u = t
    <3>1. at'[u] = "idle" /\ node'[u] = NULL
      BY <2>1, <1>5
    <3> QED BY <3>1 DEF AboutNode, AtNode, InHead, InNode, Leaving, AtEnd
  <2>2. CASE u # t
    <3>1. at'[u] = at[u] /\ node'[u] = node[u] /\ AboutNode(at[u], node[u]) /\ at[u] \notin AtEnd
      BY <2>2, <1>4, <1>5 DEF StepInv, ThreadInv
    <3>2. CASE at[u] \notin AtNode
      BY <3>1, <3>2 DEF AboutNode, AtNode, InHead, InNode, Leaving, AtEnd
    <3>3. CASE at[u] \in AtNode
      <4>1. PICK i \in 1..L : node[u] = listed[i]
        BY <3>1, <3>3, TypeFacts DEF AboutNode, StepInv, ThreadInv, L
      <4>2. i # L /\ L \in 1..L
        BY <4>1, <3>3, <1>3, <1>4 DEF Spots, L
      <4>3. node[u] # listed[L]
        BY <4>1, <4>2, <1>3 DEF Nodes, Distinct
      <4>4. i \in 1..(L + 1) /\ listed'[i] = node[u] /\ listed'[1] = listed[1]
        BY <4>1, <4>2, <1>3, <1>6
      <4>5. Listed(node[u])'
        <5>1. DOMAIN listed' = 1..(L + 1)
          BY <1>6
        <5> QED BY <5>1, <4>4, <3>1 DEF Listed
      <4>6. at[u] # "node_tail" /\ Len(listed) # 1 /\ Len(listed') # 1 /\ Len(listed') # 0
        BY <3>1, <4>1, <4>2, <4>3, <1>3, <1>6 DEF AboutNode, L
      <4>7. at[u] # "head_last" /\ at[u] \notin {"idle", "add_first", "add_link", "add_back"}
        BY <3>1, <3>3, <4>6 DEF AboutNode, AtNode, InHead, InNode, Leaving
      <4> QED BY <3>1, <4>4, <4>5, <4>6, <4>7 DEF AboutNode
    <3> QED BY <3>2, <3>3
  <2> QED BY <2>1, <2>2
<1>11. \A u \in Thread : AllowedBy(at[u], uses[u])'
  <2>1. "idle" \notin AtNode /\ "idle" \notin InHead
    BY DEF AtNode, InHead, InNode, Leaving
  <2> QED BY <2>1, <1>1, <1>5 DEF StepInv, ThreadInv, AllowedBy
<1>12. \A u, v \in Thread : u # v /\ node'[u] = node'[v] => node'[u] = NULL
  BY <1>5 DEF StepInv, ThreadInv
<1>13. ThreadInv'
  BY <1>8, <1>9, <1>10, <1>11, <1>12 DEF ThreadInv
<1>14. \A P \in {Ahead, Behind, Off} : Spots(P)' = Spots(P)
  <2> SUFFICES ASSUME NEW P \in {Ahead, Behind, Off} PROVE Spots(P)' = Spots(P)
    OBVIOUS
  <2>1. "idle" \notin P /\ at[t] \notin P
    BY <1>1 DEF Ahead, Behind, Off
  <2>2. \A u \in Thread : (at'[u] \in P <=> at[u] \in P) /\ (at[u] \in P => node'[u] = node[u])
    BY <2>1, <1>5
  <2>3. \A u \in Thread : at[u] \in P => node[u] # n
    BY <2>1, <1>5
  <2>4. /\ Spots(P)' = {i \in 1..(L + 1) : \E u \in Thread : at[u] \in P /\ node[u] = listed'[i]}
        /\ Spots(P) = {i \in 1..L : \E u \in Thread : at[u] \in P /\ node[u] = listed[i]}
    BY <2>2, <1>6 DEF Spots, L
  <2> QED BY <2>3, <2>4, <1>3, <1>6
<1>15. /\ \A j : Joins(Linking, j)' <=> j = NULL
       /\ \A e : Joins(Ending, e)' <=> e = NULL
  <2>1. \A u \in Thread : at'[u] \notin Linking /\ at'[u] \notin Ending
    BY <1>4, <1>5 DEF Linking, Ending, AtEnd
  <2> QED BY <2>1 DEF Joins
<1>16. AddedNode'
  <2>1. \A u \in Thread : at'[u] \notin AtEnd
    BY <1>4, <1>5 DEF AtEnd
  <2> QED BY <2>1 DEF AddedNode
<1>17. Forwards(listed', L + 1, Spots(Ahead), Spots(Off), NULL, head, next)
  BY <1>3, <1>6, ForwardsAppend
<1>18. Backwards(listed', L + 1, Spots(Behind), Spots(Off), NULL, tail, prev)
  <2>1. n # NULL /\ prev[n] = IF L = 0 THEN NULL ELSE listed[L]
    BY <1>3, NullAssumption
  <2> QED BY <2>1, <1>3, <1>6, BackwardsAppend
<1>19. PointerInv'
  <2>1. /\ Spots(Ahead)' = Spots(Ahead) /\ Spots(Behind)' = Spots(Behind)
        /\ Spots(Off)' = Spots(Off)
    BY <1>14
  <2> QED BY <2>1, <1>1, <1>6, <1>15, <1>16, <1>17, <1>18 DEF PointerInv
<1> QED BY <1>13, <1>19 DEF StepInv

LEMMA remove_returnInv ==
    ASSUME StepInv, ~Meeting', NEW t \in Thread, remove_return(t)
    PROVE  StepInv'
<1> DEFINE L == Len(listed)
           n == node[t]
<1>1. /\ at[t] = "remove_store" /\ at' = [at EXCEPT ![t] = "idle"] /\ node' = [node EXCEPT ![t] = NULL]
      /\ UNCHANGED <<head, tail, next, prev, uses, created>>
      /\ listed' = delisted(n) /\ removed' = removed \cup {n}
  BY DEF remove_return, returns, pointer_vars
<1>2. at[t] \in AtNode /\ at[t] \in Ahead /\ at[t] \in Behind
  BY <1>1 DEF AtNode, Leaving, Ahead, Behind
<1>3. /\ L \in Nat /\ Nodes(listed, L) /\ listed \in Seq(Node) /\ DOMAIN listed = 1..L
      /\ \A x : Listed(x) <=> \E i \in 1..L : listed[i] = x
      /\ \A i \in 1..L : listed[i] \in created
  BY TypeFacts DEF StepInv, ThreadInv, StepTypes, NewNodes
<1>4. PICK k \in 1..L :
         /\ n = listed[k] /\ n \in Node
         /\ at[t] \in InHead => k = 1
         /\ at[t] = "node_tail" => k = L
         /\ \A P : k \in Spots(P) <=> at[t] \in P
  BY <1>2, SpotOf DEF StepInv
<1>5. /\ k \in Spots(AtNode) /\ k \in Spots(Ahead) /\ k \in Spots(Behind)
      /\ k - 1 \notin Spots(AtNode) /\ k + 1 \notin Spots(AtNode)
      /\ Spots(Ahead) \subseteq 1..L /\ Spots(Behind) \subseteq 1..L
      /\ Spots(Ahead) \subseteq Spots(AtNode) /\ Spots(Behind) \subseteq Spots(AtNode)
  <2>1. k \in Spots(AtNode) /\ k \in Spots(Ahead) /\ k \in Spots(Behind)
    BY <1>2, <1>4
  <2>2. Ahead \subseteq AtNode /\ Behind \subseteq AtNode
    BY DEF Ahead, Behind, AtNode, InHead, InNode, Leaving
  <2>3. k - 1 \notin Spots(AtNode) /\ k + 1 \notin Spots(AtNode)
    BY <2>1, Apart DEF StepInv
  <2> QED BY <2>1, <2>2, <2>3, SpotsWithin
<1>6. /\ \A u \in Thread : /\ at'[u] = IF u = t THEN "idle" ELSE at[u]
                           /\ node'[u] = IF u = t THEN NULL ELSE node[u]
      /\ \A u \in Thread : node[u] = n => u = t
      /\ \A u \in Thread : at[u] \in Place
  BY <1>1, <1>4, NullAssumption, TypeFacts DEF StepInv, ThreadInv, StepTypes
<1> HIDE DEF L, n
<1>7. listed' = RemoveAt(listed, k)
  <2>1. Listed(n)
    BY <1>3, <1>4
  <2>2. \A i \in DOMAIN listed : listed[i] = n => i = k
    BY <1>3, <1>4 DEF Nodes, Distinct
  <2> DEFINE i == CHOOSE x \in DOMAIN listed : listed[x] = n
  <2>3. i \in DOMAIN listed /\ listed[i] = n
    BY <1>3, <1>4
  <2>4. i = k
    BY <2>2, <2>3
  <2> QED BY <2>1, <2>4, <1>1 DEF delisted
<1>8. /\ listed' \in Seq(Node) /\ Len(listed') = L - 1
      /\ \A i \in 1..(L - 1) : listed'[i] = listed[Shift(k, i)]
      /\ \A i \in 1..(L - 1) : Shift(k, i) \in 1..L /\ Shift(k, i) # k
      /\ \A i \in 1..L : i # k => \E x \in 1..(L - 1) : Shift(k, x) = i
  <2>1. /\ RemoveAt(listed, k) \in Seq(Node) /\ Len(RemoveAt(listed, k)) = L - 1
        /\ \A i \in 1..(L - 1) : RemoveAt(listed, k)[i] = IF i < k THEN listed[i] ELSE listed[i + 1]
    BY <1>3, <1>4, RemoveAtPlaces DEF L
  <2>2. \A i \in 1..(L - 1) : Shift(k, i) \in 1..L /\ Shift(k, i) # k
    BY <1>3, <1>4 DEF Shift
  <2>3. ASSUME NEW i \in 1..L, i # k
        PROVE  \E x \in 1..(L - 1) : Shift(k, x) = i
    <3>1. CASE i < k
      <4>1. i \in 1..(L - 1) /\ Shift(k, i) = i
        BY <3>1, <1>3, <1>4 DEF Shift
      <4> QED BY <4>1
    <3>2. CASE i > k
      <4>1. i - 1 \in 1..(L - 1) /\ Shift(k, i - 1) = i
        BY <3>2, <1>3, <1>4 DEF Shift
      <4> QED BY <4>1
    <3> QED BY <3>1, <3>2, <2>3, <1>3, <1>4
  <2>4. \A i \in 1..(L - 1) : listed'[i] = listed[Shift(k, i)]
    BY <2>1, <1>7 DEF Shift
  <2> QED BY <2>1, <2>2, <2>3, <2>4, <1>7
<1>9. \A i, x \in 1..(L - 1) : Shift(k, i) = Shift(k, x) => i = x
  BY <1>3, <1>4 DEF Shift
<1>10. Nodes(listed', L - 1)
  BY <1>3, <1>8, <1>9 DEF Nodes, Distinct
<1>11. StepTypes'
  <2>1. at' \in [Thread -> Place] /\ node' \in [Thread -> Node \cup {NULL}]
    <3>1. at \in [Thread -> Place] /\ node \in [Thread -> Node \cup {NULL}] /\ "idle" \in Place
      BY DEF StepInv, ThreadInv, StepTypes, Place
    <3> QED BY <3>1, <1>1
  <2>2. Nodes(listed', Len(listed'))
    BY <1>8, <1>10
  <2>3. removed' \subseteq created
    BY <1>1, <1>3, <1>4 DEF StepInv, ThreadInv, StepTypes
  <2> QED BY <2>1, <2>2, <2>3, <1>1, <1>8 DEF StepInv, ThreadInv, StepTypes
<1>12. NewNodes'
  <2>1. \A i \in 1..(L - 1) : listed'[i] \in created
    BY <1>3, <1>8
  <2> QED BY <2>1, <1>1, <1>8 DEF StepInv, ThreadInv, NewNodes
<1>13. \A x : Listed(x)' <=> Listed(x) /\ x # n
  <2>1. DOMAIN listed' = 1..(L - 1)
    BY <1>8
  <2>2. \A x : Listed(x)' <=> \E i \in 1..(L - 1) : listed'[i] = x
    BY <2>1 DEF Listed
  <2>3. ASSUME NEW x, Listed(x)' PROVE Listed(x) /\ x # n
    <3>1. PICK i \in 1..(L - 1) : listed'[i] = x
      BY <2>2, <2>3
    <3>2. Shift(k, i) \in 1..L /\ Shift(k, i) # k /\ listed[Shift(k, i)] = x
      BY <3>1, <1>8
    <3> QED BY <3>2, <1>3, <1>4 DEF Nodes, Distinct
  <2>4. ASSUME NEW x, Listed(x), x # n PROVE Listed(x)'
    <3>1. PICK i \in 1..L : listed[i] = x
      BY <2>4, <1>3
    <3>2. PICK y \in 1..(L - 1) : Shift(k, y) = i
      BY <3>1, <2>4, <1>4, <1>8
    <3> QED BY <3>1, <3>2, <2>2, <1>8
  <2> QED BY <2>3, <2>4
(* What is left where a node is added: another one is the last.            *)
<1>14. ASSUME k # L
       PROVE  L - 1 # 0 /\ listed'[L - 1] = listed[L]
  <2>1. L - 1 \in 1..(L - 1) /\ Shift(k, L - 1) = L
    BY <1>3, <1>4, <1>14 DEF Shift
  <2> QED BY <2>1, <1>3, <1>8
<1>15. (\E u \in Thread : at[u] \in AtEnd) => k # L
  BY <1>5, Apart DEF StepInv, L
<1>16. ASSUME NEW u \in Thread
       PROVE  AboutNode(at[u], node[u])'
  <2>1. CASE u = t
    <3>1. at'[u] = "idle" /\ node'[u] = NULL
      BY <2>1, <1>6
    <3> QED BY <3>1 DEF AboutNode, AtNode, InHead, InNode, Leaving, AtEnd
  <2>2. CASE u # t
    <3>1. at'[u] = at[u] /\ node'[u] = node[u] /\ node[u] # n /\ AboutNode(at[u], node[u])
      BY <2>2, <1>6 DEF StepInv, ThreadInv
    <3>2. at[u] \notin InHead
      <4>1. ~("remove_head" \in uses[u])
        BY <2>2, <1>2, OnlyRemover DEF StepInv
      <4> QED BY <4>1 DEF StepInv, ThreadInv, AllowedBy
    <3>3. CASE at[u] \in AtEnd
      <4>1. Len(listed') # 0 /\ Len(listed) # 0
        <5>1. L - 1 # 0 /\ L # 0
          BY <3>3, <1>3, <1>4, <1>14, <1>15
        <5> QED BY <5>1, <1>8 DEF L
      <4>2. at[u] # "add_first"
        BY <4>1, <3>1 DEF AboutNode
      <4> QED BY <3>1, <3>2, <3>3, <4>1, <4>2, <1>1, <1>13 DEF AboutNode, AtEnd, AtNode, InHead, InNode, Leaving
    <3>4. CASE at[u] \in AtNode
      <4>1. Listed(node[u])'
        BY <3>1, <3>4, <1>13 DEF AboutNode
      <4>2. at[u] = "node_tail" => node[u] = listed'[Len(listed')]
        <5> SUFFICES ASSUME at[u] = "node_tail" PROVE node[u] = listed'[Len(listed')]
          OBVIOUS
        <5>1. node[u] = listed[L] /\ k # L
          BY <3>1, <1>4 DEF AboutNode, L
        <5> QED BY <5>1, <1>8, <1>14
      <4> QED BY <3>1, <3>2, <3>4, <4>1, <4>2 DEF AboutNode, AtEnd, AtNode, InHead, InNode, Leaving
    <3>5. CASE at[u] \notin AtEnd \cup AtNode
      BY <3>1, <3>5 DEF AboutNode, AtEnd, AtNode, InHead, InNode, Leaving
    <3> QED BY <3>3, <3>4, <3>5
  <2> QED BY <2>1, <2>2
<1>17. \A u \in Thread : AllowedBy(at[u], uses[u])'
  <2>1. "idle" \notin AtNode /\ "idle" \notin InHead
    BY DEF AtNode, InHead, InNode, Leaving
  <2> QED BY <2>1, <1>1, <1>6 DEF StepInv, ThreadInv, AllowedBy
<1>18. \A u, v \in Thread : u # v /\ node'[u] = node'[v] => node'[u] = NULL
  BY <1>6 DEF StepInv, ThreadInv
<1>19. ThreadInv'
  BY <1>11, <1>12, <1>16, <1>17, <1>18 DEF ThreadInv
<1>20. \A P \in {Ahead, Behind, Off} : Spots(P)' = Shifted(L, k, Spots(P))
  <2> SUFFICES ASSUME NEW P \in {Ahead, Behind, Off} PROVE Spots(P)' = Shifted(L, k, Spots(P))
    OBVIOUS
  <2>1. "idle" \notin P
    BY DEF Ahead, Behind, Off
  <2>2. Spots(P)' = {i \in 1..(L - 1) : \E u \in Thread : at'[u] \in P /\ node'[u] = listed'[i]}
    BY <1>8 DEF Spots
  <2>3. ASSUME NEW i \in 1..(L - 1)
        PROVE  (\E u \in Thread : at'[u] \in P /\ node'[u] = listed'[i]) <=> Shift(k, i) \in Spots(P)
    <3>1. Shift(k, i) \in 1..L /\ listed[Shift(k, i)] # n /\ listed'[i] = listed[Shift(k, i)]
      BY <1>3, <1>4, <1>8 DEF Nodes, Distinct
    <3>2. Shift(k, i) \in Spots(P) <=> \E u \in Thread : at[u] \in P /\ node[u] = listed'[i]
      BY <3>1 DEF Spots, L
    <3>3. \A u \in Thread : node[u] = listed'[i] => u # t
      BY <3>1 DEF n
    <3>4. \A u \in Thread : at'[u] \in P => u # t
      BY <2>1, <1>6
    <3> QED BY <3>2, <3>3, <3>4, <1>6
  <2> QED BY <2>2, <2>3 DEF Shifted
<1>21. /\ \A j : Joins(Linking, j)' <=> Joins(Linking, j)
       /\ \A e : Joins(Ending, e)' <=> Joins(Ending, e)
  <2>1. \A P \in {Linking, Ending} : at[t] \notin P /\ "idle" \notin P
    BY <1>1 DEF Linking, Ending
  <2> QED BY <2>1, <1>1, <1>6, JoinsStay DEF StepInv
<1>22. AddedNode'
  <2> SUFFICES ASSUME NEW u \in Thread, at'[u] \in AtEnd
               PROVE  /\ next[node'[u]] = NULL
                      /\ prev[node'[u]] = IF at'[u] \in {"add_tail"} \cup Ending /\ Len(listed') # 0
                                            THEN listed'[Len(listed')] ELSE NULL
    BY <1>1 DEF AddedNode
  <2>1. u # t /\ at'[u] = at[u] /\ node'[u] = node[u]
    BY <1>6 DEF AtEnd
  <2>2. L # 0 /\ Len(listed') # 0 /\ listed'[Len(listed')] = listed[L]
    BY <2>1, <1>4, <1>8, <1>14, <1>15
  <2> QED BY <2>1, <2>2 DEF StepInv, PointerInv, AddedNode, L
<1>23. ASSUME NEW j \in Node \cup {NULL}, Joins(Linking, j)
       PROVE  Forwards(listed', L - 1, Shifted(L, k, Spots(Ahead)), Shifted(L, k, Spots(Off)), j, head, next)
  <2>1. Forwards(listed, L, Spots(Ahead), Spots(Off), j, head, next)
    BY <1>23 DEF StepInv, PointerInv, L
  <2>2. k - 1 \notin Spots(Ahead) /\ k + 1 \notin Spots(Ahead)
    BY <1>5
  <2> QED BY <2>1, <2>2, <1>3, <1>5, <1>8, ForwardsRemove
<1>24. ASSUME NEW e \in Node \cup {NULL}, Joins(Ending, e)
       PROVE  Backwards(listed', L - 1, Shifted(L, k, Spots(Behind)), Shifted(L, k, Spots(Off)), e, tail, prev)
  <2>1. Backwards(listed, L, Spots(Behind), Spots(Off), e, tail, prev)
    BY <1>24 DEF StepInv, PointerInv, L
  <2>2. k - 1 \notin Spots(Behind) /\ k + 1 \notin Spots(Behind)
    BY <1>5
  <2> QED BY <2>1, <2>2, <1>3, <1>5, <1>8, BackwardsRemove
<1>25. PointerInv'
  <2>1. /\ Spots(Ahead)' = Shifted(L, k, Spots(Ahead)) /\ Spots(Behind)' = Shifted(L, k, Spots(Behind))
        /\ Spots(Off)' = Shifted(L, k, Spots(Off))
    BY <1>20
  <2> QED BY <2>1, <1>1, <1>8, <1>21, <1>22, <1>23, <1>24 DEF PointerInv
<1> QED BY <1>19, <1>25 DEF StepInv

-----------------------------------------------------------------------------
(* What holds until two threads meet.                                      *)

LEMMA StepsInitInv == StepsInit => StepInv
<1> SUFFICES ASSUME StepsInit PROVE StepInv
  OBVIOUS
<1> USE DEF StepsInit, list_init
<1>1. Len(listed) = 0 /\ \A t \in Thread : at[t] = "idle" /\ node[t] = NULL
  OBVIOUS
<1>2. StepTypes
  BY <1>1 DEF StepTypes, Nodes, Distinct, Pointers, Place
<1>3. "idle" \notin AtEnd \cup AtNode \cup InHead \cup Linking \cup Ending \cup Ahead \cup Behind \cup Off
  BY DEF AtNode, InHead, InNode, Leaving, AtEnd, Linking, Ending, Ahead, Behind, Off
<1>4. ThreadInv
  <2>1. NewNodes
    BY <1>1 DEF NewNodes
  <2>2. \A t \in Thread : AboutNode(at[t], node[t]) /\ AllowedBy(at[t], uses[t])
    BY <1>1, <1>3 DEF AboutNode, AllowedBy
  <2> QED BY <1>1, <1>2, <2>1, <2>2 DEF ThreadInv
<1>5. ~Meeting
  BY <1>1 DEF Meeting, MeetAtTheEnd, Adding, Removing, Busy
<1>6. PointerInv
  <2>1. Spots(Ahead) = {} /\ Spots(Behind) = {} /\ Spots(Off) = {}
    BY <1>1 DEF Spots
  <2>2. AddedNode
    BY <1>1, <1>3 DEF AddedNode
  <2>3. ASSUME NEW j, Joins(Linking, j) PROVE Forwards(listed, Len(listed), {}, {}, j, head, next)
    BY <2>3, <1>1, <1>3 DEF Joins, Forwards, Onward
  <2>4. ASSUME NEW e, Joins(Ending, e) PROVE Backwards(listed, Len(listed), {}, {}, e, tail, prev)
    BY <2>4, <1>1, <1>3 DEF Joins, Backwards, Backward
  <2> QED BY <2>1, <2>2, <2>3, <2>4 DEF PointerInv
<1> QED BY <1>4, <1>5, <1>6 DEF StepInv

LEMMA StepsNextInv ==
    ASSUME StepInv, ~Meeting', StepsNext
    PROVE  StepInv'
<1>1. PICK t \in Thread : add_create(t) \/ head_take(t) \/ node_take(t) \/ AddStep(t) \/ RemoveStep(t)
  BY DEF StepsNext
<1>2. CASE add_create(t) \/ head_take(t) \/ node_take(t)
  BY <1>2, add_createInv, head_takeInv, node_takeInv
<1>3. CASE AddStep(t)
  BY <1>3, add_testInv, add_firstInv, add_linkInv, add_backInv, add_tailInv, add_sizeInv,
     add_returnInv DEF AddStep
<1>4. CASE RemoveStep(t)
  BY <1>4, head_testInv, head_secondInv, head_lastInv, head_nextInv, head_detachInv,
     node_prevInv, node_nextInv, node_tailInv, remove_sizeInv, remove_returnInv DEF RemoveStep
<1> QED BY <1>1, <1>2, <1>3, <1>4

(* When no call is under way nothing is skipped and nothing is added.      *)
LEMMA QuietRepresents ==
    ASSUME StepInv, Quiet
    PROVE  PointersRepresent
<1> DEFINE L == Len(listed)
<1>1. \A t \in Thread : at[t] = "idle"
  BY DEF Quiet
<1>2. "idle" \notin Linking \cup Ending \cup Ahead \cup Behind \cup Off
  BY DEF Linking, Ending, Ahead, Behind, Off
<1>3. Spots(Ahead) = {} /\ Spots(Behind) = {} /\ Spots(Off) = {}
  BY <1>1, <1>2 DEF Spots
<1>4. Joins(Linking, NULL) /\ Joins(Ending, NULL)
  BY <1>1, <1>2 DEF Joins
<1>5. /\ Forwards(listed, L, {}, {}, NULL, head, next)
      /\ Backwards(listed, L, {}, {}, NULL, tail, prev)
  BY <1>3, <1>4 DEF StepInv, PointerInv
<1>6. /\ L \in Nat /\ DOMAIN listed = 1..L /\ (L = 0 <=> listed = <<>>) /\ Distinct(listed, L)
  BY TypeFacts DEF StepInv, ThreadInv, StepTypes, Nodes
<1> HIDE DEF L
<1>7. /\ head = IF L = 0 THEN NULL ELSE listed[1]
      /\ tail = IF L = 0 THEN NULL ELSE listed[L]
  BY <1>5, <1>6 DEF Forwards, Backwards, Onward, Backward
<1>8. \A i \in 1..L : /\ next[listed[i]] = IF i = L THEN NULL ELSE listed[i + 1]
                      /\ prev[listed[i]] = IF i = 1 THEN NULL ELSE listed[i - 1]
  BY <1>5, <1>6 DEF Forwards, Backwards, Onward, Backward
<1>9. IsInjective(listed)
  BY <1>6 DEF IsInjective, Distinct
<1> QED BY <1>6, <1>7, <1>8, <1>9 DEF PointersRepresent, L

LEMMA StepsInvariant == StepsSpec => [](~met => StepInv)
<1>1. StepsInit => (~met => StepInv)
  BY StepsInitInv
<1>2. (~met => StepInv) /\ [StepsNext]_step_vars => (~met => StepInv)'
  <2> SUFFICES ASSUME ~met => StepInv, [StepsNext]_step_vars, ~met' PROVE StepInv'
    OBVIOUS
  <2>1. CASE StepsNext
    <3>1. ~met /\ ~Meeting'
      BY <2>1 DEF StepsNext
    <3> QED BY <2>1, <3>1, StepsNextInv
  <2>2. CASE UNCHANGED step_vars
    <3>1. StepInv
      BY <2>2 DEF step_vars
    <3>2. UNCHANGED <<uses, head, tail, next, prev, listed, at, node, created, removed>>
      BY <2>2 DEF step_vars, list_vars
    <3>3. ThreadInv'
      BY <3>1, <3>2 DEF StepInv, ThreadInv, StepTypes, NewNodes, AboutNode, AllowedBy, Listed,
         Nodes, Distinct
    <3>4. \A P : Spots(P)' = Spots(P) /\ \A j : Joins(P, j)' <=> Joins(P, j)
      BY <3>2 DEF Spots, Joins
    <3>5. PointerInv'
      BY <3>1, <3>2, <3>4 DEF StepInv, PointerInv, AddedNode
    <3>6. ~Meeting'
      <4>1. \A t \in Thread : (Adding(t)' <=> Adding(t)) /\ (Removing(t)' <=> Removing(t))
        BY <3>2 DEF Adding, Removing, Busy
      <4>2. \A m, n : Neighbours(m, n)' <=> Neighbours(m, n)
        BY <3>2 DEF Neighbours
      <4> QED BY <3>1, <3>2, <4>1, <4>2 DEF StepInv, Meeting, MeetAtTheEnd
    <3> QED BY <3>3, <3>5, <3>6 DEF StepInv
  <2> QED BY <2>1, <2>2
<1> QED BY <1>1, <1>2, PTL DEF StepsSpec

(* However the statements of the threads are interleaved, as long as no    *)
(* two threads have met nobody follows a NULL, and when no call is under   *)
(* way the pointers of the list stand for its nodes.                       *)
THEOREM ListIntactUnlessTheyMeet == StepsSpec => []IntactUnlessTheyMeet
<1>1. (~met => StepInv) => IntactUnlessTheyMeet
  <2>1. StepInv => \A t \in Thread : at[t] # "fault"
    BY DEF StepInv, ThreadInv, StepTypes, Place, AtEnd, AtNode, InHead, InNode, Leaving
  <2>2. StepInv /\ Quiet => PointersRepresent
    BY QuietRepresents
  <2> QED BY <2>1, <2>2 DEF IntactUnlessTheyMeet
<1> QED BY <1>1, StepsInvariant, PTL

-----------------------------------------------------------------------------
(* One thread: what has become of the list since the call began.           *)

Unmoved == /\ head = before.head /\ tail = before.tail
           /\ next = before.next /\ prev = before.prev

AddedSoFar(n) ==
    IF before.tail = NULL
      THEN head = n /\ next = before.next /\ prev = before.prev
      ELSE /\ head = before.head
           /\ next = [before.next EXCEPT ![before.tail] = n]
           /\ prev = [before.prev EXCEPT ![n] = before.tail]

SecondIsFirst(n) ==
    IF before.next[n] # NULL
      THEN prev = [before.prev EXCEPT ![before.next[n]] = NULL] /\ tail = before.tail
      ELSE prev = before.prev /\ tail = NULL

HeadRemoved(n) ==
    /\ n = before.head /\ n # NULL /\ n = listed[1]
    /\ head = before.next[n]
    /\ next = [before.next EXCEPT ![n] = NULL]
    /\ IF before.next[n] # NULL
         THEN prev = [before.prev EXCEPT ![before.next[n]] = NULL, ![n] = NULL] /\ tail = before.tail
         ELSE prev = [before.prev EXCEPT ![n] = NULL] /\ tail = NULL

SkippedAhead(n) ==
    IF before.prev[n] # NULL
      THEN next = [before.next EXCEPT ![before.prev[n]] = before.next[n]] /\ head = before.head
      ELSE head = (IF before.head = n THEN before.next[n] ELSE before.head) /\ next = before.next

NodeRemoved(n) ==
    /\ SkippedAhead(n)
    /\ IF before.next[n] # NULL
         THEN prev = [before.prev EXCEPT ![before.next[n]] = before.prev[n]] /\ tail = before.tail
         ELSE tail = (IF before.tail = n THEN before.prev[n] ELSE before.tail) /\ prev = before.prev

SinceCall(p, n) ==
    /\ before # <<>> /\ before.next \in Pointers /\ before.prev \in Pointers /\ before.size = size
    /\ p \in {"add", "add_first", "add_link", "head", "head_second", "head_last", "node_prev"} => Unmoved
    /\ p \in AtEnd => before.next[n] = NULL /\ before.prev[n] = NULL
    /\ p = "add_first" => before.tail = NULL
    /\ p \in {"add_link", "add_back"} => before.tail # NULL
    /\ p = "add_back" => /\ head = before.head /\ tail = before.tail /\ prev = before.prev
                         /\ next = [before.next EXCEPT ![before.tail] = n]
    /\ p = "add_tail" => AddedSoFar(n) /\ tail = before.tail
    /\ p \in Ending => AddedSoFar(n) /\ tail = n
    /\ p \in InHead => n = before.head /\ n # NULL
    /\ p = "head_second" => before.next[n] # NULL
    /\ p = "head_last" => before.next[n] = NULL
    /\ p = "head_next" => SecondIsFirst(n) /\ head = before.head /\ next = before.next
    /\ p = "head_detach" => SecondIsFirst(n) /\ head = before.next[n] /\ next = before.next
    /\ p = "node_next" => SkippedAhead(n) /\ tail = before.tail /\ prev = before.prev
    /\ p = "node_tail" => /\ SkippedAhead(n) /\ tail = before.tail /\ prev = before.prev
                          /\ before.next[n] = NULL
    /\ p \in Leaving => HeadRemoved(n) \/ NodeRemoved(n)

LoneInv ==
    /\ size \in Int /\ counted \in [Thread -> Int]
    /\ \A t \in Thread : at[t] # "idle" => uses[t] # {}
    /\ (\A t \in Thread : at[t] = "idle") => before = <<>>
    /\ \A t \in Thread : at[t] # "idle" =>
         /\ SinceCall(at[t], node[t])
         /\ at[t] \in {"add_store", "remove_store"} => counted[t] = size

(* What LinkedList sees.                                                   *)
LEMMA SeenInCall ==
    ASSUME before # <<>>
    PROVE  seen = before
BY DEF seen

LEMMA SeenOutside ==
    ASSUME before = <<>>
    PROVE  /\ seen.head = head /\ seen.tail = tail /\ seen.size = size
           /\ seen.next = next /\ seen.prev = prev
BY DEF seen

LEMMA OthersIdle ==
    ASSUME LoneInv, Lone, NEW t \in Thread, uses[t] # {}
    PROVE  \A u \in Thread \ {t} : at[u] = "idle"
BY DEF LoneInv, Lone

LEMMA AloneNeverMeets ==
    ASSUME NEW t \in Thread, \A u \in Thread \ {t} : at'[u] = "idle"
    PROVE  ~Meeting'
<1>1. \A u \in Thread : Adding(u)' \/ Removing(u)' => u = t
  BY DEF Adding, Removing, Busy
<1> QED BY <1>1 DEF Meeting, MeetAtTheEnd

(* A step inside a function.                                               *)
LEMMA LoneMoves ==
    ASSUME StepInv, LoneInv, Lone, NEW t \in Thread, NEW q, at[t] # "idle", q # "idle",
           at' = [at EXCEPT ![t] = q], UNCHANGED <<size, listed, uses, before, node>>,
           counted' \in [Thread -> Int], SinceCall(q, node[t])',
           q \in {"add_store", "remove_store"} => counted'[t] = size
    PROVE  ~Meeting' /\ LoneInv' /\ UNCHANGED Atomic!list_vars
<1>1. uses[t] # {} /\ before # <<>>
  BY DEF LoneInv, SinceCall
<1>2. \A u \in Thread : at'[u] = IF u = t THEN q ELSE "idle"
  BY <1>1, OthersIdle DEF StepInv, ThreadInv, StepTypes
<1>3. ~Meeting'
  BY <1>2, AloneNeverMeets
<1>4. LoneInv'
  <2>1. \A u \in Thread : at'[u] # "idle" => u = t /\ at'[u] = q
    BY <1>2
  <2> QED BY <2>1, <1>1 DEF LoneInv
<1>5. UNCHANGED Atomic!list_vars
  BY <1>1 DEF Atomic!list_vars, seen
<1> QED BY <1>3, <1>4, <1>5

(* Each step inside list_add, list_remove_head and list_remove_node.       *)
Alone(t) == StepInv /\ LoneInv /\ Lone /\ t \in Thread

LoneStep == ~Meeting' /\ LoneInv' /\ UNCHANGED Atomic!list_vars

LEMMA LoneAt ==
    ASSUME NEW t, Alone(t), at[t] # "idle"
    PROVE  SinceCall(at[t], node[t])
BY DEF Alone, LoneInv

LEMMA LoneGoes ==
    ASSUME NEW t, Alone(t), NEW p, NEW q, goes(t, p, q), p # "idle", size' = size,
           q \notin {"idle", "add_store", "remove_store"}, SinceCall(q, node[t])'
    PROVE  LoneStep
<1>1. /\ at[t] = p /\ at' = [at EXCEPT ![t] = q]
      /\ UNCHANGED <<listed, uses, before, node, counted>>
  BY DEF goes, local_vars
<1>2. counted' \in [Thread -> Int]
  BY <1>1 DEF Alone, LoneInv
<1>3. SinceCall(q, node[t])'
  OBVIOUS
<1> QED BY <1>1, <1>2, <1>3, LoneMoves DEF Alone, LoneStep

LEMMA add_testLone == ASSUME NEW t, Alone(t), add_test(t) PROVE LoneStep
<1> PICK q \in {"add_first", "add_link"} : q = IF tail = NULL THEN "add_first" ELSE "add_link"
  OBVIOUS
<1>1. at[t] = "add" /\ goes(t, "add", q) /\ UNCHANGED <<pointer_vars, size, before, node>>
  BY DEF add_test, goes, local_vars
<1>2. SinceCall("add", node[t])
  BY <1>1, LoneAt
<1>3. SinceCall(q, node[t])'
  BY <1>1, <1>2 DEF SinceCall, Unmoved, AtEnd, Ending, InHead, Leaving, pointer_vars
<1> QED BY <1>1, <1>3, LoneGoes

LEMMA add_firstLone == ASSUME NEW t, Alone(t), add_first(t) PROVE LoneStep
<1>1. /\ at[t] = "add_first" /\ goes(t, "add_first", "add_tail") /\ head' = node[t]
      /\ UNCHANGED <<tail, next, prev, size, before, node>>
  BY DEF add_first, goes, local_vars
<1>2. SinceCall("add_first", node[t])
  BY <1>1, LoneAt
<1>3. SinceCall("add_tail", node[t])'
  BY <1>1, <1>2 DEF SinceCall, Unmoved, AddedSoFar, AtEnd, Ending, InHead, Leaving
<1> QED BY <1>1, <1>3, LoneGoes

LEMMA add_linkLone == ASSUME NEW t, Alone(t), add_link(t) PROVE LoneStep
<1>1. /\ at[t] = "add_link" /\ goes(t, "add_link", IF tail = NULL THEN "fault" ELSE "add_back")
      /\ next' = [n \in Node |-> IF n = tail THEN node[t] ELSE next[n]]
      /\ UNCHANGED <<head, tail, prev, size, before, node>>
  BY DEF add_link, goes, local_vars
<1>2. SinceCall("add_link", node[t])
  BY <1>1, LoneAt
<1>3. /\ before.next = next /\ before.prev = prev /\ before.head = head /\ before.tail = tail
      /\ tail # NULL /\ next \in Pointers
  BY <1>2 DEF SinceCall, Unmoved
<1>4. next' = [before.next EXCEPT ![before.tail] = node[t]] /\ next' \in [Node -> {NULL, node[t]} \cup Node]
  BY <1>1, <1>3 DEF Pointers
<1>5. SinceCall("add_back", node[t])'
  BY <1>1, <1>2, <1>3, <1>4 DEF SinceCall, AtEnd, Ending, InHead, Leaving
<1>6. goes(t, "add_link", "add_back")
  BY <1>1, <1>3
<1> QED BY <1>1, <1>5, <1>6, LoneGoes

LEMMA add_backLone == ASSUME NEW t, Alone(t), add_back(t) PROVE LoneStep
<1>1. /\ at[t] = "add_back" /\ goes(t, "add_back", "add_tail")
      /\ prev' = [prev EXCEPT ![node[t]] = tail]
      /\ UNCHANGED <<head, tail, next, size, before, node>>
  BY DEF add_back, goes, local_vars
<1>2. SinceCall("add_back", node[t])
  BY <1>1, LoneAt
<1>3. SinceCall("add_tail", node[t])'
  BY <1>1, <1>2 DEF SinceCall, AddedSoFar, AtEnd, Ending, InHead, Leaving
<1> QED BY <1>1, <1>3, LoneGoes

LEMMA add_tailLone == ASSUME NEW t, Alone(t), add_tail(t) PROVE LoneStep
<1>1. /\ at[t] = "add_tail" /\ goes(t, "add_tail", "add_size") /\ tail' = node[t]
      /\ UNCHANGED <<head, next, prev, size, before, node>>
  BY DEF add_tail, goes, local_vars
<1>2. SinceCall("add_tail", node[t])
  BY <1>1, LoneAt
<1>3. SinceCall("add_size", node[t])'
  BY <1>1, <1>2 DEF SinceCall, AddedSoFar, AtEnd, Ending, InHead, Leaving
<1> QED BY <1>1, <1>3, LoneGoes

LEMMA head_testLone == ASSUME NEW t, Alone(t), head_test(t) PROVE LoneStep
<1> PICK q \in {"head_second", "head_last"} :
      q = IF next[head] # NULL THEN "head_second" ELSE "head_last"
  OBVIOUS
<1>1. at[t] = "head" /\ goes(t, "head", q) /\ UNCHANGED <<pointer_vars, size, before, node>>
  BY DEF head_test, goes, local_vars
<1>2. SinceCall("head", node[t])
  BY <1>1, LoneAt
<1>3. node[t] = before.head /\ node[t] # NULL /\ Unmoved
  BY <1>2 DEF SinceCall, InHead
<1>4. SinceCall(q, node[t])'
  BY <1>1, <1>2, <1>3 DEF SinceCall, Unmoved, AtEnd, Ending, InHead, Leaving, pointer_vars
<1> QED BY <1>1, <1>4, LoneGoes

LEMMA head_secondLone == ASSUME NEW t, Alone(t), head_second(t) PROVE LoneStep
<1>1. /\ at[t] = "head_second" /\ goes(t, "head_second", "head_next")
      /\ prev' = [n \in Node |-> IF n = next[head] THEN NULL ELSE prev[n]]
      /\ UNCHANGED <<head, tail, next, size, before, node>>
  BY DEF head_second, goes, local_vars
<1>2. SinceCall("head_second", node[t])
  BY <1>1, LoneAt
<1>3. Unmoved /\ node[t] = before.head /\ node[t] # NULL /\ before.next[node[t]] # NULL
  BY <1>2 DEF SinceCall, InHead
<1>4. prev' = [before.prev EXCEPT ![before.next[node[t]]] = NULL]
  BY <1>1, <1>2, <1>3 DEF SinceCall, Unmoved, Pointers
<1>5. SecondIsFirst(node[t])'
  BY <1>1, <1>3, <1>4 DEF SecondIsFirst, Unmoved
<1>6. SinceCall("head_next", node[t])'
  BY <1>1, <1>2, <1>3, <1>5 DEF SinceCall, Unmoved, AtEnd, Ending, InHead, Leaving
<1> QED BY <1>1, <1>6, LoneGoes

LEMMA head_lastLone == ASSUME NEW t, Alone(t), head_last(t) PROVE LoneStep
<1>1. /\ at[t] = "head_last" /\ goes(t, "head_last", "head_next") /\ tail' = NULL
      /\ UNCHANGED <<head, next, prev, size, before, node>>
  BY DEF head_last, goes, local_vars
<1>2. SinceCall("head_last", node[t])
  BY <1>1, LoneAt
<1>3. Unmoved /\ node[t] = before.head /\ node[t] # NULL /\ before.next[node[t]] = NULL
  BY <1>2 DEF SinceCall, InHead
<1>4. SecondIsFirst(node[t])'
  BY <1>1, <1>3 DEF SecondIsFirst, Unmoved
<1>5. SinceCall("head_next", node[t])'
  BY <1>1, <1>2, <1>3, <1>4 DEF SinceCall, Unmoved, AtEnd, Ending, InHead, Leaving
<1> QED BY <1>1, <1>5, LoneGoes

LEMMA head_nextLone == ASSUME NEW t, Alone(t), head_next(t) PROVE LoneStep
<1>1. /\ at[t] = "head_next" /\ goes(t, "head_next", "head_detach") /\ head' = next[head]
      /\ UNCHANGED <<tail, next, prev, size, before, node>>
  BY DEF head_next, goes, local_vars
<1>2. SinceCall("head_next", node[t])
  BY <1>1, LoneAt
<1>3. /\ SecondIsFirst(node[t]) /\ head = before.head /\ next = before.next
      /\ node[t] = before.head /\ node[t] # NULL
  BY <1>2 DEF SinceCall, InHead
<1>4. SecondIsFirst(node[t])'
  BY <1>1, <1>3 DEF SecondIsFirst
<1>5. SinceCall("head_detach", node[t])'
  BY <1>1, <1>2, <1>3, <1>4 DEF SinceCall, AtEnd, Ending, InHead, Leaving
<1> QED BY <1>1, <1>5, LoneGoes

LEMMA head_detachLone == ASSUME NEW t, Alone(t), head_detach(t) PROVE LoneStep
<1>1. /\ at[t] = "head_detach" /\ goes(t, "head_detach", "remove_size")
      /\ next' = [next EXCEPT ![node[t]] = NULL] /\ prev' = [prev EXCEPT ![node[t]] = NULL]
      /\ UNCHANGED <<head, tail, size, before, node, listed>>
  BY DEF head_detach, goes, local_vars
<1>2. SinceCall("head_detach", node[t])
  BY <1>1, LoneAt
<1>3. /\ SecondIsFirst(node[t]) /\ head = before.next[node[t]] /\ next = before.next
      /\ node[t] = before.head /\ node[t] # NULL
  BY <1>2 DEF SinceCall, InHead
<1>4. node[t] = listed[1]
  BY <1>1 DEF Alone, StepInv, ThreadInv, AboutNode, InHead
<1>5. HeadRemoved(node[t])'
  BY <1>1, <1>3, <1>4 DEF SecondIsFirst, HeadRemoved
<1>6. SinceCall("remove_size", node[t])'
  BY <1>1, <1>2, <1>5 DEF SinceCall, AtEnd, Ending, InHead, Leaving
<1> QED BY <1>1, <1>6, LoneGoes

LEMMA node_prevLone == ASSUME NEW t, Alone(t), node_prev(t) PROVE LoneStep
<1>1. /\ at[t] = "node_prev" /\ goes(t, "node_prev", "node_next")
      /\ IF prev[node[t]] # NULL
           THEN next' = [next EXCEPT ![prev[node[t]]] = next[node[t]]] /\ head' = head
           ELSE head' = (IF head = node[t] THEN next[node[t]] ELSE head) /\ next' = next
      /\ UNCHANGED <<tail, prev, size, before, node>>
  BY DEF node_prev, goes, local_vars
<1>2. SinceCall("node_prev", node[t])
  BY <1>1, LoneAt
<1>3. Unmoved
  BY <1>2 DEF SinceCall
<1>4. SkippedAhead(node[t])'
  BY <1>1, <1>3 DEF SkippedAhead, Unmoved
<1>5. SinceCall("node_next", node[t])'
  BY <1>1, <1>2, <1>3, <1>4 DEF SinceCall, Unmoved, AtEnd, Ending, InHead, Leaving
<1> QED BY <1>1, <1>5, LoneGoes

LEMMA node_nextLone == ASSUME NEW t, Alone(t), node_next(t) PROVE LoneStep
<1> PICK q \in {"remove_size", "node_tail"} :
      q = IF next[node[t]] # NULL THEN "remove_size" ELSE "node_tail"
  OBVIOUS
<1>1. /\ at[t] = "node_next" /\ goes(t, "node_next", q)
      /\ prev' = [m \in Node |-> IF m = next[node[t]] THEN prev[node[t]] ELSE prev[m]]
      /\ UNCHANGED <<head, tail, next, size, before, node>>
  BY DEF node_next, goes, local_vars
<1>2. SinceCall("node_next", node[t])
  BY <1>1, LoneAt
<1>3. /\ SkippedAhead(node[t]) /\ tail = before.tail /\ prev = before.prev
      /\ before.next \in Pointers /\ prev \in Pointers
  BY <1>2 DEF SinceCall
<1>4. next[node[t]] = before.next[node[t]]
  <2>1. node[t] \in Node
    BY <1>1, SpotOf DEF Alone, StepInv, AtNode, InNode
  <2> QED BY <2>1, <1>3 DEF SkippedAhead, Pointers
<1>5. prev' = IF before.next[node[t]] # NULL
                THEN [before.prev EXCEPT ![before.next[node[t]]] = before.prev[node[t]]]
                ELSE before.prev
  BY <1>1, <1>3, <1>4, NullAssumption DEF Pointers
<1>6. SkippedAhead(node[t])'
  BY <1>1, <1>3 DEF SkippedAhead
<1>7. CASE q = "remove_size"
  <2>1. NodeRemoved(node[t])'
    BY <1>1, <1>3, <1>4, <1>5, <1>6, <1>7 DEF NodeRemoved
  <2>2. SinceCall("remove_size", node[t])'
    BY <1>1, <1>2, <2>1 DEF SinceCall, AtEnd, Ending, InHead, Leaving
  <2> QED BY <1>1, <1>7, <2>2, LoneGoes
<1>8. CASE q = "node_tail"
  <2>1. SinceCall("node_tail", node[t])'
    BY <1>1, <1>2, <1>3, <1>4, <1>5, <1>6, <1>8 DEF SinceCall, AtEnd, Ending, InHead, Leaving
  <2> QED BY <1>1, <1>8, <2>1, LoneGoes
<1> QED BY <1>7, <1>8

LEMMA node_tailLone == ASSUME NEW t, Alone(t), node_tail(t) PROVE LoneStep
<1>1. /\ at[t] = "node_tail" /\ goes(t, "node_tail", "remove_size")
      /\ tail' = IF tail = node[t] THEN prev[node[t]] ELSE tail
      /\ UNCHANGED <<head, next, prev, size, before, node>>
  BY DEF node_tail, goes, local_vars
<1>2. SinceCall("node_tail", node[t])
  BY <1>1, LoneAt
<1>3. /\ SkippedAhead(node[t]) /\ tail = before.tail /\ prev = before.prev
      /\ before.next[node[t]] = NULL
  BY <1>2 DEF SinceCall
<1>4. NodeRemoved(node[t])'
  BY <1>1, <1>3 DEF NodeRemoved, SkippedAhead
<1>5. SinceCall("remove_size", node[t])'
  BY <1>1, <1>2, <1>4 DEF SinceCall, AtEnd, Ending, InHead, Leaving
<1> QED BY <1>1, <1>5, LoneGoes

LEMMA reads_sizeLone ==
    ASSUME NEW t, Alone(t),
           NEW p, NEW q, <<p, q>> \in {<<"add_size", "add_store">>, <<"remove_size", "remove_store">>},
           reads_size(t, p, q)
    PROVE  LoneStep
<1>1. /\ at[t] = p /\ at' = [at EXCEPT ![t] = q] /\ counted' = [counted EXCEPT ![t] = size]
      /\ UNCHANGED <<head, tail, next, prev, size, listed, uses, before, node>>
  BY DEF reads_size, local_vars, pointer_vars
<1>2. (p = "add_size" /\ q = "add_store") \/ (p = "remove_size" /\ q = "remove_store")
  OBVIOUS
<1>3. SinceCall(p, node[t])
  BY <1>1, <1>2, LoneAt
<1>4. SinceCall(q, node[t])'
  <2>1. CASE p = "add_size" /\ q = "add_store"
    BY <2>1, <1>1, <1>3 DEF SinceCall, AddedSoFar, AtEnd, Ending, InHead, Leaving
  <2>2. CASE p = "remove_size" /\ q = "remove_store"
    BY <2>2, <1>1, <1>3 DEF SinceCall, HeadRemoved, NodeRemoved, SkippedAhead, AtEnd, Ending,
       InHead, Leaving
  <2> QED BY <1>2, <2>1, <2>2
<1>5. counted' \in [Thread -> Int] /\ counted'[t] = size
  BY <1>1 DEF Alone, LoneInv
<1>6. at[t] # "idle" /\ q # "idle"
  BY <1>1, <1>2
<1> QED BY <1>1, <1>4, <1>5, <1>6, LoneMoves DEF Alone, LoneStep

LEMMA HeadGone ==
    ASSUME NEW s \in Seq(Node), s # <<>>
    PROVE  RemoveAt(s, 1) = Tail(s)
<1>1. 1 \in 1..Len(s) /\ Len(s) \in Nat
  OBVIOUS
<1> PICK k \in 1..Len(s) : k = 1
  BY <1>1
<1>2. /\ RemoveAt(s, k) \in Seq(Node) /\ Len(RemoveAt(s, k)) = Len(s) - 1
      /\ \A i \in 1..(Len(s) - 1) : RemoveAt(s, k)[i] = IF i < k THEN s[i] ELSE s[i + 1]
  BY RemoveAtPlaces
<1>3. /\ Tail(s) \in Seq(Node) /\ Len(Tail(s)) = Len(s) - 1
      /\ \A i \in 1..(Len(s) - 1) : Tail(s)[i] = s[i + 1]
  OBVIOUS
<1>4. \A i \in 1..(Len(s) - 1) : RemoveAt(s, k)[i] = Tail(s)[i]
  BY <1>1, <1>2, <1>3
<1> HIDE DEF RemoveAt
<1>5. RemoveAt(s, k) = Tail(s)
  BY <1>2, <1>3, <1>4, SeqEqual
<1> QED BY <1>5

(* A function is entered.                                                  *)
LEMMA LoneCalls ==
    ASSUME NEW t, Alone(t), NEW f, NEW p, NEW n, p \in {"add", "head", "node_prev"},
           call(t, f, p, n),
           p = "add" => next[n] = NULL /\ prev[n] = NULL,
           p = "head" => n = head /\ n # NULL
    PROVE  LoneStep
<1>1. /\ at[t] = "idle" /\ uses[t] # {} /\ at' = [at EXCEPT ![t] = p] /\ node' = [node EXCEPT ![t] = n]
      /\ before' = [head |-> head, tail |-> tail, size |-> size, next |-> next, prev |-> prev]
      /\ UNCHANGED <<head, tail, next, prev, size, listed, uses, counted>>
  BY DEF call, Alone, pointer_vars
<1>2. at[t] # p /\ p # "idle"
  BY <1>1
<1>3. \A u \in Thread : /\ at'[u] = IF u = t THEN p ELSE "idle"
                        /\ u = t => node'[u] = n
  BY <1>1, OthersIdle DEF Alone, StepInv, ThreadInv, StepTypes
<1>4. before = <<>>
  <2>1. \A u \in Thread : at[u] = "idle"
    BY <1>1, OthersIdle DEF Alone
  <2> QED BY <2>1 DEF Alone, LoneInv
<1>5. before' # <<>>
  BY <1>1
<1>6. SinceCall(p, n)'
  BY <1>1, <1>5 DEF SinceCall, Unmoved, AtEnd, Ending, InHead, Leaving, Alone, StepInv, ThreadInv, StepTypes
<1>7. LoneInv'
  <2>1. \A u \in Thread : at'[u] # "idle" => u = t /\ at'[u] = p /\ node'[u] = n
    BY <1>3
  <2>2. t \in Thread /\ at'[t] # "idle"
    BY <1>2, <1>3 DEF Alone
  <2>3. p \notin {"add_store", "remove_store"}
    OBVIOUS
  <2>4. \A u \in Thread : at'[u] # "idle" => SinceCall(at[u], node[u])'
    BY <2>1, <1>6 DEF SinceCall
  <2> QED BY <2>1, <2>2, <2>3, <2>4, <1>1 DEF LoneInv, Alone
<1>8. ~Meeting'
  BY <1>3, AloneNeverMeets DEF Alone
<1>9. UNCHANGED Atomic!list_vars
  BY <1>1, <1>4, <1>5 DEF Atomic!list_vars, seen
<1> QED BY <1>7, <1>8, <1>9 DEF LoneStep

(* A function is left: what LinkedList sees goes from the list as it was   *)
(* before the call to the list as it is.                                   *)
LEMMA LoneReturns ==
    ASSUME NEW t, Alone(t), NEW p \in {"add_store", "remove_store"}, returns(t, p), size' \in Int
    PROVE  /\ ~Meeting' /\ LoneInv'
           /\ seen = before
           /\ seen'.head = head /\ seen'.tail = tail /\ seen'.size = size'
           /\ seen'.next = next /\ seen'.prev = prev
           /\ SinceCall(p, node[t]) /\ size' \in Int /\ counted[t] = before.size
<1>1. /\ at[t] = p /\ at[t] # "idle" /\ at' = [at EXCEPT ![t] = "idle"] /\ node' = [node EXCEPT ![t] = NULL]
      /\ counted' = [counted EXCEPT ![t] = 0] /\ before' = <<>>
      /\ UNCHANGED <<head, tail, next, prev, uses>>
  BY DEF returns, pointer_vars
<1>2. SinceCall(p, node[t])
  BY <1>1, LoneAt
<1>3. counted[t] = size
  BY <1>1 DEF Alone, LoneInv
<1>4. \A u \in Thread : at'[u] = "idle"
  <2>1. uses[t] # {}
    BY <1>1 DEF Alone, LoneInv
  <2> QED BY <2>1, <1>1, OthersIdle DEF Alone, StepInv, ThreadInv, StepTypes
<1>5. ~Meeting'
  BY <1>4, AloneNeverMeets DEF Alone
<1>6. LoneInv'
  BY <1>1, <1>4 DEF Alone, LoneInv
<1>7. seen = before
  BY <1>2, SeenInCall DEF SinceCall
<1>8. /\ seen'.head = head /\ seen'.tail = tail /\ seen'.size = size'
      /\ seen'.next = next /\ seen'.prev = prev
  BY <1>1 DEF seen
<1> QED BY <1>2, <1>3, <1>5, <1>6, <1>7, <1>8 DEF SinceCall

AtomicStep == [Atomic!ListNext]_(Atomic!list_vars)

LEMMA add_returnLone ==
    ASSUME NEW t, Alone(t), add_return(t)
    PROVE  ~Meeting' /\ LoneInv' /\ AtomicStep
<1> DEFINE n == node[t]
<1>1. /\ at[t] = "add_store" /\ returns(t, "add_store") /\ size' = counted[t] + 1
      /\ listed' = IF n \in removed THEN listed ELSE Append(listed, n)
  BY DEF add_return, returns
<1>2. size' \in Int
  BY <1>1 DEF Alone, LoneInv
<1>3. /\ ~Meeting' /\ LoneInv'
      /\ seen = before
      /\ seen'.head = head /\ seen'.tail = tail /\ seen'.size = size'
      /\ seen'.next = next /\ seen'.prev = prev
      /\ SinceCall("add_store", n) /\ counted[t] = before.size
  BY <1>1, <1>2, LoneReturns
<1>4. n \in Node /\ n \notin removed /\ ~Listed(n)
  BY <1>1 DEF Alone, StepInv, ThreadInv, StepTypes, AboutNode, AtEnd
<1> HIDE DEF n
<1>5. /\ AddedSoFar(n) /\ tail = n /\ before.next[n] = NULL /\ before.prev[n] = NULL
      /\ before.next \in Pointers /\ before.prev \in Pointers
  BY <1>3 DEF SinceCall, Ending, AtEnd
<1>6. [before.next EXCEPT ![n] = NULL] = before.next /\ [before.prev EXCEPT ![n] = NULL] = before.prev
  BY <1>4, <1>5 DEF Pointers
<1>7. [before.next EXCEPT ![n] = NULL, ![before.tail] = n] = [before.next EXCEPT ![before.tail] = n]
  BY <1>6
<1>8. Atomic!list_add(n)
  <2>1. ~Atomic!Listed(n)
    BY <1>4 DEF Listed, Atomic!Listed
  <2>2. listed' = Append(listed, n) /\ seen'.tail = n /\ seen'.size = seen.size + 1
    BY <1>1, <1>3, <1>4, <1>5
  <2>3. CASE before.tail = NULL
    <3>1. /\ seen'.head = n /\ seen'.next = [seen.next EXCEPT ![n] = NULL]
          /\ seen'.prev = [seen.prev EXCEPT ![n] = NULL] /\ seen.tail = NULL
      BY <2>3, <1>3, <1>5, <1>6 DEF AddedSoFar
    <3> QED BY <2>1, <2>2, <3>1 DEF Atomic!list_add
  <2>4. CASE before.tail # NULL
    <3>1. /\ seen'.head = seen.head /\ seen'.next = [seen.next EXCEPT ![n] = NULL, ![seen.tail] = n]
          /\ seen'.prev = [seen.prev EXCEPT ![n] = seen.tail] /\ seen.tail # NULL
      BY <2>4, <1>3, <1>5, <1>7 DEF AddedSoFar
    <3> QED BY <2>1, <2>2, <3>1 DEF Atomic!list_add
  <2> QED BY <2>3, <2>4
<1> QED BY <1>3, <1>4, <1>8 DEF AtomicStep, Atomic!ListNext

LEMMA DelistedAt ==
    ASSUME NEW k \in DOMAIN listed, Distinct(listed, Len(listed)), DOMAIN listed = 1..Len(listed)
    PROVE  delisted(listed[k]) = RemoveAt(listed, k)
<1> DEFINE i == CHOOSE x \in DOMAIN listed : listed[x] = listed[k]
<1>1. i \in DOMAIN listed /\ listed[i] = listed[k]
  OBVIOUS
<1>2. i = k
  BY <1>1 DEF Distinct
<1>3. Listed(listed[k])
  BY DEF Listed
<1> QED BY <1>2, <1>3 DEF delisted

LEMMA remove_returnLone ==
    ASSUME NEW t, Alone(t), remove_return(t)
    PROVE  ~Meeting' /\ LoneInv' /\ AtomicStep
<1> DEFINE n == node[t]
<1>1. /\ at[t] = "remove_store" /\ returns(t, "remove_store") /\ size' = counted[t] - 1
      /\ listed' = delisted(n)
  BY DEF remove_return, returns
<1>2. size' \in Int
  BY <1>1 DEF Alone, LoneInv
<1>3. /\ ~Meeting' /\ LoneInv'
      /\ seen = before
      /\ seen'.head = head /\ seen'.tail = tail /\ seen'.size = size'
      /\ seen'.next = next /\ seen'.prev = prev
      /\ SinceCall("remove_store", n) /\ counted[t] = before.size
  BY <1>1, <1>2, LoneReturns
<1>4. n \in Node /\ \E k \in 1..Len(listed) : listed[k] = n
  BY <1>1, SpotOf DEF Alone, StepInv, AtNode, Leaving
<1>5. /\ listed \in Seq(Node) /\ DOMAIN listed = 1..Len(listed) /\ Distinct(listed, Len(listed))
      /\ Len(listed) \in Nat
  BY TypeFacts DEF Alone, StepInv, ThreadInv, StepTypes, Nodes
<1> HIDE DEF n
<1>6. PICK k \in 1..Len(listed) : listed[k] = n
  BY <1>4
<1>7. listed' = RemoveAt(listed, k)
  BY <1>1, <1>5, <1>6, DelistedAt
<1>8. seen'.size = seen.size - 1
  BY <1>1, <1>3
<1>9. HeadRemoved(n) \/ NodeRemoved(n)
  BY <1>3 DEF SinceCall, Leaving
<1>10. CASE HeadRemoved(n)
  <2>1. k = 1
    BY <1>5, <1>6, <1>10 DEF HeadRemoved, Distinct
  <2>2. listed # <<>>
    BY <1>5, <1>6
  <2>3. listed' = Tail(listed)
    BY <2>1, <2>2, <1>5, <1>7, HeadGone
  <2>4. Atomic!list_remove_head
    BY <2>3, <1>3, <1>8, <1>10 DEF Atomic!list_remove_head, HeadRemoved
  <2> QED BY <2>4, <1>3 DEF AtomicStep, Atomic!ListNext
<1>11. CASE NodeRemoved(n)
  <2>1. IF seen.prev[n] # NULL
          THEN seen'.next = [seen.next EXCEPT ![seen.prev[n]] = seen.next[n]] /\ seen'.head = seen.head
          ELSE seen'.head = (IF seen.head = n THEN seen.next[n] ELSE seen.head) /\ seen'.next = seen.next
    BY <1>3, <1>11 DEF NodeRemoved, SkippedAhead
  <2>2. IF seen.next[n] # NULL
          THEN seen'.prev = [seen.prev EXCEPT ![seen.next[n]] = seen.prev[n]] /\ seen'.tail = seen.tail
          ELSE seen'.tail = (IF seen.tail = n THEN seen.prev[n] ELSE seen.tail) /\ seen'.prev = seen.prev
    BY <1>3, <1>11 DEF NodeRemoved
  <2>3. listed' = Atomic!RemoveAt(listed, k)
    BY <1>7 DEF RemoveAt, Atomic!RemoveAt
  <2>4. Atomic!list_remove_node(k)
    BY <2>1, <2>2, <2>3, <1>6, <1>8 DEF Atomic!list_remove_node
  <2> QED BY <2>4, <1>3, <1>5 DEF AtomicStep, Atomic!ListNext
<1> QED BY <1>9, <1>10, <1>11

LEMMA LoneNext ==
    ASSUME StepInv, LoneInv, Lone, StepsNext
    PROVE  ~Meeting' /\ LoneInv' /\ AtomicStep
<1>1. PICK t \in Thread : add_create(t) \/ head_take(t) \/ node_take(t) \/ AddStep(t) \/ RemoveStep(t)
  BY DEF StepsNext
<1>2. Alone(t)
  BY DEF Alone
<1>3. LoneStep => ~Meeting' /\ LoneInv' /\ AtomicStep
  BY DEF LoneStep, AtomicStep
<1>4. CASE add_create(t)
  <2>1. PICK n \in Node \ created : call(t, "add", "add", n)
    BY <1>4 DEF add_create
  <2>2. next[n] = NULL /\ prev[n] = NULL
    BY DEF StepInv, ThreadInv, NewNodes
  <2> QED BY <2>1, <2>2, <1>2, <1>3, LoneCalls
<1>5. CASE head_take(t)
  <2>1. head # NULL /\ call(t, "remove_head", "head", head)
    BY <1>5 DEF head_take
  <2> PICK n : n = head
    OBVIOUS
  <2>2. call(t, "remove_head", "head", n) /\ n = head /\ n # NULL
    BY <2>1
  <2> QED BY <2>2, <1>2, <1>3, LoneCalls
<1>6. CASE node_take(t)
  <2>1. PICK n \in Node : call(t, "remove_node", "node_prev", n)
    BY <1>6 DEF node_take
  <2> QED BY <2>1, <1>2, <1>3, LoneCalls
<1>7. CASE AddStep(t)
  <2>1. CASE add_return(t)
    BY <2>1, <1>2, add_returnLone
  <2>2. CASE reads_size(t, "add_size", "add_store")
    BY <2>2, <1>2, <1>3, reads_sizeLone
  <2> QED BY <2>1, <2>2, <1>2, <1>3, <1>7, add_testLone, add_firstLone, add_linkLone, add_backLone,
             add_tailLone DEF AddStep
<1>8. CASE RemoveStep(t)
  <2>1. CASE remove_return(t)
    BY <2>1, <1>2, remove_returnLone
  <2>2. CASE reads_size(t, "remove_size", "remove_store")
    BY <2>2, <1>2, <1>3, reads_sizeLone
  <2> QED BY <2>1, <2>2, <1>2, <1>3, <1>8, head_testLone, head_secondLone, head_lastLone,
             head_nextLone, head_detachLone, node_prevLone, node_nextLone, node_tailLone DEF RemoveStep
<1> QED BY <1>1, <1>4, <1>5, <1>6, <1>7, <1>8

LEMMA UsesStay == StepsNext => uses' = uses
BY DEF StepsNext, add_create, head_take, node_take, call, AddStep, add_test, add_first, add_link,
   add_back, add_tail, add_return, RemoveStep, head_test, head_second, head_last, head_next,
   head_detach, node_prev, node_next, node_tail, remove_return, goes, returns, reads_size, local_vars

(* If only one thread uses the list, each of its calls of list_add,        *)
(* list_remove_head and list_remove_node is, when it returns, the one step *)
(* of LinkedList, and its statements change nothing before that.           *)
THEOREM LoneCallsAreAtomic == StepsSpec => LoneCallIsAtomic
<1> DEFINE I == ~met => StepInv
           K == Lone => ~met /\ LoneInv
           A == Lone => [Atomic!ListNext]_(Atomic!list_vars)
<1>1. StepsInit => K
  BY DEF StepsInit, LoneInv, list_init
<1>2. I /\ K /\ [StepsNext]_step_vars => K'
  <2> SUFFICES ASSUME I, K, [StepsNext]_step_vars, Lone' PROVE ~met' /\ LoneInv'
    OBVIOUS
  <2>1. CASE StepsNext
    <3>1. Lone
      BY <2>1, UsesStay DEF Lone
    <3>2. StepInv /\ LoneInv /\ ~met
      BY <3>1
    <3>3. ~Meeting' /\ LoneInv'
      BY <2>1, <3>1, <3>2, LoneNext
    <3>4. met' = (met \/ Meeting')
      BY <2>1 DEF StepsNext
    <3> QED BY <3>2, <3>3, <3>4
  <2>2. CASE UNCHANGED step_vars
    <3>1. UNCHANGED <<head, tail, size, next, prev, listed, uses, at, node, counted, met, before>>
      BY <2>2 DEF step_vars, list_vars
    <3>2. Lone
      BY <3>1 DEF Lone
    <3>3. \A p, n : SinceCall(p, n) => SinceCall(p, n)'
      BY <3>1 DEF SinceCall, Unmoved, AddedSoFar, SecondIsFirst, HeadRemoved, SkippedAhead, NodeRemoved
    <3>4. ASSUME NEW t \in Thread, at[t] # "idle"
          PROVE  SinceCall(at[t], node[t])'
      <4>1. SinceCall(at[t], node[t])
        BY <3>2, <3>4 DEF LoneInv
      <4>2. PICK p, n : p = at[t] /\ n = node[t]
        OBVIOUS
      <4>3. SinceCall(p, n)' /\ at'[t] = p /\ node'[t] = n
        BY <4>1, <4>2, <3>1, <3>3
      <4> QED BY <4>3 DEF SinceCall
    <3> QED BY <3>1, <3>2, <3>4 DEF LoneInv
  <2> QED BY <2>1, <2>2
<1>3. I /\ K /\ [StepsNext]_step_vars => [A]_step_vars
  <2> SUFFICES ASSUME I, K, StepsNext, Lone PROVE [Atomic!ListNext]_(Atomic!list_vars)
    OBVIOUS
  <2> QED BY LoneNext DEF AtomicStep
<1>4. StepsSpec => []I
  BY StepsInvariant
<1>5. StepsSpec => []K
  BY <1>1, <1>2, <1>4, PTL DEF StepsSpec
<1>6. StepsSpec => [][A]_step_vars
  BY <1>3, <1>4, <1>5, PTL DEF StepsSpec
<1> QED BY <1>6 DEF LoneCallIsAtomic

-----------------------------------------------------------------------------
(* Walks.                                                                  *)

LEMMA LeastNatural ==
    ASSUME NEW T, T \subseteq Nat, T # {}
    PROVE  \E x \in T : \A y \in T : x <= y
<1>1. PICK x \in T : \A y \in T : <<y, x>> \notin OpToRel(<, Nat)
  BY NatLessThanWellFounded, WFMin, Zenon
<1>2. \A y \in T : ~(y < x)
  BY <1>1 DEF OpToRel
<1> QED BY <1>2

LEMMA NaturalsIn ==
    ASSUME NEW S, 0 \in S, \A n \in Nat : n \in S => n + 1 \in S
    PROVE  Nat \subseteq S
<1> SUFFICES ASSUME Nat \ S # {} PROVE FALSE
  OBVIOUS
<1>1. PICK x \in Nat \ S : \A y \in Nat \ S : x <= y
  BY LeastNatural
<1>2. x # 0 /\ x - 1 \in Nat
  OBVIOUS
<1>3. x - 1 \in S
  BY <1>1, <1>2
<1> QED BY <1>2, <1>3

ClosedBy(R, nx) == \A m \in R : nx[m] # NULL => nx[m] \in R

(* From the place s on a walk meets all that is not skipped.               *)
LEMMA WalkMeets ==
    ASSUME NEW L \in Nat, NEW l, NEW A, NEW O, NEW j, NEW hd, NEW nx, NEW R, NEW s \in 0..L,
           Nodes(l, L), Forwards(l, L, A, O, j, hd, nx), O \subseteq A, \A i \in A : i + 1 \notin A,
           ClosedBy(R, nx), Onward(l, L, A, j, s) # NULL => Onward(l, L, A, j, s) \in R
    PROVE  \A p \in 1..L : s < p /\ p \notin A => l[p] \in R
<1> DEFINE S == {k \in Nat : \A p \in 1..L : s < p /\ p <= k /\ p \notin A => l[p] \in R}
<1>1. \A p \in 1..L : l[p] # NULL
  BY NullAssumption DEF Nodes
<1>2. 0 \in S
  OBVIOUS
<1>3. ASSUME NEW k \in Nat, k \in S, k + 1 \in 1..L, s < k + 1, k + 1 \notin A
      PROVE  l[k + 1] \in R
  <2>1. \A i \in 1..L : i \notin A => nx[l[i]] = Onward(l, L, A, j, i)
    BY DEF Forwards
  <2>2. CASE k = s
    <3>1. Onward(l, L, A, j, s) = l[k + 1]
      BY <2>2, <1>3 DEF Onward
    <3> QED BY <3>1, <1>1, <1>3
  <2>3. CASE s < k /\ k \notin A
    <3>1. k \in 1..L /\ l[k] \in R
      BY <2>3, <1>3
    <3>2. nx[l[k]] = l[k + 1]
      BY <2>1, <2>3, <3>1, <1>3 DEF Onward
    <3> QED BY <3>1, <3>2, <1>1, <1>3 DEF ClosedBy
  <2>4. CASE s < k /\ k \in A
    <3>1. k - 1 \notin A
      BY <2>4
    <3>2. \A i \in Int : i + 1 = k => Onward(l, L, A, j, i) = l[k + 1]
      BY <2>4, <1>3 DEF Onward
    <3>3. CASE k - 1 = s
      BY <3>2, <3>3, <1>1, <1>3
    <3>4. CASE k - 1 # s
      <4>1. k - 1 \in 1..L /\ l[k - 1] \in R
        BY <2>4, <3>1, <3>4, <1>3
      <4>2. nx[l[k - 1]] = l[k + 1]
        BY <2>1, <3>1, <3>2, <4>1
      <4> QED BY <4>1, <4>2, <1>1, <1>3 DEF ClosedBy
    <3> QED BY <3>3, <3>4
  <2> QED BY <2>2, <2>3, <2>4, <1>3
<1>4. ASSUME NEW k \in Nat, k \in S
      PROVE  k + 1 \in S
  BY <1>3, <1>4
<1>5. Nat \subseteq S
  BY <1>2, <1>4, NaturalsIn
<1>6. L \in S
  BY <1>5
<1> QED BY <1>6

NodesAfter(l, L, A, j, s) ==
    {l[p] : p \in {q \in 1..L : s < q /\ q \notin A}} \cup ({j} \ {NULL})

(* What is behind the place s, and nothing else, can be met from there.    *)
LEMMA WalkGoesOn ==
    ASSUME NEW L \in Nat, NEW l, NEW A, NEW O, NEW j \in Node \cup {NULL}, NEW hd, NEW nx, NEW s \in 0..L,
           Nodes(l, L), Forwards(l, L, A, O, j, hd, nx), O \subseteq A, \A i \in A : i + 1 \notin A,
           j # NULL => nx[j] = NULL,
           NEW R, R = NodesAfter(l, L, A, j, s)
    PROVE  /\ R \in SUBSET Node /\ ClosedBy(R, nx)
           /\ Onward(l, L, A, j, s) # NULL => Onward(l, L, A, j, s) \in R
<1> DEFINE Q == {q \in 1..L : s < q /\ q \notin A}
<1>0. R = {l[p] : p \in Q} \cup ({j} \ {NULL})
  BY DEF NodesAfter
<1>1. R \in SUBSET Node
  BY <1>0 DEF Nodes
<1>2. ASSUME NEW i \in 0..L, s <= i, i \notin A \/ i = s, Onward(l, L, A, j, i) # NULL
      PROVE  Onward(l, L, A, j, i) \in R
  <2> DEFINE k == IF i + 1 \in A THEN i + 2 ELSE i + 1
  <2>1. k \notin A /\ k > i /\ k \in Int
    <3>1. i + 2 = (i + 1) + 1 /\ i + 1 \in Int
      OBVIOUS
    <3>2. i + 1 \in A => i + 2 \notin A
      BY <3>1
    <3> QED BY <3>2
  <2>2. CASE k <= L
    <3>1. k \in Q /\ Onward(l, L, A, j, i) = l[k]
      BY <2>1, <2>2, <1>2 DEF Onward
    <3> QED BY <3>1, <1>0
  <2>3. CASE ~(k <= L)
    <3>1. Onward(l, L, A, j, i) = j
      BY <2>3 DEF Onward
    <3> QED BY <3>1, <1>0, <1>2
  <2> QED BY <2>2, <2>3
<1>3. ASSUME NEW m \in R, nx[m] # NULL
      PROVE  nx[m] \in R
  <2>1. PICK p \in Q : m = l[p]
    BY <1>0, <1>3
  <2>2. nx[m] = Onward(l, L, A, j, p)
    BY <2>1 DEF Forwards
  <2> QED BY <2>1, <2>2, <1>2, <1>3
<1>4. Onward(l, L, A, j, s) # NULL => Onward(l, L, A, j, s) \in R
  BY <1>2
<1> QED BY <1>1, <1>3, <1>4 DEF ClosedBy

LEMMA WalkSees ==
    ASSUME StepInv
    PROVE  \E j \in Node \cup {NULL} :
             /\ Forwards(listed, Len(listed), Spots(Ahead), Spots(Off), j, head, next)
             /\ Spots(Off) \subseteq Spots(Ahead)
             /\ \A i \in Spots(Ahead) : i + 1 \notin Spots(Ahead)
             /\ j # NULL => next[j] = NULL /\ ~Listed(j)
<1>1. Linking \subseteq AtEnd /\ Ahead \subseteq AtNode /\ Off \subseteq Ahead
  BY DEF Linking, AtEnd, Ahead, AtNode, InHead, InNode, Leaving, Off
<1>2. PICK j \in Node \cup {NULL} : Joins(Linking, j)
  BY <1>1, JoinsExist DEF StepInv
<1>3. Forwards(listed, Len(listed), Spots(Ahead), Spots(Off), j, head, next)
  BY <1>2 DEF StepInv, PointerInv
<1>4. Spots(Off) \subseteq Spots(Ahead) /\ Spots(Ahead) \subseteq Spots(AtNode)
  BY <1>1, SpotsWithin
<1>5. \A i \in Spots(Ahead) : i + 1 \notin Spots(Ahead)
  BY <1>4, Apart DEF StepInv
<1>6. ASSUME j # NULL
      PROVE  next[j] = NULL /\ ~Listed(j)
  <2>1. PICK t \in Thread : at[t] \in Linking /\ node[t] = j
    BY <1>2, <1>6 DEF Joins
  <2> QED BY <2>1, <1>1 DEF StepInv, ThreadInv, AboutNode, PointerInv, AddedNode
<1> QED BY <1>2, <1>3, <1>4, <1>5, <1>6

(* Until two threads meet, whatever calls are under way, a walk from the   *)
(* head meets every node that is added and not being removed, once and in  *)
(* the order of the list.                                                  *)
THEOREM WalksMissNobody == StepsSpec => []SearchMissesNobody
<1> DEFINE L == Len(listed)
           A == Spots(Ahead)
           Settled == {i \in DOMAIN listed : \A t \in Thread : node[t] # listed[i]}
<1>1. ASSUME StepInv
      PROVE  /\ \A i \in Settled : Meets(head, listed[i])
             /\ \A i, k \in Settled : Meets(next[listed[i]], listed[k]) <=> i < k
  <2>1. L \in Nat /\ Nodes(listed, L) /\ DOMAIN listed = 1..L
    BY <1>1, TypeFacts DEF StepInv, ThreadInv, StepTypes
  <2>2. PICK j \in Node \cup {NULL} :
             /\ Forwards(listed, L, A, Spots(Off), j, head, next)
             /\ Spots(Off) \subseteq A /\ \A i \in A : i + 1 \notin A
             /\ j # NULL => next[j] = NULL /\ ~Listed(j)
    BY <1>1, WalkSees
  <2>3. Settled \subseteq 1..L /\ \A i \in Settled : i \notin A
    BY <2>1 DEF Spots
  <2>4. /\ head = Onward(listed, L, A, j, 0)
        /\ \A i \in Settled : next[listed[i]] = Onward(listed, L, A, j, i)
    BY <2>2, <2>3 DEF Forwards
  <2> HIDE DEF L, A, Settled
  <2>5. ASSUME NEW s \in 0..L, NEW k \in Settled, s < k
        PROVE  Meets(Onward(listed, L, A, j, s), listed[k])
    <3> SUFFICES ASSUME NEW R \in SUBSET Node, ClosedBy(R, next),
                        Onward(listed, L, A, j, s) # NULL => Onward(listed, L, A, j, s) \in R
                 PROVE  listed[k] \in R
      BY DEF Meets, ClosedBy
    <3>1. \A p \in 1..L : s < p /\ p \notin A => listed[p] \in R
      BY <2>1, <2>2, WalkMeets
    <3> QED BY <3>1, <2>3, <2>5
  <2>6. ASSUME NEW i \in Settled, NEW k \in Settled, ~(i < k)
        PROVE  ~Meets(Onward(listed, L, A, j, i), listed[k])
    <3> PICK R : R = NodesAfter(listed, L, A, j, i)
      OBVIOUS
    <3>1. i \in 0..L /\ i \in 1..L /\ k \in 1..L
      BY <2>1, <2>3
    <3>2. /\ R \in SUBSET Node /\ ClosedBy(R, next)
          /\ Onward(listed, L, A, j, i) # NULL => Onward(listed, L, A, j, i) \in R
      <4>1. \A S : S = NodesAfter(listed, L, A, j, i) =>
              /\ S \in SUBSET Node /\ ClosedBy(S, next)
              /\ Onward(listed, L, A, j, i) # NULL => Onward(listed, L, A, j, i) \in S
        BY <3>1, <2>1, <2>2, WalkGoesOn, Zenon
      <4> QED BY <4>1
    <3>3. listed[k] \notin R
      <4>1. \A p \in 1..L : i < p => listed[p] # listed[k]
        BY <3>1, <2>1, <2>6 DEF Nodes, Distinct
      <4>2. Listed(listed[k])
        BY <3>1, <2>1 DEF Listed
      <4> QED BY <4>1, <4>2, <2>2 DEF NodesAfter
    <3> QED BY <3>2, <3>3 DEF Meets, ClosedBy
  <2>7. \A i \in Settled : 0 \in 0..L /\ i \in 0..L /\ 0 < i
    BY <2>1, <2>3
  <2> QED BY <2>4, <2>5, <2>6, <2>7
<1>2. (~met => StepInv) => SearchMissesNobody
  BY <1>1 DEF SearchMissesNobody
<1> QED BY <1>2, StepsInvariant, PTL
=============================================================================
