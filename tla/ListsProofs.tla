---------------------------- MODULE ListsProofs ----------------------------
(***************************************************************************)
(* The lists of list.c are sequences: for any number of links, what the    *)
(* operations do to the pointers is what they promise to do to the list,   *)
(* and a list that shares no link with it is left alone.                   *)
(*                                                                         *)
(* What the pointers lead to is computed by recursion.  The facts about it *)
(* are proved by a smallest counterexample: LeastNat takes the place of an *)
(* induction.                                                              *)
(***************************************************************************)
EXTENDS Lists, Integers, Sequences, FiniteSetTheorems, SequenceTheorems, TLAPS

(* A set of numbers has a smallest one.                                    *)
LEMMA LeastNat ==
    ASSUME NEW T \in SUBSET Nat, T # {}
    PROVE  \E n \in T : \A m \in T : n <= m
<1>1. PICK x \in T : \A y \in T : ~ (<<y, x>> \in OpToRel(<, Nat))
  BY NatLessThanWellFounded, WFMin
<1>2. \A y \in T : ~ (y < x) BY <1>1 DEF OpToRel
<1> QED BY <1>2

-----------------------------------------------------------------------------
(* Following the links.                                                    *)

(* The first n steps of the way from h                                     *)
IsWay(f, ls, h, n) == f = [i \in 0..n |-> IF i = 0 THEN h ELSE ls[f[i - 1]].next]

(* exist,                                                                  *)
LEMMA WayExists ==
    ASSUME NEW ls, NEW h, NEW n \in Nat
    PROVE  \E f : IsWay(f, ls, h, n)
<1> DEFINE Way(f, m) == IsWay(f, ls, h, m)
           T == {m \in Nat : ~ \E f : Way(f, m)}
<1>1. SUFFICES ASSUME T # {} PROVE FALSE
  OBVIOUS
<1>2. PICK m \in T : \A k \in T : m <= k
  <2>1. T \in SUBSET Nat OBVIOUS
  <2> HIDE DEF T
  <2> QED BY <1>1, <2>1, LeastNat
<1>3. CASE m = 0
  <2>1. Way([i \in 0..0 |-> h], 0) BY DEF IsWay
  <2> QED BY <1>2, <1>3, <2>1
<1>4. CASE m # 0
  <2>1. m - 1 \in Nat /\ m - 1 \notin T
    <3>1. m \in Nat BY <1>2
    <3>2. m - 1 \in Nat /\ ~ (m <= m - 1) BY <1>4, <3>1
    <3> HIDE DEF T
    <3> QED BY <1>2, <3>2
  <2>2. PICK f : Way(f, m - 1) BY <2>1
  <2> DEFINE g == [i \in 0..m |-> IF i = m THEN ls[f[m - 1]].next ELSE f[i]]
  <2>3. \A i \in 0..(m - 1) : g[i] = f[i] BY <2>1
  <2>4. \A i \in 0..m : g[i] = IF i = 0 THEN h ELSE ls[g[i - 1]].next
    <3>1. TAKE i \in 0..m
    <3>2. CASE i = m
      BY <1>4, <2>1, <2>3, <3>2
    <3>3. CASE i # m
      <4>1. i \in 0..(m - 1) /\ (i # 0 => i - 1 \in 0..(m - 1)) BY <3>3, <2>1
      <4>2. f[i] = IF i = 0 THEN h ELSE ls[f[i - 1]].next BY <2>2, <4>1 DEF IsWay
      <4> QED BY <2>3, <4>1, <4>2
    <3> QED BY <3>2, <3>3
  <2>5. Way(g, m) BY <2>4 DEF IsWay
  <2> QED BY <2>5
<1> QED BY <1>3, <1>4

(* and Path takes them.                                                    *)
LEMMA PathSteps ==
    ASSUME NEW ls, NEW h, Cardinality(DOMAIN ls) \in Nat
    PROVE  LET K == Cardinality(DOMAIN ls) IN
           Path(ls, h) = [i \in 0..K |-> IF i = 0 THEN h ELSE ls[Path(ls, h)[i - 1]].next]
<1> DEFINE K == Cardinality(DOMAIN ls)
<1>1. \E f : f = [i \in 0..K |-> IF i = 0 THEN h ELSE ls[f[i - 1]].next]
  <2>1. K \in Nat OBVIOUS
  <2> HIDE DEF K
  <2>2. \E f : IsWay(f, ls, h, K) BY <2>1, WayExists
  <2> QED BY <2>2 DEF IsWay
<1>2. Path(ls, h) = CHOOSE f : f = [i \in 0..K |-> IF i = 0 THEN h ELSE ls[f[i - 1]].next]
  BY DEF Path
<1> QED BY <1>1, <1>2

-----------------------------------------------------------------------------
(* Lists as sequences.                                                     *)

(* The i-th link on the way around, which starts and ends with the head.   *)
Node(h, s, i) == IF i \in 1..Len(s) THEN s[i] ELSE h

(* The links of ls form the list s, with its head h.                       *)
IsList(ls, h, s) ==
    /\ h \in DOMAIN ls
    /\ s \in Seq(DOMAIN ls \ {h})
    /\ \A i, j \in 1..Len(s) : s[i] = s[j] => i = j
    /\ \A i \in 0..Len(s) : /\ ls[Node(h, s, i)].next = Node(h, s, i + 1)
                            /\ ls[Node(h, s, i + 1)].prev = Node(h, s, i)

(* The links of a memory are records of two links.                         *)
Memory(ls) == ls \in [DOMAIN ls -> [prev : DOMAIN ls, next : DOMAIN ls]]

(* A list has fewer objects than there are links.                          *)
LEMMA ListFits ==
    ASSUME NEW ls, NEW h, NEW s, IsFiniteSet(DOMAIN ls), IsList(ls, h, s)
    PROVE  /\ Len(s) \in Nat /\ Cardinality(DOMAIN ls) \in Nat
           /\ Len(s) + 1 <= Cardinality(DOMAIN ls)
<1> DEFINE L == DOMAIN ls
<1>1. Len(s) \in Nat /\ s \in [1..Len(s) -> L \ {h}] BY LenProperties DEF IsList
<1>2. IsFiniteSet(L \ {h}) /\ Cardinality(L \ {h}) = Cardinality(L) - 1
      /\ Cardinality(L) \in Nat
  BY FS_RemoveElement, FS_CardinalityType DEF IsList
<1>3. s \in Injection(1..Len(s), L \ {h})
  BY <1>1 DEF IsList, Injection, IsInjective
<1>4. Cardinality(1..Len(s)) <= Cardinality(L \ {h}) BY <1>2, <1>3, FS_Injection
<1>5. Cardinality(1..Len(s)) = Len(s) BY <1>1, FS_Interval
<1> QED BY <1>1, <1>2, <1>4, <1>5

(* The way around a list goes through its objects in their order.          *)
LEMMA PathOfList ==
    ASSUME NEW ls, NEW h, NEW s, IsFiniteSet(DOMAIN ls), IsList(ls, h, s)
    PROVE  \A i \in 0..(Len(s) + 1) : Path(ls, h)[i] = Node(h, s, i)
<1> DEFINE at == Path(ls, h)
           T == {i \in 0..(Len(s) + 1) : at[i] # Node(h, s, i)}
<1>1. /\ Len(s) \in Nat /\ Cardinality(DOMAIN ls) \in Nat
      /\ Len(s) + 1 <= Cardinality(DOMAIN ls)
  BY ListFits
<1>2. \A i \in 0..(Len(s) + 1) : at[i] = IF i = 0 THEN h ELSE ls[at[i - 1]].next
  <2> DEFINE K == Cardinality(DOMAIN ls)
  <2>1. at = [i \in 0..K |-> IF i = 0 THEN h ELSE ls[at[i - 1]].next] BY <1>1, PathSteps
  <2>2. \A i \in 0..(Len(s) + 1) : i \in 0..K BY <1>1
  <2> HIDE DEF at, K
  <2> QED BY <2>1, <2>2
<1>3. SUFFICES ASSUME T # {} PROVE FALSE OBVIOUS
<1>4. PICK i \in T : \A k \in T : i <= k
  <2>1. T \in SUBSET Nat BY <1>1
  <2> HIDE DEF T
  <2> QED BY <1>3, <2>1, LeastNat
<1>5. i # 0 BY <1>1, <1>2, <1>4 DEF Node
<1>6. i - 1 \in 0..Len(s) /\ i - 1 \notin T BY <1>1, <1>4, <1>5
<1>7. at[i - 1] = Node(h, s, i - 1) BY <1>1, <1>6
<1>8. ls[Node(h, s, i - 1)].next = Node(h, s, (i - 1) + 1) BY <1>6 DEF IsList
<1>9. (i - 1) + 1 = i BY <1>4, <1>1
<1> QED BY <1>2, <1>4, <1>5, <1>7, <1>8, <1>9

(* Counting and listing the objects of a list: what the program finds when *)
(* it follows pppoat_list_next() from the head is the list.                *)
THEOREM ContentsOfList ==
    ASSUME NEW ls, NEW h, NEW s, IsFiniteSet(DOMAIN ls), IsList(ls, h, s)
    PROVE  Count(ls, h) = Len(s) /\ Contents(ls, h) = s
<1> DEFINE at == Path(ls, h)
           I == {i \in DOMAIN at : \A j \in 0..i : at[j] = h => j = 0}
<1>1. /\ Len(s) \in Nat /\ Cardinality(DOMAIN ls) \in Nat
      /\ Len(s) + 1 <= Cardinality(DOMAIN ls)
  BY ListFits
<1>2. DOMAIN at = 0..Cardinality(DOMAIN ls) BY <1>1, PathSteps
<1>3. \A i \in 1..Len(s) : at[i] = s[i] /\ s[i] # h
  <2>1. \A i \in 1..Len(s) : at[i] = Node(h, s, i) BY <1>1, PathOfList
  <2>2. \A i \in 1..Len(s) : s[i] \in DOMAIN ls \ {h} BY ElementOfSeq DEF IsList
  <2> HIDE DEF at
  <2> QED BY <2>1, <2>2 DEF Node
<1>4. at[Len(s) + 1] = h BY <1>1, PathOfList DEF Node
<1>5. I = 0..Len(s)
  <2>1. ASSUME NEW i \in 0..Len(s) PROVE i \in I
    <3>1. i \in DOMAIN at BY <1>1, <1>2
    <3>2. \A j \in 0..i : j # 0 => j \in 1..Len(s) BY <1>1
    <3> QED BY <1>3, <3>1, <3>2
  <2>2. ASSUME NEW i \in I PROVE i \in 0..Len(s)
    <3>1. i \in Nat BY <1>1, <1>2
    <3>2. CASE i > Len(s)
      <4>1. Len(s) + 1 \in 0..i /\ Len(s) + 1 # 0 BY <1>1, <3>1, <3>2
      <4> QED BY <1>4, <4>1
    <3> QED BY <1>1, <3>1, <3>2
  <2> QED BY <2>1, <2>2
<1>6. Count(ls, h) = Len(s)
  <2>1. Count(ls, h) = Cardinality(I) - 1 BY DEF Count
  <2>2. Cardinality(0..Len(s)) = Len(s) + 1 BY <1>1, FS_Interval
  <2> HIDE DEF I, at
  <2> QED BY <1>1, <1>5, <2>1, <2>2
<1>7. Contents(ls, h) = s
  <2>1. Contents(ls, h) = [i \in 1..Len(s) |-> at[i]] BY <1>6 DEF Contents
  <2>2. s = [i \in 1..Len(s) |-> s[i]] BY LenProperties DEF IsList
  <2> HIDE DEF at
  <2> QED BY <1>3, <2>1, <2>2
<1> QED BY <1>6, <1>7

-----------------------------------------------------------------------------
(* The operations, one link at a time.                                     *)

LEMMA InsertAfterLinks ==
    ASSUME NEW ls, NEW l \in DOMAIN ls, NEW a \in DOMAIN ls, Memory(ls),
           l # a, l # ls[a].next
    PROVE  LET new == InsertAfter(ls, l, a) IN
           /\ Memory(new) /\ DOMAIN new = DOMAIN ls
           /\ \A x \in DOMAIN ls :
                 /\ new[x].next = IF x = a THEN l ELSE IF x = l THEN ls[a].next
                                  ELSE ls[x].next
                 /\ new[x].prev = IF x = ls[a].next THEN l ELSE IF x = l THEN a
                                  ELSE ls[x].prev
                 /\ x \notin {l, a, ls[a].next} => new[x] = ls[x]
<1> DEFINE n == ls[a].next
           one == [ls EXCEPT ![l] = [prev |-> a, next |-> n]]
           two == [one EXCEPT ![n].prev = l]
           new == [two EXCEPT ![a].next = l]
           R == [prev : DOMAIN ls, next : DOMAIN ls]
<1>1. n \in DOMAIN ls /\ ls \in [DOMAIN ls -> R] BY DEF Memory
<1>2. one \in [DOMAIN ls -> R] BY <1>1
<1>3. two \in [DOMAIN ls -> R] BY <1>1, <1>2
<1>4. new \in [DOMAIN ls -> R] BY <1>1, <1>3
<1>5. InsertAfter(ls, l, a) = new BY DEF InsertAfter
<1>6. \A x \in DOMAIN ls : one[x] = IF x = l THEN [prev |-> a, next |-> n] ELSE ls[x]
  BY <1>1
<1>7. \A x \in DOMAIN ls :
         two[x] = IF x = n THEN [one[x] EXCEPT !.prev = l] ELSE one[x]
  BY <1>1, <1>2
<1>8. \A x \in DOMAIN ls :
         new[x] = IF x = a THEN [two[x] EXCEPT !.next = l] ELSE two[x]
  BY <1>1, <1>3
<1>14. l # a /\ l # n OBVIOUS
<1> HIDE DEF n, one, two, new
<1>9. \A x \in DOMAIN ls : two[x].next = one[x].next
                            /\ two[x].prev = IF x = n THEN l ELSE one[x].prev
  BY <1>2, <1>7
<1>10. \A x \in DOMAIN ls : new[x].prev = two[x].prev
                             /\ new[x].next = IF x = a THEN l ELSE two[x].next
  BY <1>3, <1>8
<1>13. \A x \in DOMAIN ls : x \notin {l, a, n} => new[x] = ls[x]
  BY <1>6, <1>7, <1>8
<1>11. \A x \in DOMAIN ls :
          /\ new[x].next = IF x = a THEN l ELSE IF x = l THEN n ELSE ls[x].next
          /\ new[x].prev = IF x = n THEN l ELSE IF x = l THEN a ELSE ls[x].prev
          /\ x \notin {l, a, n} => new[x] = ls[x]
  BY <1>6, <1>9, <1>10, <1>13, <1>14
<1>12. Memory(new) /\ DOMAIN new = DOMAIN ls BY <1>4 DEF Memory
<1> QED BY <1>5, <1>11, <1>12 DEF n

LEMMA InsertBeforeLinks ==
    ASSUME NEW ls, NEW l \in DOMAIN ls, NEW b \in DOMAIN ls, Memory(ls),
           l # b, l # ls[b].prev
    PROVE  LET new == InsertBefore(ls, l, b) IN
           /\ Memory(new) /\ DOMAIN new = DOMAIN ls
           /\ \A x \in DOMAIN ls :
                 /\ new[x].next = IF x = ls[b].prev THEN l ELSE IF x = l THEN b
                                  ELSE ls[x].next
                 /\ new[x].prev = IF x = b THEN l ELSE IF x = l THEN ls[b].prev
                                  ELSE ls[x].prev
                 /\ x \notin {l, b, ls[b].prev} => new[x] = ls[x]
<1> DEFINE p == ls[b].prev
           one == [ls EXCEPT ![l] = [prev |-> p, next |-> b]]
           two == [one EXCEPT ![p].next = l]
           new == [two EXCEPT ![b].prev = l]
           R == [prev : DOMAIN ls, next : DOMAIN ls]
<1>1. p \in DOMAIN ls /\ ls \in [DOMAIN ls -> R] BY DEF Memory
<1>2. one \in [DOMAIN ls -> R] BY <1>1
<1>3. two \in [DOMAIN ls -> R] BY <1>1, <1>2
<1>4. new \in [DOMAIN ls -> R] BY <1>1, <1>3
<1>5. InsertBefore(ls, l, b) = new BY DEF InsertBefore
<1>6. \A x \in DOMAIN ls : one[x] = IF x = l THEN [prev |-> p, next |-> b] ELSE ls[x]
  BY <1>1
<1>7. \A x \in DOMAIN ls :
         two[x] = IF x = p THEN [one[x] EXCEPT !.next = l] ELSE one[x]
  BY <1>1, <1>2
<1>8. \A x \in DOMAIN ls :
         new[x] = IF x = b THEN [two[x] EXCEPT !.prev = l] ELSE two[x]
  BY <1>1, <1>3
<1>14. l # b /\ l # p OBVIOUS
<1> HIDE DEF p, one, two, new
<1>9. \A x \in DOMAIN ls : two[x].prev = one[x].prev
                            /\ two[x].next = IF x = p THEN l ELSE one[x].next
  BY <1>2, <1>7
<1>10. \A x \in DOMAIN ls : new[x].next = two[x].next
                             /\ new[x].prev = IF x = b THEN l ELSE two[x].prev
  BY <1>3, <1>8
<1>13. \A x \in DOMAIN ls : x \notin {l, b, p} => new[x] = ls[x]
  BY <1>6, <1>7, <1>8
<1>11. \A x \in DOMAIN ls :
          /\ new[x].next = IF x = p THEN l ELSE IF x = l THEN b ELSE ls[x].next
          /\ new[x].prev = IF x = b THEN l ELSE IF x = l THEN p ELSE ls[x].prev
          /\ x \notin {l, b, p} => new[x] = ls[x]
  BY <1>6, <1>9, <1>10, <1>13, <1>14
<1>12. Memory(new) /\ DOMAIN new = DOMAIN ls BY <1>4 DEF Memory
<1> QED BY <1>5, <1>11, <1>12 DEF p

LEMMA DelLinks ==
    ASSUME NEW ls, NEW l \in DOMAIN ls, Memory(ls)
    PROVE  LET new == Del(ls, l) IN
           /\ Memory(new) /\ DOMAIN new = DOMAIN ls
           /\ \A x \in DOMAIN ls :
                 /\ new[x].next = IF x = l THEN l ELSE IF x = ls[l].prev THEN ls[l].next
                                  ELSE ls[x].next
                 /\ new[x].prev = IF x = l THEN l ELSE IF x = ls[l].next THEN ls[l].prev
                                  ELSE ls[x].prev
                 /\ x \notin {l, ls[l].prev, ls[l].next} => new[x] = ls[x]
<1> DEFINE p == ls[l].prev
           n == ls[l].next
           one == [ls EXCEPT ![p].next = n]
           two == [one EXCEPT ![n].prev = p]
           new == [two EXCEPT ![l] = Self(l)]
           R == [prev : DOMAIN ls, next : DOMAIN ls]
<1>1. p \in DOMAIN ls /\ n \in DOMAIN ls /\ ls \in [DOMAIN ls -> R] BY DEF Memory
<1>2. one \in [DOMAIN ls -> R] BY <1>1
<1>3. two \in [DOMAIN ls -> R] BY <1>1, <1>2
<1>4. new \in [DOMAIN ls -> R] BY <1>1, <1>3 DEF Self
<1>5. Del(ls, l) = new BY DEF Del
<1>6. \A x \in DOMAIN ls : one[x] = IF x = p THEN [ls[x] EXCEPT !.next = n] ELSE ls[x]
  BY <1>1
<1>7. \A x \in DOMAIN ls :
         two[x] = IF x = n THEN [one[x] EXCEPT !.prev = p] ELSE one[x]
  BY <1>1, <1>2
<1>8. \A x \in DOMAIN ls : new[x] = IF x = l THEN Self(l) ELSE two[x]
  BY <1>1, <1>3
<1> HIDE DEF p, n, one, two, new
<1>9. \A x \in DOMAIN ls : one[x].prev = ls[x].prev
                            /\ one[x].next = IF x = p THEN n ELSE ls[x].next
  BY <1>1, <1>6
<1>10. \A x \in DOMAIN ls : two[x].next = one[x].next
                             /\ two[x].prev = IF x = n THEN p ELSE one[x].prev
  BY <1>2, <1>7
<1>13. \A x \in DOMAIN ls : x \notin {l, p, n} => new[x] = ls[x]
  BY <1>6, <1>7, <1>8
<1>14. \A x \in DOMAIN ls :
          /\ new[x].next = IF x = l THEN l ELSE two[x].next
          /\ new[x].prev = IF x = l THEN l ELSE two[x].prev
  BY <1>8 DEF Self
<1>11. \A x \in DOMAIN ls :
          /\ new[x].next = IF x = l THEN l ELSE IF x = p THEN n ELSE ls[x].next
          /\ new[x].prev = IF x = l THEN l ELSE IF x = n THEN p ELSE ls[x].prev
          /\ x \notin {l, p, n} => new[x] = ls[x]
  BY <1>9, <1>10, <1>13, <1>14
<1>12. Memory(new) /\ DOMAIN new = DOMAIN ls BY <1>4 DEF Memory
<1> QED BY <1>5, <1>11, <1>12 DEF p, n

-----------------------------------------------------------------------------
(* The operations, on lists.                                               *)

(* A list is the same as long as its links are.                            *)
LEMMA Untouched ==
    ASSUME NEW ls, NEW new, NEW h, NEW s, IsList(ls, h, s), DOMAIN new = DOMAIN ls,
           new[h] = ls[h], \A i \in 1..Len(s) : new[s[i]] = ls[s[i]]
    PROVE  IsList(new, h, s)
<1>1. \A i : new[Node(h, s, i)] = ls[Node(h, s, i)] BY DEF Node
<1> QED BY <1>1 DEF IsList

(* The neighbours of a list's links belong to it.                          *)
LEMMA Neighbours ==
    ASSUME NEW ls, NEW h, NEW s, IsList(ls, h, s), NEW i \in 0..Len(s)
    PROVE  /\ Len(s) \in Nat
           /\ ls[Node(h, s, i)].next = Node(h, s, i + 1)
           /\ ls[Node(h, s, i + 1)].prev = Node(h, s, i)
           /\ Node(h, s, i) \in DOMAIN ls
           /\ \A j \in 0..Len(s) : Node(h, s, i) = Node(h, s, j) => i = j
<1>1. Len(s) \in Nat BY LenProperties DEF IsList
<1>2. \A j \in 1..Len(s) : s[j] \in DOMAIN ls /\ s[j] # h BY ElementOfSeq DEF IsList
<1>3. Node(h, s, i) \in DOMAIN ls BY <1>2 DEF IsList, Node
<1>4. \A j \in 0..Len(s) : Node(h, s, i) = Node(h, s, j) => i = j
  <2>1. TAKE j \in 0..Len(s)
  <2>2. \A m \in 0..Len(s) : m = 0 \/ m \in 1..Len(s) BY <1>1
  <2>3. ~ (0 \in 1..Len(s)) BY <1>1
  <2> QED BY <1>2, <2>2, <2>3 DEF IsList, Node
<1> QED BY <1>1, <1>3, <1>4 DEF IsList

(* An object of the list s.                                                *)
In(x, s) == \E i \in 1..Len(s) : s[i] = x

(* An operation on the link l makes the list s the list t, and touches     *)
(* nothing else.                                                           *)
Makes(ls, new, h, s, l, t) ==
    /\ Memory(new) /\ DOMAIN new = DOMAIN ls
    /\ IsList(new, h, t)
    /\ \A x \in DOMAIN ls : x \notin {h, l} /\ ~ In(x, s) => new[x] = ls[x]

(* A link of the way is the head or an object.                             *)
LEMMA OnTheWay ==
    ASSUME NEW h, NEW s, NEW i
    PROVE  Node(h, s, i) = h \/ In(Node(h, s, i), s)
BY DEF Node, In

(* pppoat_list_insert_head() puts an object before the others.             *)
THEOREM InsertHeadOfList ==
    ASSUME NEW ls, NEW h, NEW s, NEW l \in DOMAIN ls, Memory(ls), IsList(ls, h, s),
           l # h, ~ In(l, s)
    PROVE  Makes(ls, InsertHead(ls, l, h), h, s, l, <<l>> \o s)
<1> DEFINE new == InsertHead(ls, l, h)
           t == <<l>> \o s
           n == ls[h].next
<1>1. /\ Len(s) \in Nat /\ h \in DOMAIN ls /\ s \in Seq(DOMAIN ls \ {h})
      /\ \A i \in 1..Len(s) : s[i] \in DOMAIN ls /\ s[i] # h
  BY LenProperties, ElementOfSeq DEF IsList
<1>2. n = Node(h, s, 1) /\ l # n
  <2>1. n = Node(h, s, 1)
    <3>1. 0 \in 0..Len(s) BY <1>1
    <3>2. Node(h, s, 0) = h /\ 0 + 1 = 1 BY DEF Node
    <3> QED BY <3>1, <3>2, Neighbours
  <2> QED BY <2>1, OnTheWay
<1>3. /\ Memory(new) /\ DOMAIN new = DOMAIN ls
      /\ \A x \in DOMAIN ls :
            /\ new[x].next = IF x = h THEN l ELSE IF x = l THEN n ELSE ls[x].next
            /\ new[x].prev = IF x = n THEN l ELSE IF x = l THEN h ELSE ls[x].prev
            /\ x \notin {l, h, n} => new[x] = ls[x]
  BY <1>1, <1>2, InsertAfterLinks DEF InsertHead
<1>4. /\ t \in Seq(DOMAIN ls \ {h}) /\ Len(t) = Len(s) + 1
      /\ t[1] = l /\ \A i \in 1..Len(s) : t[i + 1] = s[i]
  BY <1>1
<1> HIDE DEF new, t, n
<1>5. \A i \in 1..Len(t) : i = 1 \/ (i - 1 \in 1..Len(s) /\ t[i] = s[i - 1])
  <2>1. TAKE i \in 1..Len(t)
  <2>2. i # 1 => i - 1 \in 1..Len(s) /\ (i - 1) + 1 = i BY <1>1, <1>4
  <2> QED BY <1>4, <2>2
<1>6. \A i, j \in 1..Len(t) : t[i] = t[j] => i = j
  <2>1. ASSUME NEW i \in 1..Len(t), NEW j \in 1..Len(t), t[i] = t[j] PROVE i = j
    <3>1. CASE i = 1 \/ j = 1 BY <1>4, <1>5, <2>1, <3>1 DEF In
    <3>2. CASE i # 1 /\ j # 1
      <4>1. i - 1 \in 1..Len(s) /\ j - 1 \in 1..Len(s) /\ s[i - 1] = s[j - 1]
        BY <1>5, <2>1, <3>2
      <4>2. \A a, b \in 1..Len(s) : s[a] = s[b] => a = b BY DEF IsList
      <4>3. i - 1 = j - 1 BY <4>1, <4>2
      <4> QED BY <1>1, <1>4, <4>3
    <3> QED BY <3>1, <3>2
  <2> QED BY <2>1
<1>7. Node(h, t, 0) = h /\ Node(h, t, 1) = l BY <1>1, <1>4 DEF Node
<1>8. \A i \in 1..(Len(s) + 1) : Node(h, t, i + 1) = Node(h, s, i)
  BY <1>1, <1>4 DEF Node
<1>9. \A i \in 0..Len(t) : /\ new[Node(h, t, i)].next = Node(h, t, i + 1)
                           /\ new[Node(h, t, i + 1)].prev = Node(h, t, i)
  <2>1. TAKE i \in 0..Len(t)
  <2>2. CASE i = 0 BY <1>1, <1>2, <1>3, <1>7, <2>2
  <2>3. CASE i = 1
    <3>1. Node(h, t, 2) = n BY <1>1, <1>2, <1>8
    <3>2. n \in DOMAIN ls BY <1>1 DEF Memory, n
    <3> QED BY <1>2, <1>3, <1>7, <2>3, <3>1, <3>2
  <2>4. CASE i \notin {0, 1}
    <3> DEFINE k == i - 1
    <3>1. k \in 1..Len(s) /\ k \in 0..Len(s) /\ k + 1 = i /\ k + 1 \in 1..(Len(s) + 1)
      BY <1>1, <1>4, <2>4
    <3>2. Node(h, t, i) = Node(h, s, k) /\ Node(h, t, i + 1) = Node(h, s, k + 1)
      <4> HIDE DEF k
      <4>1. k \in 1..(Len(s) + 1) BY <1>1, <3>1
      <4> QED BY <1>8, <3>1, <4>1
    <3> HIDE DEF k
    <3>3. /\ ls[Node(h, s, k)].next = Node(h, s, k + 1)
          /\ ls[Node(h, s, k + 1)].prev = Node(h, s, k)
          /\ Node(h, s, k) \in DOMAIN ls
      BY <3>1, Neighbours
    <3>4. Node(h, s, k) # h BY <1>1, <3>1 DEF Node
    <3>5. Node(h, s, k) # l /\ Node(h, s, k + 1) # l BY OnTheWay
    <3>6. Node(h, s, k + 1) # n /\ Node(h, s, k + 1) \in DOMAIN ls
      <4>1. 1 \in 1..Len(s) BY <1>1, <3>1
      <4>2. CASE k + 1 \in 1..Len(s)
        <5>1. k + 1 # 1 BY <3>1
        <5> QED BY <1>1, <1>2, <4>1, <4>2, <5>1 DEF Node, IsList
      <4>3. CASE k + 1 \notin 1..Len(s) BY <1>1, <1>2, <4>1, <4>3 DEF Node
      <4> QED BY <4>2, <4>3
    <3> QED BY <1>3, <3>2, <3>3, <3>4, <3>5, <3>6
  <2> QED BY <2>2, <2>3, <2>4
<1>10. \A x \in DOMAIN ls : x \notin {h, l} /\ ~ In(x, s) => new[x] = ls[x]
  BY <1>2, <1>3, OnTheWay
<1>11. IsList(new, h, t) BY <1>1, <1>3, <1>4, <1>6, <1>9 DEF IsList
<1> QED BY <1>3, <1>10, <1>11 DEF Makes, new, t

(* pppoat_list_insert_tail() puts an object behind the others.             *)
THEOREM InsertTailOfList ==
    ASSUME NEW ls, NEW h, NEW s, NEW l \in DOMAIN ls, Memory(ls), IsList(ls, h, s),
           l # h, ~ In(l, s)
    PROVE  Makes(ls, InsertTail(ls, l, h), h, s, l, Append(s, l))
<1> DEFINE new == InsertTail(ls, l, h)
           t == Append(s, l)
           p == ls[h].prev
           N == Len(s)
<1>1. /\ N \in Nat /\ h \in DOMAIN ls /\ s \in Seq(DOMAIN ls \ {h})
      /\ \A i \in 1..N : s[i] \in DOMAIN ls /\ s[i] # h
  BY LenProperties, ElementOfSeq DEF IsList
<1>2. p = Node(h, s, N) /\ l # p
  <2>1. p = Node(h, s, N)
    <3>1. N \in 0..N /\ Node(h, s, N + 1) = h BY <1>1 DEF Node
    <3> QED BY <3>1, Neighbours
  <2> QED BY <2>1, OnTheWay
<1>3. /\ Memory(new) /\ DOMAIN new = DOMAIN ls
      /\ \A x \in DOMAIN ls :
            /\ new[x].next = IF x = p THEN l ELSE IF x = l THEN h ELSE ls[x].next
            /\ new[x].prev = IF x = h THEN l ELSE IF x = l THEN p ELSE ls[x].prev
            /\ x \notin {l, h, p} => new[x] = ls[x]
  BY <1>1, <1>2, InsertBeforeLinks DEF InsertTail
<1>4. /\ t \in Seq(DOMAIN ls \ {h}) /\ Len(t) = N + 1
      /\ t[N + 1] = l /\ \A i \in 1..N : t[i] = s[i]
  BY <1>1
<1> HIDE DEF new, t, p, N
<1>5. \A i \in 1..Len(t) : i = N + 1 \/ (i \in 1..N /\ t[i] = s[i])
  BY <1>1, <1>4
<1>6. \A i, j \in 1..Len(t) : t[i] = t[j] => i = j
  <2>1. ASSUME NEW i \in 1..Len(t), NEW j \in 1..Len(t), t[i] = t[j] PROVE i = j
    <3>1. CASE i = N + 1 \/ j = N + 1 BY <1>4, <1>5, <2>1, <3>1 DEF In, N
    <3>2. CASE i # N + 1 /\ j # N + 1 BY <1>5, <2>1, <3>2 DEF IsList, N
    <3> QED BY <3>1, <3>2
  <2> QED BY <2>1
<1>7. Node(h, t, N + 1) = l /\ Node(h, t, N + 2) = h BY <1>1, <1>4 DEF Node
<1>8. \A i \in 0..N : Node(h, t, i) = Node(h, s, i)
  <2>1. \A i \in 0..N : (i \in 1..Len(t) /\ i \in 1..N) \/ (i = 0 /\ i \notin 1..Len(t) /\ i \notin 1..N)
    BY <1>1, <1>4
  <2> QED BY <1>4, <2>1 DEF Node, N
<1>9. \A i \in 0..Len(t) : /\ new[Node(h, t, i)].next = Node(h, t, i + 1)
                           /\ new[Node(h, t, i + 1)].prev = Node(h, t, i)
  <2>1. TAKE i \in 0..Len(t)
  <2>2. CASE i = N + 1
    <3>1. i + 1 = N + 2 BY <1>1, <2>2
    <3> QED BY <1>1, <1>2, <1>3, <1>7, <2>2, <3>1
  <2>3. CASE i = N
    <3>1. Node(h, t, i) = p /\ Node(h, t, i + 1) = l BY <1>1, <1>2, <1>7, <1>8, <2>3
    <3>2. p \in DOMAIN ls BY <1>1 DEF Memory, p
    <3> QED BY <1>2, <1>3, <3>1, <3>2
  <2>4. CASE i \notin {N, N + 1}
    <3>1. i \in 0..N /\ i + 1 \in 0..N /\ i + 1 \in 1..N /\ N \in 0..N BY <1>1, <1>4, <2>4
    <3>2. Node(h, t, i) = Node(h, s, i) /\ Node(h, t, i + 1) = Node(h, s, i + 1)
      BY <1>8, <3>1
    <3>3. /\ ls[Node(h, s, i)].next = Node(h, s, i + 1)
          /\ ls[Node(h, s, i + 1)].prev = Node(h, s, i)
          /\ Node(h, s, i) \in DOMAIN ls /\ Node(h, s, i + 1) \in DOMAIN ls
      BY <3>1, Neighbours DEF N
    <3>4. Node(h, s, i + 1) # h BY <1>1, <3>1 DEF Node, N
    <3>5. Node(h, s, i) # l /\ Node(h, s, i + 1) # l BY OnTheWay
    <3>6. Node(h, s, i) # p BY <1>2, <2>4, <3>1, Neighbours DEF N
    <3> QED BY <1>3, <3>2, <3>3, <3>4, <3>5, <3>6
  <2> QED BY <2>2, <2>3, <2>4
<1>10. \A x \in DOMAIN ls : x \notin {h, l} /\ ~ In(x, s) => new[x] = ls[x]
  BY <1>2, <1>3, OnTheWay
<1>11. IsList(new, h, t) BY <1>1, <1>3, <1>4, <1>6, <1>9 DEF IsList
<1> QED BY <1>3, <1>10, <1>11 DEF Makes, new, t

(* The list s without its k-th object.                                     *)
Without(s, k) == [i \in 1..(Len(s) - 1) |-> IF i < k THEN s[i] ELSE s[i + 1]]

(* pppoat_list_del() takes an object out, wherever it is.                  *)
THEOREM DelOfList ==
    ASSUME NEW ls, NEW h, NEW s, Memory(ls), IsList(ls, h, s), NEW k \in 1..Len(s)
    PROVE  Makes(ls, Del(ls, s[k]), h, s, s[k], Without(s, k))
<1> DEFINE l == s[k]
           new == Del(ls, l)
           t == Without(s, k)
           p == ls[l].prev
           n == ls[l].next
           N == Len(s)
           at(i) == Node(h, s, i)
<1>1. /\ N \in Nat /\ h \in DOMAIN ls /\ s \in Seq(DOMAIN ls \ {h})
      /\ \A i \in 1..N : s[i] \in DOMAIN ls \ {h}
      /\ k \in Nat /\ 1 <= k /\ k <= N
  BY LenProperties, ElementOfSeq DEF IsList
<1>2. p = at(k - 1) /\ l = at(k) /\ n = at(k + 1)
  <2>1. k \in 0..N /\ k - 1 \in 0..N /\ (k - 1) + 1 = k BY <1>1
  <2>2. l = at(k) BY DEF Node
  <2> QED BY <2>1, <2>2, Neighbours
<1>3. /\ Memory(new) /\ DOMAIN new = DOMAIN ls
      /\ \A x \in DOMAIN ls :
            /\ new[x].next = IF x = l THEN l ELSE IF x = p THEN n ELSE ls[x].next
            /\ new[x].prev = IF x = l THEN l ELSE IF x = n THEN p ELSE ls[x].prev
            /\ x \notin {l, p, n} => new[x] = ls[x]
  <2>1. l \in DOMAIN ls BY <1>1
  <2> HIDE DEF l
  <2> QED BY <2>1, DelLinks
<1>4. /\ t \in Seq(DOMAIN ls \ {h}) /\ Len(t) = N - 1
      /\ \A i \in 1..Len(t) : t[i] = IF i < k THEN s[i] ELSE s[i + 1]
  <2>1. N - 1 \in Nat /\ \A i \in 1..(N - 1) : i \in 1..N /\ i + 1 \in 1..N BY <1>1
  <2>2. t \in [1..(N - 1) -> DOMAIN ls \ {h}] BY <1>1, <2>1 DEF Without
  <2>3. t \in Seq(DOMAIN ls \ {h}) BY <2>1, <2>2
  <2>4. Len(t) = N - 1 BY <2>1, <2>2, <2>3, LenProperties
  <2> QED BY <2>3, <2>4 DEF Without
<1>5. /\ \A i \in 0..N : at(i) \in DOMAIN ls
      /\ \A i \in 0..N : ls[at(i)].next = at(i + 1) /\ ls[at(i + 1)].prev = at(i)
      /\ \A i, j \in 0..N : at(i) = at(j) => i = j
      /\ at(N + 1) = at(0) /\ at(0) = h
  <2>1. at(N + 1) = h /\ at(0) = h BY <1>1 DEF Node
  <2> QED BY <2>1, Neighbours
<1>6. \A i \in 0..N : Node(h, t, i) = IF i < k THEN at(i) ELSE at(i + 1)
  <2>1. TAKE i \in 0..N
  <2>2. CASE i = 0 BY <1>1, <1>4, <2>2 DEF Node
  <2>3. CASE i = N
    <3>1. ~ (i < k) /\ i \notin 1..Len(t) BY <1>1, <1>4, <2>3
    <3> QED BY <1>5, <2>3, <3>1 DEF Node
  <2>4. CASE i \notin {0, N}
    <3>1. i \in 1..Len(t) /\ i \in 1..N /\ i + 1 \in 1..N BY <1>1, <1>4, <2>4
    <3> QED BY <1>4, <3>1 DEF Node
  <2> QED BY <2>2, <2>3, <2>4
<1> HIDE DEF l, new, t, p, n, N, at
<1>7. \A i, j \in 1..Len(t) : t[i] = t[j] => i = j
  <2>1. ASSUME NEW i \in 1..Len(t), NEW j \in 1..Len(t), t[i] = t[j] PROVE i = j
    <3>1. i \in 1..N /\ j \in 1..N /\ i + 1 \in 1..N /\ j + 1 \in 1..N BY <1>1, <1>4
    <3>2. \A a, b \in 1..N : s[a] = s[b] => a = b BY DEF IsList, N
    <3> QED BY <1>1, <1>4, <2>1, <3>1, <3>2
  <2> QED BY <2>1
<1>8. \A i \in 0..Len(t) : /\ new[Node(h, t, i)].next = Node(h, t, i + 1)
                           /\ new[Node(h, t, i + 1)].prev = Node(h, t, i)
  <2>1. TAKE i \in 0..Len(t)
  <2>2. i \in 0..N /\ i + 1 \in 0..N /\ i \in Nat /\ i + 1 <= N BY <1>1, <1>4
  <2>3. CASE i + 1 < k
    <3>1. Node(h, t, i) = at(i) /\ Node(h, t, i + 1) = at(i + 1) BY <1>1, <1>6, <2>2, <2>3
    <3>2. k \in 0..N /\ k - 1 \in 0..N /\ i # k /\ i # k - 1 /\ i + 1 # k BY <1>1, <2>2, <2>3
    <3>3. at(i) # l /\ at(i) # p /\ at(i + 1) # l BY <1>2, <1>5, <2>2, <3>2
    <3>4. at(i + 1) # n
      <4>1. CASE k = N BY <1>1, <1>2, <1>5, <2>2, <4>1
      <4>2. CASE k # N
        <5>1. k + 1 \in 0..N /\ k + 1 # i + 1 BY <1>1, <2>2, <2>3, <4>2
        <5> QED BY <1>2, <1>5, <2>2, <5>1
      <4> QED BY <4>1, <4>2
    <3>5. ls[at(i)].next = at(i + 1) /\ ls[at(i + 1)].prev = at(i)
          /\ at(i) \in DOMAIN ls /\ at(i + 1) \in DOMAIN ls
      BY <1>5, <2>2
    <3> QED BY <1>3, <3>1, <3>3, <3>4, <3>5
  <2>4. CASE i + 1 = k
    <3>1. i < k /\ ~ (i + 1 < k) /\ i = k - 1 /\ k \in 0..N /\ k - 1 \in 0..N
      BY <1>1, <2>2, <2>4
    <3>2. Node(h, t, i) = p /\ Node(h, t, i + 1) = n
      BY <1>2, <1>6, <2>2, <2>4, <3>1
    <3>3. p # l BY <1>1, <1>2, <1>5, <3>1
    <3>4. n # l
      <4>1. CASE k = N
        <5>1. n = at(0) /\ 0 \in 0..N /\ k # 0 BY <1>1, <1>2, <1>5, <4>1
        <5> QED BY <1>2, <1>5, <3>1, <5>1
      <4>2. CASE k # N
        <5>1. k + 1 \in 0..N /\ k + 1 # k BY <1>1, <4>2
        <5> QED BY <1>2, <1>5, <3>1, <5>1
      <4> QED BY <4>1, <4>2
    <3>5. p \in DOMAIN ls /\ n \in DOMAIN ls
      <4>1. l \in DOMAIN ls BY <1>2, <1>5, <3>1
      <4> QED BY <4>1 DEF Memory, p, n
    <3> QED BY <1>3, <3>2, <3>3, <3>4, <3>5
  <2>5. CASE k < i + 1
    <3>1. ~ (i < k) /\ ~ (i + 1 < k) /\ k \in 0..N /\ k - 1 \in 0..N /\ k + 1 \in 0..N
          /\ i + 1 # k /\ i + 1 # k - 1
      BY <1>1, <2>2, <2>5
    <3>2. Node(h, t, i) = at(i + 1) /\ Node(h, t, i + 1) = at((i + 1) + 1)
      BY <1>6, <2>2, <3>1
    <3>3. at(i + 1) # l /\ at(i + 1) # p BY <1>2, <1>5, <2>2, <3>1
    <3>4. at((i + 1) + 1) # l /\ at((i + 1) + 1) # n /\ at((i + 1) + 1) \in DOMAIN ls
      <4>1. CASE i + 1 = N
        <5>1. at((i + 1) + 1) = at(0) /\ 0 \in 0..N /\ k # 0 /\ k + 1 # 0
          BY <1>1, <1>5, <4>1
        <5> QED BY <1>2, <1>5, <3>1, <5>1
      <4>2. CASE i + 1 # N
        <5>1. (i + 1) + 1 \in 0..N /\ (i + 1) + 1 # k /\ (i + 1) + 1 # k + 1
          BY <1>1, <2>2, <2>5, <4>2
        <5> QED BY <1>2, <1>5, <3>1, <5>1
      <4> QED BY <4>1, <4>2
    <3>5. ls[at(i + 1)].next = at((i + 1) + 1) /\ ls[at((i + 1) + 1)].prev = at(i + 1)
          /\ at(i + 1) \in DOMAIN ls
      BY <1>5, <2>2
    <3> QED BY <1>3, <3>2, <3>3, <3>4, <3>5
  <2> QED BY <1>1, <2>2, <2>3, <2>4, <2>5
<1>9. \A x \in DOMAIN ls : x \notin {h, l} /\ ~ In(x, s) => new[x] = ls[x]
  BY <1>2, <1>3, OnTheWay DEF at
<1>10. IsList(new, h, t) BY <1>1, <1>3, <1>4, <1>7, <1>8 DEF IsList
<1> QED BY <1>3, <1>9, <1>10 DEF Makes, new, t, l

(* pppoat_list_head() is the first object of a list, if it has one.        *)
LEMMA HeadOfList ==
    ASSUME NEW ls, NEW h, NEW s, Memory(ls), IsList(ls, h, s)
    PROVE  /\ IsEmpty(ls, h) <=> s = <<>>
           /\ s # <<>> => 1 \in 1..Len(s) /\ ls[h].next = s[1] /\ ~ IsEmpty(ls, h)
<1>1. /\ Len(s) \in Nat /\ h \in DOMAIN ls /\ s \in Seq(DOMAIN ls \ {h})
      /\ \A i \in 1..Len(s) : s[i] \in DOMAIN ls \ {h}
  BY LenProperties, ElementOfSeq DEF IsList
<1>2. 0 \in 0..Len(s) /\ Node(h, s, 0) = h /\ 0 + 1 = 1 BY <1>1 DEF Node
<1>3. ls[h].next = Node(h, s, 1) /\ ls[Node(h, s, 1)].prev = h BY <1>2, Neighbours
<1>4. CASE s = <<>>
  <2>1. Node(h, s, 1) = h BY <1>4 DEF Node
  <2>2. ls[h] \in [prev : DOMAIN ls, next : DOMAIN ls] BY <1>1 DEF Memory
  <2> QED BY <1>3, <1>4, <2>1, <2>2 DEF IsEmpty, Self
<1>5. CASE s # <<>>
  <2>1. 1 \in 1..Len(s) BY <1>1, <1>5
  <2>2. ls[h].next = s[1] /\ s[1] # h BY <1>1, <1>3, <2>1 DEF Node
  <2> QED BY <1>5, <2>1, <2>2 DEF IsEmpty, Self
<1> QED BY <1>4, <1>5

(* A head that points to itself is an empty list,                          *)
LEMMA SelfIsEmpty ==
    ASSUME NEW ls, NEW h \in DOMAIN ls, Memory(ls), ls[h] = Self(h)
    PROVE  IsList(ls, h, <<>>)
<1>1. \A i \in 0..0 : Node(h, <<>>, i) = h /\ Node(h, <<>>, i + 1) = h BY DEF Node
<1>2. Len(<<>>) = 0 /\ <<>> \in Seq(DOMAIN ls \ {h}) OBVIOUS
<1> QED BY <1>1, <1>2 DEF IsList, Self

(* and pppoat_list_init() makes one.                                       *)
LEMMA InitMakesList ==
    ASSUME NEW ls, NEW h \in DOMAIN ls, Memory(ls)
    PROVE  Memory(ListInit(ls, h)) /\ IsList(ListInit(ls, h), h, <<>>)
<1> DEFINE new == ListInit(ls, h)
<1>1. new \in [DOMAIN ls -> [prev : DOMAIN ls, next : DOMAIN ls]] /\ new[h] = Self(h)
  BY DEF ListInit, Memory, Self
<1> HIDE DEF new
<1>2. Memory(new) /\ h \in DOMAIN new BY <1>1 DEF Memory
<1> QED BY <1>1, <1>2, SelfIsEmpty DEF new

(* The objects of a list pass the assertions of pppoat_list_del(), and so  *)
(* does what it has deleted.                                               *)
THEOREM AssertionsHold ==
    ASSUME NEW ls, NEW h, NEW s, Memory(ls), IsList(ls, h, s), NEW k \in 1..Len(s)
    PROVE  Linked(ls, s[k]) /\ Linked(Del(ls, s[k]), s[k])
<1>1. k \in 0..Len(s) /\ k - 1 \in 0..Len(s) /\ (k - 1) + 1 = k
  BY LenProperties DEF IsList
<1>2. Node(h, s, k) = s[k] /\ s[k] \in DOMAIN ls
  <2>1. s[k] \in DOMAIN ls BY ElementOfSeq DEF IsList
  <2> QED BY <2>1 DEF Node
<1>3. Linked(ls, s[k])
  <2>1. /\ ls[Node(h, s, k)].prev = Node(h, s, k - 1)
        /\ ls[Node(h, s, k)].next = Node(h, s, k + 1)
        /\ ls[Node(h, s, k - 1)].next = Node(h, s, k)
        /\ ls[Node(h, s, k + 1)].prev = Node(h, s, k)
    BY <1>1, Neighbours
  <2> QED BY <1>2, <2>1 DEF Linked
<1>4. Linked(Del(ls, s[k]), s[k])
  <2> DEFINE l == s[k]
             new == Del(ls, l)
  <2>1. new[l].next = l /\ new[l].prev = l
    <3>1. l \in DOMAIN ls BY <1>2
    <3> HIDE DEF l
    <3> QED BY <3>1, DelLinks
  <2> HIDE DEF new
  <2>2. Linked(new, l) BY <2>1 DEF Linked
  <2> QED BY <2>2 DEF new
<1> QED BY <1>3, <1>4

-----------------------------------------------------------------------------
(* Sequences without repetitions.                                          *)

LEMMA RangeOfLists ==
    ASSUME NEW S, NEW s \in Seq(S), NEW l
    PROVE  /\ \A x : x \in Range(s) <=> In(x, s)
           /\ Range(<<l>> \o s) = {l} \cup Range(s)
           /\ Range(Append(s, l)) = {l} \cup Range(s)
<1>1. Len(s) \in Nat /\ DOMAIN s = 1..Len(s) BY LenProperties
<1>2. \A x : x \in Range(s) <=> In(x, s) BY <1>1 DEF Range, In
<1>3. Range(<<l>> \o s) = {l} \cup Range(s)
  <2> DEFINE t == <<l>> \o s
  <2>1. DOMAIN t = 1..(Len(s) + 1) /\ t[1] = l /\ \A i \in 1..Len(s) : t[i + 1] = s[i]
    BY <1>1
  <2>2. \A i \in DOMAIN t : i = 1 \/ (i - 1 \in 1..Len(s) /\ (i - 1) + 1 = i)
    BY <1>1, <2>1
  <2>3. 1 \in DOMAIN t /\ \A i \in 1..Len(s) : i + 1 \in DOMAIN t BY <1>1, <2>1
  <2> HIDE DEF t
  <2>4. \A x \in Range(t) : x = l \/ x \in Range(s) BY <1>1, <2>1, <2>2 DEF Range
  <2>5. l \in Range(t) /\ \A x \in Range(s) : x \in Range(t)
    BY <1>1, <2>1, <2>3 DEF Range
  <2> QED BY <2>4, <2>5 DEF t
<1>4. Range(Append(s, l)) = {l} \cup Range(s)
  <2> DEFINE t == Append(s, l)
  <2>1. DOMAIN t = 1..(Len(s) + 1) /\ t[Len(s) + 1] = l
        /\ \A i \in 1..Len(s) : t[i] = s[i]
    BY <1>1
  <2>2. \A i \in DOMAIN t : i = Len(s) + 1 \/ i \in 1..Len(s) BY <1>1, <2>1
  <2>3. Len(s) + 1 \in DOMAIN t /\ \A i \in 1..Len(s) : i \in DOMAIN t BY <1>1, <2>1
  <2> HIDE DEF t
  <2> QED BY <1>1, <2>1, <2>2, <2>3 DEF Range, t
<1> QED BY <1>2, <1>3, <1>4

LEMMA RangeWithout ==
    ASSUME NEW S, NEW s \in Seq(S), \A i, j \in 1..Len(s) : s[i] = s[j] => i = j,
           NEW k \in 1..Len(s)
    PROVE  Range(Without(s, k)) = Range(s) \ {s[k]} /\ (k = 1 => Without(s, k) = Tail(s))
<1> DEFINE t == Without(s, k)
<1>1. Len(s) \in Nat /\ DOMAIN s = 1..Len(s) /\ k \in Nat /\ 1 <= k BY LenProperties
<1>2. DOMAIN t = 1..(Len(s) - 1)
      /\ \A i \in 1..(Len(s) - 1) : t[i] = IF i < k THEN s[i] ELSE s[i + 1]
  BY DEF Without
<1> HIDE DEF t
<1>3. ASSUME NEW x \in Range(t) PROVE x \in Range(s) \ {s[k]}
  <2>1. PICK i \in 1..(Len(s) - 1) : x = t[i] BY <1>2 DEF Range
  <2>2. i \in 1..Len(s) /\ i + 1 \in 1..Len(s) /\ (i < k => i # k)
        /\ (~ (i < k) => i + 1 # k)
    BY <1>1
  <2> QED BY <1>1, <1>2, <2>1, <2>2 DEF Range
<1>4. ASSUME NEW x \in Range(s) \ {s[k]} PROVE x \in Range(t)
  <2>1. PICK i \in 1..Len(s) : x = s[i] /\ i # k BY <1>1 DEF Range
  <2>2. CASE i < k
    <3>1. i \in 1..(Len(s) - 1) BY <1>1, <2>2
    <3> QED BY <1>2, <2>1, <2>2, <3>1 DEF Range
  <2>3. CASE ~ (i < k)
    <3>1. i - 1 \in 1..(Len(s) - 1) /\ ~ (i - 1 < k) /\ (i - 1) + 1 = i
      BY <1>1, <2>1, <2>3
    <3>2. t[i - 1] = s[i] BY <1>2, <3>1
    <3> QED BY <1>2, <2>1, <3>1, <3>2 DEF Range
  <2> QED BY <2>2, <2>3
<1>5. ASSUME k = 1 PROVE t = Tail(s)
  <2>1. s # <<>> BY <1>1
  <2>2. /\ Tail(s) \in Seq(S) /\ Len(Tail(s)) = Len(s) - 1
        /\ \A i \in 1..Len(Tail(s)) : Tail(s)[i] = s[i + 1]
    BY <2>1, HeadTailProperties
  <2>3. DOMAIN Tail(s) = 1..(Len(s) - 1) BY <2>2, LenProperties
  <2>4. \A i \in 1..(Len(s) - 1) : t[i] = Tail(s)[i] BY <1>2, <1>5, <2>2
  <2>5. t = [i \in 1..(Len(s) - 1) |-> t[i]] BY DEF t, Without
  <2>6. Tail(s) = [i \in 1..(Len(s) - 1) |-> Tail(s)[i]] BY <2>2, <2>3, LenProperties
  <2> QED BY <2>4, <2>5, <2>6
<1> QED BY <1>3, <1>4, <1>5 DEF t

(* What an operation makes is what the program finds afterwards, and a     *)
(* list without a link of it is as before.                                 *)
LEMMA ContentsMade ==
    ASSUME NEW ls, NEW new, NEW h, NEW s, NEW l, NEW t, IsFiniteSet(DOMAIN ls),
           Makes(ls, new, h, s, l, t)
    PROVE  /\ Memory(new) /\ DOMAIN new = DOMAIN ls
           /\ IsList(new, h, t) /\ Contents(new, h) = t
BY ContentsOfList DEF Makes

LEMMA OthersKept ==
    ASSUME NEW ls, NEW new, NEW h, NEW s, NEW l, NEW t, IsFiniteSet(DOMAIN ls),
           Makes(ls, new, h, s, l, t), NEW g, NEW r, IsList(ls, g, r),
           g \notin {h, l}, ~ In(g, s),
           \A i \in 1..Len(r) : r[i] \notin {h, l} /\ ~ In(r[i], s)
    PROVE  IsList(new, g, r) /\ Contents(new, g) = r
<1>1. g \in DOMAIN ls /\ \A i \in 1..Len(r) : r[i] \in DOMAIN ls
  BY ElementOfSeq DEF IsList
<1>2. new[g] = ls[g] /\ \A i \in 1..Len(r) : new[r[i]] = ls[r[i]] BY <1>1 DEF Makes
<1>3. IsList(new, g, r) BY <1>2, Untouched DEF Makes
<1> QED BY <1>3, ContentsOfList DEF Makes

-----------------------------------------------------------------------------
(* Sequences of which a part is lost.                                      *)

(* Sequence r is s without some of its elements, in the same order.        *)
Remains(r, s) ==
    \E n \in 0..Len(s) : \E f \in [1..n -> 1..Len(s)] :
        /\ \A i, j \in 1..n : i < j => f[i] < f[j]
        /\ r = [i \in 1..n |-> s[f[i]]]

(* Nothing is lost, everything is lost,                                    *)
LEMMA RemainsAll ==
    ASSUME NEW A, NEW s \in Seq(A)
    PROVE  Remains(s, s) /\ Remains(<<>>, s)
<1>1. Len(s) \in Nat /\ s = [i \in 1..Len(s) |-> s[i]] BY LenProperties
<1>2. Remains(s, s)
  <2> DEFINE f == [i \in 1..Len(s) |-> i]
  <2>1. f \in [1..Len(s) -> 1..Len(s)] /\ (\A i, j \in 1..Len(s) : i < j => f[i] < f[j])
        /\ s = [i \in 1..Len(s) |-> s[f[i]]] /\ Len(s) \in 0..Len(s)
    BY <1>1
  <2> HIDE DEF f
  <2> QED BY <2>1 DEF Remains
<1>3. Remains(<<>>, s)
  <2> DEFINE f == [i \in 1..0 |-> 1]
  <2>1. 1..0 = {} BY <1>1
  <2>2. f \in [1..0 -> 1..Len(s)] /\ 0 \in 0..Len(s)
        /\ (\A i, j \in 1..0 : i < j => f[i] < f[j])
    BY <1>1, <2>1
  <2>3. <<>> = [i \in 1..0 |-> s[f[i]]] BY <2>1
  <2> HIDE DEF f
  <2> QED BY <2>2, <2>3 DEF Remains
<1> QED BY <1>2, <1>3

(* only a beginning is left, or the first element is lost.                 *)
LEMMA RemainsPart ==
    ASSUME NEW A, NEW s \in Seq(A)
    PROVE  /\ \A n \in 0..Len(s) : Remains(SubSeq(s, 1, n), s)
           /\ s # <<>> => Remains(Tail(s), s)
<1>1. Len(s) \in Nat BY LenProperties
<1>2. ASSUME NEW n \in 0..Len(s) PROVE Remains(SubSeq(s, 1, n), s)
  <2> DEFINE f == [i \in 1..n |-> i]
  <2>1. f \in [1..n -> 1..Len(s)] /\ (\A i, j \in 1..n : i < j => f[i] < f[j]) BY <1>1
  <2>2. SubSeq(s, 1, n) = [i \in 1..n |-> s[f[i]]]
    <3>1. n = 0 => 1..n = {} OBVIOUS
    <3>2. SubSeq(s, 1, n) = [i \in 1..n |-> s[i]] BY <1>1
    <3> QED BY <3>2
  <2> HIDE DEF f
  <2> QED BY <2>1, <2>2 DEF Remains
<1>3. ASSUME s # <<>> PROVE Remains(Tail(s), s)
  <2> DEFINE n == Len(s) - 1
             f == [i \in 1..n |-> i + 1]
  <2>1. n \in 0..Len(s) BY <1>1, <1>3, EmptySeq
  <2>2. f \in [1..n -> 1..Len(s)] /\ (\A i, j \in 1..n : i < j => f[i] < f[j]) BY <1>1, <2>1
  <2>3. Tail(s) = [i \in 1..n |-> s[f[i]]]
    <3>1. /\ Tail(s) \in Seq(A) /\ Len(Tail(s)) = n
          /\ \A i \in 1..n : Tail(s)[i] = s[i + 1]
      BY <1>3, HeadTailProperties
    <3>2. Tail(s) = [i \in 1..n |-> Tail(s)[i]] BY <3>1, LenProperties
    <3> QED BY <3>1, <3>2
  <2> HIDE DEF f, n
  <2> QED BY <2>1, <2>2, <2>3 DEF Remains
<1> QED BY <1>2, <1>3

(* What remains of two sequences remains of both.                          *)
LEMMA RemainsOfBoth ==
    ASSUME NEW A, NEW s \in Seq(A), NEW t \in Seq(A), NEW q, NEW r,
           Remains(q, s), Remains(r, t)
    PROVE  Remains(q \o r, s \o t)
<1>1. Len(s) \in Nat /\ Len(t) \in Nat /\ s \in [1..Len(s) -> A] /\ t \in [1..Len(t) -> A]
  BY LenProperties
<1>2. PICK n \in 0..Len(s) : \E f \in [1..n -> 1..Len(s)] :
        (\A i, j \in 1..n : i < j => f[i] < f[j]) /\ q = [i \in 1..n |-> s[f[i]]]
  BY DEF Remains
<1>3. PICK f \in [1..n -> 1..Len(s)] :
        (\A i, j \in 1..n : i < j => f[i] < f[j]) /\ q = [i \in 1..n |-> s[f[i]]]
  BY <1>2
<1>4. PICK m \in 0..Len(t) : \E g \in [1..m -> 1..Len(t)] :
        (\A i, j \in 1..m : i < j => g[i] < g[j]) /\ r = [i \in 1..m |-> t[g[i]]]
  BY DEF Remains
<1>5. PICK g \in [1..m -> 1..Len(t)] :
        (\A i, j \in 1..m : i < j => g[i] < g[j]) /\ r = [i \in 1..m |-> t[g[i]]]
  BY <1>4
<1>6. q \in Seq(A) /\ Len(q) = n
  <2>1. q \in [1..n -> A] BY <1>1, <1>3
  <2> QED BY <1>1, <2>1, SeqDef, LenProperties
<1>7. r \in Seq(A) /\ Len(r) = m
  <2>1. r \in [1..m -> A] BY <1>1, <1>5
  <2> QED BY <1>1, <2>1, SeqDef, LenProperties
<1> DEFINE h == [i \in 1..(n + m) |-> IF i <= n THEN f[i] ELSE Len(s) + g[i - n]]
           u == s \o t
           v == q \o r
<1>8. /\ u \in Seq(A) /\ Len(u) = Len(s) + Len(t)
      /\ \A i \in 1..(Len(s) + Len(t)) : u[i] = IF i <= Len(s) THEN s[i] ELSE t[i - Len(s)]
  BY ConcatProperties
<1>9. /\ v \in Seq(A) /\ Len(v) = n + m /\ v = [i \in 1..(n + m) |-> v[i]]
      /\ \A i \in 1..(n + m) : v[i] = IF i <= n THEN q[i] ELSE r[i - n]
  BY <1>6, <1>7, ConcatProperties, LenProperties
<1> HIDE DEF u, v
<1>10. ASSUME NEW i \in 1..(n + m)
       PROVE  h[i] \in 1..(Len(s) + Len(t)) /\ v[i] = u[h[i]]
  <2>1. CASE i <= n
    <3>1. i \in 1..n /\ f[i] \in 1..Len(s) /\ h[i] = f[i] BY <1>3, <2>1
    <3>2. v[i] = s[f[i]] BY <1>3, <1>9, <2>1, <3>1
    <3> QED BY <1>1, <1>8, <3>1, <3>2
  <2>2. CASE ~(i <= n)
    <3>1. i - n \in 1..m /\ h[i] = Len(s) + g[i - n] BY <2>2
    <3>2. g[i - n] \in 1..Len(t) BY <3>1, <1>5
    <3>3. h[i] \in 1..(Len(s) + Len(t)) /\ ~(h[i] <= Len(s)) /\ h[i] - Len(s) = g[i - n]
      BY <1>1, <3>1, <3>2
    <3>4. v[i] = t[g[i - n]] BY <1>5, <1>9, <2>2, <3>1
    <3> QED BY <1>8, <3>3, <3>4
  <2> QED BY <2>1, <2>2
<1>11. ASSUME NEW i \in 1..(n + m), NEW j \in 1..(n + m), i < j PROVE h[i] < h[j]
  <2>1. CASE j <= n BY <1>3, <1>11, <2>1
  <2>2. CASE i <= n /\ ~(j <= n)
    <3>1. f[i] \in 1..Len(s) /\ h[i] = f[i] BY <2>2
    <3>2. g[j - n] \in 1..Len(t) /\ h[j] = Len(s) + g[j - n]
      <4>1. j - n \in 1..m BY <2>2
      <4> QED BY <4>1, <2>2
    <3> HIDE DEF h
    <3> QED BY <1>1, <3>1, <3>2
  <2>3. CASE ~(i <= n)
    <3>1. i - n \in 1..m /\ j - n \in 1..m /\ i - n < j - n BY <1>11, <2>3
    <3>2. g[i - n] < g[j - n] /\ g[i - n] \in 1..Len(t) /\ g[j - n] \in 1..Len(t) BY <1>5, <3>1
    <3>3. h[i] = Len(s) + g[i - n] /\ h[j] = Len(s) + g[j - n] BY <1>11, <2>3
    <3>4. \A x, y, z \in Int : x < y => z + x < z + y OBVIOUS
    <3>5. Len(s) \in Int /\ g[i - n] \in Int /\ g[j - n] \in Int BY <1>1, <3>2
    <3>6. Len(s) + g[i - n] < Len(s) + g[j - n] BY <3>2, <3>4, <3>5
    <3> HIDE DEF h
    <3> QED BY ONLY <3>3, <3>6
  <2> QED BY <2>1, <2>2, <2>3
<1>12. h \in [1..(n + m) -> 1..Len(u)] BY <1>8, <1>10
<1>13. v = [i \in 1..(n + m) |-> u[h[i]]] BY <1>9, <1>10
<1> HIDE DEF h
<1>14. n + m \in 0..Len(u) BY <1>1, <1>8
<1> QED BY <1>11, <1>12, <1>13, <1>14 DEF Remains, u, v
-----------------------------------------------------------------------------
(* Sequences one after the other.                                          *)

(* The first of both is the first of the first one,                        *)
LEMMA FirstOfBoth ==
    ASSUME NEW A, NEW s \in Seq(A), NEW t \in Seq(A), s # <<>>
    PROVE  s \o t # <<>> /\ Head(s \o t) = Head(s) /\ Tail(s \o t) = Tail(s) \o t
<1> DEFINE u == s \o t
           v == Tail(s) \o t
<1>1. Len(s) \in Nat \ {0} /\ Len(t) \in Nat BY EmptySeq, LenProperties
<1>2. /\ u \in Seq(A) /\ Len(u) = Len(s) + Len(t)
      /\ \A i \in 1..Len(s) + Len(t) : u[i] = IF i <= Len(s) THEN s[i] ELSE t[i - Len(s)]
  BY ConcatProperties
<1>3. /\ Tail(s) \in Seq(A) /\ Len(Tail(s)) = Len(s) - 1
      /\ \A i \in 1..(Len(s) - 1) : Tail(s)[i] = s[i + 1]
  BY HeadTailProperties
<1>4. /\ v \in Seq(A) /\ Len(v) = (Len(s) - 1) + Len(t)
      /\ \A i \in 1..((Len(s) - 1) + Len(t)) :
            v[i] = IF i <= Len(s) - 1 THEN Tail(s)[i] ELSE t[i - (Len(s) - 1)]
  BY <1>3, ConcatProperties
<1> HIDE DEF u, v
<1>5. u # <<>> /\ u[1] = s[1] BY <1>1, <1>2, EmptySeq
<1>6. /\ Tail(u) \in Seq(A) /\ Len(Tail(u)) = (Len(s) + Len(t)) - 1
      /\ \A i \in 1..((Len(s) + Len(t)) - 1) : Tail(u)[i] = u[i + 1]
  BY <1>2, <1>5, HeadTailProperties
<1>7. ASSUME NEW i \in 1..((Len(s) + Len(t)) - 1) PROVE Tail(u)[i] = v[i]
  <2>1. Tail(u)[i] = u[i + 1] /\ i + 1 \in 1..Len(s) + Len(t) BY <1>1, <1>6
  <2>2. CASE i <= Len(s) - 1
    <3>1. i + 1 <= Len(s) /\ i \in 1..(Len(s) - 1) BY <1>1, <2>2
    <3>2. u[i + 1] = s[i + 1] BY <1>2, <2>1, <3>1
    <3>3. v[i] = s[i + 1] BY <1>1, <1>3, <1>4, <2>2, <3>1
    <3> QED BY <2>1, <3>2, <3>3
  <2>3. CASE ~(i <= Len(s) - 1)
    <3>1. ~(i + 1 <= Len(s)) /\ (i + 1) - Len(s) = i - (Len(s) - 1) BY <1>1, <2>3
    <3>2. u[i + 1] = t[(i + 1) - Len(s)] BY <1>2, <2>1, <3>1
    <3>3. i \in 1..((Len(s) - 1) + Len(t)) BY <1>1
    <3>4. v[i] = t[i - (Len(s) - 1)] BY <1>4, <2>3, <3>3
    <3> QED BY <2>1, <3>1, <3>2, <3>4
  <2> QED BY <2>2, <2>3
<1>8. Tail(u) = v
  <2>1. Len(Tail(u)) = Len(v) BY <1>1, <1>4, <1>6
  <2> QED BY <1>4, <1>6, <1>7, <2>1, SeqEqual
<1>9. Head(u) = u[1] /\ Head(s) = s[1] BY <1>1, <1>2
<1> QED BY <1>5, <1>8, <1>9 DEF u, v

(* what follows the second one follows both,                               *)
LEMMA LastOfBoth ==
    ASSUME NEW A, NEW s \in Seq(A), NEW t \in Seq(A), NEW e \in A
    PROVE  s \o Append(t, e) = Append(s \o t, e)
<1>1. s \o t \in Seq(A) /\ <<e>> \in Seq(A) BY ConcatProperties
<1>2. Append(t, e) = t \o <<e>> /\ Append(s \o t, e) = (s \o t) \o <<e>>
  BY <1>1, AppendIsConcat
<1>3. (s \o t) \o <<e>> = s \o (t \o <<e>>) BY <1>1, ConcatAssociative
<1> QED BY <1>2, <1>3

(* and what moves from the second one to the first stays in place.         *)
LEMMA MovesOver ==
    ASSUME NEW A, NEW s \in Seq(A), NEW t \in Seq(A), t # <<>>
    PROVE  Append(s, Head(t)) \o Tail(t) = s \o t
<1> DEFINE r == <<Head(t)>>
<1>1. Head(t) \in A /\ Tail(t) \in Seq(A) BY HeadTailProperties
<1>2. r \in Seq(A) /\ r # <<>> /\ Head(r) = Head(t) BY <1>1
<1>3. r \o Tail(t) = t
  <2>1. Len(r) = 1 /\ r[1] = Head(t) OBVIOUS
  <2>2. Len(t) \in Nat \ {0} /\ Len(Tail(t)) = Len(t) - 1
        /\ \A i \in 1..(Len(t) - 1) : Tail(t)[i] = t[i + 1]
    BY EmptySeq, HeadTailProperties
  <2> HIDE DEF r
  <2>3. /\ r \o Tail(t) \in Seq(A) /\ Len(r \o Tail(t)) = Len(t)
        /\ \A i \in 1..Len(t) : (r \o Tail(t))[i] = IF i <= 1 THEN r[i] ELSE Tail(t)[i - 1]
    <3> DEFINE q == Tail(t)
    <3>1. q \in Seq(A) /\ Len(q) = Len(t) - 1 /\ Len(r) + Len(q) = Len(t)
      BY <1>1, <2>1, <2>2
    <3> HIDE DEF q
    <3>2. /\ r \o q \in Seq(A) /\ Len(r \o q) = Len(r) + Len(q)
          /\ \A i \in 1..Len(r) + Len(q) :
                (r \o q)[i] = IF i <= Len(r) THEN r[i] ELSE q[i - Len(r)]
      BY <1>2, <3>1, ConcatProperties
    <3> QED BY <2>1, <3>1, <3>2 DEF q
  <2>4. Head(t) = t[1] BY <2>2
  <2>5. ASSUME NEW i \in 1..Len(t) PROVE (r \o Tail(t))[i] = t[i]
    <3>1. i = 1 \/ (i - 1 \in 1..(Len(t) - 1) /\ ~(i <= 1) /\ (i - 1) + 1 = i) BY <2>2
    <3> QED BY <2>1, <2>2, <2>3, <2>4, <3>1
  <2> QED BY <2>3, <2>5, SeqEqual
<1>4. Append(s, Head(t)) = s \o r BY <1>1, AppendIsConcat
<1> HIDE DEF r
<1> QED BY <1>1, <1>2, <1>3, <1>4, ConcatAssociative
=============================================================================
