------------------------------- MODULE Lists -------------------------------
(***************************************************************************)
(* Intrusive doubly linked lists, looped through their head (list.c).      *)
(*                                                                         *)
(* The memory of the links is a function from links to records of ll_prev  *)
(* and ll_next, here called ls; a head is a link too.  An object is named  *)
(* by its link: list_obj_link() and list_link2obj() are the identity.  The *)
(* magic of an object is set by its first insertion and never cleared, so  *)
(* what it checks, that the object was in some list of this type before,   *)
(* holds for each use the program makes of a list.                         *)
(***************************************************************************)
EXTENDS Naturals, FiniteSets

NULL == "NULL"

Self(l) == [prev |-> l, next |-> l]

ListInit(ls, head) == [ls EXCEPT ![head] = Self(head)]

IsEmpty(ls, head) == ls[head] = Self(head)

(* The four assignments in the order of the code: each one may change what *)
(* the next one reads.                                                     *)
InsertBefore(ls, link, before) ==
    LET prev == ls[before].prev IN
    [ls EXCEPT ![link] = [prev |-> prev, next |-> before],
               ![prev].next = link,
               ![before].prev = link]

InsertAfter(ls, link, after) ==
    LET next == ls[after].next IN
    [ls EXCEPT ![link] = [prev |-> after, next |-> next],
               ![next].prev = link,
               ![after].next = link]

InsertHead(ls, link, head) == InsertAfter(ls, link, head)
InsertTail(ls, link, head) == InsertBefore(ls, link, head)

(* What is deleted points to itself afterwards: deleting it again changes  *)
(* nothing, and passes the assertions.                                     *)
Del(ls, link) ==
    LET prev == ls[link].prev
        next == ls[link].next
    IN [ls EXCEPT ![prev].next = next,
                  ![next].prev = prev,
                  ![link] = Self(link)]

ListHead(ls, head) == IF IsEmpty(ls, head) THEN NULL ELSE ls[head].next

(* Following pppoat_list_next() from a head, until it comes round again.   *)
Path(ls, head) ==
    LET at[i \in 0..Cardinality(DOMAIN ls)] ==
            IF i = 0 THEN head ELSE ls[at[i - 1]].next
    IN at

Count(ls, head) ==
    LET at == Path(ls, head) IN
    Cardinality({i \in DOMAIN at : \A j \in 0..i : at[j] = head => j = 0}) - 1

Contents(ls, head) == [i \in 1..Count(ls, head) |-> Path(ls, head)[i]]

(* What pppoat_list_del() asserts of the link of an object.                *)
Linked(ls, link) ==
    /\ ls[ls[link].prev].next = link
    /\ ls[ls[link].next].prev = link
=============================================================================
