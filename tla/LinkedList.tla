----------------------------- MODULE LinkedList -----------------------------
(***************************************************************************)
(* The macros of include/linkedlist.h, pointer by pointer: circular doubly *)
(* linked lists, each known by a pointer to its first item.  The macros    *)
(* are used by all the stacks for queues, buffers and decoded messages.    *)
(*                                                                         *)
(* REMOVE is given a list and an item and never checks that the item is in *)
(* that list.  What the callers owe is that it is not the first item of    *)
(* another list, whose head would then point to an item that is not linked *)
(* (module LdapClient, variable corrupt).                                  *)
(***************************************************************************)
EXTENDS Rings, FiniteSets

CONSTANTS Item, List, NULL

ASSUME NullAssumption == NULL \notin Item

\* There is only so much memory.
ASSUME ItemAssumption == IsFiniteSet(Item)

VARIABLES
    first,   \* the head of each list
    prev,    \* the pointers of each item
    next

vars == <<first, prev, next>>

Pointer == Item \union {NULL}

Unlinked(i) == prev[i] = NULL \/ next[i] = NULL

\* The item is the first of no list but l.
FirstOfNoOther(l, i) == \A k \in List \ {l} : first[k] # i

Init ==
    /\ first = [l \in List |-> NULL]
    /\ prev = [i \in Item |-> NULL]
    /\ next = [i \in Item |-> NULL]

-----------------------------------------------------------------------------
(* LINKEDLIST_APPEND, LINKEDLIST_PREPEND: an item is linked before the     *)
(* first one, that is, at the end.  Prepending then makes it the first.    *)

\* p and n with item i linked before item f.
PrevWith(p, f, i) == [p EXCEPT ![i] = p[f], ![f] = i]
NextWithOneWay(p, n, f, i) == [n EXCEPT ![i] = f]
NextWith(p, n, f, i) == [n EXCEPT ![i] = f, ![p[f]] = i]

LinkAlone(l, i) ==
    /\ first[l] = NULL
    /\ first' = [first EXCEPT ![l] = i]
    /\ prev' = [prev EXCEPT ![i] = i]
    /\ next' = [next EXCEPT ![i] = i]

LinkBeforeFirst(l, i) ==
    /\ first[l] # NULL
    /\ prev' = PrevWith(prev, first[l], i)
    /\ next' = NextWith(prev, next, first[l], i)

LINKEDLIST_APPEND(l, i) ==
    /\ Unlinked(i)
    /\ \/ LinkAlone(l, i)
       \/ LinkBeforeFirst(l, i) /\ UNCHANGED first

LINKEDLIST_PREPEND(l, i) ==
    /\ Unlinked(i)
    /\ \/ LinkAlone(l, i)
       \/ LinkBeforeFirst(l, i) /\ first' = [first EXCEPT ![l] = i]

-----------------------------------------------------------------------------
(* LINKEDLIST_REMOVE, LINKEDLIST_SHUFFLE                                   *)

\* The pointers with the neighbours of item i linked to each other.
PrevWithout(i) == [prev EXCEPT ![next[i]] = prev[i]]
NextWithout(i) == [next EXCEPT ![prev[i]] = next[i]]

\* The head of list l without item i, which is linked.
HeadWithoutBackwards(l, i) ==
    CASE first[l] # i -> first[l]
      [] first[l] = i /\ next[i] = i -> NULL
      [] first[l] = i /\ next[i] # i -> prev[i]
HeadWithout(l, i) ==
    CASE first[l] # i -> first[l]
      [] first[l] = i /\ next[i] = i -> NULL
      [] first[l] = i /\ next[i] # i -> next[i]

LINKEDLIST_REMOVE(l, i) ==
    /\ FirstOfNoOther(l, i)
    /\ \/ Unlinked(i) /\ UNCHANGED first
       \/ ~Unlinked(i) /\ first' = [first EXCEPT ![l] = HeadWithout(l, i)]
    /\ IF Unlinked(i) \/ (first[l] = i /\ next[i] = i)
       THEN /\ prev' = [prev EXCEPT ![i] = NULL]
            /\ next' = [next EXCEPT ![i] = NULL]
       ELSE /\ prev' = [PrevWithout(i) EXCEPT ![i] = NULL]
            /\ next' = [NextWithout(i) EXCEPT ![i] = NULL]

\* The item goes to the end of list l; the first item makes way for the next.
LINKEDLIST_SHUFFLE(l, i) ==
    /\ FirstOfNoOther(l, i)
    /\ ~Unlinked(i) /\ first[l] # NULL
    /\ IF first[l] = i /\ next[i] = i
       THEN UNCHANGED vars
       ELSE LET f == IF first[l] = i THEN next[i] ELSE first[l]
            IN  /\ first' = [first EXCEPT ![l] = f]
                /\ prev' = PrevWith(PrevWithout(i), f, i)
                /\ next' = NextWith(PrevWithout(i), NextWithout(i), f, i)

-----------------------------------------------------------------------------

Next ==
    \E l \in List, i \in Item :
        \/ LINKEDLIST_APPEND(l, i)
        \/ LINKEDLIST_PREPEND(l, i)
        \/ LINKEDLIST_REMOVE(l, i)
        \/ LINKEDLIST_SHUFFLE(l, i)

Spec == Init /\ [][Next]_vars

-----------------------------------------------------------------------------
(* Properties.                                                             *)

\* Pointers point to items or are NULL.
TypeOK ==
    /\ first \in [List -> Pointer]
    /\ prev \in [Item -> Pointer]
    /\ next \in [Item -> Pointer]

\* The two pointers of an item are both NULL or both set; next and prev are
\* inverse to each other; and a head is NULL or points to a linked item, so
\* that none of the macros follows a NULL pointer.
RingsClosed ==
    /\ \A i \in Item : prev[i] = NULL <=> next[i] = NULL
    /\ \A i \in Item :
          next[i] # NULL => prev[next[i]] = i /\ next[prev[i]] = i
    /\ \A l \in List : first[l] # NULL => next[first[l]] # NULL

\* RingsClosed with the types it needs.
RingInv == TypeOK /\ RingsClosed

\* The items reached from item f along the pointers n in 0, 1, ... steps.
Follow(f, n) ==
    LET follow[m \in Nat] == IF m = 0 THEN f ELSE n[follow[m - 1]]
    IN  follow

\* The number of steps after which the ring comes back to f.
RingSize(f, n) ==
    CHOOSE m \in 1..Cardinality(Item) :
        /\ Follow(f, n)[m] = f
        /\ \A k \in 1..(m - 1) : Follow(f, n)[k] # f

RingFrom(f, n) ==
    IF f = NULL THEN <<>>
    ELSE [m \in 1..RingSize(f, n) |-> Follow(f, n)[m - 1]]

\* The items of list l, in the order in which the callers' loops
\*     a = b = first; do { ... b = b->next; } while (a != b)
\* visit them.
Walk(l) == RingFrom(first[l], next)

Walks == [l \in List |-> Walk(l)]

Abstract == INSTANCE Lists WITH lists <- Walks

\* The macros do to the pointers what the operators of module Rings do to
\* the sequences of items: the pointers implement the lists.
ImplementsLists == Abstract!Spec

=============================================================================
