------------------------------- MODULE Lists -------------------------------
(***************************************************************************)
(* What the macros of include/linkedlist.h promise: some lists, each a     *)
(* sequence of items, an item in at most one of them.                      *)
(***************************************************************************)
EXTENDS Rings

CONSTANTS Item, List

VARIABLE lists

Linked(i) == \E l \in List : i \in Items(lists[l])

Init == lists = [l \in List |-> <<>>]

AppendTo(l, i) ==
    /\ ~Linked(i)
    /\ lists' = [lists EXCEPT ![l] = AppendItem(@, i)]

PrependTo(l, i) ==
    /\ ~Linked(i)
    /\ lists' = [lists EXCEPT ![l] = PrependItem(@, i)]

\* Removing an item takes it out of whatever list it is in.
RemoveItem(i) == lists' = [l \in List |-> Delete(lists[l], i)]

\* Shuffling moves a linked item to the end of the named list.
MoveTo(l, i) ==
    /\ Linked(i)
    /\ lists' = [k \in List |-> IF k = l THEN MoveToEnd(lists[k], i)
                                         ELSE Delete(lists[k], i)]

Next ==
    \E i \in Item :
        \/ RemoveItem(i)
        \/ \E l \in List : AppendTo(l, i) \/ PrependTo(l, i) \/ MoveTo(l, i)

Spec == Init /\ [][Next]_lists

=============================================================================
