------------------------------- MODULE Rings -------------------------------
(***************************************************************************)
(* The list macros of include/linkedlist.h seen as operators on sequences. *)
(* A list is the sequence of its items, first item first.  Module          *)
(* LinkedList models the macros themselves, pointer by pointer, and its    *)
(* runs show that they implement these operators.                          *)
(***************************************************************************)
EXTENDS Integers, Sequences

Items(s) == {s[i] : i \in 1..Len(s)}

\* No item is linked twice.
NoRepeat(s) == \A i, j \in 1..Len(s) : s[i] = s[j] => i = j

IsFirst(s, x) == s # <<>> /\ s[1] = x

PositionOf(s, x) == CHOOSE i \in 1..Len(s) : s[i] = x

\* LINKEDLIST_REMOVE: an item that is not linked is left alone.
Delete(s, x) ==
    IF x \notin Items(s)
    THEN s
    ELSE LET p == PositionOf(s, x)
         IN  [i \in 1..(Len(s) - 1) |-> IF i < p THEN s[i] ELSE s[i + 1]]

\* LINKEDLIST_APPEND.
AppendItem(s, x) == Append(s, x)

\* LINKEDLIST_PREPEND.
PrependItem(s, x) == <<x>> \o s

\* LINKEDLIST_SHUFFLE moves a linked item to the end of its list.
MoveToEnd(s, x) == Append(Delete(s, x), x)

=============================================================================
