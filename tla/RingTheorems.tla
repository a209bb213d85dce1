---------------------------- MODULE RingTheorems ----------------------------
(***************************************************************************)
(* What the list operators of module Rings do to the items of a list, and  *)
(* what a search for the first free slot finds; and what joining a sequence *)
(* of sequences with FlattenSeq yields.                                    *)
(***************************************************************************)
EXTENDS Rings, SequencesExt, TLAPS, WellFoundedInduction, NaturalsInduction,
        SequenceTheorems, FiniteSetTheorems

\* Removing an item that is not linked changes nothing (the first branch of
\* LINKEDLIST_REMOVE).
LEMMA DeleteAbsent ==
    ASSUME NEW s, NEW x, x \notin Items(s)
    PROVE  Delete(s, x) = s
BY DEF Delete

\* Removing an item gives a list of the same type.
LEMMA DeleteType ==
    ASSUME NEW S, NEW s \in Seq(S), NEW x
    PROVE  Delete(s, x) \in Seq(S)
<1> DEFINE p == PositionOf(s, x)
           d == [i \in 1..(Len(s) - 1) |-> IF i < p THEN s[i] ELSE s[i + 1]]
<1>1. CASE x \notin Items(s)
  BY <1>1 DEF Delete
<1>2. CASE x \in Items(s)
  <2>1. p \in 1..Len(s)
    BY <1>2 DEF Items, PositionOf
  <2>2. Delete(s, x) = d
    BY <1>2 DEF Delete
  <2> HIDE DEF p
  <2>3. \A i \in 1..Len(s) : s[i] \in S
    OBVIOUS
  <2>4. Len(s) \in Nat /\ Len(s) - 1 \in Nat
    BY <2>1
  <2>5. d \in Seq(S)
    BY <2>1, <2>3, <2>4
  <2> QED BY <2>2, <2>5
<1> QED BY <1>1, <1>2

\* Removing a linked item gives a list of the other items, in which none is
\* linked twice (LINKEDLIST_REMOVE).
LEMMA DeletePresent ==
    ASSUME NEW S, NEW s \in Seq(S), NoRepeat(s), NEW x \in Items(s)
    PROVE  /\ Delete(s, x) \in Seq(S)
           /\ Len(Delete(s, x)) = Len(s) - 1
           /\ NoRepeat(Delete(s, x))
           /\ Items(Delete(s, x)) = Items(s) \ {x}
<1> DEFINE p == PositionOf(s, x)
           d == [i \in 1..(Len(s) - 1) |-> IF i < p THEN s[i] ELSE s[i + 1]]
<1>1. p \in 1..Len(s) /\ s[p] = x
  BY DEF Items, PositionOf
<1>2. Delete(s, x) = d
  BY DEF Delete
<1> HIDE DEF p
<1>3. \A i \in 1..Len(s) : s[i] \in S
  OBVIOUS
<1>4. \A i \in 1..(Len(s) - 1) : d[i] = IF i < p THEN s[i] ELSE s[i + 1]
  OBVIOUS
<1>5. Len(s) \in Nat /\ Len(s) - 1 \in Nat
  BY <1>1
<1>6. d \in Seq(S) /\ Len(d) = Len(s) - 1
  BY <1>1, <1>3, <1>5
<1> HIDE DEF d
<1>7. NoRepeat(d)
  BY <1>1, <1>4, <1>5, <1>6 DEF NoRepeat
<1>8. Items(d) = Items(s) \ {x}
  <2>1. ASSUME NEW y \in Items(d) PROVE y \in Items(s) \ {x}
    <3>1. PICK i \in 1..Len(d) : y = d[i]
      BY DEF Items
    <3>2. CASE i < p
      BY <1>1, <1>4, <1>5, <1>6, <3>1, <3>2 DEF Items, NoRepeat
    <3>3. CASE ~(i < p)
      <4>1. d[i] = s[i + 1] /\ i + 1 \in 1..Len(s) /\ i + 1 # p
        BY <1>1, <1>4, <1>5, <1>6, <3>3
      <4> QED BY <1>1, <3>1, <4>1 DEF Items, NoRepeat
    <3> QED BY <3>2, <3>3
  <2>2. ASSUME NEW y \in Items(s) \ {x} PROVE y \in Items(d)
    <3>1. PICK i \in 1..Len(s) : y = s[i]
      BY DEF Items
    <3>2. CASE i < p
      <4>1. i \in 1..Len(d) /\ d[i] = s[i]
        BY <1>1, <1>4, <1>5, <1>6, <3>2
      <4> QED BY <3>1, <4>1 DEF Items
    <3>3. CASE i > p
      <4>1. i - 1 \in 1..Len(d) /\ d[i - 1] = s[i]
        BY <1>1, <1>4, <1>5, <1>6, <3>3
      <4> QED BY <3>1, <4>1 DEF Items
    <3>4. i # p
      BY <1>1, <3>1
    <3> QED BY <1>1, <3>2, <3>3, <3>4
  <2> QED BY <2>1, <2>2
<1> QED BY <1>2, <1>6, <1>7, <1>8

\* Both cases of LINKEDLIST_REMOVE in one.
LEMMA DeleteItems ==
    ASSUME NEW S, NEW s \in Seq(S), NoRepeat(s), NEW x
    PROVE  /\ Delete(s, x) \in Seq(S)
           /\ NoRepeat(Delete(s, x))
           /\ Items(Delete(s, x)) = Items(s) \ {x}
<1>1. CASE x \in Items(s)
  BY <1>1, DeletePresent
<1>2. CASE x \notin Items(s)
  BY <1>2, DeleteAbsent
<1> QED BY <1>1, <1>2

\* Appending an item that is not linked (LINKEDLIST_APPEND).
LEMMA AppendItems ==
    ASSUME NEW S, NEW s \in Seq(S), NoRepeat(s), NEW x \in S,
           x \notin Items(s)
    PROVE  /\ Append(s, x) \in Seq(S)
           /\ NoRepeat(Append(s, x))
           /\ Items(Append(s, x)) = Items(s) \union {x}
<1> DEFINE a == Append(s, x)
<1>1. a \in Seq(S) /\ Len(a) = Len(s) + 1
  OBVIOUS
<1>2. \A i \in 1..Len(s) : a[i] = s[i]
  OBVIOUS
<1>3. a[Len(s) + 1] = x /\ Len(s) \in Nat
  OBVIOUS
<1> HIDE DEF a
<1>4. NoRepeat(a)
  BY <1>1, <1>2, <1>3 DEF NoRepeat, Items
<1>5. Items(a) = Items(s) \union {x}
  BY <1>1, <1>2, <1>3 DEF Items
<1> QED BY <1>1, <1>4, <1>5 DEF a

\* Moving a linked item to the end of its list keeps the items.
LEMMA MoveToEndItems ==
    ASSUME NEW S, NEW s \in Seq(S), NoRepeat(s), NEW x \in S
    PROVE  /\ MoveToEnd(s, x) \in Seq(S)
           /\ NoRepeat(MoveToEnd(s, x))
           /\ Items(MoveToEnd(s, x)) = Items(s) \union {x}
<1> DEFINE d == Delete(s, x)
<1>1. d \in Seq(S) /\ NoRepeat(d) /\ Items(d) = Items(s) \ {x}
  BY DeleteItems
<1> HIDE DEF d
<1>2. /\ Append(d, x) \in Seq(S)
      /\ NoRepeat(Append(d, x))
      /\ Items(Append(d, x)) = Items(d) \union {x}
  BY <1>1, AppendItems
<1> QED BY <1>1, <1>2 DEF MoveToEnd, d

\* The first item of a list is one of its items.
LEMMA HeadItem ==
    ASSUME NEW S, NEW s \in Seq(S), s # <<>>
    PROVE  Head(s) \in S /\ Head(s) \in Items(s) /\ Head(s) = s[1]
<1>1. Len(s) \in Nat /\ Len(s) # 0
  OBVIOUS
<1>2. 1 \in 1..Len(s) /\ Head(s) = s[1]
  BY <1>1
<1> QED BY <1>2 DEF Items

\* The items of two lists in a row, and when none of them is there twice.
LEMMA ConcatItems ==
    ASSUME NEW S, NEW s \in Seq(S), NEW t \in Seq(S)
    PROVE  /\ Items(s \o t) = Items(s) \union Items(t)
           /\ NoRepeat(s \o t) <=> /\ NoRepeat(s)
                                    /\ NoRepeat(t)
                                    /\ Items(s) \intersect Items(t) = {}
<1> DEFINE c == s \o t
<1>1. /\ Len(c) = Len(s) + Len(t)
      /\ \A i \in 1..(Len(s) + Len(t)) :
            c[i] = IF i <= Len(s) THEN s[i] ELSE t[i - Len(s)]
  BY ConcatProperties
<1>2. Len(s) \in Nat /\ Len(t) \in Nat
  OBVIOUS
<1> HIDE DEF c
<1>3. \A i \in 1..Len(s) : i \in 1..Len(c) /\ c[i] = s[i]
  BY <1>1, <1>2
<1>4. \A j \in 1..Len(t) :
        Len(s) + j \in 1..Len(c) /\ c[Len(s) + j] = t[j]
  <2> SUFFICES ASSUME NEW j \in 1..Len(t)
               PROVE  Len(s) + j \in 1..Len(c) /\ c[Len(s) + j] = t[j]
    OBVIOUS
  <2>1. /\ Len(s) + j \in 1..(Len(s) + Len(t))
        /\ ~(Len(s) + j <= Len(s))
        /\ (Len(s) + j) - Len(s) = j
    BY <1>2
  <2> QED BY <1>1, <2>1
<1>5. ASSUME NEW k \in 1..Len(c)
      PROVE  \/ k \in 1..Len(s) /\ c[k] = s[k]
             \/ k - Len(s) \in 1..Len(t) /\ c[k] = t[k - Len(s)]
  <2>1. CASE k <= Len(s)
    BY <1>1, <1>2, <2>1
  <2>2. CASE ~(k <= Len(s))
    BY <1>1, <1>2, <2>2
  <2> QED BY <2>1, <2>2
<1>6. Items(c) = Items(s) \union Items(t)
  <2>1. ASSUME NEW x \in Items(c) PROVE x \in Items(s) \union Items(t)
    BY <1>5 DEF Items
  <2>2. ASSUME NEW x \in Items(s) PROVE x \in Items(c)
    BY <1>3 DEF Items
  <2>3. ASSUME NEW x \in Items(t) PROVE x \in Items(c)
    BY <1>4 DEF Items
  <2> QED BY <2>1, <2>2, <2>3
<1>7. ASSUME NoRepeat(c)
      PROVE  NoRepeat(s) /\ NoRepeat(t) /\ Items(s) \intersect Items(t) = {}
  <2>1. NoRepeat(s)
    BY <1>3, <1>7 DEF NoRepeat
  <2>2. NoRepeat(t)
    <3> SUFFICES ASSUME NEW i \in 1..Len(t), NEW j \in 1..Len(t), t[i] = t[j]
                 PROVE  i = j
      BY DEF NoRepeat
    <3>1. Len(s) + i = Len(s) + j
      <4>1. /\ Len(s) + i \in 1..Len(c) /\ c[Len(s) + i] = t[i]
            /\ Len(s) + j \in 1..Len(c) /\ c[Len(s) + j] = t[j]
        BY ONLY <1>4
      <4>2. \A k, l \in 1..Len(c) : c[k] = c[l] => k = l
        BY ONLY <1>7 DEF NoRepeat
      <4> HIDE DEF c
      <4> QED BY <4>1, <4>2, Zenon
    <3> QED BY <1>2, <3>1
  <2>3. ASSUME NEW x \in Items(s), x \in Items(t) PROVE FALSE
    <3>1. PICK i \in 1..Len(s) : x = s[i]
      BY DEF Items
    <3>2. PICK j \in 1..Len(t) : x = t[j]
      BY <2>3 DEF Items
    <3>3. i = Len(s) + j
      <4>1. i \in 1..Len(c) /\ c[i] = s[i]
        BY ONLY <1>3
      <4>2. Len(s) + j \in 1..Len(c) /\ c[Len(s) + j] = t[j]
        BY ONLY <1>4
      <4>3. \A k, l \in 1..Len(c) : c[k] = c[l] => k = l
        BY ONLY <1>7 DEF NoRepeat
      <4> HIDE DEF c
      <4> QED BY ONLY <3>1, <3>2, <4>1, <4>2, <4>3, Zenon
    <3> QED BY <1>2, <3>3
  <2> QED BY <2>1, <2>2, <2>3
<1>8. ASSUME NoRepeat(s), NoRepeat(t), Items(s) \intersect Items(t) = {}
      PROVE  NoRepeat(c)
  <2> SUFFICES ASSUME NEW i \in 1..Len(c), NEW j \in 1..Len(c), c[i] = c[j]
               PROVE  i = j
    BY DEF NoRepeat
  <2>1. \A m \in 1..Len(s), n \in 1..Len(t) : s[m] # t[n]
    BY <1>8 DEF Items
  <2>2. CASE i \in 1..Len(s) /\ c[i] = s[i]
    <3>1. CASE j \in 1..Len(s) /\ c[j] = s[j]
      BY <1>8, <2>2, <3>1 DEF NoRepeat
    <3>2. CASE j - Len(s) \in 1..Len(t) /\ c[j] = t[j - Len(s)]
      BY <2>1, <2>2, <3>2
    <3> QED BY <1>5, <3>1, <3>2
  <2>3. CASE i - Len(s) \in 1..Len(t) /\ c[i] = t[i - Len(s)]
    <3>1. CASE j \in 1..Len(s) /\ c[j] = s[j]
      BY <2>1, <2>3, <3>1
    <3>2. CASE j - Len(s) \in 1..Len(t) /\ c[j] = t[j - Len(s)]
      <4>1. i - Len(s) = j - Len(s)
        BY <1>8, <2>3, <3>2 DEF NoRepeat
      <4> QED BY <1>2, <4>1
    <3> QED BY <1>5, <3>1, <3>2
  <2> QED BY <1>5, <2>2, <2>3
<1> QED BY <1>6, <1>7, <1>8 DEF c

\* A list cut in two.
LEMMA SplitSeq ==
    ASSUME NEW S, NEW s \in Seq(S), NEW k \in 0..Len(s)
    PROVE  /\ SubSeq(s, 1, k) \in Seq(S)
           /\ SubSeq(s, k + 1, Len(s)) \in Seq(S)
           /\ Len(SubSeq(s, 1, k)) = k
           /\ Len(SubSeq(s, k + 1, Len(s))) = Len(s) - k
           /\ s = SubSeq(s, 1, k) \o SubSeq(s, k + 1, Len(s))
<1>1. Len(s) \in Nat /\ k \in Nat /\ k <= Len(s)
  OBVIOUS
<1>2. \A i \in 1..k : s[i] \in S
  BY <1>1
<1>3. \A i \in (k + 1)..Len(s) : s[i] \in S
  BY <1>1
<1>4. SubSeq(s, 1, k) \in Seq(S) /\ Len(SubSeq(s, 1, k)) = k
  <2>1. /\ SubSeq(s, 1, k) \in Seq(S)
        /\ Len(SubSeq(s, 1, k)) = IF 1 <= k THEN k - 1 + 1 ELSE 0
    BY <1>1, <1>2, SubSeqProperties
  <2> QED BY <1>1, <2>1
<1>5. /\ SubSeq(s, k + 1, Len(s)) \in Seq(S)
      /\ Len(SubSeq(s, k + 1, Len(s))) = Len(s) - k
  <2>1. /\ SubSeq(s, k + 1, Len(s)) \in Seq(S)
        /\ Len(SubSeq(s, k + 1, Len(s)))
              = IF k + 1 <= Len(s) THEN Len(s) - (k + 1) + 1 ELSE 0
    BY <1>1, <1>3, SubSeqProperties
  <2> QED BY <1>1, <2>1
<1>6. SubSeq(s, 1, k) \o SubSeq(s, k + 1, Len(s)) = SubSeq(s, 1, Len(s))
  <2>1. /\ 1 \in 1..(Len(s) + 1)
        /\ k \in (1 - 1)..Len(s)
        /\ Len(s) \in k..Len(s)
    BY <1>1
  <2> QED BY <2>1, ConcatAdjacentSubSeq
<1>7. SubSeq(s, 1, Len(s)) = s
  BY SubSeqFull
<1> QED BY <1>4, <1>5, <1>6, <1>7

\* What is taken from the front of a list and what stays.
LEMMA SplitItems ==
    ASSUME NEW S, NEW s \in Seq(S), NEW k \in 0..Len(s)
    PROVE  /\ Items(s) = Items(SubSeq(s, 1, k))
                            \union Items(SubSeq(s, k + 1, Len(s)))
           /\ NoRepeat(s) =>
                 /\ NoRepeat(SubSeq(s, 1, k))
                 /\ NoRepeat(SubSeq(s, k + 1, Len(s)))
                 /\ Items(SubSeq(s, 1, k))
                       \intersect Items(SubSeq(s, k + 1, Len(s))) = {}
<1> DEFINE p == SubSeq(s, 1, k)
           q == SubSeq(s, k + 1, Len(s))
<1>1. p \in Seq(S) /\ q \in Seq(S) /\ s = p \o q
  BY SplitSeq
<1> HIDE DEF p, q
<1>2. /\ Items(p \o q) = Items(p) \union Items(q)
      /\ NoRepeat(p \o q) <=> /\ NoRepeat(p)
                               /\ NoRepeat(q)
                               /\ Items(p) \intersect Items(q) = {}
  BY <1>1, ConcatItems
<1>3. /\ Items(s) = Items(p) \union Items(q)
      /\ NoRepeat(s) => /\ NoRepeat(p)
                        /\ NoRepeat(q)
                        /\ Items(p) \intersect Items(q) = {}
  BY <1>1, <1>2
<1> QED BY <1>3 DEF p, q

\* The first item and the rest.
LEMMA HeadTailItems ==
    ASSUME NEW S, NEW s \in Seq(S), s # <<>>
    PROVE  /\ Tail(s) \in Seq(S)
           /\ Len(Tail(s)) = Len(s) - 1
           /\ Items(s) = {Head(s)} \union Items(Tail(s))
           /\ NoRepeat(s) => NoRepeat(Tail(s)) /\ Head(s) \notin Items(Tail(s))
<1>1. Len(s) \in Nat \ {0} /\ Head(s) = s[1]
  OBVIOUS
<1>2. /\ Tail(s) \in Seq(S)
      /\ Len(Tail(s)) = Len(s) - 1
      /\ \A i \in 1..Len(Tail(s)) : Tail(s)[i] = s[i + 1]
  BY HeadTailProperties
<1> DEFINE t == Tail(s)
<1>3. t \in Seq(S) /\ Len(t) = Len(s) - 1 /\ \A i \in 1..Len(t) : t[i] = s[i + 1]
  BY <1>2
<1> HIDE DEF t
<1>4. ASSUME NEW x \in Items(s) PROVE x = s[1] \/ x \in Items(t)
  <2>1. PICK i \in 1..Len(s) : x = s[i]
    BY DEF Items
  <2>2. CASE i = 1
    BY <2>1, <2>2
  <2>3. CASE i # 1
    <3>1. i - 1 \in 1..Len(t) /\ (i - 1) + 1 = i
      BY <1>1, <1>3, <2>3
    <3>2. t[i - 1] = s[i]
      BY <1>3, <3>1
    <3> QED BY <2>1, <3>1, <3>2 DEF Items
  <2> QED BY <2>2, <2>3
<1>5. ASSUME NEW i \in 1..Len(t) PROVE i + 1 \in 1..Len(s) /\ i + 1 # 1
  BY <1>1, <1>3
<1>6. ASSUME NEW x \in Items(t) PROVE x \in Items(s)
  BY <1>3, <1>5 DEF Items
<1>7. s[1] \in Items(s)
  BY <1>1 DEF Items
<1>8. Items(s) = {s[1]} \union Items(t)
  BY <1>4, <1>6, <1>7
<1>9. ASSUME NoRepeat(s) PROVE NoRepeat(t) /\ s[1] \notin Items(t)
  <2>1. NoRepeat(t)
    <3> SUFFICES ASSUME NEW i \in 1..Len(t), NEW j \in 1..Len(t), t[i] = t[j]
                 PROVE  i = j
      BY DEF NoRepeat
    <3>1. i + 1 = j + 1
      BY <1>3, <1>5, <1>9 DEF NoRepeat
    <3> QED BY <3>1
  <2>2. ASSUME s[1] \in Items(t) PROVE FALSE
    <3>1. PICK i \in 1..Len(t) : s[1] = t[i]
      BY <2>2 DEF Items
    <3>2. 1 = i + 1
      BY <1>1, <1>3, <1>5, <1>9, <3>1 DEF NoRepeat
    <3> QED BY <1>5, <3>2
  <2> QED BY <2>1, <2>2
<1> QED BY <1>1, <1>2, <1>8, <1>9 DEF t

\* A list is its first item and the rest.
LEMMA HeadTailConcat ==
    ASSUME NEW S, NEW s \in Seq(S), s # <<>>
    PROVE  s = <<Head(s)>> \o Tail(s)
<1> DEFINE h == <<Head(s)>>
           t == Tail(s)
<1>0. t \in Seq(S) /\ Head(s) \in S
  BY HeadTailProperties
<1>1. Len(s) \in Nat /\ Len(s) >= 1 /\ Head(s) = s[1]
  OBVIOUS
<1>2. /\ Len(t) = Len(s) - 1
      /\ \A i \in 1..Len(t) : t[i] = s[i + 1]
  BY HeadTailProperties
<1>3. h \in Seq(S) /\ Len(h) = 1 /\ h[1] = s[1]
  BY <1>0, <1>1
<1> HIDE DEF h, t
<1>4. /\ h \o t \in Seq(S)
      /\ Len(h \o t) = 1 + Len(t)
      /\ \A i \in 1..(1 + Len(t)) :
            (h \o t)[i] = IF i <= 1 THEN h[i] ELSE t[i - 1]
  <2>1. /\ h \o t \in Seq(S)
        /\ Len(h \o t) = Len(h) + Len(t)
        /\ \A i \in 1..(Len(h) + Len(t)) :
              (h \o t)[i] = IF i <= Len(h) THEN h[i] ELSE t[i - Len(h)]
    BY <1>0, <1>3, ConcatProperties
  <2> QED BY <1>3, <2>1
<1>5. Len(h \o t) = Len(s)
  BY <1>1, <1>2, <1>4
<1>6. ASSUME NEW i \in 1..Len(s) PROVE s[i] = (h \o t)[i]
  <2>1. CASE i = 1
    BY <1>1, <1>2, <1>3, <1>4, <2>1
  <2>2. CASE i # 1
    <3>1. i - 1 \in 1..Len(t) /\ (i - 1) + 1 = i /\ i \in 1..(1 + Len(t)) /\ ~(i <= 1)
      BY <1>1, <1>2, <2>2
    <3>2. t[i - 1] = s[i]
      BY <1>2, <3>1
    <3> QED BY <1>4, <3>1, <3>2
  <2> QED BY <2>1, <2>2
<1> QED BY <1>4, <1>5, <1>6, SeqEqual

\* Removing a linked item makes the list one shorter.
LEMMA DeleteLen ==
    ASSUME NEW S, NEW s \in Seq(S), NEW x \in Items(s)
    PROVE  Len(Delete(s, x)) = Len(s) - 1
<1> DEFINE p == PositionOf(s, x)
           d == [i \in 1..(Len(s) - 1) |-> IF i < p THEN s[i] ELSE s[i + 1]]
<1>1. Len(s) - 1 \in Nat
  BY DEF Items
<1>2. Delete(s, x) = d
  BY DEF Delete
<1> HIDE DEF p
<1>3. Len(d) = Len(s) - 1
  BY <1>1
<1> QED BY <1>2, <1>3

\* Taking back the item that was appended last.
LEMMA AppendThenDrop ==
    ASSUME NEW S, NEW s \in Seq(S), NEW x \in S
    PROVE  SubSeq(Append(s, x), 1, Len(Append(s, x)) - 1) = s
<1> DEFINE a == Append(s, x)
           d == SubSeq(a, 1, Len(s))
<1>1. /\ a \in Seq(S) /\ Len(a) = Len(s) + 1 /\ Len(s) \in Nat
      /\ \A i \in 1..Len(s) : a[i] = s[i]
  BY AppendProperties
<1> HIDE DEF a
<1>2. Len(s) \in 0..Len(a) /\ Len(a) - 1 = Len(s)
  BY <1>1
<1>3. d \in Seq(S) /\ Len(d) = Len(s)
  BY <1>1, <1>2, SplitSeq
<1>4. \A i \in 1..Len(s) : d[i] = a[i]
  <2>1. \A i \in 1..Len(s) : a[i] \in S
    BY <1>1
  <2>2. \A i \in 1..(Len(s) - 1 + 1) : d[i] = a[1 + i - 1]
    BY <1>1, <2>1, SubSeqProperties
  <2> QED BY <1>1, <2>2
<1>5. d = s
  BY <1>1, <1>3, <1>4, SeqEqual
<1> QED BY <1>2, <1>5 DEF a

\* Whole items within n bytes when all of them have m bytes.
LEMMA WholeItems ==
    ASSUME NEW m \in Nat \ {0}, NEW n \in Nat, NEW l \in Nat, n <= m * l
    PROVE  n \div m \in 0..l /\ (n % m) \in Nat
<1> DEFINE q == n \div m
<1>1. q \in Nat /\ m * q <= n /\ (n % m) \in 0..(m - 1)
  BY SMT
<1> HIDE DEF q
<1>2. ASSUME q >= l + 1 PROVE FALSE
  <2>1. m * q >= m * (l + 1)
    BY <1>1, <1>2, SMT
  <2>2. m * (l + 1) = m * l + m
    BY SMT
  <2>3. m * l \in Nat /\ m * q \in Nat
    BY <1>1, SMT
  <2> QED BY <1>1, <2>1, <2>2, <2>3, SMT
<1>3. q \in 0..l
  BY <1>1, <1>2
<1> QED BY <1>1, <1>3 DEF q

\* A list of length 0 is empty.
LEMMA LenZero ==
    ASSUME NEW S, NEW s \in Seq(S), Len(s) = 0
    PROVE  s = <<>>
BY EmptySeq

\* A list of one item.
LEMMA OneItem ==
    ASSUME NEW S, NEW x \in S
    PROVE  <<x>> \in Seq(S) /\ Items(<<x>>) = {x} /\ NoRepeat(<<x>>)
<1>1. <<x>> \in Seq(S) /\ Len(<<x>>) = 1 /\ <<x>>[1] = x
  OBVIOUS
<1>2. Items(<<x>>) = {x}
  BY <1>1 DEF Items
<1>3. NoRepeat(<<x>>)
  BY <1>1 DEF NoRepeat
<1> QED BY <1>1, <1>2, <1>3

\* Appending is putting one item behind.
LEMMA AppendMore ==
    ASSUME NEW S, NEW s \in Seq(S), NEW x \in S
    PROVE  /\ Append(s, x) \in Seq(S)
           /\ Items(Append(s, x)) = Items(s) \union {x}
           /\ NoRepeat(Append(s, x)) <=> NoRepeat(s) /\ x \notin Items(s)
<1>1. Append(s, x) = s \o <<x>>
  BY AppendIsConcat
<1>2. <<x>> \in Seq(S) /\ Items(<<x>>) = {x} /\ NoRepeat(<<x>>)
  BY OneItem
<1> DEFINE o == <<x>>
<1>3. /\ Items(s \o o) = Items(s) \union Items(o)
      /\ NoRepeat(s \o o) <=> /\ NoRepeat(s) /\ NoRepeat(o)
                               /\ Items(s) \intersect Items(o) = {}
  BY <1>2, ConcatItems
<1>4. Append(s, x) \in Seq(S)
  OBVIOUS
<1> QED BY <1>1, <1>2, <1>3, <1>4

\* The empty list has no items.
LEMMA EmptyItems == Items(<<>>) = {} /\ NoRepeat(<<>>)
BY DEF Items, NoRepeat

-----------------------------------------------------------------------------
(* Counting items.                                                         *)

\* Two sets of which each member of one stands for one of the other.
LEMMA SameCount ==
    ASSUME NEW I, NEW T, IsFiniteSet(I), NEW f \in [I -> T],
           \A i, j \in I : f[i] = f[j] => i = j,
           \A t \in T : \E i \in I : f[i] = t
    PROVE  IsFiniteSet(T) /\ Cardinality(T) = Cardinality(I)
<1>1. f \in Injection(I, T)
  BY DEF Injection, IsInjective
<1>2. f \in Surjection(I, T)
  BY DEF Surjection
<1>3. ExistsBijection(I, T)
  BY <1>1, <1>2 DEF ExistsBijection, Bijection
<1> QED BY <1>3, FS_Bijection

\* A list without repeats has as many items as its length says.
LEMMA ItemsCount ==
    ASSUME NEW S, NEW s \in Seq(S), NoRepeat(s)
    PROVE  IsFiniteSet(Items(s)) /\ Cardinality(Items(s)) = Len(s)
<1> DEFINE I == 1..Len(s)
           f == [i \in I |-> s[i]]
<1>1. Len(s) \in Nat
  OBVIOUS
<1>2. IsFiniteSet(I) /\ Cardinality(I) = Len(s)
  <2> DEFINE n == Len(s)
  <2>1. 1 \in Int /\ n \in Int
    BY ONLY <1>1
  <2>2. \A a, b \in Int :
           /\ IsFiniteSet(a..b)
           /\ Cardinality(a..b) = IF a > b THEN 0 ELSE b - a + 1
    BY ONLY FS_Interval
  <2>3. IsFiniteSet(1..n) /\ Cardinality(1..n) = IF 1 > n THEN 0 ELSE n - 1 + 1
    BY ONLY <2>1, <2>2
  <2>4. (IF 1 > n THEN 0 ELSE n - 1 + 1) = n
    BY ONLY <1>1
  <2> QED BY ONLY <2>3, <2>4 DEF I
<1>3. /\ f \in [I -> Items(s)]
      /\ \A i, j \in I : f[i] = f[j] => i = j
      /\ \A t \in Items(s) : \E i \in I : f[i] = t
  BY DEF Items, NoRepeat
<1> HIDE DEF I, f
<1> QED BY <1>2, <1>3, SameCount

-----------------------------------------------------------------------------
(* The search for a free slot.                                             *)

\* A set of naturals has a least element.
LEMMA LeastNatural ==
    ASSUME NEW T, T \subseteq Nat, T # {}
    PROVE  \E i \in T : \A j \in T : i <= j
<1>1. IsWellFoundedOn(OpToRel(<, Nat), Nat)
  BY NatLessThanWellFounded
<1>2. PICK x \in T : \A y \in T : ~(<<y, x>> \in OpToRel(<, Nat))
  BY <1>1, WFMin
<1>3. \A y \in T : <<y, x>> \in OpToRel(<, Nat) <=> y < x
  BY DEF OpToRel
<1>4. \A y \in T : ~(y < x)
  BY <1>2, <1>3, Zenon
<1>5. \A y \in T : x <= y
  BY <1>4
<1> QED BY <1>5

-----------------------------------------------------------------------------
(* FlattenSeq.  Its recursive function is the only solution of the         *)
(* equation that defines it: whatever solves the equation is the result.   *)

Join(a, b) == a \o b

\* g[i] is the join of the first i parts.
Joined(n, ss, g) ==
    g = [i \in 1..n |-> IF i = 1 THEN ss[i] ELSE Join(g[i-1], ss[i])]

\* The equation of Joined has a solution.
LEMMA JoinedExists ==
    ASSUME NEW Q, \A a, b \in Q : Join(a, b) \in Q, NEW N \in Nat, NEW ss \in [1..N -> Q]
    PROVE  \E g \in [1..N -> Q] : Joined(N, ss, g)
<1> DEFINE P(n) == \E g \in [1..n -> Q] : Joined(n, ss, g)
           T == {n \in 0..N : ~P(n)}
<1>1. P(0)
  <2> DEFINE g == [i \in 1..0 |-> IF i = 1 THEN ss[i] ELSE ss[i]]
  <2>1. g \in [1..0 -> Q] /\ Joined(0, ss, g)
    BY DEF Joined
  <2> QED BY <2>1
<1>2. ASSUME NEW n \in 1..N, P(n - 1)
      PROVE  P(n)
  <2>1. PICK g \in [1..(n-1) -> Q] : Joined(n - 1, ss, g)
    BY <1>2
  <2> DEFINE last == IF n = 1 THEN ss[n] ELSE Join(g[n-1], ss[n])
  <2>2. last \in Q
    BY <2>1
  <2> HIDE DEF last
  <2> DEFINE h == [i \in 1..n |-> IF i < n THEN g[i] ELSE last]
  <2>3. h \in [1..n -> Q]
    BY <2>2
  <2>4. ASSUME NEW i \in 1..n
        PROVE  h[i] = IF i = 1 THEN ss[i] ELSE Join(h[i-1], ss[i])
    <3>1. CASE i = n
      <4>1. h[n] = last /\ (n # 1 => h[n-1] = g[n-1])
        OBVIOUS
      <4> HIDE DEF h
      <4> QED BY <3>1, <4>1 DEF last
    <3>2. CASE i < n
      <4>1. h[i] = g[i] /\ (i # 1 => h[i-1] = g[i-1])
        BY <3>2
      <4>2. g[i] = IF i = 1 THEN ss[i] ELSE Join(g[i-1], ss[i])
        BY <2>1, <3>2 DEF Joined
      <4> HIDE DEF h
      <4> QED BY <4>1, <4>2
    <3> QED BY <3>1, <3>2
  <2>5. Joined(n, ss, h)
    BY <2>4 DEF Joined
  <2> QED BY <2>3, <2>5
<1> HIDE DEF P
<1>3. T = {}
  <2> SUFFICES ASSUME T # {} PROVE FALSE
    OBVIOUS
  <2>1. T \subseteq Nat
    OBVIOUS
  <2>2. PICK n \in T : \A m \in T : n <= m
    BY <2>1, LeastNatural
  <2>3. n # 0
    BY <1>1, <2>2
  <2>4. n - 1 \in 0..N /\ n \in 1..N /\ n - 1 \notin T
    BY <2>2, <2>3
  <2> QED BY <1>2, <2>2, <2>4
<1> QED BY <1>3 DEF P

\* It has no other.
LEMMA JoinedUnique ==
    ASSUME NEW N \in Nat, NEW ss, NEW f, Joined(N, ss, f), NEW g, Joined(N, ss, g)
    PROVE  g = f
<1> DEFINE T == {i \in 1..N : g[i] # f[i]}
<1>1. T = {}
  <2> SUFFICES ASSUME T # {} PROVE FALSE
    OBVIOUS
  <2>0. T \subseteq Nat
    OBVIOUS
  <2>1. PICK i \in T : \A j \in T : i <= j
    BY <2>0, LeastNatural
  <2>2. /\ f[i] = IF i = 1 THEN ss[i] ELSE Join(f[i-1], ss[i])
        /\ g[i] = IF i = 1 THEN ss[i] ELSE Join(g[i-1], ss[i])
    BY DEF Joined
  <2>3. i # 1
    BY <2>1, <2>2
  <2>4. i - 1 \in 1..N /\ i - 1 \notin T
    BY <2>1, <2>3
  <2> QED BY <2>1, <2>2, <2>3, <2>4
<1>2. /\ f = [i \in 1..N |-> f[i]]
      /\ g = [i \in 1..N |-> g[i]]
  BY DEF Joined
<1> QED BY <1>1, <1>2

\* So FlattenSeq is the last place of any solution.
LEMMA FlattenIs ==
    ASSUME NEW ss, NEW n \in Nat \ {0}, Len(ss) = n, NEW f, Joined(n, ss, f)
    PROVE  FlattenSeq(ss) = f[n]
<1>1. f = CHOOSE g : Joined(n, ss, g)
  BY JoinedUnique
<1>2. f = CHOOSE g : g = [i \in 1..Len(ss) |-> IF i = 1 THEN ss[i] ELSE g[i-1] \o ss[i]]
  BY <1>1, Zenon DEF Joined, Join
<1> QED BY <1>2 DEF FlattenSeq

\* Nothing is joined to nothing.
LEMMA FlattenEmpty == FlattenSeq(<<>>) = <<>>
BY DEF FlattenSeq

\* The parts joined one by one.
LEMMA FlattenSteps ==
    ASSUME NEW S, NEW ss \in Seq(Seq(S)), NEW n, n = Len(ss)
    PROVE  /\ n \in Nat
           /\ n = 0 => FlattenSeq(ss) = <<>>
           /\ \A i \in 1..n : ss[i] \in Seq(S)
           /\ \E g \in [1..n -> Seq(S)] :
                 /\ Joined(n, ss, g)
                 /\ n # 0 => FlattenSeq(ss) = g[n]
<1>1. n \in Nat /\ ss \in [1..n -> Seq(S)]
  BY LenProperties
<1>2. \A a, b \in Seq(S) : Join(a, b) \in Seq(S)
  BY ConcatProperties DEF Join
<1> DEFINE Q == Seq(S)
<1> HIDE DEF Q
<1>3. PICK g \in [1..n -> Q] : Joined(n, ss, g)
  BY <1>1, <1>2, JoinedExists DEF Q
<1>4. n # 0 => FlattenSeq(ss) = g[n]
  BY <1>1, <1>3, FlattenIs
<1>5. n = 0 => FlattenSeq(ss) = <<>>
  BY EmptySeq, FlattenEmpty
<1> QED BY <1>1, <1>3, <1>4, <1>5 DEF Q

\* What is joined is a sequence of what the parts are made of.
LEMMA FlattenType ==
    ASSUME NEW S, NEW ss \in Seq(Seq(S))
    PROVE  FlattenSeq(ss) \in Seq(S)
<1> DEFINE n == Len(ss)
           Q == Seq(S)
<1>1. /\ n \in Nat
      /\ n = 0 => FlattenSeq(ss) = <<>>
  BY FlattenSteps
<1>2. PICK g \in [1..n -> Q] : n # 0 => FlattenSeq(ss) = g[n]
  BY FlattenSteps
<1>3. <<>> \in Q
  OBVIOUS
<1> HIDE DEF n, Q
<1> QED BY <1>1, <1>2, <1>3 DEF Q

\* A part more at the end is joined at the end.
LEMMA FlattenAppend ==
    ASSUME NEW S, NEW ss \in Seq(Seq(S)), NEW p \in Seq(S)
    PROVE  FlattenSeq(Append(ss, p)) = FlattenSeq(ss) \o p
<1> DEFINE tt == Append(ss, p)
           n == Len(ss)
           m == n + 1
           w == FlattenSeq(ss)
<1>1. /\ Len(tt) = m
      /\ tt[m] = p /\ \A i \in 1..n : tt[i] = ss[i]
  BY AppendProperties, LenProperties
<1>2. /\ n \in Nat
      /\ n = 0 => w = <<>>
      /\ \A i \in 1..n : ss[i] \in Seq(S)
  BY FlattenSteps
<1>3. PICK g \in [1..n -> Seq(S)] :
         /\ Joined(n, ss, g)
         /\ n # 0 => w = g[n]
  BY FlattenSteps
<1>4. n = 0 => Join(w, p) = p
  BY <1>2, ConcatEmptySeq DEF Join
<1> DEFINE j == Join(w, p)
           f == [i \in 1..m |-> IF i <= n THEN g[i] ELSE j]
<1> HIDE DEF tt, n, j, w
<1>5. ASSUME NEW i \in 1..m
      PROVE  f[i] = IF i = 1 THEN tt[i] ELSE Join(f[i-1], tt[i])
  <2>1. CASE i <= n
    <3>1. g[i] = IF i = 1 THEN ss[i] ELSE Join(g[i-1], ss[i])
      BY <1>2, <1>3, <2>1 DEF Joined
    <3>2. f[i] = g[i] /\ tt[i] = ss[i] /\ (i # 1 => f[i-1] = g[i-1])
      BY <1>1, <1>2, <2>1
    <3> HIDE DEF f
    <3> QED BY <3>1, <3>2
  <2>2. CASE i = m
    <3>1. f[m] = j /\ (n # 0 => f[m-1] = g[n])
      BY <1>2
    <3>2. m \in Nat /\ (m = 1 <=> n = 0)
      BY <1>2
    <3> HIDE DEF f, m
    <3> QED BY <1>1, <1>3, <1>4, <2>2, <3>1, <3>2 DEF j
  <2> QED BY <1>2, <2>1, <2>2
<1>6. Joined(m, tt, f)
  BY <1>5 DEF Joined
<1>7. m \in Nat \ {0} /\ f[m] = j
  BY <1>2
<1> HIDE DEF f, m
<1>8. FlattenSeq(tt) = f[m]
  BY <1>1, <1>6, <1>7, FlattenIs
<1> QED BY <1>7, <1>8 DEF tt, j, Join, w

\* A part more at the front is joined at the front.
LEMMA FlattenPrepend ==
    ASSUME NEW S, NEW ss \in Seq(Seq(S)), NEW p \in Seq(S)
    PROVE  FlattenSeq(<<p>> \o ss) = p \o FlattenSeq(ss)
<1> DEFINE tt == <<p>> \o ss
           n == Len(ss)
           m == n + 1
           w == FlattenSeq(ss)
<1>1. /\ n \in Nat
      /\ n = 0 => w = <<>>
      /\ \A i \in 1..n : ss[i] \in Seq(S)
  BY FlattenSteps
<1>2. /\ Len(tt) = m
      /\ tt[1] = p /\ \A i \in 2..m : tt[i] = ss[i-1]
  BY <1>1
<1>3. PICK g \in [1..n -> Seq(S)] :
         /\ Joined(n, ss, g)
         /\ n # 0 => w = g[n]
  BY FlattenSteps
<1>4. n = 0 => Join(p, w) = p
  BY <1>1, ConcatEmptySeq DEF Join
<1>5. \A a, b \in Seq(S) : Join(p, Join(a, b)) = Join(Join(p, a), b)
  BY ConcatAssociative DEF Join
<1> DEFINE f == [i \in 1..m |-> IF i = 1 THEN p ELSE Join(p, g[i-1])]
           Q == Seq(S)
<1> HIDE DEF tt, n, w, Q
<1>6. ASSUME NEW i \in 1..m
      PROVE  f[i] = IF i = 1 THEN tt[i] ELSE Join(f[i-1], tt[i])
  <2>1. CASE i = 1
    BY <1>1, <1>2, <2>1
  <2>2. CASE i = 2
    <3>1. g[1] = ss[1]
      BY <1>1, <1>3, <2>2 DEF Joined
    <3>2. f[2] = Join(p, g[1]) /\ f[1] = p /\ tt[2] = ss[1]
      BY <1>1, <1>2, <2>2
    <3> HIDE DEF f
    <3> QED BY <2>2, <3>1, <3>2
  <2>3. CASE i > 2
    <3>1. /\ i - 1 \in 1..n /\ i - 2 \in 1..n /\ i - 1 # 1 /\ (i - 1) - 1 = i - 2
          /\ i \in 2..m /\ i - 1 \in 1..m /\ i # 1
      BY <1>1, <2>3
    <3>2. g[i-1] = Join(g[i-2], ss[i-1])
      BY <1>3, <3>1 DEF Joined
    <3>3. g[i-2] \in Q /\ ss[i-1] \in Q
      BY <1>1, <1>3, <3>1 DEF Q
    <3>4. f[i] = Join(p, g[i-1]) /\ f[i-1] = Join(p, g[i-2]) /\ tt[i] = ss[i-1]
      BY <1>2, <3>1
    <3> HIDE DEF f
    <3>5. Join(p, Join(g[i-2], ss[i-1])) = Join(Join(p, g[i-2]), ss[i-1])
      BY <1>5, <3>3 DEF Q
    <3> QED BY <3>1, <3>2, <3>4, <3>5
  <2> QED BY <1>1, <2>1, <2>2, <2>3
<1>7. Joined(m, tt, f)
  BY <1>6 DEF Joined
<1>8. m \in Nat \ {0} /\ m - 1 = n /\ (n = 0 => f[m] = p) /\ (n # 0 => f[m] = Join(p, g[n]))
  BY <1>1
<1> HIDE DEF f, m
<1>9. FlattenSeq(tt) = f[m]
  BY <1>2, <1>7, <1>8, FlattenIs
<1>10. FlattenSeq(tt) = Join(p, w)
  BY <1>3, <1>4, <1>8, <1>9
<1> QED BY <1>10 DEF tt, Join, w

=============================================================================
