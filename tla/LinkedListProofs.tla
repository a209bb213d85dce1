-------------------------- MODULE LinkedListProofs --------------------------
(***************************************************************************)
(* What the macros of include/linkedlist.h do to the pointers, whatever    *)
(* the number of items and lists.  The rings are never torn (RingInv is    *)
(* inductive), and walked from their heads they are the lists of module    *)
(* Lists: LinkInv says of which sequence each ring is the image, and every *)
(* macro is shown to change the pointers as Lists changes the sequence.    *)
(***************************************************************************)
EXTENDS LinkedList, RingTheorems

USE NullAssumption DEF Pointer

\* An item that is not linked has two NULL pointers.
LEMMA UnlinkedIsNull ==
    ASSUME RingInv, NEW i \in Item, Unlinked(i)
    PROVE  prev[i] = NULL /\ next[i] = NULL
BY DEF RingInv, RingsClosed, Unlinked

\* Linking an item into an empty list.
LEMMA LinkAloneRing ==
    ASSUME RingInv, NEW l \in List, NEW i \in Item, Unlinked(i),
           LinkAlone(l, i)
    PROVE  RingInv'
<1>1. prev[i] = NULL /\ next[i] = NULL
  BY UnlinkedIsNull
<1>2. TypeOK'
  BY DEF RingInv, TypeOK, LinkAlone
<1>3. RingsClosed'
  BY <1>1 DEF RingInv, TypeOK, RingsClosed, LinkAlone
<1> QED BY <1>2, <1>3 DEF RingInv

\* Linking an item before the first one of a list; the head stays or moves
\* to the new item.
LEMMA LinkBeforeFirstRing ==
    ASSUME RingInv, NEW l \in List, NEW i \in Item, Unlinked(i),
           LinkBeforeFirst(l, i),
           first' = first \/ first' = [first EXCEPT ![l] = i]
    PROVE  RingInv'
<1> DEFINE f == first[l]
           e == prev[f]
<1>1. prev[i] = NULL /\ next[i] = NULL
  BY UnlinkedIsNull
<1>2. f \in Item /\ e \in Item /\ f # i /\ e # i /\ next[e] = f
  BY <1>1 DEF RingInv, TypeOK, RingsClosed, LinkBeforeFirst
<1>3. /\ prev' = [prev EXCEPT ![i] = e, ![f] = i]
      /\ next' = [next EXCEPT ![i] = f, ![e] = i]
  BY DEF LinkBeforeFirst, PrevWith, NextWith
<1> HIDE DEF f, e
<1>4. TypeOK'
  BY <1>2, <1>3 DEF RingInv, TypeOK
<1>5. /\ \A j \in Item : prev'[j] = IF j = f THEN i ELSE IF j = i THEN e ELSE prev[j]
      /\ \A j \in Item : next'[j] = IF j = e THEN i ELSE IF j = i THEN f ELSE next[j]
  BY <1>2, <1>3 DEF RingInv, TypeOK
<1>6. ASSUME NEW j \in Item
      PROVE  /\ prev'[j] = NULL <=> next'[j] = NULL
             /\ next'[j] # NULL => prev'[next'[j]] = j /\ next'[prev'[j]] = j
  BY <1>1, <1>2, <1>5 DEF RingInv, TypeOK, RingsClosed, f, e
<1>7. \A k \in List : first'[k] # NULL => next'[first'[k]] # NULL
  BY <1>1, <1>2, <1>5 DEF RingInv, TypeOK, RingsClosed
<1> QED BY <1>4, <1>6, <1>7 DEF RingInv, RingsClosed

\* LINKEDLIST_REMOVE closes the ring behind the item, and no head is left
\* pointing to it.
LEMMA RemoveRing ==
    ASSUME RingInv, NEW l \in List, NEW i \in Item, LINKEDLIST_REMOVE(l, i)
    PROVE  RingInv'
<1>1. TypeOK /\ RingsClosed
  BY DEF RingInv
<1>2. CASE Unlinked(i)
  <2>1. prev[i] = NULL /\ next[i] = NULL
    BY <1>2, UnlinkedIsNull
  <2>2. UNCHANGED vars
    BY <1>1, <1>2, <2>1 DEF LINKEDLIST_REMOVE, TypeOK, vars
  <2> QED BY <1>1, <2>2 DEF vars, RingInv, TypeOK, RingsClosed
<1>3. CASE ~Unlinked(i)
  <2> DEFINE a == prev[i]
             b == next[i]
  <2>1. a \in Item /\ b \in Item /\ next[a] = i /\ prev[b] = i
    BY <1>1, <1>3 DEF TypeOK, RingsClosed, Unlinked
  <2>2. first' = [first EXCEPT ![l] = HeadWithout(l, i)]
    BY <1>3 DEF LINKEDLIST_REMOVE
  <2>3. HeadWithout(l, i) \in Pointer /\ HeadWithout(l, i) # i
    <3>1. CASE first[l] # i
      BY <1>1, <3>1 DEF HeadWithout, TypeOK
    <3>2. CASE first[l] = i /\ next[i] = i
      BY <3>2 DEF HeadWithout
    <3>3. CASE first[l] = i /\ next[i] # i
      BY <1>1, <3>3 DEF HeadWithout, TypeOK
    <3> QED BY <3>1, <3>2, <3>3
  <2>4. HeadWithout(l, i) # NULL => next[HeadWithout(l, i)] # NULL
    <3>1. CASE first[l] # i
      BY <1>1, <3>1 DEF HeadWithout, RingsClosed
    <3>2. CASE first[l] = i /\ next[i] = i
      BY <3>2 DEF HeadWithout
    <3>3. CASE first[l] = i /\ next[i] # i
      BY <1>1, <2>1, <3>3 DEF HeadWithout, RingsClosed
    <3> QED BY <3>1, <3>2, <3>3
  <2>5. /\ \A j \in Item : prev'[j] = IF j = i THEN NULL ELSE IF j = b THEN a ELSE prev[j]
        /\ \A j \in Item : next'[j] = IF j = i THEN NULL ELSE IF j = a THEN b ELSE next[j]
    <3>1. CASE first[l] = i /\ next[i] = i
      BY <1>1, <2>1, <3>1 DEF LINKEDLIST_REMOVE, TypeOK, RingsClosed
    <3>2. CASE ~(first[l] = i /\ next[i] = i)
      BY <1>1, <1>3, <2>1, <3>2
         DEF LINKEDLIST_REMOVE, PrevWithout, NextWithout, TypeOK
    <3> QED BY <3>1, <3>2
  <2>6. prev' \in [Item -> Pointer] /\ next' \in [Item -> Pointer]
    <3>1. CASE first[l] = i /\ next[i] = i
      BY <1>1, <3>1 DEF LINKEDLIST_REMOVE, TypeOK
    <3>2. CASE ~(first[l] = i /\ next[i] = i)
      BY <1>1, <1>3, <3>2 DEF LINKEDLIST_REMOVE, PrevWithout, NextWithout, TypeOK
    <3> QED BY <3>1, <3>2
  <2>7. TypeOK'
    BY <1>1, <2>2, <2>3, <2>6 DEF TypeOK
  <2>8. \A k \in List : first'[k] # i /\ (first'[k] # NULL => next[first'[k]] # NULL)
    BY <1>1, <2>2, <2>3, <2>4
       DEF LINKEDLIST_REMOVE, FirstOfNoOther, TypeOK, RingsClosed
  <2> HIDE DEF a, b
  <2>9. \A k \in List : first'[k] # NULL => next'[first'[k]] # NULL
    BY <2>1, <2>5, <2>7, <2>8 DEF TypeOK
  <2>10. ASSUME NEW j \in Item
         PROVE  /\ prev'[j] = NULL <=> next'[j] = NULL
                /\ next'[j] # NULL => prev'[next'[j]] = j /\ next'[prev'[j]] = j
    BY <1>1, <2>1, <2>5 DEF RingsClosed, TypeOK, a, b
  <2> QED BY <2>7, <2>9, <2>10 DEF RingInv, RingsClosed
<1> QED BY <1>2, <1>3

\* LINKEDLIST_SHUFFLE takes the item out of its ring and links it at the end
\* of the named list.
LEMMA ShuffleRing ==
    ASSUME RingInv, NEW l \in List, NEW i \in Item, LINKEDLIST_SHUFFLE(l, i)
    PROVE  RingInv'
<1>1. TypeOK /\ RingsClosed
  BY DEF RingInv
<1>2. CASE first[l] = i /\ next[i] = i
  <2>1. UNCHANGED vars
    BY <1>2 DEF LINKEDLIST_SHUFFLE
  <2> QED BY <1>1, <2>1 DEF vars, RingInv, TypeOK, RingsClosed
<1>3. CASE ~(first[l] = i /\ next[i] = i)
  <2> DEFINE a == prev[i]
             b == next[i]
             f == IF first[l] = i THEN next[i] ELSE first[l]
             p == PrevWithout(i)
             n == NextWithout(i)
             e == p[f]
  <2>1. a \in Item /\ b \in Item /\ next[a] = i /\ prev[b] = i
    BY <1>1 DEF LINKEDLIST_SHUFFLE, TypeOK, RingsClosed, Unlinked
  <2>2. f \in Item /\ f # i /\ next[f] # NULL /\ prev[f] \in Item
    BY <1>1, <1>3, <2>1 DEF LINKEDLIST_SHUFFLE, TypeOK, RingsClosed
  <2>3. /\ first' = [first EXCEPT ![l] = f]
        /\ prev' = [p EXCEPT ![i] = e, ![f] = i]
        /\ next' = [n EXCEPT ![i] = f, ![e] = i]
    BY <1>3 DEF LINKEDLIST_SHUFFLE, PrevWith, NextWith
  <2> HIDE DEF f
  <2>4. /\ p \in [Item -> Pointer] /\ n \in [Item -> Pointer]
        /\ \A j \in Item : p[j] = IF j = b THEN a ELSE prev[j]
        /\ \A j \in Item : n[j] = IF j = a THEN b ELSE next[j]
    BY <1>1, <2>1 DEF PrevWithout, NextWithout, TypeOK
  <2> HIDE DEF a, b, p, n
  <2>5. e = (IF f = b THEN a ELSE prev[f]) /\ e \in Item
    BY <2>1, <2>2, <2>4
  <2>6. e # i
    BY <1>1, <2>1, <2>2, <2>5 DEF RingsClosed, a, b
  <2> HIDE DEF e
  <2>7. TypeOK'
    BY <1>1, <2>2, <2>3, <2>4, <2>5 DEF TypeOK
  <2>8. /\ \A j \in Item : prev'[j] = IF j = f THEN i ELSE IF j = i THEN e ELSE p[j]
        /\ \A j \in Item : next'[j] = IF j = e THEN i ELSE IF j = i THEN f ELSE n[j]
    BY <2>2, <2>3, <2>4, <2>5
  <2>9. ASSUME NEW j \in Item
        PROVE  /\ prev'[j] = NULL <=> next'[j] = NULL
               /\ next'[j] # NULL => prev'[next'[j]] = j /\ next'[prev'[j]] = j
    BY <1>1, <2>1, <2>2, <2>4, <2>5, <2>6, <2>8 DEF RingsClosed, TypeOK, a, b
  <2>10. \A k \in List : first'[k] # NULL => next'[first'[k]] # NULL
    BY <1>1, <2>1, <2>2, <2>3, <2>4, <2>8 DEF RingsClosed, TypeOK
  <2> QED BY <2>7, <2>9, <2>10 DEF RingInv, RingsClosed
<1> QED BY <1>2, <1>3

\* Every step keeps the rings closed.
LEMMA RingStep ==
    ASSUME RingInv, [Next]_vars
    PROVE  RingInv'
<1>1. ASSUME NEW l \in List, NEW i \in Item, LINKEDLIST_APPEND(l, i)
      PROVE  RingInv'
  BY <1>1, LinkAloneRing, LinkBeforeFirstRing DEF LINKEDLIST_APPEND
<1>2. ASSUME NEW l \in List, NEW i \in Item, LINKEDLIST_PREPEND(l, i)
      PROVE  RingInv'
  BY <1>2, LinkAloneRing, LinkBeforeFirstRing DEF LINKEDLIST_PREPEND
<1>3. CASE UNCHANGED vars
  BY <1>3 DEF vars, RingInv, TypeOK, RingsClosed
<1> QED BY <1>1, <1>2, <1>3, RemoveRing, ShuffleRing DEF Next

\* The pointers of the rings are always inverse to each other and every head
\* points to a linked item, provided no caller removes the first item of one
\* list in the name of another.
THEOREM RingsCorrect == Spec => []RingsClosed
<1>1. Init => RingInv
  BY DEF Init, RingInv, TypeOK, RingsClosed
<1>2. RingInv /\ [Next]_vars => RingInv'
  BY RingStep
<1>3. RingInv => RingsClosed
  BY DEF RingInv
<1> QED BY <1>1, <1>2, <1>3, PTL DEF Spec

-----------------------------------------------------------------------------
(* The walk along a ring.                                                  *)

\* The item behind the k-th one when a list is closed to a ring.
Behind(s, k) == s[IF k = Len(s) THEN 1 ELSE k + 1]

\* The list s is what the pointers n link, from item f on.
Along(f, n, s) ==
    /\ s \in Seq(Item) /\ NoRepeat(s)
    /\ f = NULL <=> s = <<>>
    /\ s # <<>> => s[1] = f
    /\ \A k \in 1..Len(s) : n[s[k]] = Behind(s, k)

\* A quotient and a remainder are the only ones.
LEMMA Remainder ==
    ASSUME NEW c \in Nat \ {0}, NEW m \in Nat, NEW q \in Nat, NEW r \in 0..(c - 1),
           m = c * q + r
    PROVE  m % c = r
<1> DEFINE Q == m \div c
           R == m % c
<1>1. Q \in Nat /\ R \in 0..(c - 1) /\ m = c * Q + R
  BY SMT
<1> HIDE DEF Q, R
<1>2. c * Q \in Nat /\ c * q \in Nat /\ c * (Q + 1) = c * Q + c /\ c * (q + 1) = c * q + c
  BY <1>1, SMT
<1>3. ASSUME Q >= q + 1 PROVE FALSE
  <2>1. c * Q >= c * (q + 1)
    BY <1>1, <1>3, SMT
  <2> QED BY <1>1, <1>2, <2>1, SMT
<1>4. ASSUME q >= Q + 1 PROVE FALSE
  <2>1. c * q >= c * (Q + 1)
    BY <1>1, <1>4, SMT
  <2> QED BY <1>1, <1>2, <2>1, SMT
<1>5. Q = q
  BY <1>1, <1>3, <1>4, SMT
<1> QED BY <1>1, <1>2, <1>5, SMT DEF R

\* Counting on, modulo the length of a ring.
LEMMA CountOn ==
    ASSUME NEW c \in Nat \ {0}, NEW m \in Nat
    PROVE  /\ m % c \in 0..(c - 1)
           /\ (m + 1) % c = IF m % c = c - 1 THEN 0 ELSE (m % c) + 1
<1> DEFINE Q == m \div c
           R == m % c
<1>1. Q \in Nat /\ R \in 0..(c - 1) /\ m = c * Q + R
  BY SMT
<1> HIDE DEF Q, R
<1>2. c * Q \in Nat /\ c * (Q + 1) = c * Q + c
  BY <1>1, SMT
<1>3. CASE R = c - 1
  <2>1. m + 1 = c * (Q + 1) + 0
    BY <1>1, <1>2, <1>3, SMT
  <2>2. (m + 1) % c = 0
    BY <1>1, <2>1, Remainder
  <2> QED BY <1>1, <1>3, <2>2 DEF R
<1>4. CASE R # c - 1
  <2>1. m + 1 = c * Q + (R + 1) /\ R + 1 \in 0..(c - 1)
    BY <1>1, <1>2, <1>4, SMT
  <2>2. (m + 1) % c = R + 1
    BY <1>1, <2>1, Remainder
  <2> QED BY <1>1, <1>4, <2>2 DEF R
<1> QED BY <1>3, <1>4

\* Following the pointers from f runs round and round along the list.
LEMMA FollowAlong ==
    ASSUME NEW f, NEW n, NEW s, Along(f, n, s), f # NULL
    PROVE  \A m \in Nat : Follow(f, n)[m] = s[(m % Len(s)) + 1]
<1> DEFINE c == Len(s)
           g == [m \in Nat |-> s[(m % c) + 1]]
           step(h) == [m \in Nat |-> IF m = 0 THEN f ELSE n[h[m - 1]]]
           F == Follow(f, n)
<1>1. c \in Nat \ {0} /\ s[1] = f
  BY LenZero DEF Along
<1>2. g[0] = f
  <2>1. 0 % c = 0
    BY <1>1, SMT
  <2> QED BY <1>1, <2>1
<1>3. ASSUME NEW m \in Nat PROVE g[m + 1] = n[g[m]]
  <2> DEFINE r == m % c
  <2>1. r \in 0..(c - 1) /\ (m + 1) % c = IF r = c - 1 THEN 0 ELSE r + 1
    BY <1>1, CountOn
  <2>2. g[m] = s[r + 1] /\ g[m + 1] = s[((m + 1) % c) + 1]
    OBVIOUS
  <2> HIDE DEF r, g
  <2>3. n[s[r + 1]] = Behind(s, r + 1)
    BY <1>1, <2>1 DEF Along
  <2> QED BY <1>1, <2>1, <2>2, <2>3 DEF Behind
<1>4. g = step(g)
  <2>1. ASSUME NEW m \in Nat, m # 0 PROVE g[m] = n[g[m - 1]]
    <3>1. m - 1 \in Nat /\ (m - 1) + 1 = m
      BY <2>1
    <3> QED BY <1>3, <3>1
  <2> QED BY <1>2, <2>1
<1>5. F = CHOOSE h : h = step(h)
  BY DEF Follow
<1> HIDE DEF g
<1>6. F = step(F)
  BY <1>4, <1>5
<1>7. F[0] = f /\ \A m \in Nat : F[m + 1] = n[F[m]]
  <2>1. step(F)[0] = f /\ \A m \in Nat : step(F)[m + 1] = n[F[m]]
    OBVIOUS
  <2> HIDE DEF step, F
  <2> QED BY <1>6, <2>1
<1> HIDE DEF F
<1> DEFINE T == {m \in Nat : F[m] # g[m]}
<1>8. T = {}
  <2> SUFFICES ASSUME T # {} PROVE FALSE
    OBVIOUS
  <2>1. PICK m \in T : \A k \in T : m <= k
    BY LeastNatural
  <2>2. m # 0
    BY <1>2, <1>7
  <2>3. m - 1 \in Nat /\ (m - 1) + 1 = m /\ m - 1 \notin T
    BY <2>1, <2>2
  <2>4. F[m - 1] = g[m - 1]
    BY <2>3
  <2>5. F[m] = n[F[m - 1]] /\ g[m] = n[g[m - 1]]
    BY <1>3, <1>7, <2>3
  <2> QED BY <2>4, <2>5
<1>9. \A m \in Nat : F[m] = g[m]
  BY <1>8
<1> QED BY <1>9 DEF F, g

\* A walk visits the items of the list in their order and stops behind them.
LEMMA RingFromAlong ==
    ASSUME NEW f, NEW n, NEW s, Along(f, n, s)
    PROVE  RingFrom(f, n) = s
<1>1. CASE f = NULL
  BY <1>1 DEF RingFrom, Along
<1>2. CASE f # NULL
  <2> DEFINE c == Len(s)
             F == Follow(f, n)
             back(m) == F[m] = f /\ \A k \in 1..(m - 1) : F[k] # f
             N == Cardinality(Item)
  <2>1. s \in Seq(Item) /\ NoRepeat(s) /\ c \in Nat \ {0} /\ s[1] = f
    BY <1>2, LenZero DEF Along
  <2>2. \A m \in Nat : F[m] = s[(m % c) + 1]
    BY <1>2, FollowAlong
  <2> HIDE DEF F
  <2>3. \A m \in 0..(c - 1) : F[m] = s[m + 1]
    <3> SUFFICES ASSUME NEW m \in 0..(c - 1) PROVE F[m] = s[m + 1]
      OBVIOUS
    <3>1. m \in Nat /\ m % c = m
      BY <2>1, SMT
    <3>2. F[m] = s[(m % c) + 1]
      BY <2>2, <3>1
    <3> QED BY <3>1, <3>2
  <2>4. F[c] = f
    <3>1. c % c = 0
      <4>1. c = c * 1 + 0 /\ 0 \in 0..(c - 1)
        BY <2>1
      <4> QED BY <2>1, <4>1, Remainder
    <3>2. F[c] = s[(c % c) + 1]
      BY <2>1, <2>2
    <3> QED BY <2>1, <3>1, <3>2
  <2>5. \A m \in 1..(c - 1) : F[m] # f
    BY <2>1, <2>3 DEF NoRepeat
  <2>6. N \in Nat /\ c <= N
    <3>1. Items(s) \subseteq Item
      BY <2>1 DEF Items
    <3>2. Cardinality(Items(s)) = c
      BY <2>1, ItemsCount
    <3> QED BY <3>1, <3>2, ItemAssumption, FS_Subset, FS_CardinalityType
  <2> HIDE DEF N
  <2>7. back(c) /\ c \in 1..N
    BY <2>1, <2>4, <2>5, <2>6
  <2>8. \A m \in 1..N : back(m) => m = c
    <3> SUFFICES ASSUME NEW m \in 1..N, back(m), m # c PROVE FALSE
      OBVIOUS
    <3>1. CASE m < c
      BY <2>1, <2>5, <2>6, <3>1
    <3>2. CASE m > c
      BY <2>1, <2>4, <2>6, <3>2
    <3> QED BY <2>1, <2>6, <3>1, <3>2
  <2>9. RingSize(f, n) = CHOOSE m \in 1..N : back(m)
    BY DEF RingSize, F, N
  <2> HIDE DEF back
  <2>10. RingSize(f, n) = c
    BY <2>7, <2>8, <2>9
  <2>11. RingFrom(f, n) = [m \in 1..c |-> F[m - 1]]
    BY <1>2, <2>10 DEF RingFrom, F
  <2>12. \A m \in 1..c : F[m - 1] = s[m]
    BY <2>1, <2>3
  <2>13. s = [m \in 1..c |-> s[m]]
    BY <2>1
  <2> QED BY <2>11, <2>12, <2>13
<1> QED BY <1>1, <1>2

-----------------------------------------------------------------------------
(* What linking and unlinking an item do to the walk along one ring.       *)

\* The members of a list are items.
LEMMA ItemsAlong ==
    ASSUME NEW f, NEW n, NEW s, Along(f, n, s)
    PROVE  /\ Len(s) \in Nat
           /\ \A k \in 1..Len(s) : s[k] \in Item /\ s[k] \in Items(s)
           /\ \A x \in Items(s) : x \in Item /\ \E k \in 1..Len(s) : s[k] = x
           /\ f # NULL => Len(s) >= 1 /\ f = s[1] /\ f \in Items(s)
           /\ \A k \in 1..Len(s) : Behind(s, k) \in Items(s)
<1>1. s \in Seq(Item)
  BY DEF Along
<1>2. Len(s) \in Nat /\ \A k \in 1..Len(s) : s[k] \in Item
  BY <1>1
<1>3. f # NULL => Len(s) # 0
  BY <1>1, LenZero DEF Along
<1>4. f # NULL => f = s[1]
  BY DEF Along
<1>5. \A k \in 1..Len(s) : Behind(s, k) \in Items(s)
  BY <1>2 DEF Behind, Items
<1>6. \A k \in 1..Len(s) : s[k] \in Items(s)
  BY ONLY DEF Items
<1>7. \A x \in Items(s) : x \in Item /\ \E k \in 1..Len(s) : s[k] = x
  BY ONLY <1>2 DEF Items
<1>8. f # NULL => Len(s) >= 1 /\ f = s[1] /\ f \in Items(s)
  <2>1. ASSUME f # NULL PROVE 1 \in 1..Len(s) /\ Len(s) >= 1
    BY ONLY <1>2, <1>3, <2>1
  <2> QED BY ONLY <1>4, <1>6, <2>1
<1> QED BY ONLY <1>2, <1>5, <1>6, <1>7, <1>8

\* A ring is left alone by what happens to other items.
LEMMA AlongElsewhere ==
    ASSUME NEW f, NEW n, NEW s, Along(f, n, s),
           NEW m, \A x \in Items(s) : m[x] = n[x]
    PROVE  Along(f, m, s)
BY DEF Along, Items

\* An item linked to itself.
LEMMA AlongAlone ==
    ASSUME NEW i \in Item, NEW n, n[i] = i
    PROVE  Along(i, n, <<i>>)
BY DEF Along, NoRepeat, Behind

\* Walking back: prev leads from an item to the one in front of it.
LEMMA StepBack ==
    ASSUME NEW f, NEW n, NEW s, Along(f, n, s),
           NEW p, \A x \in Items(s) : p[n[x]] = x,
           NEW k \in 1..Len(s)
    PROVE  p[Behind(s, k)] = s[k]
<1>1. s[k] \in Items(s)
  BY ItemsAlong
<1>2. n[s[k]] = Behind(s, k)
  BY DEF Along
<1> QED BY <1>1, <1>2

\* Linking item i behind the last one.
LEMMA AlongAppend ==
    ASSUME NEW f, NEW n, NEW s, Along(f, n, s), f # NULL,
           NEW i \in Item, i \notin Items(s),
           NEW m, m[i] = f, m[s[Len(s)]] = i,
           \A x \in Items(s) : x # s[Len(s)] => m[x] = n[x]
    PROVE  Along(f, m, Append(s, i))
<1> DEFINE t == Append(s, i)
           c == Len(s)
<1>1. s \in Seq(Item) /\ NoRepeat(s) /\ c \in Nat /\ c >= 1 /\ s[1] = f
  BY ItemsAlong DEF Along
<1>2. /\ t \in Seq(Item) /\ Len(t) = c + 1 /\ t[c + 1] = i
      /\ \A k \in 1..c : t[k] = s[k]
  BY <1>1
<1>3. t # <<>>
  BY <1>1, <1>2
<1> HIDE DEF t
<1>4. \A k \in 1..c : s[k] \in Items(s) /\ n[s[k]] = Behind(s, k)
  BY DEF Along, Items
<1>5. NoRepeat(t)
  BY <1>1, <1>2, <1>4 DEF NoRepeat
<1>6. ASSUME NEW k \in 1..Len(t) PROVE m[t[k]] = Behind(t, k)
  <2>1. CASE k = c + 1
    BY <1>1, <1>2, <2>1 DEF Behind
  <2>2. CASE k = c
    BY <1>1, <1>2, <2>2 DEF Behind
  <2>3. CASE k < c
    <3>1. t[k] = s[k] /\ t[k + 1] = s[k + 1] /\ s[k] # s[c] /\ n[s[k]] = s[k + 1]
      BY <1>1, <1>2, <1>4, <2>3 DEF NoRepeat, Behind
    <3>2. m[s[k]] = n[s[k]]
      BY <1>1, <1>4, <2>3, <3>1
    <3> QED BY <1>1, <1>2, <2>3, <3>1, <3>2 DEF Behind
  <2> QED BY <1>1, <1>2, <2>1, <2>2, <2>3
<1> QED BY <1>1, <1>2, <1>3, <1>5, <1>6 DEF Along, t

\* Linking item i behind the last one and making it the first.
LEMMA AlongPrepend ==
    ASSUME NEW f, NEW n, NEW s, Along(f, n, s), f # NULL,
           NEW i \in Item, i \notin Items(s),
           NEW m, m[i] = f, m[s[Len(s)]] = i,
           \A x \in Items(s) : x # s[Len(s)] => m[x] = n[x]
    PROVE  Along(i, m, <<i>> \o s)
<1> DEFINE t == <<i>> \o s
           c == Len(s)
<1>1. s \in Seq(Item) /\ NoRepeat(s) /\ c \in Nat /\ c >= 1 /\ s[1] = f
  BY ItemsAlong DEF Along
<1>2. /\ t \in Seq(Item) /\ Len(t) = c + 1 /\ t[1] = i
      /\ \A k \in 1..c : t[k + 1] = s[k]
  BY <1>1
<1>3. t # <<>>
  BY <1>1, <1>2
<1> HIDE DEF t
<1>4. \A k \in 1..c : s[k] \in Items(s) /\ n[s[k]] = Behind(s, k)
  BY DEF Along, Items
<1>5. \A k \in 2..(c + 1) : t[k] = s[k - 1]
  BY <1>1, <1>2
<1>6. NoRepeat(t)
  <2> SUFFICES ASSUME NEW a \in 1..Len(t), NEW b \in 1..Len(t), t[a] = t[b], a < b
               PROVE  FALSE
    BY <1>1, <1>2 DEF NoRepeat
  <2>1. b - 1 \in 1..c /\ t[b] = s[b - 1] /\ t[b] \in Items(s)
    BY <1>1, <1>2, <1>4, <1>5
  <2>2. CASE a = 1
    BY <1>2, <2>1, <2>2
  <2>3. CASE a > 1
    <3>1. a - 1 \in 1..c /\ t[a] = s[a - 1]
      BY <1>1, <1>2, <1>5, <2>3
    <3>2. a - 1 = b - 1
      BY <1>1, <2>1, <3>1 DEF NoRepeat
    <3> QED BY <1>1, <1>2, <3>2
  <2> QED BY <1>1, <1>2, <2>2, <2>3
<1>7. ASSUME NEW k \in 1..Len(t) PROVE m[t[k]] = Behind(t, k)
  <2>1. CASE k = 1
    BY <1>1, <1>2, <1>5, <2>1 DEF Behind
  <2>2. CASE k = c + 1
    BY <1>1, <1>2, <1>5, <2>2 DEF Behind
  <2>3. CASE k > 1 /\ k < c + 1
    <3>1. t[k] = s[k - 1] /\ t[k + 1] = s[k] /\ s[k - 1] # s[c] /\ n[s[k - 1]] = s[k]
      BY <1>1, <1>4, <1>5, <2>3 DEF NoRepeat, Behind
    <3>2. m[s[k - 1]] = n[s[k - 1]]
      BY <1>1, <1>4, <2>3, <3>1
    <3> QED BY <1>1, <1>2, <2>3, <3>1, <3>2 DEF Behind
  <2> QED BY <1>1, <1>2, <2>1, <2>2, <2>3
<1> QED BY <1>1, <1>2, <1>3, <1>6, <1>7 DEF Along, t

\* The list without its p-th item, place by place.
LEMMA DeleteAt ==
    ASSUME NEW S, NEW s \in Seq(S), NoRepeat(s), NEW p \in 1..Len(s)
    PROVE  /\ Len(s) \in Nat /\ Len(s) >= 1
           /\ Delete(s, s[p]) \in Seq(S)
           /\ NoRepeat(Delete(s, s[p]))
           /\ Items(Delete(s, s[p])) = Items(s) \ {s[p]}
           /\ Len(Delete(s, s[p])) = Len(s) - 1
           /\ \A k \in 1..(Len(s) - 1) :
                 Delete(s, s[p])[k] = IF k < p THEN s[k] ELSE s[k + 1]
<1> DEFINE x == s[p]
<1>1. Len(s) \in Nat /\ Len(s) >= 1
  OBVIOUS
<1>2. x \in Items(s)
  BY DEF Items
<1>3. PositionOf(s, x) = p
  BY DEF PositionOf, NoRepeat
<1>4. Delete(s, x) = [k \in 1..(Len(s) - 1) |-> IF k < p THEN s[k] ELSE s[k + 1]]
  BY <1>2, <1>3 DEF Delete
<1> HIDE DEF x
<1>5. \A k \in 1..(Len(s) - 1) : Delete(s, x)[k] = IF k < p THEN s[k] ELSE s[k + 1]
  BY <1>4
<1> QED BY <1>1, <1>2, <1>5, DeletePresent DEF x

\* The place in front of the p-th one in a ring of c items.
Before(c, p) == IF p = 1 THEN c ELSE p - 1

\* The place the k-th item of the shortened list had before.
Kept(p, k) == IF k < p THEN k ELSE k + 1

\* What stands behind an item of the shortened list stood behind it before,
\* and the item in front of the gap is followed by the one behind it.
LEMMA DeleteBehind ==
    ASSUME NEW S, NEW s \in Seq(S), NoRepeat(s), NEW p \in 1..Len(s),
           NEW k \in 1..(Len(s) - 1)
    PROVE  /\ Kept(p, k) \in 1..Len(s) /\ Kept(p, k) # p
           /\ Delete(s, s[p])[k] = s[Kept(p, k)]
           /\ Kept(p, k) = Before(Len(s), p) =>
                 Behind(Delete(s, s[p]), k) = Behind(s, p)
           /\ Kept(p, k) # Before(Len(s), p) =>
                 Behind(Delete(s, s[p]), k) = Behind(s, Kept(p, k))
<1> DEFINE t == Delete(s, s[p])
           c == Len(s)
           j == Kept(p, k)
<1>1. /\ c \in Nat /\ c >= 1 /\ Len(t) = c - 1
      /\ \A a \in 1..(c - 1) : t[a] = IF a < p THEN s[a] ELSE s[a + 1]
  BY DeleteAt
<1> HIDE DEF t
<1>2. j \in 1..c /\ j # p /\ t[k] = s[j]
  BY <1>1 DEF Kept
<1>3. /\ j = Before(c, p) => Behind(t, k) = Behind(s, p)
      /\ j # Before(c, p) => Behind(t, k) = Behind(s, j)
  <2>1. CASE k < c - 1 /\ k + 1 < p
    <3>1. j = k /\ j # Before(c, p)
      BY <1>1, <2>1 DEF Before, Kept
    <3>2. t[k + 1] = s[k + 1]
      BY <1>1, <2>1
    <3> QED BY <1>1, <2>1, <3>1, <3>2 DEF Behind
  <2>2. CASE k < c - 1 /\ k + 1 = p
    BY <1>1, <2>2 DEF Behind, Before, Kept
  <2>3. CASE k < c - 1 /\ k + 1 > p
    BY <1>1, <2>3 DEF Behind, Before, Kept
  <2>4. CASE k = c - 1 /\ p = 1
    BY <1>1, <2>4 DEF Behind, Before, Kept
  <2>5. CASE k = c - 1 /\ p # 1
    BY <1>1, <2>5 DEF Behind, Before, Kept
  <2>6. \/ k < c - 1 /\ (k + 1 < p \/ k + 1 = p \/ k + 1 > p)
        \/ k = c - 1 /\ (p = 1 \/ p # 1)
    <3>1. k \in 1..(c - 1) /\ p \in 1..c
      OBVIOUS
    <3> HIDE DEF c
    <3> QED BY <1>1, <3>1
  <2> QED BY <2>1, <2>2, <2>3, <2>4, <2>5, <2>6
<1> QED BY <1>2, <1>3 DEF t

\* Pointers m and head g are n and the head of s with the p-th item unlinked:
\* its neighbours are linked to each other, and the head moves on if it was
\* the first.
Unlinks(n, s, p, m, g) ==
    LET q == Before(Len(s), p)
    IN  /\ Len(s) > 1 => m[s[q]] = n[s[p]]
        /\ \A x \in Items(s) : x # s[p] /\ x # s[q] => m[x] = n[x]
        /\ p # 1 => g = s[1]
        /\ p = 1 /\ Len(s) = 1 => g = NULL
        /\ p = 1 /\ Len(s) # 1 => g = n[s[p]]

\* Unlinking an item leaves the others linked in their order.
LEMMA AlongDelete ==
    ASSUME NEW f, NEW n, NEW s, Along(f, n, s), NEW p \in 1..Len(s),
           NEW m, NEW g, Unlinks(n, s, p, m, g)
    PROVE  Along(g, m, Delete(s, s[p]))
<1> DEFINE t == Delete(s, s[p])
           c == Len(s)
           q == Before(c, p)
<1>1. s \in Seq(Item) /\ NoRepeat(s) /\ s[1] = f
  BY DEF Along
<1>2. /\ c \in Nat /\ c >= 1
      /\ t \in Seq(Item) /\ NoRepeat(t) /\ Len(t) = c - 1
      /\ \A k \in 1..(c - 1) : t[k] = IF k < p THEN s[k] ELSE s[k + 1]
  BY <1>1, DeleteAt
<1>3. \A k \in 1..c : s[k] \in Items(s) /\ s[k] \in Item /\ n[s[k]] = Behind(s, k)
  BY <1>1 DEF Along, Items
<1>4. q \in 1..c
  BY <1>2 DEF Before
<1>5. ASSUME NEW k \in 1..(c - 1)
      PROVE  /\ Kept(p, k) \in 1..c /\ Kept(p, k) # p /\ t[k] = s[Kept(p, k)]
             /\ Kept(p, k) = q => Behind(t, k) = Behind(s, p)
             /\ Kept(p, k) # q => Behind(t, k) = Behind(s, Kept(p, k))
  BY <1>1, DeleteBehind
<1>6. ASSUME NEW k \in 1..Len(t) PROVE m[t[k]] = Behind(t, k)
  <2> HIDE DEF t
  <2>1. k \in 1..(c - 1) /\ c > 1
    BY <1>2
  <2> DEFINE j == Kept(p, k)
  <2>2. /\ j \in 1..c /\ j # p /\ t[k] = s[j]
        /\ j = q => Behind(t, k) = Behind(s, p)
        /\ j # q => Behind(t, k) = Behind(s, j)
    BY <1>5, <2>1
  <2> HIDE DEF j, q
  <2>3. CASE j = q
    BY <1>3, <2>1, <2>2, <2>3 DEF q, Unlinks
  <2>4. CASE j # q
    <3>1. s[j] # s[p] /\ s[j] # s[q]
      BY <1>1, <1>4, <2>2, <2>4 DEF NoRepeat
    <3>2. m[s[j]] = n[s[j]]
      BY <1>3, <2>2, <3>1 DEF q, Unlinks
    <3> QED BY <1>3, <2>2, <2>4, <3>2
  <2> QED BY <2>3, <2>4
<1> HIDE DEF t, q
<1>7. f = s[1] /\ f \in Item
  BY <1>1, <1>2, <1>3
<1>8. CASE c = 1
  <2>1. t = <<>> /\ g = NULL
    BY <1>2, <1>8, LenZero DEF Unlinks
  <2> QED BY <1>2, <1>6, <2>1 DEF Along, t
<1>9. CASE c > 1
  <2>1. t # <<>>
    BY <1>2, <1>9
  <2>2. t[1] = g
    <3>1. CASE p = 1
      <4>1. t[1] = s[2] /\ Behind(s, 1) = s[2]
        BY <1>2, <1>9, <3>1 DEF Behind
      <4> QED BY <1>3, <1>9, <3>1, <4>1 DEF Unlinks
    <3>2. CASE p # 1
      <4>1. t[1] = s[1]
        BY <1>2, <1>9, <3>2
      <4> QED BY <3>2, <4>1 DEF Unlinks
    <3> QED BY <3>1, <3>2
  <2>3. t[1] \in Item
    BY <1>2, <1>9
  <2> QED BY <1>2, <1>6, <2>1, <2>2, <2>3 DEF Along, t
<1> QED BY <1>2, <1>8, <1>9

-----------------------------------------------------------------------------
(* All lists at once.                                                      *)

\* The lists w are what the heads h and the pointers n link, and no item is
\* in two of them.
Shape(h, n, w) ==
    /\ w \in [List -> Seq(Item)]
    /\ \A l \in List : Along(h[l], n, w[l])
    /\ \A l, k \in List : \A x \in Items(w[l]) : x \in Items(w[k]) => l = k

\* Every linked item is in a list: no ring is lost.
Covers(n, w) == \A x \in Item : n[x] # NULL => \E l \in List : x \in Items(w[l])

\* What the walks return is what the pointers link.
LEMMA WalksOf ==
    ASSUME NEW w, Shape(first, next, w)
    PROVE  Walks = w
<1>1. \A l \in List : Walk(l) = w[l]
  BY RingFromAlong DEF Walk, Shape
<1> QED BY <1>1 DEF Walks, Shape

\* The same for the next state.
LEMMA WalksOfNext ==
    ASSUME NEW w, Shape(first', next', w)
    PROVE  Walks' = w
<1>1. \A l \in List : Walk(l)' = w[l]
  BY RingFromAlong DEF Walk, Shape
<1> QED BY <1>1 DEF Walks, Shape

\* An item is linked to itself as the only one of an empty list.
LEMMA AloneShape ==
    ASSUME NEW h \in [List -> Pointer], NEW n \in [Item -> Pointer], NEW w,
           Shape(h, n, w), NEW l \in List, h[l] = NULL,
           NEW i \in Item, \A k \in List : i \notin Items(w[k])
    PROVE  Shape([h EXCEPT ![l] = i], [n EXCEPT ![i] = i], [w EXCEPT ![l] = <<i>>])
<1> DEFINE m == [n EXCEPT ![i] = i]
           g == [h EXCEPT ![l] = i]
           v == [w EXCEPT ![l] = <<i>>]
<1>1. w \in [List -> Seq(Item)]
  BY DEF Shape
<1>2. /\ v \in [List -> Seq(Item)] /\ v[l] = <<i>> /\ g[l] = i /\ m[i] = i
      /\ \A k \in List : k # l => v[k] = w[k] /\ g[k] = h[k]
      /\ \A x \in Item : x # i => m[x] = n[x]
  BY <1>1
<1> HIDE DEF m, g, v
<1>3. Along(g[l], m, v[l])
  BY <1>2, AlongAlone
<1>4. ASSUME NEW k \in List, k # l PROVE Along(g[k], m, v[k])
  <2>1. Along(h[k], n, w[k])
    BY DEF Shape
  <2>2. \A x \in Items(w[k]) : m[x] = n[x]
    BY <1>2, <2>1, ItemsAlong
  <2>3. Along(h[k], m, w[k])
    BY ONLY <2>1, <2>2, AlongElsewhere
  <2> QED BY ONLY <1>2, <1>4, <2>3
<1>5. Items(<<i>>) = {i}
  BY DEF Items
<1>6. \A k, j \in List : \A x \in Items(v[k]) : x \in Items(v[j]) => k = j
  <2>1. \A k \in List : Items(v[k]) = IF k = l THEN {i} ELSE Items(w[k])
    BY <1>2, <1>5
  <2>2. \A k, j \in List : \A x \in Items(w[k]) : x \in Items(w[j]) => k = j
    BY ONLY Shape(h, n, w) DEF Shape
  <2>3. \A k \in List : i \notin Items(w[k])
    OBVIOUS
  <2> QED BY ONLY <2>1, <2>2, <2>3
<1>7. Shape(g, m, v)
  BY <1>2, <1>3, <1>4, <1>6 DEF Shape
<1> QED BY <1>7 DEF g, m, v

\* List l with item i at the end or at the front, and the heads that make it
\* the first.
WithLast(w, l, i) == [w EXCEPT ![l] = Append(w[l], i)]
WithFirst(w, l, i) == [w EXCEPT ![l] = <<i>> \o w[l]]
WithHead(h, l, i) == [h EXCEPT ![l] = i]

\* Pointers m are n with item i linked between e and f.
Links(n, m, e, i, f) ==
    /\ m[i] = f /\ m[e] = i
    /\ \A x \in Item : x # i /\ x # e => m[x] = n[x]

\* An item is linked behind the last one of a list; the head stays or moves
\* to it.
LEMMA LinkShape ==
    ASSUME NEW h \in [List -> Pointer], NEW n \in [Item -> Pointer], NEW w,
           Shape(h, n, w), NEW l \in List, h[l] # NULL,
           NEW i \in Item, \A k \in List : i \notin Items(w[k]),
           NEW m, Links(n, m, w[l][Len(w[l])], i, h[l])
    PROVE  /\ Shape(h, m, WithLast(w, l, i))
           /\ Shape(WithHead(h, l, i), m, WithFirst(w, l, i))
<1> DEFINE s == w[l]
           e == s[Len(s)]
           f == h[l]
           g == [h EXCEPT ![l] = i]
           u == [w EXCEPT ![l] = Append(s, i)]
           v == [w EXCEPT ![l] = <<i>> \o s]
<1>1. w \in [List -> Seq(Item)] /\ Along(f, n, s) /\ s \in Seq(Item)
  BY DEF Shape
<1>2. e \in Items(s) /\ e \in Item /\ e # i
  BY <1>1, ItemsAlong
<1>3. m[i] = f /\ m[s[Len(s)]] = i /\ i \notin Items(s) /\ f # NULL
  BY DEF Links
<1>4. \A x \in Items(s) : x # s[Len(s)] => m[x] = n[x]
  <2>1. \A x \in Items(s) : x \in Item
    BY <1>1, ItemsAlong
  <2> QED BY <2>1 DEF Links
<1>5. Append(s, i) \in Seq(Item) /\ <<i>> \o s \in Seq(Item)
  BY <1>1
<1>6. /\ u \in [List -> Seq(Item)] /\ u[l] = Append(s, i)
      /\ v \in [List -> Seq(Item)] /\ v[l] = <<i>> \o s
      /\ g[l] = i
      /\ \A k \in List : k # l => u[k] = w[k] /\ v[k] = w[k] /\ g[k] = h[k]
  BY <1>1, <1>5
<1>7. Along(h[l], m, u[l]) /\ Along(g[l], m, v[l])
  <2> HIDE DEF s, f, g, u, v
  <2>1. Along(f, m, Append(s, i))
    BY <1>1, <1>3, <1>4, AlongAppend
  <2>2. Along(i, m, <<i>> \o s)
    BY <1>1, <1>3, <1>4, AlongPrepend
  <2> QED BY <1>6, <2>1, <2>2 DEF f
<1>8. ASSUME NEW k \in List, k # l PROVE Along(h[k], m, w[k])
  <2>1. Along(h[k], n, w[k])
    BY DEF Shape
  <2>2. \A x \in Items(w[k]) : x # i /\ x # e /\ x \in Item
    <3>1. \A x \in Items(w[k]) : x # e
      BY <1>2, <1>8 DEF Shape
    <3>2. \A x \in Items(w[k]) : x \in Item
      BY <2>1, ItemsAlong
    <3> QED BY <3>1, <3>2
  <2>3. \A x \in Items(w[k]) : m[x] = n[x]
    BY <2>2 DEF Links
  <2> DEFINE t == w[k]
             b == h[k]
  <2>4. Along(b, n, t) /\ \A x \in Items(t) : m[x] = n[x]
    BY <2>1, <2>3
  <2> HIDE DEF t, b
  <2>5. Along(b, m, t)
    BY <2>4, AlongElsewhere
  <2> QED BY <2>5 DEF t, b
<1>9. Items(Append(s, i)) = Items(s) \union {i} /\ Items(<<i>> \o s) = Items(s) \union {i}
  <2> DEFINE o == <<i>>
  <2>1. o \in Seq(Item) /\ Items(o) = {i}
    BY OneItem
  <2> HIDE DEF o, s
  <2>2. Items(o \o s) = Items(o) \union Items(s)
    BY <1>1, <2>1, ConcatItems
  <2>3. Items(Append(s, i)) = Items(s) \union {i}
    BY <1>1, AppendMore
  <2> QED BY <2>1, <2>2, <2>3 DEF o
<1> HIDE DEF s, f, g, u, v
<1>10. ASSUME NEW k \in List
       PROVE  /\ Items(u[k]) \subseteq Items(w[k]) \union {i}
              /\ Items(v[k]) \subseteq Items(w[k]) \union {i}
              /\ k # l => i \notin Items(u[k]) /\ i \notin Items(v[k])
  <2>1. CASE k = l
    BY <1>6, <1>9, <2>1 DEF s
  <2>2. CASE k # l
    BY <1>6, <2>2
  <2> QED BY <2>1, <2>2
<1>11. /\ \A k, j \in List : \A x \in Items(u[k]) : x \in Items(u[j]) => k = j
       /\ \A k, j \in List : \A x \in Items(v[k]) : x \in Items(v[j]) => k = j
  <2>1. \A k, j \in List : \A x \in Items(w[k]) : x \in Items(w[j]) => k = j
    BY DEF Shape
  <2>2. ASSUME NEW k \in List, NEW j \in List, NEW x \in Items(u[k]), x \in Items(u[j])
        PROVE  k = j
    BY <1>10, <2>1, <2>2
  <2>3. ASSUME NEW k \in List, NEW j \in List, NEW x \in Items(v[k]), x \in Items(v[j])
        PROVE  k = j
    BY <1>10, <2>1, <2>3
  <2> QED BY <2>2, <2>3
<1>12. Shape(h, m, u)
  BY <1>6, <1>7, <1>8, <1>11 DEF Shape
<1>13. Shape(g, m, v)
  BY <1>6, <1>7, <1>8, <1>11 DEF Shape
<1> QED BY <1>12, <1>13 DEF g, u, v, s, WithLast, WithFirst, WithHead

\* The lists without item i.
Without(w, i) == [j \in List |-> Delete(w[j], i)]

\* The items that are left.
LEMMA WithoutItems ==
    ASSUME NEW h, NEW n, NEW w, Shape(h, n, w), NEW i
    PROVE  \A j \in List : Items(Without(w, i)[j]) = Items(w[j]) \ {i}
<1>1. \A j \in List : w[j] \in Seq(Item) /\ NoRepeat(w[j])
  BY DEF Shape, Along
<1>2. \A j \in List : Items(Delete(w[j], i)) = Items(w[j]) \ {i}
  BY <1>1, DeleteItems
<1> QED BY <1>2 DEF Without

\* Pointers m are n with item i skipped by the one in front of it, a.
Skips(n, i, a, m) ==
    /\ a # i => m[a] = n[i]
    /\ \A x \in Item : x # i /\ x # a => m[x] = n[x]

\* Heads g are h, but that of list k moves on if it is i.
MovesOn(h, n, k, i, g) ==
    /\ g[k] = IF h[k] # i THEN h[k] ELSE IF n[i] = i THEN NULL ELSE n[i]
    /\ \A j \in List : j # k => g[j] = h[j]

\* An item of list k, whose neighbour in front of it is a, is unlinked.
LEMMA DeleteShape ==
    ASSUME NEW h, NEW n, NEW w,
           Shape(h, n, w), NEW k \in List, NEW i \in Items(w[k]),
           NEW a, \A x \in Items(w[k]) : n[x] = i => a = x,
           NEW m, Skips(n, i, a, m),
           NEW g, MovesOn(h, n, k, i, g)
    PROVE  Shape(g, m, Without(w, i))
<1> USE DEF Skips, MovesOn
<1> DEFINE s == w[k]
           f == h[k]
           v == [j \in List |-> Delete(w[j], i)]
<1>1. w \in [List -> Seq(Item)] /\ Along(f, n, s) /\ s \in Seq(Item)
  BY DEF Shape
<1>2. \A j \in List : w[j] \in Seq(Item) /\ NoRepeat(w[j])
  BY DEF Shape, Along
<1>3. \A j \in List : /\ Delete(w[j], i) \in Seq(Item)
                      /\ Items(Delete(w[j], i)) = Items(w[j]) \ {i}
  BY <1>2, DeleteItems
<1>4. \A j \in List : v[j] = Delete(w[j], i)
  OBVIOUS
<1>5. v \in [List -> Seq(Item)]
  BY <1>3
<1>6. Along(g[k], m, v[k])
  <2>1. NoRepeat(s) /\ Len(s) \in Nat /\ Len(s) # 0 /\ s[1] = f
    <3>1. NoRepeat(s) /\ (s # <<>> => s[1] = f)
      BY <1>1 DEF Along
    <3>2. s # <<>>
      BY EmptyItems
    <3> QED BY <1>1, <3>1, <3>2, LenZero
  <2>2. PICK p \in 1..Len(s) : s[p] = i
    BY DEF Items
  <2> DEFINE q == Before(Len(s), p)
  <2>3. q \in 1..Len(s)
    BY <2>1, <2>2 DEF Before
  <2>4. Behind(s, q) = i
    BY <2>1, <2>2 DEF Behind, Before
  <2>5. s[q] \in Items(s) /\ n[s[q]] = Behind(s, q) /\ n[i] = Behind(s, p)
    BY <1>1, <2>2, <2>3 DEF Along, Items
  <2>6. s[q] = a
    BY <2>4, <2>5
  <2>7. Len(s) > 1 => s[q] # s[p]
    BY <2>1, <2>2, <2>3 DEF NoRepeat, Before
  <2>8. Len(s) > 1 => m[s[q]] = n[s[p]]
    BY <2>2, <2>6, <2>7
  <2>9. \A x \in Items(s) : x # s[p] /\ x # s[q] => m[x] = n[x]
    BY <1>1, <2>2, <2>6, ItemsAlong
  <2>10. f # i <=> p # 1
    BY <2>1, <2>2 DEF NoRepeat
  <2>11. p = 1 => (n[i] = i <=> Len(s) = 1)
    <3>1. CASE Len(s) = 1
      BY <2>2, <2>5, <3>1 DEF Behind
    <3>2. CASE Len(s) # 1
      <4>1. 2 \in 1..Len(s)
        <5> DEFINE c == Len(s)
        <5>1. c \in Nat /\ c # 0 /\ c # 1
          BY <2>1, <3>2
        <5> HIDE DEF c
        <5>2. 2 \in 1..c
          BY <5>1
        <5> QED BY <5>2 DEF c
      <4>2. p = 1 => n[i] = s[2] /\ s[2] # s[1]
        BY <2>1, <2>2, <2>5, <3>2, <4>1 DEF Behind, NoRepeat
      <4> QED BY <2>2, <3>2, <4>2
    <3> QED BY <3>1, <3>2
  <2> DEFINE d == g[k]
  <2>12. /\ p # 1 => d = s[1]
         /\ p = 1 /\ Len(s) = 1 => d = NULL
         /\ p = 1 /\ Len(s) # 1 => d = n[s[p]]
    BY <2>1, <2>2, <2>10, <2>11
  <2>13. v[k] = Delete(s, s[p])
    BY <2>2
  <2> HIDE DEF s, f, v, d
  <2>14. Unlinks(n, s, p, m, d)
    BY <2>8, <2>9, <2>12 DEF Unlinks
  <2>15. Along(d, m, Delete(s, s[p]))
    BY <1>1, <2>2, <2>14, AlongDelete
  <2> QED BY <2>13, <2>15 DEF d
<1>7. ASSUME NEW j \in List, j # k PROVE Along(g[j], m, v[j])
  <2> DEFINE t == w[j]
             b == h[j]
  <2>1. Along(b, n, t)
    BY DEF Shape
  <2>2. i \notin Items(t)
    BY <1>7 DEF Shape
  <2>3. \A x \in Items(t) : x # a
    <3>1. a \in Items(s)
      <4>1. PICK p \in 1..Len(s) : s[p] = i
        BY DEF Items
      <4> DEFINE q == Before(Len(s), p)
      <4>2. Len(s) \in Nat /\ q \in 1..Len(s)
        BY <1>1, <4>1 DEF Before
      <4>3. Behind(s, q) = i
        BY <4>1, <4>2 DEF Behind, Before
      <4>4. s[q] \in Items(s) /\ n[s[q]] = i
        BY <1>1, <4>2, <4>3 DEF Along, Items
      <4> QED BY <4>4
    <3> QED BY <1>7, <3>1 DEF Shape
  <2>4. \A x \in Items(t) : m[x] = n[x]
    BY <2>1, <2>2, <2>3, ItemsAlong
  <2>5. v[j] = t /\ g[j] = b
    BY <1>7, <2>2, DeleteAbsent
  <2> HIDE DEF t, b
  <2> QED BY <2>1, <2>4, <2>5, AlongElsewhere
<1> HIDE DEF v
<1>8. ASSUME NEW j \in List, NEW l \in List, NEW x \in Items(v[j]), x \in Items(v[l])
      PROVE  j = l
  <2>1. x \in Items(w[j]) /\ x \in Items(w[l])
    BY <1>3, <1>4, <1>8
  <2> QED BY <2>1 DEF Shape
<1>9. Shape(g, m, v)
  BY <1>5, <1>6, <1>7, <1>8 DEF Shape
<1> QED BY <1>9 DEF v, Without

-----------------------------------------------------------------------------
(* The simulation.                                                         *)

\* The inductive invariant of the simulation: the pointers form rings, every
\* ring is a list that has a head, and no two heads are in one ring.
LinkInv == RingInv /\ Shape(first, next, Walks) /\ Covers(next, Walks)

\* What the invariant says of the walks, and of an item that is not linked.
LEMMA LinkFacts ==
    ASSUME LinkInv
    PROVE  /\ TypeOK /\ RingsClosed
           /\ Walks \in [List -> Seq(Item)]
           /\ \A l \in List : Along(first[l], next, Walks[l])
           /\ \A x \in Item : Unlinked(x) <=> next[x] = NULL
           /\ \A l \in List : \A x \in Items(Walks[l]) : x \in Item /\ next[x] # NULL
           /\ \A l \in List : first[l] # NULL =>
                 prev[first[l]] = Walks[l][Len(Walks[l])]
<1>1. TypeOK /\ RingsClosed /\ Walks \in [List -> Seq(Item)]
  BY DEF LinkInv, RingInv, Shape
<1>2. ASSUME NEW l \in List PROVE Along(first[l], next, Walks[l])
  BY DEF LinkInv, Shape
<1>3. \A x \in Item : Unlinked(x) <=> next[x] = NULL
  BY <1>1 DEF RingsClosed, Unlinked
<1>4. ASSUME NEW l \in List, NEW x \in Items(Walks[l]) PROVE x \in Item /\ next[x] # NULL
  <2> DEFINE s == Walks[l]
             f == first[l]
  <2>1. Along(f, next, s) /\ x \in Items(s)
    BY <1>2
  <2> HIDE DEF s, f
  <2>2. x \in Item /\ \A k \in 1..Len(s) : Behind(s, k) \in Item
    BY <2>1, ItemsAlong
  <2>3. PICK k \in 1..Len(s) : s[k] = x
    BY <2>1, ItemsAlong
  <2>4. next[x] = Behind(s, k)
    BY <2>1, <2>3 DEF Along
  <2> QED BY <2>2, <2>4
<1>5. ASSUME NEW l \in List, first[l] # NULL
      PROVE  prev[first[l]] = Walks[l][Len(Walks[l])]
  <2> DEFINE s == Walks[l]
             f == first[l]
  <2>1. Along(f, next, s) /\ f # NULL
    BY <1>2, <1>5
  <2> HIDE DEF s, f
  <2>2. \A x \in Items(s) : prev[next[x]] = x
    BY <1>1, <1>4 DEF RingsClosed, s
  <2>3. Len(s) \in 1..Len(s) /\ Behind(s, Len(s)) = f
    BY <2>1, ItemsAlong DEF Behind
  <2>4. prev[Behind(s, Len(s))] = s[Len(s)]
    BY <2>1, <2>2, <2>3, StepBack
  <2> QED BY <2>3, <2>4 DEF s, f
<1> QED BY <1>1, <1>2, <1>3, <1>4, <1>5

\* A step after which the pointers link the lists v.
LEMMA LinkedAfter ==
    ASSUME RingInv', NEW v, Shape(first', next', v), Covers(next', v)
    PROVE  LinkInv' /\ Walks' = v
<1>1. Walks' = v
  BY WalksOfNext
<1>2. Shape(first', next', Walks') /\ Covers(next', Walks')
  BY <1>1
<1> QED BY <1>1, <1>2 DEF LinkInv

\* Linking an item to an empty list.
LEMMA LinkAloneStep ==
    ASSUME LinkInv, RingInv', NEW l \in List, NEW i \in Item, Unlinked(i),
           LinkAlone(l, i)
    PROVE  /\ LinkInv'
           /\ Walks[l] = <<>>
           /\ Walks' = [Walks EXCEPT ![l] = <<i>>]
<1> DEFINE w == Walks
           v == [w EXCEPT ![l] = <<i>>]
<1>1. /\ first \in [List -> Pointer] /\ next \in [Item -> Pointer]
      /\ Shape(first, next, w) /\ w \in [List -> Seq(Item)]
      /\ Covers(next, w)
  BY LinkFacts DEF LinkInv, TypeOK
<1>2. \A k \in List : i \notin Items(w[k])
  BY LinkFacts
<1>3. /\ first[l] = NULL
      /\ first' = [first EXCEPT ![l] = i] /\ next' = [next EXCEPT ![i] = i]
  BY DEF LinkAlone
<1>4. w[l] = <<>>
  BY <1>1, <1>3 DEF Shape, Along
<1> HIDE DEF w
<1>5. Shape(first', next', v)
  BY <1>1, <1>2, <1>3, AloneShape
<1>6. Covers(next', v)
  <2> SUFFICES ASSUME NEW x \in Item, next'[x] # NULL
               PROVE  \E k \in List : x \in Items(v[k])
    BY DEF Covers
  <2>1. v[l] = <<i>> /\ \A k \in List : k # l => v[k] = w[k]
    BY <1>1
  <2>2. Items(<<i>>) = {i} /\ Items(w[l]) = {}
    BY <1>4, OneItem, EmptyItems
  <2>3. CASE x = i
    BY <2>1, <2>2, <2>3
  <2>4. CASE x # i
    <3>1. next[x] # NULL
      BY <1>1, <1>3, <2>4
    <3>2. PICK k \in List : x \in Items(w[k])
      BY <1>1, <3>1 DEF Covers
    <3> QED BY <2>1, <2>2, <3>2
  <2> QED BY <2>3, <2>4
<1> HIDE DEF v
<1>7. LinkInv' /\ Walks' = v
  BY <1>5, <1>6, LinkedAfter
<1> QED BY <1>4, <1>7 DEF v, w

\* Linking an item before the first one of a list, as the last one or, when
\* the head moves, as the first.
LEMMA LinkBeforeStep ==
    ASSUME LinkInv, RingInv', NEW l \in List, NEW i \in Item, Unlinked(i),
           LinkBeforeFirst(l, i)
    PROVE  /\ first' = first =>
                 LinkInv' /\ Walks' = WithLast(Walks, l, i)
           /\ first' = [first EXCEPT ![l] = i] =>
                 LinkInv' /\ Walks' = WithFirst(Walks, l, i)
<1> DEFINE w == Walks
           f == first[l]
           e == w[l][Len(w[l])]
           va == WithLast(w, l, i)
           vp == WithFirst(w, l, i)
<1>1. /\ first \in [List -> Pointer] /\ next \in [Item -> Pointer]
      /\ Shape(first, next, w) /\ w \in [List -> Seq(Item)]
      /\ Covers(next, w)
  BY LinkFacts DEF LinkInv, TypeOK
<1>2. \A k \in List : i \notin Items(w[k])
  BY LinkFacts
<1>3. f # NULL /\ next' = [next EXCEPT ![i] = f, ![prev[f]] = i]
  BY DEF LinkBeforeFirst, NextWith
<1>4. prev[f] = e /\ e \in Items(w[l]) /\ e \in Item
  <2>1. prev[f] = e /\ Along(f, next, w[l])
    BY <1>3, LinkFacts
  <2>2. e \in Items(w[l]) /\ e \in Item
    <3> DEFINE s == w[l]
    <3> HIDE DEF w, f, s
    <3>1. /\ Len(s) \in Nat /\ Len(s) >= 1
          /\ \A k \in 1..Len(s) : s[k] \in Item /\ s[k] \in Items(s)
      BY <1>3, <2>1, ItemsAlong DEF s
    <3>2. Len(s) \in 1..Len(s)
      BY ONLY <3>1
    <3> QED BY <3>1, <3>2 DEF s
  <2> QED BY <2>1, <2>2
<1> HIDE DEF w, f, e
<1>5. /\ next'[i] = f /\ next'[e] = i /\ e # i
      /\ \A x \in Item : x # i /\ x # e => next'[x] = next[x]
  BY <1>1, <1>2, <1>3, <1>4
<1>6. Shape(first, next', va) /\ Shape(WithHead(first, l, i), next', vp)
  <2> DEFINE m == next'
  <2>1. Links(next, m, w[l][Len(w[l])], i, first[l]) /\ first[l] # NULL
    BY <1>3, <1>5 DEF f, e, Links
  <2> HIDE DEF m
  <2>2. Shape(first, m, va) /\ Shape(WithHead(first, l, i), m, vp)
    BY <1>1, <1>2, <2>1, LinkShape
  <2> QED BY <2>2 DEF m
<1>7. /\ Items(Append(w[l], i)) = Items(w[l]) \union {i}
      /\ Items(<<i>> \o w[l]) = Items(w[l]) \union {i}
  <2> DEFINE s == w[l]
             o == <<i>>
  <2>1. s \in Seq(Item) /\ o \in Seq(Item) /\ Items(o) = {i}
    BY <1>1, OneItem
  <2> HIDE DEF s, o
  <2>2. Items(o \o s) = Items(o) \union Items(s) /\ Items(Append(s, i)) = Items(s) \union {i}
    BY <2>1, ConcatItems, AppendMore
  <2> QED BY <2>1, <2>2 DEF s, o
<1>8. ASSUME NEW x \in Item, next'[x] # NULL
      PROVE  x = i \/ \E k \in List : x \in Items(w[k])
  BY <1>1, <1>4, <1>5, <1>8 DEF Covers
<1>9. Covers(next', va) /\ Covers(next', vp)
  <2>1. /\ va[l] = Append(w[l], i) /\ vp[l] = <<i>> \o w[l]
        /\ \A k \in List : k # l => va[k] = w[k] /\ vp[k] = w[k]
    BY <1>1 DEF WithLast, WithFirst
  <2>2. /\ i \in Items(va[l]) /\ i \in Items(vp[l])
        /\ \A k \in List : Items(w[k]) \subseteq Items(va[k]) /\ Items(w[k]) \subseteq Items(vp[k])
    BY <1>7, <2>1
  <2> HIDE DEF va, vp
  <2> QED BY <1>8, <2>2 DEF Covers
<1>10. ASSUME first' = first PROVE LinkInv' /\ Walks' = va
  <2>1. Shape(first', next', va)
    BY <1>6, <1>10
  <2> HIDE DEF va
  <2> QED BY <1>9, <2>1, LinkedAfter
<1>11. ASSUME first' = [first EXCEPT ![l] = i] PROVE LinkInv' /\ Walks' = vp
  <2>1. Shape(first', next', vp)
    BY <1>6, <1>11 DEF WithHead
  <2> HIDE DEF vp
  <2> QED BY <1>9, <2>1, LinkedAfter
<1> QED BY <1>10, <1>11 DEF w

\* A linked item and its neighbours, in the list the item is in.
LEMMA Neighbours ==
    ASSUME LinkInv, NEW i \in Item, ~Unlinked(i)
    PROVE  /\ prev[i] \in Item /\ next[i] \in Item
           /\ next[prev[i]] = i /\ prev[next[i]] = i
           /\ \A x \in Item : next[x] = i => x = prev[i]
           /\ \A x \in Item : next[x] = next[i] => x = i
           /\ \E k \in List : i \in Items(Walks[k])
<1>1. TypeOK /\ RingsClosed /\ next[i] # NULL /\ Covers(next, Walks)
  BY LinkFacts DEF LinkInv
<1>2. prev[i] \in Item /\ next[i] \in Item /\ next[prev[i]] = i /\ prev[next[i]] = i
  BY <1>1 DEF TypeOK, RingsClosed
<1>3. \A x \in Item : next[x] = i => x = prev[i]
  BY <1>1 DEF RingsClosed
<1>4. \A x \in Item : next[x] = next[i] => x = i
  BY <1>1, <1>2 DEF RingsClosed
<1> QED BY <1>1, <1>2, <1>3, <1>4 DEF Covers

\* LINKEDLIST_REMOVE takes the item out of the list it is in, if any.
LEMMA RemoveStep ==
    ASSUME LinkInv, RingInv', NEW l \in List, NEW i \in Item, LINKEDLIST_REMOVE(l, i)
    PROVE  LinkInv' /\ Walks' = Without(Walks, i)
<1> DEFINE w == Walks
           v == Without(w, i)
<1>1. /\ first \in [List -> Pointer] /\ next \in [Item -> Pointer]
      /\ prev \in [Item -> Pointer]
      /\ Shape(first, next, w) /\ w \in [List -> Seq(Item)]
      /\ Covers(next, w)
  BY LinkFacts DEF LinkInv, TypeOK
<1>2. CASE Unlinked(i)
  <2>1. next[i] = NULL /\ prev[i] = NULL /\ \A k \in List : i \notin Items(w[k])
    BY <1>2, LinkFacts DEF RingsClosed
  <2>2. first' = first /\ next' = next
    BY <1>1, <1>2, <2>1 DEF LINKEDLIST_REMOVE
  <2>3. v = w
    <3>1. \A k \in List : Delete(w[k], i) = w[k]
      BY <2>1, DeleteAbsent
    <3> HIDE DEF w
    <3> QED BY <1>1, <3>1 DEF Without
  <2>4. Shape(first', next', v) /\ Covers(next', v)
    BY <1>1, <2>2, <2>3
  <2> HIDE DEF v
  <2>5. LinkInv' /\ Walks' = v
    BY <2>4, LinkedAfter
  <2> QED BY <2>5 DEF v
<1>3. CASE ~Unlinked(i)
  <2> DEFINE a == prev[i]
             b == next[i]
  <2>1. /\ a \in Item /\ b \in Item /\ next[a] = i /\ prev[b] = i
        /\ \A x \in Item : next[x] = i => x = a
    BY <1>3, Neighbours
  <2>2. PICK k \in List : i \in Items(w[k])
    BY <1>3, Neighbours
  <2>3. /\ first' = [first EXCEPT ![l] = HeadWithout(l, i)]
        /\ \A j \in List : j # l => first[j] # i
    BY <1>3 DEF LINKEDLIST_REMOVE, FirstOfNoOther
  <2>4. /\ next'[i] = NULL
        /\ a # i => next'[a] = b
        /\ \A x \in Item : x # i /\ x # a => next'[x] = next[x]
    <3>1. CASE first[l] = i /\ next[i] = i
      <4>1. a = i
        BY <2>1, <3>1
      <4> QED BY <1>1, <3>1, <4>1 DEF LINKEDLIST_REMOVE
    <3>2. CASE ~(first[l] = i /\ next[i] = i)
      BY <1>1, <1>3, <2>1, <3>2 DEF LINKEDLIST_REMOVE, NextWithout
    <3> QED BY <3>1, <3>2
  <2>5. \A j \in List : Along(first[j], next, w[j])
    BY <1>1 DEF Shape
  <2>6. \A j \in List : first[j] = i => j = k
    <3>1. ASSUME NEW j \in List, first[j] = i PROVE i \in Items(w[j])
      <4>1. Along(first[j], next, w[j]) /\ first[j] # NULL
        BY <2>5, <3>1
      <4> QED BY <3>1, <4>1, ItemsAlong
    <3> QED BY <1>1, <2>2, <3>1 DEF Shape
  <2>7. /\ first'[k] = IF first[k] # i THEN first[k] ELSE IF b = i THEN NULL ELSE b
        /\ \A j \in List : j # k => first'[j] = first[j]
    <3>1. HeadWithout(l, i) = IF first[l] # i THEN first[l] ELSE IF b = i THEN NULL ELSE b
      <4>1. CASE first[l] # i
        BY <4>1 DEF HeadWithout
      <4>2. CASE first[l] = i /\ next[i] = i
        BY <4>2 DEF HeadWithout
      <4>3. CASE first[l] = i /\ next[i] # i
        BY <4>3 DEF HeadWithout
      <4> QED BY <4>1, <4>2, <4>3
    <3>2. \A j \in List : first'[j] = IF j = l THEN HeadWithout(l, i) ELSE first[j]
      BY <1>1, <2>3
    <3> QED BY <2>2, <2>3, <2>6, <3>1, <3>2
  <2> DEFINE g == first'
             m == next'
  <2>8. Skips(next, i, a, m) /\ MovesOn(first, next, k, i, g)
    BY <2>4, <2>7 DEF Skips, MovesOn
  <2>9. \A x \in Items(w[k]) : next[x] = i => a = x
    BY <2>1, LinkFacts
  <2> HIDE DEF w, v, a, b, g, m
  <2>10. /\ Shape(g, m, Without(w, i))
         /\ \A j \in List : Items(Without(w, i)[j]) = Items(w[j]) \ {i}
    <3>1. Shape(first, next, w) /\ k \in List /\ i \in Items(w[k])
      BY <1>1, <2>2
    <3>2. Shape(g, m, Without(w, i))
      BY ONLY <2>8, <2>9, <3>1, DeleteShape
    <3>3. \A j \in List : Items(Without(w, i)[j]) = Items(w[j]) \ {i}
      BY <3>1, WithoutItems
    <3> QED BY <3>2, <3>3
  <2>11. Covers(next', v)
    <3> SUFFICES ASSUME NEW x \in Item, next'[x] # NULL
                 PROVE  \E j \in List : x \in Items(v[j])
      BY DEF Covers
    <3>1. x # i /\ next[x] # NULL
      BY <2>1, <2>4
    <3>2. PICK j \in List : x \in Items(w[j])
      BY <1>1, <3>1 DEF Covers
    <3> QED BY <2>10, <3>1, <3>2 DEF v
  <2>12. Shape(first', next', v)
    BY <2>10 DEF g, m, v
  <2>13. LinkInv' /\ Walks' = v
    BY <2>11, <2>12, LinkedAfter
  <2> QED BY <2>13 DEF v, w
<1> QED BY <1>2, <1>3

\* LINKEDLIST_SHUFFLE takes a linked item out of the list it is in and puts
\* it at the end of the named one; it leaves an item alone that is the only
\* one of that list.
LEMMA ShuffleStep ==
    ASSUME LinkInv, RingInv', NEW l \in List, NEW i \in Item, LINKEDLIST_SHUFFLE(l, i),
           ~(first[l] = i /\ next[i] = i)
    PROVE  /\ LinkInv' /\ Walks' = WithLast(Without(Walks, i), l, i)
           /\ \E k \in List : i \in Items(Walks[k])
<1> DEFINE w == Walks
           a == prev[i]
           b == next[i]
           f == IF first[l] = i THEN next[i] ELSE first[l]
           g == [first EXCEPT ![l] = f]
           n == NextWithout(i)
           p == PrevWithout(i)
           e == p[f]
           u == Without(w, i)
           v == WithLast(u, l, i)
<1>1. /\ first \in [List -> Pointer] /\ next \in [Item -> Pointer]
      /\ prev \in [Item -> Pointer]
      /\ Shape(first, next, w) /\ w \in [List -> Seq(Item)]
      /\ Covers(next, w)
  BY LinkFacts DEF LinkInv, TypeOK
<1>2. ~Unlinked(i) /\ first[l] # NULL /\ \A j \in List : j # l => first[j] # i
  BY DEF LINKEDLIST_SHUFFLE, FirstOfNoOther
<1>3. /\ a \in Item /\ b \in Item /\ next[a] = i /\ prev[b] = i
      /\ \A x \in Item : next[x] = i => x = a
      /\ \A x \in Item : next[x] = b => x = i
  BY <1>2, Neighbours
<1>4. PICK k \in List : i \in Items(w[k])
  BY <1>2, Neighbours
<1>5. /\ first' = g
      /\ next' = [n EXCEPT ![i] = f, ![e] = i]
  BY DEF LINKEDLIST_SHUFFLE, NextWith
<1>6. /\ f # NULL /\ g[l] = f /\ g \in [List -> Pointer]
      /\ \A j \in List : j # l => g[j] = first[j]
  BY <1>1, <1>2, <1>3
<1>7. /\ n \in [Item -> Pointer]
      /\ \A x \in Item : n[x] = IF x = a THEN b ELSE next[x]
      /\ \A x \in Item : p[x] = IF x = b THEN a ELSE prev[x]
  BY <1>1, <1>3 DEF NextWithout, PrevWithout
<1>8. Skips(next, i, a, n)
  BY <1>3, <1>7 DEF Skips
<1>9. MovesOn(first, next, k, i, g)
  <2>1. \A j \in List : first[j] = i => j = k
    <3>1. ASSUME NEW j \in List, first[j] = i PROVE i \in Items(w[j])
      <4>1. Along(first[j], next, w[j]) /\ first[j] # NULL
        BY <1>1, <3>1 DEF Shape
      <4> QED BY <3>1, <4>1, ItemsAlong
    <3> QED BY <1>1, <1>4, <3>1 DEF Shape
  <2>2. CASE first[l] = i
    <3>1. l = k /\ next[i] # i
      BY <2>1, <2>2
    <3> QED BY <1>6, <2>2, <3>1 DEF MovesOn
  <2>3. CASE first[l] # i
    <3>1. first[k] # i /\ g[k] = first[k]
      BY <1>1, <1>2, <1>4, <2>3
    <3> QED BY <1>1, <2>3, <3>1 DEF MovesOn
  <2> QED BY <2>2, <2>3
<1>10. \A x \in Items(w[k]) : next[x] = i => a = x
  BY <1>3, <1>4, LinkFacts
<1> HIDE DEF w, a, b, f, g, n, p, u
<1>11. Shape(g, n, u) /\ \A j \in List : Items(u[j]) = Items(w[j]) \ {i}
  <2>1. Shape(first, next, w) /\ k \in List /\ i \in Items(w[k])
    BY <1>1, <1>4
  <2>2. Shape(g, n, Without(w, i))
    BY ONLY <1>8, <1>9, <1>10, <2>1, DeleteShape
  <2>3. \A j \in List : Items(Without(w, i)[j]) = Items(w[j]) \ {i}
    BY <2>1, WithoutItems
  <2> QED BY <2>2, <2>3 DEF u
<1>12. e = u[l][Len(u[l])] /\ e \in Items(u[l]) /\ e \in Item
  <2> DEFINE s == u[l]
  <2>1. Along(f, n, s)
    BY <1>6, <1>11 DEF Shape
  <2>2. \A x \in Items(s) : p[n[x]] = x
    <3> SUFFICES ASSUME NEW x \in Items(s) PROVE p[n[x]] = x
      OBVIOUS
    <3>1. x \in Item /\ x # i /\ next[x] # NULL
      <4>1. x \in Items(w[l]) /\ x # i
        BY <1>11
      <4> QED BY <4>1, LinkFacts DEF w
    <3>2. next[x] \in Item /\ prev[next[x]] = x
      BY <1>1, <3>1, LinkFacts DEF RingsClosed
    <3>3. CASE x = a
      BY <1>3, <1>7, <3>1, <3>3
    <3>4. CASE x # a
      <4>1. next[x] # b
        BY <1>3, <3>1
      <4> QED BY <1>7, <3>1, <3>2, <3>4, <4>1
    <3> QED BY <3>3, <3>4
  <2> HIDE DEF s
  <2>3. Len(s) \in 1..Len(s) /\ Behind(s, Len(s)) = f
    BY <1>6, <2>1, ItemsAlong DEF Behind
  <2>4. p[Behind(s, Len(s))] = s[Len(s)]
    BY <2>1, <2>2, <2>3, StepBack
  <2>5. s[Len(s)] \in Items(s) /\ s[Len(s)] \in Item
    BY <2>1, <2>3, ItemsAlong
  <2> QED BY <2>3, <2>4, <2>5 DEF s
<1> HIDE DEF e
<1>13. \A j \in List : i \notin Items(u[j])
  BY <1>11
<1>14. Links(n, next', e, i, f)
  BY <1>5, <1>7, <1>12, <1>13 DEF Links
<1>15. Shape(g, next', v)
  <2> DEFINE m == next'
  <2>1. Links(n, m, u[l][Len(u[l])], i, g[l]) /\ g[l] # NULL
    BY <1>6, <1>12, <1>14
  <2> HIDE DEF m, v
  <2>2. Shape(g, m, WithLast(u, l, i))
    BY <1>6, <1>7, <1>11, <1>13, <2>1, LinkShape
  <2> QED BY <2>2 DEF m, v
<1>16. Covers(next', v)
  <2> SUFFICES ASSUME NEW x \in Item, next'[x] # NULL
               PROVE  \E j \in List : x \in Items(v[j])
    BY DEF Covers
  <2>1. u \in [List -> Seq(Item)]
    BY <1>11 DEF Shape
  <2>2. v[l] = Append(u[l], i) /\ \A j \in List : j # l => v[j] = u[j]
    BY <2>1 DEF WithLast
  <2>3. Items(Append(u[l], i)) = Items(u[l]) \union {i}
    BY <2>1, AppendMore
  <2> HIDE DEF v
  <2>4. CASE x = i
    BY <2>2, <2>3, <2>4
  <2>5. CASE x # i
    <3>1. next[x] # NULL
      <4>1. CASE x = e
        BY <1>11, <1>12, <4>1, LinkFacts DEF w
      <4>2. CASE x # e
        BY <1>3, <1>7, <1>14, <2>5, <4>2 DEF Links
      <4> QED BY <4>1, <4>2
    <3>2. PICK j \in List : x \in Items(w[j])
      BY <1>1, <3>1 DEF Covers
    <3>3. x \in Items(u[j])
      BY <1>11, <2>5, <3>2
    <3> QED BY <2>2, <2>3, <3>3
  <2> QED BY <2>4, <2>5
<1>17. Shape(first', next', v)
  BY <1>5, <1>15
<1> HIDE DEF v
<1>18. LinkInv' /\ Walks' = v
  BY <1>16, <1>17, LinkedAfter
<1> QED BY <1>4, <1>18 DEF v, u, w

\* The operators of module Lists are those of module Rings.
LEMMA SameOperators ==
    /\ \A s : Abstract!Items(s) = Items(s)
    /\ \A s, x : Abstract!Delete(s, x) = Delete(s, x)
<1>1. \A s : Abstract!Items(s) = Items(s)
  BY DEF Items, Abstract!Items
<1>2. \A s, x : Abstract!PositionOf(s, x) = PositionOf(s, x)
  BY DEF PositionOf, Abstract!PositionOf
<1> QED BY <1>1, <1>2 DEF Delete, Abstract!Delete

\* No item is linked at the start.
LEMMA LinkInit ==
    ASSUME Init
    PROVE  LinkInv /\ Walks = [l \in List |-> <<>>]
<1> DEFINE w == [l \in List |-> <<>>]
<1>1. RingInv
  BY DEF Init, RingInv, TypeOK, RingsClosed
<1>2. \A l \in List : Along(first[l], next, <<>>)
  BY EmptyItems DEF Init, Along
<1>3. <<>> \in Seq(Item) /\ \A l \in List : Items(w[l]) = {}
  BY EmptyItems
<1>4. Shape(first, next, w)
  BY <1>2, <1>3 DEF Shape
<1>5. Walks = w
  BY <1>4, WalksOf
<1>6. Covers(next, w)
  BY DEF Init, Covers
<1> QED BY <1>1, <1>4, <1>5, <1>6 DEF LinkInv

\* LINKEDLIST_APPEND puts an item that is in no list at the end of the list.
LEMMA AppendStep ==
    ASSUME LinkInv, RingInv', NEW l \in List, NEW i \in Item, LINKEDLIST_APPEND(l, i)
    PROVE  /\ LinkInv' /\ Walks' = WithLast(Walks, l, i)
           /\ \A k \in List : i \notin Items(Walks[k])
<1>1. Unlinked(i)
  BY DEF LINKEDLIST_APPEND
<1>2. \A k \in List : i \notin Items(Walks[k])
  BY <1>1, LinkFacts
<1>3. CASE LinkAlone(l, i)
  <2>1. LinkInv' /\ Walks[l] = <<>> /\ Walks' = [Walks EXCEPT ![l] = <<i>>]
    BY <1>1, <1>3, LinkAloneStep
  <2>2. Append(<<>>, i) = <<i>>
    OBVIOUS
  <2> QED BY <1>2, <2>1, <2>2 DEF WithLast
<1>4. CASE LinkBeforeFirst(l, i) /\ first' = first
  BY <1>1, <1>2, <1>4, LinkBeforeStep
<1> QED BY <1>3, <1>4 DEF LINKEDLIST_APPEND

\* LINKEDLIST_PREPEND puts an item that is in no list at the front of the
\* list.
LEMMA PrependStep ==
    ASSUME LinkInv, RingInv', NEW l \in List, NEW i \in Item, LINKEDLIST_PREPEND(l, i)
    PROVE  /\ LinkInv' /\ Walks' = WithFirst(Walks, l, i)
           /\ \A k \in List : i \notin Items(Walks[k])
<1>1. Unlinked(i)
  BY DEF LINKEDLIST_PREPEND
<1>2. \A k \in List : i \notin Items(Walks[k])
  BY <1>1, LinkFacts
<1>3. CASE LinkAlone(l, i)
  <2>1. LinkInv' /\ Walks[l] = <<>> /\ Walks' = [Walks EXCEPT ![l] = <<i>>]
    BY <1>1, <1>3, LinkAloneStep
  <2>2. <<i>> \o <<>> = <<i>>
    OBVIOUS
  <2> QED BY <1>2, <2>1, <2>2 DEF WithFirst
<1>4. CASE LinkBeforeFirst(l, i) /\ first' = [first EXCEPT ![l] = i]
  BY <1>1, <1>2, <1>4, LinkBeforeStep
<1> QED BY <1>3, <1>4 DEF LINKEDLIST_PREPEND

\* The four operations on the walks are those of module Lists.
LEMMA ListSteps ==
    ASSUME Walks \in [List -> Seq(Item)], NEW l \in List, NEW i \in Item
    PROVE  /\ Walks' = WithLast(Walks, l, i)
                 /\ (\A k \in List : i \notin Items(Walks[k]))
              => Abstract!AppendTo(l, i)
           /\ Walks' = WithFirst(Walks, l, i)
                 /\ (\A k \in List : i \notin Items(Walks[k]))
              => Abstract!PrependTo(l, i)
           /\ Walks' = Without(Walks, i) => Abstract!RemoveItem(i)
           /\ Walks' = WithLast(Without(Walks, i), l, i)
                 /\ (\E k \in List : i \in Items(Walks[k]))
              => Abstract!MoveTo(l, i)
<1>1. Abstract!Linked(i) <=> \E k \in List : i \in Items(Walks[k])
  BY SameOperators DEF Abstract!Linked
<1>2. ASSUME Walks' = WithLast(Walks, l, i), \A k \in List : i \notin Items(Walks[k])
      PROVE  Abstract!AppendTo(l, i)
  BY <1>1, <1>2 DEF WithLast, Abstract!AppendTo, Abstract!AppendItem
<1>3. ASSUME Walks' = WithFirst(Walks, l, i), \A k \in List : i \notin Items(Walks[k])
      PROVE  Abstract!PrependTo(l, i)
  BY <1>1, <1>3 DEF WithFirst, Abstract!PrependTo, Abstract!PrependItem
<1>4. ASSUME Walks' = Without(Walks, i)
      PROVE  Abstract!RemoveItem(i)
  BY <1>4, SameOperators DEF Without, Abstract!RemoveItem
<1>5. ASSUME Walks' = WithLast(Without(Walks, i), l, i),
             \E k \in List : i \in Items(Walks[k])
      PROVE  Abstract!MoveTo(l, i)
  <2> DEFINE m == [k \in List |-> IF k = l THEN Append(Delete(Walks[k], i), i)
                                           ELSE Delete(Walks[k], i)]
  <2>1. WithLast(Without(Walks, i), l, i) = m
    BY DEF WithLast, Without
  <2>2. m = [k \in List |-> IF k = l THEN Abstract!MoveToEnd(Walks[k], i)
                                     ELSE Abstract!Delete(Walks[k], i)]
    BY SameOperators DEF Abstract!MoveToEnd
  <2> QED BY <1>1, <1>5, <2>1, <2>2 DEF Abstract!MoveTo
<1> QED BY <1>2, <1>3, <1>4, <1>5

\* Every step of the macros is a step of the lists, or changes none.
LEMMA LinkNext ==
    ASSUME LinkInv, [Next]_vars
    PROVE  LinkInv' /\ [Abstract!Next]_Walks
<1>1. RingInv'
  BY RingStep DEF LinkInv
<1>2. Walks \in [List -> Seq(Item)]
  BY LinkFacts
<1>3. CASE UNCHANGED vars
  <2>1. Walks' = Walks
    BY <1>3 DEF vars, Walks, Walk
  <2>2. Shape(first', next', Walks) /\ Covers(next', Walks)
    BY <1>3 DEF LinkInv, vars
  <2> QED BY <1>1, <2>1, <2>2 DEF LinkInv
<1>4. ASSUME NEW l \in List, NEW i \in Item, LINKEDLIST_APPEND(l, i)
      PROVE  LinkInv' /\ Abstract!Next
  <2>1. LinkInv' /\ Abstract!AppendTo(l, i)
    BY <1>1, <1>2, <1>4, AppendStep, ListSteps
  <2> QED BY <2>1 DEF Abstract!Next
<1>5. ASSUME NEW l \in List, NEW i \in Item, LINKEDLIST_PREPEND(l, i)
      PROVE  LinkInv' /\ Abstract!Next
  <2>1. LinkInv' /\ Abstract!PrependTo(l, i)
    BY <1>1, <1>2, <1>5, PrependStep, ListSteps
  <2> QED BY <2>1 DEF Abstract!Next
<1>6. ASSUME NEW l \in List, NEW i \in Item, LINKEDLIST_REMOVE(l, i)
      PROVE  LinkInv' /\ Abstract!Next
  <2>1. LinkInv' /\ Abstract!RemoveItem(i)
    BY <1>1, <1>2, <1>6, RemoveStep, ListSteps
  <2> QED BY <2>1 DEF Abstract!Next
<1>7. ASSUME NEW l \in List, NEW i \in Item, LINKEDLIST_SHUFFLE(l, i),
             ~(first[l] = i /\ next[i] = i)
      PROVE  LinkInv' /\ Abstract!Next
  <2>1. LinkInv' /\ Abstract!MoveTo(l, i)
    BY <1>1, <1>2, <1>7, ShuffleStep, ListSteps
  <2> QED BY <2>1 DEF Abstract!Next
<1>8. ASSUME NEW l \in List, NEW i \in Item, LINKEDLIST_SHUFFLE(l, i),
             first[l] = i /\ next[i] = i
      PROVE  UNCHANGED vars
  BY <1>8 DEF LINKEDLIST_SHUFFLE
<1> QED BY <1>3, <1>4, <1>5, <1>6, <1>7, <1>8 DEF Next

\* The pointers implement the lists: what a caller sees by walking from the
\* head of each list is, at all times, what appending, prepending, removing
\* and moving items would make of sequences of items.
THEOREM ListsImplemented == Spec => ImplementsLists
<1>1. Init => LinkInv /\ Abstract!Init
  BY LinkInit DEF Abstract!Init
<1>2. LinkInv /\ [Next]_vars => LinkInv' /\ [Abstract!Next]_Walks
  BY LinkNext
<1> QED BY <1>1, <1>2, PTL DEF Spec, ImplementsLists, Abstract!Spec

=============================================================================
