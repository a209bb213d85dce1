--------------------------- MODULE EventLoopProofs ---------------------------
(***************************************************************************)
(* Proofs about the table of callbacks of the event loop, for every number *)
(* of descriptors, every length of the table and every length of a batch.  *)
(***************************************************************************)
EXTENDS EventLoop, RingTheorems

\* A descriptor in use has an element of its own, one that is not has none.
OwnElement ==
    \A f \in Index :
        IF f \in Fd /\ sock[f] # 0
        THEN table[f].fd = f /\ table[f].data = sock[f]
        ELSE table[f] = FreeElement

\* The kernel watches only what the table has, with the flags the table has,
\* and everything in the table that it did not refuse.
Watched ==
    \A f \in Fd :
        /\ kernel[f] # {} => f \in Index /\ sock[f] # 0 /\ kernel[f] = table[f].events
        /\ f \in Index /\ sock[f] # 0 /\ sock[f] \notin refused => kernel[f] # {}

\* A connection holds one descriptor, and its number has been given out.
OneHolder ==
    /\ \A f \in Fd : sock[f] <= accepted
    /\ \A f, g \in Fd : sock[f] = sock[g] /\ sock[f] # 0 => f = g
    /\ \A c \in refused : c <= accepted

\* While a batch is worked off there is a current event, and its descriptor
\* has a place in the table.
BatchInTable ==
    /\ batch = <<>> <=> stage = "wait"
    /\ \A k \in DOMAIN batch : batch[k].fd \in Index

TableInv == OwnElement /\ Watched /\ OneHolder

LoopInv == TypeOK /\ TableInv /\ BatchInTable

-----------------------------------------------------------------------------
(* What the application does keeps the table.                              *)

\* The types of what callbacks change.
TableType ==
    /\ table \in [Index -> Element]
    /\ kernel \in [Fd -> SUBSET Flag]
    /\ sock \in [Fd -> Conn \union {0}]
    /\ accepted \in 0 .. MAX_CONN
    /\ hung \subseteq Conn /\ refused \subseteq Conn

\* The connections and descriptors are numbers, and no descriptor is negative.
LEMMA Numbers == Fd \subseteq Nat /\ Index \subseteq Nat /\ Conn \subseteq Nat \ {0}
BY EventLoopAssumption DEF Fd, Index, Conn

\* A set of descriptors that is not empty has a lowest one.
LEMMA LowestFree ==
    ASSUME NEW S \in SUBSET Fd, S # {}
    PROVE  Lowest(S) \in S
<1>1. S \subseteq Nat
  BY Numbers
<1>2. \E i \in S : \A j \in S : i <= j
  BY <1>1, LeastNatural
<1> QED BY <1>2 DEF Lowest

\* Watching a connection also for writing keeps the table.
LEMMA WatchTable ==
    ASSUME TableType, TableInv, NEW f \in Fd, WatchWrite(f)
    PROVE  TableType' /\ TableInv'
<1>1. CASE f \notin Index
  BY <1>1 DEF WatchWrite, epoll_event_add, TableType, TableInv, OwnElement, Watched, OneHolder
<1>2. CASE f \in Index
  <2>1. table[f].fd = f /\ table[f].data = sock[f] /\ sock[f] # 0 /\ f >= 0
    BY <1>2, Numbers DEF WatchWrite, TableInv, OwnElement
  <2>2. Update(f, {"out"}) /\ UNCHANGED <<sock, accepted, hung, refused>>
    BY <1>2, <2>1 DEF WatchWrite, epoll_event_add, Update
  <2>3. /\ table' = [table EXCEPT ![f].events = @ \union {"out"}]
        /\ kernel' = [kernel EXCEPT ![f] = IF @ = {} THEN {} ELSE table[f].events \union {"out"}]
    BY <2>2 DEF Update
  <2>4. table[f] \in Element /\ kernel[f] \in SUBSET Flag
    BY <1>2 DEF TableType
  <2> DEFINE e == [table[f] EXCEPT !.events = @ \union {"out"}]
  <2>11. /\ e \in Element /\ e.fd = table[f].fd /\ e.data = table[f].data
        /\ e.events = table[f].events \union {"out"}
    BY <2>4 DEF Element, Flag
  <2>12. table' = [table EXCEPT ![f] = e]
    BY <1>2, <2>3 DEF TableType
  <2> HIDE DEF e
  <2>5. /\ table'[f] \in Element
        /\ table'[f].fd = f /\ table'[f].data = sock[f]
        /\ table'[f].events = table[f].events \union {"out"}
    BY <1>2, <2>1, <2>11, <2>12 DEF TableType
  <2>6. /\ \A g \in Index \ {f} : table'[g] = table[g]
        /\ \A g \in Fd \ {f} : kernel'[g] = kernel[g]
        /\ kernel'[f] = IF kernel[f] = {} THEN {} ELSE table[f].events \union {"out"}
    BY <2>3, <2>12 DEF TableType
  <2>7. TableType'
    <3>1. table' \in [Index -> Element]
      BY <2>11, <2>12 DEF TableType
    <3>2. (IF kernel[f] = {} THEN {} ELSE table[f].events \union {"out"}) \in SUBSET Flag
      BY <2>4 DEF Element, Flag
    <3>3. kernel' \in [Fd -> SUBSET Flag]
      BY <2>3, <3>2 DEF TableType
    <3> QED BY <2>2, <3>1, <3>3 DEF TableType
  <2>8. OwnElement'
    BY <2>2, <2>5, <2>6, <1>2, <2>1 DEF TableInv, OwnElement
  <2>9. Watched'
    BY <2>2, <2>5, <2>6, <1>2, <2>1 DEF TableInv, Watched
  <2>10. OneHolder'
    BY <2>2 DEF TableInv, OneHolder
  <2> QED BY <2>7, <2>8, <2>9, <2>10 DEF TableInv
<1> QED BY <1>1, <1>2

\* Closing a connection frees the element of its descriptor and no other.
LEMMA CloseTable ==
    ASSUME TableType, TableInv, NEW f \in Fd, Close(f)
    PROVE  TableType' /\ TableInv'
<1>1. /\ sock[f] # 0
      /\ sock' = [sock EXCEPT ![f] = 0]
      /\ kernel' = [kernel EXCEPT ![f] = {}]
      /\ table' = IF f \in Index THEN [table EXCEPT ![f] = FreeElement] ELSE table
      /\ hung' = hung \ {sock[f]}
      /\ refused' = refused \ {sock[f]}
      /\ accepted' = accepted
  BY DEF Close, epoll_event_remove, Removed
<1>2. FreeElement \in Element
  BY DEF FreeElement, Element
<1>3. TableType'
  BY <1>1, <1>2 DEF TableType
<1>4. /\ \A g \in Index \ {f} : table'[g] = table[g]
      /\ f \in Index => table'[f] = FreeElement
      /\ \A g \in Fd \ {f} : kernel'[g] = kernel[g] /\ sock'[g] = sock[g]
      /\ kernel'[f] = {} /\ sock'[f] = 0
  BY <1>1 DEF TableType
<1>5. OwnElement'
  BY <1>4 DEF TableInv, OwnElement
<1>6. Watched'
  BY <1>1, <1>4 DEF TableInv, Watched, OneHolder
<1>7. OneHolder'
  BY <1>1, <1>4 DEF TableInv, OneHolder, TableType
<1> QED BY <1>3, <1>5, <1>6, <1>7 DEF TableInv

\* A connection that is accepted gets a descriptor whose element is free.
LEMMA AcceptTable ==
    ASSUME TableType, TableInv, Accept
    PROVE  TableType' /\ TableInv'
<1> DEFINE f == Lowest({g \in Fd : sock[g] = 0})
           c == accepted + 1
<1>1. f \in Fd /\ sock[f] = 0
  BY LowestFree DEF Accept
<1>2. /\ accepted < MAX_CONN
      /\ sock' = [sock EXCEPT ![f] = c]
      /\ accepted' = c
      /\ epoll_event_add(f, c, {"in"})
      /\ hung' = hung
  BY DEF Accept
<1>3. c \in Conn /\ accepted \in Nat
  BY <1>2, EventLoopAssumption DEF TableType, Conn
<1>4. c \notin refused /\ c # 0 /\ \A g \in Fd : sock[g] # c
  <2>1. \A n \in Conn \union {0} : n <= accepted => n # accepted + 1
    BY <1>3, Numbers
  <2> QED BY <1>3, <2>1, Numbers DEF TableInv, OneHolder, TableType
<1> HIDE DEF f
<1>5. /\ \A g \in Fd \ {f} : sock'[g] = sock[g]
      /\ sock'[f] = c
      /\ sock' \in [Fd -> Conn \union {0}]
  BY <1>1, <1>2, <1>3 DEF TableType
<1>6. accepted' \in 0 .. MAX_CONN
  BY <1>2, <1>3, EventLoopAssumption DEF Conn
<1>7. /\ \A g \in Fd : sock'[g] <= accepted'
      /\ \A g, h \in Fd : sock'[g] = sock'[h] /\ sock'[g] # 0 => g = h
  <2>1. \A n \in Conn \union {0} : n <= accepted => n <= c
    BY <1>3, Numbers
  <2> QED BY <1>1, <1>2, <1>3, <1>4, <1>5, <2>1 DEF TableInv, OneHolder, TableType
<1>8. refused' \subseteq refused \union {c}
  BY <1>2 DEF epoll_event_add, Update, Add
<1>9. OneHolder'
  <2>1. \A n \in Conn : n <= accepted => n <= c
    BY <1>3, Numbers
  <2>2. \A d \in refused' : d <= accepted'
    BY <1>2, <1>3, <1>8, <2>1 DEF TableInv, OneHolder, TableType
  <2> QED BY <1>7, <2>2 DEF OneHolder
<1>10. CASE f \notin Index
  <2>1. UNCHANGED <<table, kernel, refused>>
    BY <1>2, <1>10 DEF epoll_event_add
  <2>2. TableType'
    BY <1>2, <1>5, <1>6, <2>1 DEF TableType
  <2>3. OwnElement' /\ Watched'
    BY <1>1, <1>5, <1>10, <2>1 DEF TableInv, OwnElement, Watched
  <2> QED BY <1>9, <2>2, <2>3 DEF TableInv
<1>11. CASE f \in Index
  <2>1. table[f] = FreeElement
    BY <1>1, <1>11 DEF TableInv, OwnElement
  <2>2. Add(f, c, {"in"})
    BY <1>2, <1>11, <2>1 DEF epoll_event_add, FreeElement
  <2> DEFINE e == [fd |-> f, data |-> c, events |-> {"in"}]
  <2>3. e \in Element /\ e.fd = f /\ e.data = c /\ e.events = {"in"}
    BY <1>1, <1>3 DEF Element, Flag
  <2>4. table' = [table EXCEPT ![f] = e]
    BY <2>2 DEF Add, NewElement
  <2> HIDE DEF e, c
  <2>5. kernel[f] = {}
    BY <1>1 DEF TableInv, Watched
  <2>6. \/ kernel' = [kernel EXCEPT ![f] = {"in"}] /\ refused' = refused
        \/ kernel' = kernel /\ refused' = refused \union {c}
    BY <2>2 DEF Add
  <2>7. /\ table' \in [Index -> Element]
        /\ table'[f] = e
        /\ \A g \in Index \ {f} : table'[g] = table[g]
    BY <1>11, <2>3, <2>4 DEF TableType
  <2>8. /\ kernel' \in [Fd -> SUBSET Flag]
        /\ \A g \in Fd \ {f} : kernel'[g] = kernel[g]
        /\ \/ kernel'[f] = {"in"}
           \/ kernel'[f] = {} /\ c \in refused'
    BY <1>1, <2>5, <2>6 DEF TableType, Flag
  <2>9. TableType'
    BY <1>2, <1>3, <1>5, <1>6, <1>8, <2>7, <2>8 DEF TableType
  <2>10. OwnElement'
    BY <1>1, <1>4, <1>5, <2>3, <2>7 DEF TableInv, OwnElement
  <2>11. Watched'
    <3>1. refused \subseteq refused'
      BY <2>6
    <3>2. {"in"} # {}
      OBVIOUS
    <3>3. ASSUME NEW g \in Fd, g # f
          PROVE  /\ kernel'[g] # {} => g \in Index /\ sock'[g] # 0 /\ kernel'[g] = table'[g].events
                 /\ g \in Index /\ sock'[g] # 0 /\ sock'[g] \notin refused' => kernel'[g] # {}
      <4>1. kernel'[g] = kernel[g] /\ sock'[g] = sock[g] /\ (g \in Index => table'[g] = table[g])
        BY <1>5, <2>7, <2>8, <3>3
      <4> QED BY <3>1, <4>1 DEF TableInv, Watched
    <3>4. /\ kernel'[f] # {} => f \in Index /\ sock'[f] # 0 /\ kernel'[f] = table'[f].events
          /\ f \in Index /\ sock'[f] # 0 /\ sock'[f] \notin refused' => kernel'[f] # {}
      BY <1>4, <1>5, <1>11, <2>3, <2>7, <2>8, <3>2
    <3> QED BY <3>3, <3>4 DEF Watched
  <2> QED BY <1>9, <2>9, <2>10, <2>11 DEF TableInv
<1> QED BY <1>10, <1>11

\* What leaves the table, the descriptors and the kernel alone keeps them,
\* also when a peer hangs up.
LEMMA SameTable ==
    ASSUME TableType, TableInv, UNCHANGED <<table, kernel, sock, accepted, refused>>,
           hung' \subseteq Conn
    PROVE  TableType' /\ TableInv'
BY DEF TableType, TableInv, OwnElement, Watched, OneHolder

-----------------------------------------------------------------------------
(* The batch.                                                              *)

\* TypeOK is the types of the table and those of the batch.
LEMMA TypeSplit == TypeOK <=> /\ TableType
                              /\ batch \in Seq(Event)
                              /\ stage \in {"wait", "out", "in", "hup"}
                              /\ failed \in BOOLEAN
BY DEF TypeOK, TableType

\* The kernel reports events of descriptors in the table.
LEMMA WaitKeeps ==
    ASSUME LoopInv, epoll_wait
    PROVE  LoopInv'
<1>1. TableType /\ TableInv
  BY TypeSplit DEF LoopInv
<1>2. TableType' /\ TableInv'
  BY <1>1, SameTable DEF epoll_wait, TableType
<1>3. \A r \in Ready : r \in Event /\ r.fd \in Index
  <2> SUFFICES ASSUME NEW f \in Fd, NEW e \in Reports(f)
               PROVE  /\ [fd |-> f, events |-> e] \in Event
                      /\ f \in Index
    BY DEF Ready
  <2>1. kernel[f] # {} /\ e \subseteq kernel[f] \union {"hup"}
    BY DEF Reports
  <2>2. e \in SUBSET (Flag \union {"hup"})
    BY <1>1, <2>1 DEF TableType
  <2>3. f \in Index
    BY <1>1, <2>1 DEF TableInv, Watched
  <2> QED BY <2>2, <2>3 DEF Event
<1>4. PICK n \in 1 .. MAX_EVENT : batch' \in [1 .. n -> Ready]
  BY DEF epoll_wait, Batches
<1>5. n \in Nat /\ n > 0
  BY <1>4, EventLoopAssumption
<1>6. batch' \in Seq(Event) /\ batch' # <<>> /\ DOMAIN batch' = 1 .. n
  BY <1>3, <1>4, <1>5
<1>7. \A k \in DOMAIN batch' : batch'[k].fd \in Index
  BY <1>3, <1>4, <1>6
<1>8. stage' = "out" /\ failed' = FALSE
  BY DEF epoll_wait
<1>9. TypeOK'
  BY <1>2, <1>6, <1>8, TypeSplit DEF TypeOK, TableType
<1> QED BY <1>2, <1>6, <1>7, <1>8, <1>9 DEF LoopInv, BatchInTable

\* Going on to the next event, or back to epoll_wait behind the last one.
LEMMA NextEventKeeps ==
    ASSUME LoopInv, stage # "wait", NextEvent
    PROVE  /\ batch' \in Seq(Event) /\ stage' \in {"wait", "out"} /\ failed' = FALSE
           /\ BatchInTable'
<1>1. batch \in Seq(Event) /\ batch # <<>>
  BY DEF LoopInv, TypeOK, BatchInTable
<1>2. batch' = Tail(batch) /\ stage' = (IF Len(batch) = 1 THEN "wait" ELSE "out") /\ failed' = FALSE
  BY DEF NextEvent
<1>3. /\ batch' \in Seq(Event)
      /\ Len(batch') = Len(batch) - 1
      /\ \A k \in 1 .. Len(batch) - 1 : batch'[k] = batch[k + 1]
  BY <1>1, <1>2
<1>4. batch' = <<>> <=> stage' = "wait"
  <2>1. batch' = <<>> <=> Len(batch') = 0
    BY <1>3
  <2>2. Len(batch') = 0 <=> Len(batch) = 1
    BY <1>1, <1>3
  <2> QED BY <1>2, <2>1, <2>2
<1>5. \A k \in DOMAIN batch' : batch'[k].fd \in Index
  <2> SUFFICES ASSUME NEW k \in DOMAIN batch' PROVE batch'[k].fd \in Index
    OBVIOUS
  <2>1. k \in 1 .. Len(batch) - 1 /\ k + 1 \in DOMAIN batch
    BY <1>1, <1>3
  <2> QED BY <1>3, <2>1 DEF LoopInv, BatchInTable
<1> QED BY <1>2, <1>3, <1>4, <1>5 DEF BatchInTable

\* The current event is about a descriptor.
LEMMA CurrentEvent ==
    ASSUME LoopInv, stage # "wait"
    PROVE  batch[1] \in Event /\ batch[1].fd \in Fd /\ batch[1].fd \in Index
<1>1. batch \in Seq(Event) /\ batch # <<>>
  BY DEF LoopInv, TypeOK, BatchInTable
<1>2. 1 \in DOMAIN batch
  BY <1>1
<1>3. batch[1] \in Event
  BY <1>1, <1>2
<1> QED BY <1>2, <1>3 DEF LoopInv, BatchInTable, Event

\* Whatever a callback does, the table is kept.
LEMMA CallbackTable ==
    ASSUME TableType, TableInv,
           Nothing \/ Accept \/ \E f \in Fd : Close(f) \/ WatchWrite(f)
    PROVE  TableType' /\ TableInv'
<1>1. CASE Nothing
  BY <1>1, SameTable DEF Nothing, TableType
<1>2. CASE Accept
  BY <1>2, AcceptTable
<1>3. ASSUME NEW f \in Fd, Close(f) PROVE TableType' /\ TableInv'
  BY <1>3, CloseTable
<1>4. ASSUME NEW f \in Fd, WatchWrite(f) PROVE TableType' /\ TableInv'
  BY <1>4, WatchTable
<1> QED BY <1>1, <1>2, <1>3, <1>4

\* A step that keeps the table and goes on inside the current event.
LEMMA StageKeeps ==
    ASSUME LoopInv, stage # "wait", TableType' /\ TableInv',
           batch' = batch, stage' \in {"in", "hup"}, failed' \in BOOLEAN
    PROVE  LoopInv'
BY DEF LoopInv, TypeOK, TableType, BatchInTable

\* Every step keeps the invariant.
LEMMA StepKeeps ==
    ASSUME LoopInv, [Next]_vars
    PROVE  LoopInv'
<1>1. TableType /\ TableInv
  BY TypeSplit DEF LoopInv
<1>2. CASE Application
  <2>1. TableType' /\ TableInv'
    BY <1>1, <1>2, CallbackTable DEF Application
  <2>2. UNCHANGED <<batch, stage, failed>>
    BY <1>2 DEF Application, loop
  <2> QED BY <2>1, <2>2 DEF LoopInv, TypeOK, TableType, BatchInTable
<1>3. CASE PeerHangsUp
  <2>1. UNCHANGED <<table, kernel, sock, accepted, refused, batch, stage, failed>>
    BY <1>3 DEF PeerHangsUp, loop
  <2>2. hung' \subseteq Conn
    <3>1. PICK f \in Fd : sock[f] # 0 /\ hung' = hung \union {sock[f]}
      BY <1>3 DEF PeerHangsUp
    <3> QED BY <1>1, <3>1 DEF TableType
  <2>3. TableType' /\ TableInv'
    BY <1>1, <2>1, <2>2, SameTable
  <2> QED BY <2>1, <2>3 DEF LoopInv, TypeOK, TableType, BatchInTable
<1>4. CASE epoll_wait
  BY <1>4, WaitKeeps
<1>5. CASE WriteCallback
  <2>1. stage # "wait" /\ stage' = "in" /\ batch' = batch
    BY <1>5 DEF WriteCallback
  <2>2. Works \/ Fails
    BY <1>5 DEF WriteCallback
  <2>3. TableType' /\ TableInv'
    BY <1>1, <2>1, <2>2, CallbackTable, CurrentEvent DEF Works, Fails
  <2> QED BY <2>1, <2>2, <2>3, StageKeeps DEF Works, Fails
<1>6. CASE ReadCallback
  <2>1. stage # "wait" /\ stage' = "hup" /\ batch' = batch
    BY <1>6 DEF ReadCallback
  <2>2. Works \/ Fails
    BY <1>6 DEF ReadCallback
  <2>3. TableType' /\ TableInv'
    BY <1>1, <2>1, <2>2, CallbackTable, CurrentEvent DEF Works, Fails
  <2> QED BY <2>1, <2>2, <2>3, StageKeeps DEF Works, Fails
<1>7. CASE CloseCallback
  <2>1. stage # "wait" /\ Close(batch[1].fd) /\ NextEvent
    BY <1>7 DEF CloseCallback
  <2>2. TableType' /\ TableInv'
    BY <1>1, <2>1, CurrentEvent, CloseTable
  <2>3. /\ batch' \in Seq(Event) /\ stage' \in {"wait", "out"} /\ failed' = FALSE
        /\ BatchInTable'
    BY <2>1, NextEventKeeps
  <2> QED BY <2>2, <2>3 DEF LoopInv, TypeOK, TableType
<1>8. CASE Skip
  <2>1. UNCHANGED <<table, kernel, sock, accepted, hung, refused>>
    BY <1>8 DEF Skip
  <2>2. TableType' /\ TableInv'
    BY <1>1, <2>1, SameTable DEF TableType
  <2>3. CASE stage # "wait" /\ stage' \in {"in", "hup"} /\ UNCHANGED <<batch, failed>>
    BY <2>2, <2>3, StageKeeps DEF LoopInv, TypeOK
  <2>4. CASE stage # "wait" /\ NextEvent
    <3>1. /\ batch' \in Seq(Event) /\ stage' \in {"wait", "out"} /\ failed' = FALSE
          /\ BatchInTable'
      BY <2>4, NextEventKeeps
    <3> QED BY <2>2, <3>1 DEF LoopInv, TypeOK, TableType
  <2> QED BY <1>8, <2>3, <2>4 DEF Skip
<1>9. CASE UNCHANGED vars
  BY <1>9 DEF vars, LoopInv, TypeOK, TableInv, OwnElement, Watched, OneHolder, BatchInTable
<1> QED BY <1>2, <1>3, <1>4, <1>5, <1>6, <1>7, <1>8, <1>9 DEF Next, Process

\* An empty table, and no batch.
LEMMA InitLoop == Init => LoopInv
<1> SUFFICES ASSUME Init PROVE LoopInv
  OBVIOUS
<1>1. FreeElement \in Element
  BY DEF FreeElement, Element
<1>2. TypeOK
  <2>1. /\ kernel \in [Fd -> SUBSET Flag] /\ sock \in [Fd -> Conn \union {0}]
        /\ table \in [Index -> Element]
    BY <1>1 DEF Init
  <2>2. accepted \in 0 .. MAX_CONN /\ batch \in Seq(Event)
    BY EventLoopAssumption DEF Init
  <2> QED BY <2>1, <2>2 DEF Init, TypeOK
<1>3. TableInv
  BY EventLoopAssumption DEF Init, TableInv, OwnElement, Watched, OneHolder
<1> QED BY <1>2, <1>3 DEF Init, LoopInv, BatchInTable

\* Every connection in the table is watched with its own element.
LEMMA WatchedFollows == LoopInv => WatchedUnlessRefused
<1> SUFFICES ASSUME LoopInv, NEW f \in Index \intersect Fd,
                    sock[f] # 0, sock[f] \notin refused
             PROVE  /\ kernel[f] # {}
                    /\ table[f] = [fd |-> f, data |-> sock[f], events |-> kernel[f]]
  BY DEF WatchedUnlessRefused
<1>1. kernel[f] # {} /\ kernel[f] = table[f].events
  BY DEF LoopInv, TableInv, Watched
<1>2. table[f].fd = f /\ table[f].data = sock[f]
  BY DEF LoopInv, TableInv, OwnElement
<1>3. table[f] \in Element
  BY DEF LoopInv, TypeOK
<1> QED BY <1>1, <1>2, <1>3 DEF Element

\* Callbacks are those of the connection that holds the descriptor.
LEMMA CallsFollow == LoopInv => CallsAreRegistered
<1> SUFFICES ASSUME LoopInv, stage # "wait", MayCall
             PROVE  value.fd = batch[1].fd /\ value.data = sock[batch[1].fd]
  BY DEF CallsAreRegistered
<1>1. batch[1].fd \in Fd /\ batch[1].fd \in Index
  BY CurrentEvent
<1>2. table[batch[1].fd] # FreeElement
  BY DEF MayCall, value, FreeElement
<1> QED BY <1>1, <1>2 DEF LoopInv, TableInv, OwnElement, value

\* The invariant holds in every state of the loop.
LEMMA LoopInvariant == Spec => []LoopInv
<1>1. LoopInv /\ [Next]_vars => LoopInv'
  BY StepKeeps
<1> QED BY InitLoop, <1>1, PTL DEF Spec

\* The events of a batch and what the callbacks leave in the table stay of
\* their types, whatever descriptors the kernel hands out.
THEOREM LoopTypeCorrect == Spec => []TypeOK
<1>1. LoopInv => TypeOK
  BY DEF LoopInv
<1> QED BY LoopInvariant, <1>1, PTL

\* Whatever the callbacks of a batch close and accept, every callback that
\* epoll_event_process calls belongs to the connection that holds the
\* descriptor at that moment.
THEOREM CallbacksCorrect == Spec => []CallsAreRegistered
BY LoopInvariant, CallsFollow, PTL

\* Every connection whose descriptor has a place in the table is watched with
\* its own element and its own flags, unless the kernel refused it.
THEOREM ConnectionsWatched == Spec => []WatchedUnlessRefused
BY LoopInvariant, WatchedFollows, PTL

=============================================================================
