------------------------ MODULE LdapClientPoolProofs ------------------------
(***************************************************************************)
(* The safety properties of the LDAP connection pool: its queues, its      *)
(* count of connections, the way of a request from the queue to its        *)
(* answer, the counts and limits of concurrent requests and the timers.    *)
(*                                                                         *)
(* First the queues.  The inductive invariant is QueueInv: it adds to      *)
(* QueueDiscipline that nothing is received before the bind response, so   *)
(* that the queue juggling of LDAP_clnt_decode never meets a connection    *)
(* that is not bound.                                                      *)
(***************************************************************************)
EXTENDS LdapClientProofs

USE DEF AppendItem

\* A step that leaves the queues and the states alone, and receives only on
\* connections that are bound, keeps the queue invariant.
LEMMA QueuesUntouched ==
    ASSUME QueueInv, UNCHANGED <<open, ready_queue, wait_queue, corrupt>>,
           open \subseteq Slot,
           \A d \in Slot :
               /\ lc'[d].state = lc[d].state
               /\ \/ lc[d].state \in {"READY", "WAITING"}
                  \/ lc'[d].r_buffer = lc[d].r_buffer
    PROVE  QueueInv'
<1>1. UnboundReceivesNothing'
  BY DEF QueueInv, UnboundReceivesNothing
<1>2. QueuesLinkOpenOnce <=> QueuesLinkOpenOnce'
  BY DEF QueuesLinkOpenOnce
<1>3. QueuesMatchState => QueuesMatchState'
  BY DEF QueuesMatchState
<1> QED BY <1>1, <1>2, <1>3 DEF QueueInv, QueueDiscipline

\* Closing a connection takes it out of whatever queue it is in.
LEMMA CloseQueues ==
    ASSUME TypeOK, QueueInv, ~corrupt, NEW c \in Slot, Close(c)
    PROVE  QueueInv'
<1>1. /\ ready_queue \in Seq(Slot) /\ NoRepeat(ready_queue)
      /\ wait_queue \in Seq(Slot) /\ NoRepeat(wait_queue)
  BY DEF TypeOK, QueueInv, QueueDiscipline, QueuesLinkOpenOnce
<1>2. /\ NoRepeat(ready_queue') /\ NoRepeat(wait_queue')
      /\ Items(ready_queue') = Items(ready_queue) \ {c}
      /\ Items(wait_queue') = Items(wait_queue) \ {c}
  BY <1>1, DeleteItems DEF Close
<1>3. open' = open \ {c} /\ \A d \in Slot : d # c => lc'[d] = lc[d]
  BY DEF Close, TypeOK
<1>4. lc'[c].state = "OPEN" /\ lc'[c].r_buffer = <<>>
  BY DEF Close, TypeOK, NewClient
<1>5. UnboundReceivesNothing'
  BY <1>3, <1>4 DEF QueueInv, UnboundReceivesNothing
<1>6. QueuesLinkOpenOnce'
  BY <1>2, <1>3 DEF QueueInv, QueueDiscipline, QueuesLinkOpenOnce
<1>7. QueuesMatchState'
  BY <1>2, <1>3 DEF TypeOK, QueueInv, QueueDiscipline, QueuesMatchState
<1> QED BY <1>5, <1>6, <1>7 DEF QueueInv, QueueDiscipline

\* A new connection is linked in the wait queue, or in none when there was
\* no memory for its buffer.
LEMMA OpenQueues ==
    ASSUME TypeOK, QueueInv, LDAP_clnt_open \/ LDAP_clnt_open_no_memory
    PROVE  QueueInv'
<1> DEFINE c == FirstFree
<1>1. /\ open \subseteq Slot /\ open # Slot /\ TakeSlot(c) /\ ~corrupt
      /\ wait_queue' = Append(wait_queue, c) \/ wait_queue' = wait_queue
  BY DEF TypeOK, LDAP_clnt_open, LDAP_clnt_open_no_memory, MayOpen, Idle
<1>2. c \in Slot \ open
  BY <1>1, FirstFreeIsFree
<1> HIDE DEF c
<1>3. QueuesLinkOpenOnce /\ QueuesMatchState /\ wait_queue \in Seq(Slot)
  BY <1>1 DEF QueueInv, QueueDiscipline, TypeOK
<1>4. /\ NoRepeat(wait_queue')
      /\ \/ Items(wait_queue') = Items(wait_queue)
         \/ Items(wait_queue') = Items(wait_queue) \union {c}
  <2>1. NoRepeat(wait_queue) /\ c \notin Items(wait_queue)
    BY <1>2, <1>3 DEF QueuesLinkOpenOnce
  <2>2. /\ NoRepeat(Append(wait_queue, c))
        /\ Items(Append(wait_queue, c)) = Items(wait_queue) \union {c}
    BY <1>2, <1>3, <2>1, AppendItems
  <2> QED BY <1>1, <2>1, <2>2
<1>5. /\ open' = open \union {c} /\ ready_queue' = ready_queue
      /\ \A d \in Slot : d # c => lc'[d] = lc[d]
      /\ lc'[c].state = "OPEN" /\ lc'[c].r_buffer = <<>>
  BY <1>1, <1>2 DEF TakeSlot, TypeOK, NewClient
<1>6. UnboundReceivesNothing'
  BY <1>5 DEF QueueInv, UnboundReceivesNothing
<1>7. QueuesLinkOpenOnce'
  BY <1>2, <1>3, <1>4, <1>5 DEF QueuesLinkOpenOnce
<1>8. QueuesMatchState'
  BY <1>1, <1>2, <1>3, <1>4, <1>5 DEF QueuesMatchState, QueuesLinkOpenOnce
<1> QED BY <1>6, <1>7, <1>8 DEF QueueInv, QueueDiscipline

\* Steps that only touch the buffers and timers of a connection.
LEMMA BufferQueues ==
    ASSUME TypeOK, QueueInv, NEW c \in Slot,
           \/ LDAP_clnt_write(c) \/ LDAP_clnt_read(c)
           \/ SendOn(c) \/ SendKeepalive(c)
    PROVE  QueueInv'
<1>1. lc \in [Slot -> LDAP_CLNT] /\ open \subseteq Slot
  BY DEF TypeOK
<1>2. \A d \in Slot : d # c => lc'[d] = lc[d]
  BY <1>1 DEF LDAP_clnt_write, LDAP_clnt_read, SendOn, SendKeepalive
<1>3. UNCHANGED <<open, ready_queue, wait_queue, corrupt>>
  BY DEF LDAP_clnt_write, LDAP_clnt_read, SendOn, SendKeepalive, queues
<1>4. CASE LDAP_clnt_write(c)
  <2>1. lc'[c].state = lc[c].state /\ lc'[c].r_buffer = lc[c].r_buffer
    <3> DEFINE done(r) == (lc[c].w_curr + r) \div MSG_LEN
               part(r) == (lc[c].w_curr + r) % MSG_LEN
               left(r) == Unsent(c, done(r))
    <3>1. PICK r \in 1..SendLimit(c) :
            lc' = [lc EXCEPT ![c].w_buffer = left(r), ![c].w_curr = part(r),
                             ![c].write_time = WriteTimer(left(r)),
                             ![c].keepalive_time = @ \/ (left(r) = <<>>)]
      BY <1>4 DEF LDAP_clnt_write
    <3> HIDE DEF left, part
    <3> QED BY <1>1, <3>1 DEF LDAP_CLNT
  <2> QED BY <1>1, <1>2, <1>3, <2>1, QueuesUntouched
<1>5. CASE LDAP_clnt_read(c)
  <2>1. lc'[c].state = lc[c].state /\ lc[c].state \in {"READY", "WAITING"}
    <3> DEFINE done(r) == (lc[c].r_part + r) \div MSG_LEN
               part(r) == (lc[c].r_part + r) % MSG_LEN
               buf(r) == lc[c].r_buffer \o SubSeq(net[c].inbox, 1, done(r))
    <3>1. PICK r \in 1..in_len(c) :
            lc' = [lc EXCEPT ![c].r_buffer = buf(r), ![c].r_part = part(r),
                             ![c].read_time = TRUE]
      BY <1>1, <1>5 DEF LDAP_clnt_read
    <3> HIDE DEF buf, part
    <3>2. lc'[c].state = lc[c].state
      BY <1>1, <3>1 DEF LDAP_CLNT
    <3>3. lc[c].state \in {"READY", "WAITING"}
      BY <1>5 DEF LDAP_clnt_read
    <3> QED BY <3>2, <3>3
  <2> QED BY <1>1, <1>2, <1>3, <2>1, QueuesUntouched
<1>6. CASE SendOn(c)
  <2>1. lc'[c].state = lc[c].state /\ lc'[c].r_buffer = lc[c].r_buffer
    BY <1>1, <1>6 DEF SendOn, LDAP_CLNT
  <2> QED BY <1>1, <1>2, <1>3, <2>1, QueuesUntouched
<1>7. CASE SendKeepalive(c)
  <2>1. lc'[c].state = lc[c].state /\ lc'[c].r_buffer = lc[c].r_buffer
    BY <1>1, <1>7 DEF SendKeepalive, LDAP_CLNT
  <2> QED BY <1>1, <1>2, <1>3, <2>1, QueuesUntouched
<1> QED BY <1>4, <1>5, <1>6, <1>7

\* The bind request leaves the connection in the wait queue.
LEMMA SendBindQueues ==
    ASSUME TypeOK, QueueInv, NEW c \in Slot, SendBind(c)
    PROVE  QueueInv'
<1>1. lc \in [Slot -> LDAP_CLNT] /\ open \subseteq Slot
  BY DEF TypeOK
<1>2. /\ \A d \in Slot : d # c => lc'[d] = lc[d]
      /\ lc'[c].state = "CONNECTING" /\ lc'[c].r_buffer = lc[c].r_buffer
  BY <1>1 DEF SendBind, LDAP_CLNT
<1>3. /\ UNCHANGED <<open, ready_queue, wait_queue, corrupt>>
      /\ c \in Items(wait_queue) /\ lc[c].state = "OPEN" /\ ~corrupt
  BY DEF SendBind, queues, Idle
<1>4. QueuesLinkOpenOnce /\ QueuesMatchState
  BY <1>3 DEF QueueInv, QueueDiscipline
<1>5. UnboundReceivesNothing'
  BY <1>2, <1>3 DEF QueueInv, UnboundReceivesNothing
<1>6. QueuesLinkOpenOnce'
  BY <1>3, <1>4 DEF QueuesLinkOpenOnce
<1>7. QueuesMatchState'
  BY <1>1, <1>2, <1>3, <1>4 DEF QueuesMatchState, QueuesLinkOpenOnce
<1> QED BY <1>5, <1>6, <1>7 DEF QueueInv, QueueDiscipline

\* A connection that moves from the wait queue to the end of the ready queue
\* and is bound keeps the invariant.
LEMMA WaitToReady ==
    ASSUME TypeOK, QueueInv, ~corrupt, NEW c \in open,
           c \in Items(wait_queue),
           open' = open,
           wait_queue' = Delete(wait_queue, c),
           ready_queue' = Append(ready_queue, c),
           \A d \in Slot : d # c => lc'[d] = lc[d],
           lc'[c].state \in {"READY", "WAITING"}
    PROVE  QueueInv'
<1>1. /\ ready_queue \in Seq(Slot) /\ wait_queue \in Seq(Slot)
      /\ open \subseteq Slot /\ c \in Slot
  BY DEF TypeOK
<1>2. QueuesLinkOpenOnce /\ QueuesMatchState
  BY DEF QueueInv, QueueDiscipline
<1>3. /\ NoRepeat(ready_queue) /\ NoRepeat(wait_queue)
      /\ c \notin Items(ready_queue)
  BY <1>2 DEF QueuesLinkOpenOnce
<1>4. /\ NoRepeat(wait_queue')
      /\ Items(wait_queue') = Items(wait_queue) \ {c}
  BY <1>1, <1>3, DeleteItems
<1>5. /\ NoRepeat(ready_queue')
      /\ Items(ready_queue') = Items(ready_queue) \union {c}
  BY <1>1, <1>3, AppendItems
<1>6. UnboundReceivesNothing'
  BY DEF QueueInv, UnboundReceivesNothing
<1>7. QueuesLinkOpenOnce'
  BY <1>2, <1>4, <1>5 DEF QueuesLinkOpenOnce
<1>8. QueuesMatchState'
  BY <1>1, <1>2, <1>4, <1>5 DEF QueuesMatchState
<1> QED BY <1>6, <1>7, <1>8 DEF QueueInv, QueueDiscipline

\* The bind response makes a connection ready.
LEMMA RecvBindQueues ==
    ASSUME TypeOK, QueueInv, NEW c \in Slot, RecvBind(c)
    PROVE  QueueInv'
<1>1. lc \in [Slot -> LDAP_CLNT]
  BY DEF TypeOK
<1>2. /\ \A d \in Slot : d # c => lc'[d] = lc[d]
      /\ lc'[c].state = "READY"
  BY <1>1 DEF RecvBind, LDAP_CLNT
<1>3. /\ c \in open /\ lc[c].state = "CONNECTING" /\ ~corrupt
      /\ open' = open
      /\ wait_queue' = Delete(wait_queue, c)
      /\ ready_queue' = Append(ready_queue, c)
  BY DEF RecvBind, Idle
<1>4. c \in Items(wait_queue)
  BY <1>3 DEF QueueInv, QueueDiscipline, QueuesMatchState
<1> QED BY <1>2, <1>3, <1>4, WaitToReady

\* The flush takes the first ready connection; it moves to the wait queue,
\* where its state then says it is, or to the end of the ready queue.
LEMMA FlushQueues ==
    ASSUME TypeOK, QueueInv, FlushStep
    PROVE  QueueInv'
<1> DEFINE c == Head(ready_queue)
           full == AtLimit(lc[c].concurrent_count + 1)
<1>1. /\ ready_queue \in Seq(Slot) /\ ready_queue # <<>>
      /\ wait_queue \in Seq(Slot) /\ open \subseteq Slot
      /\ lc \in [Slot -> LDAP_CLNT]
      /\ Dispatch(c) /\ ~corrupt /\ open' = open
  BY DEF FlushStep, TypeOK, Running
<1>2. c \in Slot /\ c \in Items(ready_queue)
  BY <1>1, HeadItem
<1>3. /\ ready_queue' = IF full THEN Delete(ready_queue, c)
                                ELSE MoveToEnd(ready_queue, c)
      /\ wait_queue' = IF full THEN Append(wait_queue, c) ELSE wait_queue
  BY <1>1 DEF Dispatch
<1>4. /\ lc'[c].state = IF full THEN "WAITING" ELSE lc[c].state
      /\ lc'[c].r_buffer = lc[c].r_buffer
      /\ \A d \in Slot : d # c => lc'[d] = lc[d]
  <2> HIDE DEF c
  <2> QED BY <1>1, <1>2 DEF Dispatch, DispatchedState, LDAP_CLNT
<1> HIDE DEF c, full
<1>5. QueuesLinkOpenOnce /\ QueuesMatchState
  BY <1>1 DEF QueueInv, QueueDiscipline
<1>6. /\ NoRepeat(ready_queue) /\ NoRepeat(wait_queue)
      /\ c \notin Items(wait_queue) /\ c \in open
      /\ lc[c].state \in {"READY", "WAITING"}
  BY <1>2, <1>5 DEF QueuesLinkOpenOnce, QueuesMatchState
<1>7. UnboundReceivesNothing'
  BY <1>4, <1>6 DEF QueueInv, UnboundReceivesNothing
<1>8. CASE full
  <2>1. /\ NoRepeat(ready_queue') /\ NoRepeat(wait_queue')
        /\ Items(ready_queue') = Items(ready_queue) \ {c}
        /\ Items(wait_queue') = Items(wait_queue) \union {c}
    BY <1>1, <1>2, <1>3, <1>6, <1>8, DeleteItems, AppendItems
  <2>2. QueuesLinkOpenOnce'
    BY <1>1, <1>5, <1>6, <2>1 DEF QueuesLinkOpenOnce
  <2>3. QueuesMatchState'
    BY <1>1, <1>4, <1>5, <1>8, <2>1 DEF QueuesMatchState
  <2> QED BY <1>7, <2>2, <2>3 DEF QueueInv, QueueDiscipline
<1>9. CASE ~full
  <2>1. /\ NoRepeat(ready_queue')
        /\ Items(ready_queue') = Items(ready_queue)
        /\ wait_queue' = wait_queue
    <3>1. /\ NoRepeat(MoveToEnd(ready_queue, c))
          /\ Items(MoveToEnd(ready_queue, c)) = Items(ready_queue) \union {c}
      BY <1>1, <1>2, <1>6, MoveToEndItems
    <3> QED BY <1>2, <1>3, <1>9, <3>1
  <2>2. QueuesLinkOpenOnce'
    BY <1>1, <1>5, <2>1 DEF QueuesLinkOpenOnce
  <2>3. QueuesMatchState'
    BY <1>1, <1>4, <1>5, <1>9, <2>1 DEF QueuesMatchState
  <2> QED BY <1>7, <2>2, <2>3 DEF QueueInv, QueueDiscipline
<1> QED BY <1>8, <1>9

\* The queue juggling of LDAP_clnt_decode: a keepalive response or an answer
\* moves a bound connection from the wait queue to the ready queue; an
\* answer on a connection that a keepalive had already moved keeps it there.
LEMMA DecodeQueues ==
    ASSUME TypeOK, QueueInv, NEW c \in Slot, LDAP_clnt_decode(c)
    PROVE  QueueInv'
<1>1. /\ lc \in [Slot -> LDAP_CLNT] /\ open \subseteq Slot
      /\ ready_queue \in Seq(Slot) /\ wait_queue \in Seq(Slot)
      /\ c \in open /\ lc[c].r_buffer # <<>> /\ ~corrupt /\ open' = open
  BY DEF TypeOK, LDAP_clnt_decode, Idle, Running
<1>2. QueuesLinkOpenOnce /\ QueuesMatchState
  BY <1>1 DEF QueueInv, QueueDiscipline
<1>3. lc[c].state \in {"READY", "WAITING"}
  BY <1>1 DEF QueueInv, UnboundReceivesNothing, LDAP_CLNT, ClientState
<1>4. Consumed(c) \in LDAP_CLNT /\ Consumed(c).state = lc[c].state
  BY <1>1, ConsumedType
<1>5. \A d \in Slot : d # c => lc'[d] = lc[d]
  BY <1>1 DEF LDAP_clnt_decode, DecodeEntry, DecodeKeepalive, DecodeAnswer,
              DecodeUnexpected
<1>6. CASE DecodeEntry(c)
  <2>1. lc'[c].state = lc[c].state
    <3>1. PICK b : lc' = [lc EXCEPT ![c] = [Consumed(c) EXCEPT !.rber = b]]
      BY <1>6 DEF DecodeEntry
    <3> QED BY <1>1, <1>4, <3>1 DEF LDAP_CLNT
  <2> QED BY <1>1, <1>3, <1>5, <1>6, <2>1, QueuesUntouched
          DEF DecodeEntry, queues
<1>7. CASE DecodeUnexpected(c)
  <2>1. lc'[c].state = lc[c].state
    BY <1>1, <1>4, <1>7 DEF DecodeUnexpected
  <2> QED BY <1>1, <1>3, <1>5, <1>7, <2>1, QueuesUntouched
          DEF DecodeUnexpected, queues
<1>8. CASE DecodeKeepalive(c)
  <2>1. lc'[c].state = lc[c].state
    <3>1. PICK b, n : lc' = [lc EXCEPT ![c] =
            [Consumed(c) EXCEPT !.ktid = 0, !.w_buffer = b, !.w_curr = n]]
      BY <1>8 DEF DecodeKeepalive
    <3> QED BY <1>1, <1>4, <3>1 DEF LDAP_CLNT
  <2>2. CASE c \in Items(wait_queue)
    <3>1. wait_queue' = Delete(wait_queue, c) /\ ready_queue' = Append(ready_queue, c)
      BY <1>8, <2>2 DEF DecodeKeepalive
    <3> QED BY <1>1, <1>3, <1>5, <2>1, <2>2, <3>1, WaitToReady
  <2>3. CASE c \notin Items(wait_queue)
    <3>1. UNCHANGED <<ready_queue, wait_queue, corrupt>>
      BY <1>8, <2>3, DeleteAbsent DEF DecodeKeepalive
    <3> QED BY <1>1, <1>3, <1>5, <2>1, <3>1, QueuesUntouched
  <2> QED BY <2>2, <2>3
<1>9. CASE DecodeAnswer(c)
  <2> DEFINE n == CountAfterAnswer(c)
             wake == Wakes(c, n)
  <2>1. lc'[c].state = IF wake THEN "READY" ELSE lc[c].state
    <3> DEFINE t == IF wake THEN "READY" ELSE lc[c].state
    <3>1. PICK b : lc' = [lc EXCEPT ![c] =
            [Consumed(c) EXCEPT !.concurrent_count = n, !.rber = b, !.state = t]]
      BY <1>4, <1>9 DEF DecodeAnswer
    <3> HIDE DEF t, n
    <3>2. lc'[c].state = t
      BY <1>1, <1>4, <3>1 DEF LDAP_CLNT
    <3> QED BY <3>2 DEF t
  <2>2. /\ wait_queue' = IF wake THEN Delete(wait_queue, c) ELSE wait_queue
        /\ ready_queue' = IF wake THEN MoveToEnd(ready_queue, c) ELSE ready_queue
        /\ corrupt' = (wake /\ IsFirst(ready_queue, c))
    BY <1>9 DEF DecodeAnswer
  <2> HIDE DEF n, wake
  <2>3. CASE ~wake
    <3>1. UNCHANGED <<ready_queue, wait_queue>>
      BY <2>2, <2>3
    <3>2. corrupt = FALSE /\ corrupt' = FALSE
      BY <1>1, <2>2, <2>3, Zenon DEF TypeOK
    <3> QED BY <3>2, <1>1, <1>3, <1>5, <2>1, <2>3, <3>1, QueuesUntouched
  <2>4. CASE wake /\ c \in Items(wait_queue)
    <3>1. c \notin Items(ready_queue)
      BY <1>2, <2>4 DEF QueuesLinkOpenOnce
    <3>2. ready_queue' = Append(ready_queue, c)
      BY <2>2, <2>4, <3>1, DeleteAbsent DEF MoveToEnd
    <3> QED BY <1>1, <1>5, <2>1, <2>2, <2>4, <3>2, WaitToReady
  <2>5. CASE wake /\ c \notin Items(wait_queue)
    <3>1. c \in Items(ready_queue) /\ NoRepeat(ready_queue)
      BY <1>1, <1>2, <1>3, <2>5 DEF QueuesMatchState, QueuesLinkOpenOnce
    <3>2. NoRepeat(ready_queue') /\ Items(ready_queue') = Items(ready_queue)
      <4>1. /\ NoRepeat(MoveToEnd(ready_queue, c))
            /\ Items(MoveToEnd(ready_queue, c)) = Items(ready_queue) \union {c}
        BY <1>1, <3>1, MoveToEndItems
      <4> QED BY <2>2, <2>5, <3>1, <4>1
    <3>3. wait_queue' = wait_queue
      BY <2>2, <2>5, DeleteAbsent
    <3>4. UnboundReceivesNothing'
      BY <1>5, <2>1, <2>5 DEF QueueInv, UnboundReceivesNothing
    <3>5. QueuesLinkOpenOnce'
      BY <1>1, <1>2, <3>2, <3>3 DEF QueuesLinkOpenOnce
    <3>6. lc'[c].state = "READY" /\ c \notin Items(wait_queue')
      BY <2>1, <2>5, <3>3
    <3>7. QueuesMatchState'
      BY <1>1, <1>2, <1>5, <3>1, <3>2, <3>3, <3>6 DEF QueuesMatchState
    <3> QED BY <3>4, <3>5, <3>7 DEF QueueInv, QueueDiscipline
  <2> QED BY <2>3, <2>4, <2>5
<1> QED BY <1>6, <1>7, <1>8, <1>9 DEF LDAP_clnt_decode

\* Steps that touch no connection and no queue.
LEMMA OtherQueues ==
    ASSUME TypeOK, QueueInv,
           \/ SetOption \/ Enqueue \/ LDAP_clnt_close_all \/ Flush
           \/ FlushReturn \/ DecodeReturn \/ SkipSlot
           \/ LDAP_clnt_keep_alive \/ LDAP_clnt_check_connection
           \/ (\E c \in Slot : Reply(c)) \/ UNCHANGED vars
    PROVE  QueueInv'
<1>1. UNCHANGED <<open, lc, ready_queue, wait_queue, corrupt>>
  BY DEF SetOption, Enqueue, LDAP_clnt_close_all, Flush, FlushReturn,
     DecodeReturn, SkipSlot, LDAP_clnt_keep_alive,
     LDAP_clnt_check_connection, Reply, vars, queues
<1>2. open \subseteq Slot
  BY DEF TypeOK
<1> QED BY <1>1, <1>2, QueuesUntouched

\* QueueInv is inductive, given the types.
LEMMA QueueInvStep ==
    ASSUME TypeOK, QueueInv, [Next]_vars
    PROVE  QueueInv'
<1>1. call.no \in Slot
  BY DEF TypeOK, Call
<1>2. ASSUME NEW c \in Slot, LDAP_clnt_close(c) PROVE QueueInv'
  BY <1>2, CloseQueues DEF LDAP_clnt_close, Idle
<1>3. CASE CloseAllStep
  BY <1>1, <1>3, CloseQueues, OtherQueues DEF CloseAllStep, Running
<1>4. CASE KeepAliveStep
  BY <1>1, <1>4, CloseQueues, BufferQueues, OtherQueues
     DEF KeepAliveStep, Running
<1>5. CASE CheckStep
  BY <1>1, <1>5, CloseQueues, OtherQueues DEF CheckStep, Running
<1> QED BY <1>2, <1>3, <1>4, <1>5, OpenQueues, SendBindQueues,
           RecvBindQueues, BufferQueues, FlushQueues, DecodeQueues,
           OtherQueues DEF Next

\* The types and QueueInv hold in every reachable state.
LEMMA QueueInvariance == Spec => [](TypeOK /\ QueueInv)
<1>1. Init => QueueInv
  <2> SUFFICES ASSUME Init PROVE QueueInv
    OBVIOUS
  <2>1. UnboundReceivesNothing
    BY DEF Init, UnboundReceivesNothing, NewClient
  <2>2. QueuesLinkOpenOnce /\ QueuesMatchState
    BY EmptyItems DEF Init, QueuesLinkOpenOnce, QueuesMatchState
  <2> QED BY <2>1, <2>2 DEF QueueInv, QueueDiscipline
<1>2. TypeOK /\ QueueInv /\ [Next]_vars => QueueInv'
  BY QueueInvStep
<1> QED BY <1>1, <1>2, TypeCorrect, PTL DEF Spec

\* As long as no queue head dangles, every connection that was set up is
\* linked in exactly one of ready_queue and wait_queue, and its state says in
\* which: LDAP_clnt_close removes it from the right one.
THEOREM QueuesCorrect == Spec => []QueueDiscipline
<1>1. QueueInv => QueueDiscipline
  BY DEF QueueInv
<1> QED BY <1>1, QueueInvariance, PTL

-----------------------------------------------------------------------------
(* The number of connections.                                              *)

\* A set of slots is finite.
LEMMA SlotsFinite ==
    ASSUME NEW S, S \subseteq Slot
    PROVE  IsFiniteSet(S) /\ Cardinality(S) \in Nat
<1>1. IsFiniteSet(Slot)
  BY SizeAssumption, FS_Interval DEF Slot
<1> QED BY <1>1, FS_Subset, FS_CardinalityType

\* Close counts the connection it takes out of client_array.
LEMMA CloseCount ==
    ASSUME TypeOK, ClientCountIsOpen, NEW c \in open, Close(c)
    PROVE  ClientCountIsOpen'
<1>1. /\ IsFiniteSet(open) /\ Cardinality(open) \in Nat /\ client_count \in Int
  BY SlotsFinite DEF TypeOK
<1>2. open' = open \ {c} /\ client_count' = client_count - 1
  BY DEF Close
<1>3. Cardinality(open') = Cardinality(open) - 1
  BY <1>1, <1>2, FS_RemoveElement
<1> QED BY <1>1, <1>2, <1>3 DEF ClientCountIsOpen

\* In every order of opening, closing, timing out and failed keepalives,
\* client_count, which LDAP_clnt_open compares with max_client, is the number
\* of connections in client_array; only a failed allocation makes it differ,
\* and then it is too low, never too high.
THEOREM ClientCountCorrect == Spec => []ClientCountIsOpen
<1>1. Init => ClientCountIsOpen
  BY FS_EmptySet DEF Init, ClientCountIsOpen
<1>2. TypeOK /\ ClientCountIsOpen /\ [Next]_vars => ClientCountIsOpen'
  <2> SUFFICES ASSUME TypeOK, ClientCountIsOpen, [Next]_vars
               PROVE  ClientCountIsOpen'
    OBVIOUS
  <2>1. CASE LDAP_clnt_open \/ LDAP_clnt_open_no_memory
    <3> DEFINE f == FirstFree
    <3>1. open \subseteq Slot /\ open # Slot /\ open' = open \union {f}
      BY <2>1 DEF LDAP_clnt_open, LDAP_clnt_open_no_memory, MayOpen, TakeSlot, TypeOK
    <3>2. f \in Slot \ open
      BY <3>1, FirstFreeIsFree
    <3> HIDE DEF f
    <3>3. IsFiniteSet(open) /\ Cardinality(open) \in Nat /\ client_count \in Int
      BY SlotsFinite DEF TypeOK
    <3>4. Cardinality(open') = Cardinality(open) + 1
      BY <3>1, <3>2, <3>3, FS_AddElement
    <3>5. CASE LDAP_clnt_open
      <4>1. client_count' = client_count + 1
        BY <3>5 DEF LDAP_clnt_open
      <4> QED BY <3>3, <3>4, <4>1 DEF ClientCountIsOpen
    <3>6. CASE LDAP_clnt_open_no_memory
      <4>1. /\ client_count' = client_count
            /\ Cardinality(open) - client_count < MAX_NO_MEMORY
        BY <3>6 DEF LDAP_clnt_open_no_memory
      <4>2. MAX_NO_MEMORY # 0
        BY <3>3, <4>1 DEF ClientCountIsOpen
      <4> QED BY <3>3, <3>4, <4>1, <4>2 DEF ClientCountIsOpen
    <3> QED BY <2>1, <3>5, <3>6
  <2>2. ASSUME NEW c \in Slot, LDAP_clnt_close(c) PROVE ClientCountIsOpen'
    BY <2>2, CloseCount DEF LDAP_clnt_close
  <2>3. CASE UNCHANGED <<open, client_count>>
    BY <2>3 DEF ClientCountIsOpen
  <2>4. CASE CloseAllStep
    BY <2>3, <2>4, CloseCount DEF CloseAllStep, SkipSlot
  <2>5. CASE KeepAliveStep
    BY <2>3, <2>5, CloseCount DEF KeepAliveStep, SkipSlot, SendKeepalive, Quiet
  <2>6. CASE CheckStep
    BY <2>3, <2>6, CloseCount DEF CheckStep, SkipSlot, MayTimeOut
  <2>7. ASSUME NEW c \in Slot, 
               \/ SendBind(c) \/ LDAP_clnt_write(c) \/ RecvBind(c)
               \/ LDAP_clnt_read(c) \/ SendOn(c) \/ LDAP_clnt_decode(c)
               \/ Reply(c)
        PROVE  UNCHANGED <<open, client_count>>
    BY <2>7 DEF SendBind, LDAP_clnt_write, RecvBind, LDAP_clnt_read, SendOn,
       LDAP_clnt_decode, Reply
  <2>8. ASSUME \/ SetOption \/ LDAP_clnt_close_all \/ Enqueue \/ Flush
               \/ FlushStep \/ FlushReturn \/ DecodeReturn
               \/ LDAP_clnt_keep_alive \/ LDAP_clnt_check_connection
               \/ UNCHANGED vars
        PROVE  UNCHANGED <<open, client_count>>
    BY <2>8 DEF SetOption, LDAP_clnt_close_all, Enqueue, Flush, FlushStep,
       FlushReturn, DecodeReturn, LDAP_clnt_keep_alive,
       LDAP_clnt_check_connection, vars
  <2> QED BY <2>1, <2>2, <2>3, <2>4, <2>5, <2>6, <2>7, <2>8 DEF Next
<1> QED BY <1>1, <1>2, TypeCorrect, PTL DEF Spec

-----------------------------------------------------------------------------
(* Responses in a buffer: what they say to be answered.                    *)

\* The requests whose last response is in s.
Final(s) == {s[i].tid : i \in {j \in 1..Len(s) : s[j].last}}

\* None of them is answered twice.
Once(s) ==
    \A i, j \in 1..Len(s) :
        s[i].last /\ s[j].last /\ s[i].tid = s[j].tid => i = j

\* Two buffers in a row.
LEMMA ConcatFinal ==
    ASSUME NEW s \in Seq(Response), NEW t \in Seq(Response)
    PROVE  /\ Final(s \o t) = Final(s) \union Final(t)
           /\ Once(s \o t) <=> /\ Once(s)
                                /\ Once(t)
                                /\ Final(s) \intersect Final(t) = {}
<1> DEFINE c == s \o t
<1>1. /\ Len(c) = Len(s) + Len(t)
      /\ \A i \in 1..(Len(s) + Len(t)) :
            c[i] = IF i <= Len(s) THEN s[i] ELSE t[i - Len(s)]
  BY ConcatProperties
<1>2. Len(s) \in Nat /\ Len(t) \in Nat
  OBVIOUS
<1> HIDE DEF c
<1>3. \A i \in 1..Len(s) : i \in 1..Len(c) /\ c[i] = s[i]
  BY <1>1, <1>2
<1>4. \A j \in 1..Len(t) :
        Len(s) + j \in 1..Len(c) /\ c[Len(s) + j] = t[j]
  <2> SUFFICES ASSUME NEW j \in 1..Len(t)
               PROVE  Len(s) + j \in 1..Len(c) /\ c[Len(s) + j] = t[j]
    OBVIOUS
  <2>1. /\ Len(s) + j \in 1..(Len(s) + Len(t))
        /\ ~(Len(s) + j <= Len(s))
        /\ (Len(s) + j) - Len(s) = j
    BY <1>2
  <2> QED BY <1>1, <2>1
<1>5. ASSUME NEW k \in 1..Len(c)
      PROVE  \/ k \in 1..Len(s) /\ c[k] = s[k]
             \/ k - Len(s) \in 1..Len(t) /\ c[k] = t[k - Len(s)]
  <2>1. CASE k <= Len(s)
    BY <1>1, <1>2, <2>1
  <2>2. CASE ~(k <= Len(s))
    BY <1>1, <1>2, <2>2
  <2> QED BY <2>1, <2>2
<1>6. Final(c) = Final(s) \union Final(t)
  <2>1. ASSUME NEW x \in Final(c) PROVE x \in Final(s) \union Final(t)
    BY <1>5 DEF Final
  <2>2. ASSUME NEW x \in Final(s) PROVE x \in Final(c)
    BY <1>3 DEF Final
  <2>3. ASSUME NEW x \in Final(t) PROVE x \in Final(c)
    BY <1>4 DEF Final
  <2> QED BY <2>1, <2>2, <2>3
<1>7. ASSUME Once(c)
      PROVE  Once(s) /\ Once(t) /\ Final(s) \intersect Final(t) = {}
  <2>1. Once(s)
    BY <1>3, <1>7 DEF Once
  <2>2. Once(t)
    <3> SUFFICES ASSUME NEW i \in 1..Len(t), NEW j \in 1..Len(t),
                        t[i].last, t[j].last, t[i].tid = t[j].tid
                 PROVE  i = j
      BY DEF Once
    <3>1. Len(s) + i = Len(s) + j
      BY <1>4, <1>7 DEF Once
    <3> QED BY <1>2, <3>1
  <2>3. ASSUME NEW x \in Final(s), x \in Final(t) PROVE FALSE
    <3>1. PICK i \in 1..Len(s) : s[i].last /\ x = s[i].tid
      BY DEF Final
    <3>2. PICK j \in 1..Len(t) : t[j].last /\ x = t[j].tid
      BY <2>3 DEF Final
    <3>3. /\ i \in 1..Len(c) /\ c[i] = s[i]
          /\ Len(s) + j \in 1..Len(c) /\ c[Len(s) + j] = t[j]
      BY <1>3, <1>4
    <3>4. i = Len(s) + j
      BY <1>7, <3>1, <3>2, <3>3, Zenon DEF Once
    <3> QED BY <1>2, <3>4
  <2> QED BY <2>1, <2>2, <2>3
<1>8. ASSUME Once(s), Once(t), Final(s) \intersect Final(t) = {}
      PROVE  Once(c)
  <2> SUFFICES ASSUME NEW i \in 1..Len(c), NEW j \in 1..Len(c),
                      c[i].last, c[j].last, c[i].tid = c[j].tid
               PROVE  i = j
    BY DEF Once
  <2>1. \A m \in 1..Len(s), n \in 1..Len(t) :
          s[m].last /\ t[n].last => s[m].tid # t[n].tid
    BY <1>8 DEF Final
  <2>2. CASE i \in 1..Len(s) /\ c[i] = s[i]
    <3>1. CASE j \in 1..Len(s) /\ c[j] = s[j]
      BY <1>8, <2>2, <3>1 DEF Once
    <3>2. CASE j - Len(s) \in 1..Len(t) /\ c[j] = t[j - Len(s)]
      BY <2>1, <2>2, <3>2
    <3> QED BY <1>5, <3>1, <3>2
  <2>3. CASE i - Len(s) \in 1..Len(t) /\ c[i] = t[i - Len(s)]
    <3>1. CASE j \in 1..Len(s) /\ c[j] = s[j]
      BY <2>1, <2>3, <3>1
    <3>2. CASE j - Len(s) \in 1..Len(t) /\ c[j] = t[j - Len(s)]
      <4>1. i - Len(s) = j - Len(s)
        BY <1>8, <2>3, <3>2 DEF Once
      <4> QED BY <1>2, <4>1
    <3> QED BY <1>5, <3>1, <3>2
  <2> QED BY <1>5, <2>2, <2>3
<1> QED BY <1>6, <1>7, <1>8 DEF c

\* One response.
LEMMA OneFinal ==
    ASSUME NEW r \in Response
    PROVE  /\ <<r>> \in Seq(Response) /\ Once(<<r>>)
           /\ Final(<<r>>) = IF r.last THEN {r.tid} ELSE {}
<1>1. <<r>> \in Seq(Response) /\ Len(<<r>>) = 1 /\ <<r>>[1] = r
  OBVIOUS
<1> DEFINE s == <<r>>
<1>2. s \in Seq(Response) /\ Len(s) = 1 /\ s[1] = r
  BY <1>1
<1> HIDE DEF s
<1>3. Once(s)
  BY <1>2 DEF Once
<1>4. 1..1 = {1}
  OBVIOUS
<1>5. Final(s) = IF r.last THEN {r.tid} ELSE {}
  BY <1>2, <1>4 DEF Final
<1> QED BY <1>2, <1>3, <1>5 DEF s

\* A response that arrives behind the others.
LEMMA AppendFinal ==
    ASSUME NEW s \in Seq(Response), NEW r \in Response
    PROVE  /\ Final(Append(s, r)) = Final(s) \union IF r.last THEN {r.tid} ELSE {}
           /\ Once(s) /\ (r.last => r.tid \notin Final(s)) => Once(Append(s, r))
<1> DEFINE t == <<r>>
<1>1. Append(s, r) = s \o t
  BY AppendIsConcat
<1>2. /\ t \in Seq(Response) /\ Once(t)
      /\ Final(t) = IF r.last THEN {r.tid} ELSE {}
  BY OneFinal
<1> HIDE DEF t
<1>3. /\ Final(s \o t) = Final(s) \union Final(t)
      /\ Once(s \o t) <=> /\ Once(s) /\ Once(t)
                           /\ Final(s) \intersect Final(t) = {}
  BY <1>2, ConcatFinal
<1> QED BY <1>1, <1>2, <1>3

\* A buffer cut in two.
LEMMA SplitFinal ==
    ASSUME NEW s \in Seq(Response), NEW k \in 0..Len(s)
    PROVE  /\ Final(s) = Final(SubSeq(s, 1, k))
                            \union Final(SubSeq(s, k + 1, Len(s)))
           /\ Once(s) => /\ Once(SubSeq(s, 1, k))
                         /\ Once(SubSeq(s, k + 1, Len(s)))
                         /\ Final(SubSeq(s, 1, k))
                              \intersect Final(SubSeq(s, k + 1, Len(s))) = {}
<1> DEFINE p == SubSeq(s, 1, k)
           q == SubSeq(s, k + 1, Len(s))
<1>1. p \in Seq(Response) /\ q \in Seq(Response) /\ s = p \o q
  BY SplitSeq
<1> HIDE DEF p, q
<1>2. /\ Final(p \o q) = Final(p) \union Final(q)
      /\ Once(p \o q) <=> /\ Once(p) /\ Once(q)
                           /\ Final(p) \intersect Final(q) = {}
  BY <1>1, ConcatFinal
<1>3. /\ Final(s) = Final(p) \union Final(q)
      /\ Once(s) => Once(p) /\ Once(q) /\ Final(p) \intersect Final(q) = {}
  BY <1>1, <1>2
<1> QED BY <1>3 DEF p, q

\* The first response and the rest.
LEMMA HeadTailFinal ==
    ASSUME NEW s \in Seq(Response), s # <<>>
    PROVE  /\ Tail(s) \in Seq(Response) /\ Head(s) \in Response
           /\ Final(s) = Final(Tail(s))
                            \union IF Head(s).last THEN {Head(s).tid} ELSE {}
           /\ Once(s) => /\ Once(Tail(s))
                         /\ Head(s).last => Head(s).tid \notin Final(Tail(s))
<1> DEFINE h == <<Head(s)>>
           t == Tail(s)
<1>1. t \in Seq(Response) /\ Head(s) \in Response
  BY HeadTailProperties
<1>2. /\ h \in Seq(Response) /\ Once(h)
      /\ Final(h) = IF Head(s).last THEN {Head(s).tid} ELSE {}
  BY <1>1, OneFinal
<1>3. s = h \o t
  BY HeadTailConcat
<1> HIDE DEF h, t
<1>4. /\ Final(h \o t) = Final(h) \union Final(t)
      /\ Once(h \o t) <=> /\ Once(h) /\ Once(t)
                           /\ Final(h) \intersect Final(t) = {}
  BY <1>1, <1>2, ConcatFinal
<1>5. /\ Final(s) = Final(h) \union Final(t)
      /\ Once(s) => Once(t) /\ Final(h) \intersect Final(t) = {}
  BY <1>3, <1>4
<1> QED BY <1>1, <1>2, <1>5 DEF t

\* An empty buffer answers nothing.
LEMMA EmptyFinal == Final(<<>>) = {} /\ Once(<<>>)
BY DEF Final, Once

-----------------------------------------------------------------------------
(* What each step does to the connection it is about.                      *)

\* All other connections are left alone.
OnlyTouches(c) == \A d \in Slot \ {c} : lc'[d] = lc[d] /\ net'[d] = net[d]

\* What the read side of a connection has.
SameInput(c) ==
    /\ lc'[c].r_buffer = lc[c].r_buffer
    /\ lc'[c].r_part = lc[c].r_part
    /\ lc'[c].read_time = lc[c].read_time
    /\ lc'[c].rber = lc[c].rber

\* Its place in the pool.
SameStanding(c) ==
    /\ lc'[c].state = lc[c].state
    /\ lc'[c].concurrent_count = lc[c].concurrent_count

\* The types of the parts that requests move through.
LEMMA PartTypes ==
    ASSUME TypeOK, NEW c \in Slot
    PROVE  /\ lc[c] \in LDAP_CLNT /\ net[c] \in FarEnd
           /\ lc[c].w_buffer \in Seq(Nat) /\ lc[c].w_curr \in Nat
           /\ lc[c].r_buffer \in Seq(Response) /\ lc[c].r_part \in Nat
           /\ net[c].inbox \in Seq(Response) /\ net[c].pending \subseteq Nat
           /\ lc[c].concurrent_count \in Nat /\ lc[c].state \in ClientState
BY DEF TypeOK, LDAP_CLNT, FarEnd

\* The items of the first k entries of a buffer, which are what the far end
\* receives when k whole requests are sent.
LEMMA FirstItems ==
    ASSUME NEW S, NEW s \in Seq(S), NEW k \in 0..Len(s)
    PROVE  {s[i] : i \in 1..k} = Items(SubSeq(s, 1, k))
<1>1. Len(s) \in Nat /\ k \in Nat /\ k <= Len(s)
  OBVIOUS
<1> DEFINE p == SubSeq(s, 1, k)
<1>2. Len(p) = k
  BY SplitSeq
<1>3. \A i \in 1..k : p[i] = s[i]
  <2>1. \A i \in 1..k : s[i] \in S
    BY <1>1
  <2>2. \A i \in 1..(k - 1 + 1) : p[i] = s[1 + i - 1]
    BY <1>1, <2>1, SubSeqProperties
  <2> QED BY <1>1, <2>2
<1> HIDE DEF p
<1>4. {s[i] : i \in 1..k} = Items(p)
  BY <1>2, <1>3 DEF Items
<1> QED BY <1>4 DEF p

\* LDAP_clnt_write sends k whole requests.
LEMMA WriteFacts ==
    ASSUME TypeOK, NEW c \in Slot, LDAP_clnt_write(c)
    PROVE  /\ OnlyTouches(c) /\ SameInput(c) /\ SameStanding(c)
           /\ lc'[c].ktid = lc[c].ktid
           /\ lc'[c].write_time = (lc'[c].w_buffer # <<>>)
           /\ net'[c].inbox = net[c].inbox /\ net'[c].torn = net[c].torn
           /\ \E k \in 0..Len(lc[c].w_buffer) :
                 /\ lc'[c].w_buffer =
                      SubSeq(lc[c].w_buffer, k + 1, Len(lc[c].w_buffer))
                 /\ net'[c].pending =
                      IF net[c].torn THEN net[c].pending
                      ELSE net[c].pending
                             \union Items(SubSeq(lc[c].w_buffer, 1, k))
<1>1. /\ lc[c] \in LDAP_CLNT /\ net[c] \in FarEnd
      /\ lc[c].w_buffer \in Seq(Nat) /\ lc[c].w_curr \in Nat
  BY PartTypes
<1>2. Len(lc[c].w_buffer) \in Nat /\ SendLimit(c) \in Int
  BY <1>1, SizeAssumption DEF SendLimit, w_len
<1> DEFINE w == lc[c].w_buffer
           sent(r) == lc[c].w_curr + r
           done(r) == sent(r) \div MSG_LEN
           rest(r) == sent(r) % MSG_LEN
           left(r) == Unsent(c, done(r))
<1>3. PICK r \in 1..SendLimit(c) :
        /\ lc' = [lc EXCEPT ![c].w_buffer = left(r),
                            ![c].w_curr = rest(r),
                            ![c].write_time = WriteTimer(left(r)),
                            ![c].keepalive_time = @ \/ (left(r) = <<>>)]
        /\ net' = [net EXCEPT ![c].pending = Delivered(c, done(r))]
  BY DEF LDAP_clnt_write
<1>4. sent(r) \in Nat /\ sent(r) <= MSG_LEN * Len(w)
  <2>1. r <= MSG_LEN * Len(w) - lc[c].w_curr
    BY <1>1, <1>2, SizeAssumption DEF SendLimit, w_len
  <2> QED BY <1>1, <1>2, <2>1, SizeAssumption
<1> HIDE DEF sent
<1>5. done(r) \in 0..Len(w)
  BY <1>2, <1>4, WholeItems, SizeAssumption
<1> HIDE DEF done, rest
<1>6. left(r) = SubSeq(w, done(r) + 1, Len(w))
  BY DEF Unsent
<1>7. Delivered(c, done(r)) = IF net[c].torn THEN net[c].pending
                              ELSE net[c].pending \union Items(SubSeq(w, 1, done(r)))
  <2> DEFINE k == done(r)
             b == w
  <2>1. b \in Seq(Nat) /\ k \in 0..Len(b)
    BY <1>1, <1>5
  <2>2. Delivered(c, k) = IF net[c].torn THEN net[c].pending
                          ELSE net[c].pending \union {b[i] : i \in 1..k}
    BY DEF Delivered
  <2> HIDE DEF k, b
  <2>3. {b[i] : i \in 1..k} = Items(SubSeq(b, 1, k))
    BY <2>1, FirstItems
  <2> QED BY <2>2, <2>3 DEF k, b
<1> DEFINE del == Delivered(c, done(r))
           t == WriteTimer(left(r))
           ka == lc[c].keepalive_time \/ left(r) = <<>>
           q == [lc[c] EXCEPT !.w_buffer = left(r), !.w_curr = rest(r),
                              !.write_time = t, !.keepalive_time = ka]
           e == [net[c] EXCEPT !.pending = del]
<1>8. lc' = [lc EXCEPT ![c] = q] /\ net' = [net EXCEPT ![c] = e]
  BY <1>1, <1>3 DEF TypeOK
<1>9. t = (left(r) # <<>>)
  BY DEF WriteTimer
<1> HIDE DEF left, del, t, ka
<1>10. /\ q.w_buffer = left(r) /\ q.write_time = t /\ q.state = lc[c].state
       /\ q.concurrent_count = lc[c].concurrent_count
       /\ q.r_buffer = lc[c].r_buffer /\ q.r_part = lc[c].r_part
       /\ q.read_time = lc[c].read_time /\ q.ktid = lc[c].ktid
       /\ q.rber = lc[c].rber
  BY <1>1 DEF LDAP_CLNT
<1>11. /\ e.pending = del /\ e.inbox = net[c].inbox /\ e.torn = net[c].torn
  BY <1>1 DEF FarEnd
<1> HIDE DEF q, e
<1>12. lc'[c] = q /\ net'[c] = e /\ OnlyTouches(c)
  BY <1>8 DEF TypeOK, OnlyTouches
<1>13. SameInput(c) /\ SameStanding(c)
  BY <1>10, <1>12 DEF SameInput, SameStanding
<1>14. lc'[c].write_time = (lc'[c].w_buffer # <<>>)
  BY <1>9, <1>10, <1>12
<1> QED BY <1>5, <1>6, <1>7, <1>10, <1>11, <1>12, <1>13, <1>14 DEF del

\* LDAP_clnt_read takes k whole responses.
LEMMA ReadFacts ==
    ASSUME TypeOK, NEW c \in Slot, LDAP_clnt_read(c)
    PROVE  /\ OnlyTouches(c) /\ SameStanding(c)
           /\ lc'[c].w_buffer = lc[c].w_buffer
           /\ lc'[c].write_time = lc[c].write_time
           /\ lc'[c].ktid = lc[c].ktid
           /\ lc'[c].read_time = TRUE /\ lc'[c].rber = lc[c].rber
           /\ net'[c].pending = net[c].pending /\ net'[c].torn = net[c].torn
           /\ \E k \in 0..Len(net[c].inbox) :
                 /\ lc'[c].r_buffer =
                      lc[c].r_buffer \o SubSeq(net[c].inbox, 1, k)
                 /\ net'[c].inbox =
                      SubSeq(net[c].inbox, k + 1, Len(net[c].inbox))
<1>1. /\ lc[c] \in LDAP_CLNT /\ net[c] \in FarEnd
      /\ lc[c].r_part \in Nat /\ net[c].inbox \in Seq(Response)
  BY PartTypes
<1>2. Len(net[c].inbox) \in Nat /\ in_len(c) \in Int
  BY <1>1, SizeAssumption DEF in_len
<1> DEFINE s == net[c].inbox
           got(r) == lc[c].r_part + r
           done(r) == got(r) \div MSG_LEN
           part(r) == got(r) % MSG_LEN
           buf(r) == lc[c].r_buffer \o SubSeq(s, 1, done(r))
           rest(r) == SubSeq(s, done(r) + 1, Len(s))
<1>3. PICK r \in 1..in_len(c) :
        /\ lc' = [lc EXCEPT ![c].r_buffer = buf(r), ![c].r_part = part(r),
                            ![c].read_time = TRUE]
        /\ net' = [net EXCEPT ![c].inbox = rest(r)]
  BY <1>1 DEF LDAP_clnt_read, TypeOK
<1>4. got(r) \in Nat /\ got(r) <= MSG_LEN * Len(s)
  BY <1>1, <1>2, SizeAssumption DEF in_len
<1> HIDE DEF got
<1>5. done(r) \in 0..Len(s)
  BY <1>2, <1>4, WholeItems, SizeAssumption
<1> HIDE DEF done, part
<1> DEFINE b == buf(r)
           f == rest(r)
           q == [lc[c] EXCEPT !.r_buffer = b, !.r_part = part(r),
                              !.read_time = TRUE]
           e == [net[c] EXCEPT !.inbox = f]
<1>6. lc' = [lc EXCEPT ![c] = q] /\ net' = [net EXCEPT ![c] = e]
  BY <1>1, <1>3 DEF TypeOK
<1> HIDE DEF b, f
<1>7. /\ q.w_buffer = lc[c].w_buffer /\ q.write_time = lc[c].write_time
      /\ q.state = lc[c].state
      /\ q.concurrent_count = lc[c].concurrent_count
      /\ q.r_buffer = b /\ q.read_time = TRUE /\ q.ktid = lc[c].ktid
      /\ q.rber = lc[c].rber
  BY <1>1 DEF LDAP_CLNT
<1>8. /\ e.pending = net[c].pending /\ e.inbox = f /\ e.torn = net[c].torn
  BY <1>1 DEF FarEnd
<1> HIDE DEF q, e
<1>9. lc'[c] = q /\ net'[c] = e /\ OnlyTouches(c)
  BY <1>6 DEF TypeOK, OnlyTouches
<1>10. SameStanding(c)
  BY <1>7, <1>9 DEF SameStanding
<1> QED BY <1>5, <1>7, <1>8, <1>9, <1>10 DEF b, f

\* Request m is put into the write buffer of c, which is then in state t.
Buffered(c, m, t) ==
    /\ OnlyTouches(c) /\ SameInput(c) /\ net' = net
    /\ lc'[c].w_buffer = Append(lc[c].w_buffer, m)
    /\ lc'[c].write_time = TRUE
    /\ lc'[c].concurrent_count = lc[c].concurrent_count + 1
    /\ lc'[c].state = t
    /\ lc'[c].ktid = lc[c].ktid

\* The flush and LDAP_clnt_send_message on a given connection do just that.
LEMMA BufferedFacts ==
    ASSUME TypeOK, NEW c \in Slot, NEW m, NEW t, net' = net,
           lc' = [lc EXCEPT ![c].w_buffer = Append(@, m),
                            ![c].write_time = TRUE,
                            ![c].concurrent_count = @ + 1,
                            ![c].state = t]
    PROVE  Buffered(c, m, t)
<1>1. lc[c] \in LDAP_CLNT
  BY PartTypes
<1> DEFINE w == Append(lc[c].w_buffer, m)
           n == lc[c].concurrent_count + 1
           q == [lc[c] EXCEPT !.w_buffer = w, !.write_time = TRUE,
                              !.concurrent_count = n, !.state = t]
<1>2. lc' = [lc EXCEPT ![c] = q]
  BY <1>1 DEF TypeOK
<1> HIDE DEF w, n
<1>3. /\ q.w_buffer = w /\ q.write_time = TRUE
      /\ q.concurrent_count = n /\ q.state = t /\ q.ktid = lc[c].ktid
      /\ q.r_buffer = lc[c].r_buffer /\ q.r_part = lc[c].r_part
      /\ q.read_time = lc[c].read_time /\ q.rber = lc[c].rber
  BY <1>1 DEF LDAP_CLNT
<1> HIDE DEF q
<1>4. lc'[c] = q /\ OnlyTouches(c)
  BY <1>2 DEF TypeOK, OnlyTouches
<1> QED BY <1>3, <1>4 DEF Buffered, SameInput, w, n

\* The flush gives the first request to the first ready connection, which
\* is bound.
LEMMA FlushFacts ==
    ASSUME TypeOK, QueueInv, FlushStep
    PROVE  LET c == Head(ready_queue)
               n == lc[c].concurrent_count + 1
           IN  /\ c \in Slot /\ c \in Items(ready_queue)
               /\ lc[c].state \in {"READY", "WAITING"}
               /\ send_msg_queue # <<>>
               /\ Buffered(c, Head(send_msg_queue),
                           IF n >= max_concurrent THEN "WAITING"
                                                  ELSE lc[c].state)
               /\ send_msg_queue' = Tail(send_msg_queue) /\ tid' = tid
<1> DEFINE c == Head(ready_queue)
           n == lc[c].concurrent_count + 1
           m == Head(send_msg_queue)
           t == IF n >= max_concurrent THEN "WAITING" ELSE lc[c].state
<1>1. /\ ready_queue \in Seq(Slot) /\ ready_queue # <<>> /\ Dispatch(c)
      /\ send_msg_queue # <<>> /\ tid' = tid /\ net' = net /\ ~corrupt
  BY DEF FlushStep, TypeOK, Running
<1>2. c \in Slot /\ c \in Items(ready_queue)
  BY <1>1, HeadItem
<1>3. lc[c].state \in {"READY", "WAITING"}
  BY <1>1, <1>2 DEF QueueInv, QueueDiscipline, QueuesLinkOpenOnce,
                    QueuesMatchState
<1>4. /\ lc' = [lc EXCEPT ![c].w_buffer = Append(@, m),
                          ![c].write_time = TRUE,
                          ![c].concurrent_count = n,
                          ![c].state = t]
      /\ send_msg_queue' = Tail(send_msg_queue)
  BY <1>1 DEF Dispatch, DispatchedState, AtLimit
<1> HIDE DEF c, m, t
<1>5. Buffered(c, m, t)
  <2>1. lc' = [lc EXCEPT ![c].w_buffer = Append(@, m),
                          ![c].write_time = TRUE,
                          ![c].concurrent_count = @ + 1,
                          ![c].state = t]
    BY <1>2, <1>4 DEF TypeOK, LDAP_CLNT
  <2> QED BY <1>1, <1>2, <2>1, BufferedFacts
<1> QED BY <1>1, <1>2, <1>3, <1>4, <1>5 DEF c, m, t

\* A request for a given connection gets a new id.
LEMMA SendOnFacts ==
    ASSUME TypeOK, NEW c \in Slot, SendOn(c)
    PROVE  /\ DirectSend
           /\ Buffered(c, tid + 1, lc[c].state)
           /\ send_msg_queue' = send_msg_queue /\ tid' = tid + 1
<1>1. lc[c] \in LDAP_CLNT
  BY PartTypes
<1> DEFINE t == lc[c].state
<1>2. lc' = [lc EXCEPT ![c].w_buffer = Append(@, tid + 1),
                       ![c].write_time = TRUE,
                       ![c].concurrent_count = @ + 1,
                       ![c].state = t]
  BY <1>1 DEF SendOn, TypeOK, LDAP_CLNT
<1> HIDE DEF t
<1>3. Buffered(c, tid + 1, t)
  BY <1>2, BufferedFacts DEF SendOn
<1> QED BY <1>3 DEF SendOn, t

\* The bind handshake moves nothing.
LEMMA BindFacts ==
    ASSUME TypeOK, NEW c \in Slot, SendBind(c) \/ RecvBind(c)
    PROVE  /\ OnlyTouches(c) /\ SameInput(c) /\ net' = net
           /\ lc'[c].w_buffer = lc[c].w_buffer
           /\ lc'[c].ktid = lc[c].ktid
           /\ lc'[c].concurrent_count = lc[c].concurrent_count
           /\ lc[c].state \in {"OPEN", "CONNECTING"}
           /\ lc'[c].state \in {"CONNECTING", "READY"}
           /\ send_msg_queue' = send_msg_queue /\ tid' = tid
<1>1. lc[c] \in LDAP_CLNT
  BY PartTypes
<1>2. CASE SendBind(c)
  <2> DEFINE q == [lc[c] EXCEPT !.state = "CONNECTING", !.write_time = TRUE]
  <2>1. lc' = [lc EXCEPT ![c] = q]
    BY <1>1, <1>2 DEF SendBind, TypeOK
  <2>2. /\ q.w_buffer = lc[c].w_buffer /\ q.ktid = lc[c].ktid
        /\ q.concurrent_count = lc[c].concurrent_count
        /\ q.state = "CONNECTING"
        /\ q.r_buffer = lc[c].r_buffer /\ q.r_part = lc[c].r_part
        /\ q.read_time = lc[c].read_time /\ q.rber = lc[c].rber
    BY <1>1 DEF LDAP_CLNT
  <2> HIDE DEF q
  <2>3. lc'[c] = q /\ OnlyTouches(c)
    BY <1>2, <2>1 DEF TypeOK, OnlyTouches, SendBind
  <2> QED BY <1>2, <2>2, <2>3 DEF SameInput, SendBind
<1>3. CASE RecvBind(c)
  <2> DEFINE q == [lc[c] EXCEPT !.state = "READY", !.write_time = FALSE,
                                !.keepalive_time = TRUE]
  <2>1. lc' = [lc EXCEPT ![c] = q]
    BY <1>1, <1>3 DEF RecvBind, TypeOK
  <2>2. /\ q.w_buffer = lc[c].w_buffer /\ q.ktid = lc[c].ktid
        /\ q.concurrent_count = lc[c].concurrent_count
        /\ q.state = "READY"
        /\ q.r_buffer = lc[c].r_buffer /\ q.r_part = lc[c].r_part
        /\ q.read_time = lc[c].read_time /\ q.rber = lc[c].rber
    BY <1>1 DEF LDAP_CLNT
  <2> HIDE DEF q
  <2>3. lc'[c] = q /\ OnlyTouches(c)
    BY <1>3, <2>1 DEF TypeOK, OnlyTouches, RecvBind
  <2> QED BY <1>3, <2>2, <2>3 DEF SameInput, RecvBind
<1> QED BY <1>2, <1>3

\* A keepalive goes out together with everything the connection holds.
LEMMA KeepaliveFacts ==
    ASSUME TypeOK, NEW c \in Slot, SendKeepalive(c)
    PROVE  /\ OnlyTouches(c) /\ SameInput(c) /\ SameStanding(c)
           /\ lc'[c].w_buffer = <<>>
           /\ net'[c].inbox = net[c].inbox
           /\ net'[c].pending =
                IF net[c].torn THEN net[c].pending
                ELSE net[c].pending \union Items(lc[c].w_buffer)
                       \union {tid + 1}
           /\ send_msg_queue' = send_msg_queue /\ tid' = tid + 1
<1>1. lc[c] \in LDAP_CLNT /\ net[c] \in FarEnd
  BY PartTypes
<1> DEFINE b == <<>>
           k == tid + 1
           p == IF net[c].torn THEN net[c].pending
                ELSE net[c].pending \union Items(lc[c].w_buffer) \union {tid + 1}
           q == [lc[c] EXCEPT !.ktid = k, !.w_buffer = b, !.w_curr = 0]
           e == [net[c] EXCEPT !.pending = p]
<1>2. lc' = [lc EXCEPT ![c] = q] /\ net' = [net EXCEPT ![c] = e]
  BY <1>1 DEF SendKeepalive, TypeOK
<1> HIDE DEF b, p, k
<1>3. /\ q.w_buffer = b /\ q.state = lc[c].state
      /\ q.concurrent_count = lc[c].concurrent_count
      /\ q.r_buffer = lc[c].r_buffer /\ q.r_part = lc[c].r_part
      /\ q.read_time = lc[c].read_time /\ q.rber = lc[c].rber
  BY <1>1 DEF LDAP_CLNT
<1>4. e.pending = p /\ e.inbox = net[c].inbox
  BY <1>1 DEF FarEnd
<1> HIDE DEF q, e
<1>5. lc'[c] = q /\ net'[c] = e /\ OnlyTouches(c)
  BY <1>2 DEF TypeOK, OnlyTouches
<1> QED BY <1>3, <1>4, <1>5 DEF SameInput, SameStanding, SendKeepalive, b, p

\* The server answers a request it holds, or sends an entry for it.
LEMMA ReplyFacts ==
    ASSUME TypeOK, NEW c \in Slot, Reply(c)
    PROVE  /\ OnlyTouches(c) /\ lc' = lc
           /\ net'[c].torn = net[c].torn
           /\ send_msg_queue' = send_msg_queue /\ tid' = tid
           /\ \E m \in net[c].pending, last \in BOOLEAN :
                 /\ net'[c].pending = IF last THEN net[c].pending \ {m}
                                              ELSE net[c].pending
                 /\ net'[c].inbox =
                      Append(net[c].inbox, [tid |-> m, last |-> last])
<1>1. net[c] \in FarEnd
  BY PartTypes
<1> DEFINE whole(m) == Append(net[c].inbox, [tid |-> m, last |-> TRUE])
           found(m) == Append(net[c].inbox, [tid |-> m, last |-> FALSE])
           less(m) == net[c].pending \ {m}
           more == net[c].entries + 1
           end(m) == [net[c] EXCEPT !.pending = less(m), !.inbox = whole(m)]
           entry(m) == [net[c] EXCEPT !.entries = more, !.inbox = found(m)]
<1>2. PICK m \in net[c].pending :
        \/ net' = [net EXCEPT ![c] = end(m)]
        \/ net' = [net EXCEPT ![c] = entry(m)]
  BY <1>1 DEF Reply, TypeOK
<1> HIDE DEF whole, found, less, more
<1>3. /\ end(m).pending = less(m) /\ end(m).inbox = whole(m)
      /\ end(m).torn = net[c].torn
      /\ entry(m).pending = net[c].pending /\ entry(m).inbox = found(m)
      /\ entry(m).torn = net[c].torn
  BY <1>1 DEF FarEnd
<1> HIDE DEF end, entry
<1>4. lc' = lc /\ send_msg_queue' = send_msg_queue /\ tid' = tid
  BY DEF Reply
<1>5. CASE net' = [net EXCEPT ![c] = end(m)]
  <2>1. net'[c] = end(m) /\ OnlyTouches(c)
    BY <1>4, <1>5 DEF TypeOK, OnlyTouches
  <2> QED BY <1>3, <1>4, <2>1 DEF less, whole
<1>6. CASE net' = [net EXCEPT ![c] = entry(m)]
  <2>1. net'[c] = entry(m) /\ OnlyTouches(c)
    BY <1>4, <1>6 DEF TypeOK, OnlyTouches
  <2> QED BY <1>3, <1>4, <2>1 DEF found
<1> QED BY <1>2, <1>5, <1>6

\* A slot that is taken or given back is as new.
LEMMA FreshFacts ==
    ASSUME TypeOK, NEW c \in Slot, Close(c) \/ TakeSlot(c)
    PROVE  /\ OnlyTouches(c) /\ lc'[c] = NewClient /\ net'[c] = NewFarEnd
           /\ send_msg_queue' = send_msg_queue /\ tid' = tid
BY DEF Close, TakeSlot, OnlyTouches, TypeOK

\* The connection without its first response: its read timer runs on while
\* there is something left to decode.
LEMMA ConsumedFacts ==
    ASSUME TypeOK, NEW c \in Slot, lc[c].r_buffer # <<>>
    PROVE  LET k == Consumed(c)
           IN  /\ k \in LDAP_CLNT
               /\ k.r_buffer = Tail(lc[c].r_buffer) /\ k.r_part = lc[c].r_part
               /\ k.w_buffer = lc[c].w_buffer
               /\ k.write_time = lc[c].write_time /\ k.ktid = lc[c].ktid
               /\ k.state = lc[c].state /\ k.rber = lc[c].rber
               /\ k.concurrent_count = lc[c].concurrent_count
               /\ lc[c].read_time /\ (k.r_buffer # <<>> \/ k.r_part > 0)
                     => k.read_time
<1>1. lc[c] \in LDAP_CLNT /\ lc[c].r_buffer \in Seq(Response)
  BY PartTypes
<1> DEFINE b == Tail(lc[c].r_buffer)
           r == lc[c].read_time /\ ~NothingLeft(c)
           a == lc[c].keepalive_time \/ NothingLeft(c)
           k == [lc[c] EXCEPT !.r_buffer = b, !.read_time = r,
                              !.keepalive_time = a]
<1>2. Consumed(c) = k /\ Consumed(c) \in LDAP_CLNT
  BY ConsumedType DEF Consumed
<1>3. lc[c].read_time /\ (b # <<>> \/ lc[c].r_part > 0) => r
  <2>1. Len(lc[c].r_buffer) = 1 => b = <<>>
    <3>1. b \in Seq(Response) /\ Len(b) = Len(lc[c].r_buffer) - 1
      BY <1>1, HeadTailProperties
    <3> HIDE DEF b
    <3> QED BY <3>1, LenZero
  <2> HIDE DEF b
  <2>2. NothingLeft(c) => b = <<>> /\ lc[c].r_part = 0
    BY <2>1 DEF NothingLeft
  <2>3. ~(0 > 0)
    OBVIOUS
  <2> QED BY <2>2, <2>3, Zenon
<1> HIDE DEF b, r, a
<1>4. /\ k.r_buffer = b /\ k.r_part = lc[c].r_part /\ k.read_time = r
      /\ k.w_buffer = lc[c].w_buffer /\ k.write_time = lc[c].write_time
      /\ k.ktid = lc[c].ktid /\ k.state = lc[c].state /\ k.rber = lc[c].rber
      /\ k.concurrent_count = lc[c].concurrent_count
  BY <1>1 DEF LDAP_CLNT
<1> HIDE DEF k
<1> QED BY <1>2, <1>3, <1>4 DEF b

\* What is left of a connection after LDAP_clnt_decode took a response,
\* but for its place in the pool.
Took(c) ==
    /\ OnlyTouches(c)
    /\ lc[c].r_buffer # <<>>
    /\ lc'[c].r_buffer = Tail(lc[c].r_buffer)
    /\ lc'[c].r_part = lc[c].r_part
    /\ lc[c].read_time /\ (lc'[c].r_buffer # <<>> \/ lc'[c].r_part > 0)
          => lc'[c].read_time
    /\ lc'[c].write_time = lc[c].write_time
    /\ net'[c].pending = net[c].pending /\ net'[c].inbox = net[c].inbox
    /\ send_msg_queue' = send_msg_queue /\ tid' = tid

\* Nothing but the response moves.
OnlyResponse(c) ==
    /\ lc'[c].w_buffer = lc[c].w_buffer
    /\ lc'[c].ktid = lc[c].ktid /\ net'[c].torn = net[c].torn

\* An entry or reference is collected and leaves the counts alone.
LEMMA EntryFacts ==
    ASSUME TypeOK, NEW c \in Slot, LDAP_clnt_decode(c), DecodeEntry(c)
    PROVE  /\ Took(c) /\ OnlyResponse(c) /\ SameStanding(c)
           /\ ~Head(lc[c].r_buffer).last
           /\ lc[c].ktid = 0 =>
                 lc'[c].rber = Append(lc[c].rber, Head(lc[c].r_buffer).tid)
<1> DEFINE k == Consumed(c)
           resp == Head(lc[c].r_buffer)
           b == IF IsKeepalive(c, resp) THEN k.rber ELSE Append(k.rber, resp.tid)
           q == [k EXCEPT !.rber = b]
<1>1. /\ lc' = [lc EXCEPT ![c] = q] /\ net' = net
      /\ ~Head(lc[c].r_buffer).last
  BY DEF DecodeEntry
<1>2. lc[c].r_buffer # <<>> /\ send_msg_queue' = send_msg_queue /\ tid' = tid
  BY DEF LDAP_clnt_decode
<1>3. k \in LDAP_CLNT
  BY <1>2, ConsumedFacts
<1>6. lc[c].ktid = 0 => b = Append(lc[c].rber, resp.tid)
  BY <1>2, ConsumedFacts DEF IsKeepalive
<1> HIDE DEF k, b
<1>4. /\ q.r_buffer = k.r_buffer /\ q.r_part = k.r_part
      /\ q.read_time = k.read_time /\ q.w_buffer = k.w_buffer
      /\ q.write_time = k.write_time /\ q.ktid = k.ktid
      /\ q.state = k.state /\ q.concurrent_count = k.concurrent_count
      /\ q.rber = b
  BY <1>3 DEF LDAP_CLNT
<1> HIDE DEF q
<1>5. lc'[c] = q /\ OnlyTouches(c)
  BY <1>1 DEF TypeOK, OnlyTouches
<1> QED BY <1>1, <1>2, <1>4, <1>5, <1>6, ConsumedFacts
        DEF k, Took, OnlyResponse, SameStanding

\* A keepalive response may empty the write buffer and changes no count.
LEMMA KeepaliveResponseFacts ==
    ASSUME TypeOK, NEW c \in Slot, LDAP_clnt_decode(c), DecodeKeepalive(c)
    PROVE  /\ Took(c) /\ SameStanding(c)
           /\ Head(lc[c].r_buffer).last /\ lc[c].ktid # 0
           /\ lc'[c].w_buffer \in {lc[c].w_buffer, <<>>}
<1> DEFINE k == Consumed(c)
           reset == c \in Items(wait_queue)
           b == IF reset THEN <<>> ELSE k.w_buffer
           n == IF reset THEN 0 ELSE k.w_curr
           q == [k EXCEPT !.ktid = 0, !.w_buffer = b, !.w_curr = n]
           t == net[c].torn \/ (reset /\ lc[c].w_curr # 0)
           e == [net[c] EXCEPT !.torn = t]
<1>1. /\ lc' = [lc EXCEPT ![c] = q]
      /\ Head(lc[c].r_buffer).last /\ lc[c].ktid # 0
  BY DEF DecodeKeepalive, IsKeepalive
<1>2. net[c] \in FarEnd /\ net' = [net EXCEPT ![c] = e]
  BY DEF DecodeKeepalive, TypeOK
<1>3. lc[c].r_buffer # <<>> /\ send_msg_queue' = send_msg_queue /\ tid' = tid
  BY DEF LDAP_clnt_decode
<1>4. k \in LDAP_CLNT /\ b \in {lc[c].w_buffer, <<>>}
  BY <1>3, ConsumedFacts
<1> HIDE DEF k, b, n, t
<1>5. /\ q.r_buffer = k.r_buffer /\ q.r_part = k.r_part
      /\ q.read_time = k.read_time /\ q.w_buffer = b
      /\ q.write_time = k.write_time
      /\ q.state = k.state /\ q.concurrent_count = k.concurrent_count
  BY <1>4 DEF LDAP_CLNT
<1>6. e.pending = net[c].pending /\ e.inbox = net[c].inbox
  BY <1>2 DEF FarEnd
<1> HIDE DEF q, e
<1>7. lc'[c] = q /\ net'[c] = e /\ OnlyTouches(c)
  BY <1>1, <1>2 DEF TypeOK, OnlyTouches
<1> QED BY <1>1, <1>3, <1>4, <1>5, <1>6, <1>7, ConsumedFacts
        DEF k, Took, SameStanding

\* An answer is counted, ends the search and may make the connection ready.
LEMMA AnswerFacts ==
    ASSUME TypeOK, NEW c \in Slot, LDAP_clnt_decode(c), DecodeAnswer(c)
    PROVE  LET n == lc[c].concurrent_count - 1
           IN  /\ Took(c) /\ OnlyResponse(c)
               /\ Head(lc[c].r_buffer).last
               /\ n \in Nat /\ lc'[c].concurrent_count = n
               /\ lc'[c].rber = <<>>
               /\ lc'[c].state = IF lc[c].state = "WAITING" /\ n < max_concurrent
                                 THEN "READY" ELSE lc[c].state
<1> DEFINE k == Consumed(c)
           n == CountAfterAnswer(c)
           t == IF Wakes(c, n) THEN "READY" ELSE k.state
           b == <<>>
           q == [k EXCEPT !.concurrent_count = n, !.rber = b, !.state = t]
<1>1. /\ lc' = [lc EXCEPT ![c] = q] /\ net' = net
      /\ Head(lc[c].r_buffer).last /\ lc[c].concurrent_count > 0
  BY DEF DecodeAnswer
<1>2. lc[c].r_buffer # <<>> /\ send_msg_queue' = send_msg_queue /\ tid' = tid
  BY DEF LDAP_clnt_decode
<1>3. /\ k \in LDAP_CLNT
      /\ t = IF lc[c].state = "WAITING" /\ n < max_concurrent
             THEN "READY" ELSE lc[c].state
  BY <1>2, ConsumedFacts DEF Wakes
<1>4. n = lc[c].concurrent_count - 1 /\ n \in Nat
  BY <1>1, PartTypes DEF CountAfterAnswer
<1> HIDE DEF k, t, b, n
<1>5. /\ q.r_buffer = k.r_buffer /\ q.r_part = k.r_part
      /\ q.read_time = k.read_time /\ q.w_buffer = k.w_buffer
      /\ q.write_time = k.write_time /\ q.ktid = k.ktid
      /\ q.state = t /\ q.concurrent_count = n /\ q.rber = b
  BY <1>3 DEF LDAP_CLNT
<1> HIDE DEF q
<1>6. lc'[c] = q /\ OnlyTouches(c)
  BY <1>1 DEF TypeOK, OnlyTouches
<1>7. Took(c) /\ OnlyResponse(c)
  BY <1>1, <1>2, <1>5, <1>6, ConsumedFacts DEF k, Took, OnlyResponse
<1>8. lc'[c].rber = <<>>
  BY <1>5, <1>6 DEF b
<1> QED BY <1>1, <1>3, <1>4, <1>5, <1>6, <1>7, <1>8

\* Unexpected data is taken, when nothing is outstanding, and changes nothing else.
LEMMA UnexpectedFacts ==
    ASSUME TypeOK, NEW c \in Slot, LDAP_clnt_decode(c), DecodeUnexpected(c)
    PROVE  /\ Took(c) /\ OnlyResponse(c) /\ SameStanding(c)
           /\ Head(lc[c].r_buffer).last /\ lc[c].concurrent_count = 0
<1>1. lc' = [lc EXCEPT ![c] = Consumed(c)] /\ net' = net
  BY DEF DecodeUnexpected
<1>2. lc[c].r_buffer # <<>> /\ send_msg_queue' = send_msg_queue /\ tid' = tid
  BY DEF LDAP_clnt_decode
<1>3. lc'[c] = Consumed(c) /\ OnlyTouches(c)
  BY <1>1 DEF TypeOK, OnlyTouches
<1> QED BY <1>1, <1>2, <1>3, ConsumedFacts
        DEF DecodeUnexpected, Took, OnlyResponse, SameStanding

-----------------------------------------------------------------------------
(* The steps of the pool, as the proofs below take them apart.             *)

\* Without keepalives the keepalive loop never runs.
CallInv == heartbeat_type = "NONE" => call.op # "keepalive"

\* No call starts that loop while keepalives are off.
LEMMA CallInvStep ==
    ASSUME TypeOK, CallInv, [Next]_vars
    PROVE  CallInv'
<1>1. ASSUME NextSlot PROVE call'.op = call.op \/ call'.op = "none"
  <2>1. call \in Call
    BY DEF TypeOK
  <2>2. CASE call.no + 1 < LDAP_MAX_CLIENT
    <3> DEFINE n == call.no + 1
    <3>1. call' = [call EXCEPT !.no = n]
      BY <1>1, <2>2 DEF NextSlot
    <3> HIDE DEF n
    <3> QED BY <2>1, <3>1 DEF Call
  <2>3. CASE ~(call.no + 1 < LDAP_MAX_CLIENT)
    BY <1>1, <2>3 DEF NextSlot, Return
  <2> QED BY <2>2, <2>3
<1>2. CASE UNCHANGED call \/ call' = Return
  BY <1>2 DEF CallInv, Return
<1>3. CASE CloseAllStep \/ CheckStep \/ KeepAliveStep
  BY <1>1, <1>2, <1>3 DEF CallInv, CloseAllStep, CheckStep, KeepAliveStep, SkipSlot,
     SendKeepalive
<1>4. CASE LDAP_clnt_keep_alive
  BY <1>4 DEF CallInv, LDAP_clnt_keep_alive
<1>5. CASE \/ LDAP_clnt_close_all \/ Enqueue \/ Flush
           \/ LDAP_clnt_check_connection
  BY <1>5 DEF CallInv, LDAP_clnt_close_all, Enqueue, Flush,
     LDAP_clnt_check_connection, Begin
<1>6. ASSUME NEW c \in Slot,
             \/ LDAP_clnt_close(c) \/ SendBind(c) \/ LDAP_clnt_write(c)
             \/ RecvBind(c) \/ LDAP_clnt_read(c) \/ Reply(c)
      PROVE  UNCHANGED call
  BY <1>6 DEF LDAP_clnt_close, SendBind, LDAP_clnt_write, RecvBind,
     LDAP_clnt_read, Reply
<1>7. ASSUME NEW c \in Slot, SendOn(c) PROVE CallInv'
  BY <1>2, <1>7 DEF SendOn, Begin, CallInv
<1>8. ASSUME NEW c \in Slot, LDAP_clnt_decode(c) PROVE CallInv'
  BY <1>2, <1>8 DEF LDAP_clnt_decode, DecodeEntry, DecodeKeepalive,
     DecodeAnswer, DecodeUnexpected, Begin, CallInv
<1>9. ASSUME \/ SetOption \/ LDAP_clnt_open \/ LDAP_clnt_open_no_memory
             \/ FlushStep \/ FlushReturn \/ DecodeReturn \/ UNCHANGED vars
      PROVE  UNCHANGED call \/ call' = Return
  BY <1>9 DEF SetOption, LDAP_clnt_open, LDAP_clnt_open_no_memory, TakeSlot,
     FlushStep, FlushReturn, DecodeReturn, vars
<1> QED BY <1>2, <1>3, <1>4, <1>5, <1>6, <1>7, <1>8, <1>9 DEF Next

\* Every step is about one connection, or gives out an id, or changes
\* neither a connection nor the queue of requests.
LEMMA PoolSteps ==
    ASSUME TypeOK, CallInv, [Next]_vars
    PROVE  \/ UNCHANGED <<lc, net, send_msg_queue, tid>>
           \/ Enqueue \/ FlushStep
           \/ \E c \in Slot :
                 \/ Close(c) \/ TakeSlot(c)
                 \/ SendBind(c) \/ RecvBind(c)
                 \/ LDAP_clnt_write(c) \/ LDAP_clnt_read(c)
                 \/ SendOn(c) \/ LDAP_clnt_decode(c) \/ Reply(c)
                 \/ SendKeepalive(c) /\ heartbeat_type # "NONE"
<1>1. call.no \in Slot
  BY DEF TypeOK, Call
<1>2. CASE LDAP_clnt_open \/ LDAP_clnt_open_no_memory
  <2>1. TakeSlot(FirstFree) /\ open \subseteq Slot /\ open # Slot
    BY <1>2 DEF LDAP_clnt_open, LDAP_clnt_open_no_memory, MayOpen, TypeOK
  <2>2. FirstFree \in Slot
    BY <2>1, FirstFreeIsFree
  <2> QED BY <2>1, <2>2
<1>3. CASE CloseAllStep \/ CheckStep
  BY <1>1, <1>3 DEF CloseAllStep, CheckStep, SkipSlot
<1>4. CASE KeepAliveStep
  BY <1>1, <1>4 DEF KeepAliveStep, SkipSlot, Running, CallInv
<1>5. CASE \/ SetOption \/ LDAP_clnt_close_all \/ Flush \/ FlushReturn
           \/ DecodeReturn \/ LDAP_clnt_keep_alive
           \/ LDAP_clnt_check_connection \/ UNCHANGED vars
  BY <1>5 DEF SetOption, LDAP_clnt_close_all, Flush, FlushReturn,
     DecodeReturn, LDAP_clnt_keep_alive, LDAP_clnt_check_connection, vars
<1> QED BY <1>2, <1>3, <1>4, <1>5 DEF Next, LDAP_clnt_close

-----------------------------------------------------------------------------
(* The timers, and the connections that wait.                              *)

\* What is on its way in or out of a connection is timed.
Timed(l) ==
    /\ l.r_buffer # <<>> \/ l.r_part > 0 => l.read_time
    /\ ~DirectSend /\ l.w_buffer # <<>> => l.write_time

\* A connection that is not bound has taken no request, unless the
\* application gave it one.
UnboundHoldsNothing(l) ==
    ~DirectSend /\ l.state \in {"OPEN", "CONNECTING"} =>
        l.w_buffer = <<>> /\ l.concurrent_count = 0

\* A connection that waits has taken a request.
WaitsForAnswer(l) == l.state = "WAITING" => l.concurrent_count >= 1

Sound(l) == Timed(l) /\ UnboundHoldsNothing(l) /\ WaitsForAnswer(l)

SoundInv == \A c \in Slot : Sound(lc[c])

\* It is enough to look at the connection that a step touches.
LEMMA SoundTouched ==
    ASSUME SoundInv, NEW c \in Slot, OnlyTouches(c), Sound(lc[c]) => Sound(lc'[c])
    PROVE  SoundInv'
BY DEF SoundInv, OnlyTouches

\* A response that LDAP_clnt_decode takes keeps it.
LEMMA SoundDecode ==
    ASSUME TypeOK, NEW c \in Slot, Sound(lc[c]), LDAP_clnt_decode(c)
    PROVE  OnlyTouches(c) /\ Sound(lc'[c])
<1>1. ASSUME Took(c), lc'[c].w_buffer \in {lc[c].w_buffer, <<>>} PROVE Timed(lc'[c])
  <2>1. lc[c].read_time
    BY <1>1 DEF Took, Sound, Timed
  <2> QED BY <1>1, <2>1 DEF Took, Sound, Timed
<1>2. ASSUME Took(c), lc'[c].w_buffer \in {lc[c].w_buffer, <<>>}, SameStanding(c)
      PROVE  Sound(lc'[c])
  BY <1>1, <1>2 DEF Sound, UnboundHoldsNothing, WaitsForAnswer, SameStanding
<1>3. CASE DecodeEntry(c)
  BY <1>2, <1>3, EntryFacts DEF OnlyResponse, Took
<1>4. CASE DecodeKeepalive(c)
  BY <1>2, <1>4, KeepaliveResponseFacts DEF Took
<1>5. CASE DecodeUnexpected(c)
  BY <1>2, <1>5, UnexpectedFacts DEF OnlyResponse, Took
<1>6. CASE DecodeAnswer(c)
  <2> DEFINE n == lc[c].concurrent_count - 1
  <2>1. /\ Took(c) /\ OnlyResponse(c) /\ n \in Nat
        /\ lc'[c].concurrent_count = n
        /\ lc'[c].state = IF lc[c].state = "WAITING" /\ n < max_concurrent
                          THEN "READY" ELSE lc[c].state
    BY <1>6, AnswerFacts
  <2>2. Timed(lc'[c])
    BY <1>1, <2>1 DEF OnlyResponse
  <2>3. lc[c].concurrent_count \in Nat /\ lc[c].concurrent_count # 0
    BY <2>1, PartTypes
  <2>4. UnboundHoldsNothing(lc'[c])
    BY <2>1, <2>3 DEF Sound, UnboundHoldsNothing
  <2>5. WaitsForAnswer(lc'[c])
    <3>1. max_concurrent \in Nat \ {0}
      BY OptionAssumption DEF TypeOK
    <3>2. lc'[c].state = "WAITING" => ~(n < max_concurrent)
      BY <2>1
    <3> HIDE DEF n
    <3> QED BY <2>1, <3>1, <3>2 DEF WaitsForAnswer
  <2> QED BY <2>1, <2>2, <2>4, <2>5 DEF Sound, Took
<1> QED BY <1>3, <1>4, <1>5, <1>6 DEF LDAP_clnt_decode

\* Every step of the pool keeps its connections sound.
LEMMA SoundStep ==
    ASSUME TypeOK, QueueInv, CallInv, SoundInv, [Next]_vars
    PROVE  SoundInv'
<1>1. CASE lc' = lc
  BY <1>1 DEF SoundInv
<1>2. ASSUME NEW c \in Slot, Close(c) \/ TakeSlot(c) PROVE SoundInv'
  <2>1. Sound(NewClient)
    BY DEF Sound, Timed, UnboundHoldsNothing, WaitsForAnswer, NewClient
  <2> QED BY <1>2, <2>1, FreshFacts, SoundTouched
<1>3. ASSUME NEW c \in Slot, SendBind(c) \/ RecvBind(c) PROVE SoundInv'
  <2>1. Sound(lc[c]) => Sound(lc'[c])
    BY <1>3, BindFacts DEF Sound, Timed, UnboundHoldsNothing, WaitsForAnswer,
       SameInput
  <2> QED BY <1>3, <2>1, BindFacts, SoundTouched
<1>4. ASSUME NEW c \in Slot, LDAP_clnt_write(c) PROVE SoundInv'
  <2>1. lc[c].state \in {"READY", "WAITING"}
    BY <1>4 DEF LDAP_clnt_write
  <2>2. /\ SameInput(c) /\ SameStanding(c) /\ OnlyTouches(c)
        /\ lc'[c].write_time = (lc'[c].w_buffer # <<>>)
    BY <1>4, WriteFacts
  <2>3. Sound(lc[c]) => Sound(lc'[c])
    BY <2>1, <2>2 DEF Sound, Timed, UnboundHoldsNothing, WaitsForAnswer,
       SameInput, SameStanding
  <2> QED BY <2>2, <2>3, SoundTouched
<1>5. ASSUME NEW c \in Slot, LDAP_clnt_read(c) PROVE SoundInv'
  <2>1. Sound(lc[c]) => Sound(lc'[c])
    BY <1>5, ReadFacts DEF Sound, Timed, UnboundHoldsNothing, WaitsForAnswer,
       SameStanding
  <2> QED BY <1>5, <2>1, ReadFacts, SoundTouched
<1>6. ASSUME NEW c \in Slot, NEW m, NEW t, Buffered(c, m, t),
             DirectSend \/ t \in {"READY", "WAITING"}
      PROVE  SoundInv'
  <2>1. lc'[c].concurrent_count >= 1
    BY <1>6, PartTypes DEF Buffered
  <2>2. Sound(lc[c]) => Sound(lc'[c])
    BY <1>6, <2>1 DEF Buffered, Sound, Timed, UnboundHoldsNothing,
       WaitsForAnswer, SameInput
  <2> QED BY <1>6, <2>2, SoundTouched DEF Buffered
<1>7. CASE FlushStep
  <2> DEFINE c == Head(ready_queue)
             m == Head(send_msg_queue)
             t == IF lc[c].concurrent_count + 1 >= max_concurrent
                  THEN "WAITING" ELSE lc[c].state
  <2>1. /\ c \in Slot /\ lc[c].state \in {"READY", "WAITING"}
        /\ Buffered(c, m, t)
    BY <1>7, FlushFacts
  <2>2. t \in {"READY", "WAITING"}
    BY <2>1
  <2> HIDE DEF c, m, t
  <2> QED BY <1>6, <2>1, <2>2
<1>8. ASSUME NEW c \in Slot, SendOn(c) PROVE SoundInv'
  BY <1>6, <1>8, SendOnFacts
<1>9. ASSUME NEW c \in Slot, LDAP_clnt_decode(c) PROVE SoundInv'
  <2>1. Sound(lc[c])
    BY DEF SoundInv
  <2> QED BY <1>9, <2>1, SoundDecode, SoundTouched
<1>10. ASSUME NEW c \in Slot, SendKeepalive(c) PROVE SoundInv'
  <2>1. Sound(lc[c]) => Sound(lc'[c])
    BY <1>10, KeepaliveFacts DEF Sound, Timed, UnboundHoldsNothing,
       WaitsForAnswer, SameInput, SameStanding
  <2> QED BY <1>10, <2>1, KeepaliveFacts, SoundTouched
<1>11. ASSUME NEW c \in Slot, Reply(c) PROVE lc' = lc
  BY <1>11, ReplyFacts
<1>12. ASSUME Enqueue PROVE lc' = lc
  BY <1>12 DEF Enqueue
<1> QED BY <1>1, <1>2, <1>3, <1>4, <1>5, <1>7, <1>8, <1>9, <1>10, <1>11,
           <1>12, PoolSteps

\* They are sound in every reachable state.
LEMMA SoundInvariance == Spec => [](TypeOK /\ QueueInv /\ CallInv /\ SoundInv)
<1>1. Init => CallInv /\ SoundInv
  <2> SUFFICES ASSUME Init PROVE CallInv /\ SoundInv
    OBVIOUS
  <2>1. CallInv
    BY DEF Init, CallInv, Return
  <2>2. Sound(NewClient)
    BY DEF Sound, Timed, UnboundHoldsNothing, WaitsForAnswer, NewClient
  <2> QED BY <2>1, <2>2 DEF Init, SoundInv
<1>2. TypeOK /\ QueueInv /\ CallInv /\ SoundInv /\ [Next]_vars
        => CallInv' /\ SoundInv'
  BY CallInvStep, SoundStep
<1> QED BY <1>1, <1>2, QueueInvariance, PTL DEF Spec

\* Output that waits has its write timer running and input that is not
\* decoded its read timer, for every way in which bytes, messages, answers
\* and keepalives can follow each other: a peer that stops in the middle is
\* found by LDAP_clnt_check_connection.
THEOREM TimersCorrect == Spec => []PendingIoIsTimed
<1>1. TypeOK /\ SoundInv => PendingIoIsTimed
  BY DEF TypeOK, SoundInv, Sound, Timed, PendingIoIsTimed
<1> QED BY <1>1, SoundInvariance, PTL

-----------------------------------------------------------------------------
(* The way of a request: unsent, with the server, and in a response that   *)
(* has arrived or is on its way.                                           *)

Held(l, n) ==
    Items(l.w_buffer) \union n.pending \union Final(n.inbox)
        \union Final(l.r_buffer)

\* No request is in two of the places or twice in one.
ApartIn(l, n) ==
    /\ NoRepeat(l.w_buffer) /\ Once(n.inbox) /\ Once(l.r_buffer)
    /\ Items(l.w_buffer) \intersect n.pending = {}
    /\ Items(l.w_buffer) \intersect Final(n.inbox) = {}
    /\ Items(l.w_buffer) \intersect Final(l.r_buffer) = {}
    /\ n.pending \intersect Final(n.inbox) = {}
    /\ n.pending \intersect Final(l.r_buffer) = {}
    /\ Final(n.inbox) \intersect Final(l.r_buffer) = {}

\* A connection that has just been opened holds nothing.
LEMMA FreshHolds ==
    Held(NewClient, NewFarEnd) = {} /\ ApartIn(NewClient, NewFarEnd)
BY EmptyItems, EmptyFinal DEF Held, ApartIn, NewClient, NewFarEnd

\* A write passes requests on to the server; once the connection is out of
\* frame they are lost.
LEMMA WriteHolds ==
    ASSUME TypeOK, NEW c \in Slot, LDAP_clnt_write(c), ApartIn(lc[c], net[c])
    PROVE  /\ ApartIn(lc'[c], net'[c])
           /\ Held(lc'[c], net'[c]) \subseteq Held(lc[c], net[c])
           /\ ~net[c].torn => Held(lc'[c], net'[c]) = Held(lc[c], net[c])
<1> DEFINE w == lc[c].w_buffer
<1>1. PICK k \in 0..Len(w) :
        /\ lc'[c].w_buffer = SubSeq(w, k + 1, Len(w))
        /\ net'[c].pending = IF net[c].torn THEN net[c].pending
                             ELSE net[c].pending \union Items(SubSeq(w, 1, k))
  BY WriteFacts
<1>2. net'[c].inbox = net[c].inbox /\ lc'[c].r_buffer = lc[c].r_buffer
  BY WriteFacts DEF SameInput
<1> DEFINE p == SubSeq(w, 1, k)
           q == SubSeq(w, k + 1, Len(w))
<1>3. w \in Seq(Nat)
  BY PartTypes
<1>4. NoRepeat(w)
  BY DEF ApartIn
<1> HIDE DEF w
<1>5. /\ Items(w) = Items(p) \union Items(q)
      /\ NoRepeat(q) /\ Items(p) \intersect Items(q) = {}
  BY <1>3, <1>4, SplitItems
<1>6. lc'[c].w_buffer = q
  BY <1>1
<1>7. net'[c].pending = IF net[c].torn THEN net[c].pending
                        ELSE net[c].pending \union Items(p)
  BY <1>1
<1> HIDE DEF p, q
<1>8. ApartIn(lc'[c], net'[c])
  BY <1>2, <1>5, <1>6, <1>7 DEF ApartIn, w
<1> QED BY <1>2, <1>5, <1>6, <1>7, <1>8 DEF Held, w

\* A read takes responses from the network.
LEMMA ReadHolds ==
    ASSUME TypeOK, NEW c \in Slot, LDAP_clnt_read(c), ApartIn(lc[c], net[c])
    PROVE  /\ ApartIn(lc'[c], net'[c])
           /\ Held(lc'[c], net'[c]) = Held(lc[c], net[c])
<1> DEFINE s == net[c].inbox
           r == lc[c].r_buffer
<1>1. PICK k \in 0..Len(s) :
        /\ lc'[c].r_buffer = r \o SubSeq(s, 1, k)
        /\ net'[c].inbox = SubSeq(s, k + 1, Len(s))
  BY ReadFacts
<1>2. lc'[c].w_buffer = lc[c].w_buffer /\ net'[c].pending = net[c].pending
  BY ReadFacts
<1> DEFINE p == SubSeq(s, 1, k)
           q == SubSeq(s, k + 1, Len(s))
<1>3. s \in Seq(Response) /\ r \in Seq(Response)
  BY PartTypes
<1>4. /\ Once(s) /\ Once(r) /\ Final(s) \intersect Final(r) = {}
  BY DEF ApartIn
<1> HIDE DEF s, r
<1>5. p \in Seq(Response)
  BY <1>3, SplitSeq
<1>6. /\ Final(s) = Final(p) \union Final(q)
      /\ Once(p) /\ Once(q) /\ Final(p) \intersect Final(q) = {}
  BY <1>3, <1>4, SplitFinal
<1>7. lc'[c].r_buffer = r \o p /\ net'[c].inbox = q
  BY <1>1
<1> HIDE DEF p, q
<1>8. Final(r \o p) = Final(r) \union Final(p) /\ Once(r \o p)
  <2>1. Final(r) \intersect Final(p) = {}
    BY <1>4, <1>6
  <2> QED BY <1>3, <1>4, <1>5, <1>6, <2>1, ConcatFinal
<1>9. ApartIn(lc'[c], net'[c])
  BY <1>2, <1>4, <1>6, <1>7, <1>8 DEF ApartIn, s, r
<1> QED BY <1>2, <1>6, <1>7, <1>8, <1>9 DEF Held, s, r

\* A request that a connection takes.
LEMMA BufferedHolds ==
    ASSUME TypeOK, NEW c \in Slot, NEW m \in Nat, NEW t, Buffered(c, m, t),
           ApartIn(lc[c], net[c]), m \notin Held(lc[c], net[c])
    PROVE  /\ ApartIn(lc'[c], net'[c])
           /\ Held(lc'[c], net'[c]) = Held(lc[c], net[c]) \union {m}
<1> DEFINE w == lc[c].w_buffer
           v == Append(w, m)
<1>1. w \in Seq(Nat) /\ NoRepeat(w) /\ m \notin Items(w)
  BY PartTypes DEF ApartIn, Held
<1>2. /\ lc'[c].w_buffer = v /\ lc'[c].r_buffer = lc[c].r_buffer
      /\ net'[c] = net[c]
  BY DEF Buffered, SameInput
<1> HIDE DEF w
<1>3. Items(v) = Items(w) \union {m} /\ NoRepeat(v)
  BY <1>1, AppendMore
<1> HIDE DEF v
<1>4. ApartIn(lc'[c], net'[c])
  BY <1>2, <1>3 DEF ApartIn, Held, w
<1> QED BY <1>2, <1>3, <1>4 DEF Held, w

\* A keepalive request, and what goes out with it.
LEMMA KeepaliveHolds ==
    ASSUME TypeOK, NEW c \in Slot, SendKeepalive(c), ApartIn(lc[c], net[c]),
           tid + 1 \notin Held(lc[c], net[c])
    PROVE  /\ ApartIn(lc'[c], net'[c])
           /\ Held(lc'[c], net'[c]) \subseteq Held(lc[c], net[c]) \union {tid + 1}
<1> DEFINE m == tid + 1
<1>1. /\ lc'[c].w_buffer = <<>> /\ lc'[c].r_buffer = lc[c].r_buffer
      /\ net'[c].inbox = net[c].inbox
      /\ net'[c].pending = IF net[c].torn THEN net[c].pending
                           ELSE net[c].pending \union Items(lc[c].w_buffer)
                                  \union {m}
  BY KeepaliveFacts DEF SameInput
<1> HIDE DEF m
<1>2. m \notin Held(lc[c], net[c])
  BY DEF m
<1>3. Items(lc'[c].w_buffer) = {} /\ NoRepeat(lc'[c].w_buffer)
  BY <1>1, EmptyItems
<1>4. ApartIn(lc'[c], net'[c])
  BY <1>1, <1>2, <1>3 DEF ApartIn, Held
<1>5. Held(lc'[c], net'[c]) \subseteq Held(lc[c], net[c]) \union {m}
  BY <1>1, <1>3 DEF Held
<1> QED BY <1>4, <1>5 DEF m

\* A request that the server answers, or sends an entry for.
LEMMA ReplyHolds ==
    ASSUME TypeOK, NEW c \in Slot, Reply(c), ApartIn(lc[c], net[c])
    PROVE  /\ ApartIn(lc'[c], net'[c])
           /\ Held(lc'[c], net'[c]) = Held(lc[c], net[c])
<1>1. PICK m \in net[c].pending, last \in BOOLEAN :
        /\ net'[c].pending = IF last THEN net[c].pending \ {m}
                                     ELSE net[c].pending
        /\ net'[c].inbox = Append(net[c].inbox, [tid |-> m, last |-> last])
  BY ReplyFacts
<1>2. lc' = lc
  BY ReplyFacts
<1> DEFINE r == [tid |-> m, last |-> last]
           s == net[c].inbox
           a == Append(s, r)
<1>3. s \in Seq(Response) /\ m \in Nat
  BY PartTypes
<1>4. r \in Response /\ r.tid = m /\ r.last = last
  BY <1>3 DEF Response
<1>5. Once(s) /\ m \notin Final(s)
  BY DEF ApartIn
<1>6. net'[c].inbox = a
  BY <1>1
<1> HIDE DEF r, s
<1>7. Final(a) = Final(s) \union IF last THEN {m} ELSE {}
  BY <1>3, <1>4, AppendFinal
<1>8. Once(a)
  BY <1>3, <1>4, <1>5, AppendFinal
<1> HIDE DEF a
<1>9. ApartIn(lc'[c], net'[c])
  BY <1>1, <1>2, <1>6, <1>7, <1>8 DEF ApartIn, s
<1> QED BY <1>1, <1>2, <1>6, <1>7, <1>9 DEF Held, s

\* A response that LDAP_clnt_decode takes: an entry changes nothing, the
\* last one ends its request.
LEMMA TookHolds ==
    ASSUME TypeOK, NEW c \in Slot, Took(c), ApartIn(lc[c], net[c]),
           lc'[c].w_buffer \in {lc[c].w_buffer, <<>>}
    PROVE  LET h == Head(lc[c].r_buffer)
           IN  /\ ApartIn(lc'[c], net'[c])
               /\ Held(lc'[c], net'[c]) \subseteq Held(lc[c], net[c])
               /\ lc'[c].w_buffer = lc[c].w_buffer =>
                     /\ ~h.last => Held(lc'[c], net'[c]) = Held(lc[c], net[c])
                     /\ h.last =>
                           /\ h.tid \in Held(lc[c], net[c])
                           /\ Held(lc'[c], net'[c])
                                = Held(lc[c], net[c]) \ {h.tid}
<1> DEFINE r == lc[c].r_buffer
           t == Tail(r)
           h == Head(r)
<1>1. /\ lc'[c].r_buffer = t /\ r # <<>> /\ net'[c].pending = net[c].pending
      /\ net'[c].inbox = net[c].inbox
  BY DEF Took
<1>2. r \in Seq(Response) /\ Once(r)
  BY PartTypes DEF ApartIn
<1> HIDE DEF r
<1>3. /\ Final(r) = Final(t) \union IF h.last THEN {h.tid} ELSE {}
      /\ Once(t)
      /\ h.last => h.tid \notin Final(t)
  BY <1>1, <1>2, HeadTailFinal
<1> HIDE DEF t, h
<1>4. /\ Items(lc'[c].w_buffer) \subseteq Items(lc[c].w_buffer)
      /\ NoRepeat(lc'[c].w_buffer)
  BY EmptyItems DEF ApartIn
<1>5. ApartIn(lc'[c], net'[c])
  BY <1>1, <1>3, <1>4 DEF ApartIn, r
<1>6. Held(lc'[c], net'[c]) \subseteq Held(lc[c], net[c])
  BY <1>1, <1>3, <1>4 DEF Held, r
<1>7. ASSUME lc'[c].w_buffer = lc[c].w_buffer, ~h.last
      PROVE  Held(lc'[c], net'[c]) = Held(lc[c], net[c])
  BY <1>1, <1>3, <1>7 DEF Held, r
<1>8. ASSUME lc'[c].w_buffer = lc[c].w_buffer, h.last
      PROVE  /\ h.tid \in Held(lc[c], net[c])
             /\ Held(lc'[c], net'[c]) = Held(lc[c], net[c]) \ {h.tid}
  BY <1>1, <1>3, <1>8 DEF Held, ApartIn, r
<1> QED BY <1>5, <1>6, <1>7, <1>8 DEF h, r

\* A request is in the queue or with one connection, and all ids were given
\* out.
RequestInv ==
    /\ NoRepeat(send_msg_queue)
    /\ Items(send_msg_queue) \subseteq 1..tid
    /\ \A c \in Slot :
          /\ ApartIn(lc[c], net[c])
          /\ Held(lc[c], net[c]) \subseteq 1..tid
          /\ Held(lc[c], net[c]) \intersect Items(send_msg_queue) = {}
          /\ \A d \in Slot \ {c} :
                Held(lc[c], net[c]) \intersect Held(lc[d], net[d]) = {}

\* A connection that takes requests only from the queue, or new ones, keeps
\* it.
LEMMA RequestMoved ==
    ASSUME TypeOK, RequestInv, NEW c \in Slot, OnlyTouches(c),
           ApartIn(lc'[c], net'[c]), tid' \in {tid, tid + 1},
           NoRepeat(send_msg_queue'),
           Items(send_msg_queue') \subseteq Items(send_msg_queue),
           Held(lc'[c], net'[c]) \subseteq
               Held(lc[c], net[c])
                 \union (Items(send_msg_queue) \ Items(send_msg_queue'))
                 \union ((1..tid') \ (1..tid))
    PROVE  RequestInv'
<1> DEFINE H(d) == Held(lc[d], net[d])
           G(d) == Held(lc'[d], net'[d])
           Q == Items(send_msg_queue)
           R == Items(send_msg_queue')
           old == 1..tid
           all == 1..tid'
<1>1. \A d \in Slot \ {c} : G(d) = H(d) /\ lc'[d] = lc[d] /\ net'[d] = net[d]
  BY DEF OnlyTouches
<1>2. old \subseteq all
  BY DEF TypeOK
<1>3. /\ Q \subseteq old
      /\ \A d \in Slot : H(d) \subseteq old /\ H(d) \intersect Q = {}
      /\ \A d \in Slot : \A e \in Slot \ {d} : H(d) \intersect H(e) = {}
      /\ \A d \in Slot : ApartIn(lc[d], net[d])
  BY DEF RequestInv
<1>4. R \subseteq Q /\ G(c) \subseteq H(c) \union (Q \ R) \union (all \ old)
  OBVIOUS
<1> HIDE DEF H, G, Q, R, old, all
<1>5. R \subseteq all
  BY <1>2, <1>3, <1>4
<1>6. ASSUME NEW d \in Slot PROVE G(d) \subseteq all /\ G(d) \intersect R = {}
  <2>1. CASE d = c
    BY <1>2, <1>3, <1>4, <2>1
  <2>2. CASE d # c
    BY <1>1, <1>2, <1>3, <1>4, <2>2
  <2> QED BY <2>1, <2>2
<1>7. ASSUME NEW e \in Slot \ {c} PROVE G(c) \intersect G(e) = {}
  BY <1>1, <1>3, <1>4
<1>8. ASSUME NEW d \in Slot, NEW e \in Slot \ {d} PROVE G(d) \intersect G(e) = {}
  <2>1. CASE d = c
    BY <1>7, <2>1
  <2>2. CASE e = c
    BY <1>7, <2>2
  <2>3. CASE d # c /\ e # c
    BY <1>1, <1>3, <2>3
  <2> QED BY <2>1, <2>2, <2>3
<1>9. ASSUME NEW d \in Slot PROVE ApartIn(lc'[d], net'[d])
  BY <1>1, <1>3
<1> QED BY <1>5, <1>6, <1>8, <1>9 DEF RequestInv, G, R, all

\* The next id is not in use.
LEMMA NextIdIsNew ==
    ASSUME TypeOK, RequestInv
    PROVE  /\ tid + 1 \in Nat /\ tid + 1 \in (1..(tid + 1)) \ (1..tid)
           /\ tid + 1 \notin Items(send_msg_queue)
           /\ \A c \in Slot : tid + 1 \notin Held(lc[c], net[c])
<1>1. tid + 1 \in Nat /\ tid + 1 \in (1..(tid + 1)) \ (1..tid)
  BY DEF TypeOK
<1> QED BY <1>1 DEF RequestInv

\* Every step keeps the requests apart.
LEMMA RequestStep ==
    ASSUME TypeOK, QueueInv, CallInv, RequestInv, [Next]_vars
    PROVE  RequestInv'
<1> DEFINE H(d) == Held(lc[d], net[d])
           G(d) == Held(lc'[d], net'[d])
<1>1. CASE UNCHANGED <<lc, net, send_msg_queue, tid>>
  BY <1>1 DEF RequestInv
<1>2. ASSUME NEW c \in Slot PROVE ApartIn(lc[c], net[c])
  BY DEF RequestInv
<1>3. ASSUME NEW c \in Slot, OnlyTouches(c), ApartIn(lc'[c], net'[c]),
             G(c) \subseteq H(c), send_msg_queue' = send_msg_queue,
             tid' = tid
      PROVE  RequestInv'
  <2>1. NoRepeat(send_msg_queue)
    BY DEF RequestInv
  <2> QED BY <1>3, <2>1, RequestMoved
<1>4. ASSUME NEW c \in Slot, Close(c) \/ TakeSlot(c) PROVE RequestInv'
  <2>1. G(c) = {} /\ ApartIn(lc'[c], net'[c])
    BY <1>4, FreshFacts, FreshHolds
  <2> HIDE DEF G, H
  <2>2. G(c) \subseteq H(c)
    BY <2>1
  <2> QED BY <1>3, <1>4, <2>1, <2>2, FreshFacts
<1>5. ASSUME NEW c \in Slot, SendBind(c) \/ RecvBind(c) PROVE RequestInv'
  <2>1. G(c) = H(c) /\ ApartIn(lc'[c], net'[c])
    BY <1>2, <1>5, BindFacts DEF Held, ApartIn, SameInput
  <2> HIDE DEF G, H
  <2> QED BY <1>3, <1>5, <2>1, BindFacts
<1>6. ASSUME NEW c \in Slot, LDAP_clnt_write(c) PROVE RequestInv'
  <2>1. G(c) \subseteq H(c) /\ ApartIn(lc'[c], net'[c])
    BY <1>2, <1>6, WriteHolds
  <2>2. send_msg_queue' = send_msg_queue /\ tid' = tid
    BY <1>6 DEF LDAP_clnt_write
  <2> HIDE DEF G, H
  <2> QED BY <1>3, <1>6, <2>1, <2>2, WriteFacts
<1>7. ASSUME NEW c \in Slot, LDAP_clnt_read(c) PROVE RequestInv'
  <2>1. G(c) \subseteq H(c) /\ ApartIn(lc'[c], net'[c])
    BY <1>2, <1>7, ReadHolds
  <2>2. send_msg_queue' = send_msg_queue /\ tid' = tid
    BY <1>7 DEF LDAP_clnt_read
  <2> HIDE DEF G, H
  <2> QED BY <1>3, <1>7, <2>1, <2>2, ReadFacts
<1>8. ASSUME NEW c \in Slot, Reply(c) PROVE RequestInv'
  <2>1. G(c) \subseteq H(c) /\ ApartIn(lc'[c], net'[c])
    BY <1>2, <1>8, ReplyHolds
  <2> HIDE DEF G, H
  <2> QED BY <1>3, <1>8, <2>1, ReplyFacts
<1>9. ASSUME NEW c \in Slot, LDAP_clnt_decode(c) PROVE RequestInv'
  <2>1. Took(c) /\ lc'[c].w_buffer \in {lc[c].w_buffer, <<>>}
    BY <1>9, EntryFacts, KeepaliveResponseFacts, AnswerFacts,
       UnexpectedFacts DEF LDAP_clnt_decode, OnlyResponse
  <2>2. G(c) \subseteq H(c) /\ ApartIn(lc'[c], net'[c])
    BY <1>2, <2>1, TookHolds
  <2> HIDE DEF G, H
  <2> QED BY <1>3, <2>1, <2>2 DEF Took
<1>10. ASSUME NEW c \in Slot, SendKeepalive(c) PROVE RequestInv'
  <2>1. G(c) \subseteq H(c) \union {tid + 1} /\ ApartIn(lc'[c], net'[c])
    BY <1>2, <1>10, NextIdIsNew, KeepaliveHolds
  <2>2. send_msg_queue' = send_msg_queue /\ tid' = tid + 1 /\ OnlyTouches(c)
    BY <1>10, KeepaliveFacts
  <2>3. NoRepeat(send_msg_queue) /\ tid + 1 \in (1..tid') \ (1..tid)
    BY <2>2, NextIdIsNew DEF RequestInv
  <2> QED BY <2>1, <2>2, <2>3, RequestMoved
<1>11. ASSUME NEW c \in Slot, SendOn(c) PROVE RequestInv'
  <2>1. /\ send_msg_queue' = send_msg_queue /\ tid' = tid + 1
        /\ Buffered(c, tid + 1, lc[c].state)
    BY <1>11, SendOnFacts
  <2>2. tid + 1 \in Nat /\ tid + 1 \notin H(c)
    BY NextIdIsNew
  <2>3. G(c) = H(c) \union {tid + 1} /\ ApartIn(lc'[c], net'[c])
    BY <1>2, <2>1, <2>2, BufferedHolds
  <2>4. NoRepeat(send_msg_queue) /\ tid + 1 \in (1..tid') \ (1..tid)
    BY <2>1, NextIdIsNew DEF RequestInv
  <2> QED BY <2>1, <2>3, <2>4, RequestMoved DEF Buffered
<1>12. CASE FlushStep
  <2> DEFINE c == Head(ready_queue)
             m == Head(send_msg_queue)
             t == IF lc[c].concurrent_count + 1 >= max_concurrent
                  THEN "WAITING" ELSE lc[c].state
  <2>1. /\ c \in Slot /\ send_msg_queue # <<>>
        /\ Buffered(c, m, t)
        /\ send_msg_queue' = Tail(send_msg_queue) /\ tid' = tid
    BY <1>12, FlushFacts
  <2>2. send_msg_queue \in Seq(Nat) /\ NoRepeat(send_msg_queue)
    BY DEF TypeOK, RequestInv
  <2>3. /\ m \in Nat /\ m \in Items(send_msg_queue)
        /\ Items(send_msg_queue') = Items(send_msg_queue) \ {m}
        /\ NoRepeat(send_msg_queue')
    BY <2>1, <2>2, HeadItem, HeadTailItems
  <2> HIDE DEF c, m, t
  <2>4. m \notin H(c)
    BY <2>1, <2>3 DEF RequestInv
  <2>5. G(c) = H(c) \union {m} /\ ApartIn(lc'[c], net'[c])
    BY <1>2, <2>1, <2>3, <2>4, BufferedHolds
  <2>6. OnlyTouches(c)
    BY <2>1 DEF Buffered
  <2>7. /\ Items(send_msg_queue') \subseteq Items(send_msg_queue)
        /\ G(c) \subseteq H(c)
                 \union (Items(send_msg_queue) \ Items(send_msg_queue'))
                 \union ((1..tid') \ (1..tid))
    BY <2>3, <2>5
  <2> QED BY <2>1, <2>3, <2>5, <2>6, <2>7, RequestMoved
<1>13. CASE Enqueue
  <2>1. /\ tid' = tid + 1 /\ lc' = lc /\ net' = net
        /\ send_msg_queue' = Append(send_msg_queue, tid + 1)
    BY <1>13 DEF Enqueue
  <2>2. send_msg_queue \in Seq(Nat) /\ NoRepeat(send_msg_queue)
    BY DEF TypeOK, RequestInv
  <2> DEFINE m == tid + 1
  <2>3. m \in Nat /\ m \in 1..tid' /\ m \notin Items(send_msg_queue)
        /\ \A c \in Slot : m \notin H(c)
    BY <2>1, NextIdIsNew
  <2>4. send_msg_queue' = Append(send_msg_queue, m)
    BY <2>1
  <2> HIDE DEF m
  <2>5. /\ Items(send_msg_queue') = Items(send_msg_queue) \union {m}
        /\ NoRepeat(send_msg_queue')
    BY <2>2, <2>3, <2>4, AppendMore
  <2>6. 1..tid \subseteq 1..tid'
    BY <2>1 DEF TypeOK
  <2> QED BY <2>1, <2>3, <2>5, <2>6 DEF RequestInv
<1> QED BY <1>1, <1>4, <1>5, <1>6, <1>7, <1>8, <1>9, <1>10, <1>11, <1>12,
           <1>13, PoolSteps

\* The requests are apart in every reachable state.
LEMMA RequestInvariance == Spec => []RequestInv
<1>1. Init => RequestInv
  <2> SUFFICES ASSUME Init PROVE RequestInv
    OBVIOUS
  <2>1. \A c \in Slot : Held(lc[c], net[c]) = {} /\ ApartIn(lc[c], net[c])
    BY FreshHolds DEF Init
  <2> QED BY <2>1, EmptyItems DEF Init, RequestInv
<1>2. TypeOK /\ QueueInv /\ CallInv /\ RequestInv /\ [Next]_vars => RequestInv'
  BY RequestStep
<1> QED BY <1>1, <1>2, SoundInvariance, PTL DEF Spec

\* As many requests are answered as there are last responses.
LEMMA FinalCount ==
    ASSUME NEW s \in Seq(Response), Once(s)
    PROVE  /\ IsFiniteSet(Final(s))
           /\ Cardinality(Final(s)) = Cardinality({j \in 1..Len(s) : s[j].last})
<1> DEFINE I == {j \in 1..Len(s) : s[j].last}
           f == [i \in I |-> s[i].tid]
<1>1. Len(s) \in Nat
  OBVIOUS
<1>2. IsFiniteSet(I)
  <2>1. IsFiniteSet(1..Len(s)) /\ I \in SUBSET (1..Len(s))
    BY <1>1, FS_Interval
  <2> HIDE DEF I
  <2> QED BY <2>1, FS_Subset
<1>3. /\ f \in [I -> Final(s)]
      /\ \A t \in Final(s) : \E i \in I : f[i] = t
  BY DEF Final
<1>4. \A i, j \in I : f[i] = f[j] => i = j
  BY DEF Once
<1> HIDE DEF f, I
<1>5. IsFiniteSet(Final(s)) /\ Cardinality(Final(s)) = Cardinality(I)
  BY <1>2, <1>3, <1>4, SameCount
<1> QED BY <1>5 DEF I

\* Two sets that have no member in common.
LEMMA DisjointCount ==
    ASSUME NEW S, NEW T, IsFiniteSet(S), IsFiniteSet(T), S \intersect T = {}
    PROVE  /\ IsFiniteSet(S \union T)
           /\ Cardinality(S \union T) = Cardinality(S) + Cardinality(T)
<1>1. /\ IsFiniteSet(S \union T)
      /\ Cardinality(S \union T)
           = Cardinality(S) + Cardinality(T) - Cardinality(S \intersect T)
  BY FS_Union
<1>2. Cardinality(S \intersect T) = 0
  BY FS_EmptySet
<1>3. Cardinality(S) \in Nat /\ Cardinality(T) \in Nat
  BY FS_CardinalityType
<1> QED BY <1>1, <1>2, <1>3

\* The number of requests a connection holds is the sum over the places.
LEMMA HeldCount ==
    ASSUME TypeOK, RequestInv, NEW c \in Slot
    PROVE  /\ IsFiniteSet(Held(lc[c], net[c]))
           /\ Held(lc[c], net[c]) = Outstanding(c)
           /\ Cardinality(Held(lc[c], net[c])) = OutstandingCount(c)
<1> DEFINE w == lc[c].w_buffer
           p == net[c].pending
           s == net[c].inbox
           r == lc[c].r_buffer
           W == Items(w)
           S == Final(s)
           R == Final(r)
           N(q) == Cardinality({j \in 1..Len(q) : q[j].last})
<1>1. /\ w \in Seq(Nat) /\ s \in Seq(Response) /\ r \in Seq(Response)
  BY PartTypes
<1>2. /\ NoRepeat(w) /\ Once(s) /\ Once(r)
      /\ W \intersect p = {} /\ W \intersect S = {} /\ W \intersect R = {}
      /\ p \intersect S = {} /\ p \intersect R = {} /\ S \intersect R = {}
      /\ p \subseteq Held(lc[c], net[c]) /\ Held(lc[c], net[c]) \subseteq 1..tid
  BY DEF RequestInv, ApartIn, Held
<1>3. IsFiniteSet(p)
  <2>1. tid \in Int
    BY DEF TypeOK
  <2>2. IsFiniteSet(1..tid)
    BY <2>1, FS_Interval
  <2> QED BY <1>2, <2>2, FS_Subset
<1>4. Held(lc[c], net[c]) = ((W \union p) \union S) \union R
  BY DEF Held
<1>5. Held(lc[c], net[c]) = Outstanding(c)
  BY DEF Held, Outstanding, Final
<1>6. OutstandingCount(c) = Len(w) + Cardinality(p) + N(s) + N(r)
  BY DEF OutstandingCount
<1> HIDE DEF w, s, r
<1>7. /\ IsFiniteSet(W) /\ Cardinality(W) = Len(w)
  BY <1>1, <1>2, ItemsCount
<1>8. /\ IsFiniteSet(S) /\ Cardinality(S) = N(s)
      /\ IsFiniteSet(R) /\ Cardinality(R) = N(r)
  BY <1>1, <1>2, FinalCount
<1> HIDE DEF p, W, S, R, N
<1>9. /\ IsFiniteSet(W \union p)
      /\ Cardinality(W \union p) = Cardinality(W) + Cardinality(p)
  BY <1>2, <1>3, <1>7, DisjointCount
<1>10. (W \union p) \intersect S = {} /\ ((W \union p) \union S) \intersect R = {}
  BY <1>2
<1> DEFINE A == W \union p
           B == A \union S
           C == B \union R
<1>11. IsFiniteSet(A) /\ Cardinality(A) = Cardinality(W) + Cardinality(p)
       /\ A \intersect S = {} /\ B \intersect R = {}
  BY <1>9, <1>10
<1> HIDE DEF A
<1>12. IsFiniteSet(B) /\ Cardinality(B) = Cardinality(A) + Cardinality(S)
  BY <1>8, <1>11, DisjointCount
<1> HIDE DEF B
<1>13. IsFiniteSet(C) /\ Cardinality(C) = Cardinality(B) + Cardinality(R)
  BY <1>8, <1>11, <1>12, DisjointCount
<1> HIDE DEF C
<1>14. Held(lc[c], net[c]) = C
  BY <1>4 DEF A, B, C
<1>15. Cardinality(C) = Len(w) + Cardinality(p) + N(s) + N(r)
  BY <1>7, <1>8, <1>11, <1>12, <1>13
<1> QED BY <1>5, <1>6, <1>13, <1>14, <1>15

\* In every interleaving of requests, partial writes and reads, answers,
\* entries, resets, time-outs and keepalives a request is in one place only:
\* in the queue, or with one connection and there unsent, with the server, or
\* in a response on its way to the caller.  So none is sent twice.
THEOREM RequestsCorrect == Spec => []NoRequestTwice
<1>1. TypeOK /\ RequestInv => NoRequestTwice
  <2> SUFFICES ASSUME TypeOK, RequestInv PROVE NoRequestTwice
    OBVIOUS
  <2>1. \A c \in Slot :
          /\ Held(lc[c], net[c]) = Outstanding(c)
          /\ Cardinality(Held(lc[c], net[c])) = OutstandingCount(c)
    BY HeldCount
  <2> QED BY <2>1 DEF RequestInv, NoRequestTwice
<1> QED BY <1>1, TypeCorrect, RequestInvariance, PTL

-----------------------------------------------------------------------------
(* The count of concurrent requests.                                       *)

\* concurrent_count is the number of requests the connection holds; without
\* keepalives no connection gets out of frame.
Counted(l, n) ==
    l.ktid = 0 /\ n.torn = FALSE /\ l.concurrent_count = Cardinality(Held(l, n))

CountInv ==
    heartbeat_type = "NONE" => \A c \in Slot : Counted(lc[c], net[c])

\* Every step keeps the counts.
LEMMA CountStep ==
    ASSUME TypeOK, QueueInv, CallInv, RequestInv, CountInv, [Next]_vars
    PROVE  CountInv'
<1> SUFFICES ASSUME heartbeat_type = "NONE"
             PROVE  \A d \in Slot : Counted(lc'[d], net'[d])
  BY DEF CountInv
<1> DEFINE H(d) == Held(lc[d], net[d])
           G(d) == Held(lc'[d], net'[d])
           Goal == \A d \in Slot : Counted(lc'[d], net'[d])
<1>1. \A d \in Slot : Counted(lc[d], net[d]) /\ ApartIn(lc[d], net[d])
  BY DEF CountInv, RequestInv
<1>2. ASSUME NEW c \in Slot, OnlyTouches(c), Counted(lc'[c], net'[c]) PROVE Goal
  BY <1>1, <1>2 DEF OnlyTouches
<1>3. ASSUME NEW c \in Slot PROVE IsFiniteSet(H(c)) /\ Cardinality(H(c)) \in Nat
  BY HeldCount, FS_CardinalityType
<1>4. CASE UNCHANGED <<lc, net>>
  BY <1>1, <1>4
<1>5. ASSUME NEW c \in Slot, Close(c) \/ TakeSlot(c) PROVE Goal
  <2>1. Counted(NewClient, NewFarEnd)
    BY FreshHolds, FS_EmptySet DEF Counted, NewClient, NewFarEnd
  <2> QED BY <1>2, <1>5, <2>1, FreshFacts
<1>6. ASSUME NEW c \in Slot, SendBind(c) \/ RecvBind(c) PROVE Goal
  <2>1. G(c) = H(c)
    BY <1>6, BindFacts DEF Held, SameInput
  <2> QED BY <1>1, <1>2, <1>6, <2>1, BindFacts DEF Counted
<1>7. ASSUME NEW c \in Slot, LDAP_clnt_write(c) PROVE Goal
  <2>1. ~net[c].torn
    BY <1>1 DEF Counted
  <2>2. G(c) = H(c)
    BY <1>1, <1>7, <2>1, WriteHolds
  <2>3. /\ OnlyTouches(c) /\ lc'[c].concurrent_count = lc[c].concurrent_count
        /\ lc'[c].ktid = lc[c].ktid /\ net'[c].torn = net[c].torn
    BY <1>7, WriteFacts DEF SameStanding
  <2> QED BY <1>1, <1>2, <2>2, <2>3 DEF Counted
<1>8. ASSUME NEW c \in Slot, LDAP_clnt_read(c) PROVE Goal
  <2>1. G(c) = H(c)
    BY <1>1, <1>8, ReadHolds
  <2>2. /\ OnlyTouches(c) /\ lc'[c].concurrent_count = lc[c].concurrent_count
        /\ lc'[c].ktid = lc[c].ktid /\ net'[c].torn = net[c].torn
    BY <1>8, ReadFacts DEF SameStanding
  <2> QED BY <1>1, <1>2, <2>1, <2>2 DEF Counted
<1>9. ASSUME NEW c \in Slot, Reply(c) PROVE Goal
  <2>1. G(c) = H(c)
    BY <1>1, <1>9, ReplyHolds
  <2>2. OnlyTouches(c) /\ lc' = lc /\ net'[c].torn = net[c].torn
    BY <1>9, ReplyFacts
  <2> QED BY <1>1, <1>2, <2>1, <2>2 DEF Counted
<1>10. ASSUME NEW c \in Slot, NEW m \in Nat, NEW t, Buffered(c, m, t),
              m \notin H(c)
       PROVE  Goal
  <2>1. G(c) = H(c) \union {m}
    BY <1>1, <1>10, BufferedHolds
  <2>2. Cardinality(H(c) \union {m}) = Cardinality(H(c)) + 1
    BY <1>3, <1>10, FS_AddElement
  <2>3. /\ OnlyTouches(c) /\ lc'[c].ktid = lc[c].ktid /\ net' = net
        /\ lc'[c].concurrent_count = lc[c].concurrent_count + 1
    BY <1>10 DEF Buffered
  <2> HIDE DEF H
  <2>4. Cardinality(G(c)) = lc'[c].concurrent_count
    BY <1>1, <2>1, <2>2, <2>3 DEF Counted, H
  <2>5. Counted(lc'[c], net'[c])
    BY <1>1, <2>3, <2>4 DEF Counted
  <2> QED BY <1>2, <2>3, <2>5
<1>11. CASE FlushStep
  <2> DEFINE c == Head(ready_queue)
             m == Head(send_msg_queue)
             t == IF lc[c].concurrent_count + 1 >= max_concurrent
                  THEN "WAITING" ELSE lc[c].state
  <2>1. c \in Slot /\ send_msg_queue # <<>> /\ Buffered(c, m, t)
    BY <1>11, FlushFacts
  <2>2. send_msg_queue \in Seq(Nat)
    BY DEF TypeOK
  <2>3. m \in Nat /\ m \in Items(send_msg_queue)
    BY <2>1, <2>2, HeadItem
  <2> HIDE DEF c, m, t
  <2>4. m \notin H(c)
    BY <2>1, <2>3 DEF RequestInv
  <2> QED BY <1>10, <2>1, <2>3, <2>4
<1>12. ASSUME NEW c \in Slot, SendOn(c) PROVE Goal
  BY <1>10, <1>12, SendOnFacts, NextIdIsNew
<1>13. ASSUME NEW c \in Slot, LDAP_clnt_decode(c) PROVE Goal
  <2> DEFINE h == Head(lc[c].r_buffer)
             n == lc[c].concurrent_count
  <2>1. n = Cardinality(H(c)) /\ lc[c].ktid = 0 /\ net[c].torn = FALSE
    BY <1>1 DEF Counted
  <2>2. ASSUME Took(c), OnlyResponse(c)
        PROVE  /\ ~h.last => G(c) = H(c)
               /\ h.last => h.tid \in H(c) /\ G(c) = H(c) \ {h.tid}
    BY <1>1, <2>2, TookHolds DEF OnlyResponse
  <2>3. CASE DecodeEntry(c)
    <3>1. Took(c) /\ OnlyResponse(c) /\ SameStanding(c) /\ ~h.last
      BY <1>13, <2>3, EntryFacts
    <3>2. G(c) = H(c)
      BY <2>2, <3>1
    <3>3. Counted(lc'[c], net'[c])
      BY <2>1, <3>1, <3>2 DEF Counted, OnlyResponse, SameStanding
    <3> QED BY <1>2, <3>1, <3>3 DEF Took
  <2>4. CASE DecodeKeepalive(c)
    BY <1>13, <2>1, <2>4, KeepaliveResponseFacts
  <2>5. CASE DecodeAnswer(c)
    <3>1. /\ Took(c) /\ OnlyResponse(c) /\ h.last
          /\ lc'[c].concurrent_count = n - 1
      BY <1>13, <2>5, AnswerFacts
    <3>2. h.tid \in H(c) /\ G(c) = H(c) \ {h.tid}
      BY <2>2, <3>1
    <3> HIDE DEF h
    <3>3. Cardinality(H(c) \ {h.tid}) = Cardinality(H(c)) - 1
      BY <1>3, <3>2, FS_RemoveElement
    <3>4. Cardinality(G(c)) = n - 1
      BY <2>1, <3>2, <3>3
    <3>5. Counted(lc'[c], net'[c])
      BY <2>1, <3>1, <3>4 DEF Counted, OnlyResponse
    <3> QED BY <1>2, <3>1, <3>5 DEF Took
  <2>6. CASE DecodeUnexpected(c)
    <3>1. Took(c) /\ OnlyResponse(c) /\ h.last /\ n = 0
      BY <1>13, <2>6, UnexpectedFacts
    <3>2. H(c) # {}
      BY <2>2, <3>1
    <3> QED BY <1>3, <2>1, <3>1, <3>2, FS_EmptySet
  <2> QED BY <1>13, <2>3, <2>4, <2>5, <2>6 DEF LDAP_clnt_decode
<1>14. ASSUME Enqueue PROVE UNCHANGED <<lc, net>>
  BY <1>14 DEF Enqueue
<1> QED BY <1>4, <1>5, <1>6, <1>7, <1>8, <1>9, <1>11, <1>12, <1>13, <1>14,
           PoolSteps

\* The counts are right in every reachable state.
LEMMA CountInvariance == Spec => []CountInv
<1>1. Init => CountInv
  <2> SUFFICES ASSUME Init PROVE CountInv
    OBVIOUS
  <2>1. Counted(NewClient, NewFarEnd)
    BY FreshHolds, FS_EmptySet DEF Counted, NewClient, NewFarEnd
  <2> QED BY <2>1 DEF Init, CountInv
<1>2. TypeOK /\ QueueInv /\ CallInv /\ RequestInv /\ CountInv /\ [Next]_vars
        => CountInv'
  BY CountStep
<1> QED BY <1>1, <1>2, SoundInvariance, RequestInvariance, PTL DEF Spec

\* Without keepalives concurrent_count, which decides whether a connection
\* takes another request, is the number of requests it has taken and not
\* reported to be answered, wherever they are.
THEOREM ConcurrentCountCorrect == Spec => []ConcurrentCountIsOutstanding
<1>1. TypeOK /\ RequestInv /\ CountInv => ConcurrentCountIsOutstanding
  <2> SUFFICES ASSUME TypeOK, RequestInv, CountInv, heartbeat_type = "NONE",
                      NEW c \in open
               PROVE  lc[c].concurrent_count = OutstandingCount(c)
    BY DEF ConcurrentCountIsOutstanding
  <2>1. c \in Slot
    BY DEF TypeOK
  <2> QED BY <2>1, HeldCount DEF CountInv, Counted
<1> QED BY <1>1, TypeCorrect, RequestInvariance, CountInvariance, PTL

\* No lost wakeup: a connection in state WAITING has taken a request, and
\* without keepalives the answer that makes it ready again is still to come.
THEOREM WaitingCorrect == Spec => []WaitingHasOutstanding
<1>1. TypeOK /\ SoundInv /\ RequestInv /\ CountInv => WaitingHasOutstanding
  <2> SUFFICES ASSUME TypeOK, SoundInv, RequestInv, CountInv,
                      NEW c \in open, lc[c].state = "WAITING"
               PROVE  /\ lc[c].concurrent_count >= 1
                      /\ heartbeat_type = "NONE" => Outstanding(c) # {}
    BY DEF WaitingHasOutstanding
  <2>1. c \in Slot
    BY DEF TypeOK
  <2>2. lc[c].concurrent_count >= 1
    BY <2>1 DEF SoundInv, Sound, WaitsForAnswer
  <2>3. ASSUME heartbeat_type = "NONE" PROVE Outstanding(c) # {}
    <3>1. Cardinality(Outstanding(c)) = lc[c].concurrent_count
      BY <2>1, <2>3, HeldCount DEF CountInv, Counted
    <3>2. ~(0 >= 1)
      OBVIOUS
    <3> QED BY <2>2, <3>1, <3>2, FS_EmptySet
  <2> QED BY <2>2, <2>3
<1> QED BY <1>1, SoundInvariance, RequestInvariance, CountInvariance, PTL

-----------------------------------------------------------------------------
(* The limit of concurrent requests.                                       *)

\* Without keepalives, what is in the ready queue is ready.
ReadyInv ==
    heartbeat_type = "NONE" /\ ~corrupt =>
        \A c \in Items(ready_queue) : lc[c].state = "READY"

\* A connection that a step may have put into the ready queue must be ready;
\* the others stay.
LEMMA ReadyTouched ==
    ASSUME TypeOK, heartbeat_type = "NONE", ReadyInv, ~corrupt, NEW c \in Slot,
           \A d \in Slot \ {c} : lc'[d].state = lc[d].state,
           Items(ready_queue') \subseteq Items(ready_queue) \union {c},
           c \in Items(ready_queue') => lc'[c].state = "READY"
    PROVE  ReadyInv'
<1>1. Items(ready_queue) \subseteq Slot
  BY DEF TypeOK, Items
<1> QED BY <1>1 DEF ReadyInv

\* Every step leaves only ready connections in the ready queue.
LEMMA ReadyStep ==
    ASSUME TypeOK, QueueInv, CallInv, CountInv, ReadyInv, [Next]_vars
    PROVE  ReadyInv'
<1> SUFFICES ASSUME heartbeat_type = "NONE" PROVE ReadyInv'
  BY DEF ReadyInv
<1> DEFINE St(d) == lc'[d].state = lc[d].state
<1>1. ready_queue \in Seq(Slot) /\ lc \in [Slot -> LDAP_CLNT]
      /\ open \subseteq Slot /\ call.no \in Slot
  BY DEF TypeOK, Call
<1>2. ASSUME ~corrupt
      PROVE  /\ NoRepeat(ready_queue) /\ Items(ready_queue) \subseteq open
             /\ Items(ready_queue) \intersect Items(wait_queue) = {}
             /\ \A d \in Items(ready_queue) : lc[d].state = "READY"
  BY <1>2 DEF QueueInv, QueueDiscipline, QueuesLinkOpenOnce, ReadyInv
<1>3. ASSUME UNCHANGED <<ready_queue, corrupt>>, \A d \in Slot : St(d) PROVE ReadyInv'
  <2>1. Items(ready_queue) \subseteq Slot
    BY <1>1 DEF Items
  <2> QED BY <1>3, <2>1 DEF ReadyInv
<1>4. ASSUME NEW c \in Slot, OnlyTouches(c) PROVE \A d \in Slot \ {c} : St(d)
  BY <1>4 DEF OnlyTouches
<1>5. ASSUME NEW c \in Slot, Close(c), ~corrupt PROVE ReadyInv'
  <2>1. Items(ready_queue') = Items(ready_queue) \ {c}
    BY <1>1, <1>2, <1>5, DeleteItems DEF Close
  <2> QED BY <1>4, <1>5, <2>1, FreshFacts, ReadyTouched
<1>6. CASE LDAP_clnt_open \/ LDAP_clnt_open_no_memory
  <2> DEFINE c == FirstFree
  <2>1. TakeSlot(c) /\ ~corrupt /\ open # Slot
    BY <1>6 DEF LDAP_clnt_open, LDAP_clnt_open_no_memory, MayOpen, Idle
  <2>2. c \in Slot \ open
    BY <1>1, <2>1, FirstFreeIsFree
  <2> HIDE DEF c
  <2>3. ready_queue' = ready_queue /\ c \notin Items(ready_queue)
    BY <1>2, <2>1, <2>2 DEF TakeSlot
  <2> QED BY <1>4, <2>1, <2>2, <2>3, FreshFacts, ReadyTouched
<1>7. ASSUME NEW c \in Slot, SendBind(c) PROVE ReadyInv'
  <2>1. ~corrupt /\ c \in Items(wait_queue) /\ ready_queue' = ready_queue
    BY <1>7 DEF SendBind, Idle, queues
  <2>2. c \notin Items(ready_queue)
    BY <1>2, <2>1
  <2> QED BY <1>4, <1>7, <2>1, <2>2, BindFacts, ReadyTouched
<1>8. ASSUME NEW c \in Slot, RecvBind(c) PROVE ReadyInv'
  <2>1. /\ ~corrupt /\ ready_queue' = Append(ready_queue, c)
        /\ lc'[c].state = "READY"
    BY <1>1, <1>8 DEF RecvBind, Idle, LDAP_CLNT
  <2>2. Items(ready_queue') = Items(ready_queue) \union {c}
    BY <1>1, <2>1, AppendMore
  <2> QED BY <1>4, <1>8, <2>1, <2>2, BindFacts, ReadyTouched
<1>9. ASSUME NEW c \in Slot,
             \/ LDAP_clnt_write(c) \/ LDAP_clnt_read(c) \/ SendOn(c)
             \/ Reply(c)
      PROVE  ReadyInv'
  <2>1. OnlyTouches(c) /\ lc'[c].state = lc[c].state
    BY <1>9, WriteFacts, ReadFacts, SendOnFacts, ReplyFacts
       DEF SameStanding, Buffered
  <2>2. UNCHANGED <<ready_queue, corrupt>>
    BY <1>9 DEF LDAP_clnt_write, LDAP_clnt_read, SendOn, Reply, queues
  <2> QED BY <1>3, <1>4, <2>1, <2>2
<1>10. CASE FlushStep
  <2> DEFINE c == Head(ready_queue)
             n == lc[c].concurrent_count + 1
             m == Head(send_msg_queue)
             t == IF n >= max_concurrent THEN "WAITING" ELSE lc[c].state
  <2>1. c \in Slot /\ c \in Items(ready_queue) /\ Buffered(c, m, t)
    BY <1>10, FlushFacts
  <2>2. /\ ~corrupt
        /\ ready_queue' = IF n >= max_concurrent THEN Delete(ready_queue, c)
                                                 ELSE MoveToEnd(ready_queue, c)
    BY <1>10 DEF FlushStep, Running, Dispatch, AtLimit
  <2>3. OnlyTouches(c) /\ lc'[c].state = t
    BY <2>1 DEF Buffered
  <2> HIDE DEF c, n, m
  <2>4. lc[c].state = "READY"
    BY <1>2, <2>1, <2>2
  <2>5. Items(Delete(ready_queue, c)) = Items(ready_queue) \ {c}
    BY <1>1, <1>2, <2>2, DeleteItems
  <2>6. Items(MoveToEnd(ready_queue, c)) = Items(ready_queue) \union {c}
    BY <1>1, <1>2, <2>1, <2>2, MoveToEndItems
  <2>7. /\ Items(ready_queue') \subseteq Items(ready_queue) \union {c}
        /\ c \in Items(ready_queue') => lc'[c].state = "READY"
    BY <2>2, <2>3, <2>4, <2>5, <2>6
  <2> QED BY <1>4, <2>1, <2>2, <2>3, <2>7, ReadyTouched
<1>11. ASSUME NEW c \in Slot, LDAP_clnt_decode(c) PROVE ReadyInv'
  <2>1. ~corrupt
    BY <1>11 DEF LDAP_clnt_decode, Idle, Running
  <2>2. CASE DecodeEntry(c) \/ DecodeUnexpected(c)
    <3>1. OnlyTouches(c) /\ lc'[c].state = lc[c].state
      BY <1>11, <2>2, EntryFacts, UnexpectedFacts DEF Took, SameStanding
    <3>2. UNCHANGED <<ready_queue, corrupt>>
      BY <2>2 DEF DecodeEntry, DecodeUnexpected, queues
    <3> QED BY <1>3, <1>4, <3>1, <3>2
  <2>3. CASE DecodeKeepalive(c)
    BY <1>11, <2>3, KeepaliveResponseFacts DEF CountInv, Counted
  <2>4. CASE DecodeAnswer(c)
    <3> DEFINE n == lc[c].concurrent_count - 1
               wake == lc[c].state = "WAITING" /\ n < max_concurrent
    <3>1. /\ OnlyTouches(c)
          /\ lc'[c].state = IF wake THEN "READY" ELSE lc[c].state
      BY <1>11, <2>4, AnswerFacts DEF Took
    <3>2. ready_queue' = IF wake THEN MoveToEnd(ready_queue, c)
                                 ELSE ready_queue
      BY <2>4 DEF DecodeAnswer, Wakes, CountAfterAnswer
    <3> HIDE DEF wake
    <3>3. Items(MoveToEnd(ready_queue, c)) = Items(ready_queue) \union {c}
      BY <1>1, <1>2, <2>1, MoveToEndItems
    <3>4. /\ Items(ready_queue') \subseteq Items(ready_queue) \union {c}
          /\ c \in Items(ready_queue') => lc'[c].state = "READY"
      BY <1>2, <2>1, <3>1, <3>2, <3>3
    <3> QED BY <1>4, <2>1, <3>1, <3>4, ReadyTouched
  <2> QED BY <1>11, <2>2, <2>3, <2>4 DEF LDAP_clnt_decode
<1>12. ASSUME \/ SetOption \/ Enqueue \/ LDAP_clnt_close_all \/ Flush
              \/ FlushReturn \/ DecodeReturn \/ SkipSlot
              \/ LDAP_clnt_keep_alive \/ LDAP_clnt_check_connection
              \/ UNCHANGED vars
       PROVE  ReadyInv'
  <2>1. UNCHANGED <<lc, ready_queue, corrupt>>
    BY <1>12 DEF SetOption, Enqueue, LDAP_clnt_close_all, Flush, FlushReturn,
       DecodeReturn, SkipSlot, LDAP_clnt_keep_alive,
       LDAP_clnt_check_connection, vars, queues
  <2> QED BY <1>3, <2>1
<1>13. ASSUME NEW c \in Slot, LDAP_clnt_close(c) PROVE ReadyInv'
  BY <1>5, <1>13 DEF LDAP_clnt_close, Idle
<1>14. CASE CloseAllStep \/ CheckStep
  BY <1>1, <1>5, <1>12, <1>14 DEF CloseAllStep, CheckStep, Running
<1>15. CASE KeepAliveStep
  BY <1>15 DEF KeepAliveStep, Running, CallInv
<1> QED BY <1>6, <1>7, <1>8, <1>9, <1>10, <1>11, <1>12, <1>13, <1>14, <1>15
        DEF Next

\* Some setting of max_concurrent allows what a connection has taken, and
\* one more when it is ready.
WithinLimit(l) ==
    /\ \E v \in MaxConcurrentValues : l.concurrent_count <= v
    /\ l.state = "READY" =>
          \E v \in MaxConcurrentValues : l.concurrent_count < v

LimitInv ==
    heartbeat_type = "NONE" /\ ~DirectSend =>
        \A c \in Slot : WithinLimit(lc[c])

\* A connection that has taken nothing is within the limit.
LEMMA NothingTaken ==
    ASSUME TypeOK, NEW l, l.concurrent_count = 0
    PROVE  WithinLimit(l)
<1>1. max_concurrent \in MaxConcurrentValues /\ max_concurrent \in Nat \ {0}
  BY OptionAssumption DEF TypeOK
<1>2. 0 <= max_concurrent /\ 0 < max_concurrent
  BY <1>1
<1> QED BY <1>1, <1>2 DEF WithinLimit

\* Every step stays within the limit.
LEMMA LimitStep ==
    ASSUME TypeOK, QueueInv, CallInv, SoundInv, CountInv, ReadyInv, LimitInv,
           [Next]_vars
    PROVE  LimitInv'
<1> SUFFICES ASSUME heartbeat_type = "NONE", ~DirectSend
             PROVE  \A d \in Slot : WithinLimit(lc'[d])
  BY DEF LimitInv
<1> DEFINE Goal == \A d \in Slot : WithinLimit(lc'[d])
<1>1. \A d \in Slot : WithinLimit(lc[d])
  BY DEF LimitInv
<1>2. ASSUME NEW c \in Slot, OnlyTouches(c), WithinLimit(lc'[c]) PROVE Goal
  BY <1>1, <1>2 DEF OnlyTouches
<1>3. ASSUME NEW c \in Slot, OnlyTouches(c), SameStanding(c) PROVE Goal
  BY <1>1, <1>2, <1>3 DEF SameStanding, WithinLimit
<1>4. CASE lc' = lc
  BY <1>1, <1>4
<1>5. ASSUME NEW c \in Slot, Close(c) \/ TakeSlot(c) PROVE Goal
  <2>1. WithinLimit(NewClient)
    BY NothingTaken DEF NewClient
  <2> QED BY <1>2, <1>5, <2>1, FreshFacts
<1>6. ASSUME NEW c \in Slot, SendBind(c) \/ RecvBind(c) PROVE Goal
  <2>1. OnlyTouches(c) /\ lc'[c].concurrent_count = 0
    BY <1>6, BindFacts DEF SoundInv, Sound, UnboundHoldsNothing
  <2> QED BY <1>2, <2>1, NothingTaken
<1>7. ASSUME NEW c \in Slot, LDAP_clnt_write(c) \/ LDAP_clnt_read(c) PROVE Goal
  BY <1>3, <1>7, WriteFacts, ReadFacts
<1>8. MaxConcurrentValues \subseteq Nat /\ max_concurrent \in MaxConcurrentValues
  BY OptionAssumption DEF TypeOK
<1>9. CASE FlushStep
  <2> DEFINE c == Head(ready_queue)
             k == lc[c].concurrent_count
             m == Head(send_msg_queue)
             t == IF k + 1 >= max_concurrent THEN "WAITING" ELSE lc[c].state
  <2>1. c \in Slot /\ c \in Items(ready_queue) /\ Buffered(c, m, t)
    BY <1>9, FlushFacts
  <2>2. /\ OnlyTouches(c) /\ lc'[c].state = t
        /\ lc'[c].concurrent_count = k + 1
    BY <2>1 DEF Buffered
  <2>3. ~corrupt
    BY <1>9 DEF FlushStep, Running
  <2> HIDE DEF c, m
  <2>4. k \in Nat
    BY <2>1, PartTypes
  <2>5. lc[c].state = "READY"
    BY <2>1, <2>3 DEF ReadyInv
  <2>6. PICK v \in MaxConcurrentValues : k < v
    BY <1>1, <2>1, <2>5 DEF WithinLimit
  <2> HIDE DEF k
  <2>7. k + 1 <= v
    BY <1>8, <2>4, <2>6
  <2>8. t = "READY" => k + 1 < max_concurrent
    BY <1>8, <2>4
  <2> HIDE DEF t
  <2>9. WithinLimit(lc'[c])
    BY <1>8, <2>2, <2>7, <2>8 DEF WithinLimit
  <2> QED BY <1>2, <2>1, <2>2, <2>9
<1>10. ASSUME NEW c \in Slot, SendOn(c) PROVE Goal
  BY <1>10, SendOnFacts
<1>11. ASSUME NEW c \in Slot, LDAP_clnt_decode(c) PROVE Goal
  <2>1. CASE DecodeEntry(c) \/ DecodeUnexpected(c) \/ DecodeKeepalive(c)
    BY <1>3, <1>11, <2>1, EntryFacts, UnexpectedFacts,
       KeepaliveResponseFacts DEF Took
  <2>2. CASE DecodeAnswer(c)
    <3> DEFINE k == lc[c].concurrent_count
               n == k - 1
               t == lc'[c].state
    <3>1. /\ OnlyTouches(c) /\ n \in Nat /\ lc'[c].concurrent_count = n
          /\ t = IF lc[c].state = "WAITING" /\ n < max_concurrent
                 THEN "READY" ELSE lc[c].state
      BY <1>11, <2>2, AnswerFacts DEF Took
    <3>2. k \in Nat
      BY PartTypes
    <3>3. PICK v \in MaxConcurrentValues : k <= v
      BY <1>1 DEF WithinLimit
    <3>4. n <= v
      BY <1>8, <3>2, <3>3
    <3>5. ASSUME t = "READY" PROVE \E u \in MaxConcurrentValues : n < u
      <4>1. CASE n < max_concurrent
        BY <1>8, <4>1
      <4>2. CASE ~(n < max_concurrent)
        <5>1. lc[c].state = "READY"
          BY <3>1, <3>5, <4>2
        <5>2. PICK u \in MaxConcurrentValues : k < u
          BY <1>1, <5>1 DEF WithinLimit
        <5>3. n < u
          BY <1>8, <3>2, <5>2
        <5> QED BY <5>3
      <4> QED BY <4>1, <4>2
    <3> HIDE DEF n
    <3>6. WithinLimit(lc'[c])
      BY <3>1, <3>4, <3>5 DEF WithinLimit
    <3> QED BY <1>2, <3>1, <3>6
  <2> QED BY <1>11, <2>1, <2>2 DEF LDAP_clnt_decode
<1>12. ASSUME NEW c \in Slot, Reply(c) PROVE lc' = lc
  BY <1>12, ReplyFacts
<1>13. ASSUME Enqueue PROVE lc' = lc
  BY <1>13 DEF Enqueue
<1> QED BY <1>4, <1>5, <1>6, <1>7, <1>9, <1>10, <1>11, <1>12, <1>13, PoolSteps

\* Both hold in every reachable state.
LEMMA LimitInvariance == Spec => [](ReadyInv /\ LimitInv)
<1>1. Init => ReadyInv /\ LimitInv
  <2> SUFFICES ASSUME Init PROVE ReadyInv /\ LimitInv
    OBVIOUS
  <2>1. ReadyInv
    BY EmptyItems DEF Init, ReadyInv
  <2>2. max_concurrent \in MaxConcurrentValues /\ max_concurrent \in Nat \ {0}
    BY OptionAssumption DEF Init
  <2>3. \A c \in Slot : lc[c] = NewClient
    BY DEF Init
  <2>4. 0 <= max_concurrent /\ 0 < max_concurrent
    BY <2>2
  <2>5. WithinLimit(NewClient)
    BY <2>2, <2>4 DEF NewClient, WithinLimit
  <2> QED BY <2>1, <2>3, <2>5 DEF LimitInv
<1>2. TypeOK /\ QueueInv /\ CallInv /\ SoundInv /\ CountInv
        /\ ReadyInv /\ LimitInv /\ [Next]_vars => ReadyInv' /\ LimitInv'
  BY ReadyStep, LimitStep
<1> QED BY <1>1, <1>2, SoundInvariance, CountInvariance, PTL DEF Spec

\* Without keepalives and requests for a given connection, the flush never
\* gives a connection more requests than max_concurrent (the largest it was
\* set to), whatever answers arrive in between.
THEOREM LimitCorrect == Spec => []ConcurrencyLimited
<1>1. TypeOK /\ RequestInv /\ CountInv /\ LimitInv => ConcurrencyLimited
  <2> SUFFICES ASSUME TypeOK, RequestInv, CountInv, LimitInv,
                      heartbeat_type = "NONE", ~DirectSend, NEW c \in open
               PROVE  \E v \in MaxConcurrentValues : OutstandingCount(c) <= v
    BY DEF ConcurrencyLimited
  <2>1. c \in Slot
    BY DEF TypeOK
  <2>2. OutstandingCount(c) = lc[c].concurrent_count
    BY <2>1, HeldCount DEF CountInv, Counted
  <2> QED BY <2>1, <2>2 DEF LimitInv, WithinLimit
<1> QED BY <1>1, TypeCorrect, RequestInvariance, CountInvariance,
           LimitInvariance, PTL

-----------------------------------------------------------------------------
(* The entries of a search, with one request at a time.                    *)

\* Nothing follows the last response.
EndsOnce(s) == \A i \in 1..Len(s) : s[i].last => i = Len(s)

\* What follows the first response ends once too, and nothing follows a last one.
LEMMA EndsFirst ==
    ASSUME NEW h \in Response, NEW u \in Seq(Response), EndsOnce(<<h>> \o u)
    PROVE  EndsOnce(u) /\ (h.last => u = <<>>)
<1> DEFINE o == <<h>>
           s == o \o u
<1>1. o \in Seq(Response) /\ Len(o) = 1 /\ o[1] = h /\ Len(u) \in Nat
  OBVIOUS
<1> HIDE DEF o
<1>2. /\ Len(s) = Len(o) + Len(u)
      /\ \A i \in 1..(Len(o) + Len(u)) :
            s[i] = IF i <= Len(o) THEN o[i] ELSE u[i - Len(o)]
  BY <1>1, ConcatProperties
<1>3. EndsOnce(s)
  BY DEF o
<1> HIDE DEF s
<1>4. Len(s) = 1 + Len(u) /\ s[1] = h
  BY <1>1, <1>2
<1>5. ASSUME NEW i \in 1..Len(u), u[i].last PROVE i = Len(u)
  <2>1. /\ i + 1 \in 1..(Len(o) + Len(u)) /\ i + 1 \in 1..Len(s)
        /\ ~(i + 1 <= Len(o)) /\ (i + 1) - Len(o) = i
    BY <1>1, <1>4
  <2>2. s[i + 1] = u[i]
    BY <1>2, <2>1
  <2>3. i + 1 = Len(s)
    BY <1>3, <1>5, <2>1, <2>2 DEF EndsOnce
  <2> QED BY <1>1, <1>4, <2>3
<1>6. ASSUME h.last PROVE u = <<>>
  <2>1. 1 \in 1..Len(s)
    BY <1>1, <1>4
  <2>2. 1 = Len(s)
    BY <1>3, <1>4, <1>6, <2>1 DEF EndsOnce
  <2> QED BY <1>1, <1>4, <2>2, LenZero
<1> QED BY <1>5, <1>6 DEF EndsOnce

\* A response behind others that are not the last.
LEMMA EndsAppend ==
    ASSUME NEW u \in Seq(Response), NEW r \in Response, Final(u) = {}
    PROVE  EndsOnce(Append(u, r))
<1> DEFINE a == Append(u, r)
<1>1. /\ Len(u) \in Nat /\ Len(a) = Len(u) + 1
      /\ \A i \in 1..Len(u) : a[i] = u[i]
  BY AppendProperties
<1>2. \A i \in 1..Len(u) : ~u[i].last
  BY DEF Final
<1> HIDE DEF a
<1>3. ASSUME NEW i \in 1..Len(a), a[i].last PROVE i = Len(a)
  <2>1. ~(i \in 1..Len(u))
    BY <1>1, <1>2, <1>3
  <2> QED BY <1>1, <2>1
<1> QED BY <1>3 DEF EndsOnce, a

\* All that is collected or on its way belongs to what the connection holds.
Entries(l, n) ==
    /\ EndsOnce(l.r_buffer \o n.inbox)
    /\ \A x \in Items(l.r_buffer \o n.inbox) : x.tid \in Held(l, n)
    /\ Items(l.rber) \subseteq Held(l, n)

OneAtATime ==
    heartbeat_type = "NONE" /\ MaxConcurrentValues = {1} /\ ~DirectSend

EntriesInv == OneAtATime => \A c \in Slot : Entries(lc[c], net[c])

\* A connection holds one request at most.
LEMMA HoldsOne ==
    ASSUME TypeOK, RequestInv, CountInv, LimitInv, OneAtATime, NEW c \in Slot,
           NEW x \in Held(lc[c], net[c]), NEW y \in Held(lc[c], net[c])
    PROVE  x = y
<1> DEFINE H == Held(lc[c], net[c])
<1>1. IsFiniteSet(H) /\ Cardinality(H) \in Nat
  BY HeldCount, FS_CardinalityType
<1>2. Cardinality(H) <= 1
  BY DEF CountInv, Counted, LimitInv, WithinLimit, OneAtATime
<1> HIDE DEF H
<1>3. x \in H /\ y \in H
  BY DEF H
<1>4. Cardinality(H) # 0
  BY <1>1, <1>3, FS_EmptySet
<1>5. Cardinality(H) = 1
  BY <1>1, <1>2, <1>4
<1>6. PICK z : H = {z}
  BY <1>1, <1>5, FS_Singleton
<1> QED BY <1>3, <1>6

\* A connection whose last response has arrived receives nothing more.
LEMMA ReplyEntries ==
    ASSUME TypeOK, RequestInv, CountInv, LimitInv, OneAtATime, NEW c \in Slot,
           Entries(lc[c], net[c]), Reply(c)
    PROVE  Entries(lc'[c], net'[c])
<1> DEFINE r == lc[c].r_buffer
           s == net[c].inbox
           u == r \o s
<1>1. PICK m \in net[c].pending, last \in BOOLEAN :
        net'[c].inbox = Append(s, [tid |-> m, last |-> last])
  BY ReplyFacts
<1> DEFINE p == [tid |-> m, last |-> last]
<1>2. ApartIn(lc[c], net[c])
  BY DEF RequestInv
<1>3. lc' = lc /\ Held(lc'[c], net'[c]) = Held(lc[c], net[c])
  BY <1>2, ReplyFacts, ReplyHolds
<1>4. r \in Seq(Response) /\ s \in Seq(Response) /\ m \in Nat
  BY PartTypes
<1>5. p \in Response /\ p.tid = m
  BY <1>4 DEF Response
<1>6. m \in Held(lc[c], net[c]) /\ m \notin Final(s) /\ m \notin Final(r)
      /\ Final(s) \subseteq Held(lc[c], net[c])
      /\ Final(r) \subseteq Held(lc[c], net[c])
  BY <1>2 DEF Held, ApartIn
<1>7. Final(s) = {} /\ Final(r) = {}
  <2>1. ASSUME NEW x \in Final(s) \union Final(r) PROVE FALSE
    <3>1. x = m
      BY <1>6, HoldsOne
    <3> QED BY <1>6, <3>1
  <2> QED BY <2>1
<1>8. EndsOnce(u) /\ (\A x \in Items(u) : x.tid \in Held(lc[c], net[c]))
      /\ Items(lc[c].rber) \subseteq Held(lc[c], net[c])
  BY DEF Entries
<1>9. lc'[c].r_buffer = r /\ net'[c].inbox = Append(s, p) /\ lc'[c].rber = lc[c].rber
  BY <1>1, <1>3
<1> HIDE DEF r, s, p
<1>10. u \in Seq(Response) /\ Final(u) = {}
  BY <1>4, <1>7, ConcatFinal, ConcatProperties
<1>11. r \o Append(s, p) = Append(u, p)
  <2> DEFINE o == <<p>>
  <2>1. o \in Seq(Response)
    BY <1>5
  <2>2. Append(s, p) = s \o o
    BY <1>4, <1>5, AppendIsConcat
  <2>3. Append(u, p) = u \o o
    BY <1>5, <1>10, AppendIsConcat
  <2> HIDE DEF o
  <2>4. r \o (s \o o) = (r \o s) \o o
    BY <1>4, <2>1, ConcatAssociative
  <2> QED BY <2>2, <2>3, <2>4
<1> HIDE DEF u
<1>12. EndsOnce(Append(u, p)) /\ Items(Append(u, p)) = Items(u) \union {p}
  BY <1>5, <1>10, EndsAppend, AppendMore
<1> QED BY <1>3, <1>5, <1>6, <1>8, <1>9, <1>11, <1>12 DEF Entries

\* A read only moves the boundary between the two buffers.
LEMMA ReadEntries ==
    ASSUME TypeOK, RequestInv, NEW c \in Slot, Entries(lc[c], net[c]),
           LDAP_clnt_read(c)
    PROVE  Entries(lc'[c], net'[c])
<1> DEFINE r == lc[c].r_buffer
           s == net[c].inbox
<1>1. PICK k \in 0..Len(s) :
        /\ lc'[c].r_buffer = r \o SubSeq(s, 1, k)
        /\ net'[c].inbox = SubSeq(s, k + 1, Len(s))
  BY ReadFacts
<1> DEFINE p == SubSeq(s, 1, k)
           q == SubSeq(s, k + 1, Len(s))
<1>2. ApartIn(lc[c], net[c])
  BY DEF RequestInv
<1>3. /\ Held(lc'[c], net'[c]) = Held(lc[c], net[c])
      /\ lc'[c].rber = lc[c].rber
  BY <1>2, ReadFacts, ReadHolds
<1>4. r \in Seq(Response) /\ s \in Seq(Response)
  BY PartTypes
<1>5. lc'[c].r_buffer = r \o p /\ net'[c].inbox = q
  BY <1>1
<1> HIDE DEF s, r
<1>6. p \in Seq(Response) /\ q \in Seq(Response) /\ s = p \o q
  BY <1>4, SplitSeq
<1> HIDE DEF p, q
<1>7. (r \o p) \o q = r \o s
  BY <1>4, <1>6, ConcatAssociative
<1> QED BY <1>3, <1>5, <1>7 DEF Entries, r, s

\* LDAP_clnt_decode collects an entry, and an answer ends the collection.
LEMMA DecodeEntries ==
    ASSUME TypeOK, RequestInv, CountInv, LimitInv, OneAtATime, NEW c \in Slot,
           Entries(lc[c], net[c]), LDAP_clnt_decode(c)
    PROVE  /\ OnlyTouches(c) /\ Entries(lc'[c], net'[c])
           /\ DecodeAnswer(c) =>
                 Items(lc[c].rber) \subseteq {Head(lc[c].r_buffer).tid}
<1> DEFINE r == lc[c].r_buffer
           s == net[c].inbox
           h == Head(r)
           t == Tail(r)
           H == Held(lc[c], net[c])
<1>1. r # <<>> /\ r \in Seq(Response) /\ s \in Seq(Response)
  BY PartTypes DEF LDAP_clnt_decode
<1>2. ApartIn(lc[c], net[c])
  BY DEF RequestInv
<1>3. /\ EndsOnce(r \o s) /\ Items(lc[c].rber) \subseteq H
      /\ \A x \in Items(r \o s) : x.tid \in H
  BY DEF Entries
<1>4. lc[c].ktid = 0 /\ lc[c].concurrent_count = Cardinality(H)
  BY DEF CountInv, Counted, OneAtATime
<1>5. ASSUME Took(c), OnlyResponse(c)
      PROVE  /\ lc'[c].r_buffer = t /\ net'[c].inbox = s
             /\ ~h.last => Held(lc'[c], net'[c]) = H
             /\ h.last => h.tid \in H
  BY <1>2, <1>5, TookHolds DEF Took, OnlyResponse
<1> HIDE DEF r, s, H
<1>6. h \in Response /\ t \in Seq(Response) /\ r = <<h>> \o t
  BY <1>1, HeadTailProperties, HeadTailConcat
<1> HIDE DEF h, t
<1> DEFINE o == <<h>>
           v == t \o s
<1>7. o \in Seq(Response) /\ v \in Seq(Response) /\ Items(o) = {h}
  BY <1>1, <1>6, OneItem, ConcatProperties
<1>8. r \o s = o \o v
  BY <1>1, <1>6, <1>7, ConcatAssociative
<1>9. EndsOnce(v) /\ (h.last => v = <<>>)
  BY <1>3, <1>6, <1>7, <1>8, EndsFirst
<1> HIDE DEF o, v
<1>10. Items(r \o s) = {h} \union Items(v)
  <2>1. Items(o \o v) = Items(o) \union Items(v)
    BY <1>7, ConcatItems
  <2> QED BY <1>7, <1>8, <2>1
<1>11. h.tid \in H /\ \A x \in Items(v) : x.tid \in H
  BY <1>3, <1>10
<1>12. CASE DecodeEntry(c)
  <2>1. /\ Took(c) /\ OnlyResponse(c) /\ ~h.last
        /\ lc'[c].rber = Append(lc[c].rber, h.tid)
    BY <1>4, <1>12, EntryFacts DEF h, r
  <2>2. lc[c].rber \in Seq(Nat) /\ h.tid \in Nat
    BY <1>6 DEF TypeOK, LDAP_CLNT, Response
  <2>3. Items(lc'[c].rber) = Items(lc[c].rber) \union {h.tid}
    BY <2>1, <2>2, AppendMore
  <2>4. Entries(lc'[c], net'[c])
    BY <1>3, <1>5, <1>9, <1>11, <2>1, <2>3 DEF Entries, v
  <2>5. ~DecodeAnswer(c)
    BY <2>1 DEF DecodeAnswer, h, r
  <2> QED BY <2>1, <2>4, <2>5 DEF Took
<1>13. CASE DecodeKeepalive(c)
  BY <1>4, <1>13, KeepaliveResponseFacts
<1>14. CASE DecodeAnswer(c)
  <2>1. Took(c) /\ OnlyResponse(c) /\ h.last /\ lc'[c].rber = <<>>
    BY <1>14, AnswerFacts DEF h, r
  <2>2. t \o s = <<>>
    BY <1>9, <2>1 DEF v
  <2>3. lc'[c].r_buffer \o net'[c].inbox = <<>>
    BY <1>5, <2>1, <2>2
  <2>4. EndsOnce(<<>>) /\ Items(<<>>) = {}
    BY EmptyItems DEF EndsOnce
  <2>5. Entries(lc'[c], net'[c])
    BY <2>1, <2>3, <2>4 DEF Entries
  <2>6. ASSUME NEW x \in Items(lc[c].rber) PROVE x = h.tid
    BY <1>3, <1>11, HoldsOne DEF H
  <2> QED BY <2>1, <2>5, <2>6 DEF Took, h, r
<1>15. CASE DecodeUnexpected(c)
  <2>1. lc[c].concurrent_count = 0
    BY <1>15, UnexpectedFacts
  <2>2. IsFiniteSet(H)
    BY HeldCount DEF H
  <2> QED BY <1>4, <1>11, <2>1, <2>2, FS_EmptySet
<1> QED BY <1>12, <1>13, <1>14, <1>15 DEF LDAP_clnt_decode

\* Every step keeps the entries with their search.
LEMMA EntriesStep ==
    ASSUME TypeOK, QueueInv, CallInv, RequestInv, CountInv, LimitInv,
           EntriesInv, [Next]_vars
    PROVE  EntriesInv'
<1> SUFFICES ASSUME OneAtATime
             PROVE  \A d \in Slot : Entries(lc'[d], net'[d])
  BY DEF EntriesInv, OneAtATime
<1> DEFINE H(d) == Held(lc[d], net[d])
           G(d) == Held(lc'[d], net'[d])
           Goal == \A d \in Slot : Entries(lc'[d], net'[d])
<1>1. \A d \in Slot : Entries(lc[d], net[d]) /\ ApartIn(lc[d], net[d])
  BY DEF EntriesInv, RequestInv
<1>2. ASSUME NEW c \in Slot, OnlyTouches(c), Entries(lc'[c], net'[c]) PROVE Goal
  BY <1>1, <1>2 DEF OnlyTouches
<1>3. ASSUME NEW c \in Slot, OnlyTouches(c), SameInput(c),
             net'[c].inbox = net[c].inbox, H(c) \subseteq G(c)
      PROVE  Goal
  <2>1. Entries(lc'[c], net'[c])
    BY <1>1, <1>3 DEF Entries, SameInput
  <2> QED BY <1>2, <1>3, <2>1
<1>4. CASE UNCHANGED <<lc, net>>
  BY <1>1, <1>4
<1>5. ASSUME NEW c \in Slot, Close(c) \/ TakeSlot(c) PROVE Goal
  <2>1. NewClient.r_buffer \o NewFarEnd.inbox = <<>> /\ NewClient.rber = <<>>
    BY DEF NewClient, NewFarEnd
  <2>2. Entries(NewClient, NewFarEnd)
    BY <2>1, EmptyItems DEF Entries, EndsOnce
  <2> QED BY <1>2, <1>5, <2>2, FreshFacts
<1>6. ASSUME NEW c \in Slot, SendBind(c) \/ RecvBind(c) PROVE Goal
  <2>1. G(c) = H(c)
    BY <1>6, BindFacts DEF Held, SameInput
  <2> QED BY <1>3, <1>6, <2>1, BindFacts
<1>7. ASSUME NEW c \in Slot, LDAP_clnt_write(c) PROVE Goal
  <2>1. ~net[c].torn
    BY DEF CountInv, Counted, OneAtATime
  <2>2. G(c) = H(c)
    BY <1>1, <1>7, <2>1, WriteHolds
  <2> QED BY <1>3, <1>7, <2>2, WriteFacts
<1>8. ASSUME NEW c \in Slot, LDAP_clnt_read(c) PROVE Goal
  BY <1>1, <1>2, <1>8, ReadFacts, ReadEntries
<1>9. ASSUME NEW c \in Slot, Reply(c) PROVE Goal
  BY <1>1, <1>2, <1>9, ReplyFacts, ReplyEntries
<1>10. CASE FlushStep
  <2> DEFINE c == Head(ready_queue)
             m == Head(send_msg_queue)
             t == IF lc[c].concurrent_count + 1 >= max_concurrent
                  THEN "WAITING" ELSE lc[c].state
  <2>1. c \in Slot /\ send_msg_queue # <<>> /\ Buffered(c, m, t)
    BY <1>10, FlushFacts
  <2>2. send_msg_queue \in Seq(Nat)
    BY DEF TypeOK
  <2>3. m \in Nat /\ m \in Items(send_msg_queue)
    BY <2>1, <2>2, HeadItem
  <2> HIDE DEF c, m, t
  <2>4. m \notin H(c)
    BY <2>1, <2>3 DEF RequestInv
  <2>5. G(c) = H(c) \union {m}
    BY <1>1, <2>1, <2>3, <2>4, BufferedHolds
  <2>6. OnlyTouches(c) /\ SameInput(c) /\ net' = net
    BY <2>1 DEF Buffered
  <2>7. H(c) \subseteq G(c)
    BY <2>5
  <2> HIDE DEF H, G
  <2> QED BY <1>3, <2>1, <2>6, <2>7
<1>11. ASSUME NEW c \in Slot, SendOn(c) PROVE Goal
  BY <1>11, SendOnFacts DEF OneAtATime
<1>12. ASSUME NEW c \in Slot, LDAP_clnt_decode(c) PROVE Goal
  BY <1>1, <1>2, <1>12, DecodeEntries
<1>13. ASSUME Enqueue PROVE UNCHANGED <<lc, net>>
  BY <1>13 DEF Enqueue
<1> QED BY <1>4, <1>5, <1>6, <1>7, <1>8, <1>9, <1>10, <1>11, <1>12, <1>13,
           PoolSteps DEF OneAtATime

\* They are with their search in every reachable state.
LEMMA EntriesInvariance == Spec => []EntriesInv
<1>1. Init => EntriesInv
  <2> SUFFICES ASSUME Init PROVE EntriesInv
    OBVIOUS
  <2>1. NewClient.r_buffer \o NewFarEnd.inbox = <<>> /\ NewClient.rber = <<>>
    BY DEF NewClient, NewFarEnd
  <2>2. Entries(NewClient, NewFarEnd)
    BY <2>1, EmptyItems DEF Entries, EndsOnce
  <2> QED BY <2>2 DEF Init, EntriesInv
<1>2. /\ TypeOK /\ QueueInv /\ CallInv /\ RequestInv /\ CountInv /\ LimitInv
      /\ EntriesInv /\ [Next]_vars
      => EntriesInv'
  BY EntriesStep
<1> QED BY <1>1, <1>2, SoundInvariance, RequestInvariance, CountInvariance,
           LimitInvariance, PTL DEF Spec

\* With one request at a time on a connection the entries that the caller
\* finds with a search result, which ldap_decode_response collects in one
\* buffer for the connection, are those of that search, however the
\* responses are cut into reads.
THEOREM EntriesCorrect == Spec => EntriesOfOneSearch
<1> DEFINE Own ==
      heartbeat_type = "NONE" /\ MaxConcurrentValues = {1} /\ ~DirectSend =>
         \A c \in Slot :
             LDAP_clnt_decode(c) /\ DecodeAnswer(c) =>
                 Items(lc[c].rber) \subseteq {Head(lc[c].r_buffer).tid}
<1>1. TypeOK /\ RequestInv /\ CountInv /\ LimitInv /\ EntriesInv => Own
  <2> SUFFICES ASSUME TypeOK, RequestInv, CountInv, LimitInv, EntriesInv,
                      OneAtATime, NEW c \in Slot, LDAP_clnt_decode(c),
                      DecodeAnswer(c)
               PROVE  Items(lc[c].rber) \subseteq {Head(lc[c].r_buffer).tid}
    BY DEF OneAtATime
  <2>1. Entries(lc[c], net[c])
    BY DEF EntriesInv
  <2> QED BY <2>1, DecodeEntries
<1>2. EntriesOfOneSearch <=> [][Own]_vars
  BY DEF EntriesOfOneSearch
<1> HIDE DEF Own
<1> QED BY <1>1, <1>2, TypeCorrect, RequestInvariance, CountInvariance,
           LimitInvariance, EntriesInvariance, PTL

=============================================================================
