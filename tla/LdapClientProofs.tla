-------------------------- MODULE LdapClientProofs --------------------------
(***************************************************************************)
(* Proofs about the LDAP connection pool, for every number of connections, *)
(* every message length and every setting of the options.                  *)
(***************************************************************************)
EXTENDS LdapClient, RingTheorems

USE DEF AppendItem

\* LDAP_clnt_open finds the first free slot whenever there is one.
LEMMA FirstFreeIsFree ==
    ASSUME open \subseteq Slot, open # Slot
    PROVE  FirstFree \in Slot \ open
<1> DEFINE T == Slot \ open
<1>1. T \subseteq Nat
  BY SizeAssumption DEF Slot
<1>2. T # {}
  OBVIOUS
<1>3. \E i \in T : \A j \in T : i <= j
  BY <1>1, <1>2, LeastNatural
<1> QED BY <1>3 DEF FirstFree

-----------------------------------------------------------------------------
(* Type correctness.                                                       *)

\* The constant values have their types.
LEMMA ConstantTypes ==
    /\ Slot \subseteq Nat
    /\ 0 \in Slot
    /\ NewClient \in LDAP_CLNT
    /\ NewFarEnd \in FarEnd
    /\ Return \in Call
<1>1. Slot \subseteq Nat /\ 0 \in Slot
  BY SizeAssumption DEF Slot
<1> QED BY <1>1 DEF NewClient, LDAP_CLNT, ClientState, NewFarEnd, FarEnd,
               Return, Call

\* LDAP_clnt_close keeps the types.
LEMMA CloseType ==
    ASSUME TypeOK, NEW c \in Slot, Close(c), call' \in Call
    PROVE  TypeOK'
<1>1. ready_queue' \in Seq(Slot) /\ wait_queue' \in Seq(Slot)
  BY DeleteType DEF Close, TypeOK
<1>2. lc' \in [Slot -> LDAP_CLNT] /\ net' \in [Slot -> FarEnd]
  BY ConstantTypes DEF Close, TypeOK
<1>3. corrupt' \in BOOLEAN
  BY DEF Close, IsFirst
<1> QED BY <1>1, <1>2, <1>3 DEF Close, TypeOK, options

\* A loop over client_array stays within it.
LEMMA NextSlotType ==
    ASSUME TypeOK, NextSlot
    PROVE  call' \in Call
<1>1. call \in Call
  BY DEF TypeOK
<1>2. CASE call.no + 1 < LDAP_MAX_CLIENT
  <2>1. call' = [call EXCEPT !.no = call.no + 1]
    BY <1>2 DEF NextSlot
  <2>2. call.no + 1 \in Slot
    BY <1>1, <1>2, SizeAssumption DEF Call, Slot
  <2> QED BY <1>1, <2>1, <2>2 DEF Call
<1>3. CASE ~(call.no + 1 < LDAP_MAX_CLIENT)
  BY <1>3, ConstantTypes DEF NextSlot
<1> QED BY <1>2, <1>3

\* A response is taken from the read buffer: the connection keeps its type.
LEMMA ConsumedType ==
    ASSUME TypeOK, NEW c \in Slot, lc[c].r_buffer # <<>>
    PROVE  /\ Consumed(c) \in LDAP_CLNT
           /\ Consumed(c).state = lc[c].state
           /\ Head(lc[c].r_buffer) \in Response
<1>1. lc[c] \in LDAP_CLNT
  BY DEF TypeOK
<1>2. lc[c].r_buffer \in Seq(Response)
  BY <1>1 DEF LDAP_CLNT
<1>3. Tail(lc[c].r_buffer) \in Seq(Response) /\ Head(lc[c].r_buffer) \in Response
  BY <1>2
<1> QED BY <1>1, <1>3 DEF Consumed, LDAP_CLNT, NothingLeft

\* Every step of LDAP_clnt_decode keeps the types.
LEMMA DecodeType ==
    ASSUME TypeOK, NEW c \in Slot, LDAP_clnt_decode(c)
    PROVE  TypeOK'
<1> DEFINE resp == Head(lc[c].r_buffer)
<1>1. /\ lc[c] \in LDAP_CLNT
      /\ Consumed(c) \in LDAP_CLNT
      /\ resp \in Response
  BY ConsumedType DEF LDAP_clnt_decode, TypeOK
<1>2. ready_queue \in Seq(Slot) /\ wait_queue \in Seq(Slot)
  BY DEF TypeOK
<1>3. Delete(wait_queue, c) \in Seq(Slot) /\ MoveToEnd(ready_queue, c) \in Seq(Slot)
  BY <1>2, DeleteType DEF MoveToEnd
<1>4. UNCHANGED <<open, send_msg_queue, client_count, tid, max_client, max_concurrent>>
  BY DEF LDAP_clnt_decode, options
<1>5. CASE DecodeEntry(c)
  <2> DEFINE k == Consumed(c)
             b == IF IsKeepalive(c, resp) THEN k.rber ELSE Append(k.rber, resp.tid)
             r == [k EXCEPT !.rber = b]
  <2>3. lc' = [lc EXCEPT ![c] = r]
    BY <1>5 DEF DecodeEntry
  <2> HIDE DEF k, resp
  <2>4. k \in LDAP_CLNT /\ k.rber \in Seq(Nat) /\ resp.tid \in Nat
    BY <1>1 DEF k, LDAP_CLNT, Response
  <2>5. b \in Seq(Nat)
    BY <2>4
  <2> HIDE DEF b
  <2>6. r \in LDAP_CLNT
    BY <2>4, <2>5 DEF LDAP_CLNT
  <2> HIDE DEF r
  <2>1. lc' \in [Slot -> LDAP_CLNT]
    BY <2>3, <2>6 DEF TypeOK
  <2>2. call' \in Call
    BY <1>5 DEF DecodeEntry, Begin, Call
  <2> QED BY <1>4, <1>5, <2>1, <2>2 DEF DecodeEntry, TypeOK, queues
<1>6. CASE DecodeKeepalive(c)
  <2>1. lc' \in [Slot -> LDAP_CLNT]
    <3> DEFINE k == Consumed(c)
               reset == c \in Items(wait_queue)
               b == IF reset THEN <<>> ELSE k.w_buffer
               n == IF reset THEN 0 ELSE k.w_curr
               r == [k EXCEPT !.ktid = 0, !.w_buffer = b, !.w_curr = n]
    <3>1. lc' = [lc EXCEPT ![c] = r]
      BY <1>6 DEF DecodeKeepalive
    <3> HIDE DEF k, reset
    <3>2. k \in LDAP_CLNT /\ k.w_buffer \in Seq(Nat) /\ k.w_curr \in Nat
      BY <1>1 DEF k, LDAP_CLNT
    <3>3. b \in Seq(Nat) /\ n \in Nat
      BY <3>2
    <3> HIDE DEF b, n
    <3>4. r \in LDAP_CLNT
      BY <3>2, <3>3 DEF LDAP_CLNT
    <3> HIDE DEF r
    <3> QED BY <3>1, <3>4 DEF TypeOK
  <2>2. net' \in [Slot -> FarEnd]
    BY <1>6 DEF DecodeKeepalive, TypeOK, FarEnd
  <2>3. ready_queue' \in Seq(Slot) /\ wait_queue' \in Seq(Slot)
    BY <1>2, <1>3, <1>6 DEF DecodeKeepalive
  <2> QED BY <1>4, <1>6, <2>1, <2>2, <2>3, ConstantTypes
          DEF DecodeKeepalive, TypeOK
<1>7. CASE DecodeAnswer(c)
  <2>1. CountAfterAnswer(c) \in Nat
    BY <1>1, <1>7 DEF DecodeAnswer, CountAfterAnswer, LDAP_CLNT
  <2>2. lc' \in [Slot -> LDAP_CLNT]
    <3> DEFINE k == Consumed(c)
               n == CountAfterAnswer(c)
               t == IF Wakes(c, n) THEN "READY" ELSE k.state
               b == <<>>
               r == [k EXCEPT !.concurrent_count = n, !.rber = b, !.state = t]
    <3>1. lc' = [lc EXCEPT ![c] = r]
      BY <1>7 DEF DecodeAnswer
    <3> HIDE DEF k, n
    <3>2. k \in LDAP_CLNT /\ k.state \in ClientState /\ n \in Nat
      BY <1>1, <2>1 DEF k, n, LDAP_CLNT
    <3>3. t \in ClientState /\ b \in Seq(Nat)
      BY <3>2 DEF ClientState
    <3> HIDE DEF t, b
    <3>4. r \in LDAP_CLNT
      BY <3>2, <3>3 DEF LDAP_CLNT
    <3> HIDE DEF r
    <3> QED BY <3>1, <3>4 DEF TypeOK
  <2>3. ready_queue' \in Seq(Slot) /\ wait_queue' \in Seq(Slot)
    BY <1>2, <1>3, <1>7 DEF DecodeAnswer
  <2>4. corrupt' \in BOOLEAN
    BY <1>7 DEF DecodeAnswer, Wakes, IsFirst
  <2> QED BY <1>4, <1>7, <2>2, <2>3, <2>4, ConstantTypes
          DEF DecodeAnswer, TypeOK
<1>8. CASE DecodeUnexpected(c)
  <2>1. lc' \in [Slot -> LDAP_CLNT]
    BY <1>1, <1>8 DEF DecodeUnexpected, TypeOK
  <2> QED BY <1>4, <1>8, <2>1, ConstantTypes
          DEF DecodeUnexpected, TypeOK, queues
<1> QED BY <1>5, <1>6, <1>7, <1>8 DEF LDAP_clnt_decode

\* LDAP_clnt_open keeps the types, with or without memory.
LEMMA OpenType ==
    ASSUME TypeOK, LDAP_clnt_open \/ LDAP_clnt_open_no_memory
    PROVE  TypeOK'
<1> DEFINE c == FirstFree
<1>1. open \subseteq Slot /\ open # Slot /\ TakeSlot(c)
  BY DEF TypeOK, LDAP_clnt_open, LDAP_clnt_open_no_memory, MayOpen
<1>2. c \in Slot
  BY <1>1, FirstFreeIsFree
<1>3. wait_queue' \in Seq(Slot) /\ client_count' \in Int
  <2>1. CASE LDAP_clnt_open
    BY <1>2, <2>1 DEF TypeOK, LDAP_clnt_open
  <2>2. CASE LDAP_clnt_open_no_memory
    BY <2>2 DEF TypeOK, LDAP_clnt_open_no_memory
  <2> QED BY <2>1, <2>2
<1> HIDE DEF c
<1>4. lc' \in [Slot -> LDAP_CLNT] /\ net' \in [Slot -> FarEnd]
  BY <1>1, <1>2, ConstantTypes DEF TakeSlot, TypeOK
<1> QED BY <1>1, <1>2, <1>3, <1>4 DEF TakeSlot, TypeOK, options

\* The whole messages in some bytes of n messages are at most n.
LEMMA WholeMessages ==
    ASSUME NEW a \in Nat, NEW b \in Nat \ {0}, NEW n \in Nat, a <= b * n
    PROVE  a \div b <= n
OBVIOUS

\* LDAP_clnt_write keeps the types: what is left to send is a sequence of
\* requests.
LEMMA WriteType ==
    ASSUME TypeOK, NEW c \in Slot, LDAP_clnt_write(c)
    PROVE  TypeOK'
<1>1. lc[c] \in LDAP_CLNT /\ net[c] \in FarEnd
  BY DEF TypeOK
<1>2. lc[c].w_buffer \in Seq(Nat) /\ lc[c].w_curr \in Nat
  BY <1>1 DEF LDAP_CLNT
<1>3. SendLimit(c) \in Int
  BY <1>2, SizeAssumption DEF SendLimit, w_len
<1> DEFINE sent(r) == lc[c].w_curr + r
           done(r) == sent(r) \div MSG_LEN
           rest(r) == sent(r) % MSG_LEN
           left(r) == Unsent(c, done(r))
<1>4. PICK r \in 1..SendLimit(c) :
        /\ lc' = [lc EXCEPT ![c].w_buffer = left(r),
                            ![c].w_curr = rest(r),
                            ![c].write_time = WriteTimer(left(r)),
                            ![c].keepalive_time = @ \/ (left(r) = <<>>)]
        /\ net' = [net EXCEPT ![c].pending = Delivered(c, done(r))]
  BY DEF LDAP_clnt_write
<1>5. sent(r) \in Nat
  BY <1>2, <1>3
<1> HIDE DEF sent
<1>6. done(r) \in Nat /\ rest(r) \in Nat
  BY <1>5, SizeAssumption
<1> HIDE DEF rest, done
<1>7. left(r) \in Seq(Nat)
  BY <1>2, <1>6 DEF Unsent
<1> HIDE DEF left
<1>8. WriteTimer(left(r)) \in BOOLEAN
  BY DEF WriteTimer
<1>9. lc' \in [Slot -> LDAP_CLNT]
  <2> DEFINE t == WriteTimer(left(r))
             k == lc[c].keepalive_time \/ left(r) = <<>>
             q == [lc[c] EXCEPT !.w_buffer = left(r), !.w_curr = rest(r),
                                !.write_time = t, !.keepalive_time = k]
  <2>1. lc' = [lc EXCEPT ![c] = q]
    BY <1>1, <1>4 DEF TypeOK
  <2>2. k \in BOOLEAN /\ t \in BOOLEAN
    BY <1>8
  <2> HIDE DEF k, t
  <2>3. q \in LDAP_CLNT
    BY <1>1, <1>6, <1>7, <2>2 DEF LDAP_CLNT
  <2> HIDE DEF q
  <2> QED BY <2>1, <2>3 DEF TypeOK
<1>10. Delivered(c, done(r)) \in SUBSET Nat
  <2>1. r <= MSG_LEN * Len(lc[c].w_buffer) - lc[c].w_curr
    BY <1>2, <1>3, SizeAssumption DEF SendLimit, w_len
  <2>2. sent(r) <= MSG_LEN * Len(lc[c].w_buffer)
    BY <1>2, <1>3, <2>1, SizeAssumption DEF sent
  <2>3. done(r) <= Len(lc[c].w_buffer)
    BY <1>2, <1>5, <2>2, SizeAssumption, WholeMessages DEF done
  <2>4. \A i \in 1..done(r) : lc[c].w_buffer[i] \in Nat
    BY <1>2, <1>6, <2>3
  <2>5. net[c].pending \subseteq Nat
    BY <1>1 DEF FarEnd
  <2> QED BY <2>4, <2>5 DEF Delivered
<1>11. net' \in [Slot -> FarEnd]
  BY <1>1, <1>4, <1>10 DEF TypeOK, FarEnd
<1> QED BY <1>9, <1>11 DEF LDAP_clnt_write, TypeOK, queues, options

\* LDAP_clnt_read keeps the types: the bytes it takes are of responses.
LEMMA ReadType ==
    ASSUME TypeOK, NEW c \in Slot, LDAP_clnt_read(c)
    PROVE  TypeOK'
<1>1. lc[c] \in LDAP_CLNT /\ net[c] \in FarEnd
  BY DEF TypeOK
<1>2. /\ lc[c].r_buffer \in Seq(Response)
      /\ lc[c].r_part \in Nat
      /\ net[c].inbox \in Seq(Response)
  BY <1>1 DEF LDAP_CLNT, FarEnd
<1>3. in_len(c) \in Int
  BY <1>2, SizeAssumption DEF in_len
<1> DEFINE got(r) == lc[c].r_part + r
           done(r) == got(r) \div MSG_LEN
           part(r) == got(r) % MSG_LEN
           buf(r) == lc[c].r_buffer \o SubSeq(net[c].inbox, 1, done(r))
           rest(r) == SubSeq(net[c].inbox, done(r) + 1, Len(net[c].inbox))
<1>4. PICK r \in 1..in_len(c) :
        /\ lc' = [lc EXCEPT ![c].r_buffer = buf(r), ![c].r_part = part(r),
                            ![c].read_time = TRUE]
        /\ net' = [net EXCEPT ![c].inbox = rest(r)]
  BY <1>1 DEF LDAP_clnt_read, TypeOK
<1>5. got(r) \in Nat
  BY <1>2, <1>3
<1>6. done(r) <= Len(net[c].inbox)
  <2>1. got(r) <= MSG_LEN * Len(net[c].inbox)
    BY <1>2, <1>3, SizeAssumption DEF in_len
  <2> HIDE DEF got
  <2> QED BY <1>2, <1>5, <2>1, SizeAssumption, WholeMessages
<1> HIDE DEF got
<1>7. done(r) \in Nat /\ part(r) \in Nat
  BY <1>5, SizeAssumption
<1> HIDE DEF part, done
<1>8. SubSeq(net[c].inbox, 1, done(r)) \in Seq(Response)
  BY <1>2, <1>6, <1>7
<1>9. buf(r) \in Seq(Response) /\ rest(r) \in Seq(Response)
  BY <1>2, <1>7, <1>8
<1> HIDE DEF buf, rest
<1>10. lc' \in [Slot -> LDAP_CLNT]
  <2> DEFINE q == [lc[c] EXCEPT !.r_buffer = buf(r), !.r_part = part(r),
                                !.read_time = TRUE]
  <2>1. lc' = [lc EXCEPT ![c] = q]
    BY <1>1, <1>4 DEF TypeOK
  <2>2. q \in LDAP_CLNT
    BY <1>1, <1>7, <1>9 DEF LDAP_CLNT
  <2> HIDE DEF q
  <2> QED BY <2>1, <2>2 DEF TypeOK
<1>11. net' \in [Slot -> FarEnd]
  BY <1>1, <1>4, <1>9 DEF TypeOK, FarEnd
<1> QED BY <1>10, <1>11 DEF LDAP_clnt_read, TypeOK, queues, options

\* A request that is put into the write buffer of a connection keeps the
\* types, with the count and the state it leaves.
LEMMA BufferedType ==
    ASSUME NEW r \in LDAP_CLNT, NEW m \in Nat, NEW n \in Nat,
           NEW t \in ClientState
    PROVE  [r EXCEPT !.w_buffer = Append(@, m), !.write_time = TRUE,
                     !.concurrent_count = n, !.state = t] \in LDAP_CLNT
<1> DEFINE b == Append(r.w_buffer, m)
<1>1. b \in Seq(Nat)
  BY DEF LDAP_CLNT
<1> HIDE DEF b
<1>2. [r EXCEPT !.w_buffer = b, !.write_time = TRUE,
                !.concurrent_count = n, !.state = t] \in LDAP_CLNT
  BY <1>1 DEF LDAP_CLNT
<1> QED BY <1>2 DEF b

\* A step of the flush keeps the types.
LEMMA FlushStepType ==
    ASSUME TypeOK, FlushStep
    PROVE  TypeOK'
<1> DEFINE c == Head(ready_queue)
           m == Head(send_msg_queue)
           n == lc[c].concurrent_count + 1
           t == DispatchedState(c, AtLimit(n))
           q == [lc[c] EXCEPT !.w_buffer = Append(@, m), !.write_time = TRUE,
                              !.concurrent_count = n, !.state = t]
<1>1. /\ ready_queue \in Seq(Slot) /\ ready_queue # <<>>
      /\ send_msg_queue \in Seq(Nat) /\ send_msg_queue # <<>>
      /\ wait_queue \in Seq(Slot)
      /\ Dispatch(c)
  BY DEF FlushStep, TypeOK
<1>2. c \in Slot /\ m \in Nat /\ Tail(send_msg_queue) \in Seq(Nat)
  BY <1>1
<1>3. lc' = [lc EXCEPT ![c] = q]
  BY <1>1, <1>2 DEF Dispatch, TypeOK
<1>4. /\ ready_queue' \in Seq(Slot)
      /\ wait_queue' \in Seq(Slot)
      /\ send_msg_queue' \in Seq(Nat)
  <2> HIDE DEF c
  <2>1. Delete(ready_queue, c) \in Seq(Slot)
    BY <1>1, DeleteType
  <2>2. Append(wait_queue, c) \in Seq(Slot) /\ MoveToEnd(ready_queue, c) \in Seq(Slot)
    BY <1>1, <1>2, <2>1 DEF MoveToEnd
  <2> QED BY <1>1, <1>2, <2>1, <2>2 DEF Dispatch
<1> HIDE DEF c, m
<1>5. lc[c] \in LDAP_CLNT
  BY <1>2 DEF TypeOK
<1>6. n \in Nat /\ t \in ClientState
  BY <1>5 DEF LDAP_CLNT, DispatchedState, ClientState
<1> HIDE DEF n, t
<1>7. q \in LDAP_CLNT
  BY <1>2, <1>5, <1>6, BufferedType
<1> HIDE DEF q
<1>8. lc' \in [Slot -> LDAP_CLNT]
  BY <1>3, <1>7 DEF TypeOK
<1>9. call' \in Call
  BY ConstantTypes DEF FlushStep, TypeOK
<1> QED BY <1>4, <1>8, <1>9 DEF FlushStep, TypeOK, options

\* Sending on a given connection keeps the types.
LEMMA SendOnType ==
    ASSUME TypeOK, NEW c \in Slot, SendOn(c)
    PROVE  TypeOK'
<1> DEFINE n == lc[c].concurrent_count + 1
           t == lc[c].state
           q == [lc[c] EXCEPT !.w_buffer = Append(@, tid + 1),
                              !.write_time = TRUE,
                              !.concurrent_count = n, !.state = t]
<1>1. lc[c] \in LDAP_CLNT
  BY DEF TypeOK
<1>2. n \in Nat /\ t \in ClientState /\ tid + 1 \in Nat
  BY <1>1 DEF LDAP_CLNT, TypeOK
<1>3. lc' = [lc EXCEPT ![c] = q]
  BY <1>1 DEF SendOn, TypeOK, LDAP_CLNT
<1> HIDE DEF n, t
<1>4. q \in LDAP_CLNT
  BY <1>1, <1>2, BufferedType
<1> HIDE DEF q
<1>5. lc' \in [Slot -> LDAP_CLNT]
  BY <1>3, <1>4 DEF TypeOK
<1>6. call' \in Call
  BY ConstantTypes DEF SendOn, TypeOK, Begin, Call
<1> QED BY <1>2, <1>5, <1>6 DEF SendOn, TypeOK, options, queues

\* The handshake keeps the types.
LEMMA BindType ==
    ASSUME TypeOK, NEW c \in Slot, SendBind(c) \/ RecvBind(c)
    PROVE  TypeOK'
<1>1. lc[c] \in LDAP_CLNT
  BY DEF TypeOK
<1>2. CASE SendBind(c)
  <2> DEFINE q == [lc[c] EXCEPT !.state = "CONNECTING", !.write_time = TRUE]
  <2>1. lc' = [lc EXCEPT ![c] = q]
    BY <1>1, <1>2 DEF SendBind, TypeOK
  <2>2. q \in LDAP_CLNT
    BY <1>1 DEF LDAP_CLNT, ClientState
  <2> HIDE DEF q
  <2>3. lc' \in [Slot -> LDAP_CLNT]
    BY <2>1, <2>2 DEF TypeOK
  <2> QED BY <1>2, <2>3 DEF SendBind, TypeOK, queues, options
<1>3. CASE RecvBind(c)
  <2> DEFINE q == [lc[c] EXCEPT !.state = "READY", !.write_time = FALSE,
                                !.keepalive_time = TRUE]
  <2>1. lc' = [lc EXCEPT ![c] = q]
    BY <1>1, <1>3 DEF RecvBind, TypeOK
  <2>2. q \in LDAP_CLNT
    BY <1>1 DEF LDAP_CLNT, ClientState
  <2> HIDE DEF q
  <2>3. lc' \in [Slot -> LDAP_CLNT]
    BY <2>1, <2>2 DEF TypeOK
  <2>4. wait_queue' \in Seq(Slot) /\ ready_queue' \in Seq(Slot)
    BY <1>3, DeleteType DEF RecvBind, TypeOK
  <2> QED BY <1>3, <2>3, <2>4 DEF RecvBind, TypeOK, options
<1> QED BY <1>2, <1>3

\* A keepalive request keeps the types.
LEMMA SendKeepaliveType ==
    ASSUME TypeOK, NEW c \in Slot, SendKeepalive(c)
    PROVE  TypeOK'
<1> DEFINE b == <<>>
           q == [lc[c] EXCEPT !.ktid = tid + 1, !.w_buffer = b, !.w_curr = 0]
           p == IF net[c].torn THEN net[c].pending
                ELSE net[c].pending \union Items(lc[c].w_buffer)
                       \union {tid + 1}
<1>1. lc[c] \in LDAP_CLNT /\ net[c] \in FarEnd /\ tid + 1 \in Nat
  BY DEF TypeOK
<1>2. lc' = [lc EXCEPT ![c] = q] /\ net' = [net EXCEPT ![c].pending = p]
  BY <1>1 DEF SendKeepalive, TypeOK
<1>3. b \in Seq(Nat)
  OBVIOUS
<1>4. p \in SUBSET Nat
  <2>1. lc[c].w_buffer \in Seq(Nat) /\ net[c].pending \subseteq Nat
    BY <1>1 DEF LDAP_CLNT, FarEnd
  <2>2. Items(lc[c].w_buffer) \subseteq Nat
    BY <2>1 DEF Items
  <2> QED BY <1>1, <2>1, <2>2
<1> HIDE DEF b, p
<1>5. q \in LDAP_CLNT
  BY <1>1, <1>3 DEF LDAP_CLNT
<1> HIDE DEF q
<1>6. lc' \in [Slot -> LDAP_CLNT]
  BY <1>2, <1>5 DEF TypeOK
<1>7. net' \in [Slot -> FarEnd]
  BY <1>1, <1>2, <1>4 DEF TypeOK, FarEnd
<1>8. call' \in Call
  BY NextSlotType DEF SendKeepalive
<1> QED BY <1>1, <1>6, <1>7, <1>8 DEF SendKeepalive, TypeOK, queues, options

\* What the server does keeps the types.
LEMMA ReplyType ==
    ASSUME TypeOK, NEW c \in Slot, Reply(c)
    PROVE  TypeOK'
<1>1. net[c] \in FarEnd
  BY DEF TypeOK
<1>2. net[c].pending \subseteq Nat /\ net[c].inbox \in Seq(Response) /\ net[c].entries \in Nat
  BY <1>1 DEF FarEnd
<1> DEFINE last(m) == Append(net[c].inbox, [tid |-> m, last |-> TRUE])
           found(m) == Append(net[c].inbox, [tid |-> m, last |-> FALSE])
           end(m) == [net[c] EXCEPT !.pending = net[c].pending \ {m},
                                    !.inbox = last(m)]
           entry(m) == [net[c] EXCEPT !.entries = net[c].entries + 1,
                                      !.inbox = found(m)]
<1>3. PICK m \in net[c].pending :
        \/ net' = [net EXCEPT ![c] = end(m)]
        \/ net' = [net EXCEPT ![c] = entry(m)]
  BY <1>1 DEF Reply, TypeOK
<1>4. last(m) \in Seq(Response) /\ found(m) \in Seq(Response)
  BY <1>2 DEF Response
<1> HIDE DEF last, found
<1>5. end(m) \in FarEnd /\ entry(m) \in FarEnd
  <2>1. end(m) \in FarEnd
    BY <1>1, <1>2, <1>4 DEF FarEnd
  <2> DEFINE n == net[c].entries + 1
  <2>2. n \in Nat
    BY <1>2
  <2> HIDE DEF n
  <2>3. [net[c] EXCEPT !.entries = n, !.inbox = found(m)] \in FarEnd
    BY <1>1, <1>4, <2>2 DEF FarEnd
  <2> QED BY <2>1, <2>3 DEF n
<1> HIDE DEF end, entry
<1>6. net' \in [Slot -> FarEnd]
  BY <1>3, <1>5 DEF TypeOK
<1> QED BY <1>6 DEF Reply, TypeOK, queues, options

\* A loop that passes over a slot keeps the types.
LEMMA SkipSlotType ==
    ASSUME TypeOK, SkipSlot
    PROVE  TypeOK'
<1>1. call' \in Call
  BY NextSlotType DEF SkipSlot
<1> QED BY <1>1 DEF SkipSlot, TypeOK, queues, options

\* Entering and leaving a loop keeps the types.
LEMMA CallType ==
    ASSUME TypeOK,
           \/ LDAP_clnt_close_all \/ Flush \/ FlushReturn \/ DecodeReturn
           \/ LDAP_clnt_keep_alive \/ LDAP_clnt_check_connection
    PROVE  TypeOK'
<1>1. call' \in Call
  BY ConstantTypes DEF LDAP_clnt_close_all, Flush, FlushReturn, DecodeReturn,
     LDAP_clnt_keep_alive, LDAP_clnt_check_connection, Begin, Call
<1>2. UNCHANGED <<open, lc, ready_queue, wait_queue, send_msg_queue,
                  client_count, tid, max_client, max_concurrent, net, corrupt>>
  BY DEF LDAP_clnt_close_all, Flush, FlushReturn, DecodeReturn,
     LDAP_clnt_keep_alive, LDAP_clnt_check_connection, queues, options
<1> QED BY <1>1, <1>2 DEF TypeOK

\* The variables of the pool always have their declared types: in
\* particular every loop index stays within client_array, concurrent_count
\* never becomes negative and the queues hold slots only.
THEOREM TypeCorrect == Spec => []TypeOK
<1>1. Init => TypeOK
  <2> SUFFICES ASSUME Init PROVE TypeOK
    OBVIOUS
  <2> QED BY ConstantTypes DEF Init, TypeOK
<1>2. TypeOK /\ [Next]_vars => TypeOK'
  <2> SUFFICES ASSUME TypeOK, [Next]_vars PROVE TypeOK'
    OBVIOUS
  <2>1. CASE SetOption
    BY <2>1 DEF SetOption, TypeOK, queues
  <2>2. CASE LDAP_clnt_open \/ LDAP_clnt_open_no_memory
    BY <2>2, OpenType
  <2>3. ASSUME NEW c \in Slot, LDAP_clnt_close(c) PROVE TypeOK'
    <3>1. call' \in Call
      BY <2>3 DEF LDAP_clnt_close, TypeOK
    <3> QED BY <2>3, <3>1, CloseType DEF LDAP_clnt_close
  <2>4. call.no \in Slot
    BY DEF TypeOK, Call
  <2>5. CASE CloseAllStep
    <3>1. CASE Close(call.no) /\ NextSlot
      BY <2>4, <3>1, CloseType, NextSlotType
    <3> QED BY <2>5, <3>1, SkipSlotType DEF CloseAllStep
  <2>6. ASSUME NEW c \in Slot, SendBind(c) \/ RecvBind(c) PROVE TypeOK'
    BY <2>6, BindType
  <2>7. ASSUME NEW c \in Slot, LDAP_clnt_write(c) PROVE TypeOK'
    BY <2>7, WriteType
  <2>8. ASSUME NEW c \in Slot, LDAP_clnt_read(c) PROVE TypeOK'
    BY <2>8, ReadType
  <2>9. CASE Enqueue
    <3>1. call' \in Call
      BY <2>9, ConstantTypes DEF Enqueue, Begin, Call
    <3> QED BY <2>9, <3>1 DEF Enqueue, TypeOK, queues, options
  <2>10. ASSUME NEW c \in Slot, SendOn(c) PROVE TypeOK'
    BY <2>10, SendOnType
  <2>11. CASE FlushStep
    BY <2>11, FlushStepType
  <2>12. ASSUME NEW c \in Slot, LDAP_clnt_decode(c) PROVE TypeOK'
    BY <2>12, DecodeType
  <2>13. CASE KeepAliveStep
    <3>1. CASE SendKeepalive(call.no)
      BY <2>4, <3>1, SendKeepaliveType
    <3>2. CASE Close(call.no) /\ call' = Return
      BY <2>4, <3>2, CloseType, ConstantTypes
    <3> QED BY <2>13, <3>1, <3>2, SkipSlotType DEF KeepAliveStep
  <2>14. CASE CheckStep
    <3>1. CASE Close(call.no) /\ NextSlot
      BY <2>4, <3>1, CloseType, NextSlotType
    <3> QED BY <2>14, <3>1, SkipSlotType DEF CheckStep
  <2>15. ASSUME NEW c \in Slot, Reply(c) PROVE TypeOK'
    BY <2>15, ReplyType
  <2>16. CASE UNCHANGED vars
    BY <2>16 DEF vars, TypeOK
  <2> QED BY <2>1, <2>2, <2>3, <2>5, <2>6, <2>7, <2>8, <2>9, <2>10, <2>11,
             <2>12, <2>13, <2>14, <2>15, <2>16, CallType DEF Next
<1> QED BY <1>1, <1>2, PTL DEF Spec

=============================================================================
