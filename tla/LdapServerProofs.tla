-------------------------- MODULE LdapServerProofs --------------------------
(***************************************************************************)
(* Proofs about the LDAP server: its session table, the way of a request   *)
(* through the buffers of its session, the limit on concurrent requests    *)
(* and the timers, for every number of slots, every limit and every size   *)
(* of messages and buffers.                                                *)
(***************************************************************************)
EXTENDS LdapServer, RingTheorems, FiniteSetTheorems

\* Slots are numbered from 0.
LEMMA SlotsNatural == Slot \subseteq Nat
BY ServerAssumption DEF Slot

\* last_session is a number.
LEMMA TableNumbers ==
    ASSUME used \subseteq Slot, LastSessionIsLast
    PROVE  used \subseteq Nat /\ last_session \in Int /\ last_session >= -1
<1>1. used \subseteq Nat
  BY SlotsNatural
<1>2. CASE last_session = -1
  BY <1>1, <1>2
<1>3. CASE last_session \in used
  BY <1>1, <1>3
<1> QED BY <1>2, <1>3 DEF LastSessionIsLast

\* LDAP_sess_open finds the first free slot whenever there is one.
LEMMA FirstFreeIsFree ==
    ASSUME used \subseteq Slot, used # Slot
    PROVE  FirstFree \in Slot \ used
<1> DEFINE T == Slot \ used
<1>1. T \subseteq Nat
  BY SlotsNatural
<1>2. T # {}
  OBVIOUS
<1>3. \E i \in T : \A j \in T : i <= j
  BY <1>1, <1>2, LeastNatural
<1> QED BY <1>3 DEF FirstFree

\* The loop of LDAP_sess_close stops at the highest session below no, or at
\* -1 when there is none.
LEMMA LastBelowIsLast ==
    ASSUME used \subseteq Slot, NEW no \in Slot
    PROVE  /\ LastBelow(no) = -1 \/ LastBelow(no) \in used
           /\ LastBelow(no) < no
           /\ \A i \in used : i < no => i <= LastBelow(no)
<1> DEFINE below == {i \in used : i < no} \union {-1}
           T == {no - i : i \in below}
<1>1. no \in Nat /\ below \subseteq Int /\ \A i \in below : i < no
  <2>1. no \in Nat /\ used \subseteq Nat
    BY SlotsNatural
  <2>2. ASSUME NEW i \in below PROVE i \in Int /\ i < no
    <3>1. CASE i \in used /\ i < no
      BY <2>1, <3>1
    <3>2. CASE i = -1
      BY <2>1, <3>2
    <3> QED BY <3>1, <3>2
  <2> QED BY <2>1, <2>2
<1>2. T \subseteq Nat
  BY <1>1
<1>3. no + 1 \in T
  <2>1. no - (-1) \in T
    OBVIOUS
  <2> QED BY <1>1, <2>1
<1>4. PICK d \in T : \A e \in T : d <= e
  BY <1>2, <1>3, LeastNatural
<1>5. PICK i \in below : d = no - i
  BY <1>4
<1>6. ASSUME NEW j \in below PROVE j <= i
  <2>1. no - j \in T
    OBVIOUS
  <2>2. no - i <= no - j
    BY <1>4, <1>5, <2>1
  <2> QED BY <1>1, <2>2
<1>7. /\ LastBelow(no) \in below
      /\ \A j \in below : j <= LastBelow(no)
  BY <1>6 DEF LastBelow
<1> QED BY <1>1, <1>7

\* A set of slots is finite.
LEMMA SlotsFinite ==
    ASSUME NEW S, S \subseteq Slot
    PROVE  IsFiniteSet(S)
<1>1. IsFiniteSet(Slot)
  BY ServerAssumption, FS_Interval DEF Slot
<1> QED BY <1>1, FS_Subset

-----------------------------------------------------------------------------
(* The session table.                                                      *)

\* LDAP_sess_open keeps the table.
LEMMA OpenTable ==
    ASSUME TableInv, LDAP_sess_open
    PROVE  TableInv'
<1> DEFINE f == FirstFree
<1>1. /\ used \subseteq Slot
      /\ LastSessionIsLast
      /\ session_count = Cardinality(used)
  BY DEF TableInv, SessionCountIsUsed
<1>2. f \in Slot \ used
  BY <1>1, FirstFreeIsFree DEF LDAP_sess_open
<1>3. /\ used' = used \union {f}
      /\ last_session' = IF last_session < f THEN f ELSE last_session
      /\ session_count' = session_count + 1
  BY DEF LDAP_sess_open
<1> HIDE DEF f
<1>4. used' \subseteq Slot
  BY <1>1, <1>2, <1>3
<1>5. LastSessionIsLast'
  <2>1. f \in Nat /\ used \subseteq Nat /\ last_session \in Int
    BY <1>1, <1>2, SlotsNatural, TableNumbers
  <2>2. \A i \in used' : i <= last_session'
    BY <1>1, <1>3, <2>1 DEF LastSessionIsLast
  <2>3. last_session' = -1 \/ last_session' \in used'
    BY <1>1, <1>2, <1>3, <2>1 DEF LastSessionIsLast, Slot
  <2> QED BY <2>2, <2>3 DEF LastSessionIsLast
<1>6. Cardinality(used') = Cardinality(used) + 1
  BY <1>1, <1>2, <1>3, SlotsFinite, FS_AddElement
<1> QED BY <1>1, <1>3, <1>4, <1>5, <1>6 DEF TableInv, SessionCountIsUsed

\* LDAP_sess_close keeps the table, whether or not the slot is in use.
LEMMA CloseTable ==
    ASSUME TableInv, NEW no \in Slot, LDAP_sess_close(no)
    PROVE  TableInv'
<1>1. /\ used \subseteq Slot
      /\ LastSessionIsLast
      /\ session_count = Cardinality(used)
  BY DEF TableInv, SessionCountIsUsed
<1>2. last_session' = IF last_session = no THEN LastBelow(no) ELSE last_session
  BY DEF LDAP_sess_close
<1>3. /\ LastBelow(no) = -1 \/ LastBelow(no) \in used
      /\ LastBelow(no) < no
      /\ \A i \in used : i < no => i <= LastBelow(no)
  BY <1>1, LastBelowIsLast
<1>4. used \subseteq Nat /\ last_session \in Int /\ no \in Nat
  BY <1>1, SlotsNatural, TableNumbers
<1>5. CASE /\ no \in used
           /\ used' = used \ {no}
           /\ session_count' = session_count - 1
  <2>1. Cardinality(used') = Cardinality(used) - 1
    BY <1>1, <1>5, SlotsFinite, FS_RemoveElement
  <2>2. \A i \in used' : i <= last_session'
    BY <1>1, <1>2, <1>3, <1>4, <1>5 DEF LastSessionIsLast
  <2>3. last_session' = -1 \/ last_session' \in used'
    BY <1>1, <1>2, <1>3, <1>4, <1>5 DEF LastSessionIsLast
  <2>4. used' \subseteq Slot
    BY <1>1, <1>5
  <2> QED BY <1>1, <1>5, <2>1, <2>2, <2>3, <2>4
          DEF TableInv, LastSessionIsLast, SessionCountIsUsed
<1>6. CASE /\ no \notin used
           /\ used' = used
           /\ session_count' = session_count
  <2>1. last_session # no
    BY <1>1, <1>4, <1>6 DEF LastSessionIsLast
  <2>2. last_session' = last_session
    BY <1>2, <2>1
  <2> QED BY <1>1, <1>6, <2>2
          DEF TableInv, LastSessionIsLast, SessionCountIsUsed
<1> QED BY <1>5, <1>6 DEF LDAP_sess_close

\* LDAP_svr_close empties the table: no session lies above last_session.
LEMMA SvrCloseTable ==
    ASSUME TableInv, LDAP_svr_close
    PROVE  TableInv' /\ used' = {}
<1>1. used \subseteq Nat /\ last_session \in Int
  BY TableNumbers DEF TableInv
<1>2. \A i \in used : ~(i > last_session)
  BY <1>1 DEF TableInv, LastSessionIsLast
<1>3. used' = {}
  BY <1>2 DEF LDAP_svr_close
<1>4. last_session' = -1 /\ session_count' = 0
  BY DEF LDAP_svr_close
<1> QED BY <1>3, <1>4, FS_EmptySet
        DEF TableInv, LastSessionIsLast, SessionCountIsUsed

\* A call that leaves the slots in use and last_session alone keeps the table.
LEMMA SameTable ==
    ASSUME TableInv, UNCHANGED <<used, last_session, session_count>>
    PROVE  TableInv'
BY DEF TableInv, LastSessionIsLast, SessionCountIsUsed

-----------------------------------------------------------------------------
(* The sessions.  A call for a session replaces its DSSESSION and what its *)
(* peer has; the lemmas say for each call what the new ones are.           *)

\* The records of slot i become e and q.
Becomes(i, e, q) ==
    /\ UNCHANGED table
    /\ session' = [session EXCEPT ![i] = e]
    /\ peer' = [peer EXCEPT ![i] = q]

\* What LDAP_sess_read makes of a session when the buffer then holds got
\* bytes behind the messages that are complete.
AfterRead(s, p, got) ==
    [s EXCEPT !.r_used = TRUE,
              !.r_buffer = s.r_buffer \o SubSeq(p.inbox, 1, got \div MSG_LEN),
              !.r_part = got % MSG_LEN,
              !.read_time = TRUE]

\* What is left on its way then.
PeerAfterRead(p, got) ==
    [p EXCEPT !.inbox = SubSeq(p.inbox, (got \div MSG_LEN) + 1, Len(p.inbox))]

\* LDAP_sess_read replaces the records of its session.
LEMMA ReadBecomes ==
    ASSUME TypeOK, NEW i \in Slot, LDAP_sess_read(i)
    PROVE  \E got \in Nat :
              /\ got <= MSG_LEN * Len(peer[i].inbox)
              /\ Becomes(i, AfterRead(session[i], peer[i], got),
                            PeerAfterRead(peer[i], got))
<1>1. session \in [Slot -> DSSESSION] /\ peer \in [Slot -> Peer]
  BY DEF TypeOK
<1>2. session[i].r_part \in Nat /\ Len(peer[i].inbox) \in Nat /\ MSG_LEN \in Nat
  BY <1>1, ServerAssumption DEF DSSESSION, Peer
<1>3. PICK r \in 1..in_len(i) :
        LET got  == session[i].r_part + r
            done == got \div MSG_LEN
        IN  /\ session' = [session EXCEPT
                  ![i].r_used = TRUE,
                  ![i].r_buffer = @ \o SubSeq(peer[i].inbox, 1, done),
                  ![i].r_part = got % MSG_LEN,
                  ![i].read_time = TRUE]
            /\ peer' = [peer EXCEPT
                  ![i].inbox = SubSeq(@, done + 1, Len(@))]
  BY DEF LDAP_sess_read
<1> DEFINE got == session[i].r_part + r
<1>4. MSG_LEN * Len(peer[i].inbox) \in Nat
  BY <1>2, SMT
<1>5. got \in Nat /\ got <= MSG_LEN * Len(peer[i].inbox)
  BY <1>2, <1>4 DEF in_len
<1>6. session' = [session EXCEPT ![i] = AfterRead(session[i], peer[i], got)]
  BY <1>1, <1>3 DEF AfterRead
<1>7. peer' = [peer EXCEPT ![i] = PeerAfterRead(peer[i], got)]
  BY <1>1, <1>3 DEF PeerAfterRead
<1>8. UNCHANGED table
  BY DEF LDAP_sess_read
<1> QED BY <1>5, <1>6, <1>7, <1>8 DEF Becomes

\* Taking the first message leaves a session that differs in the read buffer
\* and its timer.
LEMMA ConsumedSession ==
    ASSUME NEW s \in DSSESSION, s.r_buffer # <<>>
    PROVE  /\ Head(s.r_buffer).id \in RequestId
           /\ Consumed(s) \in DSSESSION
           /\ Consumed(s) = [s EXCEPT !.r_buffer = Tail(s.r_buffer),
                                      !.read_time = s.read_time /\ ~NothingLeft(s)]
           /\ Consumed(s).rdata = s.rdata
<1>1. s.r_buffer \in Seq(Message) /\ s.read_time \in BOOLEAN
  BY DEF DSSESSION
<1>2. Head(s.r_buffer) \in Message /\ Tail(s.r_buffer) \in Seq(Message)
  BY <1>1, HeadTailProperties
<1>3. Head(s.r_buffer).id \in RequestId
  BY <1>2 DEF Message
<1>4. (s.read_time /\ ~NothingLeft(s)) \in BOOLEAN
  OBVIOUS
<1>5. Consumed(s) = [s EXCEPT !.r_buffer = Tail(s.r_buffer),
                              !.read_time = s.read_time /\ ~NothingLeft(s)]
  BY DEF Consumed, DSSESSION
<1>6. Consumed(s) \in DSSESSION
  BY <1>2, <1>4, <1>5 DEF DSSESSION
<1>7. Consumed(s).rdata = s.rdata
  BY <1>5 DEF DSSESSION
<1> QED BY <1>3, <1>5, <1>6, <1>7

\* What LDAP_sess_decode makes of a session and its peer: the message goes to
\* the application, is answered over the limit, is not although the limit is
\* reached, or is not for the application.
AfterRequest(s) ==
    [Consumed(s) EXCEPT !.concurrent_count = s.concurrent_count + 1,
                        !.rdata = Append(s.rdata, Head(s.r_buffer).id)]

PeerAnswered(s, p, torn) ==
    [p EXCEPT !.answered = Append(p.answered, Head(s.r_buffer).id), !.torn = torn]

PeerMissed(s, p, torn) ==
    [p EXCEPT !.lost = p.lost \union {Head(s.r_buffer).id}, !.torn = torn]

PeerAfterOther(s, p) ==
    [p EXCEPT !.dropped = p.dropped \union {Head(s.r_buffer).id}]

\* The process has ended and starts again.
Restarted ==
    /\ listening' = FALSE
    /\ used' = {}
    /\ session' = [j \in Slot |-> NewSession(0)]
    /\ last_session' = -1
    /\ session_count' = 0
    /\ version' = 0
    /\ peer' = [j \in Slot |-> NewPeer]

\* Over the limit rdata is what it was before, and the peer has its answer or
\* not.
LEMMA OverLimitBecomes ==
    ASSUME TypeOK, NEW i \in Slot, session[i].r_buffer # <<>>, UNCHANGED table,
           DecodeOverLimit(i, Head(session[i].r_buffer))
    PROVE  /\ ~BelowLimit(session[i])
           /\ \E torn \in BOOLEAN :
                 \/ Becomes(i, Consumed(session[i]),
                            PeerAnswered(session[i], peer[i], torn))
                 \/ Becomes(i, Consumed(session[i]),
                            PeerMissed(session[i], peer[i], torn))
<1>1. session \in [Slot -> DSSESSION] /\ peer \in [Slot -> Peer]
  BY DEF TypeOK
<1> DEFINE s == session[i]
           m == Head(s.r_buffer)
           x == m.id
           p == peer[i]
<1>2. s \in DSSESSION /\ s.rdata \in Seq(RequestId) /\ p \in Peer
  BY <1>1 DEF DSSESSION
<1>3. x \in RequestId /\ Consumed(s) \in DSSESSION /\ Consumed(s).rdata = s.rdata
  BY <1>2, ConsumedSession
<1>4. WithoutLatest(AppendItem(s.rdata, x)) = s.rdata
  BY <1>2, <1>3, AppendThenDrop DEF WithoutLatest, AppendItem
<1>5. [Consumed(s) EXCEPT !.rdata = WithoutLatest(AppendItem(@, x))] = Consumed(s)
  BY <1>3, <1>4 DEF DSSESSION
<1>6. session' = [session EXCEPT ![i] = Consumed(session[i])]
  BY <1>5 DEF DecodeOverLimit
<1>7. PICK r \in 0..MSG_LEN :
          peer' = [peer EXCEPT
                     ![i].answered = IF r = MSG_LEN THEN Append(@, x) ELSE @,
                     ![i].lost = IF r < MSG_LEN THEN @ \union {x} ELSE @,
                     ![i].torn = \/ @
                                 \/ r \in 1..(MSG_LEN - 1)
                                 \/ r > 0 /\ session[i].w_curr > 0]
  BY DEF DecodeOverLimit
<1> DEFINE torn == \/ p.torn
                   \/ r \in 1..(MSG_LEN - 1)
                   \/ r > 0 /\ session[i].w_curr > 0
           a == IF r = MSG_LEN THEN Append(p.answered, x) ELSE p.answered
           l == IF r < MSG_LEN THEN p.lost \union {x} ELSE p.lost
<1>8. peer' = [peer EXCEPT ![i] = [p EXCEPT !.answered = a, !.lost = l, !.torn = torn]]
  BY <1>1, <1>7
<1>9. torn \in BOOLEAN
  <2>1. p.torn \in BOOLEAN
    BY <1>2 DEF Peer
  <2> QED BY <2>1
<1>10. r \in Nat /\ MSG_LEN \in Nat /\ (r < MSG_LEN <=> r # MSG_LEN)
  BY ServerAssumption
<1> HIDE DEF torn, x
<1>11. CASE r = MSG_LEN
  <2>1. a = Append(p.answered, x) /\ l = p.lost
    BY <1>10, <1>11
  <2>2. [p EXCEPT !.answered = a, !.lost = l, !.torn = torn]
          = [p EXCEPT !.answered = Append(p.answered, x), !.torn = torn]
    BY <1>2, <2>1 DEF Peer
  <2>3. peer' = [peer EXCEPT ![i] = PeerAnswered(s, p, torn)]
    BY <1>8, <2>2 DEF PeerAnswered, x
  <2> QED BY <1>6, <1>9, <2>3 DEF Becomes, DecodeOverLimit
<1>12. CASE r # MSG_LEN
  <2>1. a = p.answered /\ l = p.lost \union {x}
    BY <1>10, <1>12
  <2>2. [p EXCEPT !.answered = a, !.lost = l, !.torn = torn]
          = [p EXCEPT !.lost = p.lost \union {x}, !.torn = torn]
    BY <1>2, <2>1 DEF Peer
  <2>3. peer' = [peer EXCEPT ![i] = PeerMissed(s, p, torn)]
    BY <1>8, <2>2 DEF PeerMissed, x
  <2> QED BY <1>6, <1>9, <2>3 DEF Becomes, DecodeOverLimit
<1> QED BY <1>11, <1>12

\* LDAP_sess_decode replaces the records of its session, or ends the process.
LEMMA DecodeBecomes ==
    ASSUME TypeOK, NEW i \in Slot, LDAP_sess_decode(i)
    PROVE  /\ i \in used /\ session[i].r_buffer # <<>>
           /\ \/ /\ BelowLimit(session[i])
                 /\ Becomes(i, AfterRequest(session[i]), peer[i])
              \/ /\ ~BelowLimit(session[i])
                 /\ \E torn \in BOOLEAN :
                       \/ Becomes(i, Consumed(session[i]),
                                  PeerAnswered(session[i], peer[i], torn))
                       \/ Becomes(i, Consumed(session[i]),
                                  PeerMissed(session[i], peer[i], torn))
              \/ Becomes(i, Consumed(session[i]),
                            PeerAfterOther(session[i], peer[i]))
              \/ Restarted
<1>1. session \in [Slot -> DSSESSION] /\ peer \in [Slot -> Peer]
  BY DEF TypeOK
<1> DEFINE s == session[i]
           m == Head(s.r_buffer)
<1>2. i \in used /\ s.r_buffer # <<>>
  BY DEF LDAP_sess_decode
<1>3. \/ DecodeRequest(i, m) /\ UNCHANGED table
      \/ DecodeOverLimit(i, m) /\ UNCHANGED table
      \/ DecodeOther(i, m) /\ UNCHANGED table
      \/ DecodeUnanswerable(i, m)
  BY DEF LDAP_sess_decode
<1>4. CASE DecodeRequest(i, m) /\ UNCHANGED table
  <2>1. session' = [session EXCEPT ![i] = AfterRequest(session[i])]
    BY <1>1, <1>4 DEF DecodeRequest, AfterRequest, Consumed, AppendItem, DSSESSION
  <2>2. peer' = [peer EXCEPT ![i] = peer[i]]
    BY <1>1, <1>4 DEF DecodeRequest
  <2>3. BelowLimit(session[i])
    BY <1>4 DEF DecodeRequest
  <2> QED BY <1>2, <1>4, <2>1, <2>2, <2>3 DEF Becomes
<1>5. CASE DecodeOverLimit(i, m) /\ UNCHANGED table
  BY <1>2, <1>5, OverLimitBecomes
<1>6. CASE DecodeOther(i, m) /\ UNCHANGED table
  <2>1. session' = [session EXCEPT ![i] = Consumed(session[i])]
    BY <1>6 DEF DecodeOther
  <2>2. peer' = [peer EXCEPT ![i] = PeerAfterOther(session[i], peer[i])]
    BY <1>1, <1>6 DEF DecodeOther, PeerAfterOther
  <2> QED BY <1>2, <1>6, <2>1, <2>2 DEF Becomes
<1>7. CASE DecodeUnanswerable(i, m)
  BY <1>2, <1>7 DEF DecodeUnanswerable, Restarted
<1> QED BY <1>2, <1>3, <1>4, <1>5, <1>6, <1>7

\* What LDAP_sess_send_message makes of a session when m is the result of a
\* request.
AfterResult(s, m) ==
    [s EXCEPT !.rdata = Delete(s.rdata, m),
              !.w_used = TRUE,
              !.w_buffer = Append(s.w_buffer, m),
              !.write_time = TRUE,
              !.concurrent_count = s.concurrent_count - 1]

\* What it makes of it when it sends one more entry.
EntryId(s, p) == <<s.version, -(p.entries + 1)>>

AfterEntry(s, p) ==
    [s EXCEPT !.w_used = TRUE,
              !.w_buffer = Append(s.w_buffer, EntryId(s, p)),
              !.write_time = TRUE,
              !.concurrent_count = s.concurrent_count - 1]

PeerAfterEntry(p) == [p EXCEPT !.entries = p.entries + 1]

\* LDAP_sess_send_message does one of the two.
LEMMA SendBecomes ==
    ASSUME TypeOK, NEW i \in Slot, LDAP_sess_send_message(i)
    PROVE  \/ \E m \in Items(session[i].rdata) :
                 Becomes(i, AfterResult(session[i], m), peer[i])
           \/ /\ session[i].rdata # <<>>
              /\ Becomes(i, AfterEntry(session[i], peer[i]), PeerAfterEntry(peer[i]))
<1>1. session \in [Slot -> DSSESSION] /\ peer \in [Slot -> Peer]
  BY DEF TypeOK
<1>2. session[i] \in DSSESSION /\ peer[i] \in Peer
  BY <1>1
<1>3. CASE SendResult(i)
  <2>1. PICK m \in Items(session[i].rdata) :
          session' = [session EXCEPT ![i] =
                        [Buffered(session[i], m) EXCEPT !.rdata = Delete(@, m)]]
    BY <1>3 DEF SendResult
  <2>2. [Buffered(session[i], m) EXCEPT !.rdata = Delete(@, m)]
          = AfterResult(session[i], m)
    BY <1>2 DEF Buffered, AfterResult, DSSESSION
  <2>3. peer' = [peer EXCEPT ![i] = peer[i]] /\ UNCHANGED table
    BY <1>1, <1>3 DEF SendResult
  <2> QED BY <2>1, <2>2, <2>3 DEF Becomes
<1>4. CASE SendEntry(i)
  <2>1. session' = [session EXCEPT ![i] = AfterEntry(session[i], peer[i])]
    BY <1>4 DEF SendEntry, Buffered, AfterEntry, EntryId
  <2>2. peer' = [peer EXCEPT ![i] = PeerAfterEntry(peer[i])]
    BY <1>1, <1>4 DEF SendEntry, PeerAfterEntry
  <2> QED BY <1>4, <2>1, <2>2 DEF Becomes, SendEntry
<1> QED BY <1>3, <1>4 DEF LDAP_sess_send_message

\* What LDAP_sess_write makes of a session once sent bytes of w_buffer are
\* sent.
AfterWrite(s, sent) ==
    [s EXCEPT !.w_buffer = SubSeq(s.w_buffer, (sent \div MSG_LEN) + 1, Len(s.w_buffer)),
              !.w_curr = sent % MSG_LEN,
              !.write_time = WriteTimer(SubSeq(s.w_buffer, (sent \div MSG_LEN) + 1,
                                               Len(s.w_buffer)))]

PeerAfterWrite(s, p, sent) ==
    [p EXCEPT !.answered = p.answered \o SubSeq(s.w_buffer, 1, sent \div MSG_LEN)]

\* LDAP_sess_write does just that, for some number of bytes sent.
LEMMA WriteBecomes ==
    ASSUME TypeOK, NEW i \in Slot, LDAP_sess_write(i)
    PROVE  \E sent \in Nat :
              /\ sent <= MSG_LEN * Len(session[i].w_buffer)
              /\ Becomes(i, AfterWrite(session[i], sent),
                            PeerAfterWrite(session[i], peer[i], sent))
<1>1. session \in [Slot -> DSSESSION] /\ peer \in [Slot -> Peer]
  BY DEF TypeOK
<1>2. /\ session[i].w_curr \in Nat
      /\ Len(session[i].w_buffer) \in Nat
      /\ MSG_LEN \in Nat
      /\ WRITE_BUFFER \in Nat
  BY <1>1, ServerAssumption DEF DSSESSION
<1>3. PICK r \in 1..SendLimit(i) :
          LET sent == session[i].w_curr + r
              done == sent \div MSG_LEN
              out  == SubSeq(session[i].w_buffer, 1, done)
              left == SubSeq(session[i].w_buffer, done + 1,
                             Len(session[i].w_buffer))
          IN  /\ session' = [session EXCEPT
                                ![i].w_buffer = left,
                                ![i].w_curr = sent % MSG_LEN,
                                ![i].write_time = WriteTimer(left)]
              /\ peer' = [peer EXCEPT ![i].answered = @ \o out]
  BY DEF LDAP_sess_write
<1> DEFINE sent == session[i].w_curr + r
<1>4. MSG_LEN * Len(session[i].w_buffer) \in Nat
  BY <1>2, SMT
<1>5. sent \in Nat /\ sent <= MSG_LEN * Len(session[i].w_buffer)
  BY <1>2, <1>4 DEF SendLimit, w_len
<1>6. session' = [session EXCEPT ![i] = AfterWrite(session[i], sent)]
  BY <1>1, <1>3 DEF AfterWrite
<1>7. peer' = [peer EXCEPT ![i] = PeerAfterWrite(session[i], peer[i], sent)]
  BY <1>1, <1>3 DEF PeerAfterWrite
<1>8. UNCHANGED table
  BY DEF LDAP_sess_write
<1> QED BY <1>5, <1>6, <1>7, <1>8 DEF Becomes

\* What the peer has once it sent one more message.
PeerAfterSend(s, p, k) ==
    [p EXCEPT !.sent = p.sent + 1,
              !.inbox = Append(p.inbox,
                               [id |-> <<s.version, p.sent + 1>>, kind |-> k])]

\* The peer's step does just that.
LEMMA PeerBecomes ==
    ASSUME TypeOK, NEW i \in Slot, PeerSends(i)
    PROVE  \E k \in Kind :
              Becomes(i, session[i], PeerAfterSend(session[i], peer[i], k))
<1>1. session \in [Slot -> DSSESSION] /\ peer \in [Slot -> Peer]
  BY DEF TypeOK
<1>2. PICK k \in Kind :
          LET m == [id |-> <<session[i].version, peer[i].sent + 1>>, kind |-> k]
          IN  peer' = [peer EXCEPT ![i].sent = @ + 1,
                                   ![i].inbox = Append(@, m)]
  BY DEF PeerSends
<1>3. peer' = [peer EXCEPT ![i] = PeerAfterSend(session[i], peer[i], k)]
  BY <1>1, <1>2 DEF PeerAfterSend
<1>4. session' = [session EXCEPT ![i] = session[i]] /\ UNCHANGED table
  BY <1>1 DEF PeerSends
<1> QED BY <1>3, <1>4 DEF Becomes

-----------------------------------------------------------------------------
(* What every call keeps of the records of a session.                      *)

\* What PendingIoIsTimed says of one session.
Timed(s) ==
    /\ s.r_buffer # <<>> \/ s.r_part > 0 => s.read_time
    /\ s.w_buffer # <<>> => s.write_time

\* What ConcurrencyAccounted says of one session.
WithinLimit(s, p) ==
    /\ s.concurrent_count = Len(s.rdata) - p.entries
    /\ s.concurrent_count <= max_concurrent
    /\ p.torn \/ p.lost # {} => p.sent > max_concurrent

\* A buffer that was not allocated has never held anything.
UnusedIsEmpty(s) ==
    /\ ~s.r_used => s.r_buffer = <<>> /\ s.rdata = <<>>
    /\ ~s.w_used => s.w_buffer = <<>>

SessionSound(s, p) == Timed(s) /\ WithinLimit(s, p) /\ UnusedIsEmpty(s)

\* Records that agree in what SessionSound says of them.
Alike(s, p, e, q) ==
    /\ e.concurrent_count = s.concurrent_count /\ e.rdata = s.rdata
    /\ q.entries = p.entries /\ q.torn = p.torn /\ q.lost = p.lost
    /\ q.sent = p.sent

\* Where they do not, WithinLimit stays.
LEMMA AlikeWithin ==
    ASSUME NEW s, NEW p, NEW e, NEW q, Alike(s, p, e, q), WithinLimit(s, p)
    PROVE  WithinLimit(e, q)
BY DEF Alike, WithinLimit

\* A new session.
LEMMA NewSound ==
    ASSUME NEW v \in Nat
    PROVE  /\ NewSession(v) \in DSSESSION
           /\ SessionSound(NewSession(v), NewPeer)
           /\ NewPeer \in Peer
<1> DEFINE s == NewSession(v)
           p == NewPeer
<1>1. s \in DSSESSION
  BY DEF NewSession, DSSESSION
<1>2. /\ s.r_buffer = <<>> /\ s.r_part = 0 /\ s.w_buffer = <<>>
      /\ s.concurrent_count = 0 /\ s.rdata = <<>>
  BY DEF NewSession
<1>3. p.entries = 0 /\ p.torn = FALSE /\ p.lost = {}
  BY DEF NewPeer
<1>4. NewPeer \in Peer
  BY DEF NewPeer, Peer
<1> HIDE DEF s, p
<1>5. SessionSound(s, p)
  BY <1>2, <1>3, ServerAssumption
     DEF SessionSound, Timed, WithinLimit, UnusedIsEmpty
<1> QED BY <1>1, <1>4, <1>5 DEF s, p

\* LDAP_sess_read.
LEMMA ReadSound ==
    ASSUME NEW s \in DSSESSION, NEW p \in Peer, NEW got \in Nat,
           got <= MSG_LEN * Len(p.inbox)
    PROVE  /\ AfterRead(s, p, got) \in DSSESSION
           /\ PeerAfterRead(p, got) \in Peer
           /\ SessionSound(s, p) =>
                 SessionSound(AfterRead(s, p, got), PeerAfterRead(p, got))
<1> DEFINE done == got \div MSG_LEN
           out == SubSeq(p.inbox, 1, done)
           left == SubSeq(p.inbox, done + 1, Len(p.inbox))
           e == AfterRead(s, p, got)
<1>1. p.inbox \in Seq(Message) /\ Len(p.inbox) \in Nat
  BY DEF Peer
<1>2. done \in 0..Len(p.inbox) /\ (got % MSG_LEN) \in Nat
  BY <1>1, ServerAssumption, WholeItems
<1> HIDE DEF done
<1>3. out \in Seq(Message) /\ left \in Seq(Message)
  BY <1>1, <1>2, SplitSeq
<1> HIDE DEF out, left
<1>4. s.r_buffer \o out \in Seq(Message)
  BY <1>3, ConcatProperties DEF DSSESSION
<1>5. e = [s EXCEPT !.r_used = TRUE, !.r_buffer = s.r_buffer \o out,
                    !.r_part = got % MSG_LEN, !.read_time = TRUE]
  BY DEF AfterRead, out, done
<1>6. e \in DSSESSION
  BY <1>2, <1>4, <1>5 DEF DSSESSION
<1>7. PeerAfterRead(p, got) = [p EXCEPT !.inbox = left]
  BY DEF PeerAfterRead, left, done
<1>8. PeerAfterRead(p, got) \in Peer
  BY <1>3, <1>7 DEF Peer
<1>9. /\ e.r_used /\ e.read_time
      /\ e.w_used = s.w_used /\ e.w_buffer = s.w_buffer
      /\ e.write_time = s.write_time
      /\ e.concurrent_count = s.concurrent_count /\ e.rdata = s.rdata
  BY <1>5 DEF DSSESSION
<1> DEFINE q == PeerAfterRead(p, got)
<1>10. Alike(s, p, e, q)
  BY <1>7, <1>9 DEF Alike, Peer
<1> HIDE DEF e, q
<1>11. SessionSound(s, p) => SessionSound(e, q)
  BY <1>9, <1>10, AlikeWithin DEF SessionSound, Timed, UnusedIsEmpty
<1> QED BY <1>6, <1>8, <1>11 DEF e, q

\* LDAP_sess_decode takes a message: the timer runs on while there is more.
LEMMA ConsumedSound ==
    ASSUME NEW s \in DSSESSION, NEW p, s.r_buffer # <<>>
    PROVE  SessionSound(s, p) => SessionSound(Consumed(s), p)
<1> DEFINE e == Consumed(s)
<1>1. e = [s EXCEPT !.r_buffer = Tail(s.r_buffer),
                    !.read_time = s.read_time /\ ~NothingLeft(s)]
  BY ConsumedSession
<1>2. /\ e.r_buffer = Tail(s.r_buffer) /\ e.r_part = s.r_part
      /\ e.read_time = (s.read_time /\ ~NothingLeft(s))
      /\ e.r_used = s.r_used /\ e.w_used = s.w_used
      /\ e.w_buffer = s.w_buffer /\ e.write_time = s.write_time
      /\ e.concurrent_count = s.concurrent_count /\ e.rdata = s.rdata
  BY <1>1 DEF DSSESSION
<1>3. s.r_buffer \in Seq(Message) /\ s.r_part \in Nat
  BY DEF DSSESSION
<1> HIDE DEF e
<1>4. NothingLeft(s) => e.r_buffer = <<>> /\ e.r_part = 0
  <2>1. Tail(s.r_buffer) \in Seq(Message) /\ Len(Tail(s.r_buffer)) = Len(s.r_buffer) - 1
    BY <1>3, HeadTailProperties
  <2>2. Len(s.r_buffer) = 1 => Tail(s.r_buffer) = <<>>
    <3> SUFFICES ASSUME Len(s.r_buffer) = 1 PROVE Tail(s.r_buffer) = <<>>
      OBVIOUS
    <3>1. Len(Tail(s.r_buffer)) = 0
      BY <2>1
    <3> QED BY <2>1, <3>1, LenZero
  <2> QED BY <1>2, <2>2 DEF NothingLeft
<1>5. SessionSound(s, p) => Timed(e)
  <2> SUFFICES ASSUME SessionSound(s, p) PROVE Timed(e)
    OBVIOUS
  <2>1. s.read_time /\ (e.w_buffer # <<>> => e.write_time)
    BY <1>2 DEF SessionSound, Timed
  <2>2. CASE NothingLeft(s)
    BY <1>4, <2>1, <2>2 DEF Timed
  <2>3. CASE ~NothingLeft(s)
    BY <1>2, <2>1, <2>3 DEF Timed
  <2> QED BY <2>2, <2>3
<1>6. SessionSound(s, p) => WithinLimit(e, p) /\ UnusedIsEmpty(e)
  BY <1>2 DEF SessionSound, WithinLimit, UnusedIsEmpty
<1> QED BY <1>5, <1>6 DEF SessionSound, e

\* LDAP_sess_decode puts a request into rdata only below the limit.
LEMMA RequestSound ==
    ASSUME NEW s \in DSSESSION, NEW p \in Peer, s.r_buffer # <<>>, BelowLimit(s)
    PROVE  /\ AfterRequest(s) \in DSSESSION
           /\ SessionSound(s, p) => SessionSound(AfterRequest(s), p)
<1> DEFINE c == Consumed(s)
           x == Head(s.r_buffer).id
           e == AfterRequest(s)
<1>1. /\ x \in RequestId
      /\ c \in DSSESSION
      /\ c.rdata = s.rdata
      /\ c = [s EXCEPT !.r_buffer = Tail(s.r_buffer),
                       !.read_time = s.read_time /\ ~NothingLeft(s)]
  BY ConsumedSession
<1>2. c.concurrent_count = s.concurrent_count /\ c.r_used = s.r_used
  BY <1>1 DEF DSSESSION
<1>3. SessionSound(s, p) => SessionSound(c, p)
  BY ConsumedSound
<1>4. e = [c EXCEPT !.concurrent_count = s.concurrent_count + 1,
                    !.rdata = Append(s.rdata, x)]
  BY DEF AfterRequest
<1> HIDE DEF c, e, x
<1>5. s.rdata \in Seq(RequestId) /\ s.concurrent_count \in Int
  BY DEF DSSESSION
<1>6. /\ Append(s.rdata, x) \in Seq(RequestId)
      /\ Len(Append(s.rdata, x)) = Len(s.rdata) + 1
  BY <1>1, <1>5, AppendProperties
<1>7. e \in DSSESSION
  <2> DEFINE n == s.concurrent_count + 1
             q == Append(s.rdata, x)
  <2>1. n \in Int /\ q \in Seq(RequestId) /\ c \in DSSESSION
    BY <1>1, <1>5, <1>6
  <2>2. e = [c EXCEPT !.concurrent_count = n, !.rdata = q]
    BY <1>4
  <2> HIDE DEF n, q
  <2> QED BY <2>1, <2>2 DEF DSSESSION
<1>8. /\ e.r_buffer = c.r_buffer /\ e.r_part = c.r_part /\ e.read_time = c.read_time
      /\ e.r_used = c.r_used /\ e.w_used = c.w_used
      /\ e.w_buffer = c.w_buffer /\ e.write_time = c.write_time
      /\ e.concurrent_count = s.concurrent_count + 1
      /\ e.rdata = Append(s.rdata, x)
  BY <1>1, <1>4 DEF DSSESSION
<1>9. SessionSound(s, p) => s.r_used
  BY <1>5 DEF SessionSound, UnusedIsEmpty
<1>10. SessionSound(s, p) => WithinLimit(e, p)
  <2> SUFFICES ASSUME WithinLimit(s, p) PROVE WithinLimit(e, p)
    BY DEF SessionSound
  <2> DEFINE n == Len(s.rdata)
             c1 == s.concurrent_count
             k == p.entries
  <2>1. n \in Nat /\ c1 \in Int /\ k \in Nat /\ max_concurrent \in Nat
    BY <1>5, ServerAssumption DEF Peer
  <2>2. c1 = n - k /\ c1 < max_concurrent
    BY DEF WithinLimit, BelowLimit
  <2>3. e.concurrent_count = c1 + 1 /\ Len(e.rdata) = n + 1
    BY <1>6, <1>8
  <2> HIDE DEF n, c1, k
  <2>4. c1 + 1 = (n + 1) - k /\ c1 + 1 <= max_concurrent
    BY <2>1, <2>2
  <2> QED BY <2>3, <2>4 DEF WithinLimit, k
<1>11. SessionSound(s, p) => Timed(e) /\ UnusedIsEmpty(e)
  BY <1>2, <1>3, <1>8, <1>9 DEF SessionSound, Timed, UnusedIsEmpty
<1> QED BY <1>7, <1>10, <1>11 DEF SessionSound, e

\* One message less counted, one more to send: the count follows whether the
\* message is the result of a request or an entry.
LEMMA CountDown ==
    ASSUME NEW c \in Int, NEW n \in Nat, NEW k \in Nat, NEW m \in Nat, c = n - k, c <= m
    PROVE  /\ c - 1 \in Int /\ c - 1 <= m
           /\ c - 1 = (n - 1) - k
           /\ c - 1 = n - (k + 1)
OBVIOUS

\* LDAP_sess_send_message with a result: one request less with the
\* application, one response more to send.
LEMMA ResultSound ==
    ASSUME NEW s \in DSSESSION, NEW p \in Peer, NEW m \in Items(s.rdata)
    PROVE  /\ AfterResult(s, m) \in DSSESSION
           /\ SessionSound(s, p) => SessionSound(AfterResult(s, m), p)
<1> DEFINE e == AfterResult(s, m)
           r == Delete(s.rdata, m)
           w == Append(s.w_buffer, m)
           c == s.concurrent_count - 1
<1>1. s.rdata \in Seq(RequestId) /\ s.w_buffer \in Seq(MessageId)
  BY DEF DSSESSION
<1>2. m \in MessageId
  BY <1>1 DEF Items, RequestId, MessageId
<1>3. r \in Seq(RequestId) /\ Len(r) = Len(s.rdata) - 1
  BY <1>1, DeleteType, DeleteLen
<1>4. w \in Seq(MessageId)
  BY <1>1, <1>2
<1>5. s.concurrent_count \in Int /\ c \in Int
  BY DEF DSSESSION
<1>6. e = [s EXCEPT !.rdata = r, !.w_used = TRUE, !.w_buffer = w,
                    !.write_time = TRUE, !.concurrent_count = c]
  BY DEF AfterResult
<1>7. s.rdata # <<>>
  BY DEF Items
<1> HIDE DEF e, r, w, c
<1>8. e \in DSSESSION
  BY <1>3, <1>4, <1>5, <1>6 DEF DSSESSION
<1>9. /\ e.rdata = r /\ e.concurrent_count = c
      /\ e.w_used /\ e.write_time
      /\ e.r_buffer = s.r_buffer /\ e.r_part = s.r_part
      /\ e.read_time = s.read_time /\ e.r_used = s.r_used
  BY <1>6 DEF DSSESSION
<1>10. WithinLimit(s, p) => WithinLimit(e, p)
  <2> SUFFICES ASSUME WithinLimit(s, p) PROVE WithinLimit(e, p)
    OBVIOUS
  <2> DEFINE n == Len(s.rdata)
             k == p.entries
  <2>1. n \in Nat /\ k \in Nat /\ max_concurrent \in Nat
    BY <1>1, ServerAssumption DEF Peer
  <2>2. s.concurrent_count = n - k /\ s.concurrent_count <= max_concurrent
    BY DEF WithinLimit
  <2>3. Len(e.rdata) = n - 1
    BY <1>3, <1>9
  <2> HIDE DEF n, k
  <2>4. c = (n - 1) - k /\ c <= max_concurrent
    BY <1>5, <2>1, <2>2, CountDown DEF c
  <2> QED BY <1>9, <2>3, <2>4 DEF WithinLimit, k
<1>11. SessionSound(s, p) => Timed(e) /\ UnusedIsEmpty(e)
  BY <1>7, <1>9 DEF SessionSound, Timed, UnusedIsEmpty
<1> QED BY <1>8, <1>10, <1>11 DEF SessionSound, e

\* With an entry: the request stays with the application, but is counted as
\* answered.
LEMMA EntrySound ==
    ASSUME NEW s \in DSSESSION, NEW p \in Peer, s.rdata # <<>>
    PROVE  /\ EntryId(s, p) \in MessageId
           /\ AfterEntry(s, p) \in DSSESSION
           /\ PeerAfterEntry(p) \in Peer
           /\ SessionSound(s, p) => SessionSound(AfterEntry(s, p), PeerAfterEntry(p))
<1> DEFINE e == AfterEntry(s, p)
           q == PeerAfterEntry(p)
           m == EntryId(s, p)
           w == Append(s.w_buffer, m)
           c == s.concurrent_count - 1
           k == p.entries
           h == k + 1
<1>1. /\ s.version \in Nat /\ s.w_buffer \in Seq(MessageId)
      /\ s.concurrent_count \in Int /\ s.rdata \in Seq(RequestId)
      /\ k \in Nat
  BY DEF DSSESSION, Peer
<1>2. m \in MessageId /\ h \in Nat /\ c \in Int
  BY <1>1 DEF EntryId, MessageId
<1>3. w \in Seq(MessageId)
  BY <1>1, <1>2
<1>4. /\ e = [s EXCEPT !.w_used = TRUE, !.w_buffer = w,
                       !.write_time = TRUE, !.concurrent_count = c]
      /\ q = [p EXCEPT !.entries = h]
  BY DEF AfterEntry, PeerAfterEntry
<1> HIDE DEF e, q, m, w, c, h
<1>5. e \in DSSESSION /\ q \in Peer
  BY <1>2, <1>3, <1>4 DEF DSSESSION, Peer
<1>6. /\ e.rdata = s.rdata /\ e.concurrent_count = c
      /\ e.w_used /\ e.write_time
      /\ e.r_buffer = s.r_buffer /\ e.r_part = s.r_part
      /\ e.read_time = s.read_time /\ e.r_used = s.r_used
  BY <1>4 DEF DSSESSION
<1>7. q.entries = h /\ q.torn = p.torn /\ q.lost = p.lost /\ q.sent = p.sent
  BY <1>4 DEF Peer
<1>8. WithinLimit(s, p) => WithinLimit(e, q)
  <2> SUFFICES ASSUME WithinLimit(s, p) PROVE WithinLimit(e, q)
    OBVIOUS
  <2> DEFINE n == Len(s.rdata)
  <2>1. n \in Nat /\ max_concurrent \in Nat
    BY <1>1, ServerAssumption
  <2>2. s.concurrent_count = n - k /\ s.concurrent_count <= max_concurrent
    BY DEF WithinLimit
  <2> HIDE DEF n, k
  <2>3. c = n - h /\ c <= max_concurrent
    BY <1>1, <2>1, <2>2, CountDown DEF c, h
  <2> QED BY <1>6, <1>7, <2>3 DEF WithinLimit, n
<1>9. SessionSound(s, p) => Timed(e) /\ UnusedIsEmpty(e)
  BY <1>6 DEF SessionSound, Timed, UnusedIsEmpty
<1> QED BY <1>2, <1>5, <1>8, <1>9 DEF SessionSound, e, q, m

\* LDAP_sess_write stops the write timer exactly when nothing is left.
LEMMA WriteSound ==
    ASSUME NEW s \in DSSESSION, NEW p \in Peer, NEW sent \in Nat,
           sent <= MSG_LEN * Len(s.w_buffer)
    PROVE  /\ AfterWrite(s, sent) \in DSSESSION
           /\ PeerAfterWrite(s, p, sent) \in Peer
           /\ SessionSound(s, p) =>
                 SessionSound(AfterWrite(s, sent), PeerAfterWrite(s, p, sent))
<1> DEFINE done == sent \div MSG_LEN
           out == SubSeq(s.w_buffer, 1, done)
           left == SubSeq(s.w_buffer, done + 1, Len(s.w_buffer))
           e == AfterWrite(s, sent)
<1>1. s.w_buffer \in Seq(MessageId) /\ Len(s.w_buffer) \in Nat
  BY DEF DSSESSION
<1>2. done \in 0..Len(s.w_buffer) /\ (sent % MSG_LEN) \in Nat
  BY <1>1, ServerAssumption, WholeItems
<1> HIDE DEF done
<1>3. out \in Seq(MessageId) /\ left \in Seq(MessageId)
      /\ s.w_buffer = out \o left
  BY <1>1, <1>2, SplitSeq
<1> HIDE DEF out, left
<1>4. p.answered \o out \in Seq(MessageId)
  BY <1>3, ConcatProperties DEF Peer
<1>5. e = [s EXCEPT !.w_buffer = left, !.w_curr = sent % MSG_LEN,
                    !.write_time = (left # <<>>)]
  BY DEF AfterWrite, WriteTimer, left, done
<1>6. e \in DSSESSION
  BY <1>2, <1>3, <1>5 DEF DSSESSION
<1>7. PeerAfterWrite(s, p, sent) = [p EXCEPT !.answered = p.answered \o out]
  BY DEF PeerAfterWrite, out, done
<1>8. PeerAfterWrite(s, p, sent) \in Peer
  BY <1>4, <1>7 DEF Peer
<1>9. /\ e.w_buffer = left /\ e.write_time = (left # <<>>)
      /\ e.r_buffer = s.r_buffer /\ e.r_part = s.r_part
      /\ e.read_time = s.read_time
      /\ e.r_used = s.r_used /\ e.w_used = s.w_used
      /\ e.concurrent_count = s.concurrent_count /\ e.rdata = s.rdata
  BY <1>5 DEF DSSESSION
<1>10. s.w_buffer = <<>> => left = <<>>
  BY <1>3, ConcatSimplifications!concIsEmpty
<1> DEFINE q == PeerAfterWrite(s, p, sent)
<1>11. Alike(s, p, e, q)
  BY <1>7, <1>9 DEF Alike, Peer
<1> HIDE DEF e, q
<1>12. SessionSound(s, p) => SessionSound(e, q)
  BY <1>9, <1>10, <1>11, AlikeWithin DEF SessionSound, Timed, UnusedIsEmpty
<1> QED BY <1>6, <1>8, <1>12 DEF e, q

-----------------------------------------------------------------------------
(* No message is lost or doubled on its way from the peer to the answer.   *)

PlacesOf(s, p) ==
    ids(p.inbox) \o ids(s.r_buffer) \o s.rdata \o s.w_buffer \o p.answered

\* The messages that the peer sent in this session and the entries it is sent.
Known(s, p) == {s.version} \X ((-p.entries..p.sent) \ {0})

\* What RequestsAccounted says of one session.
Accounted(s, p) ==
    /\ NoRepeat(PlacesOf(s, p))
    /\ Items(PlacesOf(s, p)) \intersect (p.dropped \union p.lost) = {}
    /\ p.dropped \intersect p.lost = {}
    /\ Items(PlacesOf(s, p)) \union p.dropped \union p.lost = Known(s, p)

\* The same, said of the five places one by one.
Apart(a, b, c, d, f) ==
    /\ NoRepeat(a) /\ NoRepeat(b) /\ NoRepeat(c) /\ NoRepeat(d) /\ NoRepeat(f)
    /\ Items(a) \intersect Items(b) = {} /\ Items(a) \intersect Items(c) = {}
    /\ Items(a) \intersect Items(d) = {} /\ Items(a) \intersect Items(f) = {}
    /\ Items(b) \intersect Items(c) = {} /\ Items(b) \intersect Items(d) = {}
    /\ Items(b) \intersect Items(f) = {} /\ Items(c) \intersect Items(d) = {}
    /\ Items(c) \intersect Items(f) = {} /\ Items(d) \intersect Items(f) = {}

AllOf(a, b, c, d, f) ==
    Items(a) \union Items(b) \union Items(c) \union Items(d) \union Items(f)

SumUp(a, b, c, d, f, dropped, lost, all) ==
    /\ Apart(a, b, c, d, f)
    /\ AllOf(a, b, c, d, f) \intersect (dropped \union lost) = {}
    /\ dropped \intersect lost = {}
    /\ AllOf(a, b, c, d, f) \union dropped \union lost = all

\* No message is in two of five places exactly when their joined list repeats none.
LEMMA FivePlaces ==
    ASSUME NEW S, NEW a \in Seq(S), NEW b \in Seq(S), NEW c \in Seq(S),
           NEW d \in Seq(S), NEW f \in Seq(S)
    PROVE  /\ Items(a \o b \o c \o d \o f) = AllOf(a, b, c, d, f)
           /\ NoRepeat(a \o b \o c \o d \o f) <=> Apart(a, b, c, d, f)
<1> DEFINE ab == a \o b
           abc == ab \o c
           abcd == abc \o d
           abcdf == abcd \o f
<1>1. /\ ab \in Seq(S) /\ Items(ab) = Items(a) \union Items(b)
      /\ NoRepeat(ab) <=> /\ NoRepeat(a) /\ NoRepeat(b)
                          /\ Items(a) \intersect Items(b) = {}
  BY ConcatProperties, ConcatItems
<1> HIDE DEF ab
<1>2. /\ abc \in Seq(S) /\ Items(abc) = Items(ab) \union Items(c)
      /\ NoRepeat(abc) <=> /\ NoRepeat(ab) /\ NoRepeat(c)
                           /\ Items(ab) \intersect Items(c) = {}
  BY <1>1, ConcatProperties, ConcatItems
<1> HIDE DEF abc
<1>3. /\ abcd \in Seq(S) /\ Items(abcd) = Items(abc) \union Items(d)
      /\ NoRepeat(abcd) <=> /\ NoRepeat(abc) /\ NoRepeat(d)
                            /\ Items(abc) \intersect Items(d) = {}
  BY <1>2, ConcatProperties, ConcatItems
<1> HIDE DEF abcd
<1>4. /\ Items(abcdf) = Items(abcd) \union Items(f)
      /\ NoRepeat(abcdf) <=> /\ NoRepeat(abcd) /\ NoRepeat(f)
                             /\ Items(abcd) \intersect Items(f) = {}
  BY <1>3, ConcatItems
<1> HIDE DEF abcdf
<1>5. Items(abcdf) = AllOf(a, b, c, d, f)
  BY <1>1, <1>2, <1>3, <1>4 DEF AllOf
<1>6. NoRepeat(abcdf) <=> Apart(a, b, c, d, f)
  BY <1>1, <1>2, <1>3, <1>4 DEF Apart
<1> QED BY <1>5, <1>6 DEF abcdf, abcd, abc, ab

\* A list of requests is a list of messages.
LEMMA RequestIds ==
    ASSUME NEW s \in Seq(RequestId)
    PROVE  s \in Seq(MessageId)
<1>1. \A i \in 1..Len(s) : s[i] \in MessageId
  <2> SUFFICES ASSUME NEW i \in 1..Len(s) PROVE s[i] \in MessageId
    OBVIOUS
  <2>1. s[i] \in RequestId
    OBVIOUS
  <2>2. RequestId \subseteq MessageId
    BY DEF RequestId, MessageId
  <2> QED BY <2>1, <2>2
<1> QED BY <1>1

\* The ids of messages are a list of ids.
LEMMA IdsType ==
    ASSUME NEW s \in Seq(Message)
    PROVE  /\ ids(s) \in Seq(RequestId) /\ ids(s) \in Seq(MessageId)
           /\ Len(ids(s)) = Len(s)
<1>1. ASSUME NEW n \in 1..Len(s) PROVE s[n].id \in RequestId
  <2>1. s[n] \in Message
    OBVIOUS
  <2> QED BY <2>1 DEF Message
<1>2. Len(s) \in Nat
  OBVIOUS
<1>3. ids(s) \in Seq(RequestId) /\ Len(ids(s)) = Len(s)
  BY <1>1, <1>2 DEF ids
<1> QED BY <1>3, RequestIds

\* The identifiers of two lists of messages, one behind the other.
LEMMA IdsConcat ==
    ASSUME NEW s \in Seq(Message), NEW t \in Seq(Message)
    PROVE  ids(s \o t) = ids(s) \o ids(t)
<1> DEFINE l == ids(s \o t)
           r == ids(s) \o ids(t)
<1>1. /\ s \o t \in Seq(Message)
      /\ Len(s \o t) = Len(s) + Len(t)
      /\ \A i \in 1..(Len(s) + Len(t)) :
            (s \o t)[i] = IF i <= Len(s) THEN s[i] ELSE t[i - Len(s)]
  BY ConcatProperties
<1>2. /\ ids(s) \in Seq(MessageId) /\ Len(ids(s)) = Len(s)
      /\ ids(t) \in Seq(MessageId) /\ Len(ids(t)) = Len(t)
  BY IdsType
<1>3. /\ r \in Seq(MessageId)
      /\ Len(r) = Len(s) + Len(t)
      /\ \A i \in 1..(Len(s) + Len(t)) :
            r[i] = IF i <= Len(s) THEN ids(s)[i] ELSE ids(t)[i - Len(s)]
  <2> DEFINE u == ids(s)
             v == ids(t)
  <2>1. u \in Seq(MessageId) /\ v \in Seq(MessageId) /\ Len(u) = Len(s) /\ Len(v) = Len(t)
    BY <1>2
  <2> HIDE DEF u, v
  <2>2. /\ u \o v \in Seq(MessageId)
        /\ Len(u \o v) = Len(u) + Len(v)
        /\ \A i \in 1..(Len(u) + Len(v)) :
              (u \o v)[i] = IF i <= Len(u) THEN u[i] ELSE v[i - Len(u)]
    BY <2>1, ConcatProperties
  <2> QED BY <2>1, <2>2 DEF u, v
<1>4. l \in Seq(MessageId) /\ Len(l) = Len(s) + Len(t)
  BY <1>1, IdsType
<1>5. \A i \in 1..(Len(s) + Len(t)) : l[i] = (s \o t)[i].id
  BY <1>1 DEF ids
<1>6. \A i \in 1..Len(s) : ids(s)[i] = s[i].id
  BY DEF ids
<1>7. \A i \in 1..Len(t) : ids(t)[i] = t[i].id
  BY DEF ids
<1>8. Len(s) \in Nat /\ Len(t) \in Nat
  OBVIOUS
<1> HIDE DEF l, r
<1>9. ASSUME NEW i \in 1..(Len(s) + Len(t)) PROVE l[i] = r[i]
  <2>1. CASE i <= Len(s)
    <3>1. i \in 1..Len(s)
      BY <1>8, <2>1
    <3> QED BY <1>1, <1>3, <1>5, <1>6, <2>1, <3>1
  <2>2. CASE ~(i <= Len(s))
    <3>1. i - Len(s) \in 1..Len(t)
      BY <1>8, <2>2
    <3> QED BY <1>1, <1>3, <1>5, <1>7, <2>2, <3>1
  <2> QED BY <2>1, <2>2
<1>10. l = r
  BY <1>3, <1>4, <1>9, SeqEqual
<1> QED BY <1>10 DEF l, r

\* The first message of a list has left it, and the ids with it.
LEMMA IdsTail ==
    ASSUME NEW s \in Seq(Message), s # <<>>
    PROVE  /\ Tail(s) \in Seq(Message)
           /\ Head(s).id \in MessageId /\ Head(s).id \in RequestId
           /\ Items(ids(s)) = {Head(s).id} \union Items(ids(Tail(s)))
           /\ NoRepeat(ids(s)) => /\ NoRepeat(ids(Tail(s)))
                                  /\ Head(s).id \notin Items(ids(Tail(s)))
<1>1. /\ Head(s) \in Message /\ Tail(s) \in Seq(Message)
      /\ Len(Tail(s)) = Len(s) - 1
      /\ \A i \in 1..Len(Tail(s)) : Tail(s)[i] = s[i + 1]
      /\ Head(s) = s[1]
  BY HeadTailProperties
<1> DEFINE l == ids(s)
           r == ids(Tail(s))
<1>2. l \in Seq(MessageId) /\ Len(l) = Len(s) /\ \A i \in 1..Len(s) : l[i] = s[i].id
  BY IdsType DEF ids
<1>3. /\ r \in Seq(MessageId) /\ Len(r) = Len(s) - 1
      /\ \A i \in 1..(Len(s) - 1) : r[i] = s[i + 1].id
  BY <1>1, IdsType DEF ids
<1>4. Len(s) \in Nat \ {0}
  BY EmptySeq
<1> HIDE DEF l, r
<1>5. l # <<>>
  BY <1>2, <1>4
<1>6. /\ Tail(l) \in Seq(MessageId) /\ Len(Tail(l)) = Len(l) - 1
      /\ \A i \in 1..Len(Tail(l)) : Tail(l)[i] = l[i + 1]
      /\ Head(l) = l[1]
  BY <1>2, <1>5, HeadTailProperties
<1>7. ASSUME NEW i \in 1..Len(r) PROVE r[i] = Tail(l)[i]
  <2>1. i \in 1..(Len(s) - 1) /\ i + 1 \in 1..Len(s)
    BY <1>3, <1>4
  <2> QED BY <1>2, <1>3, <1>6, <2>1
<1>8. r = Tail(l)
  BY <1>2, <1>3, <1>6, <1>7, SeqEqual
<1>9. Head(l) = Head(s).id
  BY <1>1, <1>2, <1>4, <1>6
<1>10. /\ Items(l) = {Head(l)} \union Items(Tail(l))
       /\ NoRepeat(l) => NoRepeat(Tail(l)) /\ Head(l) \notin Items(Tail(l))
  BY <1>2, <1>5, HeadTailItems
<1>11. Head(s).id \in MessageId /\ Head(s).id \in RequestId
  BY <1>1 DEF Message, MessageId, RequestId
<1> QED BY <1>1, <1>8, <1>9, <1>10, <1>11 DEF l, r

\* The two ways of saying it agree.
LEMMA AccountedSums ==
    ASSUME NEW s \in DSSESSION, NEW p \in Peer
    PROVE  Accounted(s, p) <=>
               SumUp(ids(p.inbox), ids(s.r_buffer), s.rdata, s.w_buffer,
                     p.answered, p.dropped, p.lost, Known(s, p))
<1>1. /\ ids(p.inbox) \in Seq(MessageId) /\ ids(s.r_buffer) \in Seq(MessageId)
      /\ s.rdata \in Seq(MessageId) /\ s.w_buffer \in Seq(MessageId)
      /\ p.answered \in Seq(MessageId)
  BY IdsType, RequestIds DEF DSSESSION, Peer
<1>2. /\ Items(PlacesOf(s, p))
           = AllOf(ids(p.inbox), ids(s.r_buffer), s.rdata, s.w_buffer, p.answered)
      /\ NoRepeat(PlacesOf(s, p))
           <=> Apart(ids(p.inbox), ids(s.r_buffer), s.rdata, s.w_buffer, p.answered)
  BY <1>1, FivePlaces DEF PlacesOf
<1> QED BY <1>2 DEF Accounted, SumUp

\* LDAP_sess_read moves messages from their way into the read buffer.
LEMMA ReadAccounted ==
    ASSUME NEW s \in DSSESSION, NEW p \in Peer, NEW got \in Nat,
           got <= MSG_LEN * Len(p.inbox), Accounted(s, p)
    PROVE  Accounted(AfterRead(s, p, got), PeerAfterRead(p, got))
<1> DEFINE done == got \div MSG_LEN
           out == SubSeq(p.inbox, 1, done)
           left == SubSeq(p.inbox, done + 1, Len(p.inbox))
           e == AfterRead(s, p, got)
           q == PeerAfterRead(p, got)
           all == Known(s, p)
<1>1. /\ p.inbox \in Seq(Message) /\ Len(p.inbox) \in Nat
      /\ s.r_buffer \in Seq(Message)
  BY DEF Peer, DSSESSION
<1>2. done \in 0..Len(p.inbox)
  BY <1>1, ServerAssumption, WholeItems
<1>3. e \in DSSESSION /\ q \in Peer
  BY ReadSound
<1>4. /\ e.r_buffer = s.r_buffer \o out
      /\ e.rdata = s.rdata /\ e.w_buffer = s.w_buffer /\ e.version = s.version
  BY DEF AfterRead, DSSESSION
<1>5. /\ q.inbox = left
      /\ q.answered = p.answered /\ q.dropped = p.dropped /\ q.lost = p.lost
      /\ q.sent = p.sent /\ q.entries = p.entries
  BY DEF PeerAfterRead, Peer
<1> HIDE DEF done, e, q
<1>6. out \in Seq(Message) /\ left \in Seq(Message) /\ p.inbox = out \o left
  BY <1>1, <1>2, SplitSeq
<1> HIDE DEF out, left
<1>7. /\ ids(p.inbox) = ids(out) \o ids(left)
      /\ ids(e.r_buffer) = ids(s.r_buffer) \o ids(out)
  BY <1>1, <1>4, <1>6, IdsConcat
<1>8. /\ ids(out) \in Seq(MessageId) /\ ids(left) \in Seq(MessageId)
      /\ ids(s.r_buffer) \in Seq(MessageId)
  BY <1>1, <1>6, IdsType
<1>9. /\ Items(ids(p.inbox)) = Items(ids(out)) \union Items(ids(left))
      /\ NoRepeat(ids(p.inbox)) <=>
            /\ NoRepeat(ids(out)) /\ NoRepeat(ids(left))
            /\ Items(ids(out)) \intersect Items(ids(left)) = {}
  BY <1>7, <1>8, ConcatItems
<1>10. /\ Items(ids(e.r_buffer)) = Items(ids(s.r_buffer)) \union Items(ids(out))
       /\ NoRepeat(ids(e.r_buffer)) <=>
             /\ NoRepeat(ids(s.r_buffer)) /\ NoRepeat(ids(out))
             /\ Items(ids(s.r_buffer)) \intersect Items(ids(out)) = {}
  BY <1>7, <1>8, ConcatItems
<1>11. SumUp(ids(p.inbox), ids(s.r_buffer), s.rdata, s.w_buffer, p.answered,
             p.dropped, p.lost, all)
  BY AccountedSums
<1> HIDE DEF all
<1>12. AllOf(ids(left), ids(e.r_buffer), s.rdata, s.w_buffer, p.answered)
         = AllOf(ids(p.inbox), ids(s.r_buffer), s.rdata, s.w_buffer, p.answered)
  BY <1>9, <1>10 DEF AllOf
<1>13. Apart(ids(left), ids(e.r_buffer), s.rdata, s.w_buffer, p.answered)
  BY <1>9, <1>10, <1>11 DEF SumUp, Apart
<1>14. SumUp(ids(left), ids(e.r_buffer), s.rdata, s.w_buffer, p.answered,
             p.dropped, p.lost, all)
  BY <1>11, <1>12, <1>13 DEF SumUp
<1>15. SumUp(ids(q.inbox), ids(e.r_buffer), e.rdata, e.w_buffer, q.answered,
             q.dropped, q.lost, Known(e, q))
  BY <1>4, <1>5, <1>14 DEF all, Known
<1> QED BY <1>3, <1>15, AccountedSums DEF e, q

\* LDAP_sess_decode moves the first message of the read buffer into rdata, to
\* the answers or to what is dropped.
LEMMA DecodeAccounted ==
    ASSUME NEW s \in DSSESSION, NEW p \in Peer, s.r_buffer # <<>>,
           Accounted(s, p)
    PROVE  /\ BelowLimit(s) => Accounted(AfterRequest(s), p)
           /\ \A torn \in BOOLEAN :
                 /\ PeerAnswered(s, p, torn) \in Peer
                 /\ Accounted(Consumed(s), PeerAnswered(s, p, torn))
                 /\ PeerMissed(s, p, torn) \in Peer
                 /\ Accounted(Consumed(s), PeerMissed(s, p, torn))
           /\ PeerAfterOther(s, p) \in Peer
           /\ Accounted(Consumed(s), PeerAfterOther(s, p))
<1> DEFINE x == Head(s.r_buffer).id
           t == Tail(s.r_buffer)
           c == Consumed(s)
           all == Known(s, p)
<1>1. /\ s.r_buffer \in Seq(Message) /\ s.rdata \in Seq(MessageId)
      /\ s.rdata \in Seq(RequestId) /\ p.answered \in Seq(MessageId)
      /\ p.dropped \subseteq RequestId /\ p.lost \subseteq RequestId
  BY RequestIds DEF Peer, DSSESSION
<1>2. /\ x \in MessageId /\ x \in RequestId
      /\ Items(ids(s.r_buffer)) = {x} \union Items(ids(t))
      /\ NoRepeat(ids(s.r_buffer)) => NoRepeat(ids(t)) /\ x \notin Items(ids(t))
  BY <1>1, IdsTail
<1>3. /\ c \in DSSESSION
      /\ c = [s EXCEPT !.r_buffer = t,
                       !.read_time = s.read_time /\ ~NothingLeft(s)]
  BY ConsumedSession
<1>4. /\ c.r_buffer = t /\ c.rdata = s.rdata /\ c.w_buffer = s.w_buffer
      /\ c.version = s.version
  BY <1>3 DEF DSSESSION
<1>5. SumUp(ids(p.inbox), ids(s.r_buffer), s.rdata, s.w_buffer, p.answered,
            p.dropped, p.lost, all)
  BY AccountedSums
<1> HIDE DEF x, t, c, all
<1>6. NoRepeat(ids(t)) /\ x \notin Items(ids(t))
  BY <1>2, <1>5 DEF SumUp, Apart
<1>7. BelowLimit(s) => Accounted(AfterRequest(s), p)
  <2> SUFFICES ASSUME BelowLimit(s) PROVE Accounted(AfterRequest(s), p)
    OBVIOUS
  <2> DEFINE e == AfterRequest(s)
             r == Append(s.rdata, x)
  <2>1. e \in DSSESSION
    BY RequestSound
  <2>2. e = [c EXCEPT !.concurrent_count = s.concurrent_count + 1, !.rdata = r]
    BY DEF AfterRequest, c, x
  <2>3. /\ e.r_buffer = t /\ e.rdata = r /\ e.w_buffer = s.w_buffer
        /\ e.version = s.version
    BY <1>3, <1>4, <2>2 DEF DSSESSION
  <2> HIDE DEF e
  <2>4. /\ Items(r) = Items(s.rdata) \union {x}
        /\ NoRepeat(r) <=> NoRepeat(s.rdata) /\ x \notin Items(s.rdata)
    BY <1>1, <1>2, AppendMore
  <2> HIDE DEF r
  <2>5. AllOf(ids(p.inbox), ids(t), r, s.w_buffer, p.answered)
          = AllOf(ids(p.inbox), ids(s.r_buffer), s.rdata, s.w_buffer, p.answered)
    BY <1>2, <2>4 DEF AllOf
  <2>6. Apart(ids(p.inbox), ids(t), r, s.w_buffer, p.answered)
    BY <1>2, <1>5, <1>6, <2>4 DEF SumUp, Apart
  <2>7. SumUp(ids(p.inbox), ids(t), r, s.w_buffer, p.answered, p.dropped, p.lost, all)
    BY <1>5, <2>5, <2>6 DEF SumUp
  <2>8. SumUp(ids(p.inbox), ids(e.r_buffer), e.rdata, e.w_buffer, p.answered,
              p.dropped, p.lost, Known(e, p))
    BY <2>3, <2>7 DEF all, Known
  <2> QED BY <2>1, <2>8, AccountedSums DEF e
<1>8. ASSUME NEW torn \in BOOLEAN
      PROVE  PeerAnswered(s, p, torn) \in Peer /\ Accounted(c, PeerAnswered(s, p, torn))
  <2> DEFINE q == PeerAnswered(s, p, torn)
             r == Append(p.answered, x)
  <2>1. /\ r \in Seq(MessageId)
        /\ Items(r) = Items(p.answered) \union {x}
        /\ NoRepeat(r) <=> NoRepeat(p.answered) /\ x \notin Items(p.answered)
    BY <1>1, <1>2, AppendMore
  <2>2. q = [p EXCEPT !.answered = r, !.torn = torn]
    BY DEF PeerAnswered, x
  <2> HIDE DEF q, r
  <2>3. /\ q \in Peer /\ q.inbox = p.inbox /\ q.answered = r
        /\ q.dropped = p.dropped /\ q.lost = p.lost
        /\ q.sent = p.sent /\ q.entries = p.entries
    BY <2>1, <2>2 DEF Peer
  <2>4. AllOf(ids(p.inbox), ids(t), s.rdata, s.w_buffer, r)
          = AllOf(ids(p.inbox), ids(s.r_buffer), s.rdata, s.w_buffer, p.answered)
    BY <1>2, <2>1 DEF AllOf
  <2>5. Apart(ids(p.inbox), ids(t), s.rdata, s.w_buffer, r)
    BY <1>2, <1>5, <1>6, <2>1 DEF SumUp, Apart
  <2>6. SumUp(ids(p.inbox), ids(t), s.rdata, s.w_buffer, r, p.dropped, p.lost, all)
    BY <1>5, <2>4, <2>5 DEF SumUp
  <2>7. SumUp(ids(q.inbox), ids(c.r_buffer), c.rdata, c.w_buffer, q.answered,
              q.dropped, q.lost, Known(c, q))
    BY <1>4, <2>3, <2>6 DEF all, Known
  <2> QED BY <1>3, <2>3, <2>7, AccountedSums DEF q
<1>9. /\ Apart(ids(p.inbox), ids(t), s.rdata, s.w_buffer, p.answered)
      /\ x \notin AllOf(ids(p.inbox), ids(t), s.rdata, s.w_buffer, p.answered)
      /\ x \notin p.dropped /\ x \notin p.lost
      /\ AllOf(ids(p.inbox), ids(s.r_buffer), s.rdata, s.w_buffer, p.answered)
           = AllOf(ids(p.inbox), ids(t), s.rdata, s.w_buffer, p.answered) \union {x}
  <2>1. Apart(ids(p.inbox), ids(t), s.rdata, s.w_buffer, p.answered)
    BY <1>2, <1>5, <1>6 DEF SumUp, Apart
  <2>2. x \notin AllOf(ids(p.inbox), ids(t), s.rdata, s.w_buffer, p.answered)
    BY <1>2, <1>5, <1>6 DEF SumUp, Apart, AllOf
  <2>3. x \notin p.dropped /\ x \notin p.lost
    BY <1>2, <1>5 DEF SumUp, AllOf
  <2>4. AllOf(ids(p.inbox), ids(s.r_buffer), s.rdata, s.w_buffer, p.answered)
          = AllOf(ids(p.inbox), ids(t), s.rdata, s.w_buffer, p.answered) \union {x}
    BY <1>2 DEF AllOf
  <2> QED BY <2>1, <2>2, <2>3, <2>4
<1>10. ASSUME NEW torn \in BOOLEAN
       PROVE  PeerMissed(s, p, torn) \in Peer /\ Accounted(c, PeerMissed(s, p, torn))
  <2> DEFINE q == PeerMissed(s, p, torn)
             r == p.lost \union {x}
  <2>1. q = [p EXCEPT !.lost = r, !.torn = torn] /\ r \subseteq RequestId
    BY <1>1, <1>2 DEF PeerMissed, x
  <2> HIDE DEF q
  <2>2. /\ q \in Peer /\ q.inbox = p.inbox /\ q.answered = p.answered
        /\ q.dropped = p.dropped /\ q.lost = r
        /\ q.sent = p.sent /\ q.entries = p.entries
    BY <2>1 DEF Peer
  <2>3. SumUp(ids(p.inbox), ids(t), s.rdata, s.w_buffer, p.answered, p.dropped, r, all)
    BY <1>5, <1>9 DEF SumUp
  <2>4. SumUp(ids(q.inbox), ids(c.r_buffer), c.rdata, c.w_buffer, q.answered,
              q.dropped, q.lost, Known(c, q))
    BY <1>4, <2>2, <2>3 DEF all, Known
  <2> QED BY <1>3, <2>2, <2>4, AccountedSums DEF q
<1>11. PeerAfterOther(s, p) \in Peer /\ Accounted(c, PeerAfterOther(s, p))
  <2> DEFINE q == PeerAfterOther(s, p)
             r == p.dropped \union {x}
  <2>1. q = [p EXCEPT !.dropped = r] /\ r \subseteq RequestId
    BY <1>1, <1>2 DEF PeerAfterOther, x
  <2> HIDE DEF q
  <2>2. /\ q \in Peer /\ q.inbox = p.inbox /\ q.answered = p.answered
        /\ q.dropped = r /\ q.lost = p.lost
        /\ q.sent = p.sent /\ q.entries = p.entries
    BY <2>1 DEF Peer
  <2>3. SumUp(ids(p.inbox), ids(t), s.rdata, s.w_buffer, p.answered, r, p.lost, all)
    BY <1>5, <1>9 DEF SumUp
  <2>4. SumUp(ids(q.inbox), ids(c.r_buffer), c.rdata, c.w_buffer, q.answered,
              q.dropped, q.lost, Known(c, q))
    BY <1>4, <2>2, <2>3 DEF all, Known
  <2> QED BY <1>3, <2>2, <2>4, AccountedSums DEF q
<1> QED BY <1>7, <1>8, <1>10, <1>11 DEF c

\* At the limit the peer has sent more requests than the limit: the ones that
\* the application has, and the one that is refused.
LEMMA PastLimit ==
    ASSUME NEW s \in DSSESSION, NEW p \in Peer, s.r_buffer # <<>>,
           Accounted(s, p), WithinLimit(s, p), ~BelowLimit(s)
    PROVE  p.sent > max_concurrent
<1> DEFINE x == Head(s.r_buffer).id
           v == s.version
           n == p.sent
           l == Len(s.rdata)
           I == 1..n
           T == {v} \X I
           f == [i \in I |-> <<v, i>>]
<1>1. /\ s.r_buffer \in Seq(Message) /\ s.rdata \in Seq(RequestId)
      /\ s.concurrent_count \in Int /\ p.entries \in Nat /\ n \in Nat /\ l \in Nat
  BY DEF DSSESSION, Peer
<1>2. x \in RequestId /\ x \in Items(ids(s.r_buffer))
  BY <1>1, IdsTail
<1>3. SumUp(ids(p.inbox), ids(s.r_buffer), s.rdata, s.w_buffer, p.answered,
            p.dropped, p.lost, Known(s, p))
  BY AccountedSums
<1>4. /\ NoRepeat(s.rdata) /\ x \notin Items(s.rdata)
      /\ x \in Known(s, p) /\ Items(s.rdata) \subseteq Known(s, p)
  BY <1>2, <1>3 DEF SumUp, Apart, AllOf
<1>5. ASSUME NEW y \in RequestId, y \in Known(s, p) PROVE y \in T
  <2>1. PICK a \in Nat, b \in Nat \ {0} : y = <<a, b>>
    BY DEF RequestId
  <2>2. a = v /\ b \in -p.entries..n
    BY <1>5, <2>1 DEF Known
  <2>3. b \in I
    BY <1>1, <2>2
  <2> QED BY <2>1, <2>2, <2>3
<1>6. Items(s.rdata) \subseteq RequestId
  BY <1>1 DEF Items
<1> HIDE DEF x, T
<1>7. Items(s.rdata) \union {x} \subseteq T
  BY <1>2, <1>4, <1>5, <1>6
<1>8. IsFiniteSet(I) /\ Cardinality(I) = n
  <2>1. \A a, b \in Int :
           /\ IsFiniteSet(a..b)
           /\ Cardinality(a..b) = IF a > b THEN 0 ELSE b - a + 1
    BY ONLY FS_Interval
  <2>2. 1 \in Int /\ n \in Int /\ (IF 1 > n THEN 0 ELSE n - 1 + 1) = n
    BY ONLY <1>1
  <2>3. IsFiniteSet(1..n) /\ Cardinality(1..n) = IF 1 > n THEN 0 ELSE n - 1 + 1
    BY ONLY <2>1, <2>2
  <2> QED BY ONLY <2>2, <2>3 DEF I
<1>9. IsFiniteSet(T) /\ Cardinality(T) = n
  <2>1. f \in [I -> T]
    BY DEF T
  <2>2. \A i, j \in I : f[i] = f[j] => i = j
    OBVIOUS
  <2>3. \A y \in T : \E i \in I : f[i] = y
    BY DEF T
  <2> HIDE DEF I, f
  <2>4. IsFiniteSet(T) /\ Cardinality(T) = Cardinality(I)
    BY <1>8, <2>1, <2>2, <2>3, SameCount
  <2> QED BY <1>8, <2>4
<1>10. IsFiniteSet(Items(s.rdata)) /\ Cardinality(Items(s.rdata)) = l
  BY <1>1, <1>4, ItemsCount
<1>11. l + 1 <= n
  <2> DEFINE R == Items(s.rdata)
             S == R \union {x}
  <2>1. IsFiniteSet(R) /\ Cardinality(R) = l /\ x \notin R /\ S \subseteq T
    BY <1>4, <1>7, <1>10
  <2> HIDE DEF R, l, n
  <2>2. Cardinality(S) = l + 1
    BY <2>1, FS_AddElement
  <2> HIDE DEF S
  <2>3. Cardinality(S) <= Cardinality(T)
    BY <1>9, <2>1, FS_Subset
  <2> QED BY <1>9, <2>2, <2>3
<1>12. s.concurrent_count = l - p.entries /\ ~(s.concurrent_count < max_concurrent)
  BY DEF WithinLimit, BelowLimit
<1> HIDE DEF l, n
<1>13. max_concurrent \in Nat
  BY ServerAssumption
<1>14. n > max_concurrent
  BY <1>1, <1>11, <1>12, <1>13
<1> QED BY <1>14 DEF n

\* LDAP_sess_decode keeps what is said of the limit when it refuses a message.
LEMMA PeerOverLimitSound ==
    ASSUME NEW s \in DSSESSION, NEW p \in Peer, s.r_buffer # <<>>,
           Accounted(s, p), SessionSound(s, p), ~BelowLimit(s), NEW torn \in BOOLEAN
    PROVE  /\ SessionSound(Consumed(s), PeerAnswered(s, p, torn))
           /\ SessionSound(Consumed(s), PeerMissed(s, p, torn))
<1> DEFINE c == Consumed(s)
           a == PeerAnswered(s, p, torn)
           m == PeerMissed(s, p, torn)
<1>1. SessionSound(c, p)
  BY ConsumedSound
<1>2. p.sent > max_concurrent
  BY PastLimit DEF SessionSound
<1>3. a.entries = p.entries /\ a.sent = p.sent
  BY DEF PeerAnswered, Peer
<1>4. m.entries = p.entries /\ m.sent = p.sent
  BY DEF PeerMissed, Peer
<1> HIDE DEF c, a, m
<1>5. WithinLimit(c, a) /\ WithinLimit(c, m)
  BY <1>1, <1>2, <1>3, <1>4 DEF SessionSound, WithinLimit
<1> QED BY <1>1, <1>5 DEF SessionSound, c, a, m

\* And when the message is not for the application.
LEMMA PeerOtherSound ==
    ASSUME NEW s \in DSSESSION, NEW p \in Peer, s.r_buffer # <<>>, SessionSound(s, p)
    PROVE  SessionSound(Consumed(s), PeerAfterOther(s, p))
<1> DEFINE c == Consumed(s)
           q == PeerAfterOther(s, p)
<1>1. SessionSound(c, p)
  BY ConsumedSound
<1>2. q.entries = p.entries /\ q.sent = p.sent /\ q.torn = p.torn /\ q.lost = p.lost
  BY DEF PeerAfterOther, Peer
<1> HIDE DEF c, q
<1>3. Alike(c, p, c, q)
  BY <1>2 DEF Alike
<1> QED BY <1>1, <1>3, AlikeWithin DEF SessionSound, c, q

\* A result moves from rdata into the write buffer.
LEMMA ResultAccounted ==
    ASSUME NEW s \in DSSESSION, NEW p \in Peer, NEW m \in Items(s.rdata),
           Accounted(s, p)
    PROVE  Accounted(AfterResult(s, m), p)
<1> DEFINE e == AfterResult(s, m)
           r == Delete(s.rdata, m)
           w == Append(s.w_buffer, m)
           all == Known(s, p)
<1>1. s.rdata \in Seq(MessageId) /\ s.w_buffer \in Seq(MessageId)
  BY RequestIds DEF DSSESSION
<1>2. m \in MessageId
  BY <1>1 DEF Items
<1>3. e \in DSSESSION
  BY ResultSound
<1>4. /\ e.r_buffer = s.r_buffer /\ e.rdata = r /\ e.w_buffer = w
      /\ e.version = s.version
  BY DEF AfterResult, DSSESSION
<1>5. SumUp(ids(p.inbox), ids(s.r_buffer), s.rdata, s.w_buffer, p.answered,
            p.dropped, p.lost, all)
  BY AccountedSums
<1> HIDE DEF e, all
<1>6. NoRepeat(s.rdata)
  BY <1>5 DEF SumUp, Apart
<1>7. NoRepeat(r) /\ Items(r) = Items(s.rdata) \ {m}
  BY <1>1, <1>6, DeleteItems
<1>8. /\ Items(w) = Items(s.w_buffer) \union {m}
      /\ NoRepeat(w) <=> NoRepeat(s.w_buffer) /\ m \notin Items(s.w_buffer)
  BY <1>1, <1>2, AppendMore
<1> HIDE DEF r, w
<1>9. AllOf(ids(p.inbox), ids(s.r_buffer), r, w, p.answered)
        = AllOf(ids(p.inbox), ids(s.r_buffer), s.rdata, s.w_buffer, p.answered)
  BY <1>7, <1>8 DEF AllOf
<1>10. Apart(ids(p.inbox), ids(s.r_buffer), r, w, p.answered)
  BY <1>5, <1>7, <1>8 DEF SumUp, Apart
<1>11. SumUp(ids(p.inbox), ids(s.r_buffer), r, w, p.answered, p.dropped, p.lost, all)
  BY <1>5, <1>9, <1>10 DEF SumUp
<1>12. SumUp(ids(p.inbox), ids(e.r_buffer), e.rdata, e.w_buffer, p.answered,
             p.dropped, p.lost, Known(e, p))
  BY <1>4, <1>11 DEF all, Known
<1> QED BY <1>3, <1>12, AccountedSums DEF e

\* The entries of a session are numbered one by one.
LEMMA OneMoreEntry ==
    ASSUME NEW v, NEW k \in Nat, NEW n \in Nat
    PROVE  /\ {v} \X ((-(k + 1)..n) \ {0})
                = ({v} \X ((-k..n) \ {0})) \union {<<v, -(k + 1)>>}
           /\ <<v, -(k + 1)>> \notin {v} \X ((-k..n) \ {0})
<1> DEFINE I == (-k..n) \ {0}
           J == (-(k + 1)..n) \ {0}
           h == -(k + 1)
<1>1. J = I \union {h} /\ h \notin I
  OBVIOUS
<1> HIDE DEF I, J, h
<1>2. {v} \X (I \union {h}) = ({v} \X I) \union {<<v, h>>}
  OBVIOUS
<1>3. h \notin I => <<v, h>> \notin {v} \X I
  OBVIOUS
<1> QED BY <1>1, <1>2, <1>3 DEF I, J, h

\* The messages of a session are numbered one by one.
LEMMA OneMoreRequest ==
    ASSUME NEW v, NEW k \in Nat, NEW n \in Nat
    PROVE  /\ {v} \X ((-k..(n + 1)) \ {0})
                = ({v} \X ((-k..n) \ {0})) \union {<<v, n + 1>>}
           /\ <<v, n + 1>> \notin {v} \X ((-k..n) \ {0})
<1> DEFINE I == (-k..n) \ {0}
           J == (-k..(n + 1)) \ {0}
           h == n + 1
<1>1. J = I \union {h} /\ h \notin I
  OBVIOUS
<1> HIDE DEF I, J, h
<1>2. {v} \X (I \union {h}) = ({v} \X I) \union {<<v, h>>}
  OBVIOUS
<1>3. h \notin I => <<v, h>> \notin {v} \X I
  OBVIOUS
<1> QED BY <1>1, <1>2, <1>3 DEF I, J, h

\* An entry is new in the write buffer.
LEMMA EntryAccounted ==
    ASSUME NEW s \in DSSESSION, NEW p \in Peer, s.rdata # <<>>, Accounted(s, p)
    PROVE  Accounted(AfterEntry(s, p), PeerAfterEntry(p))
<1> DEFINE e == AfterEntry(s, p)
           q == PeerAfterEntry(p)
           x == EntryId(s, p)
           w == Append(s.w_buffer, x)
           all == Known(s, p)
<1>1. /\ s.w_buffer \in Seq(MessageId) /\ x \in MessageId
      /\ p.entries \in Nat /\ p.sent \in Nat
  BY EntrySound DEF DSSESSION, Peer
<1>2. e \in DSSESSION /\ q \in Peer
  BY EntrySound
<1>3. /\ e.r_buffer = s.r_buffer /\ e.rdata = s.rdata /\ e.w_buffer = w
      /\ e.version = s.version
  BY DEF AfterEntry, DSSESSION
<1>4. /\ q.inbox = p.inbox /\ q.answered = p.answered /\ q.dropped = p.dropped
      /\ q.lost = p.lost /\ q.sent = p.sent /\ q.entries = p.entries + 1
  BY DEF PeerAfterEntry, Peer
<1>5. x \notin all /\ Known(e, q) = all \union {x}
  BY <1>1, <1>3, <1>4, OneMoreEntry DEF Known, EntryId
<1>6. SumUp(ids(p.inbox), ids(s.r_buffer), s.rdata, s.w_buffer, p.answered,
            p.dropped, p.lost, all)
  BY AccountedSums
<1> HIDE DEF e, q, x, all
<1>7. /\ Items(w) = Items(s.w_buffer) \union {x}
      /\ NoRepeat(w) <=> NoRepeat(s.w_buffer) /\ x \notin Items(s.w_buffer)
  BY <1>1, AppendMore
<1> HIDE DEF w
<1>8. /\ x \notin AllOf(ids(p.inbox), ids(s.r_buffer), s.rdata, s.w_buffer, p.answered)
      /\ x \notin p.dropped /\ x \notin p.lost
  BY <1>5, <1>6 DEF SumUp
<1>9. AllOf(ids(p.inbox), ids(s.r_buffer), s.rdata, w, p.answered)
        = AllOf(ids(p.inbox), ids(s.r_buffer), s.rdata, s.w_buffer, p.answered)
            \union {x}
  BY <1>7 DEF AllOf
<1>10. Apart(ids(p.inbox), ids(s.r_buffer), s.rdata, w, p.answered)
  BY <1>6, <1>7, <1>8 DEF SumUp, Apart, AllOf
<1>11. SumUp(ids(p.inbox), ids(s.r_buffer), s.rdata, w, p.answered, p.dropped, p.lost,
             all \union {x})
  BY <1>6, <1>8, <1>9, <1>10 DEF SumUp
<1>12. SumUp(ids(q.inbox), ids(e.r_buffer), e.rdata, e.w_buffer, q.answered,
             q.dropped, q.lost, Known(e, q))
  BY <1>3, <1>4, <1>5, <1>11
<1> QED BY <1>2, <1>12, AccountedSums DEF e, q

\* LDAP_sess_write moves messages from the write buffer to the answers.
LEMMA WriteAccounted ==
    ASSUME NEW s \in DSSESSION, NEW p \in Peer, NEW sent \in Nat,
           sent <= MSG_LEN * Len(s.w_buffer), Accounted(s, p)
    PROVE  Accounted(AfterWrite(s, sent), PeerAfterWrite(s, p, sent))
<1> DEFINE done == sent \div MSG_LEN
           out == SubSeq(s.w_buffer, 1, done)
           left == SubSeq(s.w_buffer, done + 1, Len(s.w_buffer))
           e == AfterWrite(s, sent)
           q == PeerAfterWrite(s, p, sent)
           f == p.answered \o out
           all == Known(s, p)
<1>1. /\ s.w_buffer \in Seq(MessageId) /\ Len(s.w_buffer) \in Nat
      /\ p.answered \in Seq(MessageId)
  BY DEF Peer, DSSESSION
<1>2. done \in 0..Len(s.w_buffer)
  BY <1>1, ServerAssumption, WholeItems
<1>3. e \in DSSESSION /\ q \in Peer
  BY WriteSound
<1>4. /\ e.w_buffer = left
      /\ e.rdata = s.rdata /\ e.r_buffer = s.r_buffer /\ e.version = s.version
  BY DEF AfterWrite, DSSESSION
<1>5. /\ q.answered = f
      /\ q.inbox = p.inbox /\ q.dropped = p.dropped /\ q.lost = p.lost
      /\ q.sent = p.sent /\ q.entries = p.entries
  BY DEF PeerAfterWrite, Peer
<1> HIDE DEF done, e, q
<1>6. /\ out \in Seq(MessageId) /\ left \in Seq(MessageId)
      /\ s.w_buffer = out \o left
  BY <1>1, <1>2, SplitSeq
<1> HIDE DEF out, left
<1>7. /\ Items(s.w_buffer) = Items(out) \union Items(left)
      /\ NoRepeat(s.w_buffer) <=>
            /\ NoRepeat(out) /\ NoRepeat(left)
            /\ Items(out) \intersect Items(left) = {}
  BY <1>6, ConcatItems
<1>8. /\ Items(f) = Items(p.answered) \union Items(out)
      /\ NoRepeat(f) <=>
            /\ NoRepeat(p.answered) /\ NoRepeat(out)
            /\ Items(p.answered) \intersect Items(out) = {}
  BY <1>1, <1>6, ConcatItems
<1>9. SumUp(ids(p.inbox), ids(s.r_buffer), s.rdata, s.w_buffer, p.answered,
            p.dropped, p.lost, all)
  BY AccountedSums
<1> HIDE DEF all, f
<1>10. AllOf(ids(p.inbox), ids(s.r_buffer), s.rdata, left, f)
         = AllOf(ids(p.inbox), ids(s.r_buffer), s.rdata, s.w_buffer, p.answered)
  BY <1>7, <1>8 DEF AllOf
<1>11. Apart(ids(p.inbox), ids(s.r_buffer), s.rdata, left, f)
  BY <1>7, <1>8, <1>9 DEF SumUp, Apart
<1>12. SumUp(ids(p.inbox), ids(s.r_buffer), s.rdata, left, f, p.dropped, p.lost, all)
  BY <1>9, <1>10, <1>11 DEF SumUp
<1>13. SumUp(ids(q.inbox), ids(e.r_buffer), e.rdata, e.w_buffer, q.answered,
             q.dropped, q.lost, Known(e, q))
  BY <1>4, <1>5, <1>12 DEF all, Known
<1> QED BY <1>3, <1>13, AccountedSums DEF e, q

\* The message that the peer sends is a new one.
LEMMA PeerAccounted ==
    ASSUME NEW s \in DSSESSION, NEW p \in Peer,
           NEW k \in Kind
    PROVE  /\ PeerAfterSend(s, p, k) \in Peer
           /\ Accounted(s, p) => Accounted(s, PeerAfterSend(s, p, k))
           /\ SessionSound(s, p) => SessionSound(s, PeerAfterSend(s, p, k))
<1> DEFINE x == <<s.version, p.sent + 1>>
           m == [id |-> x, kind |-> k]
           b == Append(p.inbox, m)
           q == PeerAfterSend(s, p, k)
           all == Known(s, p)
<1>1. /\ s.version \in Nat /\ p.sent \in Nat /\ p.entries \in Nat
      /\ p.inbox \in Seq(Message)
  BY DEF DSSESSION, Peer
<1>2. x \in RequestId /\ x \in MessageId
  BY <1>1 DEF RequestId, MessageId
<1>3. m \in Message /\ m.id = x
  BY <1>2 DEF Message
<1>4. q = [p EXCEPT !.sent = p.sent + 1, !.inbox = b]
  BY DEF PeerAfterSend
<1> HIDE DEF m
<1>5. b \in Seq(Message) /\ b = p.inbox \o <<m>>
  BY <1>1, <1>3, AppendIsConcat, AppendProperties
<1>6. q \in Peer
  <2>1. p.sent + 1 \in Nat
    BY <1>1
  <2> QED BY <1>4, <1>5, <2>1 DEF Peer
<1>7. /\ q.inbox = b /\ q.answered = p.answered /\ q.dropped = p.dropped
      /\ q.lost = p.lost /\ q.torn = p.torn /\ q.entries = p.entries
      /\ q.sent = p.sent + 1
  BY <1>4 DEF Peer
<1> HIDE DEF q, b, x
<1>8. ids(<<m>>) = <<x>>
  <2>1. Len(<<m>>) = 1 /\ <<m>>[1] = m
    OBVIOUS
  <2>2. ids(<<m>>) = [n \in 1..1 |-> <<m>>[n].id]
    BY <2>1 DEF ids
  <2>3. ids(<<m>>) \in Seq(MessageId) /\ Len(ids(<<m>>)) = 1
    <3>1. <<m>> \in Seq(Message)
      BY <1>3
    <3> QED BY <2>1, <3>1, IdsType
  <2>5. ids(<<m>>)[1] = x
    <3>1. 1 \in 1..1
      OBVIOUS
    <3> QED BY <1>3, <2>1, <2>2, <3>1
  <2>4. <<x>> \in Seq(MessageId) /\ Len(<<x>>) = 1 /\ <<x>>[1] = x
    BY <1>2
  <2> QED BY <2>3, <2>4, <2>5, SeqEqual
<1>9. ids(b) = ids(p.inbox) \o <<x>> /\ ids(p.inbox) \in Seq(MessageId)
  <2> DEFINE o == <<m>>
             l == p.inbox
  <2>1. o \in Seq(Message) /\ l \in Seq(Message) /\ b = l \o o /\ ids(o) = <<x>>
    BY <1>1, <1>3, <1>5, <1>8
  <2> HIDE DEF o, l
  <2>2. ids(l) \in Seq(MessageId) /\ ids(l \o o) = ids(l) \o ids(o)
    BY <2>1, IdsConcat, IdsType
  <2> QED BY <2>1, <2>2 DEF l
<1>10. ids(b) = Append(ids(p.inbox), x)
  BY <1>2, <1>9, AppendIsConcat
<1>11. /\ Items(ids(b)) = Items(ids(p.inbox)) \union {x}
       /\ NoRepeat(ids(b)) <=> NoRepeat(ids(p.inbox)) /\ x \notin Items(ids(p.inbox))
  <2> DEFINE l == ids(p.inbox)
  <2>1. l \in Seq(MessageId)
    BY <1>9
  <2> HIDE DEF l
  <2>2. /\ Items(Append(l, x)) = Items(l) \union {x}
        /\ NoRepeat(Append(l, x)) <=> NoRepeat(l) /\ x \notin Items(l)
    BY <1>2, <2>1, AppendMore
  <2> QED BY <1>10, <2>2 DEF l
<1>12. x \notin all /\ Known(s, q) = all \union {x}
  BY <1>1, <1>7, OneMoreRequest DEF Known, x
<1>13. SessionSound(s, p) => SessionSound(s, q)
  <2> SUFFICES ASSUME SessionSound(s, p) PROVE WithinLimit(s, q)
    BY DEF SessionSound
  <2>1. max_concurrent \in Nat
    BY ServerAssumption
  <2> QED BY <1>1, <1>7, <2>1 DEF SessionSound, WithinLimit
<1> SUFFICES ASSUME Accounted(s, p) PROVE Accounted(s, q)
  BY <1>6, <1>13 DEF q
<1>14. SumUp(ids(p.inbox), ids(s.r_buffer), s.rdata, s.w_buffer, p.answered,
            p.dropped, p.lost, all)
  BY AccountedSums
<1> HIDE DEF all
<1>15. x \notin AllOf(ids(p.inbox), ids(s.r_buffer), s.rdata, s.w_buffer, p.answered)
       /\ x \notin p.dropped /\ x \notin p.lost
  <2> DEFINE A == AllOf(ids(p.inbox), ids(s.r_buffer), s.rdata, s.w_buffer, p.answered)
  <2>1. A \union p.dropped \union p.lost = all
    BY ONLY <1>14 DEF SumUp
  <2> HIDE DEF A
  <2>2. x \notin A /\ x \notin p.dropped /\ x \notin p.lost
    BY ONLY <1>12, <2>1
  <2> QED BY <2>2 DEF A
<1>16. AllOf(ids(b), ids(s.r_buffer), s.rdata, s.w_buffer, p.answered)
         = AllOf(ids(p.inbox), ids(s.r_buffer), s.rdata, s.w_buffer, p.answered)
             \union {x}
  BY <1>11 DEF AllOf
<1>17. Apart(ids(b), ids(s.r_buffer), s.rdata, s.w_buffer, p.answered)
  BY <1>11, <1>14, <1>15 DEF SumUp, Apart, AllOf
<1>18. SumUp(ids(b), ids(s.r_buffer), s.rdata, s.w_buffer, p.answered, p.dropped, p.lost,
             all \union {x})
  BY <1>14, <1>15, <1>16, <1>17 DEF SumUp
<1>19. SumUp(ids(q.inbox), ids(s.r_buffer), s.rdata, s.w_buffer, q.answered,
             q.dropped, q.lost, Known(s, q))
  BY <1>7, <1>12, <1>18
<1> QED BY <1>6, <1>19, AccountedSums

\* A new session has got nothing yet.
LEMMA NewAccounted ==
    ASSUME NEW v \in Nat
    PROVE  Accounted(NewSession(v), NewPeer)
<1> DEFINE s == NewSession(v)
           p == NewPeer
<1>1. s \in DSSESSION /\ p \in Peer
  BY NewSound
<1>2. /\ s.r_buffer = <<>> /\ s.rdata = <<>> /\ s.w_buffer = <<>>
      /\ p.inbox = <<>> /\ p.answered = <<>> /\ p.dropped = {} /\ p.lost = {}
      /\ p.sent = 0 /\ p.entries = 0
  BY DEF NewSession, NewPeer
<1>3. ids(<<>>) = <<>>
  BY DEF ids
<1>4. Apart(<<>>, <<>>, <<>>, <<>>, <<>>) /\ AllOf(<<>>, <<>>, <<>>, <<>>, <<>>) = {}
  BY EmptyItems DEF Apart, AllOf
<1>5. Known(s, p) = {}
  <2>1. (-0..0) \ {0} = {}
    OBVIOUS
  <2> QED BY <1>2, <2>1 DEF Known
<1>6. SumUp(ids(p.inbox), ids(s.r_buffer), s.rdata, s.w_buffer, p.answered,
            p.dropped, p.lost, Known(s, p))
  BY <1>2, <1>3, <1>4, <1>5 DEF SumUp
<1> QED BY <1>1, <1>6, AccountedSums

-----------------------------------------------------------------------------
(* The invariant and its theorems.                                         *)

\* What holds of a session in use and its peer.
Sound(i) == SessionSound(session[i], peer[i]) /\ Accounted(session[i], peer[i])

\* What a step needs to keep the properties: the table makes the close reach
\* every session, the types make the buffers lists.
ServerInv == TypeOK /\ TableInv /\ \A i \in used : Sound(i)

\* A call for one session keeps the invariant when the new records of the
\* session keep what is said of them.
LEMMA BecomesSound ==
    ASSUME ServerInv, NEW i \in Slot, NEW e \in DSSESSION, NEW q \in Peer,
           Becomes(i, e, q),
           i \in used => SessionSound(e, q) /\ Accounted(e, q)
    PROVE  ServerInv'
<1>1. TypeOK /\ TableInv /\ \A j \in used : Sound(j)
  BY DEF ServerInv
<1>2. UNCHANGED <<listening, used, last_session, session_count, version>>
  BY DEF Becomes, table
<1>3. session \in [Slot -> DSSESSION] /\ peer \in [Slot -> Peer] /\ used \subseteq Slot
  BY <1>1 DEF TypeOK
<1>4. /\ session' \in [Slot -> DSSESSION] /\ peer' \in [Slot -> Peer]
      /\ session'[i] = e /\ peer'[i] = q
      /\ \A j \in Slot \ {i} : session'[j] = session[j] /\ peer'[j] = peer[j]
  BY <1>3 DEF Becomes
<1>5. TypeOK'
  BY <1>1, <1>2, <1>4 DEF TypeOK
<1>6. TableInv'
  BY <1>1, <1>2, SameTable
<1>7. ASSUME NEW j \in used' PROVE Sound(j)'
  <2>1. CASE j = i
    BY <1>2, <1>4, <2>1 DEF Sound
  <2>2. CASE j # i
    <3>1. session'[j] = session[j] /\ peer'[j] = peer[j] /\ Sound(j)
      BY <1>1, <1>2, <1>3, <1>4, <2>2
    <3> QED BY <3>1 DEF Sound
  <2> QED BY <2>1, <2>2
<1> QED BY <1>5, <1>6, <1>7 DEF ServerInv

\* The records of a slot have their types, and those of a session are sound.
LEMMA RecordsOf ==
    ASSUME ServerInv, NEW i \in Slot
    PROVE  /\ session[i] \in DSSESSION /\ peer[i] \in Peer
           /\ i \in used => Sound(i)
BY DEF ServerInv, TypeOK, Sound

\* The buffers of a closed session are empty.
LEMMA FreedType ==
    ASSUME NEW s \in DSSESSION
    PROVE  Freed(s) \in DSSESSION
<1>1. <<>> \in Seq(Message) /\ <<>> \in Seq(MessageId) /\ 0 \in Nat
  OBVIOUS
<1>2. DEFINE e == <<>>
<1>3. Freed(s) = [s EXCEPT !.r_used = FALSE, !.r_buffer = e, !.r_part = 0,
                           !.w_used = FALSE, !.w_buffer = e]
  BY DEF Freed
<1> HIDE DEF e
<1>4. e \in Seq(Message) /\ e \in Seq(MessageId)
  BY <1>1 DEF e
<1> QED BY <1>1, <1>3, <1>4 DEF DSSESSION

\* LDAP_sess_open
LEMMA OpenSound ==
    ASSUME ServerInv, LDAP_sess_open
    PROVE  ServerInv'
<1> DEFINE f == FirstFree
<1>1. TypeOK /\ TableInv /\ \A j \in used : Sound(j)
  BY DEF ServerInv
<1>2. f \in Slot \ used
  BY <1>1, FirstFreeIsFree DEF LDAP_sess_open, TypeOK
<1>3. /\ used' = used \union {f}
      /\ session' = [session EXCEPT ![f] = NewSession(version + 1)]
      /\ peer' = [peer EXCEPT ![f] = NewPeer]
      /\ last_session' = IF last_session < f THEN f ELSE last_session
      /\ version' = version + 1
      /\ session_count' = session_count + 1
      /\ listening' = listening
  BY DEF LDAP_sess_open
<1> HIDE DEF f
<1>4. version \in Nat /\ version + 1 \in Nat /\ session_count + 1 \in Int
  BY <1>1 DEF TypeOK
<1>5. /\ NewSession(version + 1) \in DSSESSION /\ NewPeer \in Peer
      /\ SessionSound(NewSession(version + 1), NewPeer)
      /\ Accounted(NewSession(version + 1), NewPeer)
  BY <1>4, NewSound, NewAccounted
<1>6. /\ session' \in [Slot -> DSSESSION] /\ peer' \in [Slot -> Peer]
      /\ session'[f] = NewSession(version + 1) /\ peer'[f] = NewPeer
      /\ \A j \in Slot \ {f} : session'[j] = session[j] /\ peer'[j] = peer[j]
  BY <1>1, <1>2, <1>3, <1>5 DEF TypeOK
<1>7. TypeOK'
  BY <1>1, <1>2, <1>3, <1>4, <1>6 DEF TypeOK
<1>8. TableInv'
  BY <1>1, OpenTable
<1>9. ASSUME NEW j \in used' PROVE Sound(j)'
  <2>1. CASE j = f
    BY <1>5, <1>6, <2>1 DEF Sound
  <2>2. CASE j # f
    <3>1. session'[j] = session[j] /\ peer'[j] = peer[j] /\ Sound(j)
      BY <1>1, <1>3, <1>6, <2>2 DEF TypeOK
    <3> QED BY <3>1 DEF Sound
  <2> QED BY <2>1, <2>2
<1> QED BY <1>7, <1>8, <1>9 DEF ServerInv

\* LDAP_sess_close touches no other session.
LEMMA CloseSound ==
    ASSUME ServerInv, NEW no \in Slot, LDAP_sess_close(no)
    PROVE  ServerInv'
<1>1. TypeOK /\ TableInv /\ \A j \in used : Sound(j)
  BY DEF ServerInv
<1>2. TableInv'
  BY <1>1, CloseTable
<1>3. /\ used' \subseteq used /\ session_count' \in Int
      /\ session' \in [Slot -> DSSESSION]
      /\ \A j \in used' : session'[j] = session[j]
  <2>1. session \in [Slot -> DSSESSION] /\ used \subseteq Slot /\ session_count \in Int
    BY <1>1 DEF TypeOK
  <2>2. Freed(session[no]) \in DSSESSION
    BY <2>1, FreedType
  <2>3. CASE /\ no \in used
             /\ used' = used \ {no}
             /\ session' = [session EXCEPT ![no] = Freed(@)]
             /\ session_count' = session_count - 1
    BY <2>1, <2>2, <2>3
  <2>4. CASE UNCHANGED <<used, session, session_count>>
    BY <2>1, <2>4
  <2> QED BY <2>3, <2>4 DEF LDAP_sess_close
<1>4. UNCHANGED <<listening, version, peer>>
  BY DEF LDAP_sess_close
<1>5. last_session' \in Slot \union {-1}
  <2>1. used' \subseteq Slot
    BY <1>1, <1>3 DEF TypeOK
  <2> QED BY <1>2, <2>1 DEF TableInv, LastSessionIsLast
<1>6. TypeOK'
  BY <1>1, <1>3, <1>4, <1>5 DEF TypeOK
<1>7. ASSUME NEW j \in used' PROVE Sound(j)'
  BY <1>1, <1>3, <1>4 DEF Sound
<1> QED BY <1>2, <1>6, <1>7 DEF ServerInv

\* LDAP_svr_close leaves no session.
LEMMA SvrCloseSound ==
    ASSUME ServerInv, LDAP_svr_close
    PROVE  ServerInv'
<1>1. TypeOK /\ TableInv
  BY DEF ServerInv
<1>2. TableInv' /\ used' = {}
  BY <1>1, SvrCloseTable
<1>3. session' \in [Slot -> DSSESSION]
  <2>1. \A i \in Slot : session[i] \in DSSESSION /\ Freed(session[i]) \in DSSESSION
    BY <1>1, FreedType DEF TypeOK
  <2> QED BY <2>1 DEF LDAP_svr_close
<1>4. /\ last_session' = -1 /\ session_count' = 0 /\ listening' = FALSE
      /\ version' = version /\ peer' = peer
  BY DEF LDAP_svr_close
<1>5. /\ used' \subseteq Slot
      /\ last_session' \in Slot \union {-1} /\ session_count' \in Int
  BY <1>2, <1>4
<1>6. listening' \in BOOLEAN
  BY <1>4
<1>7. TypeOK'
  BY <1>1, <1>3, <1>4, <1>5, <1>6 DEF TypeOK
<1> QED BY <1>2, <1>7 DEF ServerInv

\* RecvBind and a read that fails change neither buffers nor requests.
LEMMA BindSound ==
    ASSUME ServerInv, NEW i \in Slot, RecvBind(i) \/ ReadFails(i)
    PROVE  ServerInv'
<1> DEFINE s == session[i]
<1>1. /\ s \in DSSESSION /\ peer[i] \in Peer
      /\ i \in used => SessionSound(s, peer[i]) /\ Accounted(s, peer[i])
  BY RecordsOf DEF Sound
<1>2. session \in [Slot -> DSSESSION] /\ peer \in [Slot -> Peer]
  BY DEF ServerInv, TypeOK
<1>3. peer' = [peer EXCEPT ![i] = peer[i]] /\ UNCHANGED table
  BY <1>2 DEF RecvBind, ReadFails
<1>4. PICK e \in DSSESSION :
        /\ session' = [session EXCEPT ![i] = e]
        /\ e.r_used = s.r_used \/ e.r_used
        /\ e.r_buffer = s.r_buffer /\ e.r_part = s.r_part
        /\ e.read_time = s.read_time /\ e.w_used = s.w_used
        /\ e.w_buffer = s.w_buffer /\ e.write_time = s.write_time
        /\ e.concurrent_count = s.concurrent_count /\ e.rdata = s.rdata
        /\ e.version = s.version
  <2>1. CASE RecvBind(i)
    <3> DEFINE e == [s EXCEPT !.state = "READY"]
    <3>1. session' = [session EXCEPT ![i] = e]
      BY <1>2, <2>1 DEF RecvBind
    <3>2. e \in DSSESSION
      BY <1>1 DEF DSSESSION
    <3> QED BY <1>1, <3>1, <3>2 DEF DSSESSION
  <2>2. CASE ReadFails(i)
    <3> DEFINE e == [s EXCEPT !.r_used = TRUE]
    <3>1. session' = [session EXCEPT ![i] = e]
      BY <1>2, <2>2 DEF ReadFails
    <3>2. e \in DSSESSION
      BY <1>1 DEF DSSESSION
    <3> QED BY <1>1, <3>1, <3>2 DEF DSSESSION
  <2> QED BY <2>1, <2>2
<1>5. SessionSound(s, peer[i]) => SessionSound(e, peer[i])
  BY <1>4 DEF SessionSound, Timed, WithinLimit, UnusedIsEmpty
<1>6. Accounted(s, peer[i]) => Accounted(e, peer[i])
  BY <1>4 DEF Accounted, PlacesOf, Known
<1>7. Becomes(i, e, peer[i])
  BY <1>3, <1>4 DEF Becomes
<1> QED BY <1>1, <1>4, <1>5, <1>6, <1>7, BecomesSound

\* A process that starts again has no session.
LEMMA RestartSound ==
    ASSUME Restarted
    PROVE  ServerInv'
<1>1. NewSession(0) \in DSSESSION /\ NewPeer \in Peer
  BY NewSound
<1>2. session' \in [Slot -> DSSESSION] /\ peer' \in [Slot -> Peer]
  BY <1>1 DEF Restarted
<1>3. /\ listening' \in BOOLEAN
      /\ used' = {} /\ last_session' = -1 /\ session_count' = 0 /\ version' = 0
  BY DEF Restarted
<1>4. used' \subseteq Slot /\ session_count' \in Int /\ version' \in Nat
  BY <1>3
<1>5. TypeOK'
  BY <1>2, <1>3, <1>4 DEF TypeOK
<1>6. TableInv'
  BY <1>3, <1>4, FS_EmptySet DEF TableInv, LastSessionIsLast, SessionCountIsUsed
<1> QED BY <1>3, <1>5, <1>6 DEF ServerInv

\* The calls that move messages.
LEMMA CallsSound ==
    ASSUME ServerInv, NEW i \in Slot,
           \/ LDAP_sess_read(i) \/ LDAP_sess_decode(i)
           \/ LDAP_sess_send_message(i) \/ LDAP_sess_write(i) \/ PeerSends(i)
    PROVE  ServerInv'
<1> DEFINE s == session[i]
           p == peer[i]
<1>1. /\ s \in DSSESSION /\ p \in Peer
      /\ i \in used => SessionSound(s, p) /\ Accounted(s, p)
  BY RecordsOf DEF Sound
<1>2. TypeOK
  BY DEF ServerInv
<1>3. CASE LDAP_sess_read(i)
  <2>1. PICK got \in Nat :
          /\ got <= MSG_LEN * Len(p.inbox)
          /\ Becomes(i, AfterRead(s, p, got), PeerAfterRead(p, got))
    BY <1>2, <1>3, ReadBecomes
  <2>2. /\ AfterRead(s, p, got) \in DSSESSION /\ PeerAfterRead(p, got) \in Peer
        /\ SessionSound(s, p) =>
              SessionSound(AfterRead(s, p, got), PeerAfterRead(p, got))
    BY <1>1, <2>1, ReadSound
  <2>3. Accounted(s, p) => Accounted(AfterRead(s, p, got), PeerAfterRead(p, got))
    BY <1>1, <2>1, ReadAccounted
  <2> QED BY <1>1, <2>1, <2>2, <2>3, BecomesSound
<1>4. CASE LDAP_sess_decode(i)
  <2>1. /\ i \in used /\ s.r_buffer # <<>>
        /\ \/ BelowLimit(s) /\ Becomes(i, AfterRequest(s), p)
           \/ /\ ~BelowLimit(s)
              /\ \E torn \in BOOLEAN :
                    \/ Becomes(i, Consumed(s), PeerAnswered(s, p, torn))
                    \/ Becomes(i, Consumed(s), PeerMissed(s, p, torn))
           \/ Becomes(i, Consumed(s), PeerAfterOther(s, p))
           \/ Restarted
    BY <1>2, <1>4, DecodeBecomes
  <2>2. SessionSound(s, p) /\ Accounted(s, p)
    BY <1>1, <2>1
  <2>3. Consumed(s) \in DSSESSION
    BY <1>1, <2>1, ConsumedSession
  <2>4. /\ BelowLimit(s) => Accounted(AfterRequest(s), p)
        /\ \A torn \in BOOLEAN :
              /\ PeerAnswered(s, p, torn) \in Peer
              /\ Accounted(Consumed(s), PeerAnswered(s, p, torn))
              /\ PeerMissed(s, p, torn) \in Peer
              /\ Accounted(Consumed(s), PeerMissed(s, p, torn))
        /\ PeerAfterOther(s, p) \in Peer
        /\ Accounted(Consumed(s), PeerAfterOther(s, p))
    BY <1>1, <2>1, <2>2, DecodeAccounted
  <2>5. CASE BelowLimit(s) /\ Becomes(i, AfterRequest(s), p)
    <3>1. AfterRequest(s) \in DSSESSION /\ SessionSound(AfterRequest(s), p)
      BY <1>1, <2>1, <2>2, <2>5, RequestSound
    <3> QED BY <1>1, <2>4, <2>5, <3>1, BecomesSound
  <2>6. ASSUME ~BelowLimit(s), NEW torn \in BOOLEAN,
               \/ Becomes(i, Consumed(s), PeerAnswered(s, p, torn))
               \/ Becomes(i, Consumed(s), PeerMissed(s, p, torn))
        PROVE  ServerInv'
    <3>1. /\ SessionSound(Consumed(s), PeerAnswered(s, p, torn))
          /\ SessionSound(Consumed(s), PeerMissed(s, p, torn))
      BY <1>1, <2>1, <2>2, <2>6, PeerOverLimitSound
    <3>2. CASE Becomes(i, Consumed(s), PeerAnswered(s, p, torn))
      BY <2>3, <2>4, <3>1, <3>2, BecomesSound
    <3>3. CASE Becomes(i, Consumed(s), PeerMissed(s, p, torn))
      BY <2>3, <2>4, <3>1, <3>3, BecomesSound
    <3> QED BY <2>6, <3>2, <3>3
  <2>7. CASE Becomes(i, Consumed(s), PeerAfterOther(s, p))
    <3>1. SessionSound(Consumed(s), PeerAfterOther(s, p))
      BY <1>1, <2>1, <2>2, PeerOtherSound
    <3> QED BY <2>3, <2>4, <2>7, <3>1, BecomesSound
  <2>8. CASE Restarted
    BY <2>8, RestartSound
  <2> QED BY <2>1, <2>5, <2>6, <2>7, <2>8
<1>5. CASE LDAP_sess_send_message(i)
  <2>1. CASE \E m \in Items(s.rdata) : Becomes(i, AfterResult(s, m), p)
    <3>1. PICK m \in Items(s.rdata) : Becomes(i, AfterResult(s, m), p)
      BY <2>1
    <3>2. /\ AfterResult(s, m) \in DSSESSION
          /\ SessionSound(s, p) => SessionSound(AfterResult(s, m), p)
          /\ Accounted(s, p) => Accounted(AfterResult(s, m), p)
      BY <1>1, ResultSound, ResultAccounted
    <3> QED BY <1>1, <3>1, <3>2, BecomesSound
  <2>2. CASE s.rdata # <<>> /\ Becomes(i, AfterEntry(s, p), PeerAfterEntry(p))
    <3>1. /\ AfterEntry(s, p) \in DSSESSION /\ PeerAfterEntry(p) \in Peer
          /\ SessionSound(s, p) => SessionSound(AfterEntry(s, p), PeerAfterEntry(p))
          /\ Accounted(s, p) => Accounted(AfterEntry(s, p), PeerAfterEntry(p))
      BY <1>1, <2>2, EntrySound, EntryAccounted
    <3> QED BY <1>1, <2>2, <3>1, BecomesSound
  <2> QED BY <1>2, <1>5, <2>1, <2>2, SendBecomes
<1>6. CASE LDAP_sess_write(i)
  <2>1. PICK sent \in Nat :
          /\ sent <= MSG_LEN * Len(s.w_buffer)
          /\ Becomes(i, AfterWrite(s, sent), PeerAfterWrite(s, p, sent))
    BY <1>2, <1>6, WriteBecomes
  <2>2. /\ AfterWrite(s, sent) \in DSSESSION /\ PeerAfterWrite(s, p, sent) \in Peer
        /\ SessionSound(s, p) =>
              SessionSound(AfterWrite(s, sent), PeerAfterWrite(s, p, sent))
    BY <1>1, <2>1, WriteSound
  <2>3. Accounted(s, p) => Accounted(AfterWrite(s, sent), PeerAfterWrite(s, p, sent))
    BY <1>1, <2>1, WriteAccounted
  <2> QED BY <1>1, <2>1, <2>2, <2>3, BecomesSound
<1>7. CASE PeerSends(i)
  <2>1. PICK k \in Kind :
          Becomes(i, s, PeerAfterSend(s, p, k))
    BY <1>2, <1>7, PeerBecomes
  <2>2. /\ PeerAfterSend(s, p, k) \in Peer
        /\ Accounted(s, p) => Accounted(s, PeerAfterSend(s, p, k))
        /\ SessionSound(s, p) => SessionSound(s, PeerAfterSend(s, p, k))
    BY <1>1, PeerAccounted
  <2> QED BY <1>1, <2>1, <2>2, BecomesSound
<1> QED BY <1>3, <1>4, <1>5, <1>6, <1>7

\* The invariant holds in every reachable state.
LEMMA ServerInvariance == Spec => []ServerInv
<1>1. Init => ServerInv
  <2> SUFFICES ASSUME Init PROVE ServerInv
    OBVIOUS
  <2>1. NewSession(0) \in DSSESSION /\ NewPeer \in Peer
    BY NewSound
  <2>2. TypeOK
    <3>1. /\ used \subseteq Slot
          /\ last_session \in Slot \union {-1}
          /\ session_count \in Int /\ version \in Nat
      BY DEF Init
    <3>3. listening \in BOOLEAN
      BY DEF Init
    <3>2. session \in [Slot -> DSSESSION] /\ peer \in [Slot -> Peer]
      BY <2>1 DEF Init
    <3> QED BY <3>1, <3>2, <3>3 DEF TypeOK
  <2>3. TableInv
    BY FS_EmptySet DEF Init, TableInv, LastSessionIsLast, SessionCountIsUsed
  <2>4. used = {}
    BY DEF Init
  <2> QED BY <2>2, <2>3, <2>4 DEF ServerInv
<1>2. ServerInv /\ [Next]_vars => ServerInv'
  <2> SUFFICES ASSUME ServerInv, [Next]_vars PROVE ServerInv'
    OBVIOUS
  <2>1. CASE LDAP_svr_open
    <3>1. TypeOK' /\ TableInv'
      BY <2>1, SameTable DEF LDAP_svr_open, ServerInv, TypeOK
    <3>2. UNCHANGED <<used, session, peer>>
      BY <2>1 DEF LDAP_svr_open
    <3>3. \A i \in used' : Sound(i)'
      BY <3>2 DEF ServerInv, Sound
    <3> QED BY <3>1, <3>3 DEF ServerInv
  <2>2. CASE LDAP_svr_close
    BY <2>2, SvrCloseSound
  <2>3. CASE LDAP_sess_open
    BY <2>3, OpenSound
  <2>4. ASSUME NEW no \in Slot, LDAP_sess_close(no) PROVE ServerInv'
    BY <2>4, CloseSound
  <2>5. CASE LDAP_sess_examine
    <3>1. PICK i \in used : LDAP_sess_close(i)
      BY <2>5 DEF LDAP_sess_examine
    <3>2. i \in Slot
      BY <3>1 DEF ServerInv, TypeOK
    <3> QED BY <3>1, <3>2, CloseSound
  <2>6. ASSUME NEW i \in Slot, RecvBind(i) \/ LDAP_sess_read(i) \/ ReadFails(i)
        PROVE  ServerInv'
    BY <2>6, BindSound, CallsSound
  <2>7. ASSUME NEW i \in Slot, LDAP_sess_decode(i) PROVE ServerInv'
    BY <2>7, CallsSound
  <2>8. ASSUME NEW i \in Slot, LDAP_sess_send_message(i) \/ LDAP_sess_write(i)
        PROVE  ServerInv'
    BY <2>8, CallsSound
  <2>9. ASSUME NEW i \in Slot, PeerSends(i) PROVE ServerInv'
    BY <2>9, CallsSound
  <2>10. CASE UNCHANGED vars
    <3>1. TypeOK' /\ TableInv'
      BY <2>10, SameTable DEF vars, ServerInv, TypeOK
    <3>2. UNCHANGED <<used, session, peer>>
      BY <2>10 DEF vars
    <3>3. \A i \in used' : Sound(i)'
      BY <3>2 DEF ServerInv, Sound
    <3> QED BY <3>1, <3>3 DEF ServerInv
  <2> QED BY <2>1, <2>2, <2>3, <2>4, <2>5, <2>6, <2>7, <2>8, <2>9, <2>10 DEF Next
<1> QED BY <1>1, <1>2, PTL DEF Spec

\* The variables have their types: a buffer that a read or a write cuts at a
\* message boundary is a list of messages again, whatever part of a message
\* recv or send stopped at.
THEOREM TypeCorrect == Spec => []TypeOK
<1>1. ServerInv => TypeOK
  BY DEF ServerInv
<1> QED BY <1>1, ServerInvariance, PTL

\* In every order of LDAP_sess_open, LDAP_sess_close, LDAP_sess_examine and
\* LDAP_svr_close, last_session is the highest slot in use, so that the loops
\* that stop there miss no session.
THEOREM TableCorrect == Spec => []LastSessionIsLast
<1>1. ServerInv => LastSessionIsLast
  BY DEF ServerInv, TableInv
<1> QED BY <1>1, ServerInvariance, PTL

\* In every such order session_count, which is counted up and down one by one
\* and reset by LDAP_svr_close, is the number of slots in use.
THEOREM CountCorrect == Spec => []SessionCountIsUsed
<1>1. ServerInv => SessionCountIsUsed
  BY DEF ServerInv, TableInv
<1> QED BY <1>1, ServerInvariance, PTL

\* For every size of messages and buffers and every order of reads, decodes,
\* answers, writes and closes: each message the peer sent in this session is
\* in exactly one place on its way to its answer, or was dropped, and nothing
\* of an earlier session in the slot is left.
THEOREM RequestsCorrect == Spec => []RequestsAccounted
<1>1. ServerInv => RequestsAccounted
  BY DEF ServerInv, Sound, Accounted, PlacesOf, Known, RequestsAccounted, Places
<1> QED BY <1>1, ServerInvariance, PTL

\* However many entries and results the application sends, concurrent_count
\* counts the requests it has less the entries, and LDAP_sess_decode never lets
\* it pass max_concurrent; the peer of a session that has not sent more requests
\* than that misses no answer and receives none in pieces.
THEOREM ConcurrencyCorrect == Spec => []ConcurrencyAccounted
<1>1. ServerInv => ConcurrencyAccounted
  BY DEF ServerInv, Sound, SessionSound, WithinLimit, ConcurrencyAccounted
<1> QED BY <1>1, ServerInvariance, PTL

\* Whatever is read in part or waits to be decoded or sent has its timer
\* running.
THEOREM TimersCorrect == Spec => []PendingIoIsTimed
<1>1. ServerInv => PendingIoIsTimed
  BY DEF ServerInv, Sound, SessionSound, Timed, PendingIoIsTimed
<1> QED BY <1>1, ServerInvariance, PTL

\* A session that LDAP_sess_examine closes although none of its timers runs
\* has no request in progress: DS_IS_SESSION_IDLE looks only at whether the
\* buffers were allocated, which is enough because a buffer that was not has
\* never held anything.
THEOREM IdleCloseCorrect == Spec => IdleCloseLosesNothing
<1> DEFINE Keeps == LDAP_sess_examine =>
         \A i \in used \ used' :
             \/ session[i].read_time \/ session[i].write_time
             \/ session[i].r_buffer \o session[i].rdata
                  \o session[i].w_buffer = <<>>
<1>1. ServerInv => Keeps
  <2> SUFFICES ASSUME ServerInv, LDAP_sess_examine, NEW i \in used \ used'
               PROVE  \/ session[i].read_time \/ session[i].write_time
                      \/ session[i].r_buffer \o session[i].rdata
                           \o session[i].w_buffer = <<>>
    OBVIOUS
  <2>1. PICK j \in used : MayTimeOut(session[j]) /\ LDAP_sess_close(j)
    BY DEF LDAP_sess_examine
  <2>2. i = j
    BY <2>1 DEF LDAP_sess_close
  <2>3. UnusedIsEmpty(session[i])
    BY <2>1 DEF ServerInv, Sound, SessionSound
  <2>4. CASE session[i].read_time \/ session[i].write_time
    BY <2>4
  <2>5. CASE IsIdle(session[i])
    <3>1. /\ session[i].r_buffer = <<>> /\ session[i].rdata = <<>>
          /\ session[i].w_buffer = <<>>
      BY <2>3, <2>5 DEF IsIdle, UnusedIsEmpty
    <3>2. <<>> \o <<>> \o <<>> = <<>>
      <4>1. \A t \in Seq(MessageId) : <<>> \o t = t
        BY ConcatEmptySeq
      <4>2. <<>> \in Seq(MessageId)
        OBVIOUS
      <4> QED BY <4>1, <4>2
    <3> QED BY <3>1, <3>2
  <2> QED BY <2>1, <2>2, <2>4, <2>5 DEF MayTimeOut
<1>2. IdleCloseLosesNothing <=> [][Keeps]_vars
  BY DEF IdleCloseLosesNothing
<1> HIDE DEF Keeps
<1> QED BY <1>1, <1>2, ServerInvariance, PTL

=============================================================================
