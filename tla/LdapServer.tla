----------------------------- MODULE LdapServer -----------------------------
(***************************************************************************)
(* The LDAP server side of libs/stacks/ldap/ldap_server.c: the session     *)
(* table, whose slots are reused, the bind handshake, the read and write   *)
(* buffers of each session, the limit on concurrent requests and the       *)
(* timeouts.                                                               *)
(*                                                                         *)
(* The library runs in the thread of its caller, so every API call is one  *)
(* step.  A call that returns an error and changes nothing is a stuttering *)
(* step.  A timer field is TRUE when it is not 0, and may or may not have  *)
(* expired when it is looked at.  Messages have MSG_LEN bytes.  Memory     *)
(* does not run out.                                                       *)
(*                                                                         *)
(* The application takes requests from rdata and sends any number of       *)
(* entries while it has one and one result for each; it compares the       *)
(* version of a session before it answers, so that what it does for a      *)
(* session that was closed is left out.  When the process ends by an error *)
(* it starts again from Init.                                              *)
(***************************************************************************)
EXTENDS Rings, FiniteSets

CONSTANTS
    max_session,
    max_concurrent,
    Timeouts,        \* the timeouts the application has set
    MSG_LEN,         \* bytes of a message
    READ_BUFFER,     \* size of the read buffer (LDAP_READ_BUFFER)
    WRITE_BUFFER,    \* most bytes one send may take (LDAP_WRITE_BUFFER)
    MAX_VERSION,     \* bound: sessions accepted
    MAX_REQUESTS,    \* bound: messages a peer sends in a session
    MAX_ENTRIES      \* bound: entries the application sends in a session

ASSUME ServerAssumption ==
    /\ max_session \in Nat
    /\ max_concurrent \in Nat
    /\ Timeouts \subseteq {"read", "write", "idle"}
    /\ MSG_LEN \in Nat \ {0}
    /\ READ_BUFFER \in Nat /\ MSG_LEN < READ_BUFFER
    /\ WRITE_BUFFER \in Nat \ {0}
    /\ MAX_VERSION \in Nat
    /\ MAX_REQUESTS \in Nat
    /\ MAX_ENTRIES \in Nat

VARIABLES
    listening,      \* the listener is open
    used,           \* the slots whose sock >= 0
    session,        \* the DSSESSION of each slot
    last_session,   \* highest slot in use, or -1
    session_count,
    version,        \* version given to the last session
    peer            \* the far end of each session

vars == <<listening, used, session, last_session, session_count, version, peer>>

table == <<listening, used, last_session, session_count, version>>

-----------------------------------------------------------------------------

Slot == 0..(max_session - 1)

\* A message is known by the session it belongs to and its number there:
\* requests, like the results that answer them, count up and entries down.
RequestId == Nat \X (Nat \ {0})

MessageId == Nat \X Int

\* An "unknown" message is a request for an operation that is not one of the
\* six of ldap_send_generic_resp.
Kind == {"request", "unknown", "unbind", "malformed"}

Message == [id : RequestId, kind : Kind]

DSSESSION ==
    [version          : Nat,
     state            : {"OPEN", "READY"},
     r_used           : BOOLEAN,        \* r_buffer was allocated
     r_buffer         : Seq(Message),   \* messages received completely
     r_part           : Nat,            \* bytes of the next one
     w_used           : BOOLEAN,        \* w_buffer was allocated
     w_buffer         : Seq(MessageId), \* responses not sent completely
     w_curr           : Nat,            \* bytes of the first one that are sent
     read_time        : BOOLEAN,
     write_time       : BOOLEAN,
     concurrent_count : Int,
     rdata            : Seq(RequestId)] \* requests without a response

\* What LDAP_sess_open assigns.  The fields of a closed session keep their
\* values but for the two buffers.
NewSession(v) ==
    [version |-> v, state |-> "OPEN",
     r_used |-> FALSE, r_buffer |-> <<>>, r_part |-> 0,
     w_used |-> FALSE, w_buffer |-> <<>>, w_curr |-> 0,
     read_time |-> FALSE, write_time |-> FALSE,
     concurrent_count |-> 0, rdata |-> <<>>]

\* How many messages the peer has sent and how many entries it was sent,
\* which messages are on their way, what it has received, which messages were
\* not for the application, which were refused with an answer that did not
\* arrive, and whether bytes of such an answer stand between or in place of
\* those of whole responses.
Peer ==
    [sent : Nat, entries : Nat, inbox : Seq(Message),
     answered : Seq(MessageId), dropped : SUBSET RequestId,
     lost : SUBSET RequestId, torn : BOOLEAN]

NewPeer ==
    [sent |-> 0, entries |-> 0, inbox |-> <<>>, answered |-> <<>>,
     dropped |-> {}, lost |-> {}, torn |-> FALSE]

\* LDAP_svr_init
Init ==
    /\ listening = FALSE
    /\ used = {}
    /\ session = [i \in Slot |-> NewSession(0)]
    /\ last_session = -1
    /\ session_count = 0
    /\ version = 0
    /\ peer = [i \in Slot |-> NewPeer]

-----------------------------------------------------------------------------
(* The listener and the session table.                                     *)

\* Opening the port again while it is bound fails.
LDAP_svr_open ==
    /\ ~listening
    /\ listening' = TRUE
    /\ UNCHANGED <<used, session, last_session, session_count, version, peer>>

FirstSlot == CHOOSE i \in Slot : \A j \in Slot : i <= j
FirstFree == CHOOSE i \in Slot \ used : \A j \in Slot \ used : i <= j

\* A connection is accepted and rauthen_verify lets it pass.
LDAP_sess_open ==
    /\ listening
    /\ used # Slot
    /\ version < MAX_VERSION
    /\ LET i == FirstFree
       IN  /\ used' = used \union {i}
           /\ session' = [session EXCEPT ![i] = NewSession(version + 1)]
           /\ peer' = [peer EXCEPT ![i] = NewPeer]
           /\ last_session' = IF last_session < i THEN i ELSE last_session
    /\ version' = version + 1
    /\ session_count' = session_count + 1
    /\ UNCHANGED listening

\* The highest slot in use below no, or -1: where the loop over last_session
\* stops.
OneBelow(no) == no - 1
LastBelowPastZero(no) ==
    LET below == {i \in used : i < no} \union {-2}
    IN  CHOOSE i \in below : \A j \in below : j <= i
LastBelow(no) ==
    LET below == {i \in used : i < no} \union {-1}
    IN  CHOOSE i \in below : \A j \in below : j <= i

\* The buffers of a session that is closed are freed.
Freed(s) ==
    [s EXCEPT !.r_used = FALSE, !.r_buffer = <<>>, !.r_part = 0,
              !.w_used = FALSE, !.w_buffer = <<>>]

\* last_session moves before the slot is found to be free.
LDAP_sess_close(no) ==
    /\ last_session' = IF last_session = no THEN LastBelow(no) ELSE last_session
    /\ \/ /\ no \in used
          /\ used' = used \ {no}
          /\ session' = [session EXCEPT ![no] = Freed(@)]
          /\ session_count' = session_count - 1
       \/ /\ no \notin used
          /\ UNCHANGED <<used, session, session_count>>
    /\ UNCHANGED <<listening, version, peer>>

\* The slots up to last_session are closed, then the listener.
LDAP_svr_close ==
    /\ used' = {i \in used : i > last_session}
    /\ session' = [i \in Slot |-> IF i <= last_session THEN Freed(session[i])
                                                       ELSE session[i]]
    /\ last_session' = -1
    /\ session_count' = 0
    /\ listening' = FALSE
    /\ UNCHANGED <<version, peer>>

\* DS_IS_SESSION_IDLE
IsIdleWhenSent(s) == ~s.w_used
IsIdle(s) == ~s.w_used /\ ~s.r_used

MayTimeOut(s) ==
    \/ s.read_time /\ "read" \in Timeouts
    \/ s.write_time /\ "write" \in Timeouts
    \/ IsIdle(s) /\ "idle" \in Timeouts

\* The first session that has timed out is closed.
LDAP_sess_examine ==
    \E i \in used :
        /\ i <= last_session
        /\ session[i].state = "READY"
        /\ MayTimeOut(session[i])
        /\ LDAP_sess_close(i)

-----------------------------------------------------------------------------
(* LDAP_sess_read: the bind request of a new session, then messages.       *)

RecvBind(i) ==
    /\ i \in used
    /\ session[i].state = "OPEN"
    /\ session' = [session EXCEPT ![i].state = "READY"]
    /\ UNCHANGED <<table, peer>>

in_len(i) == MSG_LEN * Len(peer[i].inbox) - session[i].r_part

r_len(i) == MSG_LEN * Len(session[i].r_buffer) + session[i].r_part

LDAP_sess_read(i) ==
    /\ i \in used
    /\ session[i].state = "READY"
    /\ \E r \in 1..in_len(i) :
          LET got  == session[i].r_part + r
              done == got \div MSG_LEN
          IN  /\ r <= READ_BUFFER - 1 - r_len(i)
              /\ session' = [session EXCEPT
                    ![i].r_used = TRUE,
                    ![i].r_buffer = @ \o SubSeq(peer[i].inbox, 1, done),
                    ![i].r_part = got % MSG_LEN,
                    ![i].read_time = TRUE]
              /\ peer' = [peer EXCEPT
                    ![i].inbox = SubSeq(@, done + 1, Len(@))]
    /\ UNCHANGED table

\* The buffer is full, or recv fails or finds the connection closed: the
\* buffer was allocated first.
ReadFails(i) ==
    /\ i \in used
    /\ session[i].state = "READY"
    /\ session' = [session EXCEPT ![i].r_used = TRUE]
    /\ UNCHANGED <<table, peer>>

-----------------------------------------------------------------------------
(* LDAP_sess_decode: takes one message; a request goes to rdata, or is     *)
(* answered at once when the limit is reached.                             *)

NothingWholeLeft(s) == Len(s.r_buffer) = 1
NothingLeft(s) == Len(s.r_buffer) = 1 /\ s.r_part = 0

Consumed(s) ==
    [s EXCEPT !.r_buffer = Tail(@), !.read_time = @ /\ ~NothingLeft(s)]

AtMostLimit(s) == s.concurrent_count <= max_concurrent
BelowLimit(s) == s.concurrent_count < max_concurrent

DecodeRequest(i, m) ==
    /\ m.kind \in {"request", "unknown"}
    /\ BelowLimit(session[i])
    /\ session' = [session EXCEPT ![i] =
                     [Consumed(session[i]) EXCEPT
                         !.concurrent_count = @ + 1,
                         !.rdata = AppendItem(@, m.id)]]
    /\ UNCHANGED peer

\* The latest message is taken out of rdata again and answered past the write
\* buffer.  Nobody looks at how many bytes of the answer send takes, none when
\* it fails, nor whether a response has been sent in part.
WithoutFirst(q) == Tail(q)
WithoutLatest(q) == SubSeq(q, 1, Len(q) - 1)

DecodeOverLimit(i, m) ==
    /\ m.kind = "request"
    /\ ~BelowLimit(session[i])
    /\ session' = [session EXCEPT ![i] =
                     [Consumed(session[i]) EXCEPT
                         !.rdata = WithoutLatest(AppendItem(@, m.id))]]
    /\ \E r \in 0..MSG_LEN :
          peer' = [peer EXCEPT
                     ![i].answered = IF r = MSG_LEN THEN Append(@, m.id) ELSE @,
                     ![i].lost = IF r < MSG_LEN THEN @ \union {m.id} ELSE @,
                     ![i].torn = \/ @
                                 \/ r \in 1..(MSG_LEN - 1)
                                 \/ r > 0 /\ session[i].w_curr > 0]

\* No answer is generated for an unknown operation, and the NULL that is sent
\* in its place ends the process.
DecodeUnanswerable(i, m) ==
    /\ m.kind = "unknown"
    /\ ~BelowLimit(session[i])
    /\ listening' = FALSE
    /\ used' = {}
    /\ session' = [j \in Slot |-> NewSession(0)]
    /\ last_session' = -1
    /\ session_count' = 0
    /\ version' = 0
    /\ peer' = [j \in Slot |-> NewPeer]

DecodeOther(i, m) ==
    /\ m.kind \in {"unbind", "malformed"}
    /\ session' = [session EXCEPT ![i] = Consumed(session[i])]
    /\ peer' = [peer EXCEPT ![i].dropped = @ \union {m.id}]

LDAP_sess_decode(i) ==
    /\ i \in used
    /\ session[i].r_buffer # <<>>
    /\ LET m == Head(session[i].r_buffer)
       IN  \/ DecodeRequest(i, m) /\ UNCHANGED table
           \/ DecodeOverLimit(i, m) /\ UNCHANGED table
           \/ DecodeOther(i, m) /\ UNCHANGED table
           \/ DecodeUnanswerable(i, m)

-----------------------------------------------------------------------------
(* LDAP_sess_send_message: the application sends entries and results, in   *)
(* any order; LDAP_sess_write sends what is buffered.                      *)

\* Every message counts as the end of a request.
Buffered(s, m) ==
    [s EXCEPT !.w_used = TRUE,
              !.w_buffer = Append(@, m),
              !.write_time = TRUE,
              !.concurrent_count = @ - 1]

SendResult(i) ==
    /\ i \in used
    /\ \E m \in Items(session[i].rdata) :
          session' = [session EXCEPT ![i] =
                        [Buffered(session[i], m) EXCEPT !.rdata = Delete(@, m)]]
    /\ UNCHANGED <<table, peer>>

SendEntry(i) ==
    /\ i \in used
    /\ session[i].rdata # <<>>
    /\ peer[i].entries < MAX_ENTRIES
    /\ LET m == <<session[i].version, -(peer[i].entries + 1)>>
       IN  session' = [session EXCEPT ![i] = Buffered(session[i], m)]
    /\ peer' = [peer EXCEPT ![i].entries = @ + 1]
    /\ UNCHANGED table

LDAP_sess_send_message(i) == SendResult(i) \/ SendEntry(i)

w_len(i) == MSG_LEN * Len(session[i].w_buffer) - session[i].w_curr

SendLimit(i) == IF w_len(i) > WRITE_BUFFER THEN WRITE_BUFFER ELSE w_len(i)

\* write_time after a send that leaves `left'.
WriteTimerStopped(left) == FALSE
WriteTimer(left) == left # <<>>

LDAP_sess_write(i) ==
    /\ i \in used
    /\ session[i].state = "READY"
    /\ session[i].w_buffer # <<>>
    /\ \E r \in 1..SendLimit(i) :
          LET sent == session[i].w_curr + r
              done == sent \div MSG_LEN
              out  == SubSeq(session[i].w_buffer, 1, done)
              left == SubSeq(session[i].w_buffer, done + 1,
                             Len(session[i].w_buffer))
          IN  /\ session' = [session EXCEPT
                                ![i].w_buffer = left,
                                ![i].w_curr = sent % MSG_LEN,
                                ![i].write_time = WriteTimer(left)]
              /\ peer' = [peer EXCEPT ![i].answered = @ \o out]
    /\ UNCHANGED table

-----------------------------------------------------------------------------
(* The peer sends messages once its bind was accepted.                     *)

PeerSends(i) ==
    /\ i \in used
    /\ session[i].state = "READY"
    /\ peer[i].sent < MAX_REQUESTS
    /\ \E k \in Kind :
          LET m == [id |-> <<session[i].version, peer[i].sent + 1>>, kind |-> k]
          IN  peer' = [peer EXCEPT ![i].sent = @ + 1,
                                   ![i].inbox = Append(@, m)]
    /\ UNCHANGED <<table, session>>

Next ==
    \/ LDAP_svr_open \/ LDAP_svr_close
    \/ LDAP_sess_open
    \/ \E no \in Slot : LDAP_sess_close(no)
    \/ LDAP_sess_examine
    \/ \E i \in Slot : RecvBind(i) \/ LDAP_sess_read(i) \/ ReadFails(i)
    \/ \E i \in Slot : LDAP_sess_decode(i)
    \/ \E i \in Slot : LDAP_sess_send_message(i) \/ LDAP_sess_write(i)
    \/ \E i \in Slot : PeerSends(i)

Spec == Init /\ [][Next]_vars

-----------------------------------------------------------------------------
(* Properties.                                                             *)

\* The variables have the types their declarations give them.
TypeOK ==
    /\ listening \in BOOLEAN
    /\ used \subseteq Slot
    /\ session \in [Slot -> DSSESSION]
    /\ last_session \in Slot \union {-1}
    /\ session_count \in Int
    /\ version \in Nat
    /\ peer \in [Slot -> Peer]

\* The loops of LDAP_svr_close and LDAP_sess_examine, which stop at
\* last_session, reach every session, and last_session is a session, however
\* sessions are opened and closed.
LastSessionIsLast ==
    /\ \A i \in used : i <= last_session
    /\ last_session = -1 \/ last_session \in used

\* session_count is the number of sessions.
SessionCountIsUsed == session_count = Cardinality(used)

\* What a step needs to keep both.
TableInv == used \subseteq Slot /\ LastSessionIsLast /\ SessionCountIsUsed

ids(s) == [n \in 1..Len(s) |-> s[n].id]

\* Where the messages of a session can be.
Places(i) ==
    ids(peer[i].inbox) \o ids(session[i].r_buffer) \o session[i].rdata
      \o session[i].w_buffer \o peer[i].answered

\* Every message that the peer sent in this session, and every entry it is
\* sent, is in exactly one place, and nothing of an earlier session in the
\* same slot is left: no request disappears, is answered twice or is answered
\* to another peer.
RequestsAccounted ==
    \A i \in used :
        /\ NoRepeat(Places(i))
        /\ Items(Places(i)) \intersect (peer[i].dropped \union peer[i].lost) = {}
        /\ peer[i].dropped \intersect peer[i].lost = {}
        /\ Items(Places(i)) \union peer[i].dropped \union peer[i].lost
              = {session[i].version} \X ((-peer[i].entries..peer[i].sent) \ {0})

\* concurrent_count never exceeds max_concurrent and is the number of requests
\* the application has less one for each entry it has sent, so that the limit
\* on requests grows by as many.  An answer is lost, or mixed up with others,
\* only in a session that has sent more requests than the limit.
ConcurrencyAccounted ==
    \A i \in used :
        /\ session[i].concurrent_count
              = Len(session[i].rdata) - peer[i].entries
        /\ session[i].concurrent_count <= max_concurrent
        /\ peer[i].torn \/ peer[i].lost # {} => peer[i].sent > max_concurrent

\* Input that is incomplete or not decoded has the read timer running, and
\* output that is not sent the write timer: LDAP_sess_examine closes a
\* session whose peer stops in the middle of a message.
PendingIoIsTimed ==
    \A i \in used :
        /\ session[i].r_buffer # <<>> \/ session[i].r_part > 0
              => session[i].read_time
        /\ session[i].w_buffer # <<>> => session[i].write_time

\* A session that LDAP_sess_examine closes only for being idle has no request
\* in progress, neither undecoded nor with the application nor unsent.
IdleCloseLosesNothing ==
    [][LDAP_sess_examine =>
         \A i \in used \ used' :
             \/ session[i].read_time \/ session[i].write_time
             \/ session[i].r_buffer \o session[i].rdata
                  \o session[i].w_buffer = <<>>]_vars

-----------------------------------------------------------------------------
(* The caller's event loop serves every session again and again: it reads, *)
(* decodes until nothing is taken, and writes; the application sends the   *)
(* result of every request.                                                *)

Fairness ==
    \A i \in Slot : /\ WF_vars(RecvBind(i))
                    /\ WF_vars(LDAP_sess_read(i))
                    /\ WF_vars(LDAP_sess_decode(i))
                    /\ WF_vars(SendResult(i))
                    /\ WF_vars(LDAP_sess_write(i))

FairSpec == Spec /\ Fairness

\* In a session that is not closed every message is answered or dropped; one
\* over the limit is answered, or its answer is lost, or is sent in part or
\* into another so that the session is of no more use.
EveryRequestAnswered ==
    \A i \in Slot, n \in 1..MAX_REQUESTS :
        (i \in used /\ peer[i].sent >= n)
            ~> \/ i \notin used \/ peer[i].torn
               \/ <<session[i].version, n>>
                     \in Items(peer[i].answered) \union peer[i].dropped
                           \union peer[i].lost

=============================================================================
