----------------------------- MODULE LdapClient -----------------------------
(***************************************************************************)
(* The LDAP connection pool of libs/stacks/ldap/ldap_client.c: the client  *)
(* table, the ready and wait queues, the queue of unsent requests, the     *)
(* write and read buffers of each connection, its timers and keepalives.   *)
(*                                                                         *)
(* The library runs in the thread of its caller: an API call is never      *)
(* interleaved with another one.  A call whose body is a loop is modelled  *)
(* as one step per iteration, with `call' saying which loop is running;    *)
(* until it returns only the network and the server may move.  A call      *)
(* that returns an error and changes nothing is a stuttering step.         *)
(*                                                                         *)
(* Time is abstracted: a timer field is TRUE when it is not 0, and a timer *)
(* that is set may or may not have expired when it is looked at.  A        *)
(* message is its transaction id; all messages have MSG_LEN bytes.         *)
(***************************************************************************)
EXTENDS Rings, FiniteSets

CONSTANTS
    LDAP_MAX_CLIENT,     \* size of client_array
    MaxClientValues,     \* values the application gives to max_client
    MaxConcurrentValues, \* values it gives to max_concurrent
    max_wbuffer,         \* most bytes one write may send, 0: no limit
    r_size,              \* bytes of a read buffer (LDAP_READ_BUFFER)
    heartbeat_type,      \* LDAP_KEEPALIVE_NONE, _SEARCH or _EXTENDED
    Timeouts,            \* the timeouts the application has set
    DirectSend,          \* the application also sends on a given connection
    MAX_NO_MEMORY,       \* bound: failed allocations, 0: memory never runs out
    MSG_LEN,             \* bytes of a message
    MAX_TID,             \* bound: transaction ids handed out
    MAX_ENTRIES          \* bound: search entries sent on a connection

ASSUME SizeAssumption ==
    /\ LDAP_MAX_CLIENT \in Nat \ {0}
    /\ max_wbuffer \in Nat
    /\ r_size \in Nat
    /\ MSG_LEN \in Nat \ {0}
    /\ MSG_LEN < r_size
    /\ MAX_TID \in Nat
    /\ MAX_ENTRIES \in Nat
    /\ MAX_NO_MEMORY \in Nat

ASSUME OptionAssumption ==
    /\ MaxClientValues \subseteq Nat
    /\ MaxConcurrentValues \subseteq Nat \ {0}
    /\ heartbeat_type \in {"NONE", "SEARCH", "EXTENDED"}
    /\ Timeouts \subseteq {"read", "write", "connect"}
    /\ DirectSend \in BOOLEAN

VARIABLES
    open,            \* the slots of client_array that are not NULL
    lc,              \* the LDAP_CLNT of each slot
    ready_queue,     \* connections that take requests
    wait_queue,      \* connections that are not bound yet, or at their limit
    send_msg_queue,  \* requests that no connection has taken yet
    client_count,
    tid,             \* last transaction id handed out
    max_client,
    max_concurrent,
    call,            \* the API call whose loop is running
    net,             \* the far end of each connection
    corrupt          \* a queue head points to an item that is not linked

vars == <<open, lc, ready_queue, wait_queue, send_msg_queue, client_count,
          tid, max_client, max_concurrent, call, net, corrupt>>

queues == <<ready_queue, wait_queue>>
options == <<max_client, max_concurrent>>

-----------------------------------------------------------------------------

Slot == 0..(LDAP_MAX_CLIENT - 1)

ClientState == {"OPEN", "CONNECTING", "READY", "WAITING"}

\* A response PDU: a search entry, or the last response to a request.
Response == [tid : Nat, last : BOOLEAN]

LDAP_CLNT ==
    [state            : ClientState,
     concurrent_count : Nat,
     w_buffer         : Seq(Nat),      \* messages not sent completely
     w_curr           : Nat,           \* bytes of the first one that are sent
     r_buffer         : Seq(Response), \* responses received completely
     r_part           : Nat,           \* bytes of the next one
     write_time       : BOOLEAN,
     read_time        : BOOLEAN,
     keepalive_time   : BOOLEAN,
     ktid             : Nat,           \* id of the keepalive request, or 0
     rber             : Seq(Nat)]      \* ids of the entries collected

NewClient ==
    [state            |-> "OPEN",
     concurrent_count |-> 0,
     w_buffer         |-> <<>>,
     w_curr           |-> 0,
     r_buffer         |-> <<>>,
     r_part           |-> 0,
     write_time       |-> FALSE,
     read_time        |-> FALSE,
     keepalive_time   |-> FALSE,
     ktid             |-> 0,
     rber             |-> <<>>]

\* The far end: requests the server holds, responses on their way back, how
\* many of them were entries, and whether a request was cut off half sent.
FarEnd ==
    [pending : SUBSET Nat, inbox : Seq(Response), entries : Nat,
     torn : BOOLEAN]

NewFarEnd == [pending |-> {}, inbox |-> <<>>, entries |-> 0, torn |-> FALSE]

Call == [op : {"none", "flush", "decode", "keepalive", "check", "close_all"},
         no : Slot]

Return == [op |-> "none", no |-> 0]

Idle == ~corrupt /\ call.op = "none"

Running(op) == ~corrupt /\ call.op = op

Begin(op, i) == call' = [op |-> op, no |-> i]

w_len(c) == MSG_LEN * Len(lc[c].w_buffer) - lc[c].w_curr
r_len(c) == MSG_LEN * Len(lc[c].r_buffer) + lc[c].r_part
in_len(c) == MSG_LEN * Len(net[c].inbox) - lc[c].r_part

-----------------------------------------------------------------------------
(* LDAP_clnt_init, LDAP_clnt_set_option                                    *)

Init ==
    /\ open = {}
    /\ lc = [c \in Slot |-> NewClient]
    /\ ready_queue = <<>>
    /\ wait_queue = <<>>
    /\ send_msg_queue = <<>>
    /\ client_count = 0
    /\ tid = 0
    /\ max_client \in MaxClientValues
    /\ max_concurrent \in MaxConcurrentValues
    /\ call = Return
    /\ net = [c \in Slot |-> NewFarEnd]
    /\ corrupt = FALSE

SetOption ==
    /\ Idle
    /\ \/ max_client' \in MaxClientValues /\ UNCHANGED max_concurrent
       \/ max_concurrent' \in MaxConcurrentValues /\ UNCHANGED max_client
    /\ UNCHANGED <<open, lc, queues, send_msg_queue, client_count, tid, call,
                   net, corrupt>>

-----------------------------------------------------------------------------
(* LDAP_clnt_open: the first free slot is taken.  When the write buffer    *)
(* cannot be allocated the slot stays taken, but the connection is neither *)
(* queued nor counted, and the caller never gets a pointer to it.          *)

FirstFreeUnchecked == CHOOSE i \in Slot : \A j \in Slot : i <= j
FirstFree == CHOOSE i \in Slot \ open : \A j \in Slot \ open : i <= j

MayOpen == Idle /\ client_count < max_client /\ open # Slot

TakeSlot(c) ==
    /\ open' = open \union {c}
    /\ lc' = [lc EXCEPT ![c] = NewClient]
    /\ net' = [net EXCEPT ![c] = NewFarEnd]
    /\ UNCHANGED <<ready_queue, send_msg_queue, tid, options, call, corrupt>>

LDAP_clnt_open ==
    /\ MayOpen
    /\ TakeSlot(FirstFree)
    /\ wait_queue' = AppendItem(wait_queue, FirstFree)
    /\ client_count' = client_count + 1

LDAP_clnt_open_no_memory ==
    /\ Cardinality(open) - client_count < MAX_NO_MEMORY
    /\ MayOpen
    /\ TakeSlot(FirstFree)
    /\ UNCHANGED <<wait_queue, client_count>>

-----------------------------------------------------------------------------
(* LDAP_clnt_close, LDAP_clnt_close_all.  The state of the connection      *)
(* decides from which queue it is removed.  The ring is unlinked wherever  *)
(* it is, but only the head of the named queue is moved: the head of the   *)
(* other queue would be left pointing to the removed item.                 *)

NamedQueue(c) == IF lc[c].state = "READY" THEN ready_queue ELSE wait_queue
OtherQueue(c) == IF lc[c].state = "READY" THEN wait_queue ELSE ready_queue

Close(c) ==
    /\ open' = open \ {c}
    /\ lc' = [lc EXCEPT ![c] = NewClient]
    /\ net' = [net EXCEPT ![c] = NewFarEnd]
    /\ ready_queue' = Delete(ready_queue, c)
    /\ wait_queue' = Delete(wait_queue, c)
    /\ corrupt' = IsFirst(OtherQueue(c), c)
    /\ client_count' = client_count - 1
    /\ UNCHANGED <<send_msg_queue, tid, options>>

LDAP_clnt_close(c) ==
    /\ Idle
    /\ c \in open
    /\ Close(c)
    /\ UNCHANGED call

LDAP_clnt_close_all == 
    /\ Idle
    /\ Begin("close_all", 0)
    /\ UNCHANGED <<open, lc, queues, send_msg_queue, client_count, tid,
                   options, net, corrupt>>

\* A loop over client_array goes to the next slot, or returns.
NextSlotTooFar ==
    call' = IF call.no < LDAP_MAX_CLIENT
            THEN [call EXCEPT !.no = @ + 1]
            ELSE Return
NextSlot ==
    call' = IF call.no + 1 < LDAP_MAX_CLIENT
            THEN [call EXCEPT !.no = @ + 1]
            ELSE Return

SkipSlot ==
    /\ NextSlot
    /\ UNCHANGED <<open, lc, queues, send_msg_queue, client_count, tid,
                   options, net, corrupt>>

CloseAllStep ==
    /\ Running("close_all")
    /\ \/ call.no \in open /\ Close(call.no) /\ NextSlot
       \/ call.no \notin open /\ SkipSlot

-----------------------------------------------------------------------------
(* LDAP_clnt_write: sends the bind request of a connection that was just   *)
(* opened, then whatever its write buffer holds.  The caller knows only    *)
(* the connections that LDAP_clnt_open returned, which are queued.  The id *)
(* of a bind request is never looked at again: tid counts the others.      *)

SendBind(c) ==
    /\ Idle
    /\ c \in open /\ c \in Items(wait_queue)
    /\ lc[c].state = "OPEN"
    /\ lc' = [lc EXCEPT ![c].state = "CONNECTING", ![c].write_time = TRUE]
    /\ UNCHANGED <<open, queues, send_msg_queue, client_count, tid, options,
                   call, net, corrupt>>

\* Most bytes that one send may take.
SendLimit(c) ==
    IF max_wbuffer > 0 /\ w_len(c) > max_wbuffer THEN max_wbuffer ELSE w_len(c)

\* The server holds the messages it got completely, unless what it receives
\* is out of frame.
Delivered(c, done) ==
    IF net[c].torn
    THEN net[c].pending
    ELSE net[c].pending \union {lc[c].w_buffer[i] : i \in 1..done}

\* What is left to send after `done' messages.
UnsentAgain(c, done) ==
    LET from == IF done > 1 THEN done ELSE done + 1
    IN  SubSeq(lc[c].w_buffer, from, Len(lc[c].w_buffer))
Unsent(c, done) == SubSeq(lc[c].w_buffer, done + 1, Len(lc[c].w_buffer))

\* write_time after a send that leaves `left'.
WriteTimerStopped(left) == FALSE
WriteTimer(left) == left # <<>>

LDAP_clnt_write(c) ==
    /\ Idle
    /\ c \in open
    /\ lc[c].state \in {"READY", "WAITING"}
    /\ lc[c].w_buffer # <<>>
    /\ \E r \in 1..SendLimit(c) :
          LET sent == lc[c].w_curr + r
              done == sent \div MSG_LEN
              left == Unsent(c, done)
          IN  /\ lc' = [lc EXCEPT
                          ![c].w_buffer = left,
                          ![c].w_curr = sent % MSG_LEN,
                          ![c].write_time = WriteTimer(left),
                          ![c].keepalive_time = @ \/ (left = <<>>)]
              /\ net' = [net EXCEPT ![c].pending = Delivered(c, done)]
    /\ UNCHANGED <<open, queues, send_msg_queue, client_count, tid, options,
                   call, corrupt>>

-----------------------------------------------------------------------------
(* LDAP_clnt_read: takes the bind response of a connection that is not     *)
(* bound yet, then bytes of responses, as many as the buffer has room for. *)

RecvBind(c) ==
    /\ Idle
    /\ c \in open
    /\ lc[c].state = "CONNECTING"
    /\ lc' = [lc EXCEPT ![c].state = "READY",
                        ![c].write_time = FALSE,
                        ![c].keepalive_time = TRUE]
    /\ wait_queue' = Delete(wait_queue, c)
    /\ ready_queue' = AppendItem(ready_queue, c)
    /\ UNCHANGED <<open, send_msg_queue, client_count, tid, options, call,
                   net, corrupt>>

LDAP_clnt_read(c) ==
    /\ Idle
    /\ c \in open
    /\ lc[c].state \in {"READY", "WAITING"}
    /\ \E r \in 1..in_len(c) :
          LET got  == lc[c].r_part + r
              done == got \div MSG_LEN
          IN  /\ r <= r_size - 1 - r_len(c)
              /\ lc' = [lc EXCEPT
                          ![c].r_buffer = @ \o SubSeq(net[c].inbox, 1, done),
                          ![c].r_part = got % MSG_LEN,
                          ![c].read_time = TRUE]
              /\ net' = [net EXCEPT
                          ![c].inbox = SubSeq(@, done + 1, Len(@))]
    /\ UNCHANGED <<open, queues, send_msg_queue, client_count, tid, options,
                   call, corrupt>>

-----------------------------------------------------------------------------
(* LDAP_clnt_send_message.  A request for a given connection goes to its   *)
(* write buffer, even before it is bound; any other joins the queue.  Then *)
(* the queue is flushed.                                                   *)

Enqueue ==
    /\ Idle
    /\ tid < MAX_TID
    /\ tid' = tid + 1
    /\ send_msg_queue' = Append(send_msg_queue, tid + 1)
    /\ Begin("flush", 0)
    /\ UNCHANGED <<open, lc, queues, client_count, options, net, corrupt>>

SendOn(c) ==
    /\ DirectSend
    /\ Idle
    /\ tid < MAX_TID
    /\ c \in Items(ready_queue) \union Items(wait_queue)
    /\ tid' = tid + 1
    /\ lc' = [lc EXCEPT ![c].w_buffer = Append(@, tid + 1),
                        ![c].write_time = TRUE,
                        ![c].concurrent_count = @ + 1]
    /\ \/ Begin("flush", 0)
       \/ UNCHANGED call                      \* fd_set_write_callback failed
    /\ UNCHANGED <<open, queues, send_msg_queue, client_count, options, net,
                   corrupt>>

\* send_message without a request only flushes.
Flush ==
    /\ Idle
    /\ Begin("flush", 0)
    /\ UNCHANGED <<open, lc, queues, send_msg_queue, client_count, tid,
                   options, net, corrupt>>

\* The first request goes to the first ready connection, which moves to the
\* wait queue when it is at its limit and to the end of its queue otherwise.
AtLimitPlusOne(n) == n > max_concurrent
AtLimit(n) == n >= max_concurrent

DispatchedStateKept(c, full) == lc[c].state
DispatchedState(c, full) == IF full THEN "WAITING" ELSE lc[c].state

Dispatch(c) ==
    LET n == lc[c].concurrent_count + 1
        full == AtLimit(n)
    IN  /\ lc' = [lc EXCEPT
                    ![c].w_buffer = Append(@, Head(send_msg_queue)),
                    ![c].write_time = TRUE,
                    ![c].concurrent_count = n,
                    ![c].state = DispatchedState(c, full)]
        /\ ready_queue' = IF full THEN Delete(ready_queue, c)
                                  ELSE MoveToEnd(ready_queue, c)
        /\ wait_queue' = IF full THEN AppendItem(wait_queue, c)
                                 ELSE wait_queue
        /\ send_msg_queue' = Tail(send_msg_queue)

FlushStep ==
    /\ Running("flush")
    /\ ready_queue # <<>> /\ send_msg_queue # <<>>
    /\ Dispatch(Head(ready_queue))
    /\ \/ UNCHANGED call
       \/ call' = Return                      \* fd_set_write_callback failed
    /\ UNCHANGED <<open, client_count, tid, options, net, corrupt>>

FlushReturn ==
    /\ Running("flush")
    /\ \/ ready_queue = <<>> \/ send_msg_queue = <<>>
       \/ MAX_NO_MEMORY > 0                   \* realloc failed
    /\ call' = Return
    /\ UNCHANGED <<open, lc, queues, send_msg_queue, client_count, tid,
                   options, net, corrupt>>

-----------------------------------------------------------------------------
(* LDAP_clnt_decode and ldap_decode_response: takes the responses that are *)
(* complete up to the first one that is not a search entry.                *)

NothingWholeLeft(c) == Len(lc[c].r_buffer) = 1
NothingLeft(c) == Len(lc[c].r_buffer) = 1 /\ lc[c].r_part = 0

\* The connection without its first response.
Consumed(c) ==
    [lc[c] EXCEPT !.r_buffer = Tail(@),
                  !.read_time = @ /\ ~NothingLeft(c),
                  !.keepalive_time = @ \/ NothingLeft(c)]

IsKeepalive(c, resp) == lc[c].ktid # 0 /\ lc[c].ktid = resp.tid

\* LDAP_RET_WAIT_MORE_DATA: the loop goes on.
DecodeEntry(c) ==
    LET resp == Head(lc[c].r_buffer)
    IN  /\ ~resp.last
        /\ lc' = [lc EXCEPT ![c] =
                    [Consumed(c) EXCEPT
                        !.rber = IF IsKeepalive(c, resp)
                                 THEN @ ELSE Append(@, resp.tid)]]
        /\ Begin("decode", c)
        /\ UNCHANGED <<queues, net, corrupt>>

\* LDAP_RET_KEEPALIVE: a connection in the wait queue is made ready again,
\* what it has not sent is dropped; its state and its count are kept.
DecodeKeepalive(c) ==
    LET resp == Head(lc[c].r_buffer)
        reset == c \in Items(wait_queue)
    IN  /\ resp.last /\ IsKeepalive(c, resp)
        /\ lc' = [lc EXCEPT ![c] =
                    [Consumed(c) EXCEPT
                        !.ktid = 0,
                        !.w_buffer = IF reset THEN <<>> ELSE @,
                        !.w_curr = IF reset THEN 0 ELSE @]]
        /\ net' = [net EXCEPT ![c].torn =
                     @ \/ (reset /\ lc[c].w_curr # 0)]
        /\ wait_queue' = Delete(wait_queue, c)
        /\ ready_queue' = IF reset THEN AppendItem(ready_queue, c)
                                   ELSE ready_queue
        /\ call' = Return
        /\ UNCHANGED corrupt

\* LDAP_RET_DATA_AVAILABLE: a request was answered, the caller takes the
\* entries that were collected.
CountKeptWhenReady(c) ==
    IF lc[c].state = "READY" THEN lc[c].concurrent_count
                             ELSE lc[c].concurrent_count - 1
CountAfterAnswer(c) == lc[c].concurrent_count - 1

WakesOneLate(c, n) == lc[c].state = "WAITING" /\ n + 1 < max_concurrent
Wakes(c, n) == lc[c].state = "WAITING" /\ n < max_concurrent

DecodeAnswer(c) ==
    LET resp == Head(lc[c].r_buffer)
        n    == CountAfterAnswer(c)
        wake == Wakes(c, n)
    IN  /\ resp.last /\ ~IsKeepalive(c, resp)
        /\ lc[c].concurrent_count > 0
        /\ lc' = [lc EXCEPT ![c] =
                    [Consumed(c) EXCEPT
                        !.concurrent_count = n,
                        !.rber = <<>>,
                        !.state = IF wake THEN "READY" ELSE @]]
        /\ wait_queue' = IF wake THEN Delete(wait_queue, c) ELSE wait_queue
        /\ ready_queue' = IF wake THEN MoveToEnd(ready_queue, c)
                                  ELSE ready_queue
        /\ corrupt' = (wake /\ IsFirst(ready_queue, c))
        /\ call' = Return
        /\ UNCHANGED net

\* LDAP_RET_ERR_UNEXPECTED_RECEIVE: nothing is outstanding.
DecodeUnexpected(c) ==
    LET resp == Head(lc[c].r_buffer)
    IN  /\ resp.last /\ ~IsKeepalive(c, resp)
        /\ lc[c].concurrent_count = 0
        /\ lc' = [lc EXCEPT ![c] = Consumed(c)]
        /\ call' = Return
        /\ UNCHANGED <<queues, net, corrupt>>

LDAP_clnt_decode(c) ==
    /\ Idle \/ (Running("decode") /\ call.no = c)
    /\ c \in open
    /\ lc[c].r_buffer # <<>>
    /\ \/ DecodeEntry(c) \/ DecodeKeepalive(c)
       \/ DecodeAnswer(c) \/ DecodeUnexpected(c)
    /\ UNCHANGED <<open, send_msg_queue, client_count, tid, options>>

DecodeReturn ==
    /\ Running("decode")
    /\ lc[call.no].r_buffer = <<>>
    /\ call' = Return
    /\ UNCHANGED <<open, lc, queues, send_msg_queue, client_count, tid,
                   options, net, corrupt>>

-----------------------------------------------------------------------------
(* LDAP_clnt_keep_alive: a request on every connection that has been quiet *)
(* for the interval.  It must go out in one write, or the connection is    *)
(* closed and the loop ends.                                               *)

LDAP_clnt_keep_alive ==
    /\ heartbeat_type # "NONE"
    /\ Idle
    /\ Begin("keepalive", 0)
    /\ UNCHANGED <<open, lc, queues, send_msg_queue, client_count, tid,
                   options, net, corrupt>>

Quiet(c) ==
    /\ c \in open
    /\ ~lc[c].write_time /\ ~lc[c].read_time /\ lc[c].keepalive_time

FitsInOneWrite(c) ==
    LET n == w_len(c) + MSG_LEN
    IN  max_wbuffer = 0 \/ n <= max_wbuffer

SendKeepalive(c) ==
    /\ tid < MAX_TID
    /\ FitsInOneWrite(c)
    /\ tid' = tid + 1
    /\ lc' = [lc EXCEPT ![c].ktid = tid + 1, ![c].w_buffer = <<>>,
                        ![c].w_curr = 0]
    /\ net' = [net EXCEPT ![c].pending =
                 IF net[c].torn THEN @
                 ELSE @ \union Items(lc[c].w_buffer) \union {tid + 1}]
    /\ NextSlot
    /\ UNCHANGED <<open, queues, send_msg_queue, client_count, options,
                   corrupt>>

KeepAliveStep ==
    /\ Running("keepalive")
    /\ \/ Quiet(call.no) /\ SendKeepalive(call.no)
       \/ Quiet(call.no) /\ Close(call.no) /\ call' = Return
       \/ SkipSlot                            \* not quiet for long enough

-----------------------------------------------------------------------------
(* LDAP_clnt_check_connection closes the connections that timed out.       *)

LDAP_clnt_check_connection ==
    /\ Idle
    /\ Begin("check", 0)
    /\ UNCHANGED <<open, lc, queues, send_msg_queue, client_count, tid,
                   options, net, corrupt>>

MayTimeOut(c) ==
    /\ c \in open
    /\ \/ lc[c].read_time /\ "read" \in Timeouts
       \/ lc[c].write_time /\ "write" \in Timeouts
       \/ lc[c].state = "CONNECTING" /\ "connect" \in Timeouts

CheckStep ==
    /\ Running("check")
    /\ \/ MayTimeOut(call.no) /\ Close(call.no) /\ NextSlot
       \/ SkipSlot

-----------------------------------------------------------------------------
(* The server: answers what it holds, in any order.                        *)

Reply(c) ==
    /\ ~corrupt
    /\ c \in open
    /\ \E m \in net[c].pending :
          \/ net' = [net EXCEPT ![c].pending = @ \ {m},
                       ![c].inbox = Append(@, [tid |-> m, last |-> TRUE])]
          \/ /\ net[c].entries < MAX_ENTRIES
             /\ net' = [net EXCEPT ![c].entries = @ + 1,
                          ![c].inbox = Append(@, [tid |-> m, last |-> FALSE])]
    /\ UNCHANGED <<open, lc, queues, send_msg_queue, client_count, tid,
                   options, call, corrupt>>

-----------------------------------------------------------------------------

Next ==
    \/ SetOption
    \/ LDAP_clnt_open \/ LDAP_clnt_open_no_memory
    \/ \E c \in Slot : LDAP_clnt_close(c)
    \/ LDAP_clnt_close_all \/ CloseAllStep
    \/ \E c \in Slot : SendBind(c) \/ LDAP_clnt_write(c)
    \/ \E c \in Slot : RecvBind(c) \/ LDAP_clnt_read(c)
    \/ Enqueue \/ Flush \/ FlushStep \/ FlushReturn
    \/ \E c \in Slot : SendOn(c)
    \/ \E c \in Slot : LDAP_clnt_decode(c)
    \/ DecodeReturn
    \/ LDAP_clnt_keep_alive \/ KeepAliveStep
    \/ LDAP_clnt_check_connection \/ CheckStep
    \/ \E c \in Slot : Reply(c)

Spec == Init /\ [][Next]_vars

-----------------------------------------------------------------------------
(* Properties.                                                             *)

\* The variables have the types their declarations give them.
TypeOK ==
    /\ open \subseteq Slot
    /\ lc \in [Slot -> LDAP_CLNT]
    /\ ready_queue \in Seq(Slot)
    /\ wait_queue \in Seq(Slot)
    /\ send_msg_queue \in Seq(Nat)
    /\ client_count \in Int
    /\ tid \in Nat
    /\ max_client \in MaxClientValues
    /\ max_concurrent \in MaxConcurrentValues
    /\ call \in Call
    /\ net \in [Slot -> FarEnd]
    /\ corrupt \in BOOLEAN

\* A queue holds a connection at most once, and only open ones.
QueuesLinkOpenOnce ==
    /\ NoRepeat(ready_queue)
    /\ NoRepeat(wait_queue)
    /\ Items(ready_queue) \intersect Items(wait_queue) = {}
    /\ Items(ready_queue) \union Items(wait_queue) \subseteq open

\* The state of a connection tells the queue it is in.  The exception is a
\* connection at its limit that a keepalive response has made ready again.
QueuesMatchState ==
    \A c \in open :
        /\ c \in Items(ready_queue) => lc[c].state \in {"READY", "WAITING"}
        /\ c \in Items(wait_queue) => lc[c].state # "READY"
        /\ lc[c].state # "OPEN" =>
              c \in Items(ready_queue) \union Items(wait_queue)

\* Every connection that was set up is linked in exactly one of the two
\* queues, the one its state stands for: LDAP_clnt_close, which goes by the
\* state, finds it, and no request is given to a connection that is closed.
QueueDiscipline == ~corrupt => QueuesLinkOpenOnce /\ QueuesMatchState

\* Nothing is read on a connection before it is bound.
UnboundReceivesNothing ==
    \A c \in Slot :
        lc[c].state \in {"OPEN", "CONNECTING"} => lc[c].r_buffer = <<>>

\* What a step needs to keep QueueDiscipline: a response can only be decoded
\* on a connection that is bound, so a keepalive response never makes one
\* ready that is not.
QueueInv == UnboundReceivesNothing /\ QueueDiscipline

\* Requests a connection has taken and has not reported to be answered.
Outstanding(c) ==
    LET final(s) == {s[i].tid : i \in {j \in 1..Len(s) : s[j].last}}
    IN  Items(lc[c].w_buffer) \union net[c].pending
          \union final(net[c].inbox) \union final(lc[c].r_buffer)

OutstandingCount(c) ==
    LET finals(s) == Cardinality({j \in 1..Len(s) : s[j].last})
    IN  Len(lc[c].w_buffer) + Cardinality(net[c].pending)
          + finals(net[c].inbox) + finals(lc[c].r_buffer)

\* client_count, which LDAP_clnt_open compares with max_client, is the number
\* of connections in client_array; only memory that ran out makes it differ,
\* and then it is too low, never too high.
ClientCountIsOpen ==
    /\ client_count <= Cardinality(open)
    /\ MAX_NO_MEMORY = 0 => client_count = Cardinality(open)

\* Without keepalives, concurrent_count is the number of requests that the
\* connection has taken and that were not answered, wherever they are.
ConcurrentCountIsOutstanding ==
    heartbeat_type = "NONE" =>
        \A c \in open : lc[c].concurrent_count = OutstandingCount(c)

\* No lost wakeup: a connection that waits has taken at least one request,
\* and without keepalives the response that makes it ready is still to come.
WaitingHasOutstanding ==
    \A c \in open :
        lc[c].state = "WAITING" =>
            /\ lc[c].concurrent_count >= 1
            /\ heartbeat_type = "NONE" => Outstanding(c) # {}

\* The flush never gives a connection more requests than max_concurrent
\* (the largest it was set to), whatever answers arrive in between.
ConcurrencyLimited ==
    heartbeat_type = "NONE" /\ ~DirectSend =>
        \A c \in open :
            \E v \in MaxConcurrentValues : OutstandingCount(c) <= v

\* A request is in one place only: in the queue, or with one connection, and
\* there unsent, with the server, or in a response on its way to the caller.
\* So none is sent twice.
NoRequestTwice ==
    /\ NoRepeat(send_msg_queue)
    /\ \A c \in Slot :
          /\ Cardinality(Outstanding(c)) = OutstandingCount(c)
          /\ Items(send_msg_queue) \intersect Outstanding(c) = {}
          /\ \A d \in Slot \ {c} : Outstanding(c) \intersect Outstanding(d) = {}

\* Output that is waiting has its write timer running and input that is
\* incomplete its read timer, so that a peer that stops in the middle of a
\* message is closed by LDAP_clnt_check_connection.  (A request given to a
\* connection that is not bound yet is the exception: the bind response
\* stops the write timer.)
PendingIoIsTimed ==
    \A c \in open :
        /\ lc[c].w_buffer # <<>> /\ ~DirectSend => lc[c].write_time
        /\ lc[c].r_buffer # <<>> \/ lc[c].r_part > 0 => lc[c].read_time

\* A keepalive response puts a connection that is stuck at its limit back to
\* work ("Reset deadlock queue" in LDAP_clnt_decode) and leaves the queues
\* intact: no queue head is left pointing to an item that is not linked.
ResetKeepsQueues == ~corrupt

\* A server that only answers what it was sent is never reported to have sent
\* "unexpected data": the response to a keepalive is told apart by its ktid.
NoUnexpectedData ==
    [][\A c \in Slot : ~(LDAP_clnt_decode(c) /\ DecodeUnexpected(c))]_vars

\* With one request at a time on a connection, the entries that the caller
\* finds with a search result, which ldap_decode_response collects in one
\* buffer for the whole connection, are those of that search.
EntriesOfOneSearch ==
    [][heartbeat_type = "NONE" /\ MaxConcurrentValues = {1} /\ ~DirectSend =>
         \A c \in Slot :
             LDAP_clnt_decode(c) /\ DecodeAnswer(c) =>
                 Items(lc[c].rber) \subseteq {Head(lc[c].r_buffer).tid}]_vars

-----------------------------------------------------------------------------
(* The caller's event loop serves every connection again and again, calls  *)
(* LDAP_clnt_send_message again and again, if only to flush, and every     *)
(* call returns; the server answers.  The code starts nothing by itself,   *)
(* so that the fairness is the caller's.                                   *)

Fairness ==
    /\ \A c \in Slot : /\ SF_vars(SendBind(c))
                       /\ SF_vars(RecvBind(c))
                       /\ SF_vars(LDAP_clnt_write(c))
                       /\ SF_vars(LDAP_clnt_read(c))
                       /\ SF_vars(LDAP_clnt_decode(c))
                       /\ WF_vars(Reply(c))
    /\ SF_vars(Flush)
    /\ WF_vars(FlushStep \/ FlushReturn \/ DecodeReturn \/ CloseAllStep
                 \/ KeepAliveStep \/ CheckStep)

FairSpec == Spec /\ Fairness

\* As long as some connection is not closed, every request leaves the queue:
\* a connection at its limit becomes ready again and takes it.
RequestsLeaveQueue ==
    (\E c \in Slot : <>[](c \in Items(ready_queue) \union Items(wait_queue)))
        => \A m \in 1..MAX_TID :
              (m \in Items(send_msg_queue)) ~> (m \notin Items(send_msg_queue))

=============================================================================
