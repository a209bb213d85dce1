----------------------------- MODULE HttpServer -----------------------------
(***************************************************************************)
(* The HTTP server of libs/stacks/http/http.c: the session table, the read *)
(* buffer that grows with the announced body, the decoder that finds one   *)
(* request at the front of that buffer, the queue of responses and the     *)
(* timeouts.  Hosts are admitted by HostAuthen.                            *)
(*                                                                         *)
(* The library runs in the thread of its caller, so every API call is one  *)
(* step, and a call that fails without changing anything is a stuttering   *)
(* step.  A timer field is TRUE when it is not 0, and may or may not have  *)
(* expired when it is looked at.  Memory does not run out.  The texts of   *)
(* the pages, the status codes and the statistics are left out.            *)
(*                                                                         *)
(* The bytes of a request are known by the request they belong to and      *)
(* their place in it, so that what is delivered can be compared with what  *)
(* was sent.  Of the bytes that stay in the read buffer behind the ones it *)
(* counts only the number is kept: they matter because the end of a header *)
(* is looked for with strstr, which does not stop at len.                  *)
(*                                                                         *)
(* The application (external) closes a session after an error, and takes a *)
(* request out of the read buffer when it answers it: until then           *)
(* header_length keeps the session from being idle.  It may or may not     *)
(* clear the buffer behind what it leaves.                                 *)
(***************************************************************************)
EXTENDS HostAuthen, Rings, FiniteSets, SequencesExt

CONSTANTS
    HTTP_MAX_SESSION,      \* size of the session array
    INIT_SESSION,          \* max_session given to HTTP_svr_init
    HTTP_DATA_BUFFER,      \* the read buffer grows by multiples of this
    HTTP_MAX_HEADER_SIZE,
    MIN_HEADER,            \* shortest header that is looked at
    max_w_len,             \* most bytes one send may take, or 0
    TimeoutSettings,       \* the sets of timeouts the application may set
    SessionLimits,         \* the limits the application may set
    Workloads,             \* what the peers send: a stream for each session
    Response,              \* lengths of the application's responses
    Hosts, Files           \* the hosts that connect, the host files

ASSUME HttpAssumption ==
    /\ HTTP_MAX_SESSION \in Nat
    /\ INIT_SESSION \in Nat
    /\ HTTP_DATA_BUFFER \in Nat \ {0}
    /\ HTTP_MAX_HEADER_SIZE \in Nat /\ HTTP_MAX_HEADER_SIZE <= HTTP_DATA_BUFFER
    /\ MIN_HEADER \in Nat
    /\ max_w_len \in Nat
    /\ TimeoutSettings \subseteq SUBSET {"read", "write", "idle"}
    /\ SessionLimits \subseteq Nat
    /\ Response \subseteq Nat \ {0}
    /\ Hosts # {}
    /\ Files \subseteq HostFiles

VARIABLES
    listening,      \* the listener is open
    max_session,
    timeouts,       \* the timeouts that are set
    used,           \* the slots whose sock >= 0
    session,        \* the HSSESSION of each slot
    last_session,   \* highest slot in use, or -1
    session_count,
    version,        \* version given to the last session
    authen,         \* the list of hosts
    files,          \* the files it was last loaded from
    workload,       \* the stream of each session, by version
    peer            \* the far end of each session

table == <<listening, max_session, timeouts, used, last_session, session_count, version,
           authen, files, workload>>

vars == <<table, session, peer>>

-----------------------------------------------------------------------------
(* Requests and the bytes they are made of.                                *)

\* Content-Length is missing, or not a number.
Missing == -1
Invalid == -2

(***************************************************************************)
(* crlf line ends stand in front of a header of `header' bytes, the last   *)
(* one standing for the empty line, and a body of `body' bytes follows.    *)
(***************************************************************************)
Request ==
    [method : {"GET", "POST", "PUT", "DELETE", "TRACE", "HEAD", "OPTIONS", "CONNECT", "none"},
     version : BOOLEAN, uri : BOOLEAN, length : Nat \union {Missing, Invalid},
     crlf : Nat, header : Nat \ {0}, body : Nat]

\* The body is what the request line and Content-Length announce; behind a
\* request that is refused there may be anything.
WellFormed(q) ==
    /\ q.method \in {"PUT", "POST"} /\ q.length \in Nat => q.body = q.length
    /\ q.method \notin {"PUT", "POST", "none"} => q.body = 0

\* A peer sends one request behind the other on each connection.
ASSUME WorkloadAssumption == Workloads \subseteq Seq(Seq({q \in Request : WellFormed(q)}))

Octet == Nat \X Nat
Nul == <<0, 0>>

Bytes(k, q) == [n \in 1 .. q.crlf + q.header + q.body |-> <<k, n>>]

\* What the decoder has to deliver of the request: no line ends in front.
Whole(k, q) == SubSeq(Bytes(k, q), q.crlf + 1, q.crlf + q.header + q.body)

StreamBytes(stream) == FlattenSeq([k \in DOMAIN stream |-> Bytes(k, stream[k])])

IsCrlf(stream, b) == b # Nul /\ b[2] <= stream[b[1]].crlf
IsHeaderEnd(stream, b) ==
    b # Nul /\ b[2] = stream[b[1]].crlf + stream[b[1]].header

-----------------------------------------------------------------------------
(* State.                                                                  *)

Array == 0 .. HTTP_MAX_SESSION - 1

\* The slots HTTP_svr_init prepares.  The rest of the array keeps sock = 0,
\* which reads as a slot in use.
Slot == {i \in Array : i < INIT_SESSION}

HSSESSION ==
    [version       : Nat,
     data          : Seq(Octet),    \* r_buffer->data, len bytes
     stale         : Nat,           \* bytes behind them that were received earlier
     size          : Nat,           \* r_buffer->size, 0 without a buffer
     header_length : Int,
     body_length   : Int,
     w_buffer      : Seq(Nat \X Nat),  \* responses: request, length
     w_curr        : Nat,
     read_time     : BOOLEAN,
     write_time    : BOOLEAN,
     result        : {"new", "wait", "data", "error", "failed", "overrun"}]

\* The result of the last call is what the application acts on.  "overrun" is
\* a header that was taken to end behind the bytes received: what is made of
\* it depends on what stands there, and the session is not followed further.
Peer ==
    [host : Hosts, files : Files,
     todo : Seq(Octet),             \* sent, not received
     taken : Seq(Seq(Octet)),       \* requests the application was given
     left : BOOLEAN,                \* the application did not clear the buffer
     answers : Seq(Nat \X Nat),     \* responses the application has made
     got : Seq(Octet)]              \* bytes of responses the peer has

NewPeer(host, v) ==
    [host |-> host, files |-> files,
     todo |-> StreamBytes(workload[v]), taken |-> <<>>, left |-> FALSE,
     answers |-> <<>>, got |-> <<>>]

Stream(i) == workload[session[i].version]

\* ADJUST_SIZE
Adjusted(len) ==
    LET rest == len % HTTP_DATA_BUFFER
    IN  IF rest > 0 THEN len + HTTP_DATA_BUFFER - rest ELSE len

\* http_alloc_buffer on a buffer that is there: room for len more bytes.  A
\* buffer that grows is cleared behind its len.
http_alloc_buffer(s, len) ==
    IF Len(s.data) + len > s.size
    THEN [s EXCEPT !.size = Adjusted(Len(s.data) + len), !.stale = 0] ELSE s

NewSession(v) ==
    [version |-> v, data |-> <<>>, stale |-> 0, size |-> Adjusted(HTTP_DATA_BUFFER),
     header_length |-> -1, body_length |-> -1,
     w_buffer |-> <<>>, w_curr |-> 0,
     read_time |-> FALSE, write_time |-> FALSE, result |-> "new"]

\* HTTP_svr_init.
Init ==
    /\ listening = FALSE
    /\ max_session = IF INIT_SESSION < HTTP_MAX_SESSION THEN INIT_SESSION ELSE HTTP_MAX_SESSION
    /\ timeouts \in TimeoutSettings
    /\ used = {}
    /\ session = [i \in Slot |-> [NewSession(0) EXCEPT !.size = 0]]
    /\ last_session = -1
    /\ session_count = 0
    /\ version = 0
    /\ files \in Files
    /\ authen = rauthen_init({}, files)
    /\ workload \in Workloads
    /\ peer = [i \in Slot |-> [host |-> CHOOSE h \in Hosts : TRUE, files |-> files,
                               todo |-> <<>>, taken |-> <<>>, left |-> FALSE,
                               answers |-> <<>>, got |-> <<>>]]

-----------------------------------------------------------------------------
(* Options, the listener, the list of hosts and the session table.         *)

\* A limit above the size of the array is refused.
AnyLimit == SessionLimits
AcceptedLimits == {n \in SessionLimits : n <= HTTP_MAX_SESSION}

\* HTTP_svr_set_option for the limit and for the timeouts.
HTTP_svr_set_option ==
    /\ \/ /\ max_session' \in AcceptedLimits
          /\ UNCHANGED timeouts
       \/ /\ timeouts' \in TimeoutSettings
          /\ UNCHANGED max_session
    /\ UNCHANGED <<listening, used, session, last_session, session_count, version,
                   authen, files, workload, peer>>

\* Opening the port again while it is bound fails.
HTTP_svr_open ==
    /\ ~listening
    /\ listening' = TRUE
    /\ UNCHANGED <<max_session, timeouts, used, session, last_session, session_count, version,
                   authen, files, workload, peer>>

\* The application loads the list again from what the files are now.
ReloadHosts ==
    /\ files' \in Files
    /\ authen' = rauthen_init(authen, files')
    /\ UNCHANGED <<listening, max_session, timeouts, used, session, last_session,
                   session_count, version, workload, peer>>

\* The slots below the limit whose sock < 0.
FreeSlots == {i \in Slot \ used : i < max_session}
FirstFree == CHOOSE i \in FreeSlots : \A j \in FreeSlots : i <= j

\* A connection is accepted; a host that is not on the list is turned away.
HTTP_sess_open ==
    /\ listening
    /\ FreeSlots # {}
    /\ version < Len(workload)
    /\ \E host \in Hosts :
          /\ rauthen_verify(authen, host)
          /\ peer' = [peer EXCEPT ![FirstFree] = NewPeer(host, version + 1)]
    /\ used' = used \union {FirstFree}
    /\ session' = [session EXCEPT ![FirstFree] = NewSession(version + 1)]
    /\ last_session' = IF last_session < FirstFree THEN FirstFree ELSE last_session
    /\ version' = version + 1
    /\ session_count' = session_count + 1
    /\ UNCHANGED <<listening, max_session, timeouts, authen, files, workload>>

\* The highest slot in use below no, or -1: where the loop over last_session
\* stops.
OneBelow(no) == no - 1
LastBelow(no) ==
    LET below == {i \in used : i < no} \union {-1}
    IN  CHOOSE i \in below : \A j \in below : j <= i

\* The buffers of a session that is closed are freed; the rest is kept.
Freed(s) == [s EXCEPT !.data = <<>>, !.stale = 0, !.size = 0, !.w_buffer = <<>>]

\* last_session moves before the slot is found to be free.
HTTP_sess_close(no) ==
    /\ last_session' = IF last_session = no THEN LastBelow(no) ELSE last_session
    /\ \/ /\ no \in used
          /\ used' = used \ {no}
          /\ session' = [session EXCEPT ![no] = Freed(@)]
          /\ session_count' = session_count - 1
       \/ /\ no \notin used
          /\ UNCHANGED <<used, session, session_count>>
    /\ UNCHANGED <<listening, max_session, timeouts, version, authen, files, workload, peer>>

\* The slots up to last_session are closed, then the listener.
HTTP_svr_close ==
    /\ used' = {i \in used : i > last_session}
    /\ session' = [i \in Slot |-> IF i <= last_session THEN Freed(session[i]) ELSE session[i]]
    /\ last_session' = -1
    /\ session_count' = 0
    /\ listening' = FALSE
    /\ UNCHANGED <<max_session, timeouts, version, authen, files, workload, peer>>

\* HS_IS_SESSION_IDLE
IsIdle(s) == s.w_buffer = <<>> /\ s.header_length < 0 /\ s.data = <<>>

MayTimeOut(s) ==
    \/ s.read_time /\ "read" \in timeouts
    \/ s.write_time /\ "write" \in timeouts
    \/ IsIdle(s) /\ "idle" \in timeouts

\* The first session that has timed out is closed.
HTTP_verify_connection ==
    \E i \in used :
        /\ i <= last_session
        /\ MayTimeOut(session[i])
        /\ HTTP_sess_close(i)

-----------------------------------------------------------------------------
(* HTTP_sess_read.                                                         *)

\* The buffer is made to hold the rest of a request whose header is known.
GrownForBody(s) ==
    IF s.body_length > Len(s.data) THEN http_alloc_buffer(s, s.body_length) ELSE s
Grown(s) ==
    IF s.header_length + s.body_length > Len(s.data)
    THEN http_alloc_buffer(s, s.header_length + s.body_length) ELSE s

Room(s) == Grown(s).size - Len(s.data)

MayRead(i) == i \in used /\ session[i].result \in {"new", "wait", "data"}

\* Some of the bytes that are there fit into the buffer.  They are not
\* terminated: older bytes may follow them.
HTTP_sess_read(i) ==
    /\ MayRead(i)
    /\ LET s == Grown(session[i])
       IN  \E r \in 1 .. Room(s) :
              /\ r <= Len(peer[i].todo)
              /\ session' = [session EXCEPT ![i] =
                    [s EXCEPT !.data = @ \o SubSeq(peer[i].todo, 1, r),
                              !.stale = IF @ > r THEN @ - r ELSE 0,
                              !.read_time = TRUE,
                              !.result = "new"]]
              /\ peer' = [peer EXCEPT ![i].todo = SubSeq(@, r + 1, Len(@))]
    /\ UNCHANGED table

\* recv fails, or returns 0: the peer has closed, or no byte was asked for.
ReadFails(i) ==
    /\ MayRead(i)
    /\ session' = [session EXCEPT ![i] = [Grown(@) EXCEPT !.result = "failed"]]
    /\ UNCHANGED <<table, peer>>

-----------------------------------------------------------------------------
(* HTTP_sess_decode.                                                       *)

\* The bytes behind the line ends that stand in front.
Skipped(stream, data) ==
    LET skip == CHOOSE n \in 0 .. Len(data) :
                    /\ \A m \in 1 .. n : IsCrlf(stream, data[m])
                    /\ n = Len(data) \/ ~IsCrlf(stream, data[n + 1])
    IN  SubSeq(data, skip + 1, Len(data))

HeaderEnds(stream, data) == {n \in DOMAIN data : IsHeaderEnd(stream, data[n])}

\* data[header_length] = 0: the first byte behind the header is lost.
Cut(data, n) == IF n < Len(data) THEN [data EXCEPT ![n + 1] = Nul] ELSE data

\* The header is complete: what the request line and Content-Length say.
LengthForAll(s, q) ==
    CASE q.method = "none" \/ ~q.version ->
             [s EXCEPT !.data = Cut(@, s.header_length), !.result = "error"]
      [] q.method # "none" /\ q.version /\ ~q.uri ->
             [s EXCEPT !.result = "error"]
      [] OTHER -> [s EXCEPT !.body_length = q.length, !.result = "new"]
Parsed(s, q) ==
    CASE q.method = "none" \/ ~q.version ->
             [s EXCEPT !.data = Cut(@, s.header_length), !.result = "error"]
      [] q.method # "none" /\ q.version /\ ~q.uri ->
             [s EXCEPT !.result = "error"]
      [] q.method \notin {"none", "PUT", "POST"} /\ q.version /\ q.uri ->
             [s EXCEPT !.body_length = 0, !.result = "data"]
      [] OTHER ->
             CASE q.length = Missing -> [s EXCEPT !.body_length = 0, !.result = "failed"]
               [] q.length = Invalid -> [s EXCEPT !.result = "failed"]
               [] OTHER -> [s EXCEPT !.body_length = q.length, !.result = "new"]

\* The header part: line ends are skipped, the end of the header is looked for.
\* Skipping moves the rest to the front and leaves as many bytes behind it.
HeaderDecoded(stream, s) ==
    LET d    == Skipped(stream, s.data)
        ends == HeaderEnds(stream, d)
        h    == CHOOSE n \in ends : \A m \in ends : n <= m
        t    == [s EXCEPT !.data = d, !.stale = @ + Len(s.data) - Len(d)]
    IN  CASE d = <<>> -> [t EXCEPT !.read_time = FALSE, !.result = "wait"]
          [] d # <<>> /\ ends = {} ->
                 [t EXCEPT !.result =
                     IF Len(d) >= HTTP_MAX_HEADER_SIZE THEN "failed" ELSE "wait"]
          [] OTHER ->
                 IF h < MIN_HEADER
                 THEN [t EXCEPT !.header_length = h, !.result = "failed"]
                 ELSE Parsed([t EXCEPT !.header_length = h], stream[d[1][1]])

(***************************************************************************)
(* Only skipping writes a terminator.  Without it strstr goes on into the  *)
(* older bytes, and when it finds the end of the header there,             *)
(* header_length is more than len.                                         *)
(***************************************************************************)
SearchGoesOn(stream, s) ==
    /\ s.header_length < 0
    /\ ~IsCrlf(stream, s.data[1])
    /\ HeaderEnds(stream, s.data) = {}

\* Then the body is waited for.
BodyDecoded(s) ==
    [s EXCEPT !.result = IF Len(s.data) < s.header_length + s.body_length
                         THEN "wait" ELSE "data"]

HTTP_sess_decode(i) ==
    /\ i \in used
    /\ session[i].result = "new"
    /\ session[i].data # <<>>
    /\ \/ LET s == IF session[i].header_length < 0
                   THEN HeaderDecoded(Stream(i), session[i]) ELSE session[i]
          IN  session' = [session EXCEPT ![i] = IF s.result = "new" THEN BodyDecoded(s) ELSE s]
       \/ /\ SearchGoesOn(Stream(i), session[i])
          /\ \E n \in 1 .. session[i].stale, result \in {"overrun", "failed"} :
                session' = [session EXCEPT ![i] =
                    [@ EXCEPT !.header_length = Len(session[i].data) + n, !.result = result]]
    /\ UNCHANGED <<table, peer>>

-----------------------------------------------------------------------------
(* The application answers: the response goes to the end of w_buffer, and  *)
(* the request leaves the read buffer.                                     *)

Answer(i, len) ==
    /\ i \in used
    /\ session[i].result \in {"data", "error"}
    /\ LET s == session[i]
           n == s.header_length + s.body_length
           k == Len(peer[i].answers) + 1
       IN  \/ /\ s.result = "data"
              /\ \E left \in BOOLEAN :
                 /\ session' = [session EXCEPT ![i] =
                    [s EXCEPT !.data = SubSeq(@, n + 1, Len(@)),
                              !.stale = IF left THEN @ + n ELSE 0,
                              !.header_length = -1, !.body_length = -1,
                              !.read_time = @ /\ n < Len(s.data),
                              !.w_buffer = AppendItem(@, <<k, len>>),
                              !.result = "new"]]
                 /\ peer' = [peer EXCEPT ![i].taken = Append(@, SubSeq(s.data, 1, n)),
                                         ![i].left = @ \/ left,
                                         ![i].answers = Append(@, <<k, len>>)]
           \/ /\ s.result = "error"
              /\ session' = [session EXCEPT
                    ![i].w_buffer = AppendItem(@, <<k, len>>), ![i].result = "failed"]
              /\ peer' = [peer EXCEPT ![i].answers = Append(@, <<k, len>>)]
    /\ UNCHANGED table

-----------------------------------------------------------------------------
(* HTTP_sess_write.                                                        *)

PageBytes(r) == [n \in 1 .. r[2] |-> <<r[1], n>>]

SendLimit(s) ==
    LET n == Head(s.w_buffer)[2] - s.w_curr
    IN  IF max_w_len > 0 /\ n > max_w_len THEN max_w_len ELSE n

\* After r bytes were sent: a response that is complete leaves the queue.
PositionKept(s, r) ==
    IF s.w_curr + r >= Head(s.w_buffer)[2]
    THEN [s EXCEPT !.w_buffer = Tail(@), !.write_time = Tail(s.w_buffer) # <<>>]
    ELSE [s EXCEPT !.w_curr = @ + r, !.write_time = TRUE]
TimerKept(s, r) ==
    IF s.w_curr + r >= Head(s.w_buffer)[2]
    THEN [s EXCEPT !.w_curr = 0, !.w_buffer = Tail(@), !.write_time = TRUE]
    ELSE [s EXCEPT !.w_curr = @ + r, !.write_time = TRUE]
Sent(s, r) ==
    IF s.w_curr + r >= Head(s.w_buffer)[2]
    THEN [s EXCEPT !.w_curr = 0, !.w_buffer = Tail(@),
                   !.write_time = Tail(s.w_buffer) # <<>>,
                   !.result = IF "idle" \in timeouts THEN @ ELSE "failed"]
    ELSE [s EXCEPT !.w_curr = @ + r, !.write_time = TRUE]

\* Without an idle timeout HTTP_RET_SENT_CLOSE tells the application to close
\* the session, also when more responses are queued.
HTTP_sess_write(i) ==
    /\ i \in used
    /\ LET s == session[i]
       IN  /\ s.w_buffer # <<>>
           /\ \E r \in 1 .. SendLimit(s) :
                 /\ session' = [session EXCEPT ![i] = Sent(s, r)]
                 /\ peer' = [peer EXCEPT ![i].got =
                       @ \o SubSeq(PageBytes(Head(s.w_buffer)), s.w_curr + 1, s.w_curr + r)]
    /\ UNCHANGED table

Next ==
    \/ HTTP_svr_set_option \/ ReloadHosts
    \/ HTTP_svr_open \/ HTTP_svr_close
    \/ HTTP_sess_open
    \/ \E no \in Slot : HTTP_sess_close(no)
    \/ HTTP_verify_connection
    \/ \E i \in Slot : HTTP_sess_read(i) \/ ReadFails(i)
    \/ \E i \in Slot : HTTP_sess_decode(i)
    \/ \E i \in Slot, len \in Response : Answer(i, len)
    \/ \E i \in Slot : HTTP_sess_write(i)

Spec == Init /\ [][Next]_vars

-----------------------------------------------------------------------------
(* Properties.                                                             *)

\* The variables have the types their declarations give them.
TypeOK ==
    /\ listening \in BOOLEAN
    /\ max_session \in 0 .. HTTP_MAX_SESSION
    /\ timeouts \subseteq {"read", "write", "idle"}
    /\ used \subseteq Slot
    /\ session \in [Slot -> HSSESSION]
    /\ last_session \in Slot \union {-1}
    /\ session_count \in Int
    /\ version \in Nat
    /\ peer \in [Slot -> Peer]

\* However sessions are opened and closed, and the limit lowered or raised
\* while they are open, the loops that stop at last_session reach every
\* session, last_session is one of them, and session_count counts them.
TableSound ==
    /\ \A i \in used : i <= last_session
    /\ last_session = -1 \/ last_session \in used
    /\ session_count = Cardinality(used)

\* What the application is given are the requests the peer sent, in their
\* order, each whole and with nothing of the next one, however the stream was
\* cut into reads, also behind line ends that are skipped and when the buffer
\* had to grow, and never a request of an earlier session in the slot.  The
\* end of a header is found in older bytes of the buffer only when line ends
\* stand in front of the request, or the application did not clear the buffer
\* behind an earlier one.
RequestsFramed ==
    \A i \in used :
        /\ \A n \in DOMAIN peer[i].taken : peer[i].taken[n] = Whole(n, Stream(i)[n])
        /\ session[i].result = "overrun" =>
              peer[i].left \/ Stream(i)[Len(peer[i].taken) + 1].crlf > 0

\* A session that waits for the rest of a request has room for it: recv is
\* never asked for no byte at all, whose result 0 reads as a closed connection.
WaitingHasRoom ==
    \A i \in used : session[i].result = "wait" => Room(session[i]) > 0

Pending(s) ==
    LET bytes == FlattenSeq([n \in DOMAIN s.w_buffer |-> PageBytes(s.w_buffer[n])])
    IN  SubSeq(bytes, s.w_curr + 1, Len(bytes))

\* What the peer has got and what is still to be sent are the responses the
\* application made, in order, no byte lost or sent twice, also when a slot
\* is used again after a response was sent in part.
ResponsesInOrder ==
    \A i \in used :
        peer[i].got \o Pending(session[i])
            = FlattenSeq([n \in DOMAIN peer[i].answers |-> PageBytes(peer[i].answers[n])])

\* A request that was begun has the read timer running and a response that
\* was begun the write timer, so that a peer that stops is closed; and the
\* write timer runs only while there is something to send.
StalledIoIsTimed ==
    \A i \in used :
        /\ session[i].data # <<>> => session[i].read_time
        /\ session[i].w_curr > 0 => session[i].write_time
        /\ session[i].write_time => session[i].w_buffer # <<>>

\* Every session was opened by a host that the end of a line of the file
\* loaded last before names, with nothing but comment in front of it: lines
\* without an end, what a long line holds beside a host, files that are not
\* trusted and lists that were replaced admit nobody.
AdmittedByLatestFile ==
    \A i \in used :
        /\ peer[i].files.system \/ peer[i].files.trusted
        /\ \E n \in DOMAIN peer[i].files.lines :
              LET line == peer[i].files.lines[n]
                  p    == LastPiece(line)
              IN  /\ line.ended /\ ~p.blank /\ ~p.negative
                  /\ p.name \in {peer[i].host, Everyone}
                  /\ \A m \in 1 .. Len(line.pieces) - 1 : line.pieces[m].blank
=============================================================================
