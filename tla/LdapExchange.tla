---------------------------- MODULE LdapExchange ----------------------------
(***************************************************************************)
(* A client connection and the server session at its other end, byte by    *)
(* byte: the client generates requests, the server frames and decodes them *)
(* and answers them in any order, the client frames and decodes the        *)
(* answers and turns the entries into objects.  TCP carries the bytes in   *)
(* order but cuts them anywhere.                                           *)
(*                                                                         *)
(* The connection pool and the session table around this exchange are in   *)
(* LdapClient and LdapServer; here the connection is bound, it never       *)
(* fails, and neither side is at its limit of concurrent requests.         *)
(***************************************************************************)
EXTENDS LdapDecoder, LdapFraming
LOCAL INSTANCE SequencesExt

CONSTANTS
    Workloads,  \* records [tid, jobs]: dc->tid and jobs [q, answers]
    Cuts,       \* sizes at which a receive may end before all the bytes
    MaxCuts     \* bound on such receives in a behaviour

VARIABLES
    jobs,       \* what the application sends, and how it answers
    tid,        \* dc->tid
    sent,       \* identifiers and messages of the requests sent
    up,         \* bytes on their way to the server
    session,    \* the server's receive buffer and framing
    delivered,  \* requests decoded (sess->rdata), in order
    answered,   \* positions in delivered that were answered
    down,       \* bytes on their way to the client
    client,     \* the client's receive buffer, framing, diagnosticMessage and rber
    reply,      \* the response the client's application is looking at, or None
    results,    \* responses the client's application has taken
    cuts        \* receives that were cut short

vars == <<jobs, tid, sent, up, session, delivered, answered, down, client, reply, results, cuts>>

None == <<>>

Init ==
    /\ \E w \in Workloads : jobs = w.jobs /\ tid = w.tid
    /\ sent = <<>> /\ up = <<>> /\ delivered = <<>> /\ answered = {} /\ down = <<>>
    /\ session = [buffer |-> <<>>, frame |-> NoFrame]
    /\ client = [buffer |-> <<>>, frame |-> NoFrame, diag |-> <<>>, rber |-> <<>>]
    /\ reply = None /\ results = <<>> /\ cuts = 0

-----------------------------------------------------------------------------
(* Sending *)

tid_increment(last) ==
    LET next == IF last = -1 THEN 1 ELSE last + 1
    IN  IF next >= 2147483647 THEN 1 ELSE next

Generate ==
    LET next == tid_increment(tid)
        message == Request(next, jobs[Len(sent) + 1].q)
    IN  /\ Len(sent) < Len(jobs)
        /\ tid' = next
        /\ sent' = Append(sent, [tid |-> next, message |-> message])
        /\ up' = up \o message
        /\ UNCHANGED <<jobs, session, delivered, answered, down, client, reply, results, cuts>>

\* The server's application answers request k: entries if any, then the result.
Answer(k) ==
    /\ k \notin answered
    /\ answered' = answered \cup {k}
    /\ down' = down \o FlattenSeq([n \in DOMAIN jobs[k].answers |->
                                      Response(delivered[k].tid, jobs[k].answers[n])])
    /\ UNCHANGED <<jobs, tid, sent, up, session, delivered, client, reply, results, cuts>>

-----------------------------------------------------------------------------
(* Receiving *)

\* The sizes a receive from these bytes may have: all of them, or a cut.
Received(bytes) ==
    {Len(bytes)} \cup (IF cuts < MaxCuts THEN {n \in Cuts : n < Len(bytes)} ELSE {})

Cut(n, bytes) == IF n < Len(bytes) THEN cuts + 1 ELSE cuts

\* A mutated form of Buffered: the bytes are received at the front of the buffer.
BufferedInFront(buffer, bytes) == bytes

\* recv writes behind the bytes that are in the buffer.
Buffered(buffer, bytes) == buffer \o bytes

SessRecv ==
    /\ up # <<>>
    /\ \E n \in Received(up) :
           /\ session' = [session EXCEPT !.buffer = Buffered(@, SubSeq(up, 1, n))]
           /\ up' = SubSeq(up, n + 1, Len(up))
           /\ cuts' = Cut(n, up)
    /\ UNCHANGED <<jobs, tid, sent, delivered, answered, down, client, reply, results>>

ClntRecv ==
    /\ down # <<>>
    /\ \E n \in Received(down) :
           /\ client' = [client EXCEPT !.buffer = Buffered(@, SubSeq(down, 1, n))]
           /\ down' = SubSeq(down, n + 1, Len(down))
           /\ cuts' = Cut(n, down)
    /\ UNCHANGED <<jobs, tid, sent, up, session, delivered, answered, reply, results>>

-----------------------------------------------------------------------------
(* Decoding *)

\* A request that cannot be read, or an unbind, is not delivered.
WithRequest(requests, r) ==
    IF r.q.op \in {"malformed", "unbind"} THEN requests ELSE Append(requests, r)

\* LDAP_sess_decode: one request, if it is complete.
SessDecode ==
    LET x == Framed(session)
    IN  /\ IF Complete(x)
           THEN /\ delivered' = WithRequest(delivered, ldap_decode_request(FromBody(x)))
                /\ session' = Taken(x)
           ELSE /\ x # session
                /\ session' = x
                /\ UNCHANGED delivered
        /\ UNCHANGED <<jobs, tid, sent, up, answered, down, client, reply, results, cuts>>

\* The loop of LDAP_clnt_decode: entries are collected until a response that
\* ends a request, or until no message is complete.
RECURSIVE ClntLoop(_)
ClntLoop(c) ==
    LET x == Framed(c)
        r == ldap_decode_response(FromBody(x), x.frame.length, x.diag, x.rber)
        y == [Taken(x) EXCEPT !.diag = r.diag, !.rber = r.rber]
    IN  IF ~Complete(x) THEN [client |-> x, reply |-> None]
        ELSE IF r.tag = 100 THEN ClntLoop(y)
        ELSE [client |-> y, reply |-> r]

LDAP_clnt_decode ==
    LET done == ClntLoop(client)
    IN  /\ reply = None
        /\ done.client # client
        /\ client' = done.client
        /\ reply' = done.reply
        /\ UNCHANGED <<jobs, tid, sent, up, session, delivered, answered, down, results, cuts>>

(***************************************************************************)
(* The application looks at the response before it decodes the next one:   *)
(* result code, names and message, and the objects by LBER_object_decode,  *)
(* which releases rber.                                                    *)
(***************************************************************************)
LBER_object_decode ==
    /\ reply # None
    /\ results' = Append(results,
           [tid |-> reply.tid, code |-> reply.code, matched |-> reply.matched,
            message |-> StringIn(reply.diag),
            objects |-> ber_attr_to_obj(client.rber, 1, Len(client.rber), <<>>)])
    /\ client' = [client EXCEPT !.rber = <<>>]
    /\ reply' = None
    /\ UNCHANGED <<jobs, tid, sent, up, session, delivered, answered, down, cuts>>

Next ==
    \/ Generate
    \/ SessRecv
    \/ SessDecode
    \/ \E k \in DOMAIN delivered : Answer(k)
    \/ ClntRecv
    \/ LDAP_clnt_decode
    \/ LBER_object_decode

Spec == Init /\ [][Next]_vars

-----------------------------------------------------------------------------
(* Properties *)

\* What the server should see of a request: the arguments of its generator.
Arguments(q) ==
    CASE q.op = "search" ->
             [op |-> "search", dn |-> q.dn, deref |-> q.deref, filter |-> Meaning(q.filter),
              scope |-> CASE q.scope = "one" -> 1 [] q.scope = "sub" -> 2 [] OTHER -> 0,
              attrs |-> q.attrs]
      [] q.op = "moddn" -> [op |-> "moddn", dn |-> q.dn, rdn |-> q.rdn,
                            delete_flag |-> q.delete_flag]
      [] q.op = "extended" -> [op |-> "extended", oid |-> q.oid, value |-> Tagged(48, q.value)]
      [] q.op = "extended_common" -> [op |-> "extended", oid |-> q.oid, value |-> q.value]
      [] q.op = "add" -> [op |-> "add", dn |-> q.dn, attrs |-> q.attrs]
      [] q.op = "modify" -> [op |-> "modify", dn |-> q.dn, mods |-> q.mods]
      [] q.op = "delete" -> [op |-> "delete", dn |-> q.dn]

Agrees(got, wanted) ==
    \A f \in DOMAIN wanted : f \in DOMAIN got /\ got[f] = wanted[f]

(***************************************************************************)
(* However the bytes are cut and whatever follows them, the k-th request   *)
(* the server decodes is the k-th one the client generated: its identifier *)
(* and every argument of its generator, at every length of the fields.     *)
(***************************************************************************)
RequestsIntact ==
    \A k \in DOMAIN delivered :
        /\ k \in DOMAIN sent
        /\ delivered[k].tid = sent[k].tid
        /\ Agrees(delivered[k].q, Arguments(jobs[k].q))

(***************************************************************************)
(* The controls of a request arrive with it, types and values, in front of *)
(* whatever the control loop reads behind the message.                     *)
(***************************************************************************)
ControlsArrive ==
    \A k \in DOMAIN delivered :
        IsPrefix([n \in DOMAIN jobs[k].q.controls |->
                     [type |-> jobs[k].q.controls[n].type, value |-> jobs[k].q.controls[n].value]],
                 delivered[k].controls)

(***************************************************************************)
(* A response names a request that was answered, and no two name the same: *)
(* its code and matched name are those the server gave, its message starts *)
(* with the one the server gave.                                           *)
(***************************************************************************)
ResponsesIntact ==
    \A n \in DOMAIN results :
        /\ \A other \in 1 .. n - 1 : results[other].tid # results[n].tid
        /\ \E k \in answered :
               LET r == results[n]
                   p == Last(jobs[k].answers)
               IN  /\ r.tid = sent[k].tid
                   /\ r.code = p.code
                   /\ p.op \notin {"extended", "extended_common"} =>
                          r.matched = p.matched /\ IsPrefix(p.message, r.message)

\* The objects a search should yield: one for each entry, in their order.
EntriesOf(answers) ==
    LET entries == SelectSeq(answers, LAMBDA p : p.op = "entry")
    IN  [n \in DOMAIN entries |-> EntryObject(entries[n].dn, entries[n].attrs)]

(***************************************************************************)
(* The objects the application gets with a search's result are the entries *)
(* sent for it, none lost, none of another request among them.             *)
(***************************************************************************)
EntriesIntact ==
    \A n \in DOMAIN results, k \in answered :
        (results[n].tid = sent[k].tid /\ Last(jobs[k].answers).op = "search_done") =>
            results[n].objects = EntriesOf(jobs[k].answers)

\* The client's generators, the wire and the server's framing as a stream.
Upstream ==
    INSTANCE LdapStream WITH
        messages <- [k \in DOMAIN sent |-> sent[k].message],
        wire <- up, side <- session, taken <- Len(delivered)

(***************************************************************************)
(* Whatever else client and server do, what happens to the requests on     *)
(* their way to the decoder is what LdapStream says: they are well-formed  *)
(* messages, nothing is put between them or lost, LDAP_sess_read appends   *)
(* what it receives and LDAP_sess_decode takes one message at a time.      *)
(***************************************************************************)
RequestStream == Upstream!Spec

\* The server's framing stays in step with the requests, however recv cuts
\* them in LDAP_sess_read: see LdapStream.
FramingInStep == Upstream!FramingInStep

\* Nothing is left to send, to receive, to decode or to answer.
Quiet ==
    /\ Len(sent) = Len(jobs) /\ answered = DOMAIN delivered
    /\ up = <<>> /\ down = <<>> /\ reply = None
    /\ ~Complete(Framed(session)) /\ ~Complete(Framed(client))

(***************************************************************************)
(* When both sides have come to rest, every request has been answered to   *)
(* the client's application and no byte is left over: neither framing ever *)
(* waits for bytes that nobody will send, or takes a message for a part.   *)
(***************************************************************************)
NothingLeftBehind ==
    Quiet => /\ Len(results) = Len(jobs)
             /\ session.buffer = <<>> /\ client.buffer = <<>>
=============================================================================
