# TLA+ models of the CassandraAPI network stacks

The repository is a set of C libraries for programs that serve and forward
directory and web requests: an LDAP client pool and server
(`libs/stacks/ldap`), an HTTP server (`libs/stacks/http`), the host list both
servers ask (`libs/stacks/rauthen`), an epoll loop (`libs/base_epoll`), and
helpers. It has no program that drives the LDAP or HTTP libraries: the code
that calls them belongs to the application and is modelled as "any order of
calls".

This directory holds TLA+ modules of the parts with protocol state, TLC
configurations that check them on small instances, and TLAPS proofs that hold
for every size. `PROJECT.json` maps every definition to the lines it models,
and lists the hazards of the code with the properties that are about them.

## Inventory

| Part | State | Operations | Interaction | What is hard |
|---|---|---|---|---|
| Lists, `include/linkedlist.h` | a head per list, `prev`/`next` per item | PREPEND, APPEND, REMOVE, SHUFFLE | used by every stack | REMOVE trusts the caller to name the right list |
| LDAP client, `ldap_client.c` | `client_array`, `ready_queue`, `wait_queue`, `send_msg_queue`, per connection: state, buffers, timers, `ktid`, `concurrent_count` | open, close, close_all, read, write, send_message, decode, keep_alive, check_connection, set_option | calls the bind, keepalive and response code of `ldap_common.c`; calls back `fd_set_write_callback` | partial reads and writes, limits, responses against keepalives against timeouts, loops that fail half way |
| LDAP server, `ldap_server.c` | listener, session table with `last_session` and `session_count`, per session: buffers, timers, `rdata`, `concurrent_count`, `version` | svr_open, svr_close, sess_open, sess_close, sess_examine, sess_read, sess_decode, sess_send_message, sess_write | `rauthen_verify` on accept; bind and direct responses in `ldap_common.c` | slots reused by another peer, limit, idle against busy, fragments |
| LDAP codec, `ldap_common.c` and the decode loops of client and server | the buffers and frame marks of a connection, `rber`, `diagnosticMessage` | generate and decode all requests and responses, filters, controls, entry objects | the client generates what the server decodes, and back | lengths around 127/128 and 255/256, signed characters, integers that lose or gain octets, nested structures, receives cut inside a length |
| HTTP server, `http.c` | listener, session table, per session: growing read buffer, `header_length`, `body_length`, queue of responses, timers | svr_set_option, svr_open, svr_close, sess_open, sess_close, verify_connection, sess_read, sess_decode, sess_write | `rauthen_verify` on accept; the application answers | framing across reads, the buffer at its limit, partial sends, limit changed while sessions are open |
| Host authentication, `rauthen.c` | list of hosts | init (load), verify | called on accept | which lines count, a list that is loaded again |
| epoll loop, `base_epoll.c` | table of callbacks indexed by descriptor | event_add, event_remove, event_process | callbacks add and remove descriptors while a batch is handled | stale events, reuse of descriptors, refused adds |
| threads, `xthread.c` | handles | create, join, detach, mutex, storage | pthreads | results for finished or detached threads |
| Cassandra API, watch, sdf, codecs, Java tools | in their libraries, or none | see the sources | | text and file handling |

What makes each modelled part correct:

* lists: the rings stay closed, and what the callers see as a list is what the
  macro's name says;
* client: every connection is in the queue its state stands for; counters say
  how many requests are where; no request is lost, sent twice or left in the
  queue; a connection at its limit wakes up; unfinished input and output is
  timed; keepalive responses are told from data;
* LDAP server: the loops up to `last_session` reach every session; every
  message is answered once, to the peer that sent it; the limit holds as far as
  the code counts, and costs nobody else an answer;
  unfinished input and output is timed, and being idle never closes a busy
  session;
* codec: what one side generates the other decodes, whatever the lengths and
  wherever the receives are cut, and nothing stays behind in a buffer;
* HTTP server: as the LDAP server's table; every request reaches the
  application whole and alone, also when older bytes stand in the buffer, every
  response reaches its peer whole and in
  order, and only hosts of the list loaded last are served;
* event loop: a callback runs only for the connection that holds the
  descriptor now; a descriptor used again is watched again; a hang-up ends in a
  close.

## Modules

| Module | Models | Built on |
|---|---|---|
| `Rings` | the list macros as operators on sequences | |
| `Lists`, `LinkedList` | abstract lists; the macros pointer by pointer, which implement them | |
| `LdapClient` | `ldap_client.c` | `Rings` |
| `LdapServer` | `ldap_server.c` | `Rings` |
| `Ber` | the length and integer macros of `ldap_common.c` and `ldap.h` | |
| `LdapFilter` | `process_filter` and `create_ber_filter` of the client, `LDAP_string_to_filter` of the server | `Ber` |
| `LdapFixed` | the envelope of every message, and the messages with a fixed number of fields: delete, moddn, extended, results | `Ber` |
| `LdapCodec` | the generators of the other requests and responses | `LdapFilter`, `LdapFixed` |
| `LdapDecoder` | the decoders of requests, responses, entries | `LdapCodec` |
| `LdapFraming` | how the decode loops of both sides find a message in their buffer | `Ber` |
| `LdapStream` | one direction of a connection, whatever the messages say | `LdapFraming` |
| `LdapExchange` | a connection and the session at its other end; its requests implement `LdapStream` | `LdapDecoder`, `LdapFraming` |
| `HostAuthen` | `rauthen.c` | |
| `HttpServer` | `http.c` | `HostAuthen`, `Rings` |
| `EventLoop` | `base_epoll.c` | |
| `RingTheorems`, `*Proofs` | theorems, see Proofs | the module they are about |

`Lists` has lists as sequences, an item in at most one of them. `LinkedList`
implements it under the mapping `Walk`, which follows `next` from the head as
the callers' `do ... while` loops do, up to the item before it is back at the
head (`Follow`, `RingSize`, `RingFrom`). Its guard `FirstOfNoOther` is what
callers owe: REMOVE of an item that is first in another list leaves that list's
head on an unlinked item.

`LdapClient` is the connection pool. Every call is one action, except that a
call whose body is a loop (flush, decode, keep_alive, check_connection,
close_all) takes one step per iteration, with `call` naming the loop. The
library is single threaded, so only the far end moves in between. `lc[c]` is
the `LDAP_CLNT` record; `w_buffer` is the sequence of messages that are not
sent completely and `w_curr` the bytes of the first that are; `r_buffer` and
`r_part` likewise for input; so a send or receive may stop at any byte. A timer
is a Boolean (set or 0) and whether it has expired is a free choice. `net[c]`
is the far end: requests the server holds, responses on their way. `torn`
records that half a message was dropped, after which the server understands
nothing more. `corrupt` records that a queue head points to an unlinked item
(the guard of `LinkedList` broken); what the program does then is undefined,
so the model stops there.

`LdapServer` is the session table and the sessions. A message is identified by
the version of its session and its number, so that a message of an earlier peer
of the same slot is seen; entries are numbered downwards from -1. The
application takes requests, sends any number of entries while it has one and
one result for each, in any order; every one of these messages counts
`concurrent_count` down (`Buffered`), so that it goes below zero. A read stops
at the end of the read buffer, and a full one is an error (`ReadFails`). At
`max_concurrent` a request is answered at once (`DecodeOverLimit`), by a send
past the write buffer whose result nobody looks at: it takes all, some or none
of the bytes. The peer then has the answer, or the request is in `lost`; `torn`
records that a part of it, or all of it inside a response that was sent in
part, is now among what the peer reads. For an operation that
`ldap_send_generic_resp` does not know there is no answer to send, and the
process ends (`DecodeUnanswerable`); it starts again from the initial state.

`Ber` to `LdapExchange` are the same connection seen byte by byte. Octets are
numbers below 256; signed characters (`Signed`) and 32-bit wrap-around are
modelled where the C code has them, because they decide what is read. A request
is a record of its arguments; `Request(tid, q)` is the bytes the generators write, `SessDecode`
and `LDAP_clnt_decode` are the framing and the decoders. `LdapExchange` puts a
client, a server session and two byte streams between them together; receives
end at any of the sizes in `Cuts`, so that they stop inside a tag, a length or
a body. A decoder that reads on behind its message (the control loop does) finds
the bytes of the next one; behind the bytes received the outcome is marked
`"unknown"` or `Unreadable`, which no property takes for what was sent.
`LdapStream` is what is left of one direction when the contents of the messages
are forgotten: messages with their length in front, a stream that is cut
anywhere, and the framing. `RequestStream` is that the requests of
`LdapExchange` behave like this.

`HttpServer` has one action per API call. The bytes of a request are known by
the request they belong to and their place in it, so that what the decoder
hands out can be compared with what was sent; a stream is a sequence of
requests with line ends, a header and a body of given lengths, and a header end
and leading line ends are recognised at their places. `len` is set back, and
data moved to the front, without clearing what stands behind, and `recv` writes
no terminator, while `strstr` looks for the end of a header up to the next
zero: `stale` counts the older bytes behind `len`, and when the header is not
complete in front of them (`SearchGoesOn`) the decoder may find an end in them.
What it makes of that header depends on their contents; the session is not
followed further (`"overrun"`). Older bytes come from skipped line ends, or
from an application that takes a request out of the buffer without clearing
what is behind, which is its free choice (`left`). `result` is what the last
call returned, on which the application acts. `max_session` may be changed at
any time; only the slots `HTTP_svr_init` prepared (`Slot`) can ever be used,
the rest of the array keeps `sock` 0, which reads as in use. What the peers
send is well formed (`WorkloadAssumption`, see Proofs). `HostAuthen` is the set
of lines loaded from the files and the lookup. A line is the sequence of pieces
`fgets` takes it in, each blank (empty or a comment) or naming a host; the loop
passes over blank pieces one by one before it looks whether a line is too long.

`EventLoop` has the table, the kernel's interest set and a batch of events that
is worked off callback by callback (`stage`). What a callback does is a free
choice of accepting, closing any connection, watching for writing, failing or
nothing. The kernel gives out the lowest free descriptor, so that a descriptor
is used again inside a batch. The kernel may refuse an `EPOLL_CTL_ADD`, after
which the element stays in the table without being watched. Every connection is
watched for reading, and reading from one whose peer hung up fails; on that,
which is the application's, `HangUpCloses` depends, since the loop calls the
close callback only after another one has failed (base_epoll.c:213).

`MC*` modules give TLC a root and the values of constants that are not simple.

## Runs

| Run | Instance | Shows |
|---|---|---|
| `client_core` | 2 slots, limits 1 and 2 that change while it runs, 3 requests, messages of 2 bytes, writes of at most 3 and a read buffer of 5 | the safety properties of the pool without keepalives |
| `client_keepalive` | 2 slots, limit 1, keepalives, sends on a given connection, one failed allocation | queue discipline until a reset corrupts a queue, and what stays true of the counters |
| `client_live` | 1 slot, limit 1, 3 requests, search entries | `RequestsLeaveQueue` under fairness; entries belong to the answered search |
| `client_reset` | 1 slot, keepalives | violation, see Findings |
| `client_late` | 1 slot, keepalives | violation, see Findings |
| `linked_list` | 5 items, 2 lists | rings closed, refinement of `Lists` (`ImplementsLists`) |
| `server_core` | 2 slots, 3 sessions, limit 1, 2 messages and 1 entry each, of 2 bytes, a read buffer of 4 | the safety properties of the LDAP server (2,015,344 states) |
| `server_live` | 1 slot, 2 sessions | every message is answered or dropped, or over the limit its answer is lost or torn |
| `ldap_codec` | each kind of request with fields of 0 to 256 bytes, 16 kinds of filters, identifiers around every change of length, two or three requests in turn, up to 3 receives cut after 1, 4 or 6 bytes | requests, controls, responses and entries arrive as they were given; both buffers end empty; the framing stays in step with the requests (`FramingInStep`), which are an instance of `LdapStream` (`RequestStream`) |
| `ldap_filter` | one compound filter with a two-star substring filter that is not first | violation, see Findings |
| `http_server` | 3 slots of which 2 are prepared, limits 1, 3 and (refused) 4, 2 sessions, streams of 1 or 2 requests, a buffer of 4 bytes, sends of at most 2 of 3 bytes, 3 host files with long lines and long comments | table, framing with older bytes in the buffer, responses, timers, hosts (1,353,780 states) |
| `event_loop` | 3 descriptors, a table of 2, batches of 2, 4 connections | callbacks, watching, hang-ups |

Why the bounds are enough: two connections or slots suffice for one to be
moved, closed or reused while the other is in each state; three requests fill a
connection of limit 2 and leave one in the queue; messages of 2 bytes with
writes of 3 stop in the middle of a message and cover parts of two; a read
buffer of 5 bytes fills up, as one of 4 does in the server, whose last byte is
not used; one entry makes a count of one zero while the request is still there,
so that the second is let in, and without it the second is past the limit; with
5 items a removed item can have neighbours that are neither it, the head nor
each other. `MAX_TID`, `MAX_ENTRIES`, `MAX_NO_MEMORY`, `MAX_VERSION` and
`MAX_REQUESTS` only bound how often things happen. In `ldap_codec` the form of
a length depends only on the ranges that the chosen lengths lie on both sides
of, for the fields and for the structures around them, and every request is
followed by another one, so that bytes read too far or left over spoil the
next. In `http_server` the body of the first request (4 bytes behind a header
of 2) does not fit into the first buffer and is followed by another request;
headers as long as the limit and one longer, and one below the minimum, occur.
In `event_loop` there is one connection more than descriptors, so that one is
used again, and one descriptor does not fit into the table.

`client_keepalive` switches deadlock checking off, because a state with
`corrupt` has no successor; `ldap_codec` and `ldap_filter`, because an exchange
is over when all requests are answered (`NothingLeftBehind` says that it does
not stop before); `event_loop`, because the connections it accepts are bounded
by `MAX_CONN`, and without a connection nothing happens.

Fairness. The libraries start nothing by themselves. `FairSpec` of the client
assumes that the caller serves every connection again and again (strong
fairness, because every call is disabled while another one runs), that it calls
`LDAP_clnt_send_message` again, if only to flush: nothing else in the code
flushes the queue when a connection becomes ready; that loops that were entered
go on; and that the server answers. `FairSpec` of the server assumes weak
fairness of read, decode, result and write of each session. For decode this is
an assumption about the caller and not a consequence of the code:
`LDAP_sess_decode` takes one message per call, and a caller that decodes only
when the socket is readable leaves pipelined messages in the buffer
(ldap_server.c:709). `EveryRequestAnswered` is what the server then promises;
past the limit that is not an answer but an attempt at one. The event loop
assumes that a batch that was taken is worked off (weak fairness: it is a loop
without a wait), and that a hang-up that the kernel can report again and again
is reported (strong fairness: `epoll_wait` is called again and again, is
level-triggered, and the kernel hands out ready descriptors in turn when there
are more than fit into a batch). Closing, timeouts and failing callbacks are
never assumed to happen or not to happen; the properties are conditional on a
connection or session that stays open.

## Findings

* `client_reset`: the keepalive response moves a connection that is stuck at
  its limit back to `ready_queue` ("Reset deadlock queue", ldap_client.c:942)
  but leaves its state WAITING. Closing it, or the next response on it, removes
  it from `wait_queue` by its state, and the head of `ready_queue` points to an
  unlinked or freed connection.
* `client_late`: a second keepalive overwrites `ktid` before the first is
  answered. The first answer is then reported as "LDAP received unexpected
  data" (ldap_client.c:910), or counted as the answer to a request.
* `ldap_filter`: the length of a substring filter with several stars
  ("case edit_len support", ldap_common.c:2409) is corrected from its position
  in the buffer instead of its start. Behind another argument of a compound
  filter it is too long, and the server reads past the filter.

Behaviour that no text of the repository contradicts, met while modelling and
kept in the models, or kept out of their inputs where noted:

* LDAP codec: names of 256 bytes and more are written as empty
  (ldap_common.c:612-620; inputs stay at 255); `newSuperior` and the
  criticality of controls are not decoded; the control loop reads on behind the
  message; result codes from 128 are read as negative (inputs stay at 127);
  size and time limits have one byte; `x*y*z` loses its initial part
  (2219-2230) and `a=` is taken for a class name (2292), neither of which is
  among the inputs; a diagnostic message may be followed by bytes of an earlier
  one, so that `ResponsesIntact` compares a prefix.
* LDAP server: `concurrent_count` is counted down for every message sent, so
  that each search entry lets one more request past `max_concurrent`
  (ldap_server.c:791); the answer over the limit is sent without looking at the
  result, past a response that is sent in part (720), and is a NULL pointer for
  an abandon or another operation that is not one of the six
  (ldap_common.c:336-341).
* HTTP: the end of a header is looked for with `strstr` in a buffer that is not
  terminated at `len`, so that bytes of an earlier request can end a header
  that is still incomplete (http.c:773-784); `HTTP_sess_decode` leaves
  `read_time` running while the application works (http.c:974); without an idle
  timeout `HTTP_sess_write` asks for a close after each response, also when
  more are queued (731); a refused request line overwrites the first byte
  behind the header (882); a raised limit gives no slot that was not prepared;
  a header between the limit and the size of the buffer is accepted or not
  depending on how it was cut (786); a negative Content-Length is taken as it
  is (966; not among the inputs).
* Host list: a negative line never denies a host that another line admits; a
  line without an end, the last one too, is skipped; but the part of a comment
  behind its first 255 bytes is read as a line of its own (rauthen.c:126-136),
  so that a host named there is admitted.
* Event loop: the events of a batch name descriptors, so that a hang-up of the
  old holder can be applied to the new one; that only ends in the close
  callback when one of the new holder's own callbacks fails. `epoll_base_new`
  keeps the table in file-level variables (base_epoll.c:70, 92), so that a
  second base replaces the first one's.

## Proofs

| Theorem | Module | Says |
|---|---|---|
| `RingsCorrect` | `LinkedListProofs` | `Spec => []RingsClosed` of the list macros |
| `ListsImplemented` | `LinkedListProofs` | `Spec => ImplementsLists`: the macros implement `Lists` |
| `TypeCorrect` | `LdapClientProofs` | `Spec => []TypeOK` of the client |
| `QueuesCorrect` | `LdapClientPoolProofs` | `Spec => []QueueDiscipline` |
| `ClientCountCorrect` | `LdapClientPoolProofs` | `Spec => []ClientCountIsOpen` |
| `TimersCorrect` | `LdapClientPoolProofs` | `Spec => []PendingIoIsTimed` |
| `RequestsCorrect` | `LdapClientPoolProofs` | `Spec => []NoRequestTwice` |
| `ConcurrentCountCorrect` | `LdapClientPoolProofs` | `Spec => []ConcurrentCountIsOutstanding` |
| `WaitingCorrect` | `LdapClientPoolProofs` | `Spec => []WaitingHasOutstanding` |
| `LimitCorrect` | `LdapClientPoolProofs` | `Spec => []ConcurrencyLimited` |
| `EntriesCorrect` | `LdapClientPoolProofs` | `Spec => EntriesOfOneSearch`, an action property |
| `TypeCorrect` | `LdapServerProofs` | `Spec => []TypeOK` of the LDAP server |
| `TableCorrect` | `LdapServerProofs` | `Spec => []LastSessionIsLast` |
| `CountCorrect` | `LdapServerProofs` | `Spec => []SessionCountIsUsed` |
| `RequestsCorrect` | `LdapServerProofs` | `Spec => []RequestsAccounted` |
| `ConcurrencyCorrect` | `LdapServerProofs` | `Spec => []ConcurrencyAccounted` |
| `TimersCorrect` | `LdapServerProofs` | `Spec => []PendingIoIsTimed` |
| `IdleCloseCorrect` | `LdapServerProofs` | `Spec => IdleCloseLosesNothing`, an action property |
| `HttpTypeCorrect` | `HttpServerProofs` | `Spec => []TypeOK` of the HTTP server |
| `HttpTableCorrect` | `HttpServerProofs` | `Spec => []TableSound` |
| `AdmissionCorrect` | `HttpServerProofs` | `Spec => []AdmittedByLatestFile` |
| `FramingCorrect` | `HttpServerProofs` | `Spec => []RequestsFramed` |
| `RoomCorrect` | `HttpServerProofs` | `Spec => []WaitingHasRoom` |
| `ResponsesCorrect` | `HttpServerProofs` | `Spec => []ResponsesInOrder` |
| `HttpTimersCorrect` | `HttpServerProofs` | `Spec => []StalledIoIsTimed` |
| `CallbacksCorrect` | `EventLoopProofs` | `Spec => []CallsAreRegistered` of the event loop |
| `ConnectionsWatched` | `EventLoopProofs` | `Spec => []WatchedUnlessRefused` |
| `LoopTypeCorrect` | `EventLoopProofs` | `Spec => []TypeOK` of the event loop |
| `StreamInStep` | `LdapWireProofs` | `Spec => []FramingInStep` of `LdapStream`, of which the requests of `LdapExchange` are an instance |
| `LengthRoundTrip` | `LdapWireProofs` | every length below 2^31 is read back as it was written, wherever it stands |
| `TidIsPositive` | `LdapWireProofs` | every positive message identifier is written as a positive BER integer and read back |
| `FieldRoundTrip` | `LdapWireProofs` | a tagged field is found with its content, and the reader goes on right behind it |
| `EnvelopeRoundTrip` | `LdapWireProofs` | both decoders read identifier and kind of every message and stand where its operation begins |
| `DeleteIntact`, `ModDnIntact`, `ExtendedIntact` | `LdapWireProofs` | the server reads from these requests what the client was given, whatever follows |
| `ResultIntact` | `LdapWireProofs` | the client reads from a result what the server was given, whatever its buffers held before |
| `EntryCollected` | `LdapWireProofs` | an entry or extended response is collected to its last byte and no further |

`RingTheorems` holds the lemmas on sequences that several of them use: what
Delete, Append, MoveToEnd, concatenation and cutting do to the items of a list
and to whether one is in it twice, and what `FlattenSeq` makes of a sequence
that grows at either end. The definition of `FlattenSeq` is a recursive
function; `FlattenAppend` and `FlattenPrepend` are proved for every sequence by
showing that its equation has exactly one solution (`JoinedExists`,
`JoinedUnique`, both from the least counterexample, `LeastNatural`) and giving
the solution for the longer sequence.

The theorems assume only the named assumptions of the modules:
`SizeAssumption` and `OptionAssumption` (sizes are positive, a message is
shorter than the read buffer, options are of their type, `max_concurrent` is
positive), `NullAssumption` (NULL is no item), `ItemAssumption` (the items are
finitely many, as they are in memory), `ServerAssumption`,
`HttpAssumption`, `EventLoopAssumption` (sizes are naturals, a batch has room
for an event, the longest header fits into the first read buffer), and
`WorkloadAssumption`. The bounds are arbitrary naturals. `LdapWireProofs` is
about octets and needs no assumption but the ranges named in its theorems.

`WorkloadAssumption` is about the peers of the HTTP server: behind a header
that announces a body comes a body of that length, and behind a request line
without one (GET and the others) none. Framing means nothing for a peer that
announces another length than it sends. What stands behind a request that is
refused is free. A Content-Length that is missing or no number is among the
inputs; a negative one, which the code takes as it is (http.c:966), is not.

**Client.** `QueueDiscipline` is not inductive: a keepalive response on a
connection that is not bound would make it ready. `QueueInv` adds that nothing
is read before the bind (`UnboundReceivesNothing`). On top of it stand, each
proved with the ones before it: `SoundInv` (the timers, and that a connection
that is not bound holds nothing and one that waits has taken a request);
`RequestInv`, which has the requests of all connections pairwise apart, apart
from the queue, and none newer than `tid`: `NoRequestTwice` speaks of pairs of
places, and a request moves between any of them; `CountInv` and its lemma
`HeldCount`, which turns the places of a connection into one set whose
cardinality `concurrent_count` must be; `ReadyInv` and `LimitInv` (only ready
connections are in `ready_queue`, so that the flush finds one below its limit);
`EntriesInv`, for a limit of one: the entries collected belong to the only
request there is, and nothing follows the response that ends it. The last four
hold without keepalives, as their properties say: a keepalive can make
`concurrent_count` differ from what is outstanding, see Findings.

**LDAP server.** `ServerInv` is the types, the table and, for every session in
use, that its messages are accounted for, within the limit and timed, and that
a buffer that was never allocated is empty. `ConcurrencyAccounted` says that
the count is the number of requests with the application less the entries sent,
at most the limit, and that an answer is lost or torn only in a session that
has sent more requests than the limit. For the last part a request that is
refused must be shown to come on top of `max_concurrent` others (`PastLimit`):
`rdata` holds at least as many, all different, and the refused one is in
`r_buffer`, so that together they are more than `max_concurrent` of the numbers
`1..sent`. That an identifier in `rdata` is such a number and not an entry's is
the reason for the type `RequestId`. `UnusedIsEmpty`, of the buffers, is what
`IdleCloseLosesNothing` needs, since `DS_IS_SESSION_IDLE` looks at pointers
only. Every call is first shown to replace the record of one session and its
peer by another (`Becomes`), then the new records are shown to be sound;
`SumUp` splits the five places of a message, so that each call moves items
between two of them.

**Tables.** `TableInv` of the two servers adds that only slots are in use; the
interesting steps are that the walk down in `sess_close` stops at the highest
session below (`LastBelowIsLast`, from the well-ordering of the naturals) and
that closing a free slot never moves `last_session`. In the HTTP server the
limit is a variable, and the free slot that is found is below it
(`FirstFreeIsFree`); that sessions above a lowered limit stay reachable is then
part of the theorem.

**HTTP server.** `RequestInv` says of every session in use where in its stream
it is. `Framed`: the requests taken are the first ones sent, and the bytes in
the buffer followed by those still to come are the rest of the next request,
behind some of its leading line ends, followed by the later requests
(`InRequest`, `At`), or there are none left (`AllTaken`); `HeaderKnown`: once
`header_length` is set it and `body_length` are those of that request, and a
request that is reported is in the buffer to its last byte. `Traced` says where
older bytes come from: there are some, or a header was ended by them, only when
the application has left bytes behind or line ends stand in front of the
request. `Timed` and `Roomy` are what the timers and the buffer need. `Sending`
says of the responses that what is gone of the queue is as long as `w_curr` and
that what is left completes what the peer has. Each call is shown to take a
session to a new record (`StepTo`) that is again in its stream and that has
queued, sent or left alone the responses (`Writing`). `AdmitInv` has the list
equal to what the files loaded last contain; `AdmittedByLatestFile` is stated
in terms of the pieces of a line and not of what the loader keeps. The list is
modelled as the set of its lines, because the lookup succeeds as soon as one of
them matches.

**Event loop.** `LoopInv` is stronger than its consequences: a descriptor in
use has an element of its own and the element of any other is free
(`OwnElement`), the kernel watches exactly the flags in the table (`Watched`),
and no two descriptors have the same connection (`OneHolder`; without it,
closing one would forget that the kernel refused the other). Every descriptor
of a batch then has a place in the table (`BatchInTable`), also after the
connection it was reported for is gone.

**Lists.** `RingInv` is `RingsClosed` with types; the proof goes through the
neighbours of the linked or unlinked item. The refinement needs more: closed
rings alone would allow two heads in one ring, or a ring without a head, and
then a macro on one list changes another. `LinkInv` adds that every ring is the
walk of exactly one list. Each macro is shown to make the pointers those of the
sequence `Lists` has after the step (`Along` says when pointers go along a
sequence), and a sequence the pointers go along is the walk; that following the
pointers comes back to the head at all is where `ItemAssumption` is used.

**Octets and messages.** `LengthRoundTrip` goes through the four forms of a
length field; the signed comparison with 0xffffff00 in the reader is resolved
for each first octet (`FirstOctet`), and the octets are put together again
(`Int32OfOctets`). `FieldRoundTrip` and `EnvelopeRoundTrip` are built on it, and
the theorems on messages on those. All of them hold for a message that stands
anywhere in front of other bytes, as it does in a buffer. Their hypotheses are
the limits of the code: names are shorter than 256 bytes, because `CREATE_DN`
writes longer ones as empty; other strings have less than 2^24 bytes; result
codes are at most 127, because the client reads the octet as a signed character;
a diagnostic message has no zero byte, because it is copied as a C string.

**Framing.** The decode loops compute the place and the length of a message
once, as soon as five bytes are there, and keep them until the message is
complete. `FramingInStep` is not inductive: it says nothing about where a frame
that is kept comes from. `StreamInv` adds that it is that of the next message
and was found with at least five bytes in the buffer. Five bytes are the header
of every message whose contents are shorter than 2^24 bytes (`FramedByFive`),
which is why `IsMessage` stops there: the length of a longer one has five
octets, of which the framing may look at four. A message that was taken leaves
the bytes of the following ones at the front (`NextMessage`).

Only model-checked: the liveness properties (fairness and ENABLED are outside
the prover); `RequestsIntact`, `ControlsArrive`, `ResponsesIntact`,
`EntriesIntact` and `NothingLeftBehind` of `LdapExchange` (filters, attribute
lists, controls and entries are structures of any depth or length, written with
RECURSIVE operators, and what they compute for every input takes an induction
the provers do not do); and `RequestStream`, because it is about the same
module. The theorems on the messages of fixed form and on the framing are the
part of these properties that can be proved.

## Not modelled

* LDAP codec: extensible match filters, the text output of filters and entries
  (`LDAP_filter_to_string`, `ber_attr_to_string`), `ber_to_attrs`, the
  hexadecimal and BCD helpers: formatting for logs and tools.
* LDAP server: the options are constants and the users are behind the choice
  whether a bind succeeds.
* HTTP server: the texts of pages, status codes, statistics and URL decoding;
  running out of memory.
* Host list: the identity under which the user's file is opened, netgroups.
* Event loop: a second event base, deleting a base.
* Statistics, logging, error texts and host names everywhere. Failed calls of
  the socket API that change nothing are stuttering steps; those after which
  the caller closes are the close at any time. The wrap-around of `version` at
  2^32 is left out; that of the message identifier is in `LdapExchange`.
* `xthread` wraps pthreads call by call; the Cassandra API makes one
  synchronous call of the vendor's driver per query; `watch`, `sdf` and the
  codecs handle files and strings; the Java tools use Kafka's and Spark's own
  machinery. None keeps protocol state of its own.

## Plan

1. The responses of `LdapExchange` as a second instance of `LdapStream`; the
   client frames them with the same operators.
2. `EventLoop` composed with the sessions of a server, to state which session
   a hang-up closes.
