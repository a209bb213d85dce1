----------------------------- MODULE EventLoop -----------------------------
(***************************************************************************)
(* The event loop of libs/base_epoll/base_epoll.c: the table of callbacks, *)
(* indexed by descriptor, and epoll_event_process, which takes a batch of  *)
(* events from the kernel and calls the callbacks one after the other.     *)
(*                                                                         *)
(* What a callback does may change the table while the batch is being      *)
(* worked off: it may close its own connection or another one, and accept  *)
(* a new one, which gets the lowest free descriptor and so perhaps one     *)
(* that later events of the batch are about.  Every callback is one step.  *)
(*                                                                         *)
(* External are the kernel (descriptors, epoll_wait, level-triggered) and  *)
(* the application, which removes a descriptor from the loop before it     *)
(* closes it (the fd_clear_callback of the protocol stacks) and sets its   *)
(* callbacks as soon as a descriptor is added.                             *)
(***************************************************************************)
EXTENDS Integers, Sequences, FiniteSets

CONSTANTS
    MAX_FD,        \* descriptors the kernel can give out
    MAX_SESSION,   \* _EPOLL_MAX_SESSION, the length of the table
    MAX_EVENT,     \* _EPOLL_MAX_EVENT, the longest batch
    MAX_CONN       \* bound: connections accepted

ASSUME EventLoopAssumption ==
    /\ MAX_FD \in Nat /\ MAX_SESSION \in Nat
    /\ MAX_EVENT \in Nat \ {0}
    /\ MAX_CONN \in Nat

VARIABLES
    table,      \* the epoll_event_element of each descriptor
    kernel,     \* the events the kernel watches of each descriptor, {} for none
    sock,       \* the connection that holds each descriptor, 0 for none
    accepted,   \* connections accepted so far
    hung,       \* connections whose peer has hung up
    refused,    \* connections whose EPOLL_CTL_ADD the kernel refused
    batch,      \* the events that are not worked off, the current one first
    stage,      \* which callback of the current event is next
    failed      \* _callback_ret is not 0

vars == <<table, kernel, sock, accepted, hung, refused, batch, stage, failed>>

loop == <<batch, stage, failed>>

Fd == 0 .. MAX_FD - 1
Index == 0 .. MAX_SESSION - 1
Conn == 1 .. MAX_CONN
Flag == {"in", "out"}

\* data is the connection the callbacks are for; 0 when they are not set.
Element == [fd : Fd \union {-1}, data : Conn \union {0}, events : SUBSET Flag]

Event == [fd : Fd, events : SUBSET (Flag \union {"hup"})]

FreeElement == [fd |-> -1, data |-> 0, events |-> {}]

\* epoll_base_new
Init ==
    /\ table = [f \in Index |-> FreeElement]
    /\ kernel = [f \in Fd |-> {}]
    /\ sock = [f \in Fd |-> 0]
    /\ accepted = 0
    /\ hung = {}
    /\ refused = {}
    /\ batch = <<>>
    /\ stage = "wait"
    /\ failed = FALSE

-----------------------------------------------------------------------------
(* epoll_event_add and epoll_event_remove, as the application calls them.  *)

\* A descriptor whose element is in use gets more flags; the kernel knows it
\* unless it refused it before, and keeps what it has when it does not.
Update(f, flags) ==
    /\ table' = [table EXCEPT ![f].events = @ \union flags]
    /\ kernel' = [kernel EXCEPT ![f] = IF @ = {} THEN {} ELSE table[f].events \union flags]
    /\ UNCHANGED refused

\* epoll_element_new, and the callbacks and user data set behind it.
NumberOfConnection(f, c, flags) == [fd |-> c, data |-> c, events |-> flags]
NewElement(f, c, flags) == [fd |-> f, data |-> c, events |-> flags]

\* A new one takes its element before the kernel is asked, and keeps it when
\* the kernel refuses.
Add(f, c, flags) ==
    /\ table' = [table EXCEPT ![f] = NewElement(f, c, flags)]
    /\ \/ kernel' = [kernel EXCEPT ![f] = flags] /\ UNCHANGED refused
       \/ refused' = refused \union {c} /\ UNCHANGED kernel

epoll_event_add(f, c, flags) ==
    IF f \notin Index
    THEN UNCHANGED <<table, kernel, refused>>
    ELSE IF table[f].fd >= 0 THEN Update(f, flags) ELSE Add(f, c, flags)

\* epoll_event_remove clears the element, callbacks included, and marks it as
\* free.
MarkedOnly(e) == [e EXCEPT !.fd = -1]
ClearedOnly(e) == [FreeElement EXCEPT !.fd = 0]
Removed(e) == FreeElement

epoll_event_remove(f) ==
    /\ table' = IF f \in Index THEN [table EXCEPT ![f] = Removed(@)] ELSE table
    /\ kernel' = [kernel EXCEPT ![f] = {}]

-----------------------------------------------------------------------------
(* What the application does, in a callback or between two batches.        *)

Lowest(S) == CHOOSE f \in S : \A g \in S : f <= g

\* It accepts a connection and watches it.
Accept ==
    LET free == {f \in Fd : sock[f] = 0}
    IN  /\ free # {}
        /\ accepted < MAX_CONN
        /\ sock' = [sock EXCEPT ![Lowest(free)] = accepted + 1]
        /\ accepted' = accepted + 1
        /\ epoll_event_add(Lowest(free), accepted + 1, {"in"})
        /\ UNCHANGED hung

Close(f) ==
    /\ sock[f] # 0
    /\ sock' = [sock EXCEPT ![f] = 0]
    /\ epoll_event_remove(f)
    /\ hung' = hung \ {sock[f]}
    /\ refused' = refused \ {sock[f]}
    /\ UNCHANGED accepted

\* It wants to write.
WatchWrite(f) ==
    /\ sock[f] # 0
    /\ epoll_event_add(f, sock[f], {"out"})
    /\ UNCHANGED <<sock, accepted, hung>>

Nothing == UNCHANGED <<table, kernel, sock, accepted, hung, refused>>

\* Between two batches: timers, requests of other threads' queues, the peers.
Application ==
    /\ stage = "wait"
    /\ Accept \/ \E f \in Fd : Close(f) \/ WatchWrite(f)
    /\ UNCHANGED loop

PeerHangsUp ==
    /\ \E f \in Fd : sock[f] # 0 /\ sock[f] \notin hung /\ hung' = hung \union {sock[f]}
    /\ UNCHANGED <<table, kernel, sock, accepted, refused, loop>>

-----------------------------------------------------------------------------
(* epoll_event_process.                                                    *)

\* What the kernel may report: of a connection whose peer hung up, that and
\* every event that is watched.
Reports(f) ==
    IF kernel[f] = {} THEN {}
    ELSE IF sock[f] \in hung THEN {kernel[f] \union {"hup"}}
         ELSE (SUBSET kernel[f]) \ {{}}

Ready == UNION {{[fd |-> f, events |-> e] : e \in Reports(f)} : f \in Fd}

Batches ==
    {b \in UNION {[1 .. n -> Ready] : n \in 1 .. MAX_EVENT} :
        \A k, l \in DOMAIN b : b[k].fd = b[l].fd => k = l}

\* epoll_wait returns some events.
epoll_wait ==
    /\ stage = "wait"
    /\ batch' \in Batches
    /\ stage' = "out"
    /\ failed' = FALSE
    /\ UNCHANGED <<table, kernel, sock, accepted, hung, refused>>

value == table[batch[1].fd]

Has(flag) == flag \in batch[1].events

\* The callbacks of an element that was removed are NULL.
MayCall == value.data # 0

NextEvent ==
    /\ batch' = Tail(batch)
    /\ stage' = IF Len(batch) = 1 THEN "wait" ELSE "out"
    /\ failed' = FALSE

(***************************************************************************)
(* A callback that works returns 0; it may accept, close another           *)
(* connection or close its own.  One that fails leaves the connection to   *)
(* the close callback when a hang-up was reported, or closes it itself.    *)
(***************************************************************************)
Works ==
    /\ failed' = FALSE
    /\ Nothing \/ Accept \/ \E f \in Fd : Close(f) \/ WatchWrite(f)

Fails ==
    /\ failed' = TRUE
    /\ \/ Nothing /\ Has("hup")
       \/ Close(batch[1].fd)

WriteCallback ==
    /\ stage = "out"
    /\ Has("out") /\ MayCall
    /\ Works \/ Fails
    /\ stage' = "in"
    /\ UNCHANGED batch

\* Reading from a connection whose peer hung up fails.
ReadCallback ==
    /\ stage = "in"
    /\ Has("in") /\ ~failed /\ MayCall
    /\ \/ Works /\ sock[batch[1].fd] \notin hung
       \/ Fails
    /\ stage' = "hup"
    /\ UNCHANGED batch

\* A hang-up is for the close callback when the callback before has failed.
HangUpIfHandled == ~failed
HangUpIsFailure == failed

CloseCallback ==
    /\ stage = "hup"
    /\ Has("hup") /\ HangUpIsFailure /\ MayCall
    /\ Close(batch[1].fd)
    /\ NextEvent

\* No callback is due at this stage.
Skip ==
    /\ \/ /\ stage = "out" /\ ~(Has("out") /\ MayCall)
          /\ stage' = "in" /\ UNCHANGED <<batch, failed>>
       \/ /\ stage = "in" /\ ~(Has("in") /\ ~failed /\ MayCall)
          /\ stage' = "hup" /\ UNCHANGED <<batch, failed>>
       \/ /\ stage = "hup" /\ ~(Has("hup") /\ HangUpIsFailure /\ MayCall)
          /\ NextEvent
    /\ UNCHANGED <<table, kernel, sock, accepted, hung, refused>>

Process == WriteCallback \/ ReadCallback \/ CloseCallback \/ Skip

Next == Application \/ PeerHangsUp \/ epoll_wait \/ Process

\* The caller runs epoll_event_process again and again, and the kernel
\* reports in turn what is ready.
Fairness ==
    /\ WF_vars(Process)
    /\ \A f \in Fd :
          SF_vars(epoll_wait /\ \E k \in DOMAIN batch' :
                                   batch'[k].fd = f /\ "hup" \in batch'[k].events)

Spec == Init /\ [][Next]_vars /\ Fairness

-----------------------------------------------------------------------------
(* Properties.                                                             *)

\* The variables have the types their declarations give them.
TypeOK ==
    /\ table \in [Index -> Element]
    /\ kernel \in [Fd -> SUBSET Flag]
    /\ sock \in [Fd -> Conn \union {0}]
    /\ accepted \in 0 .. MAX_CONN
    /\ hung \subseteq Conn /\ refused \subseteq Conn
    /\ batch \in Seq(Event)
    /\ stage \in {"wait", "out", "in", "hup"}
    /\ failed \in BOOLEAN

\* A callback is called only for a descriptor that is in the table, with the
\* data of the connection that holds it now, whatever earlier callbacks of the
\* batch have closed and accepted; also not for the second event of a
\* connection that the first callback closed.
CallsAreRegistered ==
    stage # "wait" /\ MayCall
        => value.fd = batch[1].fd /\ value.data = sock[batch[1].fd]

\* Every connection whose descriptor fits into the table is watched with its
\* own element, unless the kernel refused it: an element that an earlier
\* holder of the descriptor left behind does not get in the way.
WatchedUnlessRefused ==
    \A f \in Index \intersect Fd :
        sock[f] # 0 /\ sock[f] \notin refused
            => kernel[f] # {} /\ table[f] = [fd |-> f, data |-> sock[f], events |-> kernel[f]]

\* A connection that is watched and whose peer hangs up is closed: reading from
\* it fails, and then the close callback is called or the reader has closed it.
HangUpCloses ==
    \A f \in Fd, c \in Conn :
        (sock[f] = c /\ c \in hung /\ kernel[f] # {}) ~> sock[f] # c
=============================================================================
