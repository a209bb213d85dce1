-------------------------- MODULE HttpServerProofs --------------------------
(***************************************************************************)
(* Proofs about the HTTP server, for every size of the array and of the    *)
(* buffers, every number of prepared slots, every limit that is set while  *)
(* sessions are open, every list of host files and every stream of         *)
(* well-formed requests: the session table, the hosts that are admitted,   *)
(* the requests the decoder hands out, the room in the read buffer, the    *)
(* responses the peers get and the timers.                                 *)
(*                                                                         *)
(* The stream of a session is the bytes of its requests one behind the     *)
(* other.  SessionOK says where in it a session is: in which request, how  *)
(* many of the line ends in front of it are gone, and what is known of     *)
(* its header.  Sending says the same of the responses.                    *)
(***************************************************************************)
EXTENDS HttpServer, RingTheorems, FiniteSetTheorems

\* Only prepared slots are in use, and the table is sound.
TableInv == used \subseteq Slot /\ TableSound

\* Slots are numbered from 0.
LEMMA SlotsNatural == Slot \subseteq Nat
BY HttpAssumption DEF Slot, Array

\* last_session is a number.
LEMMA TableNumbers ==
    ASSUME used \subseteq Slot, TableSound
    PROVE  used \subseteq Nat /\ last_session \in Int /\ last_session >= -1
<1>1. used \subseteq Nat
  BY SlotsNatural
<1>2. CASE last_session = -1
  BY <1>1, <1>2
<1>3. CASE last_session \in used
  BY <1>1, <1>3
<1> QED BY <1>2, <1>3 DEF TableSound

\* HTTP_sess_open finds the first free slot below the limit whenever there is
\* one.
LEMMA FirstFreeIsFree ==
    ASSUME FreeSlots # {}
    PROVE  FirstFree \in Slot \ used
<1> DEFINE T == FreeSlots
<1>1. T \subseteq Nat
  BY SlotsNatural DEF FreeSlots
<1>2. \E i \in T : \A j \in T : i <= j
  BY <1>1, LeastNatural
<1>3. FirstFree \in FreeSlots
  BY <1>2 DEF FirstFree
<1> QED BY <1>3 DEF FreeSlots

\* The loop of HTTP_sess_close stops at the highest session below no, or at
\* -1 when there is none.
LEMMA LastBelowIsLast ==
    ASSUME used \subseteq Slot, NEW no \in Slot
    PROVE  /\ LastBelow(no) = -1 \/ LastBelow(no) \in used
           /\ LastBelow(no) < no
           /\ \A i \in used : i < no => i <= LastBelow(no)
<1> DEFINE below == {i \in used : i < no} \union {-1}
           T == {no - i : i \in below}
<1>1. no \in Nat /\ below \subseteq Int /\ \A i \in below : i < no
  <2>1. no \in Nat /\ used \subseteq Nat
    BY SlotsNatural
  <2>2. ASSUME NEW i \in below PROVE i \in Int /\ i < no
    <3>1. CASE i \in used /\ i < no
      BY <2>1, <3>1
    <3>2. CASE i = -1
      BY <2>1, <3>2
    <3> QED BY <3>1, <3>2
  <2> QED BY <2>1, <2>2
<1>2. T \subseteq Nat
  BY <1>1
<1>3. no + 1 \in T
  <2>1. no - (-1) \in T
    OBVIOUS
  <2> QED BY <1>1, <2>1
<1>4. PICK d \in T : \A e \in T : d <= e
  BY <1>2, <1>3, LeastNatural
<1>5. PICK i \in below : d = no - i
  BY <1>4
<1>6. ASSUME NEW j \in below PROVE j <= i
  <2>1. no - j \in T
    OBVIOUS
  <2>2. no - i <= no - j
    BY <1>4, <1>5, <2>1
  <2> QED BY <1>1, <2>2
<1>7. /\ LastBelow(no) \in below
      /\ \A j \in below : j <= LastBelow(no)
  BY <1>6 DEF LastBelow
<1> QED BY <1>1, <1>7

\* A set of slots is finite.
LEMMA SlotsFinite ==
    ASSUME NEW S, S \subseteq Slot
    PROVE  IsFiniteSet(S)
<1>1. IsFiniteSet(Array)
  BY HttpAssumption, FS_Interval DEF Array
<1>2. S \subseteq Array
  BY DEF Slot
<1> QED BY <1>1, <1>2, FS_Subset

-----------------------------------------------------------------------------
(* The session table.                                                      *)

\* HTTP_sess_open keeps the table.
LEMMA OpenTable ==
    ASSUME TableInv, HTTP_sess_open
    PROVE  TableInv'
<1> DEFINE f == FirstFree
<1>1. /\ used \subseteq Slot
      /\ TableSound
      /\ session_count = Cardinality(used)
  BY DEF TableInv, TableSound
<1>2. f \in Slot \ used
  BY FirstFreeIsFree DEF HTTP_sess_open
<1>3. /\ used' = used \union {f}
      /\ last_session' = IF last_session < f THEN f ELSE last_session
      /\ session_count' = session_count + 1
  BY DEF HTTP_sess_open
<1> HIDE DEF f
<1>4. f \in Nat /\ used \subseteq Nat /\ last_session \in Int /\ last_session >= -1
  BY <1>1, <1>2, SlotsNatural, TableNumbers
<1>5. \A i \in used' : i <= last_session'
  BY <1>1, <1>3, <1>4 DEF TableSound
<1>6. last_session' = -1 \/ last_session' \in used'
  BY <1>1, <1>3, <1>4 DEF TableSound
<1>7. Cardinality(used') = Cardinality(used) + 1
  BY <1>1, <1>2, <1>3, SlotsFinite, FS_AddElement
<1>8. used' \subseteq Slot
  BY <1>1, <1>2, <1>3
<1> QED BY <1>1, <1>3, <1>5, <1>6, <1>7, <1>8 DEF TableInv, TableSound

\* HTTP_sess_close keeps the table, whether or not the slot is in use: it
\* moves last_session before it finds that out.
LEMMA CloseTable ==
    ASSUME TableInv, NEW no \in Slot, HTTP_sess_close(no)
    PROVE  TableInv'
<1>1. /\ used \subseteq Slot
      /\ TableSound
      /\ session_count = Cardinality(used)
  BY DEF TableInv, TableSound
<1>2. last_session' = IF last_session = no THEN LastBelow(no) ELSE last_session
  BY DEF HTTP_sess_close
<1>3. /\ LastBelow(no) = -1 \/ LastBelow(no) \in used
      /\ LastBelow(no) < no
      /\ \A i \in used : i < no => i <= LastBelow(no)
  BY <1>1, LastBelowIsLast
<1>4. used \subseteq Nat /\ last_session \in Int /\ no \in Nat
  BY <1>1, SlotsNatural, TableNumbers
<1>5. CASE /\ no \in used
           /\ used' = used \ {no}
           /\ session_count' = session_count - 1
  <2>1. Cardinality(used') = Cardinality(used) - 1
    BY <1>1, <1>5, SlotsFinite, FS_RemoveElement
  <2>2. \A i \in used' : i <= last_session'
    BY <1>1, <1>2, <1>3, <1>4, <1>5 DEF TableSound
  <2>3. last_session' = -1 \/ last_session' \in used'
    BY <1>1, <1>2, <1>3, <1>4, <1>5 DEF TableSound
  <2>4. used' \subseteq Slot
    BY <1>1, <1>5
  <2> QED BY <1>1, <1>5, <2>1, <2>2, <2>3, <2>4 DEF TableInv, TableSound
<1>6. CASE /\ no \notin used
           /\ used' = used
           /\ session_count' = session_count
  <2>1. last_session # no
    BY <1>1, <1>4, <1>6 DEF TableSound
  <2>2. last_session' = last_session
    BY <1>2, <2>1
  <2> QED BY <1>1, <1>6, <2>2 DEF TableInv, TableSound
<1> QED BY <1>5, <1>6 DEF HTTP_sess_close

\* HTTP_svr_close empties the table: no session lies above last_session.
LEMMA SvrCloseTable ==
    ASSUME TableInv, HTTP_svr_close
    PROVE  TableInv' /\ used' = {}
<1>1. used \subseteq Nat /\ last_session \in Int
  BY TableNumbers DEF TableInv
<1>2. \A i \in used : ~(i > last_session)
  BY <1>1 DEF TableInv, TableSound
<1>3. used' = {}
  BY <1>2 DEF HTTP_svr_close
<1>4. last_session' = -1 /\ session_count' = 0
  BY DEF HTTP_svr_close
<1> QED BY <1>3, <1>4, FS_EmptySet DEF TableInv, TableSound

\* A call that leaves the slots in use and last_session alone keeps the table.
LEMMA SameTable ==
    ASSUME TableInv, UNCHANGED <<used, last_session, session_count>>
    PROVE  TableInv'
BY DEF TableInv, TableSound

\* The table is sound in every reachable state.
LEMMA TableInvariance == Spec => []TableInv
<1>1. Init => TableInv
  BY FS_EmptySet DEF Init, TableInv, TableSound
<1>2. TableInv /\ [Next]_vars => TableInv'
  <2> SUFFICES ASSUME TableInv, [Next]_vars PROVE TableInv'
    OBVIOUS
  <2>1. CASE HTTP_svr_set_option \/ ReloadHosts \/ HTTP_svr_open
    BY <2>1, SameTable DEF HTTP_svr_set_option, ReloadHosts, HTTP_svr_open
  <2>2. CASE HTTP_svr_close
    BY <2>2, SvrCloseTable
  <2>3. CASE HTTP_sess_open
    BY <2>3, OpenTable
  <2>4. ASSUME NEW no \in Slot, HTTP_sess_close(no)
        PROVE  TableInv'
    BY <2>4, CloseTable
  <2>5. CASE HTTP_verify_connection
    <3>1. PICK i \in used : HTTP_sess_close(i)
      BY <2>5 DEF HTTP_verify_connection
    <3>2. i \in Slot
      BY <3>1 DEF TableInv
    <3> QED BY <3>1, <3>2, CloseTable
  <2>6. ASSUME NEW i \in Slot, HTTP_sess_read(i) \/ ReadFails(i)
        PROVE  TableInv'
    BY <2>6, SameTable DEF HTTP_sess_read, ReadFails, table
  <2>7. ASSUME NEW i \in Slot, HTTP_sess_decode(i)
        PROVE  TableInv'
    BY <2>7, SameTable DEF HTTP_sess_decode, table
  <2>8. ASSUME NEW i \in Slot, NEW len \in Response, Answer(i, len)
        PROVE  TableInv'
    BY <2>8, SameTable DEF Answer, table
  <2>9. ASSUME NEW i \in Slot, HTTP_sess_write(i)
        PROVE  TableInv'
    BY <2>9, SameTable DEF HTTP_sess_write, table
  <2>10. CASE UNCHANGED vars
    BY <2>10, SameTable DEF vars, table
  <2> QED BY <2>1, <2>2, <2>3, <2>4, <2>5, <2>6, <2>7, <2>8, <2>9, <2>10 DEF Next
<1> QED BY <1>1, <1>2, PTL DEF Spec

\* In every order of HTTP_sess_open, HTTP_sess_close, HTTP_verify_connection
\* and HTTP_svr_close, also when HTTP_svr_set_option lowers the limit below a
\* slot in use or raises it past the prepared ones, last_session is the
\* highest slot in use and session_count counts the slots in use.
THEOREM HttpTableCorrect == Spec => []TableSound
<1>1. TableInv => TableSound
  BY DEF TableInv
<1> QED BY <1>1, TableInvariance, PTL

-----------------------------------------------------------------------------
(* What a step does to the sessions and to their peers.                    *)

\* No session is touched.
Quiet == UNCHANGED <<used, session, version, workload, peer>>

\* Only the session i, which is in use, and its peer are touched.
SessionStep(i) ==
    /\ i \in used
    /\ UNCHANGED table
    /\ HTTP_sess_read(i) \/ ReadFails(i) \/ HTTP_sess_decode(i)
          \/ (\E len \in Response : Answer(i, len)) \/ HTTP_sess_write(i)

\* Every step opens a session, closes some, is a step of one session or
\* touches none.
LEMMA HttpSteps ==
    ASSUME TableInv, [Next]_vars
    PROVE  \/ Quiet /\ UNCHANGED timeouts /\ authen' = authen /\ files' = files
           \/ Quiet /\ HTTP_svr_set_option
           \/ Quiet /\ ReloadHosts
           \/ HTTP_svr_close /\ used' = {}
           \/ HTTP_sess_open
           \/ \E no \in Slot : HTTP_sess_close(no)
           \/ \E i \in Slot : SessionStep(i)
<1>1. CASE HTTP_svr_set_option
  BY <1>1 DEF HTTP_svr_set_option, Quiet
<1>2. CASE ReloadHosts
  BY <1>2 DEF ReloadHosts, Quiet
<1>3. CASE HTTP_svr_open
  BY <1>3 DEF HTTP_svr_open, Quiet
<1>4. CASE HTTP_svr_close
  BY <1>4, SvrCloseTable
<1>5. CASE HTTP_verify_connection
  BY <1>5 DEF HTTP_verify_connection, TableInv
<1>6. ASSUME NEW i \in Slot,
             HTTP_sess_read(i) \/ ReadFails(i) \/ HTTP_sess_decode(i) \/ HTTP_sess_write(i)
      PROVE  SessionStep(i)
  BY <1>6 DEF SessionStep, HTTP_sess_read, ReadFails, MayRead, HTTP_sess_decode, HTTP_sess_write
<1>7. ASSUME NEW i \in Slot, NEW len \in Response, Answer(i, len)
      PROVE  SessionStep(i)
  <2>1. i \in used /\ UNCHANGED table
    BY <1>7 DEF Answer
  <2> QED BY <1>7, <2>1 DEF SessionStep
<1>8. CASE UNCHANGED vars
  BY <1>8 DEF vars, table, Quiet
<1> QED BY <1>1, <1>2, <1>3, <1>4, <1>5, <1>6, <1>7, <1>8 DEF Next

-----------------------------------------------------------------------------
(* The hosts.                                                              *)

\* A line of the file admits the host.
Admits(f, host) ==
    /\ f.system \/ f.trusted
    /\ \E n \in DOMAIN f.lines :
          LET line == f.lines[n]
              p    == LastPiece(line)
          IN  /\ line.ended /\ ~p.blank /\ ~p.negative
              /\ p.name \in {host, Everyone}
              /\ \A m \in 1 .. Len(line.pieces) - 1 : line.pieces[m].blank

\* The list is what was read from the files that were loaded last, and every
\* session was admitted by the files loaded last before it was opened.
AdmitInv ==
    /\ authen = rauthen_init({}, files)
    /\ DOMAIN peer = Slot
    /\ \A i \in used : Admits(peer[i].files, peer[i].host)

\* rauthen_verify finds a line of the file that names the host.
LEMMA VerifiedByFile ==
    ASSUME NEW f, NEW host, rauthen_verify(rauthen_init({}, f), host)
    PROVE  Admits(f, host)
<1>1. PICK line \in rauthen_init({}, f) : rauthen_checkhost(line, host) = 1
  BY DEF rauthen_verify
<1>2. f.system \/ f.trusted
  BY <1>1 DEF rauthen_init
<1>3. PICK n \in DOMAIN f.lines : IsUsable(f.lines[n]) /\ line = LastPiece(f.lines[n])
  BY <1>1, <1>2 DEF rauthen_init, UsableLines
<1>4. ~line.negative /\ line.name \in {host, Everyone}
  BY <1>1 DEF rauthen_checkhost
<1> QED BY <1>2, <1>3, <1>4 DEF Admits, IsUsable

\* The step of a session leaves the host of its peer and its files alone.
LEMMA PeerKept ==
    ASSUME NEW i \in Slot, SessionStep(i), DOMAIN peer = Slot, NEW j \in Slot
    PROVE  /\ DOMAIN peer' = Slot
           /\ peer'[j].files = peer[j].files
           /\ peer'[j].host = peer[j].host
<1>1. CASE HTTP_sess_read(i)
  BY <1>1 DEF HTTP_sess_read
<1>2. CASE ReadFails(i) \/ HTTP_sess_decode(i)
  BY <1>2 DEF ReadFails, HTTP_sess_decode
<1>3. ASSUME NEW len \in Response, Answer(i, len)
      PROVE  /\ DOMAIN peer' = Slot
             /\ peer'[j].files = peer[j].files
             /\ peer'[j].host = peer[j].host
  <2> DEFINE q(left) ==
                   [peer EXCEPT ![i].taken = Append(peer[i].taken,
                                    SubSeq(session[i].data, 1,
                                           session[i].header_length + session[i].body_length)),
                               ![i].left = peer[i].left \/ left,
                               ![i].answers = Append(peer[i].answers,
                                                     <<Len(peer[i].answers) + 1, len>>)]
             r == [peer EXCEPT ![i].answers = Append(peer[i].answers,
                                                     <<Len(peer[i].answers) + 1, len>>)]
  <2>1. (\E left \in BOOLEAN : peer' = q(left)) \/ peer' = r
    BY <1>3 DEF Answer
  <2>2. \A left \in BOOLEAN : /\ DOMAIN q(left) = Slot
                              /\ q(left)[j].files = peer[j].files
                              /\ q(left)[j].host = peer[j].host
    OBVIOUS
  <2>3. DOMAIN r = Slot /\ r[j].files = peer[j].files /\ r[j].host = peer[j].host
    OBVIOUS
  <2> QED BY <2>1, <2>2, <2>3
<1>4. CASE HTTP_sess_write(i)
  BY <1>4 DEF HTTP_sess_write
<1> QED BY <1>1, <1>2, <1>3, <1>4 DEF SessionStep

\* Whatever is reloaded while sessions are open, and however a line ends,
\* nobody is admitted but by a line of the file loaded last before.
THEOREM AdmissionCorrect == Spec => []AdmittedByLatestFile
<1>1. Init => AdmitInv
  BY DEF Init, AdmitInv, rauthen_init
<1>2. TableInv /\ TableInv' /\ AdmitInv /\ [Next]_vars => AdmitInv'
  <2> SUFFICES ASSUME TableInv, TableInv', AdmitInv, [Next]_vars PROVE AdmitInv'
    OBVIOUS
  <2>1. CASE Quiet /\ authen' = authen /\ files' = files
    BY <2>1 DEF Quiet, AdmitInv
  <2>2. CASE Quiet /\ HTTP_svr_set_option
    BY <2>2 DEF Quiet, HTTP_svr_set_option, AdmitInv
  <2>3. CASE Quiet /\ ReloadHosts
    <3>1. authen' = rauthen_init(authen, files')
      BY <2>3 DEF ReloadHosts
    <3>2. authen' = rauthen_init({}, files')
      BY <3>1 DEF rauthen_init
    <3> QED BY <2>3, <3>2 DEF Quiet, AdmitInv
  <2>4. CASE HTTP_svr_close /\ used' = {}
    BY <2>4 DEF HTTP_svr_close, AdmitInv
  <2>5. CASE HTTP_sess_open
    <3> DEFINE f == FirstFree
    <3>1. f \in Slot \ used
      BY <2>5, FirstFreeIsFree DEF HTTP_sess_open
    <3>2. PICK host \in Hosts :
             /\ rauthen_verify(authen, host)
             /\ peer' = [peer EXCEPT ![f] = NewPeer(host, version + 1)]
      BY <2>5 DEF HTTP_sess_open
    <3>3. used' = used \union {f} /\ authen' = authen /\ files' = files
      BY <2>5 DEF HTTP_sess_open
    <3> HIDE DEF f
    <3>4. Admits(files, host)
      BY <3>2, VerifiedByFile DEF AdmitInv
    <3>5. peer'[f].files = files /\ peer'[f].host = host /\ DOMAIN peer' = Slot
      BY <3>1, <3>2 DEF NewPeer, AdmitInv
    <3>6. \A i \in used : peer'[i] = peer[i]
      BY <3>1, <3>2 DEF AdmitInv, TableInv
    <3> QED BY <3>3, <3>4, <3>5, <3>6 DEF AdmitInv
  <2>6. ASSUME NEW no \in Slot, HTTP_sess_close(no) PROVE AdmitInv'
    <3>1. used' \subseteq used /\ UNCHANGED <<authen, files, peer>>
      BY <2>6 DEF HTTP_sess_close
    <3> QED BY <3>1 DEF AdmitInv
  <2>7. ASSUME NEW i \in Slot, SessionStep(i) PROVE AdmitInv'
    <3>1. used' = used /\ authen' = authen /\ files' = files
      BY <2>7 DEF SessionStep, table
    <3>2. DOMAIN peer' = Slot
      BY <2>7, PeerKept DEF AdmitInv
    <3>3. \A j \in used : peer'[j].files = peer[j].files /\ peer'[j].host = peer[j].host
      BY <2>7, PeerKept DEF AdmitInv, TableInv
    <3> QED BY <3>1, <3>2, <3>3 DEF AdmitInv
  <2> QED BY <2>1, <2>2, <2>3, <2>4, <2>5, <2>6, <2>7, HttpSteps
<1>3. AdmitInv => AdmittedByLatestFile
  BY DEF AdmitInv, Admits, AdmittedByLatestFile
<1> QED BY <1>1, <1>2, <1>3, TableInvariance, PTL DEF Spec

-----------------------------------------------------------------------------
(* The bytes of the requests.                                              *)

WellFormedRequest == {q \in Request : WellFormed(q)}

\* The bytes of request k behind the first `at' of them.
Size(q) == q.crlf + q.header + q.body
Left(k, q, at) == [n \in 1 .. Size(q) - at |-> <<k, at + n>>]

\* The bytes of the requests behind the first k.
Parts(st, k) == [j \in 1 .. Len(st) - k |-> Bytes(k + j, st[k + j])]
Rest(st, k) == FlattenSeq(Parts(st, k))

\* The two parts of a sequence that is cut behind n items.
Ahead(s, n) == SubSeq(s, 1, n)
Behind(s, n) == SubSeq(s, n + 1, Len(s))

\* They make up the sequence.
LEMMA CutParts ==
    ASSUME NEW S, NEW s \in Seq(S), NEW n \in 0..Len(s)
    PROVE  /\ Ahead(s, n) \in Seq(S) /\ Len(Ahead(s, n)) = n
           /\ Behind(s, n) \in Seq(S) /\ Len(Behind(s, n)) = Len(s) - n
           /\ s = Join(Ahead(s, n), Behind(s, n))
<1>1. /\ SubSeq(s, 1, n) \in Seq(S)
      /\ SubSeq(s, n + 1, Len(s)) \in Seq(S)
      /\ Len(SubSeq(s, 1, n)) = n
      /\ Len(SubSeq(s, n + 1, Len(s))) = Len(s) - n
      /\ s = SubSeq(s, 1, n) \o SubSeq(s, n + 1, Len(s))
  BY SplitSeq
<1> QED BY ONLY <1>1, Zenon DEF Ahead, Behind, Join

\* The items behind the cut.
LEMMA BehindItem ==
    ASSUME NEW S, NEW s \in Seq(S), NEW n \in 0..Len(s), NEW m \in 1..(Len(s) - n)
    PROVE  Behind(s, n)[m] = s[n + m]
<1> DEFINE l == Len(s)
<1>1. l \in Nat /\ n \in Nat /\ n + 1 \in Int /\ m \in 1..(l - (n + 1) + 1)
      /\ (n + 1) + m - 1 = n + m
  BY LenProperties
<1>2. \A i \in (n + 1)..l : s[i] \in S
  BY <1>1, ElementOfSeq
<1> HIDE DEF l
<1>3. \A i \in 1..(l - (n + 1) + 1) : SubSeq(s, n + 1, l)[i] = s[(n + 1) + i - 1]
  BY <1>1, <1>2, SubSeqProperties
<1>4. Behind(s, n) = SubSeq(s, n + 1, l)
  BY DEF Behind, l
<1> QED BY <1>1, <1>3, <1>4

\* Two ways to cut a sequence at the same place are the same.
LEMMA ConcatCancel ==
    ASSUME NEW S, NEW a \in Seq(S), NEW b \in Seq(S), NEW c \in Seq(S), NEW d \in Seq(S),
           a \o b = c \o d, Len(a) = Len(c)
    PROVE  a = c /\ b = d
<1> DEFINE u == a \o b
           v == c \o d
<1>3. /\ Len(u) = Len(a) + Len(b)
      /\ \A i \in 1..(Len(a) + Len(b)) : u[i] = IF i <= Len(a) THEN a[i] ELSE b[i - Len(a)]
  BY ConcatProperties
<1>4. /\ Len(v) = Len(c) + Len(d)
      /\ \A i \in 1..(Len(c) + Len(d)) : v[i] = IF i <= Len(c) THEN c[i] ELSE d[i - Len(c)]
  BY ConcatProperties
<1>5. u = v /\ Len(a) \in Nat /\ Len(b) \in Nat /\ Len(d) \in Nat
  BY LenProperties
<1> HIDE DEF u, v
<1>1. a = c
  <2>1. ASSUME NEW i \in 1..Len(a) PROVE a[i] = c[i]
    <3>1. i \in 1..(Len(a) + Len(b)) /\ i \in 1..(Len(c) + Len(d)) /\ i <= Len(a)
      BY <1>5
    <3> QED BY <1>3, <1>4, <1>5, <3>1
  <2> QED BY <2>1, SeqEqual
<1>2. b = d
  <2>1. Len(a) + Len(b) = Len(a) + Len(d)
    BY <1>3, <1>4, <1>5
  <2>3. Len(b) = Len(d)
    BY <1>5, <2>1
  <2>4. ASSUME NEW i \in 1..Len(b) PROVE b[i] = d[i]
    <3> DEFINE j == Len(a) + i
    <3>1. j \in 1..(Len(a) + Len(b)) /\ ~(j <= Len(a)) /\ j - Len(a) = i
      BY <1>5
    <3> HIDE DEF j
    <3>2. u[j] = b[i]
      BY <1>3, <3>1
    <3>3. v[j] = d[i]
      BY <1>4, <2>3, <3>1
    <3> QED BY <1>5, <3>2, <3>3
  <2> QED BY <2>3, <2>4, SeqEqual
<1> QED BY <1>1, <1>2

\* It does not matter which parts are joined first.
LEMMA JoinAssociative ==
    \A S : \A a, b, c \in Seq(S) : Join(Join(a, b), c) = Join(a, Join(b, c))
BY ConcatAssociative DEF Join

\* Sequences cut in three at the same first place.
LEMMA ConcatCut ==
    ASSUME NEW S, NEW a \in Seq(S), NEW b \in Seq(S), NEW c \in Seq(S),
           NEW d \in Seq(S), NEW e \in Seq(S), NEW f \in Seq(S),
           Join(Join(a, b), c) = Join(Join(d, e), f), Len(a) = Len(d)
    PROVE  a = d /\ Join(b, c) = Join(e, f)
<1>1. Join(a, Join(b, c)) = Join(d, Join(e, f))
  BY JoinAssociative
<1>2. Join(b, c) \in Seq(S) /\ Join(e, f) \in Seq(S)
  BY ConcatProperties DEF Join
<1> DEFINE u == Join(b, c)
           v == Join(e, f)
<1> HIDE DEF u, v
<1>3. a \o u = d \o v /\ u \in Seq(S) /\ v \in Seq(S)
  BY <1>1, <1>2 DEF Join, u, v
<1>4. a = d /\ u = v
  BY <1>3, ConcatCancel
<1> QED BY <1>4 DEF u, v

\* The numbers of a request.
LEMMA RequestNumbers ==
    ASSUME NEW q \in Request
    PROVE  /\ q.crlf \in Nat /\ q.header \in Nat /\ q.header > 0 /\ q.body \in Nat
           /\ Size(q) \in Nat /\ Size(q) = q.crlf + q.header + q.body
BY DEF Request, Size

\* They are a sequence of octets.
LEMMA LeftBytes ==
    ASSUME NEW k \in Nat, NEW q \in Request, NEW at \in 0 .. Size(q)
    PROVE  /\ Left(k, q, at) \in Seq(Octet)
           /\ Len(Left(k, q, at)) = Size(q) - at
           /\ \A n \in 1 .. Size(q) - at : Left(k, q, at)[n] = <<k, at + n>>
<1> DEFINE m == Size(q) - at
           f == [n \in 1..m |-> <<k, at + n>>]
<1>1. Size(q) \in Nat
  BY RequestNumbers
<1>2. m \in Nat /\ at \in Nat
  BY <1>1
<1> HIDE DEF m
<1>3. \A n \in 1..m : <<k, at + n>> \in Octet
  BY <1>2 DEF Octet
<1>4. f \in Seq(Octet) /\ Len(f) = m /\ \A n \in 1..m : f[n] = <<k, at + n>>
  BY <1>2, <1>3
<1> QED BY <1>4 DEF Left, m

\* Some more bytes are left out.
LEMMA LeftDrop ==
    ASSUME NEW k \in Nat, NEW q \in Request, NEW at \in 0 .. Size(q),
           NEW n \in 0 .. Size(q) - at
    PROVE  /\ SubSeq(Left(k, q, at), 1, n) \in Seq(Octet)
           /\ Len(SubSeq(Left(k, q, at), 1, n)) = n
           /\ Left(k, q, at) = SubSeq(Left(k, q, at), 1, n) \o Left(k, q, at + n)
<1> DEFINE l == Left(k, q, at)
           r == Left(k, q, at + n)
           a == SubSeq(l, 1, n)
           b == SubSeq(l, n + 1, Len(l))
<1>1. Size(q) \in Nat
  BY RequestNumbers
<1>2. at \in 0..Size(q) /\ n \in 0..(Size(q) - at)
  OBVIOUS
<1>3. at \in Nat /\ n \in Nat /\ at + n \in 0..Size(q)
  BY <1>1, <1>2
<1>4. /\ l \in Seq(Octet) /\ Len(l) = Size(q) - at
      /\ \A m \in 1..(Size(q) - at) : l[m] = <<k, at + m>>
  BY LeftBytes
<1>5. /\ r \in Seq(Octet) /\ Len(r) = Size(q) - (at + n)
      /\ \A m \in 1..(Size(q) - (at + n)) : r[m] = <<k, at + n + m>>
  BY <1>3, LeftBytes
<1> HIDE DEF l, r
<1>6. n \in 0..Len(l)
  BY <1>2, <1>4
<1>7. a \in Seq(Octet) /\ b \in Seq(Octet) /\ Len(a) = n /\ Len(b) = Len(l) - n /\ l = a \o b
  BY <1>4, <1>6, SplitSeq
<1> HIDE DEF a, b
<1>8. ASSUME NEW m \in 1..Len(b) PROVE b[m] = r[m]
  <2>1. Len(b) = Size(q) - (at + n) /\ n + m \in 1..(Size(q) - at) /\ m \in Nat
    BY <1>1, <1>3, <1>4, <1>7
  <2>2. b[m] = l[n + m]
    <3>1. n \in 0..Len(l) /\ m \in 1..(Len(l) - n)
      BY <1>6, <1>7
    <3>2. Behind(l, n)[m] = l[n + m]
      BY <1>4, <3>1, BehindItem
    <3> QED BY <3>2 DEF b, Behind
  <2>3. l[n + m] = <<k, at + (n + m)>>
    BY <1>4, <2>1
  <2>4. r[m] = <<k, at + n + m>>
    BY <1>5, <2>1
  <2>5. at + (n + m) = at + n + m
    BY <1>3, <2>1
  <2> QED BY <2>2, <2>3, <2>4, <2>5
<1>9. Len(b) = Len(r)
  BY <1>1, <1>3, <1>4, <1>5, <1>7
<1>10. b = r
  BY <1>5, <1>7, <1>8, <1>9, SeqEqual
<1> QED BY <1>7, <1>10 DEF l, r, a

\* All the bytes, and the ones the application has to get.
LEMMA BytesAreLeft ==
    ASSUME NEW k \in Nat, NEW q \in Request
    PROVE  /\ Bytes(k, q) = Left(k, q, 0)
           /\ Whole(k, q) = Left(k, q, q.crlf)
           /\ Bytes(k, q) \in Seq(Octet)
<1> DEFINE l == Left(k, q, 0)
           r == Left(k, q, q.crlf)
<1>1. Size(q) \in Nat /\ q.crlf \in Nat /\ q.crlf \in 0..Size(q)
  BY RequestNumbers
<1>2. Bytes(k, q) = l
  <2>1. ASSUME NEW n \in 1..Size(q) PROVE 0 + n = n
    BY <1>1
  <2>2. Size(q) - 0 = Size(q)
    BY <1>1
  <2> QED BY <2>1, <2>2, RequestNumbers DEF Bytes, Left
<1>3. l \in Seq(Octet) /\ Len(l) = Size(q)
  BY <1>1, LeftBytes
<1>4. r \in Seq(Octet)
  BY <1>1, LeftBytes
<1>5. /\ SubSeq(l, 1, q.crlf) \in Seq(Octet) /\ Len(SubSeq(l, 1, q.crlf)) = q.crlf
      /\ l = SubSeq(l, 1, q.crlf) \o r
  <2>1. 0 \in 0..Size(q) /\ q.crlf \in 0..(Size(q) - 0) /\ 0 + q.crlf = q.crlf
    BY <1>1
  <2>2. /\ SubSeq(Left(k, q, 0), 1, q.crlf) \in Seq(Octet)
        /\ Len(SubSeq(Left(k, q, 0), 1, q.crlf)) = q.crlf
        /\ Left(k, q, 0) = SubSeq(Left(k, q, 0), 1, q.crlf) \o Left(k, q, 0 + q.crlf)
    BY <2>1, LeftDrop
  <2> QED BY <2>1, <2>2
<1>6. Whole(k, q) = SubSeq(l, q.crlf + 1, Len(l))
  BY <1>2, <1>3, RequestNumbers DEF Whole
<1> HIDE DEF l, r
<1> DEFINE a == SubSeq(l, 1, q.crlf)
           b == SubSeq(l, q.crlf + 1, Len(l))
<1>7. a \in Seq(Octet) /\ b \in Seq(Octet) /\ l = a \o b
  BY <1>1, <1>3, SplitSeq
<1>8. a \o b = a \o r /\ Len(a) = Len(a)
  BY <1>5, <1>7
<1> HIDE DEF a, b
<1>9. b = r
  BY <1>4, <1>7, <1>8, ConcatCancel
<1> QED BY <1>2, <1>3, <1>6, <1>9 DEF b, l, r

\* The requests behind the first k.
LEMMA RestType ==
    ASSUME NEW st \in Seq(Request), NEW k \in 0..Len(st)
    PROVE  /\ Parts(st, k) \in Seq(Seq(Octet)) /\ Len(Parts(st, k)) = Len(st) - k
           /\ Rest(st, k) \in Seq(Octet)
           /\ k = Len(st) => Rest(st, k) = <<>>
<1> DEFINE n == Len(st) - k
           Q == Seq(Octet)
           f == [j \in 1..n |-> Bytes(k + j, st[k + j])]
<1>1. n \in Nat /\ k \in Nat /\ Len(st) \in Nat
  OBVIOUS
<1>2. ASSUME NEW j \in 1..n PROVE Bytes(k + j, st[k + j]) \in Q
  <2>1. k + j \in Nat /\ k + j \in 1..Len(st)
    BY <1>1
  <2>2. st[k + j] \in Request
    BY <2>1, ElementOfSeq
  <2> QED BY <2>1, <2>2, BytesAreLeft
<1> HIDE DEF n, Q
<1>3. f \in Seq(Q) /\ Len(f) = n
  BY <1>1, <1>2
<1>4. Parts(st, k) \in Seq(Seq(Octet)) /\ Len(Parts(st, k)) = n
  BY <1>3 DEF Parts, n, Q
<1>5. Rest(st, k) \in Seq(Octet)
  BY <1>4, FlattenType DEF Rest
<1>6. ASSUME k = Len(st) PROVE Rest(st, k) = <<>>
  <2>1. Len(Parts(st, k)) = 0
    BY <1>1, <1>4, <1>6 DEF n
  <2>2. Parts(st, k) = <<>>
    BY <1>4, <2>1, EmptySeq
  <2> QED BY <2>2, FlattenEmpty DEF Rest
<1> QED BY <1>4, <1>5, <1>6 DEF n

\* The next of them, and the rest.
LEMMA RestStep ==
    ASSUME NEW st \in Seq(Request), NEW k \in 0..(Len(st) - 1)
    PROVE  Rest(st, k) = Left(k + 1, st[k + 1], 0) \o Rest(st, k + 1)
<1> DEFINE b == Bytes(k + 1, st[k + 1])
           f == Parts(st, k)
           g == Parts(st, k + 1)
           n == Len(st)
<1>1. n \in Nat /\ k \in Nat /\ k + 1 \in Nat /\ k + 1 \in 1..n /\ k \in 0..n /\ k + 1 \in 0..n
  OBVIOUS
<1>2. st[k + 1] \in Request
  BY <1>1, ElementOfSeq
<1>3. b \in Seq(Octet) /\ b = Left(k + 1, st[k + 1], 0)
  BY <1>1, <1>2, BytesAreLeft
<1>4. /\ f \in Seq(Seq(Octet)) /\ Len(f) = n - k
      /\ g \in Seq(Seq(Octet)) /\ Len(g) = n - (k + 1)
  BY <1>1, RestType
<1>5. \A j \in 1..(n - k) : f[j] = Bytes(k + j, st[k + j])
  BY <1>1 DEF Parts
<1>6. \A j \in 1..(n - (k + 1)) : g[j] = Bytes((k + 1) + j, st[(k + 1) + j])
  BY <1>1 DEF Parts
<1>7. f # <<>>
  BY <1>1, <1>4, EmptySeq
<1> HIDE DEF b, f, g, n
<1>8. Head(f) = b
  <2>1. Head(f) = f[1]
    BY <1>4, <1>7
  <2>2. 1 \in 1..(n - k)
    BY <1>1
  <2> QED BY <1>5, <2>1, <2>2 DEF b
<1>9. Tail(f) = g
  <2>1. /\ Tail(f) \in Seq(Seq(Octet)) /\ Len(Tail(f)) = Len(f) - 1
        /\ \A i \in 1..Len(Tail(f)) : Tail(f)[i] = f[i + 1]
    BY <1>4, <1>7, HeadTailProperties
  <2>2. Len(Tail(f)) = Len(g) /\ Len(g) \in Nat
    BY <1>1, <1>4, <2>1
  <2>3. ASSUME NEW i \in 1..Len(g) PROVE Tail(f)[i] = g[i]
    <3>1. /\ i \in Nat /\ i + 1 \in 1..(n - k) /\ i \in 1..(n - (k + 1))
          /\ k + (i + 1) = (k + 1) + i
      BY <1>1, <1>4
    <3>2. f[i + 1] = Bytes(k + (i + 1), st[k + (i + 1)])
      BY <1>5, <3>1
    <3>3. g[i] = Bytes((k + 1) + i, st[(k + 1) + i])
      BY <1>6, <3>1
    <3>4. Tail(f)[i] = f[i + 1]
      BY <2>1, <2>2
    <3> QED BY <3>1, <3>2, <3>3, <3>4
  <2> DEFINE t == Tail(f)
  <2> HIDE DEF t
  <2>4. t = g
    BY <1>4, <2>1, <2>2, <2>3, SeqEqual DEF t
  <2> QED BY <2>4 DEF t
<1>10. f = <<b>> \o g
  BY <1>4, <1>7, <1>8, <1>9, HeadTailConcat
<1>11. FlattenSeq(<<b>> \o g) = b \o FlattenSeq(g)
  BY <1>3, <1>4, FlattenPrepend
<1> QED BY <1>3, <1>10, <1>11 DEF Rest, f, g

\* What a peer has to send at first.
LEMMA StreamIsRest ==
    ASSUME NEW st \in Seq(Request)
    PROVE  StreamBytes(st) = Rest(st, 0)
<1>1. Len(st) \in Nat /\ DOMAIN st = 1..Len(st)
  BY LenProperties
<1>2. Len(st) - 0 = Len(st) /\ \A j \in 1..Len(st) : 0 + j = j
  BY <1>1
<1> HIDE DEF Bytes
<1>3. [k \in DOMAIN st |-> Bytes(k, st[k])] = Parts(st, 0)
  BY <1>1, <1>2 DEF Parts
<1> QED BY <1>3 DEF StreamBytes, Rest

-----------------------------------------------------------------------------
(* What the decoder finds at the front of the read buffer.                 *)

\* The bytes received and not received are those of request k behind the
\* first `at', and R.
At(st, k, at, data, todo, R) ==
    /\ data \in Seq(Octet) /\ todo \in Seq(Octet) /\ R \in Seq(Octet)
    /\ st \in Seq(Request) /\ k \in 1..Len(st)
    /\ at \in 0..st[k].crlf
    /\ Join(data, todo) = Join(Left(k, st[k], at), R)

\* The numbers are of the types the arithmetic needs.
LEMMA AtNumbers ==
    ASSUME NEW st, NEW k, NEW at, NEW data, NEW todo, NEW R, At(st, k, at, data, todo, R)
    PROVE  /\ k \in Nat /\ k > 0 /\ st[k] \in Request /\ at \in Nat
           /\ st[k].crlf \in Nat /\ st[k].header \in Nat /\ st[k].body \in Nat
           /\ st[k].header > 0 /\ at <= st[k].crlf /\ at \in 0..Size(st[k])
           /\ Size(st[k]) \in Nat /\ Size(st[k]) = st[k].crlf + st[k].header + st[k].body
           /\ Len(data) \in Nat
<1>1. k \in 1..Len(st) /\ st \in Seq(Request) /\ at \in 0..st[k].crlf /\ Len(st) \in Nat
  BY LenProperties DEF At
<1>2. st[k] \in Request
  BY <1>1, ElementOfSeq
<1> DEFINE q == st[k]
<1>3. /\ q.crlf \in Nat /\ q.header \in Nat /\ q.header > 0 /\ q.body \in Nat
      /\ Size(q) \in Nat /\ Size(q) = q.crlf + q.header + q.body
  BY <1>2, RequestNumbers
<1>4. Len(data) \in Nat
  BY LenProperties DEF At
<1> QED BY <1>1, <1>2, <1>3, <1>4

\* The bytes at the front belong to that request.
LEMMA FrontByte ==
    ASSUME NEW st, NEW k, NEW at, NEW data, NEW todo, NEW R, At(st, k, at, data, todo, R),
           NEW n \in 1..Len(data), n <= Size(st[k]) - at
    PROVE  /\ data[n] # Nul
           /\ IsCrlf(st, data[n]) <=> at + n <= st[k].crlf
           /\ IsHeaderEnd(st, data[n]) <=> at + n = st[k].crlf + st[k].header
           /\ data[n][1] = k
<1> DEFINE q == st[k]
           l == Left(k, q, at)
<1>1. /\ k \in Nat /\ k > 0 /\ q \in Request /\ at \in 0..Size(q) /\ Size(q) \in Nat
      /\ Len(data) \in Nat /\ at \in Nat
  BY AtNumbers
<1>2. /\ data \in Seq(Octet) /\ todo \in Seq(Octet) /\ R \in Seq(Octet)
      /\ data \o todo = l \o R
  BY DEF At, Join
<1>3. /\ l \in Seq(Octet) /\ Len(l) = Size(q) - at
      /\ \A m \in 1 .. Size(q) - at : l[m] = <<k, at + m>>
  BY <1>1, LeftBytes
<1>4. n \in 1 .. Size(q) - at /\ n \in 1..Len(l)
  BY <1>1, <1>3
<1>5. l[n] = <<k, at + n>>
  BY <1>3, <1>4
<1> HIDE DEF l
<1>6. (data \o todo)[n] = data[n]
  BY <1>2
<1>7. (l \o R)[n] = l[n]
  BY <1>2, <1>3, <1>4
<1>8. data[n] = <<k, at + n>>
  BY <1>2, <1>5, <1>6, <1>7
<1>9. data[n][1] = k /\ data[n][2] = at + n
  BY <1>8
<1>10. data[n] # Nul
  <2>1. Nul[1] = 0
    BY DEF Nul
  <2> QED BY <1>1, <1>9, <2>1
<1> QED BY <1>9, <1>10 DEF IsCrlf, IsHeaderEnd

\* Some bytes are taken from the front.
LEMMA FrontTaken ==
    ASSUME NEW st, NEW k, NEW at, NEW x \in Seq(Octet), NEW d \in Seq(Octet), NEW todo, NEW R,
           At(st, k, at, Join(x, d), todo, R), Len(x) <= Size(st[k]) - at
    PROVE  /\ x = SubSeq(Left(k, st[k], at), 1, Len(x))
           /\ Join(d, todo) = Join(Left(k, st[k], at + Len(x)), R)
<1> DEFINE q == st[k]
           l == Left(k, q, at)
           n == Len(x)
           y == SubSeq(l, 1, n)
           z == Left(k, q, at + n)
<1>1. /\ k \in Nat /\ q \in Request /\ at \in 0..Size(q) /\ Size(q) \in Nat /\ at \in Nat
  BY AtNumbers
<1>2. /\ todo \in Seq(Octet) /\ R \in Seq(Octet)
      /\ Join(Join(x, d), todo) = Join(l, R)
  BY DEF At
<1>3. n \in 0 .. Size(q) - at /\ at + n \in 0..Size(q) /\ n \in Nat
  <2>1. n \in Nat /\ n <= Size(q) - at
    BY LenProperties
  <2> HIDE DEF n
  <2> QED BY <1>1, <2>1
<1>4. z \in Seq(Octet)
  BY <1>1, <1>3, LeftBytes
<1>5. y \in Seq(Octet) /\ Len(y) = n /\ l = y \o z
  BY <1>1, <1>3, LeftDrop
<1> HIDE DEF l, n, y, z
<1>6. Join(Join(x, d), todo) = Join(Join(y, z), R) /\ Len(x) = Len(y)
  BY <1>2, <1>5 DEF Join, n
<1>7. x = y /\ Join(d, todo) = Join(z, R)
  BY <1>2, <1>4, <1>5, <1>6, ConcatCut
<1> QED BY <1>7 DEF l, y, z, n

\* The line ends in front of the request are skipped, and nothing else.
LEMMA SkippedLines ==
    ASSUME NEW st, NEW k, NEW at, NEW data, NEW todo, NEW R, At(st, k, at, data, todo, R)
    PROVE  \E to \in 0..st[k].crlf :
              /\ At(st, k, to, Skipped(st, data), todo, R)
              /\ Skipped(st, data) # <<>> => to = st[k].crlf
              /\ Len(Skipped(st, data)) <= Len(data)
              /\ Len(Skipped(st, data)) < Len(data) => st[k].crlf > 0
<1> DEFINE q == st[k]
           c == q.crlf - at
           Skip(n) == /\ \A m \in 1 .. n : IsCrlf(st, data[m])
                      /\ n = Len(data) \/ ~IsCrlf(st, data[n + 1])
           skip == CHOOSE n \in 0 .. Len(data) : Skip(n)
           w == IF Len(data) <= c THEN Len(data) ELSE c
<1>1. /\ at \in Nat /\ at <= q.crlf /\ q.crlf \in Nat /\ q.header \in Nat /\ q.header > 0
      /\ q.body \in Nat /\ Size(q) = q.crlf + q.header + q.body /\ Len(data) \in Nat
  BY AtNumbers
<1>2. c \in Nat /\ c + 1 <= Size(q) - at /\ at + c = q.crlf
  <2> DEFINE l == q.crlf
             h == q.header
             b == q.body
             z == Size(q)
  <2>1. at \in Nat /\ at <= l /\ l \in Nat /\ h \in Nat /\ h > 0 /\ b \in Nat /\ z = l + h + b
    BY <1>1
  <2> HIDE DEF l, h, b, z
  <2>2. l - at \in Nat /\ (l - at) + 1 <= z - at /\ at + (l - at) = l
    BY <2>1
  <2> QED BY <2>2 DEF l, z
<1>3. ASSUME NEW m \in 1..Len(data), m <= c + 1
      PROVE  IsCrlf(st, data[m]) <=> m <= c
  <2>1. m <= Size(q) - at
    <3>1. m \in Nat /\ Size(q) \in Nat
      BY <1>1
    <3> HIDE DEF c
    <3> QED BY <1>1, <1>2, <1>3, <3>1
  <2>2. IsCrlf(st, data[m]) <=> at + m <= q.crlf
    BY <2>1, FrontByte
  <2>3. at + m <= q.crlf <=> m <= c
    BY <1>1
  <2> HIDE DEF c
  <2> QED BY <2>2, <2>3
<1>4. w \in 0..Len(data) /\ Skip(w)
  <2> HIDE DEF c
  <2>1. w \in 0..Len(data) /\ w <= c /\ (w # Len(data) => w = c /\ c < Len(data))
    BY <1>1, <1>2
  <2> HIDE DEF w
  <2>2. \A m \in 1..w : IsCrlf(st, data[m])
    <3> SUFFICES ASSUME NEW m \in 1..w PROVE IsCrlf(st, data[m])
      OBVIOUS
    <3>1. m \in 1..Len(data) /\ m <= c + 1 /\ m <= c
      BY <1>1, <1>2, <2>1
    <3> QED BY <1>3, <3>1
  <2>3. w # Len(data) => ~IsCrlf(st, data[w + 1])
    BY <1>1, <1>2, <1>3, <2>1
  <2> QED BY <2>1, <2>2, <2>3
<1> HIDE DEF w
<1>5. skip \in 0..Len(data) /\ Skip(skip)
  <2> HIDE DEF Skip
  <2> QED BY <1>4
<1>6. Skipped(st, data) = SubSeq(data, skip + 1, Len(data))
  BY DEF Skipped
<1> HIDE DEF skip, c
<1>7. skip <= c
  BY <1>1, <1>2, <1>3, <1>5
<1>8. skip = Len(data) \/ skip = c
  BY <1>1, <1>2, <1>3, <1>5, <1>7
<1> HIDE DEF Skip
<1> DEFINE to == at + skip
           d == Skipped(st, data)
<1>9. to \in 0..q.crlf /\ skip <= Size(q) - at
  <2>1. skip \in Nat /\ skip <= c
    BY <1>1, <1>5, <1>7
  <2>2. Size(q) \in Nat
    BY <1>1
  <2>3. at \in Nat
    BY <1>1
  <2> DEFINE l == q.crlf
             z == Size(q)
  <2>4. c \in Nat /\ c + 1 <= z - at /\ at + c = l /\ z \in Nat
    BY <1>2, <2>2
  <2> HIDE DEF skip, c, l, z
  <2>5. at + skip \in 0..l /\ skip <= z - at
    BY <2>1, <2>3, <2>4
  <2> QED BY <2>5 DEF l, z
<1>10. d \in Seq(Octet) /\ Len(d) = Len(data) - skip /\ Join(d, todo) = Join(Left(k, q, to), R)
  <2> DEFINE x == Ahead(data, skip)
             e == Behind(data, skip)
  <2>1. skip \in 0..Len(data) /\ data \in Seq(Octet) /\ todo \in Seq(Octet)
    BY <1>5 DEF At
  <2>2. /\ x \in Seq(Octet) /\ e \in Seq(Octet) /\ data = Join(x, e)
        /\ Len(x) = skip /\ Len(e) = Len(data) - skip
    <3> HIDE DEF skip
    <3> QED BY <2>1, CutParts
  <2> HIDE DEF x, e
  <2>3. Join(e, todo) = Join(Left(k, q, at + skip), R)
    <3>1. Len(x) <= Size(st[k]) - at
      BY <1>9, <2>2
    <3>2. At(st, k, at, Join(x, e), todo, R)
      BY <2>2
    <3>3. /\ x = SubSeq(Left(k, st[k], at), 1, Len(x))
          /\ Join(e, todo) = Join(Left(k, st[k], at + Len(x)), R)
      BY <2>2, <3>1, <3>2, FrontTaken
    <3> QED BY <2>2, <3>3
  <2>4. d = e
    BY <1>6 DEF e, Behind
  <2> HIDE DEF d
  <2> QED BY <2>2, <2>3, <2>4
<1> HIDE DEF d, to
<1>11. At(st, k, to, d, todo, R)
  BY <1>9, <1>10 DEF At
<1>12. d # <<>> => to = q.crlf
  <2>1. d # <<>> => Len(d) # 0
    BY <1>10, EmptySeq
  <2>2. Len(d) = Len(data) - skip
    BY <1>10
  <2>3. Len(d) # 0 => skip # Len(data)
    BY <1>1, <2>2
  <2>4. skip = c => to = q.crlf
    BY <1>2 DEF to
  <2> QED BY <1>8, <2>1, <2>3, <2>4
<1>13. Len(d) <= Len(data) /\ (Len(d) < Len(data) => q.crlf > 0)
  <2> DEFINE l == q.crlf
  <2>1. /\ skip \in Nat /\ c \in Nat /\ skip <= c /\ at + c = l /\ at \in Nat
        /\ Len(data) \in Nat
    BY <1>1, <1>2, <1>5, <1>7
  <2> HIDE DEF l
  <2>2. Len(d) <= Len(data) /\ (Len(d) < Len(data) => l > 0)
    BY <1>10, <2>1
  <2> QED BY <2>2 DEF l
<1> QED BY <1>9, <1>11, <1>12, <1>13 DEF d

FirstEnd(ends) == CHOOSE n \in ends : \A m \in ends : n <= m

\* The empty line that is found first ends the header of this request.
LEMMA HeaderEndFound ==
    ASSUME NEW st, NEW k, NEW d, NEW todo, NEW R, At(st, k, st[k].crlf, d, todo, R), d # <<>>
    PROVE  /\ d[1][1] = k
           /\ HeaderEnds(st, d) = {} \/ st[k].header \in HeaderEnds(st, d)
           /\ HeaderEnds(st, d) # {} =>
                 /\ st[k].header <= Len(d)
                 /\ st[k].header = FirstEnd(HeaderEnds(st, d))
<1> DEFINE q == st[k]
           h == q.header
           ends == HeaderEnds(st, d)
<1>1. /\ q.crlf \in Nat /\ h \in Nat /\ h > 0
      /\ q.body \in Nat /\ Size(q) = q.crlf + h + q.body /\ Len(d) \in Nat
  BY AtNumbers
<1>2. d \in Seq(Octet)
  BY DEF At
<1>3. Len(d) > 0 /\ DOMAIN d = 1..Len(d)
  BY <1>1, <1>2, EmptySeq, LenProperties
<1>4. ASSUME NEW n \in 1..Len(d), n <= h
      PROVE  d[n][1] = k /\ (IsHeaderEnd(st, d[n]) <=> n = h)
  <2>1. n <= Size(q) - q.crlf
    BY <1>1, <1>4
  <2>2. d[n][1] = k /\ (IsHeaderEnd(st, d[n]) <=> q.crlf + n = q.crlf + h)
    BY <2>1, FrontByte
  <2>3. q.crlf + n = q.crlf + h <=> n = h
    BY <1>1
  <2> QED BY <2>2, <2>3
<1>5. ends = {n \in 1..Len(d) : IsHeaderEnd(st, d[n])}
  BY <1>3 DEF HeaderEnds
<1>6. d[1][1] = k
  BY <1>1, <1>3, <1>4
<1> HIDE DEF ends, h
<1>7. \A m \in ends : h <= m
  BY <1>1, <1>4, <1>5
<1>8. h \in ends <=> h <= Len(d)
  BY <1>1, <1>4, <1>5
<1>9. ends # {} => h \in ends
  BY <1>1, <1>5, <1>7, <1>8
<1>10. ASSUME ends # {} PROVE h = FirstEnd(ends)
  <2>1. ends \subseteq Nat
    BY <1>1, <1>5
  <2>2. ASSUME NEW n \in ends, \A m \in ends : n <= m PROVE n = h
    BY <1>1, <1>7, <1>9, <1>10, <2>1, <2>2
  <2> QED BY <1>7, <1>9, <1>10, <2>2 DEF FirstEnd
<1> QED BY <1>6, <1>8, <1>9, <1>10 DEF ends, h

-----------------------------------------------------------------------------
(* What the calls do to one session.                                       *)

\* The buffer has room for what ADJUST_SIZE was asked for.
LEMMA AdjustedRoom ==
    ASSUME NEW len \in Nat
    PROVE  Adjusted(len) \in Nat /\ Adjusted(len) >= len
<1> DEFINE D == HTTP_DATA_BUFFER
           rest == len % D
<1>1. D \in Nat /\ D > 0
  BY HttpAssumption
<1>2. rest \in 0..(D - 1)
  BY <1>1
<1> HIDE DEF rest, D
<1>3. Adjusted(len) = IF rest > 0 THEN len + D - rest ELSE len
  BY DEF Adjusted, rest, D
<1> QED BY <1>1, <1>2, <1>3

\* Growing the buffer changes its size and clears what is behind its bytes, and
\* leaves room for the request that is waited for.
LEMMA GrownRoom ==
    ASSUME NEW s \in HSSESSION
    PROVE  /\ Grown(s).size \in Nat
           /\ Grown(s).size >= s.size
           /\ Grown(s).stale \in {0, s.stale}
           /\ Grown(s) = [s EXCEPT !.size = Grown(s).size, !.stale = Grown(s).stale]
           /\ s.header_length + s.body_length > Len(s.data) => Grown(s).size > Len(s.data)
<1> DEFINE n == s.header_length + s.body_length
           l == Len(s.data)
           z == Adjusted(l + n)
           g == Grown(s)
           zero == 0
<1>1. l \in Nat /\ n \in Int /\ s.size \in Nat
  BY LenProperties DEF HSSESSION
<1>2. g = IF n > l THEN IF l + n > s.size THEN [s EXCEPT !.size = z, !.stale = zero]
         ELSE s ELSE s
  BY DEF Grown, http_alloc_buffer
<1>3. n > l => l + n \in Nat
  BY <1>1
<1>4. n > l => z \in Nat /\ z >= l + n
  BY <1>3, AdjustedRoom
<1>5. [s EXCEPT !.size = z, !.stale = zero].size = z
      /\ [s EXCEPT !.size = z, !.stale = zero].stale = zero
  BY DEF HSSESSION
<1>6. s = [s EXCEPT !.size = s.size, !.stale = s.stale]
  BY DEF HSSESSION
<1> HIDE DEF n, l, z, g, zero
<1>7. CASE n > l /\ l + n > s.size
  <2>1. g = [s EXCEPT !.size = z, !.stale = zero] /\ g.size = z /\ g.stale = zero
    BY <1>2, <1>5, <1>7
  <2>2. z \in Nat /\ z >= s.size /\ z > l
    BY <1>1, <1>4, <1>7
  <2> QED BY <2>1, <2>2 DEF g, n, l, zero
<1>8. CASE ~(n > l /\ l + n > s.size)
  <2>1. g = s /\ g.size = s.size /\ g.stale = s.stale
    BY <1>2, <1>8
  <2>2. n > l => s.size > l
    BY <1>1, <1>8
  <2> QED BY <1>1, <1>6, <2>1, <2>2 DEF g, n, l
<1> QED BY <1>7, <1>8

\* What reading and decoding leave alone.
SameWriting(s, e) ==
    /\ e.version = s.version /\ e.w_buffer = s.w_buffer
    /\ e.w_curr = s.w_curr /\ e.write_time = s.write_time

\* What Parsed makes of a header: a refusal, or the length of the body.
LEMMA ParsedRequest ==
    ASSUME NEW s \in HSSESSION, NEW q \in WellFormedRequest, s.header_length \in Nat
    PROVE  /\ Parsed(s, q) \in HSSESSION
           /\ SameWriting(s, Parsed(s, q))
           /\ Parsed(s, q).size = s.size
           /\ Parsed(s, q).stale = s.stale
           /\ Parsed(s, q).read_time = s.read_time
           /\ Parsed(s, q).header_length = s.header_length
           /\ \/ Parsed(s, q).result \in {"error", "failed"}
              \/ /\ Parsed(s, q).data = s.data /\ Parsed(s, q).body_length = q.body
                 /\ \/ Parsed(s, q).result = "new"
                    \/ Parsed(s, q).result = "data" /\ q.body = 0
<1> DEFINE e == Parsed(s, q)
           c == Cut(s.data, s.header_length)
           none == 0
           e1 == [s EXCEPT !.data = c, !.result = "error"]
           e2 == [s EXCEPT !.result = "error"]
           e3 == [s EXCEPT !.body_length = none, !.result = "data"]
           e4 == [s EXCEPT !.body_length = none, !.result = "failed"]
           e5 == [s EXCEPT !.result = "failed"]
           e6 == [s EXCEPT !.body_length = q.length, !.result = "new"]
<1>1. /\ q \in Request /\ WellFormed(q)
      /\ q.method \in {"GET", "POST", "PUT", "DELETE", "TRACE", "HEAD", "OPTIONS", "CONNECT",
                       "none"}
      /\ q.length \in Nat \union {Missing, Invalid}
  BY DEF WellFormedRequest, Request
<1>2. c \in Seq(Octet)
  <2>1. s.data \in Seq(Octet) /\ s.header_length \in Int
    BY DEF HSSESSION
  <2>2. Nul \in Octet
    BY DEF Nul, Octet
  <2>3. CASE s.header_length < Len(s.data)
    <3>1. c = [s.data EXCEPT ![s.header_length + 1] = Nul]
      BY <2>3 DEF Cut
    <3>2. s.header_length + 1 \in 1..Len(s.data)
      BY <2>1, <2>3
    <3> QED BY <2>1, <2>2, <3>1, <3>2, ExceptSeq
  <2>4. CASE ~(s.header_length < Len(s.data))
    <3>1. c = s.data
      BY <2>4 DEF Cut
    <3> QED BY <2>1, <3>1
  <2> QED BY <2>3, <2>4
<1>0. none \in Int
  OBVIOUS
<1> HIDE DEF c, none
<1>3. CASE q.method = "none" \/ ~q.version
  <2>1. e = e1
    BY <1>3 DEF Parsed, c
  <2>2. e1 \in HSSESSION /\ SameWriting(s, e1) /\ e1.size = s.size /\ e1.read_time = s.read_time
        /\ e1.header_length = s.header_length /\ e1.result = "error" /\ e1.stale = s.stale
    BY <1>2 DEF HSSESSION, SameWriting
  <2> QED BY <2>1, <2>2
<1>4. CASE q.method # "none" /\ q.version /\ ~q.uri
  <2>1. e = e2
    BY <1>4 DEF Parsed
  <2>2. e2 \in HSSESSION /\ SameWriting(s, e2) /\ e2.size = s.size /\ e2.read_time = s.read_time
        /\ e2.header_length = s.header_length /\ e2.result = "error" /\ e2.stale = s.stale
    BY DEF HSSESSION, SameWriting
  <2> QED BY <2>1, <2>2
<1>5. CASE q.method \notin {"none", "PUT", "POST"} /\ q.version /\ q.uri
  <2>1. e = e3
    BY <1>5 DEF Parsed, none
  <2>2. e3 \in HSSESSION /\ SameWriting(s, e3) /\ e3.size = s.size /\ e3.read_time = s.read_time
        /\ e3.header_length = s.header_length /\ e3.result = "data" /\ e3.stale = s.stale /\ e3.data = s.data
        /\ e3.body_length = none
    BY <1>0 DEF HSSESSION, SameWriting
  <2>3. q.body = 0
    BY <1>1, <1>5 DEF WellFormed
  <2> QED BY <2>1, <2>2, <2>3 DEF none
<1>6. CASE q.method \in {"PUT", "POST"} /\ q.version /\ q.uri
  <2>1. e = CASE q.length = Missing -> e4
              [] q.length = Invalid -> e5
              [] OTHER -> e6
    BY <1>6 DEF Parsed, none
  <2>2. e4 \in HSSESSION /\ SameWriting(s, e4) /\ e4.size = s.size /\ e4.read_time = s.read_time
        /\ e4.header_length = s.header_length /\ e4.result = "failed" /\ e4.stale = s.stale
    BY <1>0 DEF HSSESSION, SameWriting
  <2>3. e5 \in HSSESSION /\ SameWriting(s, e5) /\ e5.size = s.size /\ e5.read_time = s.read_time
        /\ e5.header_length = s.header_length /\ e5.result = "failed" /\ e5.stale = s.stale
    BY DEF HSSESSION, SameWriting
  <2>4. q.length \in Int
    BY <1>1 DEF Missing, Invalid
  <2>5. e6 \in HSSESSION /\ SameWriting(s, e6) /\ e6.size = s.size /\ e6.read_time = s.read_time
        /\ e6.header_length = s.header_length /\ e6.result = "new" /\ e6.stale = s.stale /\ e6.data = s.data
        /\ e6.body_length = q.length
    BY <2>4 DEF HSSESSION, SameWriting
  <2>6. Missing # Invalid
    BY DEF Missing, Invalid
  <2>7. CASE q.length = Missing
    <3>1. e = e4
      BY <2>1, <2>6, <2>7
    <3> QED BY <2>2, <3>1
  <2>8. CASE q.length = Invalid
    <3>1. e = e5
      BY <2>1, <2>6, <2>8
    <3> QED BY <2>3, <3>1
  <2>9. CASE q.length \in Nat
    <3>1. q.length # Missing /\ q.length # Invalid
      BY <2>9 DEF Missing, Invalid
    <3>2. e = e6
      BY <2>1, <3>1
    <3>3. q.body = q.length
      BY <1>1, <1>6, <2>9 DEF WellFormed
    <3> QED BY <2>5, <3>2, <3>3
  <2> QED BY <1>1, <2>7, <2>8, <2>9
<1> QED BY <1>1, <1>3, <1>4, <1>5, <1>6

-----------------------------------------------------------------------------
(* A session between two requests, or in the middle of one.                *)

Live == {"new", "wait", "data"}

\* What is known of request q when `at' of its bytes are gone: once the header
\* is complete, its length and the one of the body; and a request that is
\* ready is in the buffer to its last byte.
HeaderKnown(s, q, at) ==
    /\ s.header_length < 0 => s.result # "data"
    /\ s.header_length >= 0 =>
          /\ at = q.crlf /\ s.header_length = q.header /\ s.body_length = q.body
          /\ s.result = "data" => q.header + q.body <= Len(s.data)

\* The session is in request k, or has had them all.
InRequest(s, p, st, k) ==
    /\ k \in 1..Len(st)
    /\ \E at \in 0..st[k].crlf :
          /\ At(st, k, at, s.data, p.todo, Rest(st, k))
          /\ HeaderKnown(s, st[k], at)

AllTaken(s, p, st, k) ==
    /\ k = Len(st) + 1
    /\ s.data = <<>> /\ p.todo = <<>> /\ s.header_length < 0 /\ s.result # "data"

\* The requests that were taken are those that were sent, and the bytes that
\* were not taken are those of the requests behind them.
Framed(s, p, st) ==
    /\ \A n \in 1..Len(p.taken) : p.taken[n] = Whole(n, st[n])
    /\ Len(p.taken) <= Len(st)
    /\ s.result \in Live => \/ InRequest(s, p, st, Len(p.taken) + 1)
                            \/ AllTaken(s, p, st, Len(p.taken) + 1)

\* The session after HTTP_sess_decode.
Decoded(st, s) ==
    LET t == IF s.header_length < 0 THEN HeaderDecoded(st, s) ELSE s
    IN  IF t.result = "new" THEN BodyDecoded(t) ELSE t

\* The header part of the decoder.
LEMMA HeaderPart ==
    ASSUME NEW s \in HSSESSION, NEW todo, NEW st \in Seq(WellFormedRequest), NEW k, NEW at, NEW R,
           At(st, k, at, s.data, todo, R), s.header_length < 0
    PROVE  LET t == HeaderDecoded(st, s)
           IN  /\ t \in HSSESSION
               /\ SameWriting(s, t) /\ t.size = s.size
               /\ t.read_time = s.read_time \/ t.data = <<>>
               /\ t.result \in Live =>
                     \E to \in 0..st[k].crlf :
                        At(st, k, to, t.data, todo, R) /\ HeaderKnown(t, st[k], to)
               /\ t.result = "new" => t.header_length >= 0
               /\ t.result # "overrun"
               /\ t.stale > 0 => s.stale > 0 \/ st[k].crlf > 0
               /\ t.result = "wait" => t.data = <<>> \/ Len(t.data) < HTTP_MAX_HEADER_SIZE
<1> DEFINE t == HeaderDecoded(st, s)
           q == st[k]
           d == Skipped(st, s.data)
           ends == HeaderEnds(st, d)
           h == FirstEnd(ends)
           old == s.stale + Len(s.data) - Len(d)
           s0 == [s EXCEPT !.data = d, !.stale = old]
           Older(u) == u.stale > 0 => s.stale > 0 \/ q.crlf > 0
<1>1. PICK to \in 0..q.crlf : /\ At(st, k, to, d, todo, R)
                              /\ d # <<>> => to = q.crlf
                              /\ Len(d) <= Len(s.data)
                              /\ Len(d) < Len(s.data) => q.crlf > 0
  BY SkippedLines
<1>2. d \in Seq(Octet) /\ q \in WellFormedRequest /\ k \in 1..Len(st)
  <2>1. d \in Seq(Octet) /\ k \in 1..Len(st)
    BY <1>1 DEF At
  <2> QED BY <2>1, ElementOfSeq
<1>3. Len(d) \in Nat /\ q.header \in Nat /\ q.body \in Nat /\ q.header > 0
  BY <1>1, AtNumbers
<1>31. old \in Nat /\ (old > 0 => s.stale > 0 \/ q.crlf > 0)
  <2> DEFINE l == Len(s.data)
             m == Len(d)
             z == s.stale
  <2>1. l \in Nat /\ m \in Nat /\ z \in Nat /\ m <= l /\ (m < l => q.crlf > 0)
    BY <1>1, <1>3, LenProperties DEF HSSESSION
  <2> HIDE DEF l, m, z, d
  <2>2. z + l - m \in Nat /\ (z + l - m > 0 => z > 0 \/ m < l)
    BY <2>1
  <2> QED BY <2>1, <2>2 DEF l, m, z
<1> HIDE DEF old
<1>4. /\ s0 \in HSSESSION /\ SameWriting(s, s0) /\ s0.size = s.size
      /\ s0.read_time = s.read_time /\ s0.data = d /\ s0.header_length = s.header_length
      /\ s0.stale = old
  BY <1>2, <1>31 DEF HSSESSION, SameWriting
<1>41. Older(s0)
  BY <1>31, <1>4
<1>0. s.header_length \in Int /\ ~(s.header_length >= 0)
  BY DEF HSSESSION
<1>5. CASE d = <<>>
  <2> DEFINE e == [s0 EXCEPT !.read_time = FALSE, !.result = "wait"]
  <2>1. t = e
    BY <1>5 DEF HeaderDecoded, old
  <2> HIDE DEF s0, d
  <2>2. /\ e \in HSSESSION /\ SameWriting(s0, e) /\ e.size = s0.size /\ e.stale = s0.stale /\ e.data = s0.data
        /\ e.header_length = s0.header_length /\ e.result = "wait"
    BY <1>4 DEF HSSESSION, SameWriting
  <2> HIDE DEF e
  <2>3. SameWriting(s, e)
    BY <1>4, <2>2 DEF SameWriting
  <2>4. At(st, k, to, e.data, todo, R)
    BY <1>1, <1>4, <2>2
  <2>5. HeaderKnown(e, q, to)
    BY <1>0, <1>4, <2>2 DEF HeaderKnown
  <2>6. Older(e) /\ e.result # "overrun"
    BY <1>41, <2>2
  <2> QED BY <1>4, <1>5, <2>1, <2>2, <2>3, <2>4, <2>5, <2>6
<1>6. CASE d # <<>> /\ ends = {}
  <2> DEFINE r == IF Len(d) >= HTTP_MAX_HEADER_SIZE THEN "failed" ELSE "wait"
             e == [s0 EXCEPT !.result = r]
  <2>1. t = e
    BY <1>6 DEF HeaderDecoded, old
  <2>2. /\ r \in {"failed", "wait"}
        /\ r = "wait" => Len(d) < HTTP_MAX_HEADER_SIZE
    <3>1. HTTP_MAX_HEADER_SIZE \in Nat
      BY HttpAssumption
    <3> HIDE DEF d
    <3> QED BY <1>3, <3>1
  <2> HIDE DEF s0, d, r
  <2>3. /\ e \in HSSESSION /\ SameWriting(s0, e) /\ e.size = s0.size /\ e.stale = s0.stale /\ e.data = s0.data
        /\ e.read_time = s0.read_time
        /\ e.header_length = s0.header_length /\ e.result = r
    BY <1>4, <2>2 DEF HSSESSION, SameWriting
  <2> HIDE DEF e
  <2>4. SameWriting(s, e)
    BY <1>4, <2>3 DEF SameWriting
  <2>5. At(st, k, to, e.data, todo, R)
    BY <1>1, <1>4, <2>3
  <2>6. HeaderKnown(e, q, to)
    BY <1>0, <1>4, <2>2, <2>3 DEF HeaderKnown
  <2>7. Older(e) /\ e.result # "overrun"
    BY <1>41, <2>2, <2>3
  <2> QED BY <1>4, <2>1, <2>2, <2>3, <2>4, <2>5, <2>6, <2>7
<1>7. CASE d # <<>> /\ ends # {}
  <2>1. At(st, k, q.crlf, d, todo, R) /\ to = q.crlf
    BY <1>1, <1>7
  <2>2. d[1][1] = k /\ h = q.header /\ q.header <= Len(d)
    <3> HIDE DEF d
    <3> QED BY <1>7, <2>1, HeaderEndFound
  <2> DEFINE l == q.header
             s1 == [s0 EXCEPT !.header_length = l]
             e0 == [s0 EXCEPT !.header_length = l, !.result = "failed"]
             e1 == Parsed(s1, q)
  <2>3. t = IF q.header < MIN_HEADER THEN e0 ELSE e1
    <3>1. t = IF h < MIN_HEADER
              THEN [s0 EXCEPT !.header_length = h, !.result = "failed"]
              ELSE Parsed([s0 EXCEPT !.header_length = h], st[d[1][1]])
      BY <1>7 DEF HeaderDecoded, FirstEnd, old
    <3> HIDE DEF h, d, s0
    <3> QED BY <2>2, <3>1
  <2>0. l \in Int /\ l \in Nat
    BY <1>3
  <2> HIDE DEF s0, d, h, ends, l
  <2>4. /\ s1 \in HSSESSION /\ SameWriting(s0, s1) /\ s1.size = s0.size /\ s1.stale = s0.stale /\ s1.data = s0.data
        /\ s1.read_time = s0.read_time /\ s1.header_length = l
    BY <1>4, <2>0 DEF HSSESSION, SameWriting
  <2>5. /\ e0 \in HSSESSION /\ SameWriting(s0, e0) /\ e0.size = s0.size /\ e0.stale = s0.stale /\ e0.data = s0.data
        /\ e0.read_time = s0.read_time /\ e0.result = "failed"
    BY <1>4, <2>0 DEF HSSESSION, SameWriting
  <2> HIDE DEF s1, e0
  <2>6. /\ e1 \in HSSESSION /\ SameWriting(s1, e1) /\ e1.size = s1.size /\ e1.stale = s1.stale
        /\ e1.read_time = s1.read_time /\ e1.header_length = s1.header_length
        /\ \/ e1.result \in {"error", "failed"}
           \/ /\ e1.data = s1.data /\ e1.body_length = q.body
              /\ \/ e1.result = "new"
                 \/ e1.result = "data" /\ q.body = 0
    BY <1>2, <2>0, <2>4, ParsedRequest
  <2> HIDE DEF e1
  <2>7. CASE q.header < MIN_HEADER
    <3>1. SameWriting(s, e0)
      BY <1>4, <2>5 DEF SameWriting
    <3>2. t = e0 /\ e0.result \notin Live
      BY <2>3, <2>5, <2>7 DEF Live
    <3>3. e0.result # "new" /\ e0.result # "wait"
      BY <2>5
    <3>4. Older(e0) /\ e0.result # "overrun"
      BY <1>41, <2>5
    <3> QED BY <1>4, <2>5, <3>1, <3>2, <3>3, <3>4
  <2>8. CASE ~(q.header < MIN_HEADER)
    <3>1. SameWriting(s, e1)
      BY <1>4, <2>4, <2>6 DEF SameWriting
    <3>2. t = e1 /\ e1.size = s.size /\ e1.read_time = s.read_time /\ e1.header_length >= 0
      BY <1>4, <2>0, <2>3, <2>4, <2>6, <2>8
    <3>3. e1.result # "wait"
      BY <2>6
    <3>4. ASSUME e1.result \in Live
          PROVE  At(st, k, to, e1.data, todo, R) /\ HeaderKnown(e1, q, to)
      <4>1. /\ e1.data = d /\ e1.body_length = q.body /\ e1.header_length = q.header
            /\ e1.result = "data" => q.body = 0
        BY <1>4, <2>4, <2>6, <3>4 DEF Live, l
      <4>2. At(st, k, to, e1.data, todo, R)
        BY <1>1, <4>1
      <4>3. e1.result = "data" => q.header + q.body <= Len(e1.data)
        BY <1>3, <2>2, <4>1
      <4>4. ~(e1.header_length < 0)
        BY <1>3, <4>1
      <4> QED BY <2>1, <4>1, <4>2, <4>3, <4>4 DEF HeaderKnown
    <3>5. Older(e1) /\ e1.result # "overrun"
      BY <1>41, <2>4, <2>6
    <3> QED BY <2>6, <3>1, <3>2, <3>3, <3>4, <3>5
  <2> QED BY <2>7, <2>8
<1> QED BY <1>5, <1>6, <1>7

\* HTTP_sess_decode goes on in the same request.
LEMMA DecodedFramed ==
    ASSUME NEW s \in HSSESSION, NEW p \in Peer, NEW st \in Seq(WellFormedRequest),
           Framed(s, p, st), s.result = "new", s.data # <<>>
    PROVE  LET e == Decoded(st, s)
           IN  /\ e \in HSSESSION
               /\ Framed(e, p, st)
               /\ SameWriting(s, e) /\ e.size = s.size
               /\ e.read_time = s.read_time \/ e.data = <<>>
               /\ e.result # "overrun"
               /\ e.stale > 0 => s.stale > 0 \/ st[Len(p.taken) + 1].crlf > 0
               /\ e.result = "wait" => \/ e.data = <<>>
                                       \/ Len(e.data) < HTTP_MAX_HEADER_SIZE
                                       \/ Len(e.data) < e.header_length + e.body_length
<1> DEFINE e == Decoded(st, s)
           t == IF s.header_length < 0 THEN HeaderDecoded(st, s) ELSE s
           k == Len(p.taken) + 1
           q == st[k]
           R == Rest(st, k)
           Known(u, at) == At(st, k, at, u.data, p.todo, R) /\ HeaderKnown(u, q, at)
           Older(u) == u.result # "overrun" /\ (u.stale > 0 => s.stale > 0 \/ q.crlf > 0)
           Waits(u) == u.data = <<>> \/ Len(u.data) < HTTP_MAX_HEADER_SIZE
<1>1. InRequest(s, p, st, k)
  BY DEF Framed, Live, AllTaken
<1>2. k \in 1..Len(st)
  BY <1>1 DEF InRequest
<1>3. PICK at \in 0..q.crlf : Known(s, at)
  BY <1>1 DEF InRequest
<1>4. e = IF t.result = "new" THEN BodyDecoded(t) ELSE t
  BY DEF Decoded
<1> HIDE DEF k, R, e
<1>5. /\ t \in HSSESSION
      /\ SameWriting(s, t) /\ t.size = s.size
      /\ t.read_time = s.read_time \/ t.data = <<>>
      /\ t.result \in Live => \E to \in 0..q.crlf : Known(t, to)
      /\ t.result = "new" => t.header_length >= 0
      /\ t.result = "wait" => Waits(t)
      /\ Older(t)
  <2>1. CASE s.header_length < 0
    <3> DEFINE u == HeaderDecoded(st, s)
    <3>1. /\ u \in HSSESSION
          /\ SameWriting(s, u) /\ u.size = s.size
          /\ u.read_time = s.read_time \/ u.data = <<>>
          /\ u.result \in Live => \E to \in 0..q.crlf : Known(u, to)
          /\ u.result = "new" => u.header_length >= 0
          /\ u.result = "wait" => Waits(u)
          /\ Older(u)
      BY <1>3, <2>1, HeaderPart
    <3>2. t = u
      BY <2>1
    <3> HIDE DEF u, t, Known, Waits, Older
    <3> QED BY <3>1, <3>2
  <2>2. CASE ~(s.header_length < 0)
    <3>1. t = s
      BY <2>2
    <3>2. s.header_length >= 0
      BY <2>2 DEF HSSESSION
    <3>3. SameWriting(s, s)
      BY DEF SameWriting
    <3>4. s.result # "wait"
      OBVIOUS
    <3>5. Older(s)
      OBVIOUS
    <3> HIDE DEF t, Known, Waits, Older
    <3> QED BY <1>3, <3>1, <3>2, <3>3, <3>4, <3>5
  <2> QED BY <2>1, <2>2
<1> HIDE DEF t
<1>6. CASE t.result # "new"
  <2>1. e = t
    BY <1>4, <1>6
  <2>2. Framed(e, p, st)
    BY <1>2, <1>5, <2>1 DEF Framed, InRequest, k, R
  <2> QED BY <1>5, <2>1, <2>2 DEF e, k
<1>7. CASE t.result = "new"
  <2> DEFINE r == IF Len(t.data) < t.header_length + t.body_length THEN "wait" ELSE "data"
  <2>1. e = [t EXCEPT !.result = r]
    BY <1>4, <1>7 DEF BodyDecoded
  <2>2. /\ r \in {"wait", "data"}
        /\ r = "wait" => Len(t.data) < t.header_length + t.body_length
        /\ r = "data" => ~(Len(t.data) < t.header_length + t.body_length)
    OBVIOUS
  <2> HIDE DEF r
  <2>3. /\ e \in HSSESSION /\ SameWriting(t, e) /\ e.size = t.size /\ e.read_time = t.read_time
        /\ e.data = t.data /\ e.header_length = t.header_length
        /\ e.body_length = t.body_length /\ e.result = r /\ e.stale = t.stale
    BY <1>5, <2>1, <2>2 DEF HSSESSION, SameWriting
  <2>4. SameWriting(s, e)
    BY <1>5, <2>3 DEF SameWriting
  <2>5. PICK to \in 0..q.crlf : Known(t, to)
    BY <1>5, <1>7 DEF Live
  <2>6. Known(e, to)
    <3>1. At(st, k, to, e.data, p.todo, R)
      BY <2>3, <2>5
    <3>2. /\ t.header_length \in Int /\ t.header_length >= 0
          /\ to = q.crlf /\ t.header_length = q.header /\ t.body_length = q.body
      BY <1>5, <1>7, <2>5 DEF HeaderKnown, HSSESSION
    <3>3. q.header \in Nat /\ q.body \in Nat /\ Len(t.data) \in Nat
      BY <2>5, AtNumbers
    <3>4. e.result = "data" => q.header + q.body <= Len(e.data)
      BY <2>2, <2>3, <3>2, <3>3
    <3>5. ~(e.header_length < 0)
      BY <2>3, <3>2
    <3>6. HeaderKnown(e, q, to)
      BY <2>3, <3>2, <3>4, <3>5 DEF HeaderKnown
    <3> QED BY <3>1, <3>6
  <2>7. Framed(e, p, st)
    BY <1>2, <2>6 DEF Framed, InRequest, k, R
  <2>8. Older(e)
    BY <1>5, <2>2, <2>3
  <2> QED BY <1>5, <2>2, <2>3, <2>4, <2>7, <2>8 DEF e, k
<1> QED BY <1>6, <1>7

\* Bytes that are read are the next ones of the stream.
LEMMA ReadFramed ==
    ASSUME NEW s \in HSSESSION, NEW p \in Peer, NEW st \in Seq(WellFormedRequest),
           Framed(s, p, st), s.result \in Live, NEW r \in 1..Len(p.todo), NEW e, NEW f,
           e.data = s.data \o SubSeq(p.todo, 1, r),
           e.header_length = s.header_length, e.body_length = s.body_length, e.result = "new",
           f.todo = SubSeq(p.todo, r + 1, Len(p.todo)), f.taken = p.taken
    PROVE  Framed(e, f, st)
<1> DEFINE k == Len(p.taken) + 1
           q == st[k]
           R == Rest(st, k)
           x == SubSeq(p.todo, 1, r)
           y == SubSeq(p.todo, r + 1, Len(p.todo))
           d == s.data
<1>1. p.todo \in Seq(Octet) /\ d \in Seq(Octet) /\ r \in 0..Len(p.todo) /\ Len(p.todo) \in Nat
  BY LenProperties DEF Peer, HSSESSION
<1>2. p.todo # <<>>
  BY <1>1
<1>3. InRequest(s, p, st, k)
  BY <1>2 DEF Framed, AllTaken
<1>4. k \in 1..Len(st)
  BY <1>3 DEF InRequest
<1>5. PICK at \in 0..q.crlf : At(st, k, at, d, p.todo, R) /\ HeaderKnown(s, q, at)
  BY <1>3 DEF InRequest
<1>6. x \in Seq(Octet) /\ y \in Seq(Octet) /\ p.todo = Join(x, y)
  BY <1>1, SplitSeq DEF Join
<1>7. e.data = Join(d, x) /\ f.todo = y
  BY DEF Join
<1> HIDE DEF x, y, d, R, k
<1>8. Join(Join(d, x), y) = Join(d, p.todo)
  BY <1>1, <1>6, JoinAssociative
<1>9. Join(d, x) \in Seq(Octet)
  BY <1>1, <1>6, ConcatProperties DEF Join
<1>10. At(st, k, at, e.data, f.todo, R)
  BY <1>5, <1>6, <1>7, <1>8, <1>9 DEF At
<1>11. HeaderKnown(e, q, at)
  BY <1>5 DEF HeaderKnown
<1> QED BY <1>4, <1>10, <1>11 DEF Framed, InRequest, k, R

\* The request that is taken is the next one that was sent, whole, and the
\* session goes on behind it.
LEMMA AnswerFramed ==
    ASSUME NEW s \in HSSESSION, NEW p \in Peer, NEW st \in Seq(WellFormedRequest),
           Framed(s, p, st), s.result = "data", NEW n, n = s.header_length + s.body_length,
           NEW x \in Seq(Octet), NEW d \in Seq(Octet), Join(x, d) = s.data, Len(x) = n,
           NEW e, NEW f,
           e.data = d, e.header_length = -1, e.result = "new",
           f.todo = p.todo, f.taken = Append(p.taken, x)
    PROVE  Framed(e, f, st)
<1> DEFINE j == Len(p.taken)
           k == j + 1
           q == st[k]
           R == Rest(st, k)
           l == Left(k, q, q.crlf)
           c == q.crlf
           taken == p.taken
<1>1. /\ p.todo \in Seq(Octet) /\ s.data \in Seq(Octet) /\ p.taken \in Seq(Seq(Octet))
      /\ s.header_length \in Int /\ s.body_length \in Int /\ Len(s.data) \in Nat /\ j \in Nat
  BY LenProperties DEF Peer, HSSESSION
<1>2. InRequest(s, p, st, k)
  BY DEF Framed, Live, AllTaken
<1>3. k \in 1..Len(st)
  BY <1>2 DEF InRequest
<1>4. PICK at \in 0..q.crlf : At(st, k, at, s.data, p.todo, R) /\ HeaderKnown(s, q, at)
  BY <1>2 DEF InRequest
<1>5. /\ at = q.crlf /\ s.header_length = q.header /\ s.body_length = q.body
      /\ q.header + q.body <= Len(s.data)
  BY <1>1, <1>4 DEF HeaderKnown
<1>6. /\ k \in Nat /\ q \in Request /\ q.crlf \in Nat /\ q.header \in Nat /\ q.body \in Nat
      /\ Size(q) \in Nat /\ Size(q) = q.crlf + q.header + q.body
  BY <1>4, AtNumbers
<1>7. /\ n = q.header + q.body /\ n \in Nat /\ n \in 0..Len(s.data)
      /\ n = Size(q) - q.crlf /\ q.crlf + n = Size(q) /\ q.crlf \in 0..Size(q)
  <2> DEFINE h == q.header
             b == q.body
             m == Len(s.data)
             z == Size(q)
  <2>1. n = h + b /\ h + b <= m
    BY <1>5
  <2>2. h \in Nat /\ b \in Nat /\ m \in Nat /\ c \in Nat /\ z \in Nat /\ z = c + h + b
    BY <1>1, <1>6
  <2> HIDE DEF h, b, m, c, z
  <2>3. n \in Nat /\ n \in 0..m /\ n = z - c /\ c + n = z /\ c \in 0..z
    BY <2>1, <2>2
  <2> QED BY <2>1, <2>3 DEF h, b, m, c, z
<1>8. x \in Seq(Octet) /\ d \in Seq(Octet) /\ Len(x) = n /\ s.data = Join(x, d)
  OBVIOUS
<1>9. l \in Seq(Octet) /\ Len(l) = n /\ l = Whole(k, q)
  BY <1>6, <1>7, LeftBytes, BytesAreLeft
<1>10. Left(k, q, Size(q)) = <<>>
  <2>1. Size(q) \in 0..Size(q) /\ Size(q) - Size(q) = 0
    BY <1>6
  <2>2. Left(k, q, Size(q)) \in Seq(Octet) /\ Len(Left(k, q, Size(q))) = Size(q) - Size(q)
    BY <1>6, <2>1, LeftBytes
  <2> QED BY <2>1, <2>2, EmptySeq
<1>11. st \in Seq(Request)
  BY <1>4 DEF At
<1>12. R \in Seq(Octet) /\ (k = Len(st) => R = <<>>)
  <2>1. k \in 0..Len(st)
    BY <1>3, <1>6
  <2> HIDE DEF k
  <2> QED BY <1>11, <2>1, RestType
<1> HIDE DEF l, R, j, k
<1>13. x = Whole(k, q) /\ Join(d, p.todo) = R
  <2> DEFINE todo == p.todo
  <2>1. At(st, k, c, Join(x, d), todo, R) /\ x \in Seq(Octet) /\ d \in Seq(Octet)
    BY <1>4, <1>5, <1>8
  <2>2. Len(x) <= Size(st[k]) - c
    BY <1>6, <1>7, <1>8
  <2> HIDE DEF c, todo
  <2>3. /\ x = SubSeq(Left(k, st[k], c), 1, Len(x))
        /\ Join(d, todo) = Join(Left(k, st[k], c + Len(x)), R)
    BY <2>1, <2>2, FrontTaken
  <2>4. x = SubSeq(l, 1, Len(l))
    BY <1>8, <1>9, <2>3 DEF l, c
  <2>5. x = l
    BY <1>9, <2>4, SubSeqFull
  <2>6. Join(d, p.todo) = Join(<<>>, R)
    BY <1>7, <1>8, <1>10, <2>3 DEF c, todo
  <2>7. Join(<<>>, R) = R
    BY <1>12, ConcatEmptySeq DEF Join
  <2> QED BY <1>9, <2>5, <2>6, <2>7
<1>14. /\ f.taken \in Seq(Seq(Octet)) /\ Len(f.taken) = k /\ f.taken[k] = x
       /\ \A m \in 1..j : f.taken[m] = p.taken[m]
  <2>1. taken \in Seq(Seq(Octet)) /\ f.taken = Append(taken, x) /\ j = Len(taken)
    BY <1>1 DEF j
  <2> HIDE DEF taken
  <2>2. /\ Append(taken, x) \in Seq(Seq(Octet)) /\ Len(Append(taken, x)) = Len(taken) + 1
        /\ \A m \in 1..Len(taken) : Append(taken, x)[m] = taken[m]
        /\ Append(taken, x)[Len(taken) + 1] = x
    BY <1>8, <2>1, AppendProperties
  <2> QED BY <2>1, <2>2 DEF k, taken
<1>15. \A m \in 1..Len(f.taken) : f.taken[m] = Whole(m, st[m])
  <2>1. \A m \in 1..j : p.taken[m] = Whole(m, st[m])
    BY DEF Framed, j
  <2>2. ASSUME NEW m \in 1..k PROVE m = k \/ m \in 1..j
    BY <1>1, <1>6 DEF k
  <2> QED BY <1>13, <1>14, <2>1, <2>2
<1>16. CASE k = Len(st)
  <2>1. d = <<>> /\ p.todo = <<>>
    <3>1. d \o p.todo = <<>>
      BY <1>12, <1>13, <1>16 DEF Join
    <3> QED BY <1>1, <1>8, <3>1, ConcatEqualIffEmpty
  <2>2. e.data = d /\ f.todo = p.todo /\ e.header_length < 0
    OBVIOUS
  <2>3. AllTaken(e, f, st, k + 1)
    BY <1>16, <2>1, <2>2 DEF AllTaken
  <2> QED BY <1>3, <1>7, <1>14, <1>15, <1>16, <2>3 DEF Framed
<1>17. CASE k # Len(st)
  <2> DEFINE S == Rest(st, k + 1)
  <2>1. Len(st) \in Nat /\ k \in 0..(Len(st) - 1) /\ k + 1 \in 1..Len(st) /\ k + 1 \in 0..Len(st)
    <3>1. Len(st) \in Nat /\ k \in Nat
      BY <1>6, <1>11, LenProperties
    <3> QED BY <1>3, <1>17, <3>1
  <2>2. R = Join(Left(k + 1, st[k + 1], 0), S)
    BY <1>11, <2>1, RestStep DEF R, Join
  <2>3. S \in Seq(Octet)
    BY <1>11, <2>1, RestType
  <2>4. st[k + 1] \in Request
    BY <1>11, <2>1, ElementOfSeq
  <2>5. 0 \in 0..st[k + 1].crlf
    BY <2>4, RequestNumbers
  <2> HIDE DEF S
  <2>6. At(st, k + 1, 0, d, p.todo, S)
    BY <1>1, <1>8, <1>11, <1>13, <2>1, <2>2, <2>3, <2>5 DEF At
  <2>7. e.data = d /\ f.todo = p.todo /\ e.header_length < 0 /\ ~(e.header_length >= 0)
    OBVIOUS
  <2>8. HeaderKnown(e, st[k + 1], 0)
    BY <2>7 DEF HeaderKnown
  <2>9. InRequest(e, f, st, k + 1)
    BY <2>1, <2>5, <2>6, <2>7, <2>8 DEF InRequest, S
  <2>10. k <= Len(st)
    BY <1>6, <2>1
  <2> QED BY <1>7, <1>14, <1>15, <2>9, <2>10 DEF Framed
<1> QED BY <1>16, <1>17

-----------------------------------------------------------------------------
(* What a step of a session does, call by call.                            *)

\* The timers run as long as they have to, and no longer.
Timed(s) ==
    /\ s.data # <<>> => s.read_time
    /\ s.w_curr > 0 => s.write_time
    /\ s.write_time => s.w_buffer # <<>>

\* The buffer is as large as HTTP_sess_open made it, and a session waits only
\* while the header or the body is not complete.
Roomy(s) ==
    /\ s.size >= HTTP_DATA_BUFFER
    /\ s.result = "wait" => \/ s.data = <<>>
                            \/ Len(s.data) < HTTP_MAX_HEADER_SIZE
                            \/ Len(s.data) < s.header_length + s.body_length

\* Older bytes are behind those of the session only when line ends in front of
\* the request it is in were skipped, or the application left them there.
Excused(p, st) == p.left \/ st[Len(p.taken) + 1].crlf > 0
Traced(s, p, st) == s.stale > 0 \/ s.result = "overrun" => Excused(p, st)

SessionOK(s, p, st) == Framed(s, p, st) /\ Timed(s) /\ Roomy(s) /\ Traced(s, p, st)

\* The three things that happen to the responses: nothing, one more is queued,
\* some bytes of the first are sent.
NothingWritten(s, p, e, f) ==
    SameWriting(s, e) /\ f.got = p.got /\ f.answers = p.answers
Queued(s, p, e, f, a) ==
    /\ a \in Nat \X (Nat \ {0})
    /\ e.w_buffer = Append(s.w_buffer, a) /\ e.w_curr = s.w_curr
    /\ f.answers = Append(p.answers, a) /\ f.got = p.got
BytesSent(s, p, e, f, r) ==
    /\ s.w_buffer # <<>> /\ r \in 1..SendLimit(s)
    /\ IF s.w_curr + r >= Head(s.w_buffer)[2]
       THEN e.w_curr = 0 /\ e.w_buffer = Tail(s.w_buffer)
       ELSE e.w_curr = s.w_curr + r /\ e.w_buffer = s.w_buffer
    /\ f.got = p.got \o SubSeq(PageBytes(Head(s.w_buffer)), s.w_curr + 1, s.w_curr + r)
    /\ f.answers = p.answers
Writing(s, p, e, f) ==
    \/ NothingWritten(s, p, e, f)
    \/ \E a : Queued(s, p, e, f, a)
    \/ \E r : BytesSent(s, p, e, f, r)

\* The step takes the session to e and its peer to f.
StepTo(i, e, f) ==
    /\ session' = [session EXCEPT ![i] = e] /\ peer' = [peer EXCEPT ![i] = f]
    /\ e \in HSSESSION /\ f \in Peer /\ e.version = session[i].version

\* HTTP_sess_read.
LEMMA ReadStep ==
    ASSUME TypeOK, NEW i \in Slot, NEW st \in Seq(WellFormedRequest),
           SessionOK(session[i], peer[i], st), HTTP_sess_read(i)
    PROVE  \E e, f : /\ StepTo(i, e, f) /\ SessionOK(e, f, st)
                     /\ Writing(session[i], peer[i], e, f)
<1> DEFINE s == session[i]
           p == peer[i]
           z == Grown(s).size
           o == Grown(s).stale
           g == [s EXCEPT !.size = z, !.stale = o]
<1>1. s \in HSSESSION /\ p \in Peer
  BY DEF TypeOK
<1>2. Grown(s) = g /\ z \in Nat /\ z >= s.size /\ o \in {0, s.stale}
  BY <1>1, GrownRoom
<1>21. s.stale \in Nat /\ o \in Nat
  BY <1>1, <1>2 DEF HSSESSION
<1> HIDE DEF z, o
<1>3. /\ g \in HSSESSION /\ g.size = z /\ g.data = s.data /\ g.version = s.version
      /\ g.header_length = s.header_length /\ g.body_length = s.body_length
      /\ g.w_buffer = s.w_buffer /\ g.w_curr = s.w_curr /\ g.write_time = s.write_time
      /\ g.stale = o
  BY <1>1, <1>2, <1>21 DEF HSSESSION
<1> HIDE DEF g
<1>4. Room(g) \in Int
  <2>1. Grown(g).size \in Nat /\ Len(g.data) \in Nat
    BY <1>3, GrownRoom, LenProperties DEF HSSESSION
  <2> QED BY <2>1 DEF Room
<1>5. PICK r \in 1..Room(g) :
         /\ r <= Len(p.todo)
         /\ session' = [session EXCEPT ![i] =
               [g EXCEPT !.data = g.data \o SubSeq(p.todo, 1, r),
                         !.stale = IF g.stale > r THEN g.stale - r ELSE 0,
                         !.read_time = TRUE, !.result = "new"]]
         /\ peer' = [peer EXCEPT ![i].todo = SubSeq(p.todo, r + 1, Len(p.todo))]
  BY <1>2 DEF HTTP_sess_read
<1>6. p.todo \in Seq(Octet) /\ s.data \in Seq(Octet) /\ Len(p.todo) \in Nat
  BY <1>1, LenProperties DEF Peer, HSSESSION
<1>7. r \in 1..Len(p.todo) /\ r \in 0..Len(p.todo)
  BY <1>4, <1>5, <1>6
<1> DEFINE x == SubSeq(p.todo, 1, r)
           y == SubSeq(p.todo, r + 1, Len(p.todo))
           d == s.data \o x
           on == TRUE
           b == IF g.stale > r THEN g.stale - r ELSE 0
           e == [g EXCEPT !.data = d, !.stale = b, !.read_time = on, !.result = "new"]
           f == [p EXCEPT !.todo = y]
<1>8. x \in Seq(Octet) /\ y \in Seq(Octet)
  BY <1>6, <1>7, SplitSeq
<1>9. d \in Seq(Octet) /\ on \in BOOLEAN /\ on
  BY <1>6, <1>8, ConcatProperties
<1>10. session' = [session EXCEPT ![i] = e] /\ peer' = [peer EXCEPT ![i] = f]
  BY <1>3, <1>5
<1>101. b \in Nat /\ (b > 0 => s.stale > 0)
  <2>1. r \in Nat
    BY <1>7
  <2>2. b = IF o > r THEN o - r ELSE 0
    BY <1>3
  <2> HIDE DEF b
  <2> QED BY <1>2, <1>21, <2>1, <2>2
<1> HIDE DEF x, y, d, on, b
<1>11. /\ e \in HSSESSION /\ e.data = d /\ e.read_time = on /\ e.result = "new"
       /\ e.size = g.size /\ e.version = g.version
       /\ e.header_length = g.header_length /\ e.body_length = g.body_length
       /\ e.w_buffer = g.w_buffer /\ e.w_curr = g.w_curr /\ e.write_time = g.write_time
       /\ e.stale = b
  BY <1>3, <1>9, <1>101 DEF HSSESSION
<1>12. /\ f \in Peer /\ f.todo = y /\ f.taken = p.taken /\ f.answers = p.answers
       /\ f.got = p.got /\ f.left = p.left
  BY <1>1, <1>8 DEF Peer
<1> HIDE DEF e, f
<1>13. StepTo(i, e, f)
  BY <1>3, <1>10, <1>11, <1>12 DEF StepTo
<1>14. Framed(e, f, st)
  <2>1. s.result \in Live
    BY DEF HTTP_sess_read, MayRead, Live
  <2>2. e.data = s.data \o SubSeq(p.todo, 1, r) /\ f.todo = SubSeq(p.todo, r + 1, Len(p.todo))
    BY <1>11, <1>12 DEF d, x, y
  <2>3. Framed(s, p, st)
    BY DEF SessionOK
  <2>4. st \in Seq(WellFormedRequest) /\ s \in HSSESSION /\ p \in Peer
    BY <1>1
  <2>5. /\ e.header_length = s.header_length /\ e.body_length = s.body_length
        /\ e.result = "new" /\ f.taken = p.taken
    BY ONLY <1>3, <1>11, <1>12
  <2> HIDE DEF s, p
  <2> QED BY ONLY <1>7, <2>1, <2>2, <2>3, <2>4, <2>5, ReadFramed
<1>15. Timed(e)
  BY <1>3, <1>9, <1>11 DEF Timed, SessionOK
<1>16. Roomy(e)
  <2>1. s.size \in Nat /\ s.size >= HTTP_DATA_BUFFER /\ HTTP_DATA_BUFFER \in Nat
    BY <1>1, HttpAssumption DEF HSSESSION, SessionOK, Roomy
  <2>2. e.size = z /\ e.result = "new"
    BY <1>3, <1>11
  <2> QED BY <1>2, <2>1, <2>2 DEF Roomy
<1>17. NothingWritten(s, p, e, f)
  BY <1>3, <1>11, <1>12 DEF NothingWritten, SameWriting
<1>18. Traced(e, f, st)
  <2>1. Traced(s, p, st)
    BY DEF SessionOK
  <2>2. Excused(f, st) <=> Excused(p, st)
    BY <1>12 DEF Excused
  <2> QED BY <1>101, <1>11, <2>1, <2>2 DEF Traced
<1> QED BY <1>13, <1>14, <1>15, <1>16, <1>17, <1>18 DEF SessionOK, Writing

\* A read that fails.
LEMMA ReadFailsStep ==
    ASSUME TypeOK, NEW i \in Slot, NEW st \in Seq(WellFormedRequest),
           SessionOK(session[i], peer[i], st), ReadFails(i)
    PROVE  \E e, f : /\ StepTo(i, e, f) /\ SessionOK(e, f, st)
                     /\ Writing(session[i], peer[i], e, f)
<1> DEFINE s == session[i]
           p == peer[i]
           z == Grown(s).size
           o == Grown(s).stale
           g == [s EXCEPT !.size = z, !.stale = o]
<1>1. s \in HSSESSION /\ p \in Peer /\ peer = [peer EXCEPT ![i] = p]
  BY DEF TypeOK
<1>2. Grown(s) = g /\ z \in Nat /\ z >= s.size /\ o \in {0, s.stale}
  BY <1>1, GrownRoom
<1>21. s.stale \in Nat /\ o \in Nat
  BY <1>1, <1>2 DEF HSSESSION
<1>3. session' = [session EXCEPT ![i] = [Grown(s) EXCEPT !.result = "failed"]] /\ peer' = peer
  BY DEF ReadFails
<1> HIDE DEF z, o
<1> DEFINE e == [g EXCEPT !.result = "failed"]
<1>4. session' = [session EXCEPT ![i] = e] /\ peer' = [peer EXCEPT ![i] = p]
  BY <1>1, <1>2, <1>3
<1>5. /\ e \in HSSESSION /\ e.data = s.data /\ e.read_time = s.read_time /\ e.result = "failed"
      /\ e.size = z /\ e.version = s.version
      /\ e.w_buffer = s.w_buffer /\ e.w_curr = s.w_curr /\ e.write_time = s.write_time
      /\ e.stale = o
  BY <1>1, <1>2, <1>21 DEF HSSESSION
<1> HIDE DEF e
<1>6. StepTo(i, e, p)
  BY <1>1, <1>4, <1>5 DEF StepTo
<1>7. Framed(e, p, st)
  BY <1>5 DEF Framed, SessionOK, Live
<1>8. Timed(e)
  BY <1>5 DEF Timed, SessionOK
<1>9. Roomy(e)
  <2>1. s.size \in Nat /\ s.size >= HTTP_DATA_BUFFER /\ HTTP_DATA_BUFFER \in Nat
    BY <1>1, HttpAssumption DEF HSSESSION, SessionOK, Roomy
  <2> QED BY <1>2, <1>5, <2>1 DEF Roomy
<1>10. NothingWritten(s, p, e, p)
  BY <1>5 DEF NothingWritten, SameWriting
<1>11. Traced(e, p, st)
  <2>1. Traced(s, p, st)
    BY DEF SessionOK
  <2>2. o > 0 => s.stale > 0
    BY <1>2
  <2> QED BY <1>5, <2>1, <2>2 DEF Traced
<1> QED BY <1>6, <1>7, <1>8, <1>9, <1>10, <1>11 DEF SessionOK, Writing

\* HTTP_sess_decode when the end of the header is looked for where it belongs.
LEMMA DecodeInside ==
    ASSUME TypeOK, NEW i \in Slot, NEW st \in Seq(WellFormedRequest),
           SessionOK(session[i], peer[i], st),
           session[i].result = "new", session[i].data # <<>>, peer' = peer,
           session' = [session EXCEPT ![i] = Decoded(st, session[i])]
    PROVE  \E e, f : /\ StepTo(i, e, f) /\ SessionOK(e, f, st)
                     /\ Writing(session[i], peer[i], e, f)
<1> DEFINE s == session[i]
           p == peer[i]
           e == Decoded(st, s)
<1>1. s \in HSSESSION /\ p \in Peer /\ peer = [peer EXCEPT ![i] = p]
  BY DEF TypeOK
<1>2. s.result = "new" /\ s.data # <<>> /\ peer' = peer
  OBVIOUS
<1>3. session' = [session EXCEPT ![i] = e]
  OBVIOUS
<1>4. Framed(s, p, st) /\ Timed(s) /\ Roomy(s) /\ Traced(s, p, st)
  BY DEF SessionOK
<1>5. /\ e \in HSSESSION
      /\ Framed(e, p, st)
      /\ SameWriting(s, e) /\ e.size = s.size
      /\ e.read_time = s.read_time \/ e.data = <<>>
      /\ e.result # "overrun"
      /\ e.stale > 0 => s.stale > 0 \/ st[Len(p.taken) + 1].crlf > 0
      /\ e.result = "wait" => \/ e.data = <<>>
                              \/ Len(e.data) < HTTP_MAX_HEADER_SIZE
                              \/ Len(e.data) < e.header_length + e.body_length
  BY <1>1, <1>2, <1>4, DecodedFramed
<1> HIDE DEF e, s, p
<1>6. StepTo(i, e, p)
  BY <1>1, <1>2, <1>3, <1>5 DEF StepTo, SameWriting, s
<1>7. Timed(e)
  BY <1>2, <1>4, <1>5 DEF Timed, SameWriting
<1>8. Roomy(e)
  BY <1>4, <1>5 DEF Roomy
<1>9. NothingWritten(s, p, e, p)
  BY <1>5 DEF NothingWritten
<1>10. Traced(e, p, st)
  BY <1>4, <1>5 DEF Traced, Excused
<1> QED BY <1>5, <1>6, <1>7, <1>8, <1>9, <1>10 DEF SessionOK, Writing, s, p

\* HTTP_sess_decode when the end of the header is found in older bytes: there
\* are some, so that they are accounted for.
LEMMA DecodeBehind ==
    ASSUME TypeOK, NEW i \in Slot, NEW st \in Seq(WellFormedRequest),
           SessionOK(session[i], peer[i], st), peer' = peer,
           NEW n \in 1..session[i].stale, NEW result \in {"overrun", "failed"},
           session' = [session EXCEPT ![i] =
               [session[i] EXCEPT !.header_length = Len(session[i].data) + n, !.result = result]]
    PROVE  \E e, f : /\ StepTo(i, e, f) /\ SessionOK(e, f, st)
                     /\ Writing(session[i], peer[i], e, f)
<1> DEFINE s == session[i]
           p == peer[i]
           h == Len(s.data) + n
           e == [s EXCEPT !.header_length = h, !.result = result]
<1>1. s \in HSSESSION /\ p \in Peer /\ peer = [peer EXCEPT ![i] = p]
  BY DEF TypeOK
<1>2. s.stale \in Nat /\ s.stale > 0 /\ h \in Int
  <2> DEFINE l == Len(s.data)
             o == s.stale
  <2>1. o \in Nat /\ l \in Nat /\ n \in 1..o
    BY <1>1, LenProperties DEF HSSESSION
  <2> HIDE DEF l, o
  <2>2. o > 0 /\ l + n \in Int
    BY ONLY <2>1
  <2> QED BY <2>1, <2>2 DEF l, o
<1>3. session' = [session EXCEPT ![i] = e] /\ peer' = [peer EXCEPT ![i] = p]
  BY <1>1
<1>4. Framed(s, p, st) /\ Timed(s) /\ Roomy(s) /\ Traced(s, p, st)
  BY DEF SessionOK
<1> HIDE DEF h, s, p
<1>5. /\ e \in HSSESSION /\ SameWriting(s, e) /\ e.size = s.size /\ e.data = s.data
      /\ e.read_time = s.read_time /\ e.stale = s.stale /\ e.result = result
  BY <1>1, <1>2 DEF HSSESSION, SameWriting
<1> HIDE DEF e
<1>6. StepTo(i, e, p)
  BY <1>1, <1>3, <1>5 DEF StepTo, SameWriting, s
<1>7. Framed(e, p, st)
  BY <1>4, <1>5 DEF Framed, Live
<1>8. Timed(e)
  BY <1>4, <1>5 DEF Timed, SameWriting
<1>9. Roomy(e)
  BY <1>4, <1>5 DEF Roomy
<1>10. Traced(e, p, st)
  BY <1>2, <1>4 DEF Traced
<1>11. NothingWritten(s, p, e, p)
  BY <1>5 DEF NothingWritten
<1> QED BY <1>6, <1>7, <1>8, <1>9, <1>10, <1>11 DEF SessionOK, Writing, s, p

\* HTTP_sess_decode.
LEMMA DecodeStep ==
    ASSUME TypeOK, NEW i \in Slot, NEW st \in Seq(WellFormedRequest), st = Stream(i),
           SessionOK(session[i], peer[i], st), HTTP_sess_decode(i)
    PROVE  \E e, f : /\ StepTo(i, e, f) /\ SessionOK(e, f, st)
                     /\ Writing(session[i], peer[i], e, f)
<1>1. session[i].result = "new" /\ session[i].data # <<>> /\ peer' = peer
  BY DEF HTTP_sess_decode
<1>2. CASE session' = [session EXCEPT ![i] = Decoded(st, session[i])]
  BY <1>1, <1>2, DecodeInside
<1>3. ASSUME NEW n \in 1..session[i].stale, NEW result \in {"overrun", "failed"},
             session' = [session EXCEPT ![i] =
               [session[i] EXCEPT !.header_length = Len(session[i].data) + n, !.result = result]]
      PROVE  \E e, f : /\ StepTo(i, e, f) /\ SessionOK(e, f, st)
                       /\ Writing(session[i], peer[i], e, f)
  BY <1>1, <1>3, DecodeBehind
<1>4. \/ session' = [session EXCEPT ![i] = Decoded(st, session[i])]
      \/ \E n \in 1..session[i].stale, result \in {"overrun", "failed"} :
            session' = [session EXCEPT ![i] =
               [session[i] EXCEPT !.header_length = Len(session[i].data) + n, !.result = result]]
  BY DEF HTTP_sess_decode, Decoded
<1> QED BY <1>2, <1>3, <1>4

\* A request that is ready is in the buffer to its last byte.
LEMMA ReadyLength ==
    ASSUME NEW s \in HSSESSION, NEW p \in Peer, NEW st \in Seq(WellFormedRequest),
           Framed(s, p, st), s.result = "data"
    PROVE  s.header_length + s.body_length \in 0..Len(s.data)
<1> DEFINE k == Len(p.taken) + 1
           q == st[k]
<1>1. InRequest(s, p, st, k)
  BY DEF Framed, Live, AllTaken
<1>2. PICK at \in 0..q.crlf : At(st, k, at, s.data, p.todo, Rest(st, k)) /\ HeaderKnown(s, q, at)
  BY <1>1 DEF InRequest
<1>3. q.header \in Nat /\ q.body \in Nat /\ Len(s.data) \in Nat
  BY <1>2, AtNumbers
<1>4. s.header_length = q.header /\ s.body_length = q.body /\ q.header + q.body <= Len(s.data)
  BY <1>2 DEF HeaderKnown, HSSESSION
<1> HIDE DEF q
<1> QED BY <1>3, <1>4

\* A list with one more item is not empty.
LEMMA AppendOne ==
    ASSUME NEW S, NEW s \in Seq(S), NEW x \in S
    PROVE  Append(s, x) \in Seq(S) /\ Append(s, x) # <<>>
<1>1. Append(s, x) \in Seq(S) /\ Len(Append(s, x)) = Len(s) + 1 /\ Len(s) \in Nat
  BY AppendProperties, LenProperties
<1> QED BY <1>1

\* The application answers.
LEMMA AnswerStep ==
    ASSUME TypeOK, NEW i \in Slot, NEW st \in Seq(WellFormedRequest),
           SessionOK(session[i], peer[i], st), NEW len \in Response, Answer(i, len)
    PROVE  \E e, f : /\ StepTo(i, e, f) /\ SessionOK(e, f, st)
                     /\ Writing(session[i], peer[i], e, f)
<1> DEFINE s == session[i]
           p == peer[i]
           n == s.header_length + s.body_length
           a == <<Len(p.answers) + 1, len>>
           w == Append(s.w_buffer, a)
           v == Append(p.answers, a)
<1>1. s \in HSSESSION /\ p \in Peer
  BY DEF TypeOK
<1>2. Framed(s, p, st) /\ Timed(s) /\ Roomy(s) /\ Traced(s, p, st)
  BY DEF SessionOK
<1>3. /\ s.w_buffer \in Seq(Nat \X Nat) /\ p.answers \in Seq(Nat \X Nat)
      /\ p.taken \in Seq(Seq(Octet)) /\ s.data \in Seq(Octet) /\ Len(s.data) \in Nat
      /\ Len(p.answers) \in Nat
  BY <1>1, LenProperties DEF HSSESSION, Peer
<1>4. a \in Nat \X (Nat \ {0}) /\ a \in Nat \X Nat
  BY <1>3, HttpAssumption
<1> HIDE DEF a
<1>5. w \in Seq(Nat \X Nat) /\ v \in Seq(Nat \X Nat) /\ w # <<>>
  BY <1>3, <1>4, AppendOne
<1>6. CASE s.result = "data"
  <2> DEFINE d == SubSeq(s.data, n + 1, Len(s.data))
             x == SubSeq(s.data, 1, n)
             none == -1
             rt == s.read_time /\ n < Len(s.data)
             tk == Append(p.taken, x)
             ol(left) == IF left THEN s.stale + n ELSE 0
             lf(left) == p.left \/ left
  <2>0. PICK left \in BOOLEAN :
        /\ session' = [session EXCEPT ![i] =
              [s EXCEPT !.data = SubSeq(s.data, n + 1, Len(s.data)),
                        !.stale = IF left THEN s.stale + n ELSE 0,
                        !.header_length = -1, !.body_length = -1,
                        !.read_time = s.read_time /\ n < Len(s.data),
                        !.w_buffer = Append(s.w_buffer, a),
                        !.result = "new"]]
        /\ peer' = [peer EXCEPT ![i].taken = Append(p.taken, SubSeq(s.data, 1, n)),
                                ![i].left = p.left \/ left,
                                ![i].answers = Append(p.answers, a)]
    BY <1>6 DEF Answer, AppendItem, a
  <2> DEFINE o == ol(left)
             b == lf(left)
             e == [s EXCEPT !.data = d, !.stale = o, !.header_length = none, !.body_length = none,
                            !.read_time = rt, !.w_buffer = w, !.result = "new"]
             f == [p EXCEPT !.taken = tk, !.left = b, !.answers = v]
  <2>1. n \in 0..Len(s.data)
    BY <1>1, <1>2, <1>6, ReadyLength
  <2>2. d \in Seq(Octet) /\ x \in Seq(Octet) /\ Len(x) = n /\ Len(d) = Len(s.data) - n
        /\ Join(x, d) = s.data
    <3>1. d = Behind(s.data, n) /\ x = Ahead(s.data, n)
      BY DEF Behind, Ahead
    <3> DEFINE c == s.data
    <3>2. c \in Seq(Octet) /\ n \in 0..Len(c)
      BY <1>3, <2>1
    <3> HIDE DEF n, c, d, x
    <3>3. /\ Behind(c, n) \in Seq(Octet) /\ Ahead(c, n) \in Seq(Octet)
          /\ Len(Ahead(c, n)) = n /\ Len(Behind(c, n)) = Len(c) - n
          /\ c = Join(Ahead(c, n), Behind(c, n))
      BY <3>2, CutParts
    <3> QED BY <3>1, <3>3 DEF c
  <2>3. none \in Int /\ none < 0 /\ rt \in BOOLEAN
    BY <1>1 DEF HSSESSION
  <2>4. tk \in Seq(Seq(Octet))
    BY <1>3, <2>2, AppendProperties
  <2>5. rt \/ d = <<>>
    <3>1. CASE n < Len(s.data)
      <4>1. s.data # <<>>
        BY <2>1, <3>1
      <4> QED BY <1>2, <3>1, <4>1 DEF Timed
    <3>2. CASE ~(n < Len(s.data))
      <4> HIDE DEF n, d
      <4>1. Len(d) = 0
        BY <1>3, <2>1, <2>2, <3>2
      <4> QED BY <2>2, <4>1, LenZero
    <3> QED BY <3>1, <3>2
  <2>6. o \in Nat /\ b \in BOOLEAN /\ (o > 0 => b)
    <3>1. s.stale \in Nat /\ n \in Nat /\ p.left \in BOOLEAN
      BY <1>1, <2>1 DEF HSSESSION, Peer
    <3> HIDE DEF n
    <3> QED BY <3>1
  <2>7. session' = [session EXCEPT ![i] = e]
    BY <2>0
  <2>8. peer' = [peer EXCEPT ![i] = f]
    <3>1. peer' = [peer EXCEPT ![i].taken = tk, ![i].left = b, ![i].answers = v]
      BY <2>0
    <3> HIDE DEF tk, v, b
    <3> QED BY <3>1 DEF TypeOK
  <2> HIDE DEF d, x, none, rt, tk, n, w, v, b, o
  <2>9. /\ e \in HSSESSION /\ e.data = d /\ e.read_time = rt /\ e.result = "new"
        /\ e.size = s.size /\ e.version = s.version /\ e.header_length = none
        /\ e.w_buffer = w /\ e.w_curr = s.w_curr /\ e.write_time = s.write_time
        /\ e.stale = o
    BY <1>1, <1>5, <2>2, <2>3, <2>6 DEF HSSESSION
  <2>10. /\ f \in Peer /\ f.todo = p.todo /\ f.taken = tk /\ f.answers = v /\ f.got = p.got
         /\ f.left = b
    BY <1>1, <1>5, <2>4, <2>6 DEF Peer
  <2> HIDE DEF e, f
  <2>11. StepTo(i, e, f)
    BY <2>7, <2>8, <2>9, <2>10 DEF StepTo
  <2>12. Framed(e, f, st)
    <3>1. e.header_length = -1 /\ f.taken = Append(p.taken, x) /\ n = s.header_length + s.body_length
      BY <2>9, <2>10 DEF none, tk, n
    <3> QED BY <1>1, <1>2, <1>6, <2>2, <2>9, <2>10, <3>1, AnswerFramed
  <2>13. Timed(e)
    BY <1>2, <1>5, <2>5, <2>9 DEF Timed
  <2>14. Roomy(e)
    BY <1>2, <2>9 DEF Roomy
  <2>15. Queued(s, p, e, f, a)
    BY <1>4, <2>9, <2>10 DEF Queued, w, v
  <2>16. Traced(e, f, st)
    BY <2>6, <2>9, <2>10 DEF Traced, Excused
  <2> QED BY <2>11, <2>12, <2>13, <2>14, <2>15, <2>16 DEF SessionOK, Writing
<1>7. CASE s.result = "error"
  <2> DEFINE e == [s EXCEPT !.w_buffer = w, !.result = "failed"]
             f == [p EXCEPT !.answers = v]
  <2>1. /\ session' = [session EXCEPT ![i].w_buffer = Append(s.w_buffer, a), ![i].result = "failed"]
        /\ peer' = [peer EXCEPT ![i].answers = Append(p.answers, a)]
    BY <1>7 DEF Answer, AppendItem, a
  <2>2. session' = [session EXCEPT ![i].w_buffer = w, ![i].result = "failed"]
    BY <2>1
  <2>3. peer' = [peer EXCEPT ![i].answers = v]
    BY <2>1
  <2> HIDE DEF w, v
  <2>4. session' = [session EXCEPT ![i] = e]
    BY <2>2 DEF TypeOK
  <2>5. peer' = [peer EXCEPT ![i] = f]
    BY <2>3
  <2>6. /\ e \in HSSESSION /\ e.data = s.data /\ e.read_time = s.read_time /\ e.result = "failed"
        /\ e.size = s.size /\ e.version = s.version
        /\ e.w_buffer = w /\ e.w_curr = s.w_curr /\ e.write_time = s.write_time
        /\ e.stale = s.stale
    BY <1>1, <1>5 DEF HSSESSION
  <2>7. /\ f \in Peer /\ f.todo = p.todo /\ f.taken = p.taken /\ f.answers = v /\ f.got = p.got
        /\ f.left = p.left
    BY <1>1, <1>5 DEF Peer
  <2> HIDE DEF e, f
  <2>8. StepTo(i, e, f)
    BY <2>4, <2>5, <2>6, <2>7 DEF StepTo
  <2>9. Framed(e, f, st)
    BY <1>2, <2>6, <2>7 DEF Framed, Live
  <2>10. Timed(e)
    BY <1>2, <1>5, <2>6 DEF Timed
  <2>11. Roomy(e)
    BY <1>2, <2>6 DEF Roomy
  <2>12. Queued(s, p, e, f, a)
    BY <1>4, <2>6, <2>7 DEF Queued, w, v
  <2>13. Traced(e, f, st)
    BY <1>2, <2>6, <2>7 DEF Traced, Excused
  <2> QED BY <2>8, <2>9, <2>10, <2>11, <2>12, <2>13 DEF SessionOK, Writing
<1> QED BY <1>6, <1>7 DEF Answer

\* A slice of a list.
LEMMA Slice ==
    ASSUME NEW S, NEW s \in Seq(S), NEW c \in Nat, NEW r \in Nat, c + r <= Len(s)
    PROVE  /\ SubSeq(s, c + 1, c + r) \in Seq(S)
           /\ SubSeq(s, c + r + 1, Len(s)) \in Seq(S)
           /\ SubSeq(s, c + 1, Len(s)) = SubSeq(s, c + 1, c + r) \o SubSeq(s, c + r + 1, Len(s))
<1>1. Len(s) \in Nat
  BY LenProperties
<1>2. \A i \in (c + 1)..(c + r) : s[i] \in S
  BY <1>1, ElementOfSeq
<1>3. \A i \in (c + r + 1)..Len(s) : s[i] \in S
  BY <1>1, ElementOfSeq
<1>4. c + 1 \in Int /\ c + r \in Int /\ c + r + 1 \in Int
  OBVIOUS
<1>5. SubSeq(s, c + 1, c + r) \in Seq(S) /\ SubSeq(s, c + r + 1, Len(s)) \in Seq(S)
  BY <1>1, <1>2, <1>3, <1>4, SubSeqProperties
<1>6. /\ c + 1 \in 1..(Len(s) + 1)
      /\ c + r \in (c + 1 - 1)..Len(s)
      /\ Len(s) \in (c + r)..Len(s)
  BY <1>1
<1>7. SubSeq(s, c + 1, c + r) \o SubSeq(s, c + r + 1, Len(s)) = SubSeq(s, c + 1, Len(s))
  <2> DEFINE m == c + 1
             k == c + r
             n == Len(s)
  <2> HIDE DEF m, k, n
  <2>1. m \in 1..(Len(s) + 1) /\ k \in (m - 1)..Len(s) /\ n \in k..Len(s)
    BY <1>6 DEF m, k, n
  <2>2. SubSeq(s, m, k) \o SubSeq(s, k + 1, n) = SubSeq(s, m, n)
    BY <2>1, ConcatAdjacentSubSeq
  <2> QED BY <2>2 DEF m, k, n
<1> QED BY <1>5, <1>7

\* The bytes of a response.
LEMMA PageOctets ==
    ASSUME NEW h \in Nat \X Nat
    PROVE  PageBytes(h) \in Seq(Octet) /\ Len(PageBytes(h)) = h[2] /\ h[2] \in Nat
<1> DEFINE n == h[2]
           k == h[1]
           f == [j \in 1..n |-> <<k, j>>]
<1>1. n \in Nat /\ k \in Nat
  OBVIOUS
<1> HIDE DEF n, k
<1>2. \A j \in 1..n : <<k, j>> \in Octet
  BY <1>1 DEF Octet
<1>3. f \in Seq(Octet) /\ Len(f) = n
  BY <1>1, <1>2
<1> QED BY <1>1, <1>3 DEF PageBytes, n, k

\* One send takes no more than what is left of the first response.
LEMMA SendBound ==
    ASSUME NEW s, s.w_buffer \in Seq(Nat \X Nat), s.w_curr \in Nat, s.w_buffer # <<>>,
           NEW r \in 1..SendLimit(s)
    PROVE  /\ Head(s.w_buffer) \in Nat \X Nat /\ Head(s.w_buffer)[2] \in Nat
           /\ r \in Nat /\ r > 0 /\ s.w_curr + r <= Head(s.w_buffer)[2]
<1> DEFINE n == Head(s.w_buffer)[2]
           c == s.w_curr
<1>1. Head(s.w_buffer) \in Nat \X Nat
  BY HeadItem
<1>2. n \in Nat /\ c \in Nat /\ max_w_len \in Nat
  BY <1>1, HttpAssumption
<1>3. SendLimit(s) = IF max_w_len > 0 /\ n - c > max_w_len THEN max_w_len ELSE n - c
  BY DEF SendLimit
<1> HIDE DEF n, c
<1>4. SendLimit(s) \in Int /\ SendLimit(s) <= n - c
  BY <1>2, <1>3
<1>5. r \in Nat /\ r > 0 /\ c + r <= n
  BY <1>2, <1>4
<1> QED BY <1>1, <1>2, <1>5 DEF n, c

\* HTTP_sess_write.
LEMMA WriteStep ==
    ASSUME TypeOK, NEW i \in Slot, NEW st \in Seq(WellFormedRequest),
           SessionOK(session[i], peer[i], st), HTTP_sess_write(i)
    PROVE  \E e, f : /\ StepTo(i, e, f) /\ SessionOK(e, f, st)
                     /\ Writing(session[i], peer[i], e, f)
<1> DEFINE s == session[i]
           p == peer[i]
           h == Head(s.w_buffer)
           c == s.w_curr
<1>1. s \in HSSESSION /\ p \in Peer /\ session \in [Slot -> HSSESSION] /\ peer \in [Slot -> Peer]
  BY DEF TypeOK
<1>2. Framed(s, p, st) /\ Timed(s) /\ Roomy(s) /\ Traced(s, p, st)
  BY DEF SessionOK
<1>3. /\ s.w_buffer \in Seq(Nat \X Nat) /\ c \in Nat /\ p.got \in Seq(Octet)
      /\ s.result \in {"new", "wait", "data", "error", "failed", "overrun"}
  BY <1>1 DEF HSSESSION, Peer
<1>4. s.w_buffer # <<>>
  BY DEF HTTP_sess_write
<1>5. PICK r \in 1..SendLimit(s) :
         /\ session' = [session EXCEPT ![i] = Sent(s, r)]
         /\ peer' = [peer EXCEPT ![i].got = p.got \o SubSeq(PageBytes(h), c + 1, c + r)]
  BY DEF HTTP_sess_write
<1>6. h \in Nat \X Nat /\ h[2] \in Nat /\ r \in Nat /\ r > 0 /\ c + r <= h[2]
  BY <1>3, <1>4, SendBound
<1> DEFINE x == SubSeq(PageBytes(h), c + 1, c + r)
           y == p.got \o x
           f == [p EXCEPT !.got = y]
<1>7. y \in Seq(Octet)
  <2> DEFINE b == PageBytes(h)
  <2>1. b \in Seq(Octet) /\ c + r <= Len(b)
    BY <1>6, PageOctets
  <2> HIDE DEF b, c
  <2>2. SubSeq(b, c + 1, c + r) \in Seq(Octet)
    BY <1>3, <1>6, <2>1, Slice
  <2>3. x \in Seq(Octet)
    BY <2>2 DEF b
  <2> HIDE DEF x
  <2> QED BY <1>3, <2>3, ConcatProperties
<1>8. peer' = [peer EXCEPT ![i].got = y]
  BY <1>5
<1> HIDE DEF y
<1>9. peer' = [peer EXCEPT ![i] = f]
  BY <1>8
<1>10. f \in Peer /\ f.todo = p.todo /\ f.taken = p.taken /\ f.answers = p.answers /\ f.got = y
       /\ f.left = p.left
  BY <1>1, <1>7 DEF Peer
<1> HIDE DEF f
<1>11. CASE c + r >= h[2]
  <2> DEFINE w == Tail(s.w_buffer)
             on == w # <<>>
             zero == 0
             res == IF "idle" \in timeouts THEN s.result ELSE "failed"
             e == [s EXCEPT !.w_curr = zero, !.w_buffer = w, !.write_time = on, !.result = res]
  <2>1. session' = [session EXCEPT ![i] = e]
    BY <1>5, <1>11 DEF Sent
  <2>2. w \in Seq(Nat \X Nat) /\ on \in BOOLEAN /\ zero \in Nat /\ zero = 0
    BY <1>3, <1>4, HeadTailItems
  <2>3. res \in {"new", "wait", "data", "error", "failed", "overrun"} /\ (res = s.result \/ res = "failed")
    BY <1>3
  <2>4. on => w # <<>>
    OBVIOUS
  <2> HIDE DEF w, on, zero, res
  <2>5. /\ e \in HSSESSION /\ e.w_curr = zero /\ e.w_buffer = w /\ e.write_time = on
        /\ e.result = res /\ e.data = s.data /\ e.size = s.size /\ e.version = s.version
        /\ e.header_length = s.header_length /\ e.body_length = s.body_length
        /\ e.read_time = s.read_time /\ e.stale = s.stale
    BY <1>1, <2>2, <2>3 DEF HSSESSION
  <2> HIDE DEF e
  <2>6. StepTo(i, e, f)
    BY <1>9, <1>10, <2>1, <2>5 DEF StepTo
  <2>7. Framed(e, f, st)
    <3>1. CASE res = "failed"
      BY <1>2, <1>10, <2>5, <3>1 DEF Framed, Live
    <3>2. CASE res = s.result
      BY <1>2, <1>10, <2>5, <3>2 DEF Framed, InRequest, AllTaken, HeaderKnown
    <3> QED BY <2>3, <3>1, <3>2
  <2>8. Timed(e)
    BY <1>2, <2>2, <2>4, <2>5 DEF Timed
  <2>9. Roomy(e)
    BY <1>2, <2>3, <2>5 DEF Roomy
  <2>10. BytesSent(s, p, e, f, r)
    <3>1. e.w_curr = 0 /\ e.w_buffer = Tail(s.w_buffer) /\ f.got = y
      BY <1>10, <2>2, <2>5 DEF w
    <3> QED BY <1>4, <1>10, <1>11, <3>1 DEF BytesSent, y, x
  <2>11. Traced(e, f, st)
    BY <1>2, <1>10, <2>3, <2>5 DEF Traced, Excused
  <2> QED BY <2>6, <2>7, <2>8, <2>9, <2>10, <2>11 DEF SessionOK, Writing
<1>12. CASE ~(c + r >= h[2])
  <2> DEFINE on == TRUE
             to == c + r
             e == [s EXCEPT !.w_curr = to, !.write_time = on]
  <2>1. session' = [session EXCEPT ![i] = e]
    BY <1>5, <1>12 DEF Sent
  <2>2. on \in BOOLEAN /\ on /\ to \in Nat
    <3>1. c \in Nat /\ r \in Nat
      BY <1>3, <1>6
    <3> HIDE DEF c
    <3> QED BY ONLY <3>1
  <2> HIDE DEF on, to
  <2>3. /\ e \in HSSESSION /\ e.w_curr = to /\ e.w_buffer = s.w_buffer /\ e.write_time = on
        /\ e.result = s.result /\ e.data = s.data /\ e.size = s.size /\ e.version = s.version
        /\ e.header_length = s.header_length /\ e.body_length = s.body_length
        /\ e.read_time = s.read_time /\ e.stale = s.stale
    BY <1>1, <2>2 DEF HSSESSION
  <2> HIDE DEF e
  <2>4. StepTo(i, e, f)
    BY <1>9, <1>10, <2>1, <2>3 DEF StepTo
  <2>5. Framed(e, f, st)
    BY <1>2, <1>10, <2>3 DEF Framed, InRequest, AllTaken, HeaderKnown
  <2>6. Timed(e)
    BY <1>2, <1>4, <2>2, <2>3 DEF Timed
  <2>7. Roomy(e)
    BY <1>2, <2>3 DEF Roomy
  <2>8. BytesSent(s, p, e, f, r)
    <3>1. e.w_curr = c + r /\ f.got = y
      BY <1>10, <2>3 DEF to
    <3> QED BY <1>4, <1>10, <1>12, <2>3, <3>1 DEF BytesSent, y, x
  <2>9. Traced(e, f, st)
    BY <1>2, <1>10, <2>3 DEF Traced, Excused
  <2> QED BY <2>4, <2>5, <2>6, <2>7, <2>8, <2>9 DEF SessionOK, Writing
<1> QED BY <1>11, <1>12

\* A step of a session goes on in its stream.
LEMMA OneStep ==
    ASSUME TypeOK, NEW i \in Slot, NEW st \in Seq(WellFormedRequest), st = Stream(i),
           SessionOK(session[i], peer[i], st), SessionStep(i)
    PROVE  \E e, f : /\ StepTo(i, e, f) /\ SessionOK(e, f, st)
                     /\ Writing(session[i], peer[i], e, f)
<1>1. CASE HTTP_sess_read(i)
  BY <1>1, ReadStep
<1>2. CASE ReadFails(i)
  BY <1>2, ReadFailsStep
<1>3. CASE HTTP_sess_decode(i)
  BY <1>3, DecodeStep
<1>4. ASSUME NEW len \in Response, Answer(i, len)
      PROVE  \E e, f : /\ StepTo(i, e, f) /\ SessionOK(e, f, st)
                       /\ Writing(session[i], peer[i], e, f)
  BY <1>4, AnswerStep
<1>5. CASE HTTP_sess_write(i)
  BY <1>5, WriteStep
<1> QED BY <1>1, <1>2, <1>3, <1>4, <1>5 DEF SessionStep

-----------------------------------------------------------------------------
(* The responses.                                                          *)

\* The pages of some responses, and their bytes.
Pages(rs) == [n \in DOMAIN rs |-> PageBytes(rs[n])]
All(rs) == FlattenSeq(Pages(rs))

\* What is gone of the queued responses is as long as w_curr says; what is
\* left of them makes what the peer has got all the responses there are.
Sending(s, p) ==
    \E gone, left \in Seq(Octet) :
        /\ Len(gone) = s.w_curr
        /\ Join(gone, left) = All(s.w_buffer)
        /\ Join(p.got, left) = All(p.answers)

\* The pages are sequences of octets.
LEMMA PagesType ==
    ASSUME NEW rs \in Seq(Nat \X Nat)
    PROVE  Pages(rs) \in Seq(Seq(Octet)) /\ Len(Pages(rs)) = Len(rs) /\ All(rs) \in Seq(Octet)
<1> DEFINE n == Len(rs)
           P(j) == PageBytes(rs[j])
           f == [j \in 1..n |-> P(j)]
           Q == Seq(Octet)
<1>1. n \in Nat /\ DOMAIN rs = 1..n
  BY LenProperties
<1>2. ASSUME NEW j \in 1..n PROVE P(j) \in Q
  <2>1. rs[j] \in Nat \X Nat
    BY ElementOfSeq
  <2> QED BY <2>1, PageOctets
<1> HIDE DEF n, P, Q
<1>3. f \in Seq(Q) /\ Len(f) = n
  BY <1>1, <1>2
<1>4. Pages(rs) = f
  BY <1>1 DEF Pages, P
<1>5. Pages(rs) \in Seq(Seq(Octet))
  BY <1>3, <1>4 DEF Q
<1> QED BY <1>3, <1>4, <1>5, FlattenType DEF All, n

\* A response more.
LEMMA AllAppend ==
    ASSUME NEW rs \in Seq(Nat \X Nat), NEW a \in Nat \X Nat
    PROVE  All(Append(rs, a)) = Join(All(rs), PageBytes(a))
<1> DEFINE tt == Append(rs, a)
           n == Len(rs)
           ps == Pages(rs)
           b == PageBytes(a)
           qs == Append(ps, b)
           ts == Pages(tt)
<1>1. /\ tt \in Seq(Nat \X Nat) /\ Len(tt) = n + 1 /\ n \in Nat /\ tt[n + 1] = a
      /\ \A j \in 1..n : tt[j] = rs[j]
  BY AppendProperties, LenProperties
<1>2. ps \in Seq(Seq(Octet)) /\ Len(ps) = n /\ b \in Seq(Octet)
  BY PagesType, PageOctets
<1>3. ts \in Seq(Seq(Octet)) /\ Len(ts) = n + 1
  BY <1>1, PagesType
<1>4. \A j \in 1..n : ps[j] = PageBytes(rs[j])
  BY DEF Pages
<1>5. DOMAIN tt = 1..(n + 1)
  BY <1>1, LenProperties
<1>6. \A j \in 1..(n + 1) : ts[j] = PageBytes(tt[j])
  BY <1>5 DEF Pages
<1> HIDE DEF tt, n, ps, b, ts
<1>7. /\ qs \in Seq(Seq(Octet)) /\ Len(qs) = n + 1 /\ qs[n + 1] = b
      /\ \A j \in 1..n : qs[j] = ps[j]
  BY <1>2, AppendProperties
<1>8. ASSUME NEW j \in 1..Len(ts) PROVE ts[j] = qs[j]
  <2>1. CASE j = n + 1
    BY <1>1, <1>3, <1>6, <1>7, <2>1 DEF b
  <2>2. CASE j # n + 1
    <3>1. j \in 1..n /\ j \in 1..(n + 1)
      BY <1>1, <1>3, <2>2
    <3> QED BY <1>1, <1>4, <1>6, <1>7, <3>1
  <2> QED BY <2>1, <2>2
<1> HIDE DEF qs
<1>9. ts = qs
  BY <1>3, <1>7, <1>8, SeqEqual
<1>10. FlattenSeq(qs) = FlattenSeq(ps) \o b
  BY <1>2, FlattenAppend DEF qs
<1> QED BY <1>9, <1>10 DEF All, Join, ts, tt, ps, b

\* The first response and the others.
LEMMA AllFirst ==
    ASSUME NEW rs \in Seq(Nat \X Nat), rs # <<>>
    PROVE  All(rs) = Join(PageBytes(Head(rs)), All(Tail(rs)))
<1> DEFINE h == Head(rs)
           tt == Tail(rs)
           n == Len(rs)
           ps == Pages(rs)
           b == PageBytes(h)
           ts == Pages(tt)
           bs == <<b>>
           qs == bs \o ts
<1>1. /\ tt \in Seq(Nat \X Nat) /\ Len(tt) = n - 1 /\ n \in Nat /\ n # 0
      /\ h = rs[1] /\ h \in Nat \X Nat
  BY HeadTailItems, HeadItem, LenProperties, EmptySeq
<1>2. \A j \in 1..(n - 1) : tt[j] = rs[j + 1]
  OBVIOUS
<1>3. ps \in Seq(Seq(Octet)) /\ Len(ps) = n /\ b \in Seq(Octet)
  BY <1>1, PagesType, PageOctets
<1>4. ts \in Seq(Seq(Octet)) /\ Len(ts) = n - 1
  BY <1>1, PagesType
<1>5. \A j \in 1..n : ps[j] = PageBytes(rs[j])
  BY DEF Pages
<1>6. DOMAIN tt = 1..(n - 1)
  BY <1>1, LenProperties
<1>7. \A j \in 1..(n - 1) : ts[j] = PageBytes(tt[j])
  BY <1>6 DEF Pages
<1> HIDE DEF tt, h, n, ps, b, ts
<1>8. bs \in Seq(Seq(Octet)) /\ Len(bs) = 1 /\ bs[1] = b
  BY <1>3
<1> HIDE DEF bs
<1>9. /\ qs \in Seq(Seq(Octet)) /\ Len(qs) = 1 + (n - 1)
      /\ \A j \in 1..(1 + (n - 1)) : qs[j] = IF j <= 1 THEN bs[j] ELSE ts[j - 1]
  <2>1. /\ qs \in Seq(Seq(Octet)) /\ Len(qs) = Len(bs) + Len(ts)
        /\ \A j \in 1..(Len(bs) + Len(ts)) :
              qs[j] = IF j <= Len(bs) THEN bs[j] ELSE ts[j - Len(bs)]
    BY <1>4, <1>8, ConcatProperties
  <2> HIDE DEF qs
  <2> QED BY <1>4, <1>8, <2>1
<1> HIDE DEF qs
<1>10. ASSUME NEW j \in 1..Len(ps) PROVE ps[j] = qs[j]
  <2>1. j \in 1..n /\ j \in 1..(1 + (n - 1))
    BY <1>1, <1>3
  <2>2. CASE j = 1
    <3>1. ps[j] = b
      BY <1>1, <1>5, <2>1, <2>2 DEF b
    <3>2. qs[j] = b
      BY <1>8, <1>9, <2>1, <2>2
    <3> QED BY <3>1, <3>2
  <2>3. CASE j # 1
    <3>1. j - 1 \in 1..(n - 1) /\ ~(j <= 1) /\ (j - 1) + 1 = j
      BY <1>1, <2>1, <2>3
    <3>2. qs[j] = ts[j - 1] /\ ts[j - 1] = PageBytes(tt[j - 1]) /\ tt[j - 1] = rs[(j - 1) + 1]
      BY <1>2, <1>7, <1>9, <2>1, <3>1
    <3> QED BY <1>5, <2>1, <3>1, <3>2
  <2> QED BY <2>2, <2>3
<1>11. Len(ps) = Len(qs)
  BY <1>1, <1>3, <1>9
<1>12. ps = qs
  BY <1>3, <1>9, <1>10, <1>11, SeqEqual
<1>13. FlattenSeq(qs) = b \o FlattenSeq(ts)
  BY <1>3, <1>4, FlattenPrepend DEF qs, bs
<1> QED BY <1>12, <1>13 DEF All, Join, ts, tt, ps, b, h

\* A response that is queued.
LEMMA QueuedSending ==
    ASSUME NEW s \in HSSESSION, NEW p \in Peer, NEW e, NEW f, NEW a,
           Sending(s, p), Queued(s, p, e, f, a)
    PROVE  Sending(e, f)
<1> DEFINE w == s.w_buffer
           v == p.answers
           g == p.got
           b == PageBytes(a)
<1>1. w \in Seq(Nat \X Nat) /\ v \in Seq(Nat \X Nat) /\ g \in Seq(Octet) /\ a \in Nat \X Nat
  BY DEF HSSESSION, Peer, Queued
<1>2. /\ e.w_buffer = Append(w, a) /\ e.w_curr = s.w_curr
      /\ f.answers = Append(v, a) /\ f.got = g
  BY DEF Queued
<1>3. PICK gone \in Seq(Octet), left \in Seq(Octet) :
         Len(gone) = s.w_curr /\ Join(gone, left) = All(w) /\ Join(g, left) = All(v)
  BY DEF Sending
<1>4. b \in Seq(Octet)
  BY <1>1, PageOctets
<1> HIDE DEF w, v, g, b
<1>5. All(e.w_buffer) = Join(All(w), b) /\ All(f.answers) = Join(All(v), b)
  BY <1>1, <1>2, AllAppend DEF b
<1>6. Join(left, b) \in Seq(Octet)
  BY <1>3, <1>4, ConcatProperties DEF Join
<1>7. /\ Join(gone, Join(left, b)) = Join(Join(gone, left), b)
      /\ Join(g, Join(left, b)) = Join(Join(g, left), b)
  BY <1>1, <1>3, <1>4, JoinAssociative
<1> QED BY <1>2, <1>3, <1>5, <1>6, <1>7 DEF Sending

\* Bytes of the first response that are sent.
LEMMA SentSending ==
    ASSUME NEW s \in HSSESSION, NEW p \in Peer, NEW e, NEW f, NEW r,
           Sending(s, p), BytesSent(s, p, e, f, r)
    PROVE  Sending(e, f)
<1> DEFINE w == s.w_buffer
           c == s.w_curr
           g == p.got
           h == Head(w)
           b == PageBytes(h)
           T == All(Tail(w))
           x == SubSeq(b, c + 1, c + r)
           b1 == SubSeq(b, 1, c)
           b2 == SubSeq(b, c + 1, Len(b))
           b3 == SubSeq(b, c + r + 1, Len(b))
<1>1. w \in Seq(Nat \X Nat) /\ c \in Nat /\ g \in Seq(Octet) /\ w # <<>> /\ r \in 1..SendLimit(s)
  BY DEF HSSESSION, Peer, BytesSent
<1>2. h \in Nat \X Nat /\ h[2] \in Nat /\ r \in Nat /\ r > 0 /\ c + r <= h[2]
  BY <1>1, SendBound
<1>3. /\ IF c + r >= h[2] THEN e.w_curr = 0 /\ e.w_buffer = Tail(w)
                          ELSE e.w_curr = c + r /\ e.w_buffer = w
      /\ f.got = Join(g, x) /\ f.answers = p.answers
  BY DEF BytesSent, Join
<1>4. PICK gone \in Seq(Octet), left \in Seq(Octet) :
         Len(gone) = c /\ Join(gone, left) = All(w) /\ Join(g, left) = All(p.answers)
  BY DEF Sending
<1>5. b \in Seq(Octet) /\ Len(b) = h[2]
  BY <1>2, PageOctets
<1>6. Tail(w) \in Seq(Nat \X Nat)
  BY <1>1, HeadTailItems
<1>7. T \in Seq(Octet)
  BY <1>6, PagesType
<1>8. All(w) = Join(b, T)
  BY <1>1, AllFirst
<1> HIDE DEF w, c, g, h, b, T
<1>9. /\ b1 \in Seq(Octet) /\ b2 \in Seq(Octet) /\ Len(b1) = c /\ b = Join(b1, b2)
  <2>1. c \in 0..Len(b)
    BY <1>1, <1>2, <1>5
  <2> QED BY <1>5, <2>1, SplitSeq DEF Join
<1>10. x \in Seq(Octet) /\ b3 \in Seq(Octet) /\ b2 = Join(x, b3)
  BY <1>1, <1>2, <1>5, Slice DEF Join
<1>11. Len(x) = r /\ Len(b3) = Len(b) - (c + r)
  <2>1. c + r \in 0..Len(b) /\ c \in 0..Len(b)
    BY <1>1, <1>2, <1>5
  <2>2. Len(b3) = Len(b) - (c + r)
    BY <1>5, <2>1, SplitSeq
  <2>3. Len(b2) = Len(b) - c
    BY <1>5, <2>1, SplitSeq
  <2> HIDE DEF x, b2, b3
  <2>4. Len(Join(x, b3)) = Len(x) + Len(b3) /\ Len(x) \in Nat
    BY <1>10, ConcatProperties, LenProperties DEF Join
  <2>5. Len(b2) = Len(x) + Len(b3)
    BY <1>10, <2>4
  <2> DEFINE lx == Len(x)
             l == Len(b)
  <2>6. lx \in Nat /\ l \in Nat /\ l - c = lx + (l - (c + r))
    BY <1>2, <1>5, <2>2, <2>3, <2>4, <2>5
  <2> HIDE DEF lx, l
  <2>7. lx = r
    BY <1>1, <1>2, <2>6
  <2> QED BY <2>2, <2>7 DEF lx
<1> HIDE DEF x, b1, b2, b3
<1> DEFINE more == Join(b3, T)
<1>12. more \in Seq(Octet) /\ Join(x, more) \in Seq(Octet) /\ Join(b1, x) \in Seq(Octet)
       /\ Len(Join(b1, x)) = c + r
  <2>1. more \in Seq(Octet)
    BY <1>7, <1>10, ConcatProperties DEF Join
  <2> HIDE DEF more
  <2> QED BY <1>9, <1>10, <1>11, <2>1, ConcatProperties DEF Join
<1>13. All(w) = Join(b1, Join(x, more))
  <2>1. Join(b2, T) = Join(x, Join(b3, T))
    BY <1>7, <1>10, JoinAssociative
  <2>2. Join(Join(b1, b2), T) = Join(b1, Join(b2, T))
    BY <1>7, <1>9, JoinAssociative
  <2> QED BY <1>8, <1>9, <2>1, <2>2
<1> HIDE DEF more
<1>14. left = Join(x, more)
  <2> DEFINE y == Join(x, more)
  <2>1. gone \o left = b1 \o y /\ y \in Seq(Octet)
    BY <1>4, <1>12, <1>13 DEF Join
  <2> HIDE DEF y
  <2>2. left = y
    BY <1>4, <1>9, <2>1, ConcatCancel
  <2> QED BY <2>2 DEF y
<1>15. Join(f.got, more) = All(f.answers)
  BY <1>1, <1>3, <1>4, <1>10, <1>12, <1>14, JoinAssociative
<1>16. CASE c + r >= h[2]
  <2>1. Len(b3) = 0
    BY <1>1, <1>2, <1>5, <1>11, <1>16
  <2>2. b3 = <<>>
    BY <1>10, <2>1, LenZero
  <2>3. more = T
    BY <1>7, <2>2, ConcatEmptySeq DEF more, Join
  <2>4. Join(<<>>, more) = T
    BY <1>7, <2>3, ConcatEmptySeq DEF Join
  <2>5. e.w_curr = 0 /\ All(e.w_buffer) = T
    BY <1>3, <1>16 DEF T
  <2>6. <<>> \in Seq(Octet) /\ Len(<<>>) = 0
    OBVIOUS
  <2> QED BY <1>12, <1>15, <2>4, <2>5, <2>6 DEF Sending
<1>17. CASE ~(c + r >= h[2])
  <2>1. e.w_curr = c + r /\ e.w_buffer = w
    BY <1>3, <1>17
  <2>2. Join(Join(b1, x), more) = All(w)
    BY <1>9, <1>10, <1>12, <1>13, JoinAssociative
  <2> QED BY <1>12, <1>15, <2>1, <2>2 DEF Sending
<1> QED BY <1>16, <1>17

\* Whatever a step does to the responses, no byte of them is lost.
LEMMA WritingSending ==
    ASSUME NEW s \in HSSESSION, NEW p \in Peer, NEW e, NEW f,
           Sending(s, p), Writing(s, p, e, f)
    PROVE  Sending(e, f)
<1>1. CASE NothingWritten(s, p, e, f)
  BY <1>1 DEF NothingWritten, SameWriting, Sending
<1>2. ASSUME NEW a, Queued(s, p, e, f, a) PROVE Sending(e, f)
  BY <1>2, QueuedSending
<1>3. ASSUME NEW r, BytesSent(s, p, e, f, r) PROVE Sending(e, f)
  BY <1>3, SentSending
<1> QED BY <1>1, <1>2, <1>3 DEF Writing

\* What is left is what the model calls pending.
LEMMA SendingPending ==
    ASSUME NEW s \in HSSESSION, NEW p \in Peer, Sending(s, p)
    PROVE  p.got \o Pending(s) = FlattenSeq([n \in DOMAIN p.answers |-> PageBytes(p.answers[n])])
<1> DEFINE w == s.w_buffer
           c == s.w_curr
           b == All(w)
           u == SubSeq(b, 1, c)
           v == SubSeq(b, c + 1, Len(b))
<1>1. w \in Seq(Nat \X Nat) /\ c \in Nat
  BY DEF HSSESSION
<1>2. PICK gone \in Seq(Octet), left \in Seq(Octet) :
         Len(gone) = c /\ Join(gone, left) = b /\ Join(p.got, left) = All(p.answers)
  BY DEF Sending
<1>3. b \in Seq(Octet)
  BY <1>1, PagesType
<1> HIDE DEF b, c, u, v
<1>4. c \in 0..Len(b)
  <2>1. Len(Join(gone, left)) = Len(gone) + Len(left)
    BY ConcatProperties DEF Join
  <2>2. Len(gone) \in Nat /\ Len(left) \in Nat
    BY LenProperties
  <2> QED BY <1>2, <2>1, <2>2
<1>5. u \in Seq(Octet) /\ v \in Seq(Octet) /\ Len(u) = c /\ b = u \o v
  <2>1. /\ Ahead(b, c) \in Seq(Octet) /\ Behind(b, c) \in Seq(Octet)
        /\ Len(Ahead(b, c)) = c /\ b = Join(Ahead(b, c), Behind(b, c))
    BY ONLY <1>3, <1>4, CutParts
  <2> QED BY ONLY <2>1, Zenon DEF u, v, Ahead, Behind, Join
<1>6. gone \o left = u \o v
  BY <1>2, <1>5 DEF Join
<1>7. left = v
  BY <1>2, <1>5, <1>6, ConcatCancel
<1>8. Pending(s) = v
  BY DEF Pending, v, b, c, All, Pages
<1>9. All(p.answers) = FlattenSeq([n \in DOMAIN p.answers |-> PageBytes(p.answers[n])])
  BY DEF All, Pages
<1>10. p.got \o left = All(p.answers)
  BY <1>2 DEF Join
<1> QED BY <1>7, <1>8, <1>9, <1>10

-----------------------------------------------------------------------------
(* The inductive invariant of the sessions.                                *)

\* The options and the files.
Settings ==
    /\ listening \in BOOLEAN
    /\ max_session \in 0 .. HTTP_MAX_SESSION
    /\ timeouts \subseteq {"read", "write", "idle"}
    /\ files \in Files

SessionTypes ==
    /\ session \in [Slot -> HSSESSION]
    /\ peer \in [Slot -> Peer]
    /\ version \in Nat
    /\ workload \in Seq(Seq(WellFormedRequest))
    /\ version <= Len(workload)

\* A session reads the stream of its own version.
SessionGood(s, p) ==
    /\ s.version \in 1..version
    /\ SessionOK(s, p, workload[s.version])
    /\ Sending(s, p)

RequestInv ==
    /\ Settings
    /\ SessionTypes
    /\ \A i \in used : SessionGood(session[i], peer[i])

\* With the table they make up the type invariant.
LEMMA TypesTogether ==
    ASSUME TableInv, RequestInv
    PROVE  TypeOK
<1>1. used \subseteq Slot /\ last_session \in Slot \union {-1}
  BY DEF TableInv, TableSound
<1>2. session_count \in Int
  <2>1. IsFiniteSet(used)
    BY SlotsFinite DEF TableInv
  <2>2. Cardinality(used) \in Nat
    BY <2>1, FS_CardinalityType
  <2> QED BY <2>2 DEF TableInv, TableSound
<1> QED BY <1>1, <1>2 DEF TypeOK, RequestInv, Settings, SessionTypes

\* Every call leaves the options in their range.
LEMMA SettingsKept ==
    ASSUME Settings, [Next]_vars
    PROVE  Settings'
<1>1. CASE HTTP_svr_set_option
  <2>1. max_session' \in AcceptedLimits => max_session' \in 0..HTTP_MAX_SESSION
    BY HttpAssumption DEF AcceptedLimits
  <2>2. timeouts' \in TimeoutSettings => timeouts' \subseteq {"read", "write", "idle"}
    BY HttpAssumption
  <2> QED BY <1>1, <2>1, <2>2 DEF HTTP_svr_set_option, Settings
<1>2. CASE ReloadHosts
  BY <1>2 DEF ReloadHosts, Settings
<1>3. CASE HTTP_svr_open
  BY <1>3 DEF HTTP_svr_open, Settings
<1>4. CASE HTTP_svr_close
  BY <1>4 DEF HTTP_svr_close, Settings
<1>5. CASE HTTP_sess_open
  BY <1>5 DEF HTTP_sess_open, Settings
<1>6. CASE HTTP_verify_connection \/ \E no \in Slot : HTTP_sess_close(no)
  BY <1>6 DEF HTTP_verify_connection, HTTP_sess_close, Settings
<1>7. CASE UNCHANGED table
  BY <1>7 DEF table, Settings
<1>8. ASSUME NEW i \in Slot,
             HTTP_sess_read(i) \/ ReadFails(i) \/ HTTP_sess_decode(i) \/ HTTP_sess_write(i)
      PROVE  UNCHANGED table
  BY <1>8 DEF HTTP_sess_read, ReadFails, HTTP_sess_decode, HTTP_sess_write
<1>9. ASSUME NEW i \in Slot, NEW len \in Response, Answer(i, len)
      PROVE  UNCHANGED table
  BY <1>9 DEF Answer
<1>10. CASE UNCHANGED vars
  BY <1>7, <1>10 DEF vars
<1> QED BY <1>1, <1>2, <1>3, <1>4, <1>5, <1>6, <1>7, <1>8, <1>9, <1>10 DEF Next

\* HTTP_sess_open begins with the first request of the stream.
LEMMA NewSessionGood ==
    ASSUME NEW v \in Nat, NEW st \in Seq(WellFormedRequest), NEW p,
           p.todo = StreamBytes(st), p.taken = <<>>, p.answers = <<>>, p.got = <<>>
    PROVE  /\ NewSession(v) \in HSSESSION /\ NewSession(v).version = v
           /\ p.todo \in Seq(Octet)
           /\ SessionOK(NewSession(v), p, st)
           /\ Sending(NewSession(v), p)
<1> DEFINE s == NewSession(v)
           z == Adjusted(HTTP_DATA_BUFFER)
           none == -1
           zero == 0
           off == FALSE
           todo == p.todo
<1>1. z \in Nat /\ z >= HTTP_DATA_BUFFER
  BY HttpAssumption, AdjustedRoom
<1>2. s = [version |-> v, data |-> <<>>, stale |-> zero, size |-> z, header_length |-> none,
           body_length |-> none, w_buffer |-> <<>>, w_curr |-> zero,
           read_time |-> off, write_time |-> off, result |-> "new"]
  BY DEF NewSession
<1>3. none \in Int /\ none < 0 /\ ~(none >= 0) /\ zero \in Nat /\ ~(zero > 0) /\ zero = 0
      /\ off \in BOOLEAN /\ ~off
  OBVIOUS
<1> HIDE DEF z, none, zero, off, s
<1>4. /\ s.version = v /\ s.data = <<>> /\ s.size = z /\ s.header_length = none
      /\ s.w_buffer = <<>> /\ s.w_curr = zero /\ s.read_time = off /\ s.write_time = off
      /\ s.result = "new" /\ s.stale = zero
  BY <1>2
<1>5. s \in HSSESSION
  BY <1>1, <1>2, <1>3 DEF HSSESSION
<1>6. st \in Seq(Request) /\ Len(st) \in Nat
  BY LenProperties DEF WellFormedRequest
<1>7. todo = Rest(st, 0) /\ todo \in Seq(Octet) /\ (Len(st) = 0 => todo = <<>>)
  <2>1. 0 \in 0..Len(st)
    BY <1>6
  <2> QED BY <1>6, <2>1, StreamIsRest, RestType
<1> HIDE DEF todo
<1>8. Framed(s, p, st)
  <2>1. Len(p.taken) = 0 /\ Len(p.taken) <= Len(st) /\ Len(p.taken) + 1 = 1
    BY <1>6
  <2>2. \A n \in 1..Len(p.taken) : p.taken[n] = Whole(n, st[n])
    BY <2>1
  <2>3. CASE Len(st) = 0
    <3>1. p.todo = <<>> /\ s.header_length < 0 /\ s.result # "data"
      BY <1>3, <1>4, <1>7, <2>3 DEF todo
    <3>2. AllTaken(s, p, st, 1)
      BY <1>4, <2>3, <3>1 DEF AllTaken
    <3> QED BY <2>1, <2>2, <3>2 DEF Framed
  <2>4. CASE Len(st) # 0
    <3> DEFINE R == Rest(st, 1)
    <3>1. 0 \in 0..(Len(st) - 1) /\ 1 \in 0..Len(st) /\ 1 \in 1..Len(st) /\ 0 + 1 = 1
      BY <1>6, <2>4
    <3>2. Rest(st, 0) = Left(0 + 1, st[0 + 1], 0) \o Rest(st, 0 + 1)
      BY <1>6, <3>1, RestStep
    <3>3. todo = Join(Left(1, st[1], 0), R)
      BY <1>7, <3>1, <3>2 DEF Join
    <3>4. R \in Seq(Octet)
      BY <1>6, <3>1, RestType
    <3>5. 0 \in 0..st[1].crlf
      <4>1. st[1] \in Request
        BY <1>6, <3>1, ElementOfSeq
      <4> QED BY <4>1, RequestNumbers
    <3> HIDE DEF R
    <3>6. Join(<<>>, todo) = todo /\ <<>> \in Seq(Octet)
      BY <1>7, ConcatEmptySeq DEF Join
    <3>7. At(st, 1, 0, s.data, p.todo, R)
      BY <1>4, <1>6, <1>7, <3>1, <3>3, <3>4, <3>5, <3>6 DEF At, todo
    <3>8. HeaderKnown(s, st[1], 0)
      BY <1>3, <1>4 DEF HeaderKnown
    <3>9. InRequest(s, p, st, 1)
      BY <3>1, <3>5, <3>7, <3>8 DEF InRequest, R
    <3> QED BY <2>1, <2>2, <3>9 DEF Framed
  <2> QED BY <2>3, <2>4
<1>9. Timed(s)
  BY <1>3, <1>4 DEF Timed
<1>10. Roomy(s)
  BY <1>1, <1>4 DEF Roomy
<1>11. Sending(s, p)
  <2>1. Pages(<<>>) = <<>>
    BY DEF Pages
  <2>2. All(<<>>) = <<>>
    BY <2>1, FlattenEmpty DEF All
  <2>3. <<>> \in Seq(Octet) /\ Join(<<>>, <<>>) = <<>> /\ Len(<<>>) = zero
    BY <1>3, ConcatEmptySeq DEF Join
  <2> QED BY <1>4, <2>2, <2>3 DEF Sending
<1>12. Traced(s, p, st)
  BY <1>3, <1>4 DEF Traced
<1> QED BY <1>4, <1>5, <1>7, <1>8, <1>9, <1>10, <1>11, <1>12 DEF SessionOK, s, todo

\* Buffers that are freed leave the session of its type.
LEMMA FreedType ==
    ASSUME NEW s \in HSSESSION
    PROVE  Freed(s) \in HSSESSION
<1> DEFINE zero == 0
           d == <<>>
           e == [s EXCEPT !.data = d, !.stale = zero, !.size = zero, !.w_buffer = d]
<1>1. zero \in Nat /\ d \in Seq(Octet) /\ d \in Seq(Nat \X Nat)
  OBVIOUS
<1>2. Freed(s) = e
  BY DEF Freed
<1> HIDE DEF zero, d
<1>3. e \in HSSESSION
  BY <1>1 DEF HSSESSION
<1> QED BY <1>2, <1>3

\* HTTP_svr_init.
LEMMA RequestInit ==
    ASSUME Init
    PROVE  RequestInv
<1>1. Settings
  <2>1. max_session \in 0..HTTP_MAX_SESSION
    BY HttpAssumption DEF Init
  <2>2. timeouts \subseteq {"read", "write", "idle"} /\ files \in Files /\ listening \in BOOLEAN
    BY HttpAssumption DEF Init
  <2> QED BY <2>1, <2>2 DEF Settings
<1>2. session \in [Slot -> HSSESSION]
  <2> DEFINE n == NewSession(0)
             zero == 0
             m == [n EXCEPT !.size = zero]
  <2>1. session = [i \in Slot |-> m]
    BY DEF Init
  <2>2. n \in HSSESSION
    <3> DEFINE p == [todo |-> StreamBytes(<<>>), taken |-> <<>>, answers |-> <<>>, got |-> <<>>]
    <3>1. /\ <<>> \in Seq(WellFormedRequest) /\ zero \in Nat
          /\ p.todo = StreamBytes(<<>>) /\ p.taken = <<>> /\ p.answers = <<>> /\ p.got = <<>>
      OBVIOUS
    <3> HIDE DEF p
    <3> QED BY <3>1, NewSessionGood
  <2>3. zero \in Nat
    OBVIOUS
  <2> HIDE DEF n, zero
  <2>4. m \in HSSESSION
    BY <2>2, <2>3 DEF HSSESSION
  <2> QED BY <2>1, <2>4
<1>3. peer \in [Slot -> Peer]
  <2> DEFINE h == CHOOSE g \in Hosts : TRUE
             off == FALSE
             p == [host |-> h, files |-> files, todo |-> <<>>, taken |-> <<>>, left |-> off,
                   answers |-> <<>>, got |-> <<>>]
  <2>1. h \in Hosts
    BY HttpAssumption
  <2>2. peer = [i \in Slot |-> p]
    BY DEF Init
  <2>3. files \in Files
    BY DEF Init
  <2>31. off \in BOOLEAN
    OBVIOUS
  <2> HIDE DEF h, off
  <2>4. p \in Peer
    BY <2>1, <2>3, <2>31 DEF Peer
  <2> QED BY <2>2, <2>4
<1>4. workload \in Seq(Seq(WellFormedRequest))
  BY WorkloadAssumption DEF Init, WellFormedRequest
<1>5. version \in Nat /\ version <= Len(workload)
  BY <1>4, LenProperties DEF Init
<1>6. used = {}
  BY DEF Init
<1> QED BY <1>1, <1>2, <1>3, <1>4, <1>5, <1>6 DEF RequestInv, SessionTypes

\* HTTP_sess_open.
LEMMA OpenGood ==
    ASSUME TableInv, RequestInv, Settings', HTTP_sess_open
    PROVE  RequestInv'
<1> DEFINE f == FirstFree
           v == version + 1
           st == workload[v]
           s == NewSession(v)
<1>1. f \in Slot \ used
  BY FirstFreeIsFree DEF HTTP_sess_open
<1>2. PICK host \in Hosts : peer' = [peer EXCEPT ![f] = NewPeer(host, v)]
  BY DEF HTTP_sess_open
<1>3. /\ used' = used \union {f}
      /\ session' = [session EXCEPT ![f] = s]
      /\ version' = v /\ workload' = workload /\ version < Len(workload)
  BY DEF HTTP_sess_open
<1>4. /\ session \in [Slot -> HSSESSION] /\ peer \in [Slot -> Peer] /\ version \in Nat
      /\ workload \in Seq(Seq(WellFormedRequest)) /\ files \in Files
  BY DEF RequestInv, SessionTypes, Settings
<1>5. v \in Nat /\ v \in 1..Len(workload) /\ v \in 1..v /\ v <= Len(workload)
  BY <1>3, <1>4, LenProperties
<1> DEFINE p == NewPeer(host, v)
<1>6. st \in Seq(WellFormedRequest)
  BY <1>4, <1>5, ElementOfSeq
<1> HIDE DEF f, v, st
<1>7. /\ p.todo = StreamBytes(st) /\ p.taken = <<>> /\ p.answers = <<>> /\ p.got = <<>>
      /\ p.host = host /\ p.files = files
  BY DEF NewPeer, st
<1>8. /\ s \in HSSESSION /\ s.version = v /\ p.todo \in Seq(Octet)
      /\ SessionOK(s, p, st) /\ Sending(s, p)
  <2> HIDE DEF p
  <2> QED BY <1>5, <1>6, <1>7, NewSessionGood
<1>9. p \in Peer
  <2> DEFINE b == StreamBytes(st)
  <2>1. b \in Seq(Octet)
    BY <1>7, <1>8
  <2> DEFINE off == FALSE
  <2>2. p = [host |-> host, files |-> files, todo |-> b, taken |-> <<>>, left |-> off,
             answers |-> <<>>, got |-> <<>>]
    BY DEF NewPeer, st
  <2>3. off \in BOOLEAN
    OBVIOUS
  <2> HIDE DEF b, p, off
  <2> QED BY <1>4, <2>1, <2>2, <2>3 DEF Peer
<1> HIDE DEF s, p
<1>10. session' \in [Slot -> HSSESSION] /\ session'[f] = s
  BY <1>1, <1>3, <1>4, <1>8
<1>11. peer' \in [Slot -> Peer] /\ peer'[f] = p
  BY <1>1, <1>2, <1>4, <1>9 DEF p
<1>12. SessionTypes'
  BY <1>3, <1>4, <1>5, <1>10, <1>11 DEF SessionTypes
<1>13. ASSUME NEW j \in used' PROVE SessionGood(session[j], peer[j])'
  <2>1. CASE j = f
    BY <1>3, <1>5, <1>8, <1>10, <1>11, <2>1 DEF SessionGood, st
  <2>2. CASE j # f
    <3>1. j \in used /\ session'[j] = session[j] /\ peer'[j] = peer[j]
      BY <1>1, <1>2, <1>3, <1>4, <2>2 DEF TableInv
    <3>2. SessionGood(session[j], peer[j])
      BY <3>1 DEF RequestInv
    <3>3. session[j].version \in 1..version'
      BY <1>3, <1>4, <3>2 DEF SessionGood, v
    <3> QED BY <1>3, <3>1, <3>2, <3>3 DEF SessionGood
  <2> QED BY <2>1, <2>2
<1> QED BY <1>12, <1>13 DEF RequestInv

\* A step of a session.
LEMMA StepGood ==
    ASSUME TableInv, RequestInv, Settings', NEW i \in Slot, SessionStep(i)
    PROVE  RequestInv'
<1> DEFINE s == session[i]
           p == peer[i]
           st == workload[s.version]
<1>1. i \in used /\ used' = used /\ version' = version /\ workload' = workload
  BY DEF SessionStep, table
<1>2. /\ session \in [Slot -> HSSESSION] /\ peer \in [Slot -> Peer] /\ version \in Nat
      /\ workload \in Seq(Seq(WellFormedRequest)) /\ version <= Len(workload)
  BY DEF RequestInv, SessionTypes
<1>3. SessionGood(s, p) /\ TypeOK /\ s \in HSSESSION /\ p \in Peer
  BY <1>1, <1>2, TypesTogether DEF RequestInv
<1>4. s.version \in 1..version /\ SessionOK(s, p, st) /\ Sending(s, p) /\ st = Stream(i)
  BY <1>3 DEF SessionGood, Stream
<1>5. s.version \in 1..Len(workload)
  BY <1>2, <1>4, LenProperties
<1>6. st \in Seq(WellFormedRequest)
  BY <1>2, <1>5, ElementOfSeq
<1> HIDE DEF st
<1>7. PICK e, f : StepTo(i, e, f) /\ SessionOK(e, f, st) /\ Writing(s, p, e, f)
  BY <1>3, <1>4, <1>6, OneStep
<1>8. Sending(e, f)
  BY <1>3, <1>4, <1>7, WritingSending
<1>9. /\ session' = [session EXCEPT ![i] = e] /\ peer' = [peer EXCEPT ![i] = f]
      /\ e \in HSSESSION /\ f \in Peer /\ e.version = s.version
  BY <1>7 DEF StepTo
<1>10. SessionTypes'
  BY <1>1, <1>2, <1>9 DEF SessionTypes
<1>11. ASSUME NEW j \in used PROVE SessionGood(session[j], peer[j])'
  <2>1. CASE j = i
    <3>1. session'[j] = e /\ peer'[j] = f
      BY <1>2, <1>9, <2>1
    <3> QED BY <1>1, <1>4, <1>7, <1>8, <1>9, <3>1 DEF SessionGood, st
  <2>2. CASE j # i
    <3>1. session'[j] = session[j] /\ peer'[j] = peer[j]
      BY <1>2, <1>9, <2>2 DEF TableInv
    <3>2. SessionGood(session[j], peer[j])
      BY DEF RequestInv
    <3> QED BY <1>1, <3>1, <3>2 DEF SessionGood
  <2> QED BY <2>1, <2>2
<1> QED BY <1>1, <1>10, <1>11 DEF RequestInv

\* Sessions that are closed leave the others alone.
LEMMA CloseGood ==
    ASSUME TableInv, RequestInv, Settings', NEW no \in Slot, HTTP_sess_close(no)
    PROVE  RequestInv'
<1>1. peer' = peer /\ version' = version /\ workload' = workload
  BY DEF HTTP_sess_close
<1>2. session \in [Slot -> HSSESSION]
  BY DEF RequestInv, SessionTypes
<1>3. CASE used' = used \ {no} /\ session' = [session EXCEPT ![no] = Freed(session[no])]
  <2>1. Freed(session[no]) \in HSSESSION
    BY <1>2, FreedType
  <2>2. session' \in [Slot -> HSSESSION]
    BY <1>2, <1>3, <2>1
  <2>3. \A j \in used' : j \in used /\ session'[j] = session[j]
    BY <1>2, <1>3 DEF TableInv
  <2> QED BY <1>1, <2>2, <2>3 DEF RequestInv, SessionTypes, SessionGood
<1>4. CASE used' = used /\ session' = session
  BY <1>1, <1>4 DEF RequestInv, SessionTypes, SessionGood
<1> QED BY <1>3, <1>4 DEF HTTP_sess_close

\* The sessions are good in every reachable state.
LEMMA RequestInvariance == Spec => []RequestInv
<1>1. TableInv /\ RequestInv /\ [Next]_vars => RequestInv'
  <2> SUFFICES ASSUME TableInv, RequestInv, [Next]_vars PROVE RequestInv'
    OBVIOUS
  <2>0. Settings'
    BY SettingsKept DEF RequestInv
  <2>1. CASE Quiet
    BY <2>0, <2>1 DEF Quiet, RequestInv, SessionTypes, SessionGood
  <2>2. CASE HTTP_svr_close /\ used' = {}
    <3>1. session' = [i \in Slot |-> IF i <= last_session THEN Freed(session[i]) ELSE session[i]]
          /\ UNCHANGED <<peer, version, workload>>
      BY <2>2 DEF HTTP_svr_close
    <3>2. \A i \in Slot : session[i] \in HSSESSION /\ Freed(session[i]) \in HSSESSION
      BY FreedType DEF RequestInv, SessionTypes
    <3>3. session' \in [Slot -> HSSESSION]
      BY <3>1, <3>2
    <3> QED BY <2>0, <2>2, <3>1, <3>3 DEF RequestInv, SessionTypes
  <2>3. CASE HTTP_sess_open
    BY <2>0, <2>3, OpenGood
  <2>4. ASSUME NEW no \in Slot, HTTP_sess_close(no) PROVE RequestInv'
    BY <2>0, <2>4, CloseGood
  <2>5. ASSUME NEW i \in Slot, SessionStep(i) PROVE RequestInv'
    BY <2>0, <2>5, StepGood
  <2> QED BY <2>1, <2>2, <2>3, <2>4, <2>5, HttpSteps
<1> QED BY <1>1, RequestInit, TableInvariance, PTL DEF Spec

-----------------------------------------------------------------------------
(* What follows for the runs' invariants.                                  *)

\* In every behaviour of the server the variables keep their types, the bytes
\* of all sessions and what the application was given included.
THEOREM HttpTypeCorrect == Spec => []TypeOK
<1>1. TableInv /\ RequestInv => TypeOK
  BY TypesTogether
<1> QED BY <1>1, TableInvariance, RequestInvariance, PTL

\* For every stream of well-formed requests, every size of the buffer and every
\* way the stream is cut into reads, HTTP_sess_decode gives the application the
\* requests that were sent, whole and in order; strstr runs into older bytes
\* only behind line ends that were skipped, or when the application left them.
THEOREM FramingCorrect == Spec => []RequestsFramed
<1>1. RequestInv /\ TableInv => RequestsFramed
  <2> SUFFICES ASSUME RequestInv, TableInv, NEW i \in used
               PROVE  /\ \A n \in DOMAIN peer[i].taken :
                            peer[i].taken[n] = Whole(n, Stream(i)[n])
                      /\ session[i].result = "overrun" =>
                            peer[i].left \/ Stream(i)[Len(peer[i].taken) + 1].crlf > 0
    BY DEF RequestsFramed
  <2>1. SessionOK(session[i], peer[i], Stream(i))
    BY DEF RequestInv, SessionGood, Stream
  <2>2. peer[i].taken \in Seq(Seq(Octet))
    BY DEF RequestInv, SessionTypes, Peer, TableInv
  <2>3. DOMAIN peer[i].taken = 1..Len(peer[i].taken)
    BY <2>2, LenProperties
  <2>4. \A n \in DOMAIN peer[i].taken : peer[i].taken[n] = Whole(n, Stream(i)[n])
    BY <2>1, <2>3 DEF SessionOK, Framed
  <2>5. session[i].result = "overrun" =>
            peer[i].left \/ Stream(i)[Len(peer[i].taken) + 1].crlf > 0
    BY <2>1 DEF SessionOK, Traced, Excused
  <2> QED BY <2>4, <2>5
<1> QED BY <1>1, TableInvariance, RequestInvariance, PTL

\* HTTP_sess_read never asks recv for no byte while it waits for the rest of a
\* request: the buffer is larger than what it holds, or is made larger.
THEOREM RoomCorrect == Spec => []WaitingHasRoom
<1>1. RequestInv /\ TableInv => WaitingHasRoom
  <2> SUFFICES ASSUME RequestInv, TableInv, NEW i \in used, session[i].result = "wait"
               PROVE  Room(session[i]) > 0
    BY DEF WaitingHasRoom
  <2> DEFINE s == session[i]
             l == Len(s.data)
             z == Grown(s).size
             n == s.header_length + s.body_length
  <2>1. s \in HSSESSION
    BY DEF RequestInv, SessionTypes, TableInv
  <2>2. Roomy(s)
    BY DEF RequestInv, SessionGood, SessionOK
  <2>3. l \in Nat /\ s.size \in Nat /\ (s.data = <<>> => l = 0)
    BY <2>1, LenProperties DEF HSSESSION
  <2>4. z \in Nat /\ z >= s.size /\ (n > l => z > l)
    BY <2>1, GrownRoom
  <2>5. l = 0 \/ l < HTTP_MAX_HEADER_SIZE \/ l < n
    BY <2>2, <2>3 DEF Roomy
  <2>6. s.size >= HTTP_DATA_BUFFER
    BY <2>2 DEF Roomy
  <2>7. n \in Int
    BY <2>1 DEF HSSESSION
  <2>8. Room(s) = z - l
    BY DEF Room
  <2> DEFINE size == s.size
  <2>9. size \in Nat /\ z >= size /\ size >= HTTP_DATA_BUFFER
    BY <2>3, <2>4, <2>6
  <2> HIDE DEF s, l, z, n, size
  <2>10. z > l
    BY <2>3, <2>4, <2>5, <2>7, <2>9, HttpAssumption
  <2> QED BY <2>3, <2>4, <2>8, <2>10 DEF s
<1> QED BY <1>1, TableInvariance, RequestInvariance, PTL

\* However the sends of HTTP_sess_write are cut and whatever is queued between
\* them, also in a slot that was closed in the middle of a response, the peer
\* gets the responses in order, no byte lost or sent twice.
THEOREM ResponsesCorrect == Spec => []ResponsesInOrder
<1>1. RequestInv /\ TableInv => ResponsesInOrder
  <2> SUFFICES ASSUME RequestInv, TableInv, NEW i \in used
               PROVE  peer[i].got \o Pending(session[i])
                        = FlattenSeq([n \in DOMAIN peer[i].answers |->
                                        PageBytes(peer[i].answers[n])])
    BY DEF ResponsesInOrder
  <2>1. session[i] \in HSSESSION /\ peer[i] \in Peer
    BY DEF RequestInv, SessionTypes, TableInv
  <2>2. Sending(session[i], peer[i])
    BY DEF RequestInv, SessionGood
  <2> QED BY <2>1, <2>2, SendingPending
<1> QED BY <1>1, TableInvariance, RequestInvariance, PTL

\* A request or a response that was begun is always timed, and a session with
\* nothing to send never is: HTTP_verify_connection closes the peer that stops
\* and no other.
THEOREM HttpTimersCorrect == Spec => []StalledIoIsTimed
<1>1. RequestInv => StalledIoIsTimed
  BY DEF RequestInv, SessionGood, SessionOK, Timed, StalledIoIsTimed
<1> QED BY <1>1, RequestInvariance, PTL

=============================================================================
