---------------------------- MODULE LdapFraming -----------------------------
(***************************************************************************)
(* How LDAP_sess_decode and LDAP_clnt_decode find the message at the front *)
(* of what they have received.  Either side keeps a record with its        *)
(* "buffer" (the first r_len bytes of r_buffer) and its "frame" (r_ber_body *)
(* and r_ber_body_length).                                                 *)
(***************************************************************************)
EXTENDS Ber

\* Nothing is looked at below so many bytes.
MinHeader == 5

\* No message has been framed: both fields are -1.
NoFrame == [start |-> -1, length |-> -1]

\* The first 0x30; bytes in front of it are skipped with the message.
BodyStart(data) ==
    LET tags == {i \in DOMAIN data : data[i] = 48}
    IN  IF tags = {} THEN 0 ELSE CHOOSE i \in tags : \A k \in tags : i <= k

\* A mutated form of BodyLength: the octets of a long length are not counted.
LengthWithoutHeader(data, i) == 2 + FindLength(data, i + 1).len

\* r_ber_body_length: tag, length field and content.
BodyLength(data, i) ==
    LET l == FindLength(data, i + 1) IN l.next - i + l.len

(***************************************************************************)
(* The position and the length of the message are computed once, from      *)
(* whatever has been received, and kept until it is complete.              *)
(***************************************************************************)
Framed(x) ==
    IF Len(x.buffer) < MinHeader \/ x.frame # NoFrame \/ BodyStart(x.buffer) = 0 THEN x
    ELSE LET start == BodyStart(x.buffer)
         IN  [x EXCEPT !.frame = [start |-> start, length |-> BodyLength(x.buffer, start)]]

Complete(x) == /\ x.frame # NoFrame
               /\ x.frame.start - 1 + x.frame.length <= Len(x.buffer)

\* The bytes from the start of the message on.
FromBody(x) == SubSeq(x.buffer, x.frame.start, Len(x.buffer))

\* The message is taken out of the buffer and its framing forgotten.
Taken(x) == [x EXCEPT !.buffer = SubSeq(@, x.frame.start + x.frame.length, Len(@)),
                      !.frame = NoFrame]
=============================================================================
