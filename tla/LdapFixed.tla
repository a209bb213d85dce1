----------------------------- MODULE LdapFixed ------------------------------
(***************************************************************************)
(* The messages of ldap_common.c that have a fixed number of fields: the   *)
(* envelope of every message, delete, moddn and extended requests and the  *)
(* results, each with its generator and its reader.  The messages that     *)
(* hold lists or filters are in LdapCodec and LdapDecoder.  A reader takes *)
(* the bytes received so far, of which the message is the first part.      *)
(***************************************************************************)
EXTENDS Ber

NoValue == <<>>

\* CREATE_LDAP and COPY_TO_BER around message identifier, operation and the
\* bytes of the controls.
Envelope(tid, operation, controls) ==
    Tagged(48, ber_tid_create(tid) \o operation \o controls)

\* What both decoders read of the envelope: the identifier, the tag of the
\* operation (at position next) and its length field.
ReadHead(d) ==
    LET start == FindLength(d, 2).next
        id    == ReadTid(d, start)
    IN  [start |-> start, identified |-> At(d, start) = 2, tid |-> id.tid, next |-> id.next,
         tag |-> At(d, id.next), body |-> FindLength(d, id.next + 1)]

-----------------------------------------------------------------------------
(* Requests, written by the client *)

(***************************************************************************)
(* CREATE_DN and the same lines in the other generators.  They insert the  *)
(* length from r, the very variable INSERT_LENGTH starts to count from 0   *)
(* when the length is 256 or more: a name that long is written as empty.   *)
(***************************************************************************)
CREATE_DN(tag, dn) == IF Len(dn) < 256 THEN Tagged(tag, dn) ELSE <<tag, 128>>

\* The new superior is only written when the caller gives one.
LDAP_gen_moddn_request(q) ==
    Tagged(108, CREATE_DN(4, q.dn) \o CREATE_DN(4, q.rdn)
                \o <<1, 1, IF q.delete_flag = 1 THEN 1 ELSE 0>>
                \o (IF q.sup = NoValue THEN <<>> ELSE CREATE_DN(4, q.sup)))

LDAP_gen_delete_request(q) == CREATE_DN(74, q.dn)

LDAP_gen_extended_common_request(q) ==
    Tagged(119, Tagged(128, q.oid) \o Tagged(129, q.value))

\* The value is a sequence, whose header this generator adds.
LDAP_gen_extended_request(q) ==
    Tagged(119, Tagged(128, q.oid) \o Tagged(129, Tagged(48, q.value)))

-----------------------------------------------------------------------------
(* Requests, read by the server at the position of their contents *)

Malformed == [op |-> "malformed"]

\* One-byte numbers: the tag is looked at, the length is taken to be 1.
Number(d, i, tag) == [found |-> At(d, i) = tag, value |-> At(d, i + 2), next |-> i + 3]

\* The length field l is the name's: a delete request is nothing but a name.
DecodeDelete(d, l) ==
    [op |-> "delete", dn |-> Slice(d, l.next, l.next + l.len), next |-> l.next + l.len]

\* The new superior is not read: the decoder stops in front of it.
DecodeModDn(d, i) ==
    LET entry == Field(d, i, 4)
        rdn   == Field(d, entry.next, 4)
        flag  == Number(d, rdn.next, 1)
    IN  IF ~(entry.found /\ rdn.found /\ flag.found) THEN Malformed
        ELSE [op |-> "moddn", dn |-> entry.value, rdn |-> rdn.value,
              delete_flag |-> flag.value, next |-> flag.next]

\* A request value is only looked for behind a request name.
DecodeExtended(d, i) ==
    LET oid   == Field(d, i, 128)
        value == IF oid.found THEN Field(d, oid.next, 129) ELSE oid
    IN  [op |-> "extended", oid |-> oid.value,
         value |-> IF oid.found THEN value.value ELSE NoValue, next |-> value.next]

-----------------------------------------------------------------------------
(* Responses, written by the server *)

\* A mutated form of ResultBytes: the strings are copied in the order they are measured in.
MessageFirst(p) == <<10, 1, p.code % 256>> \o Tagged(4, p.message) \o Tagged(4, p.matched)

\* The result code is cut to one byte; absent strings are written as empty ones.
ResultBytes(p) == <<10, 1, p.code % 256>> \o Tagged(4, p.matched) \o Tagged(4, p.message)

\* Tags of the responses _gen_ldap_result writes.
ResultTag == [search_done |-> 101, modify |-> 103, add |-> 105, delete |-> 107, moddn |-> 109]

_gen_ldap_result(p) == Tagged(ResultTag[p.op], ResultBytes(p))

LDAP_gen_extended_common_response(p) ==
    Tagged(120, ResultBytes(p) \o Tagged(138, p.oid) \o Tagged(139, p.value))

\* A value that is not empty is wrapped in a sequence.
LDAP_gen_extended_response(p) ==
    Tagged(120, ResultBytes(p) \o Tagged(138, p.oid)
                \o Tagged(139, IF p.value = NoValue THEN <<>> ELSE Tagged(48, p.value)))

-----------------------------------------------------------------------------
(* Responses, read by the client *)

(***************************************************************************)
(* Copying n bytes to the front of a string buffer without a closing zero: *)
(* the bytes behind them stay what they were.                              *)
(***************************************************************************)
CopiedOver(old, new) == new \o Slice(old, Len(new) + 1, Len(old) + 1)

\* A string buffer as its reader sees it: the bytes up to the first zero.
StringIn(buffer) ==
    LET zeros == {k \in DOMAIN buffer : buffer[k] = 0}
    IN  IF zeros = {} THEN buffer
        ELSE SubSeq(buffer, 1, (CHOOSE k \in zeros : \A z \in zeros : k <= z) - 1)

\* The text of a result code, which stands for the 50 texts of error_to_string.
error_to_string(code) == <<69, 69, 69, code + 2>>

\* A mutated form of Collected: an entry replaces those collected before.
Replaced(rber, pdu) == pdu

\* Entries and extended responses are appended to rber, which is the
\* connection's and not the request's.
Collected(rber, pdu) == rber \o pdu

(***************************************************************************)
(* ldap_decode_response, with what LDAP_clnt_decode does before and behind *)
(* it, on the message at the front of d (n bytes long), for a client whose *)
(* diagnostic buffer holds "diag" and whose entry buffer holds "rber".     *)
(* Entries and extended responses are copied to rber from their tag to the *)
(* end of the message; the other responses fill in the result.  A result   *)
(* without a message, and every entry (whose code is -1), gets a text.     *)
(***************************************************************************)
ldap_decode_response(d, n, diag, rber) ==
    LET h       == ReadHead(d)
        code    == Number(d, h.body.next, 10)
        matched == Field(d, code.next, 4)
        message == Field(d, matched.next, 4)
        copied  == h.tag \in {100, 120}
        result  == IF h.tag = 100 \/ ~code.found THEN -1 ELSE Signed(code.value)
        cleared == IF diag = <<>> THEN <<0>> ELSE [diag EXCEPT ![1] = 0]
        filled  == IF copied THEN cleared ELSE CopiedOver(cleared, message.value)
    IN  [tid |-> h.tid, tag |-> h.tag, code |-> result,
         matched |-> IF copied THEN <<>> ELSE matched.value,
         diag |-> IF result # 0 /\ filled[1] = 0
                  THEN CopiedOver(filled, error_to_string(result) \o <<0>>)
                  ELSE filled,
         rber |-> IF copied THEN Collected(rber, SubSeq(d, h.next, n)) ELSE rber]
=============================================================================
