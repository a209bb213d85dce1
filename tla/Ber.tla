-------------------------------- MODULE Ber --------------------------------
(***************************************************************************)
(* The primitive encodings of ldap_common.c that every LDAP message is     *)
(* built from: length fields (INSERT_LENGTH, FIND_LENGTH), message         *)
(* identifiers (ber_tid_create and the loop that reads them back) and      *)
(* tagged fields.  A message is a sequence of bytes 0 .. 255; the code's   *)
(* 0-based index i is the TLA+ index i + 1.                                *)
(***************************************************************************)
EXTENDS Integers, Sequences

Byte == 0 .. 255

\* The value a char holding byte b has in an int expression (char is signed).
Signed(b) == IF b > 127 THEN b - 256 ELSE b

(***************************************************************************)
(* The octets of n, most significant first and without leading zeros: what *)
(* both "while ((n >> (r * 8)) > 0) r++" loops followed by the copying     *)
(* loop write for 0 <= n < 2^31; nothing is written for a negative n.      *)
(***************************************************************************)
Octets(n) ==
    CASE n <= 0 -> <<>>
      [] n > 0 /\ n < 256 -> <<n>>
      [] n >= 256 /\ n < 65536 -> <<n \div 256, n % 256>>
      [] n >= 65536 /\ n < 16777216 ->
             <<n \div 65536, (n \div 256) % 256, n % 256>>
      [] OTHER -> <<n \div 16777216, (n \div 65536) % 256, (n \div 256) % 256, n % 256>>

\* The int a loop "x = (x << 8) + octet" leaves: the last four octets count,
\* and the first of these four carries the sign.
Int32(o) ==
    LET Octet(k) == IF k <= Len(o) THEN o[Len(o) + 1 - k] ELSE 0
    IN  Signed(Octet(4)) * 16777216 + Octet(3) * 65536 + Octet(2) * 256 + Octet(1)

\* A mutated form of InsertLength: the short form is used up to 128.
ShortUpTo128(n) ==
    IF n <= 128 THEN <<n>> ELSE <<128 + Len(Octets(n))>> \o Octets(n)

\* INSERT_LENGTH: one byte below 128, else a count of octets and the octets.
InsertLength(n) ==
    IF n < 128 THEN <<n>> ELSE <<128 + Len(Octets(n))>> \o Octets(n)

\* Byte at position i, or none (-1) behind the bytes that were received.
At(data, i) == IF i \in DOMAIN data THEN data[i] ELSE -1

\* The bytes from position i up to, not including, j, as far as they were received.
Slice(data, i, j) == SubSeq(data, i, IF j > Len(data) THEN Len(data) ELSE j - 1)

(***************************************************************************)
(* FIND_LENGTH and FIND_LEN at position i: the length, how many octets     *)
(* follow its first byte, and the position behind the field.  The          *)
(* comparison of a signed char with 0xffffff00 is true for bytes over 127. *)
(***************************************************************************)
FindLength(data, i) ==
    IF At(data, i) > 127
    THEN [len  |-> Int32(Slice(data, i + 1, i + data[i] - 127)),
          size |-> data[i] - 128,
          next |-> i + 1 + data[i] - 128]
    ELSE [len |-> At(data, i), size |-> 0, next |-> i + 1]

\* A tag, the length of the content and the content: what the generators
\* write for a component whose length they have added up in "sum".
Tagged(tag, content) == <<tag>> \o InsertLength(Len(content)) \o content

\* A field whose length is always written in one byte: names and values in
\* filters, controls and lists of attribute names.
Short(tag, v) == <<tag, Len(v)>> \o v

(***************************************************************************)
(* ber_tid_create.  A zero octet is put in front when the first octet      *)
(* would read as negative.  The bounds min and max are ints: for four      *)
(* octets min is -2^31 and max is 0 after the overflow, so four octets     *)
(* never get the zero octet (LdapWireProofs!TidIsPositive: none is needed).   *)
(***************************************************************************)
ber_tid_create(tid) ==
    LET o == Octets(tid)
        negative == Len(o) \in 1 .. 3 /\ o[1] > 127
    IN  IF negative THEN <<2, Len(o) + 1, 0>> \o o ELSE <<2, Len(o)>> \o o

\* The message identifier at position i (tag, one length byte, octets), as
\* ldap_decode_request and ldap_decode_response add it up.
ReadTid(data, i) ==
    LET next == i + 2 + At(data, i + 1)
    IN  [tid |-> Int32(Slice(data, i + 2, next)), next |-> next]

\* The field whose length field is l.
Content(data, l) ==
    [found |-> TRUE, body |-> l.next, next |-> l.next + l.len,
     value |-> Slice(data, l.next, l.next + l.len)]

(***************************************************************************)
(* The idiom "if (ber[i++] == tag) { FIND_LENGTH; ... }": a field that is  *)
(* not there costs one byte all the same.                                  *)
(***************************************************************************)
Field(data, i, tag) ==
    IF At(data, i) = tag
    THEN Content(data, FindLength(data, i + 1))
    ELSE [found |-> FALSE, body |-> i + 1, next |-> i + 1, value |-> <<>>]
=============================================================================
