----------------------------- MODULE LdapCodec ------------------------------
(***************************************************************************)
(* The generators of ldap_common.c whose messages hold lists, and the      *)
(* requests and responses as a whole (LdapDecoder reads them).  A request  *)
(* is a record with the arguments of its generator; names, values and DNs  *)
(* are sequences of bytes.  Attribute lists and modification lists are     *)
(* sequences of records [name, vals] and [operation, name, vals].          *)
(***************************************************************************)
EXTENDS LdapFilter, LdapFixed
LOCAL INSTANCE SequencesExt

-----------------------------------------------------------------------------
(* Attribute lists *)

\* LDAP_gen_ber_string: the names of the attributes a search asks for.
LDAP_gen_ber_string(names) == FlattenSeq([k \in DOMAIN names |-> Short(4, names[k])])

\* The values of an attribute, one behind the other in buff.
ValueBytes(vals) == FlattenSeq([k \in DOMAIN vals |-> Tagged(4, vals[k])])

(***************************************************************************)
(* What the loop "while ((len >> (r * 8)) > 0) ++r" leaves in r: it starts *)
(* with the r of the attribute before.                                     *)
(***************************************************************************)
CountOctets(len, r) == IF Len(Octets(len)) > r THEN Len(Octets(len)) ELSE r

\* INSERT_LENGTH leaves r alone below 256 and counts it down to 0 above.
AfterInsert(len, r) == IF len < 256 THEN r ELSE 0

\* The value of r when the lengths of lens, in this order, have been inserted.
AfterInserts(lens, r) == FoldLeft(LAMBDA acc, len : AfterInsert(len, acc), r, lens)

\* Size of a header (tag and length) for len bytes, with r octets in the long form.
HeaderSize(len, r) == IF len < 128 THEN 2 ELSE 2 + r

Lengths(vals) == [k \in DOMAIN vals |-> Len(vals[k])]

(***************************************************************************)
(* One turn of the loop of LDAP_gen_ber_attrlist.  The length of the       *)
(* attribute is added up before its parts are written, with the count r of *)
(* octets kept from turn to turn; acc is [out, r].                         *)
(***************************************************************************)
AttrStep(acc, attr) ==
    LET name   == Tagged(4, attr.name)
        values == ValueBytes(attr.vals)
        r0     == AfterInserts(<<Len(attr.name)>> \o Lengths(attr.vals), acc.r)
        r1     == IF Len(values) < 128 THEN r0 ELSE CountOctets(Len(values), r0)
        sum    == Len(name) + Len(values) + HeaderSize(Len(values), r1)
    IN  [out |-> acc.out \o <<48>> \o InsertLength(sum) \o name \o Tagged(49, values),
         r   |-> AfterInserts(<<sum, Len(values)>>, r1)]

LDAP_gen_ber_attrlist(attrlist) == FoldLeft(AttrStep, [out |-> <<>>, r |-> 0], attrlist).out

\* One turn of the loop of LDAP_gen_ber_modlist: two headers are counted, the
\* second with the r the first has left.
ModStep(acc, mod) ==
    LET name   == Tagged(4, mod.name)
        values == ValueBytes(mod.vals)
        r0     == AfterInserts(<<Len(mod.name)>> \o Lengths(mod.vals), acc.r)
        r1     == IF Len(values) < 128 THEN r0 ELSE CountOctets(Len(values), r0)
        part   == Len(name) + Len(values) + HeaderSize(Len(values), r1)
        r2     == IF part < 128 THEN r1 ELSE CountOctets(part, r1)
        sum    == part + HeaderSize(part, r2) + 3
    IN  [out |-> acc.out \o <<48>> \o InsertLength(sum) \o <<10, 1, mod.operation>>
                 \o <<48>> \o InsertLength(part) \o name \o Tagged(49, values),
         r   |-> AfterInserts(<<sum, part, Len(values)>>, r2)]

LDAP_gen_ber_modlist(modlist) == FoldLeft(ModStep, [out |-> <<>>, r |-> 0], modlist).out

-----------------------------------------------------------------------------
(* Requests, written by the client *)

\* A mutated form of ControlBytes: the value is only written behind a criticality.
ValueIfCritical(c) ==
    Short(48, Short(4, c.type) \o (IF c.criticality = -1 THEN <<>> ELSE Short(4, c.value)))

\* A control: type, criticality (-1 when it is not to be written) and value.
\* Its lengths are one byte each; a control without a type is left out.
ControlBytes(c) ==
    IF c.type = <<>> THEN <<>>
    ELSE Short(48, Short(4, c.type)
                   \o (IF c.criticality = -1 THEN <<>>
                       ELSE <<1, 1, IF c.criticality = 1 THEN 255 ELSE 0>>)
                   \o (IF c.value = NoValue THEN <<>> ELSE Short(4, c.value)))

\* The controls behind the operation: the part common to all six generators.
ControlsBytes(controls) ==
    LET all == FlattenSeq([k \in DOMAIN controls |-> ControlBytes(controls[k])])
    IN  IF all = <<>> THEN <<>> ELSE Tagged(160, all)

LDAP_gen_search_request(q) ==
    Tagged(99, CREATE_DN(4, q.dn)
               \o <<10, 1, CASE q.scope = "one" -> 1 [] q.scope = "sub" -> 2 [] OTHER -> 0>>
               \o <<10, 1, q.deref % 256>>
               \o <<2, 1, 0>> \o <<2, 1, 0>> \o <<1, 1, 0>>
               \o process_filter(q.filter, 0)
               \o Tagged(48, LDAP_gen_ber_string(q.attrs)))

LDAP_gen_add_request(q) ==
    Tagged(104, CREATE_DN(4, q.dn) \o Tagged(48, LDAP_gen_ber_attrlist(q.attrs)))

LDAP_gen_modify_request(q) ==
    Tagged(102, CREATE_DN(4, q.dn) \o Tagged(48, LDAP_gen_ber_modlist(q.mods)))

Operation(q) ==
    CASE q.op = "search"   -> LDAP_gen_search_request(q)
      [] q.op = "add"      -> LDAP_gen_add_request(q)
      [] q.op = "modify"   -> LDAP_gen_modify_request(q)
      [] q.op = "moddn"    -> LDAP_gen_moddn_request(q)
      [] q.op = "delete"   -> LDAP_gen_delete_request(q)
      [] q.op = "extended" -> LDAP_gen_extended_request(q)
      [] q.op = "extended_common" -> LDAP_gen_extended_common_request(q)

Request(tid, q) == Envelope(tid, Operation(q), ControlsBytes(q.controls))

-----------------------------------------------------------------------------
(* Responses, written by the server *)

LDAP_gen_search_entry(p) ==
    Tagged(100, Tagged(4, p.dn) \o Tagged(48, LDAP_gen_ber_attrlist(p.attrs)))

Response(mid, p) ==
    Envelope(mid, CASE p.op = "entry" -> LDAP_gen_search_entry(p)
                    [] p.op = "extended" -> LDAP_gen_extended_response(p)
                    [] p.op = "extended_common" -> LDAP_gen_extended_common_response(p)
                    [] OTHER -> _gen_ldap_result(p), <<>>)
=============================================================================
