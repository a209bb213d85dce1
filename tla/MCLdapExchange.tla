--------------------------- MODULE MCLdapExchange ---------------------------
(***************************************************************************)
(* Workloads for LdapExchange: every generator, every kind of filter, and  *)
(* fields whose lengths lie on both sides of 127/128 and 255/256, where    *)
(* the length fields change their form.  Each request is followed by a     *)
(* second one, so that whatever a decoder reads or leaves behind shows.    *)
(***************************************************************************)
EXTENDS LdapExchange

\* Text of n bytes, some of which are '0' (0x30), the tag of a sequence.
Text(n) == [k \in 1 .. n |-> IF k % 3 = 0 THEN 48 ELSE 97 + (k % 26)]

Eq(a, v) == [op |-> "eq", attr |-> Text(a), val |-> Text(v)]
Sub(parts) == [op |-> "sub", attr |-> Text(2), parts |-> parts]
And(args) == [op |-> "and", args |-> args]
Or(args)  == [op |-> "or", args |-> args]
Not(f)    == [op |-> "not", args |-> <<f>>]

Search(f, dn, scope, attrs) ==
    [op |-> "search", dn |-> dn, scope |-> scope, deref |-> 3, filter |-> f, attrs |-> attrs,
     controls |-> <<>>]

Attr(n, vals) == [name |-> Text(n), vals |-> vals]
Mod(op, n, vals) == [operation |-> op, name |-> Text(n), vals |-> vals]

Add(dn, attrs) == [op |-> "add", dn |-> dn, attrs |-> attrs, controls |-> <<>>]
Modify(dn, mods) == [op |-> "modify", dn |-> dn, mods |-> mods, controls |-> <<>>]
Delete(dn, controls) == [op |-> "delete", dn |-> dn, controls |-> controls]
ModDn(dn, rdn, flag, sup) == [op |-> "moddn", dn |-> dn, rdn |-> rdn, delete_flag |-> flag,
                              sup |-> sup, controls |-> <<>>]
Ext(op, oid, value) == [op |-> op, oid |-> oid, value |-> value, controls |-> <<>>]
Ctrl(type, value) == [type |-> type, criticality |-> -1, value |-> value]

Filters == {
    Eq(2, 3), [op |-> "le", attr |-> Text(2), val |-> Text(1)],
    [op |-> "ge", attr |-> Text(1), val |-> Text(2)],
    [op |-> "approx", attr |-> Text(2), val |-> Text(2)],
    [op |-> "present", attr |-> Text(2)], [op |-> "class", val |-> Text(4)],
    Sub(<<Text(2), <<>>>>), Sub(<<<<>>, Text(2)>>), Sub(<<Text(1), Text(2)>>),
    Sub(<<<<>>, Text(2), <<>>>>), Sub(<<<<>>, Text(2), Text(1)>>), Sub(<<<<>>, Text(1), Text(2), <<>>>>),
    And(<<Eq(1, 1), Not(Eq(2, 1)), Or(<<Eq(1, 2), [op |-> "present", attr |-> Text(1)]>>)>>),
    And(<<Eq(60, 60), Sub(<<Text(2), Text(2)>>)>>), Eq(61, 62), Eq(62, 62) }

Lengths128 == {124, 125, 126, 127, 128, 250, 255, 256}

Requests ==
    {Search(f, Text(1), "sub", <<>>) : f \in Filters}
    \cup {Search(Eq(1, 1), Text(n), "one", <<Text(3), Text(1)>>) : n \in {0, 127, 128, 255}}
    \cup {Add(Text(3), <<Attr(2, <<Text(n)>>), Attr(1, <<Text(1), <<>>>>)>>) : n \in Lengths128}
    \cup {Add(<<>>, <<Attr(130, <<Text(n), Text(1)>>), Attr(1, <<Text(130)>>)>>) : n \in {1, 120, 130}}
    \cup {Modify(Text(3), <<Mod(2, 2, <<Text(n)>>), Mod(1, 1, <<>>)>>) : n \in Lengths128}
    \cup {ModDn(Text(3), Text(n), n % 2, <<>>) : n \in {1, 128}}
    \cup {Delete(Text(n), <<>>) : n \in {0, 1, 127, 128, 255}}
    \cup {Delete(Text(1), <<Ctrl(Text(2), Text(1)), Ctrl(Text(1), <<>>)>>)}
    \cup {Ext(op, Text(2), Text(n)) : op \in {"extended", "extended_common"}, n \in {1, 125, 126, 127, 256}}

Done(op, code, m, text) == [op |-> op, code |-> code, matched |-> m, message |-> text]
Entry(n) == [op |-> "entry", dn |-> Text(2),
             attrs |-> <<Attr(1, <<Text(n), Text(2)>>), [name |-> ObjectClass, vals |-> <<Text(1), Text(2)>>]>>]
ExtDone(op, n) == [op |-> op, code |-> 0, matched |-> <<>>, message |-> <<>>, oid |-> Text(1),
                   value |-> Text(n)]

\* The answers to a request; the code and the lengths vary with the request.
AnswersTo(q) ==
    CASE q.op = "search" ->
             LET n == 120 + (Len(q.dn) % 16)
             IN  <<Entry(1), Entry(n), Done("search_done", 0, <<>>, <<>>)>>
      [] q.op \in {"extended", "extended_common"} ->
             <<ExtDone(q.op, Len(q.value))>>
      [] q.op = "delete" -> <<Done("delete", 32, q.dn, Text(4))>>
      [] q.op = "add" -> <<Done("add", 127, q.dn, <<>>)>>
      [] OTHER -> <<Done(q.op, 0, <<>>, Text(130))>>

Job(q) == [q |-> q, answers |-> AnswersTo(q)]

Plain == Delete(Text(2), <<>>)

\* Identifiers on both sides of the changes in their number of octets, and
\* the last ones before they start again at 1.
Tids == {126, 127, 254, 255, 32766, 65534, 8388606, 16777214, 2147483644}

MCWorkloads ==
    {[tid |-> 0, jobs |-> <<Job(q), Job(Plain)>>] : q \in Requests}
    \cup {[tid |-> t, jobs |-> <<Job(Plain), Job(Search(Eq(1, 1), Text(1), "base", <<>>)), Job(Plain)>>] : t \in Tids}

\* A substring filter with two '*' that is not the first argument of its filter.
NestedStars == {[tid |-> 0, jobs |-> <<Job(Search(f, Text(1), "sub", <<>>)), Job(Plain)>>] :
                    f \in {And(<<Eq(1, 1), Sub(<<<<>>, Text(2), <<>>>>)>>)}}
=============================================================================
