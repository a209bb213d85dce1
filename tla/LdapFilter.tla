----------------------------- MODULE LdapFilter -----------------------------
(***************************************************************************)
(* Search filters: process_filter and create_ber_filter, with which the    *)
(* client writes a filter expression as BER, and LDAP_string_to_filter,    *)
(* with which the server reads it back.  An expression is its structure:   *)
(*                                                                         *)
(*   [op |-> "and" | "or" | "not", args |-> <<f1, ...>>]                   *)
(*   [op |-> "eq" | "le" | "ge" | "approx", attr |-> a, val |-> v]         *)
(*   [op |-> "present", attr |-> a]             a=*                        *)
(*   [op |-> "class", val |-> v]                v, meaning objectClass=v   *)
(*   [op |-> "sub", attr |-> a, parts |-> <<p0, ..., pn>>]   a=p0*...*pn   *)
(*                                                                         *)
(* where names and values are sequences of bytes.  Expressions are shorter *)
(* than 128 bytes, the size of the buffers they are copied to.             *)
(***************************************************************************)
EXTENDS Ber, FiniteSets
LOCAL INSTANCE SequencesExt

\* "objectClass"
ObjectClass == <<111, 98, 106, 101, 99, 116, 67, 108, 97, 115, 115>>

\* The tag of each kind of filter, by its position in the choice.
CompoundTag == [and |-> 160, or |-> 161, not |-> 162]
ComparisonTag == [eq |-> 163, ge |-> 165, le |-> 166, approx |-> 168]

\* check_operation and the equality branch of create_ber_filter: the length
\* is computed from the length of the expression, name, operator and value.
Comparison(tag, attr, val) ==
    <<tag>> \o InsertLength(Len(attr) + Len(val) + 4) \o Short(4, attr) \o Short(4, val)

\* The part before the only '*' is the initial one, the part behind it the final.
OneStar(attr, initial, final) ==
    LET subs == (IF initial = <<>> THEN <<>> ELSE Short(128, initial))
                \o (IF final = <<>> THEN <<>> ELSE Short(130, final))
    IN  <<164>> \o InsertLength(Len(attr) + Len(subs) + 4) \o Short(4, attr) \o Short(48, subs)

(***************************************************************************)
(* any_substring: the parts between several '*', empty ones skipped.  The  *)
(* part whose number is the number of '*' is written as the final part and *)
(* all others as "any".  The length of the whole is then written over the  *)
(* estimate: it is taken from the position in the buffer, so it is only    *)
(* right for a filter that starts at the beginning of the buffer (at = 0). *)
(***************************************************************************)
ManyStars(attr, parts, at) ==
    LET stars  == Len(parts) - 1
        pieces == SelectSeq(parts, LAMBDA p : p # <<>>)
        subs   == FlattenSeq([k \in DOMAIN pieces |->
                      Short(IF k = stars THEN 130 ELSE 129, pieces[k])])
        body   == Short(4, attr) \o Short(48, subs)
        length == IF pieces = <<>> THEN Len(attr) + 1 + stars + stars * 2 + 1
                  ELSE at + 2 + Len(body) - 2
    IN  <<164, length % 256>> \o body

EqualSign == 61

\* create_ber_filter for a simple expression that starts at offset "at" of its
\* buffer.  An '=' at the very end is not seen: "a=" is taken for a class name.
create_ber_filter(f, at) ==
    CASE f.op = "eq" /\ f.val = <<>> -> Comparison(163, ObjectClass, f.attr \o <<EqualSign>>)
      [] f.op \in DOMAIN ComparisonTag /\ ~(f.op = "eq" /\ f.val = <<>>) ->
             Comparison(ComparisonTag[f.op], f.attr, f.val)
      [] f.op = "class" -> Comparison(163, ObjectClass, f.val)
      [] f.op = "present" -> Short(135, f.attr)
      [] f.op = "sub" -> IF Len(f.parts) = 2 THEN OneStar(f.attr, f.parts[1], f.parts[2])
                         ELSE ManyStars(f.attr, f.parts, at)

RECURSIVE process_filter(_, _), AllArgs(_, _)

\* The arguments of a compound filter, one behind the other in b_buff.
AllArgs(args, done) ==
    IF args = <<>> THEN done
    ELSE AllArgs(Tail(args), done \o process_filter(Head(args), Len(done)))

process_filter(f, at) ==
    IF f.op \in DOMAIN CompoundTag THEN Tagged(CompoundTag[f.op], AllArgs(f.args, <<>>))
    ELSE create_ber_filter(f, at)

-----------------------------------------------------------------------------
(***************************************************************************)
(* The reader.  It copies each argument of a compound filter to a buffer   *)
(* of its own; an index that leaves the received bytes, or a substring tag *)
(* that is none of the three known ones, is the outcome Unreadable: the    *)
(* loop then reads what happens to be in memory, or does not end.          *)
(***************************************************************************)
Unreadable == [op |-> "unreadable"]

Ops == <<"and", "or", "not", "eq", "sub", "ge", "le", "present", "approx", "extensible">>

\* A field whose tag is not looked at.
AnyField(d, i) == Field(d, i, At(d, i))

\* The parts of a substring filter from position i while i <= last.
RECURSIVE Substrings(_, _, _)
Substrings(d, i, last) ==
    IF i > last THEN <<>>
    ELSE IF At(d, i) \notin 128 .. 130 THEN <<Unreadable>>
    ELSE LET f == AnyField(d, i)
         IN  <<[part |-> d[i] - 128, value |-> f.value]>> \o Substrings(d, f.next, last)

\* Both loops of the reader run while the 0-based index is at most the length,
\* though the content ends a header later.
LastStart(length) == length + 1

RECURSIVE LDAP_string_to_filter(_), FilterList(_, _, _)

\* The arguments of a compound filter from position i while i <= last.
FilterList(d, i, last) ==
    IF i > last THEN <<>>
    ELSE IF At(d, i + 1) = -1 THEN <<Unreadable>>
    ELSE LET next == AnyField(d, i).next
         IN  <<LDAP_string_to_filter(Slice(d, i, next))>> \o FilterList(d, next, last)

LDAP_string_to_filter(d) ==
    LET op   == Ops[(d[1] % 32) + 1]
        l    == FindLength(d, 2)
        attr == AnyField(d, l.next)
    IN  CASE op \in {"and", "or"} ->
                 [op |-> op, args |-> FilterList(d, l.next, LastStart(l.len))]
          [] op = "not" -> 
                 [op |-> op, args |-> <<LDAP_string_to_filter(Slice(d, l.next, l.next + l.len))>>]
          [] op \in {"eq", "ge", "le", "approx"} ->
                 [op |-> op, attr |-> attr.value, val |-> AnyField(d, attr.next).value]
          [] op = "present" -> [op |-> op, attr |-> Slice(d, l.next, l.next + l.len)]
          [] op = "sub" ->
                 [op |-> op, attr |-> attr.value,
                  parts |-> Substrings(d, Field(d, attr.next, 48).body, LastStart(l.len))]
          [] OTHER -> Unreadable

-----------------------------------------------------------------------------
(***************************************************************************)
(* What a filter means: the structure the server should see.  A substring  *)
(* filter has an initial part if it does not begin with '*', a final part  *)
(* if it does not end with '*', and "any" parts in between.                *)
(***************************************************************************)
RECURSIVE Meaning(_)
Meaning(f) ==
    CASE f.op \in DOMAIN CompoundTag ->
             [op |-> f.op, args |-> [k \in DOMAIN f.args |-> Meaning(f.args[k])]]
      [] f.op = "class" -> [op |-> "eq", attr |-> ObjectClass, val |-> f.val]
      [] f.op = "sub" ->
             LET Part(k) == IF k = 1 THEN 0 ELSE IF k = Len(f.parts) THEN 2 ELSE 1
                 all == [k \in DOMAIN f.parts |-> [part |-> Part(k), value |-> f.parts[k]]]
             IN  [op |-> "sub", attr |-> f.attr,
                  parts |-> SelectSeq(all, LAMBDA p : p.value # <<>>)]
      [] OTHER -> f
=============================================================================
