---------------------------- MODULE LdapDecoder -----------------------------
(***************************************************************************)
(* The readers of ldap_common.c for messages that hold lists:              *)
(* ldap_decode_request on the server and ber_attr_to_obj on the client.    *)
(* An index that runs past the message finds the bytes of the next one,    *)
(* and behind the bytes received nothing that is known.                    *)
(***************************************************************************)
EXTENDS LdapCodec
LOCAL INSTANCE SequencesExt

-----------------------------------------------------------------------------
(* Lists, as the request decoder walks them: each walk returns the items   *)
(* and the position where it stopped.                                      *)

RECURSIVE ValueList(_, _, _, _), AttrList(_, _, _, _), ChangeList(_, _, _, _)

\* Values from position i while bytes are left; bytes that start no value are skipped.
ValueList(d, i, left, done) ==
    IF left <= 0 \/ i > Len(d) THEN [items |-> done, next |-> i]
    ELSE LET f == Field(d, i, 4)
         IN  IF f.found THEN ValueList(d, f.next, left - (f.next - i), Append(done, f.value))
             ELSE ValueList(d, i + 1, left, done)

\* The name and the values of the attribute at position i.
PartialAttribute(d, i) ==
    LET name == Field(d, i, 4)
        set  == Field(d, name.next, 49)
        vals == ValueList(d, set.body, set.next - set.body, <<>>)
    IN  [name |-> name.value, vals |-> vals.items, next |-> vals.next]

\* The attributes of an add request.
AttrList(d, i, left, done) ==
    IF left <= 0 \/ i > Len(d) THEN [items |-> done, next |-> i]
    ELSE LET f    == Field(d, i, 48)
             attr == PartialAttribute(d, f.body)
         IN  IF f.found THEN AttrList(d, attr.next, left - (f.next - i),
                                      Append(done, [name |-> attr.name, vals |-> attr.vals]))
             ELSE AttrList(d, i + 1, left, done)

\* The changes of a modify request: an operation and a partial attribute each.
ChangeList(d, i, left, done) ==
    IF left <= 0 \/ i > Len(d) THEN [items |-> done, next |-> i]
    ELSE LET f    == Field(d, i, 48)
             kind == Field(d, f.body, 10)
             part == Field(d, IF kind.found THEN kind.body + 1 ELSE kind.next, 48)
             attr == IF part.found THEN PartialAttribute(d, part.body)
                     ELSE [name |-> NoValue, vals |-> <<>>, next |-> part.next]
         IN  IF f.found
             THEN ChangeList(d, attr.next, left - (f.next - i),
                             Append(done, [operation |-> IF kind.found THEN d[kind.body] ELSE 0,
                                           name |-> attr.name, vals |-> attr.vals]))
             ELSE ChangeList(d, i + 1, left, done)

(***************************************************************************)
(* The bytes counted for a control whose length field has "size" bytes and *)
(* whose content has "len": 1 + (j - i) + len in the code, where j is the  *)
(* position before and i the one behind the length field.                  *)
(***************************************************************************)
ControlStep(size, len) == 1 - size + len

(***************************************************************************)
(* The controls from position i.  ControlStep counts too few bytes, so the *)
(* loop goes on to the next 0x30 it finds, in whatever follows the         *)
(* message; "unknown" ends the list when that is behind the bytes          *)
(* received.  The criticality is not looked for: a control that has one    *)
(* keeps only its type.                                                    *)
(***************************************************************************)
RECURSIVE ControlList(_, _, _, _)
ControlList(d, i, left, done) ==
    IF left <= 0 THEN done
    ELSE IF i > Len(d) THEN Append(done, "unknown")
    ELSE LET f     == Field(d, i, 48)
             type  == Field(d, f.body, 4)
             value == Field(d, type.next, 4)
             step  == ControlStep(f.body - i - 1, f.next - f.body)
         IN  IF ~f.found THEN ControlList(d, i + 1, left, done)
             ELSE IF type.found
             THEN ControlList(d, value.next, left - step,
                              Append(done, [type |-> type.value, value |-> value.value]))
             ELSE ControlList(d, type.next, left - step,
                              Append(done, [type |-> NoValue, value |-> NoValue]))

ReadControls(d, i) ==
    LET f == Field(d, i, 160)
    IN  IF f.found THEN ControlList(d, f.body, f.next - f.body, <<>>) ELSE <<>>

-----------------------------------------------------------------------------
(* The operations of a request, at the position of their tag *)

\* The attribute names of a search.  The loop stays where it is ("unknown")
\* at a byte that starts no name.
RECURSIVE NameList(_, _, _, _)
NameList(d, i, left, done) ==
    IF left <= 0 THEN [items |-> done, next |-> i]
    ELSE LET f == Field(d, i, 4)
         IN  IF f.found THEN NameList(d, f.next, left - (f.next - i), Append(done, f.value))
             ELSE [items |-> Append(done, "unknown"), next |-> i]

(***************************************************************************)
(* A search request: base, scope, aliases, limits and types only in this   *)
(* order, any of which missing is an error; then the filter, and the       *)
(* attributes asked for.                                                   *)
(***************************************************************************)
DecodeSearch(d, i) ==
    LET base   == Field(d, i, 4)
        scope  == Number(d, base.next, 10)
        deref  == Number(d, scope.next, 10)
        size   == Number(d, deref.next, 2)
        time   == Number(d, size.next, 2)
        types  == Number(d, time.next, 1)
        known  == At(d, types.next) % 32 < 10
        filter == AnyField(d, types.next)
        attrs  == Field(d, IF known THEN filter.next ELSE types.next, 48)
        names  == NameList(d, attrs.body, attrs.next - attrs.body, <<>>)
    IN  IF ~(/\ base.found /\ scope.found /\ deref.found /\ size.found
             /\ time.found /\ types.found /\ attrs.found)
        THEN Malformed
        ELSE [op |-> "search", dn |-> base.value, scope |-> scope.value, deref |-> deref.value,
              filter |-> IF known THEN LDAP_string_to_filter(Slice(d, types.next, Len(d) + 1))
                         ELSE Unreadable,
              attrs |-> names.items, next |-> names.next]

DecodeAdd(d, i) ==
    LET entry == Field(d, i, 4)
        seq   == Field(d, entry.next, 48)
        list  == AttrList(d, seq.body, seq.next - seq.body, <<>>)
    IN  IF ~entry.found THEN Malformed
        ELSE [op |-> "add", dn |-> entry.value, attrs |-> list.items, next |-> list.next]

DecodeModify(d, i) ==
    LET object == Field(d, i, 4)
        seq    == Field(d, object.next, 48)
        list   == ChangeList(d, seq.body, seq.next - seq.body, <<>>)
    IN  IF ~object.found THEN Malformed
        ELSE [op |-> "modify", dn |-> object.value, mods |-> list.items, next |-> list.next]

\* The controls are looked for behind whatever was read of the operation q.
WithControls(d, tid, q) ==
    [tid |-> tid, q |-> q, controls |-> IF q = Malformed THEN <<>> ELSE ReadControls(d, q.next)]

(***************************************************************************)
(* ldap_decode_request on the message at the front of d.  An unknown       *)
(* operation is delivered without contents, and so is a message without an *)
(* identifier.                                                             *)
(***************************************************************************)
ldap_decode_request(d) ==
    LET h == ReadHead(d)
        q == CASE ~h.identified -> [op |-> "unknown", next |-> h.start + 1]
               [] h.identified /\ h.tag = 66  -> [op |-> "unbind", next |-> h.next + 1]
               [] h.identified /\ h.tag = 99  -> DecodeSearch(d, h.body.next)
               [] h.identified /\ h.tag = 102 -> DecodeModify(d, h.body.next)
               [] h.identified /\ h.tag = 104 -> DecodeAdd(d, h.body.next)
               [] h.identified /\ h.tag = 108 -> DecodeModDn(d, h.body.next)
               [] h.identified /\ h.tag = 119 -> DecodeExtended(d, h.body.next)
               [] h.identified /\ h.tag = 74  -> DecodeDelete(d, h.body)
               [] OTHER -> [op |-> "unknown", next |-> h.next + 1]
    IN  WithControls(d, IF h.identified THEN h.tid ELSE 0, q)

-----------------------------------------------------------------------------
(* The objects the client makes of responses *)

(***************************************************************************)
(* ber_attr_to_obj: the contents of rber as objects.  Unlike the server's  *)
(* decoder it takes several names with a set of values from one sequence,  *)
(* and drops a name that no set follows.                                   *)
(***************************************************************************)
RECURSIVE PartList(_, _, _, _), ObjectAttrs(_, _, _, _)
PartList(d, i, left, done) ==
    IF left <= 0 \/ i > Len(d) THEN [items |-> done, next |-> i]
    ELSE LET name == Field(d, i, 4)
             set  == Field(d, name.next, 49)
             vals == ValueList(d, set.body, set.next - set.body, <<>>)
         IN  CASE ~name.found -> PartList(d, i + 1, left, done)
               [] name.found /\ ~set.found ->
                      PartList(d, set.next, left - (name.next - i), done)
               [] name.found /\ set.found ->
                      PartList(d, vals.next, left - (set.next - i),
                               Append(done, [name |-> name.value, vals |-> vals.items]))

ObjectAttrs(d, i, left, done) ==
    IF left <= 0 \/ i > Len(d) THEN [items |-> done, next |-> i]
    ELSE LET f    == Field(d, i, 48)
             part == PartList(d, f.body, f.next - f.body, done)
         IN  IF f.found THEN ObjectAttrs(d, part.next, left - (f.next - i), part.items)
             ELSE ObjectAttrs(d, i + 1, left, done)

\* The values of an entry's objectClass are not kept: its last one becomes the class.
EntryObject(name, attrs) ==
    LET IsClass(a) == a.name = ObjectClass
        classes == SelectSeq(attrs, IsClass)
    IN  [name |-> name,
         object_class |-> IF classes = <<>> THEN <<>> ELSE Last(Last(classes).vals),
         alist |-> SelectSeq(attrs, LAMBDA a : ~IsClass(a))]

\* The class name "extended".
Extended == <<101, 120, 116, 101, 110, 100, 101, 100>>

(***************************************************************************)
(* An extended response, whose fields start at position i, as an object of *)
(* the class "extended" with the response name as its name.  "counted" is  *)
(* what the fields take off the length once more, though the whole         *)
(* response was already subtracted.                                        *)
(***************************************************************************)
ExtendedObject(d, i) ==
    LET code  == Field(d, i, 10)
        dn    == Field(d, code.next, 4)
        error == Field(d, dn.next, 4)
        oid   == Field(d, error.next, 138)
        value == Field(d, oid.next, 139)
        seq   == Field(d, value.body, 48)
        attrs == ObjectAttrs(d, seq.body, seq.next - seq.body, <<>>)
        obj   == [name |-> oid.value, object_class |-> Extended, alist |-> attrs.items]
    IN  IF value.found /\ seq.found
        THEN [obj |-> obj, next |-> attrs.next, counted |-> seq.body - i]
        ELSE [obj |-> [obj EXCEPT !.alist = <<>>],
              next |-> IF value.found THEN seq.next ELSE value.next,
              counted |-> (IF value.found THEN value.body ELSE oid.next) - i]

RECURSIVE ber_attr_to_obj(_, _, _, _)
ber_attr_to_obj(d, i, left, done) ==
    IF left <= 0 \/ i > Len(d) THEN done
    ELSE LET entry == Field(d, i, 100)
             ext   == Field(d, i, 120)
             name  == Field(d, entry.body, 4)
             seq   == Field(d, name.next, 48)
             attrs == ObjectAttrs(d, seq.body, seq.next - seq.body, <<>>)
             extended == ExtendedObject(d, ext.body)
         IN  CASE entry.found ->
                      ber_attr_to_obj(d, attrs.next, left - (entry.next - i),
                          IF name.found /\ seq.found
                          THEN Append(done, EntryObject(name.value, attrs.items)) ELSE done)
               [] ext.found ->
                      ber_attr_to_obj(d, extended.next, left - (ext.next - i) - extended.counted,
                                      Append(done, extended.obj))
               [] OTHER -> ber_attr_to_obj(d, i + 1, left, done)
=============================================================================
