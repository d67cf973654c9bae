---------------------------- MODULE MessageFormat ----------------------------
(***************************************************************************)
(* MessageFormat (src/MessageFormat.cpp): a message to and from a mixed    *)
(* list of field values or, with use_field_names, a dictionary.            *)
(*                                                                         *)
(* Schema maps each message type to its field descriptors, in the order    *)
(* they are declared: records [name, num, label, oneof, msg] with the      *)
(* element description of KdbTypes; a map also has key and value.          *)
(***************************************************************************)
EXTENDS MapValues

CONSTANTS
    Schema,
    GetSub(_, _, _),    \* (type, message, use_field_names): GetMessage and
    SetSub(_, _, _, _)  \* SetMessage where they call themselves, see MessageTrees

Fields(ty) == Schema[ty]
FieldNames(ty) == Map(Fields(ty), LAMBDA f : f.name)

(* Members of the oneof that f belongs to. *)
OneofOf(ty, f) ==
    {g.name : g \in {h \in ToSet(Fields(ty)) : h.oneof = f.oneof /\ f.oneof # ""}}

Default(f) ==
    CASE f.label = "repeated" -> <<>>
      [] f.label = "map" -> [x \in {} |-> Unset]
      [] f.label = "singular" ->
            IF f.oneof # "" \/ f.cpp = "message" THEN Unset
            ELSE IF f.cpp = "string" THEN "" ELSE 0
NewMessage(ty) ==
    [n \in ToSet(FieldNames(ty)) |->
        Default(CHOOSE f \in ToSet(Fields(ty)) : f.name = n)]

(* Setting a member of a oneof clears the other members. *)
SetField(ty, m, f, v) ==
    [n \in DOMAIN m |-> IF n = f.name THEN v
                        ELSE IF n \in OneofOf(ty, f) THEN Unset ELSE m[n]]

----------------------------------------------------------------------------
GetRepeatedMessage(f, values, names) ==
    LET subs == [i \in DOMAIN values |-> GetSub(f.msg, values[i], names)] IN
    IF AnyException(subs) THEN FirstException(subs)
    ELSE IF names THEN Collapse(subs) ELSE Mixed(subs)

GetMessageField(f, v, names) ==
    IF f.oneof # "" /\ v = Unset THEN Mixed(<<>>)
    ELSE CASE f.label = "map" -> GetMap(f, v, names,
                [x \in DOMAIN v |-> GetSub(f.value.msg, v[x], names)])
           [] f.label = "repeated" ->
                IF f.cpp = "message" THEN GetRepeatedMessage(f, v, names)
                                     ELSE GetRepeated(f, v)
           [] f.label = "singular" ->
                IF f.cpp # "message" THEN GetScalar(f, v)
                ELSE IF v = Unset THEN GenericNull
                ELSE GetSub(f.msg, v, names)

GetMessage(ty, m, names) ==
    LET fields == Fields(ty)
        values == [i \in DOMAIN fields |->
                      GetMessageField(fields[i], m[fields[i].name], names)] IN
    IF AnyException(values) THEN FirstException(values)
    ELSE IF names THEN Dict(SymbolList(FieldNames(ty)), Mixed(values))
    ELSE Mixed(values)

----------------------------------------------------------------------------
(* A sub-message that is added, and populated. *)
SetAdded(ty, k, names) == SetSub(ty, NewMessage(ty), k, names)

(* Sub-messages are appended in order; :: adds none, and with field names a
   flip table is taken row by row, as q slices it. *)
SetRepeatedMessage(f, old, k, names) ==
    LET flip == names /\ k.t = 98
        rows == IF flip THEN [i \in DOMAIN k.rows |-> Slice(k, i)] ELSE k.items IN
    IF k.t # 0 /\ ~flip THEN Throw("TypeCheckRepeatedMessage")
    ELSE AppendAll(old, [i \in DOMAIN rows |->
            IF rows[i].t = 101 THEN Value(<<>>) ELSE Single(SetAdded(f.msg, rows[i], names))])

(* The value f gets from k: repeated fields and maps add to what is there,
   a sub-message that is there is merged into. *)
FieldValue(f, old, k, names) ==
    CASE f.label = "map" -> SetMap(f, old, k, names,
                [i \in DOMAIN MapItems(k.vals) |->
                    SetAdded(f.value.msg, MapItems(k.vals)[i], names)])
      [] f.label = "repeated" ->
            IF f.cpp = "message" THEN SetRepeatedMessage(f, old, k, names)
                                 ELSE SetRepeated(f, old, k)
      [] f.label = "singular" ->
            IF f.cpp # "message" THEN SetScalar(f, k)
            ELSE SetSub(f.msg, IF old = Unset THEN NewMessage(f.msg) ELSE old, k, names)

Assign(ty, m, f, new) ==
    IF Throws(new) THEN new ELSE Value(SetField(ty, m, f, new.value))

(* Mutant: an empty mixed list is taken for a value. *)
SetMessageFieldAlways(ty, m, f, k, names) ==
    Assign(ty, m, f, FieldValue(f, m[f.name], k, names))

(* Mutant: a oneof of which a member is set is left alone. *)
SetMessageFieldOnce(ty, m, f, k, names) ==
    IF \/ f.oneof # "" /\ k = Mixed(<<>>)
       \/ \E n \in OneofOf(ty, f) : m[n] # Unset
    THEN Value(m)
    ELSE Assign(ty, m, f, FieldValue(f, m[f.name], k, names))

(* An empty mixed list stands for a oneof member that is not the active one
   and leaves the message alone. *)
SetMessageField(ty, m, f, k, names) ==
    IF f.oneof # "" /\ k = Mixed(<<>>) THEN Value(m)
    ELSE Assign(ty, m, f, FieldValue(f, m[f.name], k, names))

(* The next item, unless one before it threw; :: is ignored. *)
SetItem(ty, before, found, item, names) ==
    IF Throws(before) \/ item.t = 101 THEN before
    ELSE IF found = {} THEN Throw("TypeCheckUnknownField")
    ELSE SetMessageField(ty, before.value, CHOOSE f \in found : TRUE, item, names)

(* The loop over the items of a message: found has the field an item is for,
   if there is one. *)
SetItems(ty, m, given, names) ==
    LET set[n \in 0 .. Len(given)] ==
            IF n = 0 THEN Value(m)
            ELSE SetItem(ty, set[n - 1], given[n].found, given[n].item, names) IN
    set[Len(given)]

SetMessageByIndicies(ty, m, k, names) ==
    LET fields == Fields(ty) IN
    IF k.t = 101 THEN Value(m)
    ELSE IF Len(fields) = 1 /\ k.t # 0
    THEN SetMessageField(ty, m, fields[1], k, names)
    ELSE IF k.t # 0 THEN Throw("TypeCheckMessage")
    ELSE IF Len(fields) > Len(k.items) THEN Throw("TypeCheckFieldNum")
    ELSE SetItems(ty, m, [i \in DOMAIN fields |->
                             [found |-> {fields[i]}, item |-> k.items[i]]], names)

SetMessageByFieldNames(ty, m, k, names) ==
    LET FindFieldByName(n) == {f \in ToSet(Fields(ty)) : f.name = n} IN
    IF k.t = 101 THEN Value(m)
    ELSE IF k.t # 99 THEN Throw("TypeCheckMessage")
    ELSE IF k.keys.t # KS THEN Throw("TypeCheckFieldNames")
    ELSE IF k.vals.t # 0 THEN Throw("TypeCheckFieldValues")
    ELSE SetItems(ty, m, [i \in DOMAIN k.keys.syms |->
                             [found |-> FindFieldByName(k.keys.syms[i]),
                              item |-> k.vals.items[i]]], names)

SetMessage(ty, m, k, names) ==
    IF names THEN SetMessageByFieldNames(ty, m, k, names)
             ELSE SetMessageByIndicies(ty, m, k, names)

(* SetMessage on a message just created. *)
SetNew(ty, k, names) == SetMessage(ty, NewMessage(ty), k, names)
=============================================================================
