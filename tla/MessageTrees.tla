---------------------------- MODULE MessageTrees ----------------------------
(***************************************************************************)
(* Messages as trees of sub-messages, and the recursion of MessageFormat.  *)
(*                                                                         *)
(* GetMessage and SetMessage call themselves for sub-messages.  Messages   *)
(* is any collection of messages that is closed under what the code does   *)
(* with them, Nested gives the messages at any depth of one: a message     *)
(* does not contain itself, which is what ends the recursion.              *)
(***************************************************************************)
EXTENDS MessageFormat

CONSTANTS
    Messages(_),    \* messages of a type
    Nested(_, _),   \* (type, message) -> pairs of type and message
    Groups(_),      \* lists of messages of a type that q makes tables of
    TablesOf(_, _)  \* (type, list) -> that table and those nested in it,
                    \* pairs of type and list

Types == DOMAIN Schema

(* What a schema and its fields are like.  q makes no table without columns:
   lists of messages without fields are left out. *)
Element(f) == IF f.label = "map" THEN f.value ELSE f
Describes(e) == IsElement(e) /\ (e.cpp = "message" => e.msg \in Types)
IsField(f) ==
    /\ f.label \in {"singular", "repeated", "map"} /\ Describes(Element(f))
    /\ f.label = "map" => IsElement(f.key) /\ f.key.cpp # "message"
    /\ f.oneof # "" => f.label = "singular"
    /\ f.label # "singular" /\ Element(f).cpp = "message" => Fields(Element(f).msg) # <<>>
ASSUME SchemaAssumption ==
    \A ty \in Types :
        /\ Fields(ty) \in Seq(ToSet(Fields(ty)))
        /\ \A f \in ToSet(Fields(ty)) : IsField(f)
        /\ \A i, j \in DOMAIN Fields(ty) : Fields(ty)[i].name = Fields(ty)[j].name => i = j

(* The values of the elements of a field: list items, map values. *)
Values(f, v) ==
    CASE f.label = "repeated" -> ToSet(v)
      [] f.label = "map" -> {v[x] : x \in DOMAIN v}
      [] f.label = "singular" -> {v} \ {Unset}
Subs(f, v) == IF Element(f).cpp = "message" THEN Values(f, v) ELSE {}

(* A message has a value for each field, and at most one for each oneof. *)
ElementValues(e) == IF e.cpp = "message" THEN Messages(e.msg) ELSE Scalars(e)
IsValue(f, v) ==
    CASE f.label = "repeated" -> v \in Seq(ElementValues(f))
      [] f.label = "map" -> /\ v \in [DOMAIN v -> ElementValues(f.value)]
                            /\ DOMAIN v \subseteq Scalars(f.key) /\ IsFiniteSet(DOMAIN v)
      [] f.label = "singular" -> \/ v \in ElementValues(f)
                                 \/ v = Unset /\ (f.oneof # "" \/ f.cpp = "message")
IsMessage(ty, m) ==
    /\ m = [n \in ToSet(FieldNames(ty)) |-> m[n]]
    /\ \A f \in ToSet(Fields(ty)) : IsValue(f, m[f.name])
    /\ \A f, g \in ToSet(Fields(ty)) :
          f.oneof # "" /\ f.oneof = g.oneof /\ Unset \notin {m[f.name], m[g.name]} => f = g
ASSUME MessagesAssumption ==
    /\ Unset \notin STRING /\ Unset \notin Int
    /\ \A ty \in Types : Unset \notin Messages(ty) /\ \A m \in Messages(ty) : IsMessage(ty, m)

Parts(ty, m) ==
    UNION {{<<Element(f).msg, s>> : s \in Subs(f, m[f.name])} : f \in ToSet(Fields(ty))}
ASSUME NestedAssumption ==
    \A ty \in Types : \A m \in Messages(ty) :
        /\ IsFiniteSet(Nested(ty, m))
        /\ Nested(ty, m) = {<<ty, m>>} \cup UNION {Nested(x[1], x[2]) : x \in Parts(ty, m)}
        /\ \A x \in Parts(ty, m) : <<ty, m>> \notin Nested(x[1], x[2])

(* Sub-messages are converted as messages are. *)
ASSUME RecursionAssumption ==
    \A ty \in Types, names \in BOOLEAN : \A m \in Messages(ty) :
        LET k == GetMessage(ty, m, names) IN
        /\ GetSub(ty, m, names) = k
        /\ ~IsException(k) => SetAdded(ty, k, names) = SetNew(ty, k, names)
        /\ ~IsException(k) /\ ~Throws(SetNew(ty, k, names)) =>
              SetNew(ty, k, names).value \in Messages(ty)
----------------------------------------------------------------------------
(* With field names, q makes a table of the messages in a list or map, and a
   table in that table of a column of sub-messages, if none is missing. *)
InOrder(f, v) ==
    IF f.label = "map" THEN Map(SetToSeq(DOMAIN v), LAMBDA x : v[x]) ELSE v
IsListOfMessages(f) == f.label # "singular" /\ Element(f).cpp = "message"
Listed(ty, m) ==
    {<<Element(f).msg, InOrder(f, m[f.name])>> :
        f \in {g \in ToSet(Fields(ty)) : IsListOfMessages(g) /\ Values(g, m[g.name]) # {}}}
ColumnOf(f, s) == [i \in DOMAIN s |-> s[i][f.name]]
NestedTable(f, s) ==
    /\ f.label = "singular" /\ f.cpp = "message" /\ Fields(f.msg) # <<>>
    /\ \A i \in DOMAIN s : s[i][f.name] # Unset
Columns(ty, s) ==
    {<<f.msg, ColumnOf(f, s)>> : f \in {g \in ToSet(Fields(ty)) : NestedTable(g, s)}}
ASSUME GroupsAssumption ==
    \A ty \in Types :
        /\ \A m \in Messages(ty) : \A c \in Listed(ty, m) : c[2] \in Groups(c[1])
        /\ \A s \in Groups(ty) :
              /\ s \in Seq(Messages(ty)) /\ s # <<>> /\ Fields(ty) # <<>>
              /\ \A c \in Columns(ty, s) : c[2] \in Groups(c[1])
              /\ TablesOf(ty, s) =
                    {<<ty, s>>} \cup UNION {TablesOf(c[1], c[2]) : c \in Columns(ty, s)}

(* The rows that q slices from these tables are converted as the messages
   they are made of.  What q makes of a column of maps from strings to
   messages that all have the same keys is not modelled. *)
Row(ty, s, i) == Slice(Collapse([j \in DOMAIN s |-> GetSub(ty, s[j], TRUE)]), i)
ASSUME RowsAssumption ==
    \A ty \in Types : \A s \in Groups(ty) : \A i \in DOMAIN s :
        (\A j \in DOMAIN s : ~IsException(GetSub(ty, s[j], TRUE))) =>
            /\ SetAdded(ty, Row(ty, s, i), TRUE) = SetNew(ty, Row(ty, s, i), TRUE)
            /\ \A f \in ToSet(Fields(ty)) :
                  LET column == Map(ColumnOf(f, s), LAMBDA v : GetMessageField(f, v, TRUE)) IN
                  IsTable(column) =>
                      /\ SliceSub(column, i) = Slice(Collapse(column), i)
                      /\ f.label = "map" => f.value.cpp # "message"
----------------------------------------------------------------------------
(* A row whose values q takes for a simple list, or for a table, is rejected:
   a row of the table, or of one nested in it. *)
Flat(ty, m) == Collapse(GetMessage(ty, m, TRUE).vals.items).t # 0
FlatIn(ty, s, i) == \E c \in TablesOf(ty, s) : Flat(c[1], c[2][i])
FlatTable(f, v) ==
    LET s == InOrder(f, v) IN
    IsListOfMessages(f) /\ \E i \in DOMAIN s : FlatIn(Element(f).msg, s, i)
FlatRow(ty, m) == \E f \in ToSet(Fields(ty)) : FlatTable(f, m[f.name])
FlatRows(ty, m) == \E x \in Nested(ty, m) : FlatRow(x[1], x[2])

(* A oneof member that is set, but reads as one that is not. *)
LooksUnset(f, v, names) ==
    f.oneof # "" /\ v # Unset /\ GetMessageField(f, v, names) = Mixed(<<>>)

(* A message that comes back as it is, field by field and at any depth. *)
KeyBack(f, x) == Back(f.key, MapKeySetting(f.key), x)
KeepsKeys(ty, m) ==
    \A f \in ToSet(Fields(ty)) : f.label = "map" => \A x \in DOMAIN m[f.name] : KeyBack(f, x) = x
ValueBack(e, v) == Back(e, StringSetting(e), v)
KeepsValues(ty, m, names) ==
    \A f \in ToSet(Fields(ty)) : \A v \in Values(f, m[f.name]) :
        ~LooksUnset(f, v, names) /\ (Element(f).cpp # "message" => ValueBack(Element(f), v) = v)
KeysKept(ty, m) == \A x \in Nested(ty, m) : KeepsKeys(x[1], x[2])
Exact(ty, m, names) ==
    KeysKept(ty, m) /\ \A x \in Nested(ty, m) : KeepsValues(x[1], x[2], names)

(* Keys that become the same symbol or GUID become one key, and any of their
   values its value. *)
ElementRestored(e, new, old, names) ==
    IF e.cpp = "message" THEN Exact(e.msg, old, names) => new = old ELSE new = ValueBack(e, old)
Restored(f, new, old, names) ==
    CASE f.label = "map" ->
            /\ DOMAIN new = {KeyBack(f, x) : x \in DOMAIN old}
            /\ \A y \in DOMAIN new : \E x \in DOMAIN old :
                  KeyBack(f, x) = y /\ ElementRestored(f.value, new[y], old[x], names)
      [] f.label = "repeated" ->
            /\ Len(new) = Len(old)
            /\ \A i \in DOMAIN old : ElementRestored(f, new[i], old[i], names)
      [] f.label = "singular" ->
            IF old = Unset \/ LooksUnset(f, old, names) THEN new = Unset
            ELSE new # Unset /\ ElementRestored(f, new, old, names)
=============================================================================
