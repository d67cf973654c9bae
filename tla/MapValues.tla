------------------------------ MODULE MapValues ------------------------------
(***************************************************************************)
(* MapValues (src/MapValues.cpp): a map field to and from a dictionary.    *)
(* MessageFormat and MapValues call each other: what becomes of the        *)
(* sub-messages comes as an argument, subs.                                *)
(***************************************************************************)
EXTENDS ScalarValues

(* The elements of a key list or value list of type t that are not messages.
   As in a repeated field, GUIDs are told from strings by the type of the list. *)
GetElements(e, t, setting, values) == GetList(e, t, setting, values)

(* The value list.  With field names, a list of sub-message dictionaries
   becomes a flip table. *)
GetMapValues(f, values, names, subs) ==
    IF f.value.cpp # "message"
    THEN GetElements(f.value, GetMapValueKdbType(f.value), StringSetting(f.value), values)
    ELSE IF AnyException(subs) THEN FirstException(subs)
    ELSE IF names THEN Collapse(subs) ELSE Mixed(subs)

(* subs has, for each key, the kdb+ object of its sub-message. *)
GetMap(f, map, names, subs) ==
    LET order == SetToSeq(DOMAIN map)
        keyType == GetMapKeyKdbType(f.key)
        keys == GetElements(f.key, keyType, MapKeySetting(f.key), order)
        values == GetMapValues(f, Map(order, LAMBDA x : map[x]), names,
                               Map(order, LAMBDA x : subs[x])) IN
    IF Thrown \in {keyType, GetMapValueKdbType(f.value)}
    THEN Exception("TypeCheckCompatible")
    ELSE IF IsException(keys) THEN keys
    ELSE IF IsException(values) THEN values
    ELSE Dict(keys, values)

(* An item of the value list, or the new sub-message populated from it. *)
MapValueItem(f, item, sub) ==
    IF f.value.cpp = "message" THEN sub
    ELSE ListItem(f.value, item, "TypeCheckMapStringElement")

(* An entry whose value is :: is ignored. *)
MapEntry(key, value, v) ==
    IF v.t = 101 THEN Value(<<>>)
    ELSE IF Throws(key) THEN key
    ELSE IF Throws(value) THEN value
    ELSE Value(<<<<key.value, value.value>>>>)

(* Entries are added in order; the last one with a key is the one the map
   holds. *)
AddEntries(map, r) ==
    LET entries == r.value
        Given(x) == {i \in DOMAIN entries : entries[i][1] = x}
        keys == {entries[i][1] : i \in DOMAIN entries} IN
    IF Throws(r) THEN r
    ELSE Value([x \in DOMAIN map \cup keys |->
        IF x \in keys THEN entries[CHOOSE i \in Given(x) : \A j \in Given(x) : j <= i][2]
        ELSE map[x]])

(* A flip table is taken row by row, as q slices it. *)
MapItems(vals) ==
    IF vals.t = 98 THEN [i \in DOMAIN vals.rows |-> Slice(vals, i)] ELSE Items(vals)

(* subs has, for each item, the sub-message populated from it. *)
SetMap(f, old, k, names, subs) ==
    LET keyType == GetMapKeyKdbType(f.key)
        valueType == GetMapValueKdbType(f.value)
        flip == names /\ f.value.cpp = "message" /\ k.vals.t = 98
        keys == Items(k.keys)
        values == MapItems(k.vals)
        Entry(i) == MapEntry(ListItem(f.key, keys[i], "TypeCheckMapStringElement"),
                             MapValueItem(f, values[i], subs[i]), values[i]) IN
    IF k.t # 99 THEN Throw("TypeCheckMap")
    ELSE IF Thrown \in {keyType, valueType} THEN Throw("TypeCheckCompatible")
    ELSE IF /\ ListAccepted(f.key, keyType, k.keys)
            /\ flip \/ ListAccepted(f.value, valueType, k.vals)
    THEN AddEntries(old, AppendAll(<<>>, [i \in DOMAIN values |-> Entry(i)]))
    ELSE Throw("TypeCheckMapElement")
=============================================================================
