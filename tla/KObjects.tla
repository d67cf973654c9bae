------------------------------ MODULE KObjects ------------------------------
(***************************************************************************)
(* kdb+ objects and protobuf messages as the library sees them (external:  *)
(* the k.h and libprotobuf calls it makes).                                *)
(*                                                                         *)
(* A kdb+ object is a record with its type code t and one payload field    *)
(* per shape.  Strings are TLA+ strings; all other payloads are integers.  *)
(*                                                                         *)
(* A message is a function from the names of its fields to their values: a *)
(* string or an integer for a scalar, a sequence for a repeated field, a   *)
(* function for a map, a message for a sub-message, and Unset for a oneof  *)
(* member or a sub-message that is not there.                              *)
(***************************************************************************)
EXTENDS KdbTypes, Sequences, SequencesExt

CONSTANTS
    Unset,          \* a oneof member or sub-message that is not set
    CStrOf,         \* strings with an embedded NUL -> what precedes it
    GuidOf,         \* strings of 32 characters -> the GUID they decode to
    HexOf,          \* GUIDs -> their canonical string
    IntModulus,     \* 2^32 or 2^64: width of the integers
    SliceSub(_, _)  \* (column, i): Slice where it calls itself, see MessageTrees

Atom(t, v) == [t |-> t, a |-> v]
Symbol(s) == [t |-> -KS, sym |-> s]
CharList(t, s) == [t |-> t, chars |-> s]
SimpleList(t, l) == [t |-> t, l |-> l]
SymbolList(l) == [t |-> KS, syms |-> l]
Mixed(l) == [t |-> 0, items |-> l]
Dict(k, v) == [t |-> 99, keys |-> k, vals |-> v]
Table(names, rows) == [t |-> 98, names |-> names, rows |-> rows]
GenericNull == [t |-> 101]
Exception(e) == [t |-> -128, error |-> e]

Map(s, Op(_)) == [i \in DOMAIN s |-> Op(s[i])]
IsException(k) == k.t = -128
AnyException(ks) == \E i \in DOMAIN ks : IsException(ks[i])
FirstException(ks) == ks[CHOOSE i \in DOMAIN ks :
    IsException(ks[i]) /\ \A j \in 1 .. i - 1 : ~IsException(ks[j])]

(* A call that converts k into a value either throws or returns it. *)
Throw(e) == [error |-> e, value |-> Unset]
Value(v) == [error |-> "", value |-> v]
Throws(r) == r.error # ""

(* A loop of calls that each return what to append to a list: it ends with
   the first that throws. *)
Single(r) == IF Throws(r) THEN r ELSE Value(<<r.value>>)
AppendAll(list, rs) ==
    IF \E i \in DOMAIN rs : Throws(rs[i])
    THEN rs[CHOOSE i \in DOMAIN rs : Throws(rs[i]) /\ \A j \in 1 .. i - 1 : ~Throws(rs[j])]
    ELSE Value(list \o FlattenSeq([i \in DOMAIN rs |-> rs[i].value]))

IsString(k) == k.t \in KdbStringEncodings
StringOf(k) == IF k.t = -KS THEN k.sym ELSE k.chars

(* The items of a list of any shape; a row of a table is a dictionary. *)
Items(k) ==
    CASE k.t = 0 -> k.items
      [] k.t = KS -> Map(k.syms, Symbol)
      [] k.t = 98 -> [i \in DOMAIN k.rows |-> Dict(SymbolList(k.names), Mixed(k.rows[i]))]
      [] OTHER -> Map(k.l, LAMBDA v : Atom(-k.t, v))

(* q turns the list it builds into a simple list when all items are atoms of
   one type, and into a table when all are dictionaries with the same symbols,
   at least one, as keys.  The columns of a table are such lists. *)
Uniform(l, S) == l # <<>> /\ \A i \in DOMAIN l : l[i].t \in S /\ l[i].t = l[1].t
IsTable(l) ==
    /\ Uniform(l, {99}) /\ l[1].keys.t = KS /\ l[1].keys.syms # <<>>
    /\ \A i \in DOMAIN l : l[i].keys = l[1].keys
Collapse(l) ==
    CASE Uniform(l, {-KS}) -> SymbolList(Map(l, LAMBDA k : k.sym))
      [] Uniform(l, -19 .. -1) /\ l[1].t # -KS -> SimpleList(-l[1].t, Map(l, LAMBDA k : k.a))
      [] IsTable(l) -> Table(l[1].keys.syms, Map(l, LAMBDA k : Items(k.vals)))
      [] OTHER -> Mixed(l)

(* Row i of a flip table, as q's indexing returns it: a column that is itself
   a table gives a row of that table. *)
Column(rows, j) == [i \in DOMAIN rows |-> rows[i][j]]
RowItem(column, i) == IF IsTable(column) THEN SliceSub(column, i) ELSE column[i]
Slice(table, i) ==
    Dict(SymbolList(table.names),
         Collapse([j \in DOMAIN table.rows[i] |-> RowItem(Column(table.rows, j), i)]))

(* C strings end at the first NUL. *)
CStr(s) == IF s \in DOMAIN CStrOf THEN CStrOf[s] ELSE s
=============================================================================
