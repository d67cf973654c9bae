---------------------------- MODULE ScalarValues ----------------------------
(***************************************************************************)
(* ScalarValues and RepeatedValues (src/ScalarValues.cpp,                  *)
(* src/RepeatedValues.cpp): a singular scalar field to and from an atom or *)
(* a char list, a repeated one to and from a list.                         *)
(***************************************************************************)
EXTENDS KObjects

(* The values of an element that is not a message. *)
Scalars(e) ==
    CASE e.cpp \in {"uint32", "uint64"} -> 0 .. IntModulus - 1
      [] e.cpp = "bool" -> {0, 1}
      [] e.cpp = "string" -> STRING
      [] OTHER -> Int

(* Unsigned integers keep their bits in kdb+'s signed types; any byte but
   zero makes a bool true. *)
ToK(e, v) ==
    IF e.cpp \in {"uint32", "uint64"} /\ v >= IntModulus \div 2
    THEN v - IntModulus ELSE v
FromK(e, v) ==
    CASE e.cpp \in {"uint32", "uint64"} -> v % IntModulus
      [] e.cpp = "bool" -> IF v = 0 THEN 0 ELSE 1
      [] OTHER -> v

IsGuidString(s) == s = "" \/ s \in DOMAIN GuidOf
GuidFromString(s) == IF s = "" THEN 0 ELSE GuidOf[s]
GuidToString(g) == HexOf[g]

(* A string under a string_kdb_type, bytes_kdb_type or map key setting. *)
EncodeString(setting, s) ==
    IF setting = -KS THEN Symbol(CStr(s)) ELSE CharList(setting, s)

GetScalar(f, v) ==
    LET t == GetScalarKdbType(f) IN
    IF t = Thrown THEN Exception("TypeCheckCompatible")
    ELSE IF f.cpp # "string" THEN Atom(t, ToK(f, v))
    ELSE IF ~IsKdbTypeGuid(f) THEN EncodeString(StringSetting(f), v)
    ELSE IF IsGuidString(v) THEN Atom(t, GuidFromString(v))
    ELSE Exception("TypeCheckGuid")

SetScalar(f, k) ==
    LET t == GetScalarKdbType(f)
        interchangeable == t # -UU /\ f.cpp = "string" /\ IsString(k) IN
    IF t = Thrown THEN Throw("TypeCheckCompatible")
    ELSE IF interchangeable THEN Value(StringOf(k))
    ELSE IF t # k.t THEN Throw("TypeCheckScalar")
    ELSE Value(IF IsKdbTypeGuid(f) THEN GuidToString(k.a) ELSE FromK(f, k.a))

(* What value x comes back as from an atom, or from a list: a GUID in its
   canonical spelling, a symbol up to its first NUL. *)
Back(e, setting, x) ==
    IF e.cpp # "string" THEN x
    ELSE IF IsKdbTypeGuid(e) THEN GuidToString(GuidFromString(x))
    ELSE IF setting = -KS THEN CStr(x) ELSE x

(* What is before a NUL has none; a GUID has a string that decodes to it. *)
ASSUME TextAssumption ==
    /\ "" \notin DOMAIN GuidOf
    /\ \A s \in DOMAIN CStrOf : CStrOf[s] \in STRING \ DOMAIN CStrOf
    /\ \A g \in {GuidOf[s] : s \in DOMAIN GuidOf} \cup {0} :
          HexOf[g] \in DOMAIN GuidOf /\ HexOf[g] \in STRING /\ GuidOf[HexOf[g]] = g
ASSUME WidthAssumption == IntModulus \in Nat
----------------------------------------------------------------------------
(* A kdb+ list of type t for the values of an element: shared by repeated
   fields, map keys and map values. *)
GetList(e, t, setting, values) ==
    CASE t = Thrown -> Exception("TypeCheckCompatible")
      [] t = UU ->
            IF \E i \in DOMAIN values : ~IsGuidString(values[i])
            THEN Exception("TypeCheckGuid")
            ELSE SimpleList(UU, Map(values, GuidFromString))
      [] t = KS -> SymbolList(Map(values, CStr))
      [] t = 0 -> Mixed(Map(values, LAMBDA s : EncodeString(setting, s)))
      [] OTHER -> SimpleList(t, Map(values, LAMBDA v : ToK(e, v)))

(* A list passed for an element that takes lists of type t. *)
ListAccepted(e, t, k) ==
    IF t # UU /\ e.cpp = "string" THEN k.t \in {KS, 0, t} ELSE k.t = t

(* The value an item of that list stands for.  Only the items of a mixed
   list still have to be checked. *)
ListItem(e, item, error) ==
    IF IsKdbTypeGuid(e) THEN Value(GuidToString(item.a))
    ELSE IF e.cpp # "string" THEN Value(FromK(e, item.a))
    ELSE IF IsString(item) THEN Value(StringOf(item))
    ELSE Throw(error)

GetRepeated(f, values) ==
    GetList(f, GetRepeatedKdbType(f), StringSetting(f), values)

SetRepeated(f, old, k) ==
    LET t == GetRepeatedKdbType(f)
        items == Items(k) IN
    IF t = Thrown THEN Throw("TypeCheckCompatible")
    ELSE IF ~ListAccepted(f, t, k) THEN Throw("TypeCheckRepeated")
    ELSE AppendAll(old, [i \in DOMAIN items |->
            Single(ListItem(f, items[i], "TypeCheckRepeatedString"))])
=============================================================================
