------------------------- MODULE MessageFormatProofs -------------------------
(***************************************************************************)
(* Proofs about the conversion of values (KdbTypes, ScalarValues) and of   *)
(* messages (MessageFormat, MapValues): for every schema, every collection *)
(* of messages of any depth, every setting of the string encodings and     *)
(* every width of integers.                                                *)
(***************************************************************************)
EXTENDS MessageTrees, TLAPS, FiniteSetTheorems, WellFoundedInduction
----------------------------------------------------------------------------
(* The values of scalar fields and of lists of them (KdbTypes, ScalarValues). *)
Unsigned == {"uint32", "uint64"}

(* The values a scalar field can hold; a string without a NUL. *)
Holds(f, v) ==
    CASE f.cpp \in Unsigned -> v \in 0 .. IntModulus - 1
      [] f.cpp = "bool" -> v \in {0, 1}
      [] f.cpp = "string" -> v \notin DOMAIN CStrOf
      [] OTHER -> TRUE

LEMMA Wraps ==
    ASSUME NEW m \in Nat, NEW v \in 0 .. m - 1
    PROVE  v % m = v /\ (v - m) % m = v
  OBVIOUS

(* ToK and FromK are inverse to each other. *)
LEMMA IntegerComesBack ==
    ASSUME IntModulus \in Nat, NEW f, IsElement(f), NEW v, Holds(f, v), f.cpp # "string"
    PROVE  FromK(f, ToK(f, v)) = v
<1>1. CASE f.cpp \in Unsigned
  <2>1. v \in 0 .. IntModulus - 1
    BY <1>1 DEF Holds, Unsigned
  <2>2. FromK(f, ToK(f, v)) = ToK(f, v) % IntModulus
    BY <1>1 DEF FromK, Unsigned
  <2>3. ToK(f, v) = v \/ ToK(f, v) = v - IntModulus
    BY DEF ToK
  <2> QED
    BY <2>1, <2>2, <2>3, Wraps
<1>2. CASE f.cpp = "bool"
  BY <1>2 DEF Holds, ToK, FromK, Unsigned
<1>3. CASE f.cpp \notin Unsigned /\ f.cpp # "bool"
  BY <1>3 DEF ToK, FromK, Unsigned
<1> QED
  BY <1>1, <1>2, <1>3

(* Every integer of a kdb+ type, also a negative one, is a value of the
   unsigned field, and comes back from it (ScalarValues::SetUInt32, GetUInt32). *)
THEOREM AtomComesBack ==
    ASSUME NEW h \in Nat, IntModulus = 2 * h, NEW f, IsElement(f), f.cpp \in Unsigned,
           NEW a \in -h .. h - 1
    PROVE  /\ FromK(f, a) \in 0 .. IntModulus - 1
           /\ ToK(f, FromK(f, a)) = a
<1>1. FromK(f, a) = a % IntModulus
  BY DEF FromK, Unsigned
<1>2. IntModulus \div 2 = h
  OBVIOUS
<1>3. a % IntModulus = IF a < 0 THEN a + IntModulus ELSE a
  <2>1. CASE a < 0
    <3>1. a + IntModulus \in 0 .. IntModulus - 1 /\ IntModulus \in Nat
      BY <2>1
    <3>2. ((a + IntModulus) - IntModulus) % IntModulus = a + IntModulus
      BY <3>1, Wraps
    <3> QED
      BY <2>1, <3>2
  <2>2. CASE a >= 0
    <3>1. a \in 0 .. IntModulus - 1 /\ IntModulus \in Nat
      BY <2>2
    <3> QED
      BY <2>2, <3>1, Wraps
  <2> QED
    BY <2>1, <2>2
<1>4. CASE a < 0
  BY <1>1, <1>2, <1>3, <1>4 DEF ToK, Unsigned
<1>5. CASE a >= 0
  BY <1>1, <1>2, <1>3, <1>5 DEF ToK, Unsigned
<1> QED
  BY <1>4, <1>5

(* The type of a scalar, unless its specifier does not fit the field. *)
LEMMA StringTypes ==
    ASSUME NEW f, IsElement(f), f.cpp = "string", GetScalarKdbType(f) # Thrown
    PROVE  IF IsKdbTypeGuid(f) THEN GetScalarKdbType(f) = -UU
           ELSE GetScalarKdbType(f) # -UU /\ StringSetting(f) \in KdbStringEncodings
<1>1. f.spec \in Specifiers
  BY DEF IsElement
<1>2. Cpp2KdbType(f.cpp) = KS
  BY DEF Cpp2KdbType
<1>3. StringSetting(f) \in KdbStringEncodings
  BY SettingsAssumption DEF StringSetting, KdbStringEncodings
<1>4. CASE f.spec = "DEFAULT"
  BY <1>2, <1>3, <1>4 DEF GetScalarKdbType, GetKdbType, IsKdbTypeGuid, KdbStringEncodings,
     KS, UU, KG, KC, Thrown
<1>5. CASE f.spec = "GUID"
  BY <1>2, <1>5 DEF GetScalarKdbType, GetKdbType, IsKdbTypeGuid, CompatibleKdbType,
     Specifier2KdbType, KS, UU, Thrown
<1>6. CASE f.spec \notin {"DEFAULT", "GUID"}
  <2>1. CompatibleKdbType(f.spec) # KS
    BY <1>1, <1>6 DEF CompatibleKdbType, Specifiers, KJ, KI, KF, KS
  <2> QED
    BY <1>2, <1>6, <2>1 DEF GetScalarKdbType, GetKdbType, Thrown, KS
<1> QED
  BY <1>4, <1>5, <1>6

(* What a scalar field is converted to is accepted for the same field, and
   sets it to the value it had; a GUID string to its canonical form
   (ScalarValues::GetScalar, then ScalarValues::SetScalar). *)
THEOREM ScalarComesBack ==
    ASSUME IntModulus \in Nat, NEW f, IsElement(f), f.cpp # "message", NEW v, Holds(f, v),
           GetScalarKdbType(f) # Thrown, IsKdbTypeGuid(f) /\ f.cpp = "string" => IsGuidString(v)
    PROVE  SetScalar(f, GetScalar(f, v)) =
              Value(IF IsKdbTypeGuid(f) /\ f.cpp = "string"
                    THEN GuidToString(GuidFromString(v)) ELSE v)
<1> DEFINE t == GetScalarKdbType(f)
<1>1. CASE f.cpp # "string"
  <2>1. GetScalar(f, v) = Atom(t, ToK(f, v))
    BY <1>1 DEF GetScalar
  <2>2. ~IsKdbTypeGuid(f)
    <3>1. Cpp2KdbType(f.cpp) # KS
      BY <1>1 DEF IsElement, CppTypes, Cpp2KdbType, KI, KJ, KF, KE, KB, KS
    <3>2. CompatibleKdbType("GUID") = KS
      BY DEF CompatibleKdbType
    <3> QED
      BY <3>1, <3>2 DEF IsKdbTypeGuid, GetScalarKdbType, GetKdbType, Thrown, KS
  <2>3. SetScalar(f, Atom(t, ToK(f, v))) = Value(FromK(f, ToK(f, v)))
    BY <1>1, <2>2 DEF SetScalar, Atom
  <2> QED
    BY <1>1, <2>1, <2>3, IntegerComesBack
<1>2. CASE f.cpp = "string" /\ IsKdbTypeGuid(f)
  <2>1. t = -UU /\ t # Thrown
    BY <1>2, StringTypes
  <2>2. GetScalar(f, v) = Atom(t, GuidFromString(v))
    BY <1>2, <2>1 DEF GetScalar
  <2>3. SetScalar(f, Atom(t, GuidFromString(v))) = Value(GuidToString(GuidFromString(v)))
    BY <1>2, <2>1 DEF SetScalar, Atom
  <2> QED
    BY <1>2, <2>2, <2>3
<1>3. CASE f.cpp = "string" /\ ~IsKdbTypeGuid(f)
  <2>1. t # -UU /\ StringSetting(f) \in KdbStringEncodings
    BY <1>3, StringTypes
  <2>2. GetScalar(f, v) = EncodeString(StringSetting(f), v) /\ CStr(v) = v
    BY <1>3 DEF GetScalar, CStr, Holds, Unsigned
  <2> DEFINE k == EncodeString(StringSetting(f), v)
  <2>3. IsString(k) /\ StringOf(k) = v
    BY <2>1, <2>2 DEF EncodeString, Symbol, CharList, IsString, StringOf, KdbStringEncodings
  <2>4. SetScalar(f, k) = Value(StringOf(k))
    BY <1>3, <2>1, <2>3 DEF SetScalar
  <2> QED
    BY <1>3, <2>2, <2>3, <2>4
<1> QED
  BY <1>1, <1>2, <1>3

(* A field has a list type exactly when it has a scalar type, and the list is
   one of such atoms unless it holds strings; so it is for map values
   (KdbTypes::GetRepeatedKdbType, GetScalarKdbType, GetMapValueKdbType). *)
THEOREM ListsMatchScalars ==
    ASSUME NEW f, IsElement(f), f.cpp # "message"
    PROVE  /\ GetRepeatedKdbType(f) = Thrown <=> GetScalarKdbType(f) = Thrown
           /\ f.cpp # "string" /\ GetScalarKdbType(f) # Thrown =>
                 GetRepeatedKdbType(f) = -GetScalarKdbType(f)
           /\ GetMapValueKdbType(f) = GetRepeatedKdbType(f)
<1>1. StringSetting(f) \in KdbStringEncodings
  BY SettingsAssumption DEF StringSetting, KdbStringEncodings
<1>2. GetKdbType(f) \in -100 .. 100 \cup {Thrown}
  BY DEF GetKdbType, IsElement, CppTypes, Specifiers, Cpp2KdbType, Specifier2KdbType, Thrown,
     KI, KJ, KF, KE, KB, KS, KP, KM, KD, KZ, KN, KU, KV, KT, UU
<1>3. GetKdbType(f) = KS => f.cpp = "string"
  BY DEF GetKdbType, IsElement, CppTypes, Specifiers, Cpp2KdbType, Specifier2KdbType, Thrown,
     KI, KJ, KF, KE, KB, KS, KP, KM, KD, KZ, KN, KU, KV, KT, UU
<1>4. GetRepeatedKdbType(f) = Thrown <=> GetKdbType(f) = Thrown
  BY <1>2 DEF GetRepeatedKdbType, ListKdbType, Thrown, KS
<1>5. GetScalarKdbType(f) = Thrown <=> GetKdbType(f) = Thrown
  BY <1>1, <1>2 DEF GetScalarKdbType, Thrown, KS, KdbStringEncodings, KG, KC
<1>6. f.cpp # "string" /\ GetKdbType(f) # Thrown =>
         GetRepeatedKdbType(f) = -GetScalarKdbType(f)
  BY <1>2, <1>3 DEF GetRepeatedKdbType, ListKdbType, GetScalarKdbType, KS, Thrown
<1> QED
  BY <1>4, <1>5, <1>6 DEF GetMapValueKdbType, GetRepeatedKdbType
----------------------------------------------------------------------------
(* Lists, of repeated fields and of the keys and values of maps.  The list
   type of an element tells how its values are encoded. *)
LEMMA ListTypes ==
    ASSUME NEW e, IsElement(e), e.cpp # "message", NEW setting \in KdbStringEncodings,
           ListKdbType(e, setting) # Thrown
    PROVE  IF e.cpp = "string"
           THEN ListKdbType(e, setting) = IF IsKdbTypeGuid(e) THEN UU
                                          ELSE IF setting = -KS THEN KS ELSE 0
           ELSE /\ ListKdbType(e, setting) \in (1 .. 19) \ {KS, UU}
                /\ ~IsKdbTypeGuid(e)
<1> USE DEF ListKdbType, GetKdbType, IsElement, CppTypes, Specifiers, Cpp2KdbType,
        Specifier2KdbType, CompatibleKdbType, IsKdbTypeGuid, Thrown,
        KI, KJ, KF, KE, KB, KS, KP, KM, KD, KZ, KN, KU, KV, KT, UU
<1>1. CASE e.spec = "DEFAULT"
  BY <1>1
<1>2. CASE e.spec # "DEFAULT"
  BY <1>2
<1> QED
  BY <1>1, <1>2

LEMMA TextComesBack ==
    /\ \A x \in STRING : CStr(x) \in STRING /\ CStr(CStr(x)) = CStr(x)
    /\ \A x : IsGuidString(x) =>
          LET y == GuidToString(GuidFromString(x)) IN
          y \in STRING /\ IsGuidString(y) /\ GuidFromString(y) = GuidFromString(x)
<1>1. ASSUME NEW x \in STRING PROVE CStr(x) \in STRING /\ CStr(CStr(x)) = CStr(x)
  BY TextAssumption DEF CStr
<1>2. ASSUME NEW x, IsGuidString(x)
      PROVE  GuidFromString(x) \in {GuidOf[s] : s \in DOMAIN GuidOf} \cup {0}
  BY <1>2 DEF IsGuidString, GuidFromString
<1>3. ASSUME NEW g \in {GuidOf[s] : s \in DOMAIN GuidOf} \cup {0}
      PROVE  HexOf[g] \in STRING /\ IsGuidString(HexOf[g]) /\ GuidFromString(HexOf[g]) = g
  <2>1. HexOf[g] \in DOMAIN GuidOf /\ HexOf[g] \in STRING /\ GuidOf[HexOf[g]] = g
    BY TextAssumption
  <2>2. HexOf[g] # ""
    BY <2>1, TextAssumption
  <2> QED
    BY <2>1, <2>2 DEF IsGuidString, GuidFromString
<1> QED
  BY <1>1, <1>2, <1>3 DEF GuidToString

(* Any value of a scalar field is converted to an object that is neither a
   mixed list nor :: and sets the field to the value, or to its canonical
   form, which is converted to the same object. *)
LEMMA AnyScalarBack ==
    ASSUME NEW f, IsElement(f), f.cpp # "message", NEW v \in Scalars(f),
           NEW k, k = GetScalar(f, v), ~IsException(k)
    PROVE  LET back == Back(f, StringSetting(f), v) IN
           /\ k.t \notin {0, 99, 101} /\ SetScalar(f, k) = Value(back)
           /\ back \in Scalars(f) /\ GetScalar(f, back) = k
<1> DEFINE t == GetScalarKdbType(f)
           back == Back(f, StringSetting(f), v)
<1>1. t # Thrown /\ (f.cpp = "string" /\ IsKdbTypeGuid(f) => IsGuidString(v))
  <2>1. \A x : IsException(Exception(x))
    BY DEF IsException, Exception
  <2>2. t = Thrown => k = Exception("TypeCheckCompatible")
    BY DEF GetScalar
  <2>3. t # Thrown /\ f.cpp = "string" /\ IsKdbTypeGuid(f) /\ ~IsGuidString(v) =>
           k = Exception("TypeCheckGuid")
    BY DEF GetScalar
  <2> QED
    BY <2>1, <2>2, <2>3
<1>2. StringSetting(f) \in KdbStringEncodings
  BY SettingsAssumption DEF StringSetting, KdbStringEncodings
<1>3. ListKdbType(f, StringSetting(f)) # Thrown
  BY <1>1, ListsMatchScalars DEF GetRepeatedKdbType
<1> HIDE DEF t
<1>4. CASE f.cpp # "string"
  <2>1. ListKdbType(f, StringSetting(f)) = -t /\ -t \in (1 .. 19) \ {KS, UU}
    BY <1>1, <1>2, <1>3, <1>4, ListsMatchScalars, ListTypes DEF GetRepeatedKdbType, t
  <2>2. k = Atom(t, ToK(f, v))
    BY <1>1, <1>4 DEF GetScalar, t
  <2>3. t \in Int
    <3>1. GetKdbType(f) \in Int
      BY <1>4 DEF GetKdbType, IsElement, CppTypes, Specifiers, Cpp2KdbType, Specifier2KdbType,
         Thrown, KI, KJ, KF, KE, KB, KS, KP, KM, KD, KZ, KN, KU, KV, KT, UU
    <3> QED
      BY <1>2, <3>1 DEF t, GetScalarKdbType, Thrown, KdbStringEncodings, KS, KG, KC
  <2>4. k.t \notin {0, 99, 101}
    BY <2>1, <2>2, <2>3 DEF Atom
  <2>5. Holds(f, v)
    BY <1>4 DEF Holds, Scalars, Unsigned
  <2>6. SetScalar(f, k) = Value(v) /\ back = v
    BY <1>1, <1>4, <2>5, ScalarComesBack, WidthAssumption DEF Back, t
  <2> QED
    BY <2>4, <2>6
<1>5. CASE f.cpp = "string" /\ IsKdbTypeGuid(f)
  <2>1. t = -UU
    BY <1>1, <1>5, StringTypes DEF t
  <2>2. \A x : IsGuidString(x) => GetScalar(f, x) = Atom(-UU, GuidFromString(x))
    BY <1>1, <1>5, <2>1 DEF GetScalar, t
  <2>3. back = GuidToString(GuidFromString(v))
    BY <1>5 DEF Back
  <2>4. back \in Scalars(f) /\ GetScalar(f, back) = k
    BY <1>1, <1>5, <2>2, <2>3, TextComesBack DEF Scalars
  <2>5. k = Atom(-UU, GuidFromString(v))
    BY <1>1, <1>5, <2>2
  <2>6. k.t \notin {0, 99, 101}
    BY <2>5 DEF Atom, UU
  <2>7. SetScalar(f, k) = Value(back)
    BY <1>1, <1>5, <2>1, <2>3, <2>5 DEF SetScalar, Atom, t
  <2> QED
    BY <2>4, <2>6, <2>7
<1>6. CASE f.cpp = "string" /\ ~IsKdbTypeGuid(f)
  <2>1. t # -UU
    BY <1>1, <1>6, StringTypes DEF t
  <2>2. \A x : GetScalar(f, x) = EncodeString(StringSetting(f), x)
    BY <1>1, <1>6 DEF GetScalar, t
  <2>3. v \in STRING /\ back = IF StringSetting(f) = -KS THEN CStr(v) ELSE v
    BY <1>6 DEF Scalars, Back
  <2>4. back \in Scalars(f) /\ GetScalar(f, back) = k
    BY <1>6, <2>2, <2>3, TextComesBack DEF Scalars, EncodeString
  <2>5. k.t \notin {0, 99, 101} /\ IsString(k) /\ StringOf(k) = back
    BY <1>2, <2>2, <2>3 DEF EncodeString, Symbol, CharList, IsString, StringOf,
       KdbStringEncodings, KS, KG, KC
  <2>6. SetScalar(f, k) = Value(back)
    BY <1>1, <1>6, <2>1, <2>5 DEF SetScalar, t
  <2> QED
    BY <2>4, <2>5, <2>6
<1> QED
  BY <1>4, <1>5, <1>6

(* What a list of n values of element e has to be like to be given back:
   accepted, item by item, and the same when the values it sets are read. *)
ListBack(e, setting, values, l, error) ==
    LET t == ListKdbType(e, setting)
        back == [i \in DOMAIN values |-> Back(e, setting, values[i])] IN
    /\ ListAccepted(e, t, l)
    /\ l.t \notin {98, 99, 101, -128}
    /\ Items(l) = [i \in DOMAIN values |-> Items(l)[i]]
    /\ \A i \in DOMAIN values :
          /\ Items(l)[i].t # 101
          /\ ListItem(e, Items(l)[i], error) = Value(back[i])
          /\ back[i] \in Scalars(e)
    /\ GetList(e, t, setting, back) = l

(* The shape of a list, by its type. *)
LEMMA ListShapes ==
    ASSUME NEW e, NEW setting, NEW values
    PROVE  /\ IsException(GetList(e, Thrown, setting, values))
           /\ GetList(e, UU, setting, values) =
                 IF \E i \in DOMAIN values : ~IsGuidString(values[i])
                 THEN Exception("TypeCheckGuid")
                 ELSE SimpleList(UU, [i \in DOMAIN values |-> GuidFromString(values[i])])
           /\ GetList(e, 0, setting, values) =
                 Mixed([i \in DOMAIN values |-> EncodeString(setting, values[i])])
<1>1. UU # Thrown /\ UU # KS /\ UU # 0 /\ Thrown # 0 /\ KS # 0 /\ Thrown # KS
  BY DEF UU, Thrown, KS
<1>2. GetList(e, Thrown, setting, values) = Exception("TypeCheckCompatible")
  BY <1>1, Zenon DEF GetList
<1>3. GetList(e, UU, setting, values) =
         IF \E i \in DOMAIN values : ~IsGuidString(values[i])
         THEN Exception("TypeCheckGuid")
         ELSE SimpleList(UU, Map(values, GuidFromString))
  BY <1>1, Zenon DEF GetList
<1>4. GetList(e, 0, setting, values) =
         Mixed([i \in DOMAIN values |-> EncodeString(setting, values[i])])
  BY <1>1, Zenon DEF GetList, Map
<1>5. IsException(Exception("TypeCheckCompatible"))
  BY DEF IsException, Exception
<1> QED
  BY <1>2, <1>3, <1>4, <1>5, Zenon DEF Map

LEMMA GuidList ==
    ASSUME NEW e, IsElement(e), e.cpp = "string", IsKdbTypeGuid(e),
           NEW setting \in KdbStringEncodings, ListKdbType(e, setting) # Thrown,
           NEW values, NEW error,
           NEW l, l = GetList(e, ListKdbType(e, setting), setting, values), ~IsException(l)
    PROVE  ListBack(e, setting, values, l, error)
<1> DEFINE back == [i \in DOMAIN values |-> Back(e, setting, values[i])]
<1>1. ListKdbType(e, setting) = UU
  BY ListTypes
<1>2. /\ \A i \in DOMAIN values : IsGuidString(values[i])
      /\ l = SimpleList(UU, [i \in DOMAIN values |-> GuidFromString(values[i])])
  <2>1. IsException(Exception("TypeCheckGuid"))
    BY DEF IsException, Exception
  <2> QED
    BY <1>1, <2>1, ListShapes, Zenon
<1>3. l.t = UU /\ l.l = [i \in DOMAIN values |-> GuidFromString(values[i])]
  BY <1>2 DEF SimpleList
<1>4. Items(l) = [i \in DOMAIN values |-> Atom(-UU, l.l[i])]
  BY <1>3 DEF Items, UU, KS, Map
<1>5. ASSUME NEW i \in DOMAIN values
      PROVE  /\ Items(l)[i].t # 101
             /\ ListItem(e, Items(l)[i], error) = Value(back[i])
             /\ back[i] \in Scalars(e) /\ IsGuidString(back[i])
             /\ GuidFromString(back[i]) = GuidFromString(values[i])
  <2>1. back[i] = GuidToString(GuidFromString(values[i]))
    BY DEF Back
  <2>2. Items(l)[i] = Atom(-UU, GuidFromString(values[i]))
    BY <1>3, <1>4
  <2>3. Items(l)[i].t # 101 /\ ListItem(e, Items(l)[i], error) = Value(back[i])
    BY <2>1, <2>2 DEF Atom, ListItem, UU
  <2> QED
    BY <1>2, <2>1, <2>3, TextComesBack DEF Scalars
<1>6. GetList(e, UU, setting, back) = l
  <2>1. DOMAIN back = DOMAIN values
    OBVIOUS
  <2>2. \A i \in DOMAIN back : IsGuidString(back[i])
    BY <1>5, <2>1
  <2>3. [i \in DOMAIN back |-> GuidFromString(back[i])] = [i \in DOMAIN values |-> GuidFromString(values[i])]
    BY <1>5, <2>1
  <2>4. GetList(e, UU, setting, back) = SimpleList(UU, [i \in DOMAIN back |-> GuidFromString(back[i])])
    BY <2>2, ListShapes, Zenon
  <2> QED
    BY <1>2, <2>3, <2>4
<1>7. ListAccepted(e, UU, l) /\ l.t \notin {98, 99, 101, -128}
  BY <1>3 DEF ListAccepted, UU
<1> QED
  BY <1>1, <1>4, <1>5, <1>6, <1>7 DEF ListBack

LEMMA SymbolList0 ==
    ASSUME NEW e, IsElement(e), e.cpp = "string", ~IsKdbTypeGuid(e),
           NEW setting, setting = -KS, ListKdbType(e, setting) # Thrown,
           NEW values, \A i \in DOMAIN values : values[i] \in STRING, NEW error,
           NEW l, l = GetList(e, ListKdbType(e, setting), setting, values)
    PROVE  ListBack(e, setting, values, l, error)
<1> DEFINE back == [i \in DOMAIN values |-> Back(e, setting, values[i])]
<1>1. ListKdbType(e, setting) = KS
  BY ListTypes DEF KdbStringEncodings
<1>2. l = SymbolList([i \in DOMAIN values |-> CStr(values[i])])
  BY <1>1 DEF GetList, Thrown, UU, KS, Map
<1>3. l.t = KS /\ l.syms = [i \in DOMAIN values |-> CStr(values[i])]
  BY <1>2 DEF SymbolList
<1>4. Items(l) = [i \in DOMAIN values |-> Symbol(l.syms[i])]
  BY <1>3 DEF Items, KS, Map
<1>5. ASSUME NEW i \in DOMAIN values
      PROVE  /\ Items(l)[i].t # 101
             /\ ListItem(e, Items(l)[i], error) = Value(back[i])
             /\ back[i] \in Scalars(e) /\ CStr(back[i]) = CStr(values[i])
  <2>1. back[i] = CStr(values[i])
    BY DEF Back
  <2>2. Items(l)[i] = Symbol(CStr(values[i]))
    BY <1>3, <1>4
  <2>3. Items(l)[i].t # 101 /\ ListItem(e, Items(l)[i], error) = Value(back[i])
    BY <2>1, <2>2 DEF Symbol, ListItem, KS, IsString, StringOf, KdbStringEncodings
  <2> QED
    BY <2>1, <2>3, TextComesBack DEF Scalars
<1>6. GetList(e, KS, setting, back) = l
  <2>1. [i \in DOMAIN back |-> CStr(back[i])] = [i \in DOMAIN values |-> CStr(values[i])]
    BY <1>5
  <2>2. GetList(e, KS, setting, back) = SymbolList([i \in DOMAIN back |-> CStr(back[i])])
    BY DEF GetList, Thrown, UU, KS, Map
  <2> QED
    BY <1>2, <2>1, <2>2
<1>7. ListAccepted(e, KS, l) /\ l.t \notin {98, 99, 101, -128}
  BY <1>3 DEF ListAccepted, UU, KS
<1> QED
  BY <1>1, <1>4, <1>5, <1>6, <1>7 DEF ListBack

LEMMA CharLists ==
    ASSUME NEW e, IsElement(e), e.cpp = "string", ~IsKdbTypeGuid(e),
           NEW setting \in KdbStringEncodings, setting # -KS, ListKdbType(e, setting) # Thrown,
           NEW values, \A i \in DOMAIN values : values[i] \in STRING, NEW error,
           NEW l, l = GetList(e, ListKdbType(e, setting), setting, values)
    PROVE  ListBack(e, setting, values, l, error)
<1> DEFINE back == [i \in DOMAIN values |-> Back(e, setting, values[i])]
<1>1. ListKdbType(e, setting) = 0
  BY ListTypes
<1>0. \A w : GetList(e, 0, setting, w) = Mixed([i \in DOMAIN w |-> CharList(setting, w[i])])
  <2>1. \A w : GetList(e, 0, setting, w) = Mixed([i \in DOMAIN w |-> EncodeString(setting, w[i])])
    BY ListShapes, Zenon
  <2>2. \A w : EncodeString(setting, w) = CharList(setting, w)
    BY Zenon DEF EncodeString
  <2> QED
    BY <2>1, <2>2, Zenon
<1>2. l = Mixed([i \in DOMAIN values |-> CharList(setting, values[i])])
  BY <1>0, <1>1, Zenon
<1>3. l.t = 0 /\ Items(l) = [i \in DOMAIN values |-> CharList(setting, values[i])]
  <2>1. l.t = 0 /\ l.items = [i \in DOMAIN values |-> CharList(setting, values[i])]
    BY <1>2 DEF Mixed
  <2>2. KS # 0 /\ 0 # 98
    BY DEF KS
  <2> QED
    BY <2>1, <2>2, Zenon DEF Items
<1>4. ASSUME NEW i \in DOMAIN values
      PROVE  /\ Items(l)[i].t # 101
             /\ ListItem(e, Items(l)[i], error) = Value(back[i])
             /\ back[i] = values[i] /\ back[i] \in Scalars(e)
  <2>1. back[i] = values[i]
    BY DEF Back
  <2>2. Items(l)[i] = CharList(setting, values[i])
    BY <1>3
  <2>3. Items(l)[i].t # 101 /\ ListItem(e, Items(l)[i], error) = Value(back[i])
    BY <2>1, <2>2 DEF CharList, ListItem, KS, KC, KG, IsString, StringOf, KdbStringEncodings
  <2> QED
    BY <2>1, <2>3 DEF Scalars
<1>5. GetList(e, 0, setting, back) = l
  <2>1. [i \in DOMAIN back |-> CharList(setting, back[i])] = [i \in DOMAIN values |-> CharList(setting, values[i])]
    BY <1>4
  <2>2. GetList(e, 0, setting, back) = Mixed([i \in DOMAIN back |-> CharList(setting, back[i])])
    BY <1>0, Zenon
  <2> QED
    BY <1>2, <2>1, <2>2
<1>6. ListAccepted(e, 0, l) /\ l.t \notin {98, 99, 101, -128}
  BY <1>3 DEF ListAccepted, UU, KS
<1> QED
  BY <1>1, <1>3, <1>4, <1>5, <1>6 DEF ListBack

LEMMA NumberList ==
    ASSUME NEW e, IsElement(e), e.cpp # "message", e.cpp # "string",
           NEW setting \in KdbStringEncodings, ListKdbType(e, setting) # Thrown,
           NEW values, \A i \in DOMAIN values : values[i] \in Scalars(e), NEW error,
           NEW l, l = GetList(e, ListKdbType(e, setting), setting, values)
    PROVE  ListBack(e, setting, values, l, error)
<1> DEFINE back == [i \in DOMAIN values |-> Back(e, setting, values[i])]
           t == ListKdbType(e, setting)
<1>1. t \in (1 .. 19) \ {KS, UU} /\ ~IsKdbTypeGuid(e)
  BY ListTypes
<1> HIDE DEF t
<1>2. t \notin {0, KS, UU, 98, 99, 101, -128, Thrown}
  BY <1>1 DEF KS, UU, Thrown
<1>3. l = SimpleList(t, [i \in DOMAIN values |-> ToK(e, values[i])])
  BY <1>2 DEF GetList, Map, t
<1>4. l.t = t /\ l.l = [i \in DOMAIN values |-> ToK(e, values[i])]
  BY <1>3 DEF SimpleList
<1>5. Items(l) = [i \in DOMAIN values |-> Atom(-t, l.l[i])]
  BY <1>2, <1>4 DEF Items, Map
<1>6. ASSUME NEW i \in DOMAIN values
      PROVE  /\ Items(l)[i].t # 101
             /\ ListItem(e, Items(l)[i], error) = Value(back[i])
             /\ back[i] = values[i]
  <2>1. back[i] = values[i]
    BY DEF Back
  <2>2. Items(l)[i] = Atom(-t, ToK(e, values[i]))
    BY <1>4, <1>5
  <2>3. FromK(e, ToK(e, values[i])) = values[i]
    BY IntegerComesBack, WidthAssumption DEF Holds, Scalars, Unsigned
  <2>4. ListItem(e, Atom(-t, ToK(e, values[i])), error) = Value(values[i])
    BY <1>1, <2>3 DEF Atom, ListItem
  <2> QED
    BY <1>1, <2>1, <2>2, <2>4 DEF Atom
<1>7. GetList(e, t, setting, back) = l
  <2>1. [i \in DOMAIN back |-> ToK(e, back[i])] = [i \in DOMAIN values |-> ToK(e, values[i])]
    BY <1>6
  <2>2. GetList(e, t, setting, back) = SimpleList(t, [i \in DOMAIN back |-> ToK(e, back[i])])
    BY <1>2 DEF GetList, Map
  <2> QED
    BY <1>3, <2>1, <2>2
<1>8. ListAccepted(e, t, l) /\ l.t \notin {98, 99, 101, -128}
  BY <1>2, <1>4 DEF ListAccepted
<1> QED
  BY <1>5, <1>6, <1>7, <1>8 DEF ListBack, t

(* What a list of values is converted to is accepted for the same element, and
   each item is taken for the value it was made from; or for its canonical
   form (RepeatedValues::GetRepeated, SetRepeated, MapValues::GetElement). *)
THEOREM ListComesBack ==
    ASSUME NEW e, IsElement(e), e.cpp # "message", NEW setting \in KdbStringEncodings,
           NEW values, \A i \in DOMAIN values : values[i] \in Scalars(e), NEW error,
           NEW l, l = GetList(e, ListKdbType(e, setting), setting, values), ~IsException(l)
    PROVE  ListBack(e, setting, values, l, error)
<1>1. ListKdbType(e, setting) # Thrown
  BY ListShapes
<1>2. e.cpp = "string" => \A i \in DOMAIN values : values[i] \in STRING
  BY DEF Scalars
<1> QED
  BY <1>1, <1>2, GuidList, SymbolList0, CharLists, NumberList
----------------------------------------------------------------------------
(***************************************************************************)
(* Induction over the natural numbers, for the loops and for the depth of  *)
(* a message: a set of numbers that is not empty has a least one.          *)
(***************************************************************************)
LEMMA LeastNatural ==
    ASSUME NEW T, T \subseteq Nat, T # {}
    PROVE  \E n \in T : \A i \in T : n <= i
<1> DEFINE R == OpToRel(<, Nat)
<1>1. IsWellFoundedOn(R, Nat)
  BY NatLessThanWellFounded
<1>2. \A x, y \in Nat : x < y => <<x, y>> \in R
  BY DEF OpToRel
<1> HIDE DEF R
<1>3. PICK n \in T : \A i \in T : ~(<<i, n>> \in R)
  BY <1>1, WFMin
<1>4. ASSUME NEW i \in T PROVE n <= i
  <2>1. ~(i < n)
    BY <1>2, <1>3
  <2> QED
    BY <2>1
<1> QED
  BY <1>4

LEMMA Induction ==
    ASSUME NEW T, 0 \in T, \A n \in Nat : n \in T => n + 1 \in T
    PROVE  Nat \subseteq T
<1> DEFINE Bad == Nat \ T
<1> SUFFICES ASSUME Bad # {} PROVE FALSE
  OBVIOUS
<1>1. PICK n \in Bad : \A i \in Bad : n <= i
  BY LeastNatural
<1>2. n # 0 /\ n - 1 \in Nat /\ n - 1 \notin Bad
  BY <1>1
<1>3. n - 1 \in T
  BY <1>2
<1>4. (n - 1) + 1 \in T
  BY <1>2, <1>3
<1> QED
  BY <1>1, <1>4
----------------------------------------------------------------------------
(* A loop that appends one item in each step. *)
LEMMA FlattenSingles ==
    ASSUME NEW n \in Nat, NEW x
    PROVE  FlattenSeq([i \in 1 .. n |-> <<x[i]>>]) = [i \in 1 .. n |-> x[i]]
<1> DEFINE seqs == [i \in 1 .. n |-> <<x[i]>>]
           Eq(f) == f = [i \in 1 .. n |-> IF i = 1 THEN seqs[i] ELSE f[i - 1] \o seqs[i]]
           flatten == CHOOSE f : Eq(f)
           prefix == [i \in 1 .. n |-> [j \in 1 .. i |-> x[j]]]
<1>1. Len(seqs) = n
  OBVIOUS
<1>2. CASE n = 0
  BY <1>1, <1>2 DEF FlattenSeq
<1>3. CASE n # 0
  <2>1. FlattenSeq(seqs) = flatten[n]
    BY <1>1, <1>3 DEF FlattenSeq
  <2>2. Eq(prefix)
    <3>1. ASSUME NEW i \in 1 .. n, i # 1
          PROVE  prefix[i] = prefix[i - 1] \o seqs[i]
      <4>1. i - 1 \in 1 .. n
        BY <3>1
      <4>2. prefix[i - 1] = [j \in 1 .. i - 1 |-> x[j]] /\ seqs[i] = <<x[i]>>
        BY <4>1
      <4>3. prefix[i - 1] \in Seq({x[j] : j \in 1 .. n}) /\ seqs[i] \in Seq({x[j] : j \in 1 .. n})
        BY <4>1, <4>2
      <4>4. prefix[i - 1] \o seqs[i] = [j \in 1 .. i |-> x[j]]
        BY <4>1, <4>2, <4>3
      <4> QED
        BY <4>4
    <3>2. ASSUME NEW i \in 1 .. n, i = 1 PROVE prefix[i] = seqs[i]
      <4>1. prefix[1] = [j \in 1 .. 1 |-> x[j]] /\ seqs[1] = <<x[1]>>
        BY <3>2
      <4> QED
        BY <3>2, <4>1
    <3>3. prefix = [i \in 1 .. n |-> prefix[i]]
      OBVIOUS
    <3> HIDE DEF prefix, seqs
    <3> QED
      BY <3>1, <3>2, <3>3
  <2>3. Eq(flatten)
    BY <2>2
  <2> HIDE DEF flatten
  <2> DEFINE T == {i \in Nat : i + 1 \in 1 .. n => flatten[i + 1] = prefix[i + 1]}
  <2>4. 0 \in T
    BY <2>2, <2>3
  <2>5. ASSUME NEW i \in Nat, i \in T PROVE i + 1 \in T
    <3>1. SUFFICES ASSUME i + 2 \in 1 .. n PROVE flatten[i + 2] = prefix[i + 2]
      OBVIOUS
    <3>2. i + 1 \in 1 .. n /\ i + 2 # 1 /\ (i + 2) - 1 = i + 1
      BY <3>1
    <3>3. flatten[i + 2] = flatten[i + 1] \o seqs[i + 2]
      BY <2>3, <3>1, <3>2
    <3>4. prefix[i + 2] = prefix[i + 1] \o seqs[i + 2]
      BY <2>2, <3>1, <3>2
    <3> QED
      BY <2>5, <3>2, <3>3, <3>4
  <2>6. n - 1 \in T
    <3> HIDE DEF T
    <3>1. Nat \subseteq T
      BY <2>4, <2>5, Induction
    <3> QED
      BY <1>3, <3>1
  <2>7. flatten[n] = prefix[n]
    <3>1. (n - 1) + 1 = n /\ n \in 1 .. n
      BY <1>3
    <3> HIDE DEF prefix
    <3> QED
      BY <2>6, <3>1
  <2> QED
    BY <1>3, <2>1, <2>7
<1> QED
  BY <1>2, <1>3

LEMMA Answers ==
    /\ \A v : ~Throws(Value(v)) /\ Value(v).value = v
    /\ \A e : Throws(Throw(e)) <=> e # ""
    /\ \A v, w : Value(v) = Value(w) => v = w
  BY DEF Throws, Throw, Value

(* The steps of a loop that return the items of x, one each. *)
Singles(n, rs, x) ==
    /\ n \in Nat /\ DOMAIN rs = 1 .. n /\ x = [i \in 1 .. n |-> x[i]]
    /\ \A i \in 1 .. n : rs[i] = Value(<<x[i]>>)

LEMMA AppendSingles ==
    ASSUME NEW n, NEW rs, NEW x, Singles(n, rs, x)
    PROVE  AppendAll(<<>>, rs) = Value(x)
<1>0. /\ n \in Nat /\ DOMAIN rs = 1 .. n /\ x = [i \in 1 .. n |-> x[i]]
      /\ \A i \in 1 .. n : rs[i] = Value(<<x[i]>>)
  BY DEF Singles
<1> DEFINE lists == [i \in DOMAIN rs |-> rs[i].value]
<1>1. \A i \in 1 .. n : ~Throws(rs[i])
  BY <1>0, Answers
<1>2. \A i \in 1 .. n : rs[i].value = <<x[i]>>
  BY <1>0, Answers
<1>3. lists = [i \in 1 .. n |-> <<x[i]>>]
  BY <1>0, <1>2
<1>4. FlattenSeq(lists) = x
  <2>1. FlattenSeq([i \in 1 .. n |-> <<x[i]>>]) = [i \in 1 .. n |-> x[i]]
    BY <1>0, FlattenSingles, Zenon
  <2>2. [i \in 1 .. n |-> x[i]] = x
    BY <1>0
  <2> HIDE DEF lists
  <2> QED
    BY <1>3, <2>1, <2>2
<1>5. <<>> \o x = x
  <2>1. x \in Seq({x[i] : i \in 1 .. n})
    BY <1>0
  <2> QED
    BY <2>1
<1>6. ~\E i \in DOMAIN rs : Throws(rs[i])
  BY <1>0, <1>1, Zenon
<1>7. AppendAll(<<>>, rs) = Value(<<>> \o FlattenSeq(lists))
  BY <1>6, Zenon DEF AppendAll
<1> QED
  BY <1>4, <1>5, <1>7

LEMMA AppendThrows ==
    ASSUME NEW n \in Nat, NEW rs, DOMAIN rs = 1 .. n, NEW list,
           \E i \in 1 .. n : Throws(rs[i])
    PROVE  Throws(AppendAll(list, rs))
<1> DEFINE T == {i \in 1 .. n : Throws(rs[i])}
<1>1. PICK i \in T : \A j \in T : i <= j
  <2>1. T \subseteq Nat /\ T # {}
    OBVIOUS
  <2> HIDE DEF T
  <2> QED
    BY <2>1, LeastNatural
<1>2. \A j \in 1 .. i - 1 : ~Throws(rs[j])
  BY <1>1
<1> QED
  BY <1>1, <1>2 DEF AppendAll

(* The keys of a map are taken in some order, each of them once. *)
LEMMA OrderOfKeys ==
    ASSUME NEW S, IsFiniteSet(S)
    PROVE  LET order == SetToSeq(S)
               n == Cardinality(S) IN
           /\ n \in Nat /\ order \in [1 .. n -> S]
           /\ \A i, j \in 1 .. n : order[i] = order[j] => i = j
           /\ \A x \in S : \E i \in 1 .. n : order[i] = x
<1> DEFINE n == Cardinality(S)
           order == SetToSeq(S)
<1>1. n \in Nat /\ ExistsBijection(1 .. n, S)
  BY FS_CardinalityType
<1>2. \E f \in [1 .. n -> S] : IsInjective(f)
  BY <1>1 DEF ExistsBijection, Bijection, Injection, IsInjective
<1>3. order \in [1 .. n -> S] /\ IsInjective(order)
  BY <1>2 DEF SetToSeq
<1> HIDE DEF order
<1>4. order \in Injection(1 .. n, S)
  BY <1>3 DEF Injection
<1>5. Cardinality(1 .. n) = n /\ IsFiniteSet(1 .. n)
  BY <1>1, FS_Interval
<1>6. order \in Surjection(1 .. n, S)
  BY <1>4, <1>5, FS_Injection
<1> QED
  BY <1>1, <1>3, <1>6 DEF IsInjective, Surjection, order
----------------------------------------------------------------------------
(* Lists of objects, of which some may be exceptions. *)
LEMMA FirstIsException ==
    ASSUME NEW n \in Nat, NEW ks, DOMAIN ks = 1 .. n, AnyException(ks)
    PROVE  IsException(FirstException(ks))
<1> DEFINE T == {i \in 1 .. n : IsException(ks[i])}
<1>1. PICK i \in T : \A j \in T : i <= j
  <2>1. T \subseteq Nat /\ T # {}
    BY DEF AnyException
  <2> HIDE DEF T
  <2> QED
    BY <2>1, LeastNatural
<1>2. \A j \in 1 .. i - 1 : ~IsException(ks[j])
  BY <1>1
<1>3. IsException(ks[i]) /\ \A j \in 1 .. i - 1 : ~IsException(ks[j])
  BY <1>1, <1>2
<1> QED
  BY <1>3, Zenon DEF FirstException

(* What q makes of a list: a simple list, a table or the list itself. *)
IsSimple(l) == Uniform(l, {-KS}) \/ (Uniform(l, -19 .. -1) /\ l[1].t # -KS)

LEMMA Collapses ==
    ASSUME NEW l, l # <<>> => 1 \in DOMAIN l
    PROVE  /\ Collapse(l).t # 0 <=> IsSimple(l) \/ IsTable(l)
           /\ Collapse(l).t = 0 => Collapse(l) = Mixed(l)
           /\ Collapse(l).t # 99
           /\ Collapse(<<>>) = Mixed(<<>>)
           /\ Uniform(l, {-KS}) => Collapse(l) = SymbolList(Map(l, LAMBDA k : k.sym))
           /\ Uniform(l, -19 .. -1) /\ l[1].t # -KS =>
                 Collapse(l) = SimpleList(-l[1].t, Map(l, LAMBDA k : k.a))
           /\ IsTable(l) => Collapse(l) = Table(l[1].keys.syms, Map(l, LAMBDA k : Items(k.vals)))
<1> DEFINE Symbols == Uniform(l, {-KS})
           Atoms == Uniform(l, -19 .. -1) /\ l[1].t # -KS
<1>a. l # <<>> => 1 \in DOMAIN l
  OBVIOUS
<1>1. Symbols => l[1].t = -11
  BY <1>a DEF Uniform, KS
<1>2. Atoms => l[1].t \in -19 .. -1 /\ l[1].t # -11
  BY <1>a DEF Uniform, KS
<1>3. IsTable(l) => l[1].t = 99
  BY <1>a DEF Uniform, IsTable
<1>0. ~(Symbols /\ Atoms) /\ ~(Symbols /\ IsTable(l)) /\ ~(Atoms /\ IsTable(l))
  <2>1. \A x : x = 99 => x # -11 /\ x \notin -19 .. -1
    OBVIOUS
  <2> QED
    BY <1>1, <1>2, <1>3, <2>1, Zenon
<1>4. ASSUME Uniform(l, {-KS})
      PROVE  /\ Collapse(l) = SymbolList(Map(l, LAMBDA k : k.sym))
             /\ Collapse(l).t \notin {0, 99}
  <2>1. Collapse(l) = SymbolList(Map(l, LAMBDA k : k.sym))
    BY <1>0, <1>4, Zenon DEF Collapse
  <2>2. Collapse(l).t = KS
    BY <2>1 DEF SymbolList
  <2> QED
    BY <2>1, <2>2 DEF KS
<1>5. ASSUME Uniform(l, -19 .. -1) /\ l[1].t # -KS
      PROVE  /\ Collapse(l) = SimpleList(-l[1].t, Map(l, LAMBDA k : k.a))
             /\ Collapse(l).t \notin {0, 99}
  <2>1. Collapse(l) = SimpleList(-l[1].t, Map(l, LAMBDA k : k.a))
    BY <1>0, <1>5, Zenon DEF Collapse
  <2>2. Collapse(l).t = -l[1].t
    BY <2>1 DEF SimpleList
  <2>3. \A x \in -19 .. -1 : -x \notin {0, 99}
    <3> HIDE DEF Uniform
    <3> QED
      BY SMTT(30)
  <2> QED
    BY <1>2, <1>5, <2>1, <2>2, <2>3, Zenon
<1>6. ASSUME IsTable(l)
      PROVE  /\ Collapse(l) = Table(l[1].keys.syms, Map(l, LAMBDA k : Items(k.vals)))
             /\ Collapse(l).t \notin {0, 99}
  <2>1. Collapse(l) = Table(l[1].keys.syms, Map(l, LAMBDA k : Items(k.vals)))
    BY <1>0, <1>6, Zenon DEF Collapse
  <2>2. Collapse(l).t = 98
    BY <2>1 DEF Table
  <2> QED
    BY <2>1, <2>2
<1>7. ASSUME ~IsSimple(l), ~IsTable(l)
      PROVE  Collapse(l) = Mixed(l) /\ Collapse(l).t = 0
  <2>1. Collapse(l) = Mixed(l)
    BY <1>7, Zenon DEF Collapse, IsSimple
  <2> QED
    BY <2>1 DEF Mixed
<1>8. Collapse(<<>>) = Mixed(<<>>)
  <2>1. \A S : ~Uniform(<<>>, S)
    BY DEF Uniform
  <2> QED
    BY <2>1, Zenon DEF Collapse, IsTable
<1>9. Collapse(l).t \notin {0, 99} => Collapse(l).t # 0 /\ Collapse(l).t # 99
  OBVIOUS
<1>10. 0 # 99
  OBVIOUS
<1> QED
  BY <1>4, <1>5, <1>6, <1>7, <1>8, <1>9, <1>10, Zenon DEF IsSimple

(* Dictionaries with the same keys and these items. *)
AreRows(n, names, items, ks) ==
    /\ items = [i \in 1 .. n |-> items[i]] /\ DOMAIN ks = 1 .. n
    /\ \A i \in 1 .. n : ks[i] = Dict(SymbolList(names), Mixed(items[i]))

LEMMA CollapsesToTable ==
    ASSUME NEW n \in Nat, n # 0, NEW names, names # <<>>, NEW items, NEW ks,
           AreRows(n, names, items, ks)
    PROVE  Collapse(ks) = Table(names, items)
<1>0. /\ items = [i \in 1 .. n |-> items[i]] /\ DOMAIN ks = 1 .. n
      /\ \A i \in 1 .. n : ks[i] = Dict(SymbolList(names), Mixed(items[i]))
  BY Zenon DEF AreRows
<1>1. DOMAIN ks = 1 .. n /\ 1 \in 1 .. n
  BY <1>0
<1>2. \A i \in 1 .. n : ks[i].t = 99 /\ ks[i].keys = SymbolList(names) /\ ks[i].vals = Mixed(items[i])
  BY <1>0 DEF Dict
<1>3. Uniform(ks, {99}) /\ ~Uniform(ks, {-KS}) /\ ~Uniform(ks, -19 .. -1)
  <2>1. ks # <<>>
    <3>1. DOMAIN <<>> = {}
      OBVIOUS
    <3> QED
      BY <1>1, <3>1
  <2>2. Uniform(ks, {99})
    BY <1>1, <1>2, <2>1, ZenonT(30) DEF Uniform
  <2>3. 1 \in DOMAIN ks /\ ks[1].t = 99
    BY <1>1, <1>2
  <2>4. 99 # -KS /\ 99 \notin -19 .. -1
    BY DEF KS
  <2> QED
    BY <2>2, <2>3, <2>4, Zenon DEF Uniform
<1>4. IsTable(ks) /\ ks[1].keys.syms = names
  <2>1. ks[1].keys.t = KS /\ ks[1].keys.syms = names
    BY <1>1, <1>2 DEF SymbolList
  <2>2. \A i \in DOMAIN ks : ks[i].keys = ks[1].keys
    BY <1>1, <1>2
  <2> QED
    BY <1>3, <2>1, <2>2, Zenon DEF IsTable
<1>5. Collapse(ks) = Table(ks[1].keys.syms, Map(ks, LAMBDA k : Items(k.vals)))
  BY <1>3, <1>4, Zenon DEF Collapse
<1>6. \A x : Items(Mixed(x)) = x
  BY DEF Items, Mixed, KS
<1>7. Map(ks, LAMBDA k : Items(k.vals)) = items
  <2>1. Map(ks, LAMBDA k : Items(k.vals)) = [i \in 1 .. n |-> items[i]]
    BY <1>1, <1>2, <1>6 DEF Map
  <2> QED
    BY <1>0, <2>1
<1> QED
  BY <1>4, <1>5, <1>7
----------------------------------------------------------------------------
(* The fields of a message type, and the object a message becomes. *)
LEMMA FieldsOf ==
    ASSUME NEW ty \in Types
    PROVE  /\ Len(Fields(ty)) \in Nat /\ DOMAIN Fields(ty) = 1 .. Len(Fields(ty))
           /\ \A i \in DOMAIN Fields(ty) :
                 Fields(ty)[i] \in ToSet(Fields(ty)) /\ IsField(Fields(ty)[i])
           /\ \A f \in ToSet(Fields(ty)) : \E i \in DOMAIN Fields(ty) : f = Fields(ty)[i]
           /\ \A i, j \in DOMAIN Fields(ty) : Fields(ty)[i].name = Fields(ty)[j].name => i = j
           /\ FieldNames(ty) = [i \in DOMAIN Fields(ty) |-> Fields(ty)[i].name]
           /\ ToSet(FieldNames(ty)) = {Fields(ty)[i].name : i \in DOMAIN Fields(ty)}
<1>1. /\ Fields(ty) \in Seq(ToSet(Fields(ty)))
      /\ \A f \in ToSet(Fields(ty)) : IsField(f)
      /\ \A i, j \in DOMAIN Fields(ty) : Fields(ty)[i].name = Fields(ty)[j].name => i = j
  BY SchemaAssumption
<1>2. /\ \A i \in DOMAIN Fields(ty) : Fields(ty)[i] \in ToSet(Fields(ty))
      /\ \A f \in ToSet(Fields(ty)) : \E i \in DOMAIN Fields(ty) : f = Fields(ty)[i]
  BY DEF ToSet
<1>3. FieldNames(ty) = [i \in DOMAIN Fields(ty) |-> Fields(ty)[i].name]
  BY DEF FieldNames, Map
<1>4. ToSet(FieldNames(ty)) = {Fields(ty)[i].name : i \in DOMAIN Fields(ty)}
  BY <1>3 DEF ToSet
<1> HIDE DEF Fields
<1>5. Len(Fields(ty)) \in Nat /\ DOMAIN Fields(ty) = 1 .. Len(Fields(ty))
  BY <1>1
<1> QED
  BY <1>1, <1>2, <1>3, <1>4, <1>5

FieldObjects(ty, m, names) ==
    [i \in DOMAIN Fields(ty) |->
        GetMessageField(Fields(ty)[i], m[Fields(ty)[i].name], names)]

LEMMA MessageShape ==
    ASSUME NEW ty \in Types, NEW m, NEW names \in BOOLEAN,
           NEW k, k = GetMessage(ty, m, names), ~IsException(k)
    PROVE  /\ \A i \in DOMAIN Fields(ty) : ~IsException(FieldObjects(ty, m, names)[i])
           /\ k = IF names THEN Dict(SymbolList(FieldNames(ty)), Mixed(FieldObjects(ty, m, names)))
                  ELSE Mixed(FieldObjects(ty, m, names))
           /\ k.t = IF names THEN 99 ELSE 0
<1> DEFINE values == FieldObjects(ty, m, names)
<1>1. k = IF AnyException(values) THEN FirstException(values)
          ELSE IF names THEN Dict(SymbolList(FieldNames(ty)), Mixed(values))
          ELSE Mixed(values)
  BY Zenon DEF GetMessage, FieldObjects
<1>2. DOMAIN values = 1 .. Len(Fields(ty)) /\ Len(Fields(ty)) \in Nat
  BY FieldsOf DEF FieldObjects
<1> HIDE DEF values
<1>3. ~AnyException(values)
  BY <1>1, <1>2, FirstIsException
<1>4. \A i \in DOMAIN values : ~IsException(values[i])
  BY <1>3, Zenon DEF AnyException
<1>5. Dict(SymbolList(FieldNames(ty)), Mixed(values)).t = 99 /\ Mixed(values).t = 0
  BY DEF Dict, Mixed
<1>6. DOMAIN values = DOMAIN Fields(ty)
  BY DEF values, FieldObjects
<1> QED
  BY <1>1, <1>3, <1>4, <1>5, <1>6 DEF values

LEMMA Shapes ==
    /\ \A x, y : Dict(x, y).t = 99 /\ Dict(x, y).keys = x /\ Dict(x, y).vals = y
    /\ \A x, y : Table(x, y).t = 98 /\ Table(x, y).names = x /\ Table(x, y).rows = y
    /\ \A x : Mixed(x).t = 0 /\ Mixed(x).items = x
    /\ \A x : SymbolList(x).t = KS /\ SymbolList(x).syms = x
  BY DEF Dict, Table, Mixed, SymbolList

(* How a field is converted, by its label. *)
LEMMA GetByLabel ==
    ASSUME NEW f, NEW v, NEW names, NEW k, k = GetMessageField(f, v, names)
    PROVE  /\ f.oneof # "" /\ v = Unset => k = Mixed(<<>>)
           /\ ~(f.oneof # "" /\ v = Unset) =>
              /\ f.label = "map" =>
                    k = GetMap(f, v, names, [x \in DOMAIN v |-> GetSub(f.value.msg, v[x], names)])
              /\ f.label = "repeated" =>
                    k = IF f.cpp = "message" THEN GetRepeatedMessage(f, v, names)
                                             ELSE GetRepeated(f, v)
              /\ f.label = "singular" =>
                    k = IF f.cpp # "message" THEN GetScalar(f, v)
                        ELSE IF v = Unset THEN GenericNull ELSE GetSub(f.msg, v, names)
<1>1. "map" # "repeated" /\ "map" # "singular" /\ "repeated" # "singular"
  OBVIOUS
<1> QED
  BY <1>1, Zenon DEF GetMessageField

LEMMA GetUnset ==
    ASSUME NEW f, NEW names
    PROVE  /\ f.oneof # "" => GetMessageField(f, Unset, names) = Mixed(<<>>)
           /\ f.oneof = "" /\ f.label = "singular" /\ f.cpp = "message" =>
                 GetMessageField(f, Unset, names) = GenericNull
<1>1. "map" # "singular" /\ "repeated" # "singular"
  OBVIOUS
<1> QED
  BY <1>1, Zenon DEF GetMessageField

LEMMA SetByLabel ==
    ASSUME NEW f, NEW k, NEW names, NEW r, r = FieldValue(f, Default(f), k, names)
    PROVE  /\ f.label = "map" =>
                 r = SetMap(f, [x \in {} |-> Unset], k, names,
                            [i \in DOMAIN MapItems(k.vals) |->
                                SetAdded(f.value.msg, MapItems(k.vals)[i], names)])
           /\ f.label = "repeated" =>
                 r = IF f.cpp = "message" THEN SetRepeatedMessage(f, <<>>, k, names)
                                          ELSE SetRepeated(f, <<>>, k)
           /\ f.label = "singular" =>
                 r = IF f.cpp # "message" THEN SetScalar(f, k) ELSE SetAdded(f.msg, k, names)
<1>1. "map" # "repeated" /\ "map" # "singular" /\ "repeated" # "singular"
  OBVIOUS
<1>2. /\ f.label = "map" => Default(f) = [x \in {} |-> Unset]
      /\ f.label = "repeated" => Default(f) = <<>>
      /\ f.label = "singular" /\ f.cpp = "message" => Default(f) = Unset
  BY <1>1, Zenon DEF Default
<1> DEFINE d == Default(f)
<1> HIDE DEF d
<1>3. r = FieldValue(f, d, k, names)
  BY DEF d
<1>4. /\ f.label = "map" =>
            r = SetMap(f, d, k, names, [i \in DOMAIN MapItems(k.vals) |->
                                SetAdded(f.value.msg, MapItems(k.vals)[i], names)])
      /\ f.label = "repeated" =>
            r = IF f.cpp = "message" THEN SetRepeatedMessage(f, d, k, names)
                                     ELSE SetRepeated(f, d, k)
      /\ f.label = "singular" =>
            r = IF f.cpp # "message" THEN SetScalar(f, k)
                ELSE SetSub(f.msg, IF d = Unset THEN NewMessage(f.msg) ELSE d, k, names)
  BY <1>1, <1>3, Zenon DEF FieldValue
<1> QED
  BY <1>2, <1>4, Zenon DEF d, SetAdded
----------------------------------------------------------------------------
(* The items that SetMessage leaves alone. *)
Skipped(f, k) == k.t = 101 \/ (f.oneof # "" /\ k = Mixed(<<>>))

LEMMA ScalarsAreSet ==
    ASSUME NEW e, IsElement(e), e.cpp # "message"
    PROVE  Unset \notin Scalars(e)
<1>1. Unset \notin STRING /\ Unset \notin Int
  BY MessagesAssumption
<1>2. 0 .. IntModulus - 1 \subseteq Int /\ {0, 1} \subseteq Int
  BY WidthAssumption
<1>3. Scalars(e) \in {0 .. IntModulus - 1, {0, 1}, STRING, Int}
  BY DEF Scalars
<1> QED
  BY <1>1, <1>2, <1>3

LEMMA Settings ==
    ASSUME NEW e
    PROVE  StringSetting(e) \in KdbStringEncodings /\ MapKeySetting(e) \in KdbStringEncodings
  BY SettingsAssumption DEF StringSetting, MapKeySetting, KdbStringEncodings

----------------------------------------------------------------------------
(* The lists of keys and values that the map v becomes. *)
IsRead(f, n, w, l, names) ==
    l = GetMapValues(f, [i \in 1 .. n |-> w[i]], names,
                     [i \in 1 .. n |-> GetSub(f.value.msg, w[i], names)])
MapLists(f, v, names, n, order, s, keys, values) ==
    /\ order = SetToSeq(DOMAIN v) /\ order \in [1 .. n -> DOMAIN v]
    /\ s = [i \in 1 .. n |-> v[order[i]]]
    /\ keys = GetList(f.key, GetMapKeyKdbType(f.key), MapKeySetting(f.key), order)
    /\ IsRead(f, n, s, values, names)
MapObject(f, keys, values) ==
    IF Thrown \in {GetMapKeyKdbType(f.key), GetMapValueKdbType(f.value)}
    THEN Exception("TypeCheckCompatible")
    ELSE IF IsException(keys) THEN keys
    ELSE IF IsException(values) THEN values
    ELSE Dict(keys, values)

LEMMA GetMapIs ==
    ASSUME NEW f, f.label = "map", f.oneof = "", NEW names, NEW v,
           NEW n, NEW order, NEW s, NEW keys, NEW values,
           MapLists(f, v, names, n, order, s, keys, values)
    PROVE  GetMessageField(f, v, names) = MapObject(f, keys, values)
<1> DEFINE subs == [x \in DOMAIN v |-> GetSub(f.value.msg, v[x], names)]
<1>0. /\ order = SetToSeq(DOMAIN v) /\ order \in [1 .. n -> DOMAIN v]
      /\ s = [i \in 1 .. n |-> v[order[i]]]
      /\ keys = GetList(f.key, GetMapKeyKdbType(f.key), MapKeySetting(f.key), order)
      /\ IsRead(f, n, s, values, names)
  BY Zenon DEF MapLists
<1>1. GetMessageField(f, v, names) = GetMap(f, v, names, subs)
  BY GetByLabel, Zenon
<1>2. DOMAIN order = 1 .. n /\ \A i \in 1 .. n : order[i] \in DOMAIN v /\ s[i] = v[order[i]]
  BY <1>0
<1>3. Map(order, LAMBDA x : v[x]) = [i \in 1 .. n |-> s[i]]
  BY <1>0, <1>2 DEF Map
<1>4. Map(order, LAMBDA x : subs[x]) = [i \in 1 .. n |-> GetSub(f.value.msg, s[i], names)]
  BY <1>0, <1>2 DEF Map
<1>5. values = GetMapValues(f, Map(order, LAMBDA x : v[x]), names, Map(order, LAMBDA x : subs[x]))
  BY <1>0, <1>3, <1>4, Zenon DEF IsRead
<1> HIDE DEF subs
<1>6. GetMap(f, v, names, subs) = MapObject(f, keys, values)
  BY <1>0, <1>5, Zenon DEF GetMap, GetElements, MapObject
<1> QED
  BY <1>1, <1>6, Zenon

(* The loop over the items of a message: what it has after each of them. *)
Steps(ty, m, given, names, n, g) ==
    g = [i \in 0 .. n |-> IF i = 0 THEN Value(m)
                          ELSE SetItem(ty, g[i - 1], given[i].found, given[i].item, names)]
Loops(ty, m, given, names, g) ==
    /\ g[0] = Value(m)
    /\ \A i \in 1 .. Len(given) :
          g[i] = SetItem(ty, g[i - 1], given[i].found, given[i].item, names)
    /\ SetItems(ty, m, given, names) = g[Len(given)]

LEMMA LoopHasSteps ==
    ASSUME NEW ty, NEW m, NEW given, NEW names, NEW n \in Nat
    PROVE  \E g : Steps(ty, m, given, names, n, g)
<1> DEFINE T == {i \in Nat : \E g : Steps(ty, m, given, names, i, g)}
<1>1. 0 \in T
  <2> DEFINE g == [i \in 0 .. 0 |-> Value(m)]
  <2>1. Steps(ty, m, given, names, 0, g)
    BY DEF Steps
  <2> QED
    BY <2>1
<1>2. ASSUME NEW j \in Nat, j \in T PROVE j + 1 \in T
  <2>1. PICK g : Steps(ty, m, given, names, j, g)
    BY <1>2
  <2>2. DOMAIN g = 0 .. j /\ g[0] = Value(m) /\ \A i \in 0 .. j :
           i # 0 => g[i] = SetItem(ty, g[i - 1], given[i].found, given[i].item, names)
    BY <2>1 DEF Steps
  <2> DEFINE next == SetItem(ty, g[j], given[j + 1].found, given[j + 1].item, names)
             h == [i \in 0 .. j + 1 |-> IF i = j + 1 THEN next ELSE g[i]]
  <2>3. ASSUME NEW i \in 0 .. j + 1
        PROVE  h[i] = IF i = 0 THEN Value(m)
                      ELSE SetItem(ty, h[i - 1], given[i].found, given[i].item, names)
    <3>1. CASE i = 0
      <4>1. i # j + 1
        BY <3>1
      <4> QED
        BY <2>2, <3>1, <4>1
    <3>2. CASE i = j + 1
      <4>1. i - 1 = j /\ j \in 0 .. j + 1 /\ j # j + 1 /\ i # 0
        BY <3>2
      <4>2. h[i - 1] = g[j]
        BY <4>1
      <4> QED
        BY <3>2, <4>1, <4>2
    <3>3. CASE i # 0 /\ i # j + 1
      <4>1. i \in 0 .. j /\ i - 1 \in 0 .. j + 1 /\ i - 1 # j + 1
        BY <3>3
      <4>2. h[i - 1] = g[i - 1] /\ h[i] = g[i]
        BY <3>3, <4>1
      <4> HIDE DEF h
      <4> QED
        BY <2>2, <3>3, <4>1, <4>2
    <3> QED
      BY <3>1, <3>2, <3>3
  <2>4. h = [i \in 0 .. j + 1 |-> h[i]]
    OBVIOUS
  <2> HIDE DEF h
  <2>5. Steps(ty, m, given, names, j + 1, h)
    BY <2>3, <2>4 DEF Steps
  <2> QED
    BY <2>5
<1> HIDE DEF T
<1>3. Nat \subseteq T
  BY <1>1, <1>2, Induction
<1> QED
  BY <1>3 DEF T

LEMMA LoopIs ==
    ASSUME NEW ty, NEW m, NEW given, NEW names, Len(given) \in Nat
    PROVE  \E g : Loops(ty, m, given, names, g)
<1> DEFINE n == Len(given)
           g == CHOOSE g : Steps(ty, m, given, names, n, g)
<1>1. Steps(ty, m, given, names, n, g)
  BY LoopHasSteps
<1>2. SetItems(ty, m, given, names) = g[n]
  BY Zenon DEF SetItems, Steps
<1> HIDE DEF g
<1>3. g[0] = Value(m)
  BY <1>1 DEF Steps
<1>4. ASSUME NEW i \in 1 .. n
      PROVE  g[i] = SetItem(ty, g[i - 1], given[i].found, given[i].item, names)
  BY <1>1 DEF Steps
<1>5. Loops(ty, m, given, names, g)
  BY <1>2, <1>3, <1>4, Zenon DEF Loops
<1> QED
  BY <1>5

LEMMA NewMessageIs ==
    ASSUME NEW ty \in Types
    PROVE  /\ DOMAIN NewMessage(ty) = ToSet(FieldNames(ty))
           /\ NewMessage(ty) = [x \in ToSet(FieldNames(ty)) |-> NewMessage(ty)[x]]
           /\ \A i \in DOMAIN Fields(ty) :
                 NewMessage(ty)[Fields(ty)[i].name] = Default(Fields(ty)[i])
<1> DEFINE Named(x) == CHOOSE f \in ToSet(Fields(ty)) : f.name = x
<1>1. NewMessage(ty) = [x \in ToSet(FieldNames(ty)) |-> Default(Named(x))]
  BY Zenon DEF NewMessage
<1>2. ASSUME NEW i \in DOMAIN Fields(ty)
      PROVE  NewMessage(ty)[Fields(ty)[i].name] = Default(Fields(ty)[i])
  <2> DEFINE x == Fields(ty)[i].name
  <2>1. /\ Fields(ty)[i] \in ToSet(Fields(ty)) /\ x \in ToSet(FieldNames(ty))
        /\ \A f \in ToSet(Fields(ty)) : \E j \in DOMAIN Fields(ty) : f = Fields(ty)[j]
        /\ \A a, b \in DOMAIN Fields(ty) : Fields(ty)[a].name = Fields(ty)[b].name => a = b
    BY FieldsOf
  <2>2. \A f \in ToSet(Fields(ty)) : f.name = x => f = Fields(ty)[i]
    BY <2>1
  <2>3. Named(x) = Fields(ty)[i]
    BY <2>1, <2>2
  <2> HIDE DEF Named
  <2> QED
    BY <1>1, <2>1, <2>3
<1> HIDE DEF Named
<1>3. DOMAIN NewMessage(ty) = ToSet(FieldNames(ty))
  BY <1>1
<1>4. NewMessage(ty) = [x \in ToSet(FieldNames(ty)) |-> NewMessage(ty)[x]]
  BY <1>1
<1> QED
  BY <1>2, <1>3, <1>4

(* Both modes set the fields in order, from the objects in order. *)
GivenOf(ty, ks) == [i \in DOMAIN Fields(ty) |-> [found |-> {Fields(ty)[i]}, item |-> ks[i]]]

LEMMA FoundByName ==
    ASSUME NEW ty \in Types, NEW i \in DOMAIN Fields(ty)
    PROVE  {f \in ToSet(Fields(ty)) : f.name = Fields(ty)[i].name} = {Fields(ty)[i]}
<1>1. /\ Fields(ty)[i] \in ToSet(Fields(ty))
      /\ \A f \in ToSet(Fields(ty)) : \E j \in DOMAIN Fields(ty) : f = Fields(ty)[j]
      /\ \A a, b \in DOMAIN Fields(ty) : Fields(ty)[a].name = Fields(ty)[b].name => a = b
  BY FieldsOf
<1>2. \A f \in ToSet(Fields(ty)) : f.name = Fields(ty)[i].name => f = Fields(ty)[i]
  BY <1>1
<1> QED
  BY <1>1, <1>2

LEMMA SetNewIs ==
    ASSUME NEW ty \in Types, NEW names \in BOOLEAN, NEW ks, ks = [i \in DOMAIN Fields(ty) |-> ks[i]],
           NEW k, k = IF names THEN Dict(SymbolList(FieldNames(ty)), Mixed(ks)) ELSE Mixed(ks)
    PROVE  SetNew(ty, k, names) = SetItems(ty, NewMessage(ty), GivenOf(ty, ks), names)
<1> DEFINE m == NewMessage(ty)
           F == Fields(ty)
<1>1. /\ Len(F) \in Nat /\ DOMAIN F = 1 .. Len(F) /\ DOMAIN ks = 1 .. Len(F) /\ Len(ks) = Len(F)
      /\ FieldNames(ty) = [i \in DOMAIN F |-> F[i].name]
  BY FieldsOf
<1> HIDE DEF m
<1>2. CASE ~names
  <2>1. k.t = 0 /\ k.items = ks
    BY <1>2, Shapes
  <2>2. ~(Len(F) = 1 /\ k.t # 0) /\ k.t = 0 /\ k.t # 101 /\ ~(Len(F) > Len(k.items))
    BY <1>1, <2>1
  <2>3. SetNew(ty, k, names) = SetMessageByIndicies(ty, m, k, names)
    BY <1>2, Zenon DEF SetNew, SetMessage, m
  <2>4. SetMessageByIndicies(ty, m, k, names) =
           SetItems(ty, m, [i \in DOMAIN F |-> [found |-> {F[i]}, item |-> k.items[i]]], names)
    BY <2>2, Zenon DEF SetMessageByIndicies
  <2> QED
    BY <2>1, <2>3, <2>4, Zenon DEF GivenOf, m
<1>3. CASE names
  <2>1. /\ k.t = 99 /\ k.keys.t = KS /\ k.vals.t = 0
        /\ k.keys.syms = FieldNames(ty) /\ k.vals.items = ks
    BY <1>3, Shapes
  <2>2. k.t # 101
    BY <2>1
  <2> DEFINE Found(n) == {f \in ToSet(Fields(ty)) : f.name = n}
             given == [i \in DOMAIN k.keys.syms |->
                          [found |-> Found(k.keys.syms[i]), item |-> k.vals.items[i]]]
  <2>3. SetNew(ty, k, names) = SetItems(ty, m, given, names)
    <3>1. SetNew(ty, k, names) = SetMessageByFieldNames(ty, m, k, names)
      BY <1>3, Zenon DEF SetNew, SetMessage, m
    <3>2. SetMessageByFieldNames(ty, m, k, names) = SetItems(ty, m, given, names)
      BY <2>1, <2>2, Zenon DEF SetMessageByFieldNames
    <3> QED
      BY <3>1, <3>2, Zenon
  <2>4. \A i \in DOMAIN F : Found(F[i].name) = {F[i]}
    BY FoundByName
  <2>5. given = GivenOf(ty, ks)
    <3>1. given = [i \in DOMAIN F |-> [found |-> Found(F[i].name), item |-> ks[i]]]
      <4> HIDE DEF Found
      <4>0. DOMAIN FieldNames(ty) = DOMAIN F /\ \A i \in DOMAIN F : FieldNames(ty)[i] = F[i].name
        BY <1>1
      <4>1. DOMAIN k.keys.syms = DOMAIN F /\ \A i \in DOMAIN F : k.keys.syms[i] = F[i].name
        BY <2>1, <4>0
      <4> QED
        BY <2>1, <4>1
    <3> HIDE DEF Found, given
    <3> QED
      BY <2>4, <3>1 DEF GivenOf
  <2> QED
    BY <2>3, <2>5, Zenon DEF m
<1> QED
  BY <1>2, <1>3

(* Each field has the value that was set, or the one it had, after the step
   for it; another member of its oneof is skipped. *)
Target(ty, ks, names, i) == FieldValue(Fields(ty)[i], Default(Fields(ty)[i]), ks[i], names)
Rejects(ty, ks, names, i) == ~Skipped(Fields(ty)[i], ks[i]) /\ Throws(Target(ty, ks, names, i))
Has(ty, ks, names, j, m) ==
    /\ m = [x \in ToSet(FieldNames(ty)) |-> m[x]]
    /\ \A i \in DOMAIN Fields(ty) : m[Fields(ty)[i].name] =
          IF i <= j /\ ~Skipped(Fields(ty)[i], ks[i]) THEN Target(ty, ks, names, i).value
          ELSE Default(Fields(ty)[i])
Exclusive(ty, ks) ==
    \A i, j \in DOMAIN Fields(ty) :
        /\ Fields(ty)[i].oneof # "" /\ Fields(ty)[i].oneof = Fields(ty)[j].oneof
        /\ ~Skipped(Fields(ty)[i], ks[i]) /\ ~Skipped(Fields(ty)[j], ks[j])
        => i = j
After(ty, ks, names, j, r) ==
    /\ Throws(r) <=> \E i \in 1 .. j : Rejects(ty, ks, names, i)
    /\ ~Throws(r) => Has(ty, ks, names, j, r.value)

LEMMA StepSets ==
    ASSUME NEW ty \in Types, NEW names \in BOOLEAN, NEW ks, Exclusive(ty, ks),
           NEW j \in Nat, j + 1 \in DOMAIN Fields(ty),
           NEW m, Has(ty, ks, names, j, m),
           ~Skipped(Fields(ty)[j + 1], ks[j + 1]), ~Throws(Target(ty, ks, names, j + 1)),
           NEW new, new = SetField(ty, m, Fields(ty)[j + 1], Target(ty, ks, names, j + 1).value)
    PROVE  Has(ty, ks, names, j + 1, new)
<1> DEFINE F == Fields(ty)
           f == F[j + 1]
           N == ToSet(FieldNames(ty))
           value == Target(ty, ks, names, j + 1).value
<1>1. /\ \A i \in DOMAIN F : F[i] \in ToSet(F) /\ IsField(F[i]) /\ F[i].name \in N
      /\ \A x \in ToSet(F) : \E i \in DOMAIN F : x = F[i]
      /\ \A a, b \in DOMAIN F : F[a].name = F[b].name => a = b
      /\ DOMAIN F = 1 .. Len(F) /\ Len(F) \in Nat
  BY FieldsOf
<1>2. /\ m = [x \in N |-> m[x]]
      /\ \A i \in DOMAIN F : m[F[i].name] =
            IF i <= j /\ ~Skipped(F[i], ks[i]) THEN Target(ty, ks, names, i).value ELSE Default(F[i])
  BY Zenon DEF Has
<1>3. new = [x \in N |-> IF x = f.name THEN value
                         ELSE IF x \in OneofOf(ty, f) THEN Unset ELSE m[x]]
  BY <1>2 DEF SetField
<1>4. ASSUME NEW i \in DOMAIN F, i # j + 1, F[i].name \in OneofOf(ty, f)
      PROVE  Default(F[i]) = Unset /\ Skipped(F[i], ks[i])
  <2>1. F[i].oneof = f.oneof /\ f.oneof # ""
    <3>1. PICK g \in ToSet(F) : g.name = F[i].name /\ g.oneof = f.oneof /\ f.oneof # ""
      BY <1>4, Zenon DEF OneofOf
    <3>2. g = F[i]
      BY <1>1, <3>1
    <3> QED
      BY <3>1, <3>2
  <2>2. Default(F[i]) = Unset
    <3>1. F[i].label = "singular" /\ F[i].oneof # ""
      BY <1>1, <2>1 DEF IsField
    <3>2. "map" # "singular" /\ "repeated" # "singular"
      OBVIOUS
    <3> QED
      BY <3>1, <3>2, Zenon DEF Default
  <2>3. Skipped(F[i], ks[i])
    BY <1>4, <2>1, Zenon DEF Exclusive
  <2> QED
    BY <2>2, <2>3
<1>5. ASSUME NEW i \in DOMAIN F
      PROVE  new[F[i].name] = IF i <= j + 1 /\ ~Skipped(F[i], ks[i])
                              THEN Target(ty, ks, names, i).value ELSE Default(F[i])
  <2>1. CASE i = j + 1
    <3>1. new[F[i].name] = value
      BY <1>1, <1>3, <2>1
    <3> QED
      BY <2>1, <3>1
  <2>2. CASE i # j + 1
    <3>1. F[i].name # f.name /\ F[i].name \in N
      BY <1>1, <2>2
    <3>2. i <= j + 1 <=> i <= j
      BY <1>1, <2>2
    <3>3. CASE F[i].name \in OneofOf(ty, f)
      <4>1. new[F[i].name] = Unset
        BY <1>3, <3>1, <3>3
      <4> QED
        BY <1>4, <2>2, <3>3, <4>1, Zenon
    <3>4. CASE F[i].name \notin OneofOf(ty, f)
      <4>1. new[F[i].name] = m[F[i].name]
        BY <1>3, <3>1, <3>4
      <4> QED
        BY <1>2, <3>2, <4>1, Zenon
    <3> QED
      BY <3>3, <3>4
  <2> QED
    BY <2>1, <2>2
<1>6. new = [x \in N |-> new[x]]
  BY <1>3
<1> QED
  BY <1>5, <1>6, Zenon DEF Has

LEMMA StepSkips ==
    ASSUME NEW ty \in Types, NEW names \in BOOLEAN, NEW ks,
           NEW j \in Nat, j + 1 \in DOMAIN Fields(ty), Skipped(Fields(ty)[j + 1], ks[j + 1]),
           NEW m, Has(ty, ks, names, j, m)
    PROVE  Has(ty, ks, names, j + 1, m)
<1>1. DOMAIN Fields(ty) = 1 .. Len(Fields(ty)) /\ Len(Fields(ty)) \in Nat
  BY FieldsOf
<1>2. \A i \in DOMAIN Fields(ty) : i # j + 1 => (i <= j + 1 <=> i <= j)
  BY <1>1
<1>3. \A i \in DOMAIN Fields(ty) :
         (i <= j + 1 /\ ~Skipped(Fields(ty)[i], ks[i])) <=> (i <= j /\ ~Skipped(Fields(ty)[i], ks[i]))
  <2>1. SUFFICES ASSUME NEW i \in DOMAIN Fields(ty)
                 PROVE  (i <= j + 1 /\ ~Skipped(Fields(ty)[i], ks[i])) <=>
                        (i <= j /\ ~Skipped(Fields(ty)[i], ks[i]))
    BY Zenon
  <2>2. CASE i = j + 1
    <3>1. Skipped(Fields(ty)[i], ks[i])
      BY <2>2
    <3> QED
      BY <3>1, Zenon
  <2>3. CASE i # j + 1
    BY <1>2, <2>3, Zenon
  <2> QED
    BY <2>2, <2>3
<1> QED
  BY <1>3, Zenon DEF Has

(* A step that has not thrown before. *)
LEMMA OneStep ==
    ASSUME NEW ty \in Types, NEW names \in BOOLEAN, NEW ks, Exclusive(ty, ks),
           NEW j \in Nat, j + 1 \in DOMAIN Fields(ty),
           NEW b, ~Throws(b), Has(ty, ks, names, j, b.value),
           NEW r, r = SetItem(ty, b, {Fields(ty)[j + 1]}, ks[j + 1], names)
    PROVE  /\ Throws(r) <=> Rejects(ty, ks, names, j + 1)
           /\ ~Throws(r) => Has(ty, ks, names, j + 1, r.value)
<1> DEFINE f == Fields(ty)[j + 1]
           k == ks[j + 1]
           m == b.value
           t == Target(ty, ks, names, j + 1)
<1>1. CASE Skipped(f, k)
  <2>1. ~Throws(r) /\ r.value = m
    <3>1. CASE k.t = 101
      BY <3>1, Zenon DEF SetItem
    <3>2. CASE k.t # 101
      <4>1. f.oneof # "" /\ k = Mixed(<<>>)
        BY <1>1, <3>2, Zenon DEF Skipped
      <4>2. (CHOOSE x \in {f} : TRUE) = f
        OBVIOUS
      <4>3. r = SetMessageField(ty, m, f, k, names)
        <5>1. {f} # {}
          OBVIOUS
        <5> HIDE DEF f
        <5>2. r = SetItem(ty, b, {f}, k, names)
          BY DEF f
        <5>3. r = SetMessageField(ty, m, CHOOSE x \in {f} : TRUE, k, names)
          BY <3>2, <5>1, <5>2, Zenon DEF SetItem
        <5> QED
          BY <4>2, <5>3, Zenon
      <4>4. r = Value(m)
        BY <4>1, <4>3, Zenon DEF SetMessageField
      <4> QED
        BY <4>4, Answers
    <3> QED
      BY <3>1, <3>2
  <2>2. Has(ty, ks, names, j + 1, m)
    BY <1>1, StepSkips, Zenon
  <2> QED
    BY <1>1, <2>1, <2>2, Zenon DEF Rejects
<1>2. CASE ~Skipped(f, k)
  <2>1. k.t # 101 /\ ~(f.oneof # "" /\ k = Mixed(<<>>))
    BY <1>2, Zenon DEF Skipped
  <2>2. r = SetMessageField(ty, m, f, k, names)
    <3>1. {f} # {} /\ (CHOOSE x \in {f} : TRUE) = f
      OBVIOUS
    <3> HIDE DEF f
    <3>2. r = SetItem(ty, b, {f}, k, names)
      BY DEF f
    <3>3. r = SetMessageField(ty, m, CHOOSE x \in {f} : TRUE, k, names)
      BY <2>1, <3>1, <3>2, Zenon DEF SetItem
    <3> QED
      BY <3>1, <3>3, Zenon
  <2>3. m[f.name] = Default(f)
    <3>1. m[f.name] = IF j + 1 <= j /\ ~Skipped(f, k) THEN t.value ELSE Default(f)
      BY Zenon DEF Has
    <3>2. ~(j + 1 <= j)
      OBVIOUS
    <3> QED
      BY <3>1, <3>2, Zenon
  <2>4. r = Assign(ty, m, f, t)
    <3>1. r = Assign(ty, m, f, FieldValue(f, m[f.name], k, names))
      BY <2>1, <2>2, Zenon DEF SetMessageField
    <3> QED
      BY <2>3, <3>1, Zenon DEF Target
  <2>5. CASE Throws(t)
    <3>1. Throws(r)
      BY <2>4, <2>5, Zenon DEF Assign
    <3> QED
      BY <1>2, <2>5, <3>1, Zenon DEF Rejects
  <2>6. CASE ~Throws(t)
    <3> DEFINE new == SetField(ty, m, f, t.value)
    <3>1. r = Value(new)
      BY <2>4, <2>6, Zenon DEF Assign
    <3>2. ~Throws(r) /\ r.value = new
      BY <3>1, Answers
    <3>3. Has(ty, ks, names, j + 1, new)
      BY <1>2, <2>6, StepSets, Zenon
    <3> QED
      BY <2>6, <3>2, <3>3, Zenon DEF Rejects
  <2> QED
    BY <2>5, <2>6
<1> QED
  BY <1>1, <1>2

LEMMA AllSteps ==
    ASSUME NEW ty \in Types, NEW names \in BOOLEAN, NEW ks, Exclusive(ty, ks)
    PROVE  After(ty, ks, names, Len(Fields(ty)),
                 SetItems(ty, NewMessage(ty), GivenOf(ty, ks), names))
<1> DEFINE n == Len(Fields(ty))
           given == GivenOf(ty, ks)
<1>1. n \in Nat /\ DOMAIN Fields(ty) = 1 .. n
  BY FieldsOf
<1>2. /\ Len(given) = n
      /\ \A i \in 1 .. n : given[i].found = {Fields(ty)[i]} /\ given[i].item = ks[i]
  BY <1>1 DEF GivenOf
<1> HIDE DEF n, given
<1>3. PICK g : Loops(ty, NewMessage(ty), given, names, g)
  BY <1>1, <1>2, LoopIs
<1>4. /\ g[0] = Value(NewMessage(ty))
      /\ \A i \in 1 .. n : g[i] = SetItem(ty, g[i - 1], {Fields(ty)[i]}, ks[i], names)
      /\ SetItems(ty, NewMessage(ty), given, names) = g[n]
  BY <1>2, <1>3, Zenon DEF Loops
<1> DEFINE T == {j \in Nat : j <= n => After(ty, ks, names, j, g[j])}
<1>5. 0 \in T
  <2>1. ~Throws(g[0]) /\ g[0].value = NewMessage(ty)
    BY <1>4, Answers
  <2>2. Has(ty, ks, names, 0, NewMessage(ty))
    <3>1. \A i \in DOMAIN Fields(ty) : ~(i <= 0)
      BY <1>1
    <3> QED
      BY <3>1, NewMessageIs, Zenon DEF Has
  <2>3. ~\E i \in 1 .. 0 : Rejects(ty, ks, names, i)
    OBVIOUS
  <2>4. After(ty, ks, names, 0, g[0])
    BY <2>1, <2>2, <2>3, Zenon DEF After
  <2> QED
    BY <2>4
<1>6. ASSUME NEW j \in Nat, j \in T PROVE j + 1 \in T
  <2>1. SUFFICES ASSUME j + 1 <= n PROVE After(ty, ks, names, j + 1, g[j + 1])
    OBVIOUS
  <2>2. j + 1 \in DOMAIN Fields(ty) /\ j + 1 \in 1 .. n /\ j <= n /\ (j + 1) - 1 = j
    BY <1>1, <2>1
  <2>3. g[j + 1] = SetItem(ty, g[j], {Fields(ty)[j + 1]}, ks[j + 1], names)
    BY <1>4, <2>2
  <2>4. After(ty, ks, names, j, g[j])
    BY <1>6, <2>2
  <2>5. \A i \in 1 .. j + 1 : i \in 1 .. j \/ i = j + 1
    OBVIOUS
  <2>6. (\A i \in 1 .. j : i \in 1 .. j + 1) /\ j + 1 \in 1 .. j + 1
    OBVIOUS
  <2>7. CASE Throws(g[j])
    <3>1. g[j + 1] = g[j]
      BY <2>3, <2>7, Zenon DEF SetItem
    <3>2. \E i \in 1 .. j : Rejects(ty, ks, names, i)
      BY <2>4, <2>7, Zenon DEF After
    <3>3. Throws(g[j + 1]) /\ \E i \in 1 .. j + 1 : Rejects(ty, ks, names, i)
      BY <2>6, <2>7, <3>1, <3>2, Zenon
    <3> QED
      BY <3>3, Zenon DEF After
  <2>8. CASE ~Throws(g[j])
    <3>1. Has(ty, ks, names, j, g[j].value) /\ ~\E i \in 1 .. j : Rejects(ty, ks, names, i)
      BY <2>4, <2>8, Zenon DEF After
    <3>2. /\ Throws(g[j + 1]) <=> Rejects(ty, ks, names, j + 1)
          /\ ~Throws(g[j + 1]) => Has(ty, ks, names, j + 1, g[j + 1].value)
      BY <2>2, <2>3, <2>8, <3>1, OneStep, Zenon
    <3>3. Throws(g[j + 1]) <=> \E i \in 1 .. j + 1 : Rejects(ty, ks, names, i)
      BY <2>5, <2>6, <3>1, <3>2, Zenon
    <3> QED
      BY <3>2, <3>3, Zenon DEF After
  <2> QED
    BY <2>7, <2>8
<1>7. n \in T
  <2> HIDE DEF T
  <2>1. Nat \subseteq T
    BY <1>5, <1>6, Induction
  <2> QED
    BY <1>1, <2>1
<1>8. After(ty, ks, names, n, g[n])
  BY <1>1, <1>7
<1> QED
  BY <1>4, <1>8, Zenon DEF n, given
----------------------------------------------------------------------------
(* A message and its parts. *)
LEMMA PartIsNested ==
    ASSUME NEW ty \in Types, NEW m \in Messages(ty),
           NEW f \in ToSet(Fields(ty)), NEW s \in Subs(f, m[f.name])
    PROVE  /\ <<Element(f).msg, s>> \in Parts(ty, m)
           /\ Nested(Element(f).msg, s) \subseteq Nested(ty, m)
           /\ <<ty, m>> \notin Nested(Element(f).msg, s)
<1> DEFINE x == <<Element(f).msg, s>>
<1>1. x \in Parts(ty, m) /\ x[1] = Element(f).msg /\ x[2] = s
  BY DEF Parts
<1>2. /\ Nested(ty, m) = {<<ty, m>>} \cup UNION {Nested(y[1], y[2]) : y \in Parts(ty, m)}
      /\ \A y \in Parts(ty, m) : <<ty, m>> \notin Nested(y[1], y[2])
  BY NestedAssumption
<1>3. Nested(x[1], x[2]) \subseteq Nested(ty, m) /\ <<ty, m>> \notin Nested(x[1], x[2])
  BY <1>1, <1>2
<1> QED
  BY <1>1, <1>3

LEMMA OfParts ==
    ASSUME NEW ty \in Types, NEW m \in Messages(ty), NEW y \in Nested(ty, m)
    PROVE  \/ y = <<ty, m>>
           \/ \E f \in ToSet(Fields(ty)) : \E s \in Subs(f, m[f.name]) : y \in Nested(Element(f).msg, s)
<1>1. Nested(ty, m) = {<<ty, m>>} \cup UNION {Nested(x[1], x[2]) : x \in Parts(ty, m)}
  BY NestedAssumption
<1>2. CASE y # <<ty, m>>
  <2>1. PICK x \in Parts(ty, m) : y \in Nested(x[1], x[2])
    BY <1>1, <1>2
  <2>2. PICK f \in ToSet(Fields(ty)) : x \in {<<Element(f).msg, s>> : s \in Subs(f, m[f.name])}
    BY <2>1 DEF Parts
  <2>3. PICK s \in Subs(f, m[f.name]) : x = <<Element(f).msg, s>>
    BY <2>2
  <2>4. x[1] = Element(f).msg /\ x[2] = s
    BY <2>3
  <2> QED
    BY <2>1, <2>4
<1> QED
  BY <1>2

LEMMA Itself ==
    ASSUME NEW ty \in Types, NEW m \in Messages(ty)
    PROVE  <<ty, m>> \in Nested(ty, m) /\ <<ty, m>>[1] = ty /\ <<ty, m>>[2] = m
<1>1. Nested(ty, m) = {<<ty, m>>} \cup UNION {Nested(x[1], x[2]) : x \in Parts(ty, m)}
  BY NestedAssumption
<1> QED
  BY <1>1

LEMMA SubsAreMessages ==
    ASSUME NEW ty \in Types, NEW m \in Messages(ty),
           NEW f \in ToSet(Fields(ty)), NEW s \in Subs(f, m[f.name])
    PROVE  Element(f).msg \in Types /\ s \in Messages(Element(f).msg)
<1> DEFINE v == m[f.name]
<1>1. IsField(f) /\ IsValue(f, v)
  <2>1. IsMessage(ty, m)
    BY MessagesAssumption
  <2> QED
    BY <2>1, SchemaAssumption DEF IsMessage
<1>2. Element(f).cpp = "message" /\ s \in Values(f, v)
  BY DEF Subs
<1>3. Element(f).msg \in Types
  BY <1>1, <1>2 DEF IsField, Describes
<1>4. ElementValues(Element(f)) = Messages(Element(f).msg)
  BY <1>2 DEF ElementValues
<1> HIDE DEF v
<1>5. CASE f.label = "map"
  <2>1. Values(f, v) = {v[x] : x \in DOMAIN v} /\ Element(f) = f.value
    BY <1>5 DEF Values, Element
  <2>2. v \in [DOMAIN v -> ElementValues(f.value)]
    BY <1>1, <1>5 DEF IsValue
  <2> QED
    BY <1>2, <1>3, <1>4, <2>1, <2>2
<1>6. CASE f.label = "repeated"
  <2>1. Values(f, v) = {v[x] : x \in DOMAIN v} /\ Element(f) = f
    BY <1>6 DEF Values, Element, ToSet
  <2>2. v \in Seq(ElementValues(f))
    BY <1>1, <1>6 DEF IsValue
  <2> QED
    BY <1>2, <1>3, <1>4, <2>1, <2>2
<1>7. CASE f.label = "singular"
  <2>1. Values(f, v) = {v} \ {Unset} /\ Element(f) = f
    BY <1>7 DEF Values, Element
  <2>2. v \in ElementValues(f) \/ v = Unset
    BY <1>1, <1>7 DEF IsValue
  <2> QED
    BY <1>2, <1>3, <1>4, <2>1, <2>2
<1> QED
  BY <1>1, <1>5, <1>6, <1>7, Zenon DEF IsField

----------------------------------------------------------------------------
(* Lists of values are no dictionaries and hold none, and q leaves them as
   they are. *)
Solid(l) ==
    /\ Items(l) = [i \in DOMAIN Items(l) |-> Items(l)[i]]
    /\ l.t # 99 /\ \A i \in DOMAIN Items(l) : Items(l)[i].t # 99
    /\ Items(l) # <<>> => Collapse(Items(l)) = l
    /\ l.t = KS => l = SymbolList(l.syms) /\ (l.syms # <<>> => DOMAIN Items(l) # {})

LEMMA UniformAs ==
    ASSUME NEW l, NEW t, 1 \in DOMAIN l, \A i \in DOMAIN l : l[i].t = t
    PROVE  \A S : Uniform(l, S) <=> t \in S
<1>1. l # <<>>
  OBVIOUS
<1> QED
  BY <1>1, Zenon DEF Uniform

LEMMA ListIsSolid ==
    ASSUME NEW e, IsElement(e), e.cpp # "message", NEW setting \in KdbStringEncodings,
           NEW n \in Nat, NEW values, DOMAIN values = 1 .. n,
           \A i \in DOMAIN values : values[i] \in Scalars(e),
           NEW l, l = GetList(e, ListKdbType(e, setting), setting, values), ~IsException(l)
    PROVE  Solid(l) /\ DOMAIN Items(l) = 1 .. n
<1> DEFINE t == ListKdbType(e, setting)
           x == Items(l)
<1>0. /\ t # Thrown /\ UU # Thrown /\ UU # KS /\ UU # 0 /\ Thrown # 0 /\ KS # 0 /\ Thrown # KS
      /\ KS # 98 /\ UU # 98 /\ KS # 99 /\ UU # 99 /\ 0 # 99 /\ 0 # 98
  <2>1. /\ UU # Thrown /\ UU # KS /\ UU # 0 /\ Thrown # 0 /\ KS # 0 /\ Thrown # KS
        /\ KS # 98 /\ UU # 98 /\ KS # 99 /\ UU # 99 /\ 0 # 99 /\ 0 # 98
    BY DEF UU, KS, Thrown
  <2>2. IsException(GetList(e, Thrown, setting, values))
    BY ListShapes, Zenon
  <2>3. t # Thrown
    BY <2>2, Zenon
  <2> QED
    BY <2>1, <2>3, Zenon
<1>1. \/ t \in {UU, KS}
      \/ t = 0 /\ setting # -KS
      \/ t \in (1 .. 19) \ {KS, UU}
  <2>1. e.cpp = "string" => t \in {UU, KS} \/ (t = 0 /\ setting # -KS)
    <3>1. CASE IsKdbTypeGuid(e)
      BY <1>0, <3>1, ListTypes
    <3>2. CASE ~IsKdbTypeGuid(e)
      BY <1>0, <3>2, ListTypes
    <3> QED
      BY <3>1, <3>2
  <2> QED
    BY <1>0, <2>1, ListTypes
<1> HIDE DEF t
<1>2. ASSUME x = [i \in 1 .. n |-> x[i]]
      PROVE  /\ x # <<>> => 1 \in DOMAIN x
             /\ Collapse(x).t # 0 <=> IsSimple(x) \/ IsTable(x)
             /\ Collapse(x).t = 0 => Collapse(x) = Mixed(x)
             /\ Uniform(x, {-KS}) => Collapse(x) = SymbolList(Map(x, LAMBDA k : k.sym))
             /\ Uniform(x, -19 .. -1) /\ x[1].t # -KS =>
                   Collapse(x) = SimpleList(-x[1].t, Map(x, LAMBDA k : k.a))
  <2> HIDE DEF x
  <2>1. x # <<>> => 1 \in DOMAIN x
    BY <1>2
  <2> QED
    BY <1>2, <2>1, Collapses
<1>3. CASE t = KS
  <2>1. l = SymbolList(Map(values, CStr))
    BY <1>0, <1>3, Zenon DEF GetList, t
  <2>2. l.t = KS /\ l = SymbolList(l.syms) /\ l.syms = [i \in 1 .. n |-> l.syms[i]]
    BY <2>1 DEF SymbolList, Map
  <2>3. x = [i \in 1 .. n |-> Symbol(l.syms[i])]
    BY <1>0, <2>2 DEF Items, Map
  <2>4. x = [i \in 1 .. n |-> x[i]] /\ \A i \in 1 .. n : x[i].t = -KS /\ x[i].sym = l.syms[i]
    BY <2>3 DEF Symbol
  <2> HIDE DEF x
  <2>5. ASSUME x # <<>> PROVE Collapse(x) = l
    <3>0. \A S : Uniform(x, S) <=> -KS \in S
      BY <1>2, <2>4, <2>5, UniformAs DEF x
    <3>1. Uniform(x, {-KS})
      BY <3>0
    <3>2. Map(x, LAMBDA k : k.sym) = l.syms
      BY <2>2, <2>4 DEF Map
    <3> QED
      BY <1>2, <2>2, <2>4, <3>1, <3>2, Zenon DEF x
  <2>6. DOMAIN x = 1 .. n /\ -KS # 99
    BY <2>4 DEF KS
  <2>7. l.syms # <<>> => DOMAIN x # {}
    <3>1. n = 0 => l.syms = <<>>
      BY <2>2
    <3>2. n # 0 => 1 \in DOMAIN x
      BY <2>6
    <3> QED
      BY <3>1, <3>2
  <2> QED
    BY <1>0, <2>2, <2>4, <2>5, <2>6, <2>7, Zenon DEF Solid, x
<1>4. CASE t = 0 /\ setting # -KS
  <2>1. l = Mixed([i \in 1 .. n |-> CharList(setting, values[i])])
    <3>1. \A w : EncodeString(setting, w) = CharList(setting, w)
      BY <1>4, Zenon DEF EncodeString
    <3> QED
      <4>1. l = GetList(e, 0, setting, values)
        BY <1>4, Zenon DEF t
      <4>2. GetList(e, 0, setting, values) =
               Mixed([i \in DOMAIN values |-> EncodeString(setting, values[i])])
        BY ListShapes, Zenon
      <4>3. [i \in DOMAIN values |-> EncodeString(setting, values[i])] =
               [i \in 1 .. n |-> CharList(setting, values[i])]
        BY <3>1
      <4> QED
        BY <4>1, <4>2, <4>3, Zenon
  <2>2. l.t = 0 /\ x = [i \in 1 .. n |-> CharList(setting, values[i])]
    <3>1. l.t = 0 /\ l.items = [i \in 1 .. n |-> CharList(setting, values[i])]
      BY <2>1 DEF Mixed
    <3> QED
      BY <1>0, <3>1, Zenon DEF Items
  <2>3. x = [i \in 1 .. n |-> x[i]] /\ \A i \in 1 .. n : x[i].t = setting
    BY <2>2 DEF CharList
  <2>4. l = Mixed(x)
    BY <2>1, <2>2
  <2>5. setting # 99 /\ setting # -KS /\ setting \notin -19 .. -1
    BY <1>4 DEF KdbStringEncodings, KS, KG, KC
  <2> HIDE DEF x
  <2>6. ASSUME x # <<>> PROVE Collapse(x) = l
    <3>1. \A S : Uniform(x, S) <=> setting \in S
      BY <1>2, <2>3, <2>6, UniformAs DEF x
    <3>2. ~IsSimple(x) /\ ~IsTable(x)
      <4>1. setting \notin {99} /\ setting \notin {-KS}
        BY <2>5
      <4> QED
        BY <2>5, <3>1, <4>1, Zenon DEF IsSimple, IsTable
    <3> QED
      BY <1>2, <2>3, <2>4, <3>2, Zenon DEF x
  <2>7. DOMAIN x = 1 .. n
    BY <2>3
  <2> QED
    BY <1>0, <2>2, <2>3, <2>5, <2>6, <2>7, ZenonT(40) DEF Solid, x
<1>5. CASE t = UU \/ t \in (1 .. 19) \ {KS, UU}
  <2>1. \E w : l = SimpleList(t, w) /\ DOMAIN w = 1 .. n /\ w = [i \in 1 .. n |-> w[i]]
    <3>1. CASE t = UU
      <4> DEFINE w == [i \in DOMAIN values |-> GuidFromString(values[i])]
      <4>1. l = SimpleList(UU, w)
        <5>1. IsException(Exception("TypeCheckGuid"))
          BY DEF IsException, Exception
        <5> QED
          BY <3>1, <5>1, ListShapes, Zenon DEF t
      <4>2. DOMAIN w = 1 .. n /\ w = [i \in 1 .. n |-> w[i]]
        OBVIOUS
      <4> QED
        BY <3>1, <4>1, <4>2, Zenon
    <3>2. CASE t \in (1 .. 19) \ {KS, UU}
      <4> DEFINE w == [i \in DOMAIN values |-> ToK(e, values[i])]
      <4>1. t \notin {Thrown, UU, KS, 0}
        BY <3>2 DEF Thrown
      <4>2. l = SimpleList(t, w)
        BY <4>1 DEF GetList, Map, t
      <4>3. DOMAIN w = 1 .. n /\ w = [i \in 1 .. n |-> w[i]]
        OBVIOUS
      <4> QED
        BY <4>2, <4>3, Zenon
    <3> QED
      BY <1>5, <3>1, <3>2
  <2>2. PICK w : l = SimpleList(t, w) /\ DOMAIN w = 1 .. n /\ w = [i \in 1 .. n |-> w[i]]
    BY <2>1, Zenon
  <2>3. l.t = t /\ l.l = w
    BY <2>2 DEF SimpleList
  <2>4. /\ t \in 1 .. 19 /\ t \notin {KS, 0, 98, 99} /\ -t \in -19 .. -1 /\ -t # -KS
        /\ -t # 99 /\ t = -(-t)
    <3>1. t \in 1 .. 19 /\ t # 11
      BY <1>5 DEF KS, UU
    <3>2. \A z \in 1 .. 19 : /\ z # 0 /\ z # 98 /\ z # 99 /\ -z \in -19 .. -1 /\ -z # 99
                            /\ z = -(-z) /\ (z # 11 => -z # -11)
      OBVIOUS
    <3>3. KS = 11
      BY DEF KS
    <3> QED
      BY <3>1, <3>2, <3>3
  <2>5. x = [i \in 1 .. n |-> Atom(-t, w[i])]
    <3>1. x = Map(w, LAMBDA v : Atom(-t, v))
      BY <2>3, <2>4 DEF Items
    <3> QED
      BY <2>2, <3>1 DEF Map
  <2>6. x = [i \in 1 .. n |-> x[i]] /\ \A i \in 1 .. n : x[i].t = -t /\ x[i].a = w[i]
    BY <2>5 DEF Atom
  <2> HIDE DEF x
  <2>7. ASSUME x # <<>> PROVE Collapse(x) = l
    <3>0. \A S : Uniform(x, S) <=> -t \in S
      BY <1>2, <2>6, <2>7, UniformAs DEF x
    <3>1. Uniform(x, -19 .. -1)
      BY <2>4, <3>0, Zenon
    <3>2. x[1].t = -t
      BY <1>2, <2>6, <2>7 DEF x
    <3>3. Map(x, LAMBDA k : k.a) = w
      BY <2>2, <2>6 DEF Map
    <3>4. Collapse(x) = SimpleList(-(-t), w)
      BY <1>2, <2>4, <2>6, <3>1, <3>2, <3>3, Zenon DEF x
    <3> QED
      BY <2>2, <2>4, <3>4
  <2>8. DOMAIN x = 1 .. n /\ l.t # KS /\ l.t # 99
    BY <2>3, <2>4, <2>6
  <2> QED
    BY <2>4, <2>6, <2>7, <2>8, Zenon DEF Solid, x
<1> QED
  BY <1>1, <1>3, <1>4, <1>5

(* Values of an element that is no message. *)
IsScalar(e) == IsElement(e) /\ e.cpp # "message"
ScalarsOf(e, n, values) ==
    DOMAIN values = 1 .. n /\ \A i \in DOMAIN values : values[i] \in Scalars(e)

LEMMA ListOfIsSolid ==
    ASSUME NEW e, IsScalar(e), NEW setting \in KdbStringEncodings,
           NEW n \in Nat, NEW values, ScalarsOf(e, n, values), NEW l,
           l = GetList(e, ListKdbType(e, setting), setting, values), ~IsException(l)
    PROVE  Solid(l) /\ DOMAIN Items(l) = 1 .. n
<1>1. DOMAIN values = 1 .. n /\ \A i \in DOMAIN values : values[i] \in Scalars(e)
  BY DEF ScalarsOf
<1>2. IsElement(e) /\ e.cpp # "message"
  BY DEF IsScalar
<1> QED
  BY <1>1, <1>2, ListIsSolid

LEMMA ScalarIsNoDictionary ==
    ASSUME NEW f, IsScalar(f), NEW v \in Scalars(f), NEW k, k = GetScalar(f, v), ~IsException(k)
    PROVE  k.t # 99
  BY AnyScalarBack DEF IsScalar

(* A map of scalars becomes two such lists. *)
LEMMA ScalarMapShape ==
    ASSUME NEW f, IsField(f), f.label = "map", f.value.cpp # "message", NEW v, IsValue(f, v),
           NEW names, NEW k, k = GetMessageField(f, v, names), ~IsException(k)
    PROVE  \E n, keys, values :
              /\ n \in Nat /\ k = Dict(keys, values) /\ Solid(keys) /\ Solid(values)
              /\ DOMAIN Items(keys) = 1 .. n /\ DOMAIN Items(values) = 1 .. n
<1> DEFINE S == DOMAIN v
           n == Cardinality(S)
           order == SetToSeq(S)
           s == [i \in 1 .. n |-> v[order[i]]]
           keys == GetList(f.key, GetMapKeyKdbType(f.key), MapKeySetting(f.key), order)
           values == GetMapValues(f, [i \in 1 .. n |-> s[i]], names,
                                  [i \in 1 .. n |-> GetSub(f.value.msg, s[i], names)])
<1>1. /\ f.oneof = "" /\ IsElement(f.value) /\ IsElement(f.key) /\ f.key.cpp # "message"
  BY DEF IsField, Describes, Element
<1>2. /\ IsFiniteSet(S) /\ S \subseteq Scalars(f.key)
      /\ \A x \in S : v[x] \in Scalars(f.value)
  <2>1. v \in [S -> ElementValues(f.value)] /\ S \subseteq Scalars(f.key) /\ IsFiniteSet(S)
    BY DEF IsValue
  <2>2. ElementValues(f.value) = Scalars(f.value)
    BY DEF ElementValues
  <2> QED
    BY <2>1, <2>2
<1>3. n \in Nat /\ order \in [1 .. n -> S]
  BY <1>2, OrderOfKeys
<1>4. /\ MapLists(f, v, names, n, order, s, keys, values)
  BY <1>3, Zenon DEF MapLists, IsRead
<1>5. values = GetList(f.value, ListKdbType(f.value, StringSetting(f.value)),
                       StringSetting(f.value), [i \in 1 .. n |-> s[i]])
  BY Zenon DEF GetMapValues, GetElements, GetMapValueKdbType
<1>6. keys = GetList(f.key, ListKdbType(f.key, MapKeySetting(f.key)), MapKeySetting(f.key), order)
  BY Zenon DEF GetMapKeyKdbType
<1>7. /\ DOMAIN order = 1 .. n /\ \A i \in DOMAIN order : order[i] \in Scalars(f.key)
      /\ \A i \in 1 .. n : s[i] \in Scalars(f.value)
  BY <1>2, <1>3
<1> HIDE DEF n, order, s, keys, values, S
<1>8. k = MapObject(f, keys, values)
  <2>1. \A a, b, c, d, g : MapLists(f, v, names, a, b, c, d, g) =>
                             GetMessageField(f, v, names) = MapObject(f, d, g)
    BY <1>1, GetMapIs, Zenon
  <2> QED
    BY <1>4, <2>1, Zenon
<1>9. k = Dict(keys, values) /\ ~IsException(keys) /\ ~IsException(values)
  <2>1. IsException(Exception("TypeCheckCompatible"))
    BY DEF IsException, Exception
  <2> QED
    BY <1>8, <2>1, Zenon DEF MapObject
<1>10. Solid(keys) /\ DOMAIN Items(keys) = 1 .. n
  <2>1. MapKeySetting(f.key) \in KdbStringEncodings
    BY Settings
  <2>2. \A l : l = GetList(f.key, ListKdbType(f.key, MapKeySetting(f.key)), MapKeySetting(f.key), order)
               /\ ~IsException(l) => Solid(l) /\ DOMAIN Items(l) = 1 .. n
    <3>1. n \in Nat
      BY <1>3
    <3>2. ScalarsOf(f.key, n, order)
      BY <1>7, Zenon DEF ScalarsOf
    <3>3. IsScalar(f.key)
      BY <1>1, Zenon DEF IsScalar
    <3> QED
      BY <2>1, <3>1, <3>2, <3>3, ListOfIsSolid
  <2> QED
    BY <1>6, <1>9, <2>2, Zenon
<1>11. Solid(values) /\ DOMAIN Items(values) = 1 .. n
  <2> DEFINE w == [i \in 1 .. n |-> s[i]]
  <2>1. StringSetting(f.value) \in KdbStringEncodings
    BY Settings
  <2>2. ScalarsOf(f.value, n, w)
    BY <1>7 DEF ScalarsOf
  <2> HIDE DEF w
  <2> QED
    <3>1. \A l : l = GetList(f.value, ListKdbType(f.value, StringSetting(f.value)),
                             StringSetting(f.value), w)
                 /\ ~IsException(l) => Solid(l) /\ DOMAIN Items(l) = 1 .. n
      <4>1. n \in Nat
        BY <1>3
      <4>2. IsScalar(f.value)
        BY <1>1, Zenon DEF IsScalar
      <4> QED
        BY <2>1, <2>2, <4>1, <4>2, ListOfIsSolid
    <3>2. values = GetList(f.value, ListKdbType(f.value, StringSetting(f.value)),
                           StringSetting(f.value), w)
      BY <1>5 DEF w
    <3> QED
      BY <1>9, <3>1, <3>2, Zenon
<1> QED
  BY <1>3, <1>9, <1>10, <1>11, Zenon

(* Only maps and sub-messages become dictionaries. *)
LEMMA NoDictionary ==
    ASSUME NEW f, IsField(f), f.label # "map", ~(f.label = "singular" /\ f.cpp = "message"),
           NEW v, IsValue(f, v), NEW names,
           NEW k, k = GetMessageField(f, v, names), ~IsException(k)
    PROVE  k.t # 99
<1>1. Mixed(<<>>).t # 99
  BY DEF Mixed
<1>2. CASE f.oneof # "" /\ v = Unset
  <2>1. k = Mixed(<<>>)
    BY <1>2, GetByLabel, Zenon
  <2> QED
    BY <1>1, <2>1, Zenon
<1>3. CASE ~(f.oneof # "" /\ v = Unset) /\ f.label = "singular"
  <2>1. IsElement(f) /\ f.cpp # "message" /\ v \in Scalars(f)
    BY <1>3 DEF IsField, Describes, Element, IsValue, ElementValues
  <2>2. k = GetScalar(f, v)
    BY <1>3, <2>1, GetByLabel, Zenon
  <2> QED
    <3>1. IsScalar(f)
      BY <2>1, Zenon DEF IsScalar
    <3> QED
      BY <2>1, <2>2, <3>1, ScalarIsNoDictionary
<1>4. CASE ~(f.oneof # "" /\ v = Unset) /\ f.label = "repeated"
  <2>1. CASE f.cpp # "message"
    <3>1. IsElement(f) /\ v \in Seq(Scalars(f))
      BY <1>4, <2>1 DEF IsField, Describes, Element, IsValue, ElementValues
    <3>2. k = GetRepeated(f, v)
      BY <1>4, <2>1, GetByLabel, Zenon
    <3>3. StringSetting(f) \in KdbStringEncodings
      BY Settings
    <3>4. k = GetList(f, ListKdbType(f, StringSetting(f)), StringSetting(f), v)
      BY <3>2, Zenon DEF GetRepeated, GetRepeatedKdbType
    <3>5. Len(v) \in Nat /\ DOMAIN v = 1 .. Len(v) /\ \A i \in DOMAIN v : v[i] \in Scalars(f)
      BY <3>1
    <3>6. Solid(k)
      BY <2>1, <3>1, <3>3, <3>4, <3>5, ListIsSolid
    <3> QED
      BY <3>6, Zenon DEF Solid
  <2>2. CASE f.cpp = "message"
    <3> DEFINE ks == [i \in DOMAIN v |-> GetSub(f.msg, v[i], names)]
    <3>1. Len(v) \in Nat /\ DOMAIN v = 1 .. Len(v)
      <4>1. v \in Seq(ElementValues(f))
        BY <1>4 DEF IsValue
      <4> QED
        BY <4>1
    <3>2. k = GetRepeatedMessage(f, v, names)
      BY <1>4, <2>2, GetByLabel, Zenon
    <3>3. k = IF AnyException(ks) THEN FirstException(ks)
             ELSE IF names THEN Collapse(ks) ELSE Mixed(ks)
      BY <3>2, Zenon DEF GetRepeatedMessage
    <3>4. ks = [i \in 1 .. Len(v) |-> ks[i]] /\ DOMAIN ks = 1 .. Len(v)
      BY <3>1
    <3> HIDE DEF ks
    <3>5. ~AnyException(ks)
      BY <3>1, <3>3, <3>4, FirstIsException
    <3>6. Collapse(ks).t # 99
      <4>1. ks # <<>> => 1 \in DOMAIN ks
        BY <3>1, <3>4
      <4> QED
        BY <4>1, Collapses, Zenon
    <3>7. Mixed(ks).t # 99
      BY DEF Mixed
    <3> QED
      BY <3>3, <3>5, <3>6, <3>7
  <2> QED
    BY <2>1, <2>2
<1> QED
  BY <1>2, <1>3, <1>4 DEF IsField
----------------------------------------------------------------------------
(* Row i of the table of the messages s: the column of each field, and what
   the row has of it. *)
AllGiven(ty, s) == \A j \in DOMAIN s : ~IsException(GetSub(ty, s[j], TRUE))
FieldColumn(f, s) == [j \in DOMAIN s |-> GetMessageField(f, s[j][f.name], TRUE)]
RowItems(ty, s, i) ==
    [j \in DOMAIN Fields(ty) |-> RowItem(FieldColumn(Fields(ty)[j], s), i)]

LEMMA GroupIs ==
    ASSUME NEW ty \in Types, NEW s \in Groups(ty)
    PROVE  /\ Len(s) \in Nat /\ Len(s) # 0 /\ DOMAIN s = 1 .. Len(s)
           /\ s = [i \in DOMAIN s |-> s[i]] /\ \A i \in DOMAIN s : s[i] \in Messages(ty)
           /\ FieldNames(ty) # <<>>
<1>1. s \in Seq(Messages(ty)) /\ s # <<>> /\ Fields(ty) # <<>>
  BY GroupsAssumption
<1>2. Len(s) \in Nat /\ Len(s) # 0 /\ DOMAIN s = 1 .. Len(s)
  BY <1>1
<1>3. s = [i \in DOMAIN s |-> s[i]] /\ \A i \in DOMAIN s : s[i] \in Messages(ty)
  BY <1>1
<1>4. FieldNames(ty) # <<>>
  <2>1. DOMAIN FieldNames(ty) = 1 .. Len(Fields(ty))
    BY FieldsOf
  <2>2. Len(Fields(ty)) # 0
    <3>1. Fields(ty) \in Seq(ToSet(Fields(ty)))
      BY SchemaAssumption
    <3> HIDE DEF Fields
    <3> QED
      BY <1>1, <3>1
  <2>3. Len(Fields(ty)) \in Nat
    BY FieldsOf
  <2>4. 1 \in DOMAIN FieldNames(ty)
    BY <2>1, <2>2, <2>3
  <2>5. DOMAIN <<>> = {}
    OBVIOUS
  <2> QED
    BY <2>4, <2>5
<1> QED
  BY <1>2, <1>3, <1>4

LEMMA GivenMessage ==
    ASSUME NEW ty \in Types, NEW m \in Messages(ty),
           NEW k, k = GetSub(ty, m, TRUE), ~IsException(k)
    PROVE  /\ k = GetMessage(ty, m, TRUE)
           /\ k = Dict(SymbolList(FieldNames(ty)), Mixed(FieldObjects(ty, m, TRUE)))
           /\ \A f \in ToSet(Fields(ty)) :
                 /\ IsField(f) /\ IsValue(f, m[f.name])
                 /\ ~IsException(GetMessageField(f, m[f.name], TRUE))
<1>1. k = GetMessage(ty, m, TRUE)
  BY RecursionAssumption
<1>2. /\ k = Dict(SymbolList(FieldNames(ty)), Mixed(FieldObjects(ty, m, TRUE)))
      /\ \A i \in DOMAIN Fields(ty) : ~IsException(FieldObjects(ty, m, TRUE)[i])
  BY <1>1, MessageShape
<1>3. ASSUME NEW f \in ToSet(Fields(ty))
      PROVE  /\ IsField(f) /\ IsValue(f, m[f.name])
             /\ ~IsException(GetMessageField(f, m[f.name], TRUE))
  <2>1. PICK i \in DOMAIN Fields(ty) : f = Fields(ty)[i]
    BY FieldsOf
  <2>2. ~IsException(GetMessageField(f, m[f.name], TRUE))
    BY <1>2, <2>1 DEF FieldObjects
  <2>3. IsMessage(ty, m)
    BY MessagesAssumption
  <2> QED
    BY <2>2, <2>3, SchemaAssumption DEF IsMessage
<1> QED
  BY <1>1, <1>2, <1>3

LEMMA RowIs ==
    ASSUME NEW ty \in Types, NEW s \in Groups(ty), AllGiven(ty, s), NEW i \in DOMAIN s
    PROVE  Row(ty, s, i) = Dict(SymbolList(FieldNames(ty)), Collapse(RowItems(ty, s, i)))
<1> DEFINE n == Len(s)
           N == FieldNames(ty)
           F == Fields(ty)
           ks == [j \in DOMAIN s |-> GetSub(ty, s[j], TRUE)]
           items == [j \in DOMAIN s |-> FieldObjects(ty, s[j], TRUE)]
<1>1. /\ n \in Nat /\ n # 0 /\ DOMAIN s = 1 .. n /\ N # <<>>
      /\ \A j \in DOMAIN s : s[j] \in Messages(ty)
  BY GroupIs
<1>2. \A j \in DOMAIN s : ks[j] = Dict(SymbolList(N), Mixed(items[j]))
  <2>1. ASSUME NEW j \in DOMAIN s
        PROVE  ks[j] = Dict(SymbolList(N), Mixed(items[j]))
    <3>1. s[j] \in Messages(ty) /\ ~IsException(ks[j]) /\ ks[j] = GetSub(ty, s[j], TRUE)
      BY <1>1 DEF AllGiven
    <3>2. items[j] = FieldObjects(ty, s[j], TRUE)
      OBVIOUS
    <3> HIDE DEF ks, items, N
    <3> QED
      BY <3>1, <3>2, GivenMessage DEF N
  <2> QED
    BY <2>1
<1>3. items = [j \in 1 .. n |-> items[j]] /\ DOMAIN ks = 1 .. n /\ DOMAIN items = 1 .. n
  BY <1>1
<1>4. /\ \A j \in DOMAIN s : DOMAIN items[j] = DOMAIN F
      /\ \A j \in DOMAIN s, a \in DOMAIN F :
            items[j][a] = GetMessageField(F[a], s[j][F[a].name], TRUE)
  BY DEF FieldObjects
<1> HIDE DEF n, N, ks, items
<1>5. Collapse(ks) = Table(N, items)
  <2>1. AreRows(n, N, items, ks)
    BY <1>1, <1>2, <1>3, Zenon DEF AreRows
  <2> QED
    BY <1>1, <2>1, CollapsesToTable, Zenon
<1> DEFINE Item(j) == RowItem(Column(items, j), i)
<1>6. Row(ty, s, i) = Dict(SymbolList(N), Collapse([j \in DOMAIN items[i] |-> Item(j)]))
  <2>1. Row(ty, s, i) = Slice(Collapse(ks), i)
    BY Zenon DEF Row, ks
  <2>2. \A x, y : Slice(Table(x, y), i) =
            Dict(SymbolList(x), Collapse([j \in DOMAIN y[i] |-> RowItem(Column(y, j), i)]))
    BY Shapes, SMTT(30) DEF Slice
  <2> QED
    BY <1>5, <2>1, <2>2, Zenon
<1>7. \A j \in DOMAIN F : Column(items, j) = FieldColumn(F[j], s)
  <2>1. SUFFICES ASSUME NEW j \in DOMAIN F PROVE Column(items, j) = FieldColumn(F[j], s)
    BY Zenon
  <2>2. Column(items, j) = [a \in DOMAIN s |-> items[a][j]]
    BY <1>1, <1>3, Zenon DEF Column
  <2>3. \A a \in DOMAIN s : items[a][j] = GetMessageField(F[j], s[a][F[j].name], TRUE)
    BY <1>4
  <2> QED
    BY <2>2, <2>3, Zenon DEF FieldColumn
<1>8. [j \in DOMAIN items[i] |-> Item(j)] = RowItems(ty, s, i)
  <2>1. DOMAIN items[i] = DOMAIN F
    BY <1>4
  <2>2. \A j \in DOMAIN F : Item(j) = RowItem(FieldColumn(F[j], s), i)
    BY <1>7, Zenon
  <2> HIDE DEF Item, F
  <2> QED
    BY <2>1, <2>2, Zenon DEF RowItems, F
<1> QED
  BY <1>6, <1>8, Zenon DEF N
----------------------------------------------------------------------------
(* What is to be shown of a row, and of what it has of a field: they are
   converted as the message and its field are, unless q makes a simple list or
   a table of a row, of this table or of one nested in it. *)
RowAlike(ty, s, i) ==
    LET x == Row(ty, s, i)
        k == GetMessage(ty, s[i], TRUE)
        r == SetNew(ty, x, TRUE)
        q == SetNew(ty, k, TRUE) IN
    /\ x.t = 99 /\ x.keys = k.keys
    /\ Throws(r) <=> Throws(q) \/ FlatIn(ty, s, i)
    /\ ~Throws(r) => r.value = q.value

FlatColumn(f, s, i) == NestedTable(f, s) /\ FlatIn(f.msg, ColumnOf(f, s), i)
ItemAlike(f, s, i, x, k) ==
    LET r == FieldValue(f, Default(f), x, TRUE)
        q == FieldValue(f, Default(f), k, TRUE) IN
    /\ x = k \/ (x.t = 99 /\ k.t = 99 /\ x.keys = k.keys)
    /\ FlatColumn(f, s, i) => k.t = 99
    /\ Throws(r) <=> Throws(q) \/ FlatColumn(f, s, i)
    /\ ~Throws(r) => r.value = q.value

LEMMA SameItem ==
    ASSUME NEW f, NEW s, NEW i, NEW x, NEW k, x = k, ~NestedTable(f, s)
    PROVE  ItemAlike(f, s, i, x, k)
  BY Zenon DEF ItemAlike, FlatColumn

(* The row of a table of maps of scalars is the map. *)
ColumnIs(f, n, w, column) ==
    /\ column = [j \in 1 .. n |-> GetMessageField(f, w[j], TRUE)]
    /\ \A j \in 1 .. n : IsValue(f, w[j]) /\ ~IsException(column[j])

LEMMA SliceOfMaps ==
    ASSUME NEW f, IsField(f), f.label = "map", f.value.cpp # "message",
           NEW len \in Nat, NEW w, NEW column, ColumnIs(f, len, w, column), IsTable(column),
           NEW i \in 1 .. len
    PROVE  Slice(Collapse(column), i) = column[i]
<1> DEFINE keys == column[1].keys
           rows == Map(column, LAMBDA k : Items(k.vals))
           names == TRUE
<1>1. /\ column = [j \in 1 .. len |-> column[j]] /\ DOMAIN column = 1 .. len
      /\ \A j \in 1 .. len : /\ column[j] = GetMessageField(f, w[j], names)
                             /\ IsValue(f, w[j]) /\ ~IsException(column[j])
  BY DEF ColumnIs
<1> HIDE DEF keys, rows, names
<1>2. PICK n, k, l : /\ n \in Nat /\ column[i] = Dict(k, l) /\ Solid(k) /\ Solid(l)
                     /\ DOMAIN Items(k) = 1 .. n /\ DOMAIN Items(l) = 1 .. n
  BY <1>1, ScalarMapShape
<1>3. column[i].keys = k /\ column[i].vals = l
  BY <1>2, Shapes
<1>4. k = keys /\ keys.t = KS /\ keys.syms # <<>>
  BY <1>1, <1>3, Zenon DEF IsTable, keys
<1>5. k = SymbolList(keys.syms) /\ n # 0
  <2>1. k = SymbolList(keys.syms) /\ DOMAIN Items(k) # {}
    BY <1>2, <1>4, Zenon DEF Solid
  <2>2. n = 0 => DOMAIN Items(k) = {}
    BY <1>2
  <2> QED
    BY <2>1, <2>2
<1>6. Collapse(column) = Table(keys.syms, rows)
  <2>1. IsTable(column) => Collapse(column) = Table(keys.syms, rows)
    <3>1. column # <<>> => 1 \in DOMAIN column
      BY <1>1
    <3> QED
      BY <3>1, Collapses, Zenon DEF keys, rows
  <2> QED
    BY <2>1, Zenon
<1>7. rows[i] = Items(l) /\ DOMAIN rows = 1 .. len
  BY <1>1, <1>3 DEF rows, Map
<1>8. ASSUME NEW j \in 1 .. n
      PROVE  RowItem(Column(rows, j), i) = Items(l)[j]
  <2>1. Column(rows, j)[i] = Items(l)[j] /\ DOMAIN Column(rows, j) = 1 .. len
    BY <1>7 DEF Column
  <2>2. Items(l)[j].t # 99
    BY <1>2, Zenon DEF Solid
  <2>3. ~IsTable(Column(rows, j))
    <3>1. IsTable(Column(rows, j)) => Column(rows, j)[i].t \in {99}
      BY <2>1, Zenon DEF IsTable, Uniform
    <3> QED
      BY <2>1, <2>2, <3>1
  <2> QED
    BY <2>1, <2>3, Zenon DEF RowItem
<1>9. Slice(Table(keys.syms, rows), i) = Dict(SymbolList(keys.syms), Collapse(Items(l)))
  <2> DEFINE y == [j \in DOMAIN rows[i] |-> RowItem(Column(rows, j), i)]
  <2>1. Slice(Table(keys.syms, rows), i) = Dict(SymbolList(keys.syms), Collapse(y))
    BY Shapes, SMTT(30) DEF Slice
  <2>2. y = [j \in 1 .. n |-> Items(l)[j]]
    <3>1. DOMAIN rows[i] = 1 .. n
      BY <1>2, <1>7
    <3> QED
      BY <1>8, <3>1, Zenon
  <2>3. Items(l) = [j \in 1 .. n |-> Items(l)[j]]
    <3>1. Items(l) = [j \in DOMAIN Items(l) |-> Items(l)[j]]
      BY <1>2, Zenon DEF Solid
    <3> QED
      BY <1>2, <3>1, Zenon
  <2> HIDE DEF y
  <2> QED
    BY <2>1, <2>2, <2>3, Zenon
<1>10. Collapse(Items(l)) = l
  <2>1. Items(l) # <<>>
    <3>1. 1 \in DOMAIN Items(l)
      BY <1>2, <1>5
    <3> QED
      BY <3>1
  <2> QED
    BY <1>2, <2>1, Zenon DEF Solid
<1> QED
  BY <1>2, <1>5, <1>6, <1>9, <1>10, Zenon

(* A message that is converted has the names of its fields as keys. *)
GetNamed(ty, m) == GetSub(ty, m, TRUE)

LEMMA KeysOfMessage ==
    ASSUME NEW ty \in Types, NEW m \in Messages(ty), NEW k, k = GetNamed(ty, m), ~IsException(k)
    PROVE  k.t = 99 /\ k.keys = SymbolList(FieldNames(ty))
<1> DEFINE z == Mixed(FieldObjects(ty, m, TRUE))
<1>1. k = Dict(SymbolList(FieldNames(ty)), z)
  BY GivenMessage DEF GetNamed
<1> HIDE DEF z
<1> QED
  BY <1>1 DEF Dict

LEMMA ColumnGiven ==
    ASSUME NEW ty \in Types, NEW s \in Groups(ty), AllGiven(ty, s), NEW f \in ToSet(Fields(ty))
    PROVE  /\ IsField(f)
           /\ \A j \in DOMAIN s : IsValue(f, s[j][f.name]) /\ ~IsException(FieldColumn(f, s)[j])
           /\ Map(ColumnOf(f, s), LAMBDA v : GetMessageField(f, v, TRUE)) = FieldColumn(f, s)
<1>1. \A j \in DOMAIN s : s[j] \in Messages(ty) /\ ~IsException(GetSub(ty, s[j], TRUE))
  BY GroupIs DEF AllGiven
<1>2. ASSUME NEW j \in DOMAIN s
      PROVE  /\ IsValue(f, s[j][f.name])
             /\ ~IsException(GetMessageField(f, s[j][f.name], TRUE))
  BY <1>1, GivenMessage
<1>3. IsField(f)
  BY SchemaAssumption
<1>4. Map(ColumnOf(f, s), LAMBDA v : GetMessageField(f, v, TRUE)) = FieldColumn(f, s)
  BY DEF Map, ColumnOf, FieldColumn
<1>5. \A j \in DOMAIN s : FieldColumn(f, s)[j] = GetMessageField(f, s[j][f.name], TRUE)
  BY DEF FieldColumn
<1> QED
  BY <1>2, <1>3, <1>4, <1>5

(* A column is a table exactly when it is one of sub-messages that are all
   there, or of maps. *)
LEMMA NestedColumn ==
    ASSUME NEW ty \in Types, NEW s \in Groups(ty), AllGiven(ty, s), NEW f \in ToSet(Fields(ty)),
           NestedTable(f, s)
    PROVE  /\ f.msg \in Types /\ ColumnOf(f, s) \in Groups(f.msg) /\ AllGiven(f.msg, ColumnOf(f, s))
           /\ DOMAIN ColumnOf(f, s) = DOMAIN s
           /\ \A j \in DOMAIN s :
                 /\ ColumnOf(f, s)[j] = s[j][f.name]
                 /\ ColumnOf(f, s)[j] \in Subs(f, s[j][f.name]) /\ Element(f).msg = f.msg
                 /\ FieldColumn(f, s)[j] = GetNamed(f.msg, ColumnOf(f, s)[j])
           /\ IsTable(FieldColumn(f, s))
<1> DEFINE c == ColumnOf(f, s)
           column == FieldColumn(f, s)
<1>0. /\ f.label = "singular" /\ f.cpp = "message" /\ Fields(f.msg) # <<>>
      /\ \A j \in DOMAIN s : s[j][f.name] # Unset
  BY DEF NestedTable
<1>1. IsField(f) /\ Element(f) = f /\ f.msg \in Types
  BY <1>0, SchemaAssumption DEF IsField, Element, Describes
<1>2. c \in Groups(f.msg)
  <2>1. <<f.msg, c>> \in Columns(ty, s)
    BY DEF Columns
  <2>2. <<f.msg, c>>[1] = f.msg /\ <<f.msg, c>>[2] = c
    OBVIOUS
  <2> QED
    BY <2>1, <2>2, GroupsAssumption
<1>3. DOMAIN c = DOMAIN s /\ \A j \in DOMAIN s : c[j] = s[j][f.name]
  BY DEF ColumnOf
<1>4. \A j \in DOMAIN s : c[j] \in Subs(f, s[j][f.name])
  BY <1>0, <1>1, <1>3 DEF Subs, Values
<1>5. \A j \in DOMAIN s : column[j] = GetSub(f.msg, c[j], TRUE)
  <2>1. \A j \in DOMAIN s : column[j] = GetMessageField(f, c[j], TRUE)
    BY <1>3 DEF FieldColumn
  <2>2. \A x : x # Unset => GetMessageField(f, x, TRUE) = GetSub(f.msg, x, TRUE)
    BY <1>0, GetByLabel, Zenon
  <2> QED
    BY <1>0, <1>3, <2>1, <2>2, Zenon
<1> HIDE DEF c, column
<1>6. \A j \in DOMAIN s : ~IsException(column[j])
  BY ColumnGiven DEF column
<1>7. AllGiven(f.msg, c)
  BY <1>3, <1>5, <1>6, Zenon DEF AllGiven
<1>8. IsTable(column)
  <2>1. /\ DOMAIN c = 1 .. Len(c) /\ Len(c) \in Nat /\ Len(c) # 0 /\ FieldNames(f.msg) # <<>>
        /\ \A j \in DOMAIN c : c[j] \in Messages(f.msg)
    BY <1>1, <1>2, GroupIs
  <2>2. \A j \in DOMAIN s : column[j].t = 99 /\ column[j].keys = SymbolList(FieldNames(f.msg))
    <3>1. SUFFICES ASSUME NEW j \in DOMAIN s
                   PROVE  column[j].t = 99 /\ column[j].keys = SymbolList(FieldNames(f.msg))
      OBVIOUS
    <3>2. column[j] = GetNamed(f.msg, c[j])
      BY <1>5 DEF GetNamed
    <3> QED
      BY <1>1, <1>3, <1>6, <2>1, <3>2, KeysOfMessage
  <2>3. DOMAIN column = DOMAIN s /\ 1 \in DOMAIN column
    <3>1. DOMAIN column = DOMAIN s
      BY DEF column, FieldColumn
    <3>2. 1 \in 1 .. Len(c)
      BY <2>1
    <3> QED
      BY <1>3, <2>1, <3>1, <3>2, Zenon
  <2>4. Uniform(column, {99})
    <3>1. \A j \in DOMAIN column : column[j].t = 99
      BY <2>2, <2>3
    <3> QED
      BY <2>3, <3>1, UniformAs
  <2>5. column[1].keys.t = KS /\ column[1].keys.syms # <<>>
    BY <2>1, <2>2, <2>3, Shapes
  <2> QED
    BY <2>2, <2>3, <2>4, <2>5 DEF IsTable
<1>9. \A j \in DOMAIN s : column[j] = GetNamed(f.msg, c[j])
  BY <1>5, Zenon DEF GetNamed
<1> QED
  BY <1>1, <1>2, <1>3, <1>4, <1>7, <1>8, <1>9, Zenon DEF c, column

LEMMA OneOfTheTables ==
    ASSUME NEW ty \in Types, NEW s \in Groups(ty), AllGiven(ty, s), NEW f \in ToSet(Fields(ty)),
           IsTable(FieldColumn(f, s))
    PROVE  (f.label = "map" /\ f.value.cpp # "message") \/ NestedTable(f, s)
<1> DEFINE column == FieldColumn(f, s)
<1>1. \A j \in DOMAIN s : /\ column[j] = GetMessageField(f, s[j][f.name], TRUE)
                          /\ column[j].t = 99 /\ column[j].keys = column[1].keys
                          /\ IsValue(f, s[j][f.name]) /\ ~IsException(column[j])
  <2>1. DOMAIN column = DOMAIN s
    BY DEF FieldColumn
  <2>2. \A j \in DOMAIN s : column[j] = GetMessageField(f, s[j][f.name], TRUE)
    BY DEF FieldColumn
  <2> HIDE DEF column
  <2>3. \A j \in DOMAIN s : column[j].t \in {99} /\ column[j].keys = column[1].keys
    BY <2>1, Zenon DEF IsTable, Uniform, column
  <2> QED
    BY <2>2, <2>3, ColumnGiven, ZenonT(40) DEF column
<1>2. IsField(f) /\ 1 \in DOMAIN s
  <2>1. Len(s) \in Nat /\ Len(s) # 0 /\ DOMAIN s = 1 .. Len(s)
    BY GroupIs
  <2>2. 1 \in 1 .. Len(s)
    BY <2>1
  <2>3. IsField(f)
    BY SchemaAssumption
  <2> QED
    BY <2>1, <2>2, <2>3, Zenon
<1> HIDE DEF column
<1>3. CASE f.label = "map"
  <2>1. f.value.cpp # "message"
    <3>1. \A j \in DOMAIN s : ~IsException(GetSub(ty, s[j], TRUE))
      BY DEF AllGiven
    <3>2. IsTable(Map(ColumnOf(f, s), LAMBDA v : GetMessageField(f, v, TRUE)))
      BY ColumnGiven
    <3> QED
      BY <1>2, <1>3, <3>1, <3>2, RowsAssumption
  <2> QED
    BY <1>3, <2>1
<1>4. CASE f.label # "map"
  <2>1. f.label = "singular" /\ f.cpp = "message"
    <3> DEFINE names == TRUE
    <3>1. column[1] = GetMessageField(f, s[1][f.name], names)
      BY <1>1, <1>2
    <3> HIDE DEF names
    <3>2. column[1].t = 99 /\ ~IsException(column[1]) /\ IsValue(f, s[1][f.name])
      BY <1>1, <1>2
    <3> QED
      BY <1>2, <1>4, <3>1, <3>2, NoDictionary
  <2>2. \A j \in DOMAIN s : s[j][f.name] # Unset
    <3>1. SUFFICES ASSUME NEW j \in DOMAIN s, s[j][f.name] = Unset PROVE FALSE
      OBVIOUS
    <3>2. column[j] = GetMessageField(f, Unset, TRUE)
      BY <1>1, <3>1
    <3>3. column[j] \in {Mixed(<<>>), GenericNull}
      BY <2>1, <3>2, GetUnset
    <3>4. Mixed(<<>>).t # 99 /\ GenericNull.t # 99
      BY DEF Mixed, GenericNull
    <3> QED
      BY <1>1, <3>3, <3>4
  <2>3. Fields(f.msg) # <<>>
    <3>1. f.msg \in Types /\ Element(f) = f
      BY <1>2, <2>1 DEF IsField, Element, Describes
    <3>2. s[1][f.name] \in Messages(f.msg)
      BY <1>1, <1>2, <2>1, <2>2 DEF IsValue, ElementValues
    <3>3. column[1] = GetSub(f.msg, s[1][f.name], TRUE)
      <4>1. \A x : x # Unset => GetMessageField(f, x, TRUE) = GetSub(f.msg, x, TRUE)
        BY <2>1, GetByLabel, Zenon
      <4>2. column[1] = GetMessageField(f, s[1][f.name], TRUE) /\ s[1][f.name] # Unset
        BY <1>1, <1>2, <2>2
      <4> QED
        BY <4>1, <4>2, Zenon
    <3>4. column[1].keys = SymbolList(FieldNames(f.msg))
      <4>1. column[1] = GetNamed(f.msg, s[1][f.name])
        BY <3>3 DEF GetNamed
      <4>2. ~IsException(column[1])
        BY <1>1, <1>2
      <4> QED
        BY <3>1, <3>2, <4>1, <4>2, KeysOfMessage
    <3>5. FieldNames(f.msg) # <<>>
      <4>1. column[1].keys.syms # <<>>
        BY Zenon DEF IsTable, column
      <4>2. \A x : SymbolList(x).syms = x
        BY DEF SymbolList
      <4> QED
        BY <3>4, <4>1, <4>2, Zenon
    <3>6. Fields(f.msg) = <<>> => FieldNames(f.msg) = <<>>
      BY DEF FieldNames, Map
    <3> QED
      BY <3>5, <3>6
  <2> QED
    BY <2>1, <2>2, <2>3, Zenon DEF NestedTable
<1> QED
  BY <1>3, <1>4

LEMMA FieldAlike ==
    ASSUME NEW ty \in Types, NEW s \in Groups(ty), AllGiven(ty, s), NEW i \in DOMAIN s,
           NEW f \in ToSet(Fields(ty)), NestedTable(f, s) => RowAlike(f.msg, ColumnOf(f, s), i)
    PROVE  ItemAlike(f, s, i, RowItem(FieldColumn(f, s), i), FieldColumn(f, s)[i])
<1> DEFINE column == FieldColumn(f, s)
           c == ColumnOf(f, s)
           x == RowItem(column, i)
           k == column[i]
<1>1. /\ IsField(f)
      /\ \A j \in DOMAIN s : IsValue(f, s[j][f.name]) /\ ~IsException(column[j])
      /\ Map(c, LAMBDA v : GetMessageField(f, v, TRUE)) = column
  BY ColumnGiven
<1>2. IsTable(column) => SliceSub(column, i) = Slice(Collapse(column), i)
  <2>1. \A j \in DOMAIN s : ~IsException(GetSub(ty, s[j], TRUE))
    BY DEF AllGiven
  <2>2. IsTable(Map(c, LAMBDA v : GetMessageField(f, v, TRUE))) =>
           SliceSub(Map(c, LAMBDA v : GetMessageField(f, v, TRUE)), i) =
              Slice(Collapse(Map(c, LAMBDA v : GetMessageField(f, v, TRUE))), i)
    BY <2>1, RowsAssumption
  <2> HIDE DEF column, c
  <2> QED
    BY <1>1, <2>2
<1>3. NestedTable(f, s) => f.label = "singular" /\ f.cpp = "message"
  BY DEF NestedTable
<1>4. NestedTable(f, s) => IsTable(column)
  BY NestedColumn
<1>5. CASE ~IsTable(column)
  <2>1. x = k
    BY <1>5, Zenon DEF RowItem
  <2> QED
    BY <1>4, <1>5, <2>1, SameItem
<1>6. x = SliceSub(column, i) \/ ~IsTable(column)
  BY Zenon DEF RowItem
<1>7. CASE IsTable(column) /\ ~NestedTable(f, s)
  <2>1. f.label = "map" /\ f.value.cpp # "message"
    BY <1>7, OneOfTheTables
  <2> DEFINE w == [j \in DOMAIN s |-> s[j][f.name]]
             n == Len(s)
  <2>2. n \in Nat /\ DOMAIN s = 1 .. n
    BY GroupIs
  <2>3. /\ column = [j \in 1 .. n |-> GetMessageField(f, w[j], TRUE)]
        /\ \A j \in 1 .. n : IsValue(f, w[j])
    BY <1>1, <2>2 DEF FieldColumn
  <2>4. \A j \in 1 .. n : ~IsException(column[j])
    BY <1>1, <2>2
  <2> HIDE DEF w, n, column
  <2>5. ColumnIs(f, n, w, column)
    BY <2>3, <2>4, Zenon DEF ColumnIs
  <2>6. Slice(Collapse(column), i) = column[i]
    BY <1>1, <1>7, <2>1, <2>2, <2>5, SliceOfMaps
  <2>7. x = k
    BY <1>2, <1>6, <1>7, <2>6, Zenon DEF column
  <2> QED
    BY <1>7, <2>7, SameItem DEF column
<1>8. CASE NestedTable(f, s)
  <2>1. /\ f.msg \in Types /\ c \in Groups(f.msg) /\ AllGiven(f.msg, c)
        /\ DOMAIN c = DOMAIN s
        /\ \A j \in DOMAIN s : column[j] = GetSub(f.msg, c[j], TRUE)
    BY <1>8, NestedColumn DEF GetNamed
  <2>2. x = Row(f.msg, c, i)
    <3>1. column = [j \in DOMAIN c |-> GetSub(f.msg, c[j], TRUE)]
      BY <2>1 DEF FieldColumn
    <3> HIDE DEF column, c
    <3> QED
      BY <1>2, <1>4, <1>6, <1>8, <3>1, Zenon DEF Row
  <2>3. c[i] \in Messages(f.msg) /\ ~IsException(k) /\ k = GetSub(f.msg, c[i], TRUE)
    <3>1. \A j \in DOMAIN c : c[j] \in Messages(f.msg)
      BY <2>1, GroupIs
    <3> QED
      BY <1>1, <2>1, <3>1
  <2> HIDE DEF column, c, x, k
  <2>4. k = GetMessage(f.msg, c[i], TRUE) /\ k.t = 99
    <3>1. /\ k = GetMessage(f.msg, c[i], TRUE)
          /\ k = Dict(SymbolList(FieldNames(f.msg)), Mixed(FieldObjects(f.msg, c[i], TRUE)))
      BY <2>1, <2>3, GivenMessage
    <3>2. k = GetNamed(f.msg, c[i])
      BY <2>3 DEF GetNamed
    <3>3. f.msg \in Types /\ c[i] \in Messages(f.msg) /\ ~IsException(k)
      BY <2>1, <2>3, Zenon
    <3>4. k.t = 99
      BY <3>2, <3>3, KeysOfMessage
    <3> QED
      BY <3>1, <3>4, Zenon
  <2>5. FieldValue(f, Default(f), x, TRUE) = SetNew(f.msg, x, TRUE)
    <3>1. SetAdded(f.msg, x, TRUE) = SetNew(f.msg, x, TRUE)
      <4>1. \A j \in DOMAIN c : ~IsException(GetSub(f.msg, c[j], TRUE))
        BY <2>1 DEF AllGiven
      <4> QED
        BY <2>1, <2>2, <4>1, RowsAssumption
    <3> QED
      BY <1>3, <1>8, <3>1, SetByLabel, Zenon
  <2>6. FieldValue(f, Default(f), k, TRUE) = SetNew(f.msg, k, TRUE)
    <3>1. SetAdded(f.msg, k, TRUE) = SetNew(f.msg, k, TRUE)
      BY <2>1, <2>3, <2>4, RecursionAssumption, ZenonT(40)
    <3> QED
      BY <1>3, <1>8, <3>1, SetByLabel, Zenon
  <2>7. RowAlike(f.msg, c, i)
    BY <1>8 DEF c
  <2> QED
    BY <1>8, <2>2, <2>4, <2>5, <2>6, <2>7, Zenon DEF RowAlike, ItemAlike, FlatColumn, column, c, x, k
<1> QED
  BY <1>5, <1>7, <1>8
----------------------------------------------------------------------------
(* Rows, and the rows of the tables in them. *)
LEMMA FlatInIs ==
    ASSUME NEW ty \in Types, NEW s \in Groups(ty), NEW i
    PROVE  FlatIn(ty, s, i) <=>
              Flat(ty, s[i]) \/ \E f \in ToSet(Fields(ty)) : FlatColumn(f, s, i)
<1>1. TablesOf(ty, s) = {<<ty, s>>} \cup UNION {TablesOf(c[1], c[2]) : c \in Columns(ty, s)}
  BY GroupsAssumption
<1>2. <<ty, s>>[1] = ty /\ <<ty, s>>[2] = s
  OBVIOUS
<1>3. ASSUME Flat(ty, s[i]) PROVE FlatIn(ty, s, i)
  <2>1. <<ty, s>> \in TablesOf(ty, s)
    BY <1>1
  <2> QED
    BY <1>2, <1>3, <2>1, Zenon DEF FlatIn
<1>4. ASSUME NEW f \in ToSet(Fields(ty)), FlatColumn(f, s, i) PROVE FlatIn(ty, s, i)
  <2> DEFINE x == <<f.msg, ColumnOf(f, s)>>
  <2>1. x[1] = f.msg /\ x[2] = ColumnOf(f, s)
    OBVIOUS
  <2>2. x \in Columns(ty, s)
    BY <1>4 DEF Columns, FlatColumn
  <2>3. FlatIn(f.msg, ColumnOf(f, s), i)
    BY <1>4, Zenon DEF FlatColumn
  <2> HIDE DEF x
  <2>4. TablesOf(x[1], x[2]) \subseteq TablesOf(ty, s)
    BY <1>1, <2>2
  <2>5. PICK c \in TablesOf(f.msg, ColumnOf(f, s)) : Flat(c[1], c[2][i])
    BY <2>3, Zenon DEF FlatIn
  <2>6. c \in TablesOf(ty, s)
    BY <2>1, <2>4, <2>5
  <2> QED
    BY <2>5, <2>6, Zenon DEF FlatIn
<1>5. ASSUME NEW c \in TablesOf(ty, s), Flat(c[1], c[2][i])
      PROVE  Flat(ty, s[i]) \/ \E f \in ToSet(Fields(ty)) : FlatColumn(f, s, i)
  <2>1. CASE c = <<ty, s>>
    <3>1. c[1] = ty /\ c[2] = s
      BY <2>1
    <3> QED
      BY <1>5, <3>1
  <2>2. CASE c # <<ty, s>>
    <3>1. PICK x \in Columns(ty, s) : c \in TablesOf(x[1], x[2])
      BY <1>1, <2>2
    <3>2. PICK f \in {g \in ToSet(Fields(ty)) : NestedTable(g, s)} : x = <<f.msg, ColumnOf(f, s)>>
      BY <3>1 DEF Columns
    <3>3. x[1] = f.msg /\ x[2] = ColumnOf(f, s)
      BY <3>2
    <3>4. c \in TablesOf(f.msg, ColumnOf(f, s))
      BY <3>1, <3>3
    <3>5. FlatIn(f.msg, ColumnOf(f, s), i)
      BY <1>5, <3>4, Zenon DEF FlatIn
    <3>6. f \in ToSet(Fields(ty)) /\ NestedTable(f, s)
      BY <3>2
    <3> QED
      BY <3>5, <3>6, Zenon DEF FlatColumn
  <2> QED
    BY <2>1, <2>2
<1> QED
  BY <1>3, <1>4, <1>5, Zenon DEF FlatIn

(* What q makes of a list depends on the types and the keys of its items. *)
Like(x, k) == x = k \/ (x.t = 99 /\ k.t = 99 /\ x.keys = k.keys)

LEMMA LikeLists ==
    ASSUME NEW n \in Nat, NEW x, x = [i \in 1 .. n |-> x[i]], NEW y, y = [i \in 1 .. n |-> y[i]],
           \A i \in 1 .. n : Like(x[i], y[i])
    PROVE  Collapse(x).t # 0 <=> Collapse(y).t # 0
<1>1. DOMAIN x = 1 .. n /\ DOMAIN y = 1 .. n
  OBVIOUS
<1>2. /\ x = <<>> <=> y = <<>>
      /\ x # <<>> => 1 \in 1 .. n
  OBVIOUS
<1>3. \A i \in 1 .. n : x[i].t = y[i].t /\ (x[i].t = 99 => x[i].keys = y[i].keys)
  BY Zenon DEF Like
<1>4. ASSUME NEW S PROVE Uniform(x, S) <=> Uniform(y, S)
  <2>1. CASE x = <<>>
    BY <1>2, <2>1, Zenon DEF Uniform
  <2>2. CASE x # <<>>
    BY <1>1, <1>2, <1>3, <2>2, Zenon DEF Uniform
  <2> QED
    BY <2>1, <2>2
<1>5. IsSimple(x) <=> IsSimple(y)
  <2>1. CASE x = <<>>
    BY <1>2, <2>1, Zenon
  <2>2. CASE x # <<>>
    BY <1>2, <1>3, <1>4, <2>2, Zenon DEF IsSimple
  <2> QED
    BY <2>1, <2>2
<1>6. IsTable(x) <=> IsTable(y)
  <2>1. CASE ~Uniform(x, {99})
    BY <1>4, <2>1, Zenon DEF IsTable
  <2>2. CASE Uniform(x, {99})
    <3>1. 1 \in 1 .. n
      BY <1>2, <2>2, Zenon DEF Uniform
    <3>2. \A i \in 1 .. n : x[i].t \in {99}
      BY <1>1, <2>2, Zenon DEF Uniform
    <3>3. \A i \in 1 .. n : x[i].keys = y[i].keys
      BY <1>3, <3>2
    <3> QED
      BY <1>1, <1>4, <2>2, <3>1, <3>3, Zenon DEF IsTable
  <2> QED
    BY <2>1, <2>2
<1>7. (x # <<>> => 1 \in DOMAIN x) /\ (y # <<>> => 1 \in DOMAIN y)
  BY <1>1, <1>2, Zenon
<1>8. Collapse(x).t # 0 <=> IsSimple(x) \/ IsTable(x)
  BY <1>7, Collapses, Zenon
<1>9. Collapse(y).t # 0 <=> IsSimple(y) \/ IsTable(y)
  BY <1>7, Collapses, Zenon
<1> QED
  BY <1>5, <1>6, <1>8, <1>9, Zenon

(* Of a oneof, at most one member is not skipped. *)
LEMMA FieldsExclude ==
    ASSUME NEW ty \in Types, NEW m \in Messages(ty), NEW names \in BOOLEAN,
           NEW ks, ks = FieldObjects(ty, m, names)
    PROVE  Exclusive(ty, ks)
<1> DEFINE F == Fields(ty)
<1>1. /\ \A i \in DOMAIN F : F[i] \in ToSet(F)
      /\ \A i, j \in DOMAIN F : F[i].name = F[j].name => i = j
  BY FieldsOf
<1>2. \A i \in DOMAIN F : ks[i] = GetMessageField(F[i], m[F[i].name], names)
  BY DEF FieldObjects
<1>3. \A f, g \in ToSet(F) :
         f.oneof # "" /\ f.oneof = g.oneof /\ Unset \notin {m[f.name], m[g.name]} => f = g
  <2>1. IsMessage(ty, m)
    BY MessagesAssumption
  <2> QED
    BY <2>1, Zenon DEF IsMessage
<1>4. ASSUME NEW i \in DOMAIN F, F[i].oneof # "", ~Skipped(F[i], ks[i])
      PROVE  m[F[i].name] # Unset
  <2>1. m[F[i].name] = Unset => ks[i] = Mixed(<<>>)
    BY <1>2, <1>4, GetUnset
  <2> QED
    BY <1>4, <2>1, Zenon DEF Skipped
<1>5. ASSUME NEW i \in DOMAIN F, NEW j \in DOMAIN F,
             F[i].oneof # "", F[i].oneof = F[j].oneof,
             ~Skipped(F[i], ks[i]), ~Skipped(F[j], ks[j])
      PROVE  i = j
  <2>1. m[F[i].name] # Unset /\ m[F[j].name] # Unset
    BY <1>4, <1>5, Zenon
  <2>2. F[i] = F[j]
    BY <1>1, <1>3, <1>5, <2>1
  <2> QED
    BY <1>1, <2>2
<1> QED
  BY <1>5, Zenon DEF Exclusive

(* The items of a row are taken as those of the message are, but for the rows
   of nested tables that are rejected. *)
AreAlike(ty, s, i, y, ks) == \A j \in DOMAIN Fields(ty) : ItemAlike(Fields(ty)[j], s, i, y[j], ks[j])

SetGiven(ty, ks) == SetItems(ty, NewMessage(ty), GivenOf(ty, ks), TRUE)

LEMMA ItemsAreSet ==
    ASSUME NEW ty \in Types, NEW s, NEW i, NEW ks, Exclusive(ty, ks), NEW y, AreAlike(ty, s, i, y, ks),
           NEW r, r = SetGiven(ty, y), NEW q, q = SetGiven(ty, ks)
    PROVE  /\ Throws(r) <=> Throws(q) \/ \E f \in ToSet(Fields(ty)) : FlatColumn(f, s, i)
           /\ ~Throws(r) => r.value = q.value
<1> USE DEF SetGiven
<1> DEFINE F == Fields(ty)
           n == Len(F)
<1>1. /\ n \in Nat /\ DOMAIN F = 1 .. n
      /\ \A j \in DOMAIN F : F[j] \in ToSet(F)
      /\ \A f \in ToSet(F) : \E j \in DOMAIN F : f = F[j]
      /\ ToSet(FieldNames(ty)) = {F[j].name : j \in DOMAIN F}
  BY FieldsOf
<1>2. ASSUME NEW j \in DOMAIN F
      PROVE  /\ Skipped(F[j], y[j]) <=> Skipped(F[j], ks[j])
             /\ FlatColumn(F[j], s, i) => ~Skipped(F[j], ks[j])
             /\ Throws(Target(ty, y, TRUE, j)) <=>
                   Throws(Target(ty, ks, TRUE, j)) \/ FlatColumn(F[j], s, i)
             /\ ~Throws(Target(ty, y, TRUE, j)) =>
                   Target(ty, y, TRUE, j).value = Target(ty, ks, TRUE, j).value
  <2>1. ItemAlike(F[j], s, i, y[j], ks[j])
    BY Zenon DEF AreAlike
  <2>2. \A k : k.t = 99 => ~Skipped(F[j], k)
    <3>1. Mixed(<<>>).t # 99
      BY DEF Mixed
    <3>2. 99 # 101
      OBVIOUS
    <3> QED
      BY <3>1, <3>2, Zenon DEF Skipped
  <2> QED
    BY <2>1, <2>2, Zenon DEF ItemAlike, Target
<1>3. Exclusive(ty, y)
  BY <1>2, Zenon DEF Exclusive
<1>4. After(ty, y, TRUE, n, r) /\ After(ty, ks, TRUE, n, q)
  <2>1. After(ty, y, TRUE, n, r)
    BY <1>3, AllSteps
  <2>2. After(ty, ks, TRUE, n, q)
    BY AllSteps
  <2> QED
    BY <2>1, <2>2
<1>5. \A j \in DOMAIN F : Rejects(ty, y, TRUE, j) <=> Rejects(ty, ks, TRUE, j) \/ FlatColumn(F[j], s, i)
  BY <1>2, Zenon DEF Rejects
<1>6. /\ Throws(r) <=> \E j \in DOMAIN F : Rejects(ty, y, TRUE, j)
      /\ Throws(q) <=> \E j \in DOMAIN F : Rejects(ty, ks, TRUE, j)
  BY <1>1, <1>4, Zenon DEF After
<1>7. (\E f \in ToSet(F) : FlatColumn(f, s, i)) <=> \E j \in DOMAIN F : FlatColumn(F[j], s, i)
  <2>1. ASSUME NEW f \in ToSet(F), FlatColumn(f, s, i)
        PROVE  \E j \in DOMAIN F : FlatColumn(F[j], s, i)
    <3>1. PICK j \in DOMAIN F : f = F[j]
      BY <1>1
    <3>2. FlatColumn(F[j], s, i)
      BY <2>1, <3>1
    <3> QED
      BY <3>2, Zenon
  <2> QED
    BY <1>1, <2>1, Zenon
<1>8. Throws(r) <=> Throws(q) \/ \E f \in ToSet(F) : FlatColumn(f, s, i)
  BY <1>5, <1>6, <1>7, Zenon
<1>9. ASSUME ~Throws(r) PROVE r.value = q.value
  <2>1. Has(ty, y, TRUE, n, r.value) /\ Has(ty, ks, TRUE, n, q.value)
    BY <1>4, <1>8, <1>9, Zenon DEF After
  <2>2. /\ r.value = [x \in ToSet(FieldNames(ty)) |-> r.value[x]]
        /\ q.value = [x \in ToSet(FieldNames(ty)) |-> q.value[x]]
    BY <2>1, Zenon DEF Has
  <2>3. ASSUME NEW j \in DOMAIN F PROVE r.value[F[j].name] = q.value[F[j].name]
    <3>1. /\ r.value[F[j].name] = IF j <= n /\ ~Skipped(F[j], y[j])
                                  THEN Target(ty, y, TRUE, j).value ELSE Default(F[j])
          /\ q.value[F[j].name] = IF j <= n /\ ~Skipped(F[j], ks[j])
                                  THEN Target(ty, ks, TRUE, j).value ELSE Default(F[j])
      BY <2>1, Zenon DEF Has
    <3>2. ~Rejects(ty, y, TRUE, j)
      BY <1>6, <1>9, Zenon
    <3> QED
      BY <1>2, <3>1, <3>2, Zenon DEF Rejects
  <2>4. \A x \in ToSet(FieldNames(ty)) : r.value[x] = q.value[x]
    BY <1>1, <2>3
  <2>5. [x \in ToSet(FieldNames(ty)) |-> r.value[x]] = [x \in ToSet(FieldNames(ty)) |-> q.value[x]]
    BY <2>4
  <2> QED
    BY <2>2, <2>5, Zenon
<1> QED
  BY <1>8, <1>9

LEMMA RowIsAlike ==
    ASSUME NEW ty \in Types, NEW s \in Groups(ty), AllGiven(ty, s), NEW i \in DOMAIN s,
           \A f \in ToSet(Fields(ty)) : NestedTable(f, s) => RowAlike(f.msg, ColumnOf(f, s), i)
    PROVE  RowAlike(ty, s, i)
<1> DEFINE F == Fields(ty)
           n == Len(F)
           N == FieldNames(ty)
           m == s[i]
           k == GetMessage(ty, m, TRUE)
           x == Row(ty, s, i)
           ks == FieldObjects(ty, m, TRUE)
           y == RowItems(ty, s, i)
           r == SetNew(ty, x, TRUE)
           q == SetNew(ty, k, TRUE)
<1>1. m \in Messages(ty) /\ ~IsException(GetSub(ty, m, TRUE))
  BY GroupIs DEF AllGiven
<1>2. k = Dict(SymbolList(N), Mixed(ks))
  BY <1>1, GivenMessage
<1>3. x = Dict(SymbolList(N), Collapse(y))
  BY RowIs
<1>4. \A a, b : a = Dict(SymbolList(N), b) => a.t = 99 /\ a.keys = SymbolList(N) /\ a.vals = b
  BY DEF Dict
<1>5. \A b : Mixed(b).items = b /\ SymbolList(N).t = KS
  BY DEF Mixed, SymbolList
<1>6. n \in Nat /\ DOMAIN F = 1 .. n /\ \A j \in DOMAIN F : F[j] \in ToSet(F)
  BY FieldsOf
<1>7. /\ ks = [j \in 1 .. n |-> ks[j]] /\ y = [j \in 1 .. n |-> y[j]]
      /\ \A j \in DOMAIN F : /\ y[j] = RowItem(FieldColumn(F[j], s), i)
                             /\ ks[j] = FieldColumn(F[j], s)[i]
  BY <1>6 DEF FieldObjects, RowItems, FieldColumn
<1>8. AreAlike(ty, s, i, y, ks)
  <2>1. ASSUME NEW j \in DOMAIN F PROVE ItemAlike(F[j], s, i, y[j], ks[j])
    <3> DEFINE f == F[j]
    <3>1. f \in ToSet(F)
      BY <1>6
    <3> HIDE DEF f
    <3>2. ItemAlike(f, s, i, RowItem(FieldColumn(f, s), i), FieldColumn(f, s)[i])
      BY <3>1, FieldAlike
    <3> QED
      BY <1>7, <3>2, Zenon DEF f
  <2> HIDE DEF y, ks
  <2> QED
    BY <2>1, Zenon DEF AreAlike
<1>9. Collapse(y).t # 0 <=> Flat(ty, m)
  <2>1. \A j \in 1 .. n : Like(y[j], ks[j])
    <3> HIDE DEF y, ks
    <3> QED
      BY <1>6, <1>8, Zenon DEF AreAlike, ItemAlike, Like
  <2> HIDE DEF y, ks
  <2>2. Collapse(y).t # 0 <=> Collapse(ks).t # 0
    BY <1>6, <1>7, <2>1, LikeLists, SMTT(40)
  <2>3. k.vals.items = ks
    <3> HIDE DEF k
    <3>1. k.vals = Mixed(ks)
      BY <1>2, <1>4, Zenon
    <3>2. Mixed(ks).items = ks
      BY <1>5, Zenon
    <3> QED
      BY <3>1, <3>2, Zenon
  <2> QED
    BY <2>2, <2>3, Zenon DEF Flat
<1>10. x.t = 99 /\ x.keys = k.keys
  <2> HIDE DEF x, k, y, ks
  <2> QED
    BY <1>2, <1>3, <1>4, ZenonT(40)
<1>11. FlatIn(ty, s, i) <=> Flat(ty, m) \/ \E f \in ToSet(F) : FlatColumn(f, s, i)
  BY FlatInIs
<1>12. CASE Flat(ty, m)
  <2>1. x.keys.t = KS /\ x.vals.t # 0
    BY <1>3, <1>9, <1>12, Shapes
  <2>2. r = Throw("TypeCheckFieldValues")
    <3>1. x.t # 101
      BY <1>10
    <3> HIDE DEF x
    <3> QED
      BY <1>10, <2>1, <3>1, Zenon DEF SetNew, SetMessage, SetMessageByFieldNames, r
  <2>3. Throws(r)
    BY <2>2, Answers
  <2> HIDE DEF x, k, r, q, F, m
  <2> QED
    BY <1>10, <1>11, <1>12, <2>3, Zenon DEF RowAlike, x, k, r, q, m
<1>13. CASE ~Flat(ty, m)
  <2>1. x = Dict(SymbolList(N), Mixed(y))
    <3> HIDE DEF y
    <3>1. Collapse(y) = Mixed(y)
      <4>1. y # <<>> => 1 \in DOMAIN y
        BY <1>6, <1>7
      <4>2. Collapse(y).t = 0
        BY <1>9, <1>13
      <4> QED
        BY <4>1, <4>2, Collapses, Zenon
    <3> QED
      BY <1>3, <3>1
  <2>2. r = SetItems(ty, NewMessage(ty), GivenOf(ty, y), TRUE)
    <3> HIDE DEF y, x
    <3> QED
      BY <1>6, <1>7, <2>1, SetNewIs
  <2>3. q = SetItems(ty, NewMessage(ty), GivenOf(ty, ks), TRUE)
    <3> HIDE DEF ks, k
    <3> QED
      BY <1>2, <1>6, <1>7, SetNewIs
  <2>4. Exclusive(ty, ks)
    BY <1>1, FieldsExclude
  <2> HIDE DEF x, k, r, q, F, m, y, ks
  <2>5. /\ Throws(r) <=> Throws(q) \/ \E f \in ToSet(Fields(ty)) : FlatColumn(f, s, i)
        /\ ~Throws(r) => r.value = q.value
    <3>1. r = SetGiven(ty, y) /\ q = SetGiven(ty, ks)
      BY <2>2, <2>3, Zenon DEF SetGiven
    <3> QED
      BY <1>8, <2>4, <3>1, ItemsAreSet
  <2> QED
    BY <1>10, <1>11, <1>13, <2>5, Zenon DEF RowAlike, x, k, r, q, m, F
<1> QED
  BY <1>12, <1>13

(* Every row q slices from a table of messages, by induction on the messages
   nested in the one it is made of. *)
LEMMA RowsAlike ==
    ASSUME NEW ty \in Types, NEW s \in Groups(ty), AllGiven(ty, s), NEW i \in DOMAIN s
    PROVE  RowAlike(ty, s, i)
<1> DEFINE size(x, y) == Cardinality(Nested(x, y))
           Good(x, y, j) == AllGiven(x, y) => RowAlike(x, y, j)
           Bad == {c \in Nat : \E x \in Types : \E y \in Groups(x) : \E j \in DOMAIN y :
                      size(x, y[j]) = c /\ ~Good(x, y, j)}
<1>1. ASSUME NEW x \in Types, NEW y \in Messages(x)
      PROVE  IsFiniteSet(Nested(x, y)) /\ size(x, y) \in Nat
  BY NestedAssumption, FS_CardinalityType
<1>2. ASSUME Bad # {} PROVE FALSE
  <2>1. Bad \subseteq Nat
    OBVIOUS
  <2>2. PICK c \in Bad : \A d \in Bad : c <= d
    <3> HIDE DEF Bad
    <3> QED
      BY <1>2, <2>1, LeastNatural
  <2>3. PICK x \in Types : \E y \in Groups(x) : \E j \in DOMAIN y :
            size(x, y[j]) = c /\ ~Good(x, y, j)
    BY <2>2
  <2>4. PICK y \in Groups(x) : \E j \in DOMAIN y : size(x, y[j]) = c /\ ~Good(x, y, j)
    BY <2>3
  <2>5. PICK j \in DOMAIN y : size(x, y[j]) = c /\ ~Good(x, y, j)
    BY <2>4
  <2>6. y[j] \in Messages(x)
    BY GroupIs
  <2>7. AllGiven(x, y) /\ ~RowAlike(x, y, j)
    BY <2>5
  <2>8. ASSUME NEW f \in ToSet(Fields(x)), NestedTable(f, y)
        PROVE  RowAlike(f.msg, ColumnOf(f, y), j)
    <3> DEFINE t == f.msg
               w == ColumnOf(f, y)
    <3>1. /\ t \in Types /\ w \in Groups(t) /\ AllGiven(t, w) /\ j \in DOMAIN w
          /\ w[j] \in Subs(f, y[j][f.name]) /\ Element(f).msg = t
      BY <2>7, <2>8, NestedColumn
    <3>2. w[j] \in Messages(t)
      BY <2>6, <3>1, SubsAreMessages
    <3> HIDE DEF t, w
    <3>3. /\ Nested(t, w[j]) \subseteq Nested(x, y[j])
          /\ <<x, y[j]>> \notin Nested(t, w[j]) /\ <<x, y[j]>> \in Nested(x, y[j])
      <4>1. /\ Nested(Element(f).msg, w[j]) \subseteq Nested(x, y[j])
            /\ <<x, y[j]>> \notin Nested(Element(f).msg, w[j])
        BY <2>6, <3>1, PartIsNested, Zenon
      <4>2. <<x, y[j]>> \in Nested(x, y[j])
        BY <2>6, Itself, Zenon
      <4> QED
        BY <3>1, <4>1, <4>2
    <3>4. size(t, w[j]) < size(x, y[j])
      <4>1. /\ Cardinality(Nested(t, w[j])) <= Cardinality(Nested(x, y[j]))
            /\ Cardinality(Nested(x, y[j])) = Cardinality(Nested(t, w[j])) =>
                  Nested(x, y[j]) = Nested(t, w[j])
        BY <1>1, <2>6, <3>3, FS_Subset
      <4>2. Nested(x, y[j]) # Nested(t, w[j])
        BY <3>3
      <4>3. size(t, w[j]) \in Nat /\ size(x, y[j]) \in Nat
        BY <1>1, <2>6, <3>1, <3>2
      <4> QED
        BY <4>1, <4>2, <4>3
    <3>5. size(t, w[j]) \in Nat /\ size(t, w[j]) \notin Bad
      <4>1. size(t, w[j]) \in Nat /\ c \in Nat
        BY <1>1, <3>1, <3>2
      <4> HIDE DEF Bad, size
      <4> QED
        BY <2>2, <2>5, <3>4, <4>1
    <3> HIDE DEF size
    <3>6. Good(t, w, j)
      <4> HIDE DEF Good
      <4> QED
        BY <3>1, <3>5, Zenon DEF Bad
    <3> QED
      BY <3>1, <3>6, Zenon DEF t, w
  <2>9. RowAlike(x, y, j)
    BY <2>7, <2>8, RowIsAlike
  <2> QED
    BY <2>7, <2>9, Zenon
<1>3. Bad = {}
  BY <1>2
<1>4. s[i] \in Messages(ty)
  BY GroupIs
<1> HIDE DEF Bad, size
<1>5. ~\E c \in Bad : TRUE
  BY <1>3
<1>6. size(ty, s[i]) \in Nat
  BY <1>1, <1>4
<1> QED
  BY <1>5, <1>6, Zenon DEF Bad
----------------------------------------------------------------------------
(* What is to be shown of a message: the object it becomes is accepted, unless
   it has a flat row, and is converted back to what the message was. *)
MessageBack(ty, m, names) ==
    LET k == GetMessage(ty, m, names)
        r == SetNew(ty, k, names) IN
    ~IsException(k) =>
        /\ Throws(r) <=> names /\ FlatRows(ty, m)
        /\ ~Throws(r) =>
              /\ \A f \in ToSet(Fields(ty)) : Restored(f, r.value[f.name], m[f.name], names)
              /\ Exact(ty, m, names) => r.value = m
              /\ KeysKept(ty, m) => GetMessage(ty, r.value, names) = k

(* The same of a sub-message that is added from an object or a row of a table;
   flat tells if that row, or one nested in it, is flat. *)
SubBack(ty, m, row, names, flat) ==
    LET r == SetAdded(ty, row, names) IN
    /\ Throws(r) <=> names /\ (FlatRows(ty, m) \/ flat)
    /\ ~Throws(r) =>
          /\ r.value \in Messages(ty)
          /\ Exact(ty, m, names) => r.value = m
          /\ KeysKept(ty, m) => GetSub(ty, r.value, names) = GetSub(ty, m, names)

LEMMA ObjectBack ==
    ASSUME NEW ty \in Types, NEW m \in Messages(ty), NEW names \in BOOLEAN,
           MessageBack(ty, m, names), NEW k, k = GetSub(ty, m, names), ~IsException(k)
    PROVE  /\ SubBack(ty, m, k, names, FALSE)
           /\ k = GetMessage(ty, m, names)
<1>1. k = GetMessage(ty, m, names)
  BY RecursionAssumption
<1> DEFINE r == SetAdded(ty, k, names)
<1>2. r = SetNew(ty, k, names)
  BY <1>1, RecursionAssumption
<1> HIDE DEF r
<1>3. Throws(r) <=> names /\ FlatRows(ty, m)
  BY <1>1, <1>2, Zenon DEF MessageBack
<1>4. ASSUME ~Throws(r)
      PROVE  /\ r.value \in Messages(ty)
             /\ Exact(ty, m, names) => r.value = m
             /\ KeysKept(ty, m) => GetSub(ty, r.value, names) = k
  <2>1. r.value \in Messages(ty)
    BY <1>1, <1>2, <1>4, RecursionAssumption
  <2>2. /\ Exact(ty, m, names) => r.value = m
        /\ KeysKept(ty, m) => GetMessage(ty, r.value, names) = k
    BY <1>1, <1>2, <1>4, Zenon DEF MessageBack
  <2>3. GetSub(ty, r.value, names) = GetMessage(ty, r.value, names)
    BY <2>1, RecursionAssumption
  <2> QED
    BY <2>1, <2>2, <2>3
<1>5. Throws(r) <=> names /\ (FlatRows(ty, m) \/ FALSE)
  BY <1>3, Zenon
<1>6. SubBack(ty, m, k, names, FALSE)
  BY <1>4, <1>5, Zenon DEF SubBack, r
<1> QED
  BY <1>1, <1>6

(* The messages s of a list, and what is converted back: the objects they
   become or, with field names, the rows of their table. *)
IsGiven(row) == row.t # 101
Listing(ty, n, s, names) ==
    /\ n \in Nat /\ s = [i \in 1 .. n |-> s[i]]
    /\ \A i \in 1 .. n : s[i] \in Messages(ty) /\ ~IsException(GetSub(ty, s[i], names))
    /\ names /\ n # 0 => s \in Groups(ty)
ItemOf(ty, s, i, names) == IF names THEN Row(ty, s, i) ELSE GetSub(ty, s[i], names)

LEMMA ListingGiven ==
    ASSUME NEW ty \in Types, NEW names \in BOOLEAN, NEW n, n # 0, NEW s, Listing(ty, n, s, names), names
    PROVE  s \in Groups(ty) /\ AllGiven(ty, s) /\ DOMAIN s = 1 .. n
<1>1. /\ s = [i \in 1 .. n |-> s[i]] /\ s \in Groups(ty)
      /\ \A i \in 1 .. n : ~IsException(GetSub(ty, s[i], names))
  BY Zenon DEF Listing
<1>2. DOMAIN s = 1 .. n /\ names = TRUE
  BY <1>1
<1> QED
  BY <1>1, <1>2 DEF AllGiven

LEMMA RowBack ==
    ASSUME NEW ty \in Types, NEW names \in BOOLEAN, NEW n, NEW s, Listing(ty, n, s, names),
           NEW i \in 1 .. n, MessageBack(ty, s[i], names),
           NEW row, row = ItemOf(ty, s, i, names)
    PROVE  /\ SubBack(ty, s[i], row, names, FlatIn(ty, s, i))
           /\ IsGiven(row)
<1> DEFINE m == s[i]
           k == GetSub(ty, m, names)
<1>0. m \in Messages(ty) /\ ~IsException(k)
  BY Zenon DEF Listing
<1>1. k = GetMessage(ty, m, names) /\ SubBack(ty, m, k, names, FALSE)
  BY <1>0, ObjectBack
<1>2. CASE ~names
  <2>1. row = k
    BY <1>2, Zenon DEF ItemOf
  <2>2. k.t = 0
    BY <1>0, <1>1, <1>2, MessageShape
  <2>3. SubBack(ty, m, row, names, FlatIn(ty, s, i))
    <3> HIDE DEF k, m
    <3> QED
      BY <1>1, <1>2, <2>1, Zenon DEF SubBack
  <2> QED
    BY <2>1, <2>2, <2>3 DEF IsGiven
<1>3. CASE names
  <2>0. names = TRUE /\ n # 0
    BY <1>3 DEF Listing
  <2>1. s \in Groups(ty) /\ AllGiven(ty, s) /\ DOMAIN s = 1 .. n
    BY <1>3, <2>0, ListingGiven
  <2>2. row = Row(ty, s, i)
    BY <1>3, Zenon DEF ItemOf
  <2>3. RowAlike(ty, s, i)
    BY <2>1, RowsAlike
  <2>4. SetAdded(ty, row, names) = SetNew(ty, row, names)
    <3>1. \A j \in DOMAIN s : ~IsException(GetSub(ty, s[j], TRUE))
      BY <2>1 DEF AllGiven
    <3> QED
      BY <2>0, <2>1, <2>2, <3>1, RowsAssumption
  <2>5. SetAdded(ty, k, names) = SetNew(ty, k, names)
    BY <1>0, <1>1, RecursionAssumption
  <2> DEFINE r == SetAdded(ty, row, names)
             q == SetAdded(ty, k, names)
  <2>6. /\ row.t = 99
        /\ Throws(r) <=> Throws(q) \/ FlatIn(ty, s, i)
        /\ ~Throws(r) => r.value = q.value
    <3> HIDE DEF k
    <3> QED
      BY <1>1, <2>0, <2>2, <2>3, <2>4, <2>5, Zenon DEF RowAlike
  <2>7. /\ Throws(q) <=> names /\ FlatRows(ty, m)
        /\ ~Throws(q) =>
              /\ q.value \in Messages(ty)
              /\ Exact(ty, m, names) => q.value = m
              /\ KeysKept(ty, m) => GetSub(ty, q.value, names) = GetSub(ty, m, names)
    <3> HIDE DEF k, m
    <3> QED
      BY <1>1, Zenon DEF SubBack
  <2> HIDE DEF r, q, k, m
  <2>8. SubBack(ty, m, row, names, FlatIn(ty, s, i))
    BY <1>3, <2>6, <2>7, Zenon DEF SubBack, r
  <2>9. row.t # 101
    BY <2>6
  <2> QED
    BY <2>8, <2>9 DEF IsGiven, m
<1> QED
  BY <1>2, <1>3

(* A list of sub-messages, taken item by item or row by row. *)
SubItems(ty, n, s, l, names) ==
    /\ l.t \in {0, 98} /\ (l.t = 98 => names)
    /\ MapItems(l) = [i \in 1 .. n |-> ItemOf(ty, s, i, names)]
    /\ l.t = 98 => MapItems(l) = [i \in DOMAIN l.rows |-> Slice(l, i)]
    /\ l.t = 0 => MapItems(l) = l.items

LEMMA SubList ==
    ASSUME NEW ty \in Types, NEW names \in BOOLEAN, NEW n, NEW s, Listing(ty, n, s, names),
           NEW ks, ks = [i \in 1 .. n |-> GetSub(ty, s[i], names)],
           NEW l, l = IF names THEN Collapse(ks) ELSE Mixed(ks)
    PROVE  SubItems(ty, n, s, l, names)
<1> DEFINE x == [i \in 1 .. n |-> ItemOf(ty, s, i, names)]
<1> SUFFICES /\ l.t \in {0, 98} /\ (l.t = 98 => names)
             /\ MapItems(l) = x
             /\ l.t = 98 => MapItems(l) = [i \in DOMAIN l.rows |-> Slice(l, i)]
             /\ l.t = 0 => MapItems(l) = l.items
  BY DEF SubItems
<1>0. \A y : Mixed(y).t = 0 /\ MapItems(Mixed(y)) = y /\ Mixed(y).items = y
  BY DEF Mixed, MapItems, Items, KS
<1>1. CASE ~names
  <2>1. l = Mixed(ks)
    BY <1>1
  <2>2. x = ks
    BY <1>1 DEF ItemOf
  <2> HIDE DEF x
  <2> QED
    BY <1>0, <2>1, <2>2
<1>2. CASE names /\ n = 0
  <2>1. ks = <<>> /\ x = <<>>
    BY <1>2
  <2>2. l = Mixed(<<>>)
    BY <1>2, <2>1, Collapses
  <2> HIDE DEF x
  <2> QED
    BY <1>0, <2>1, <2>2
<1>3. CASE names /\ n # 0
  <2> DEFINE items == [i \in 1 .. n |-> FieldObjects(ty, s[i], TRUE)]
             N == FieldNames(ty)
  <2>0. names = TRUE /\ n \in Nat
    BY <1>3 DEF Listing
  <2>1. s \in Groups(ty) /\ AllGiven(ty, s) /\ DOMAIN s = 1 .. n
    BY <1>3, ListingGiven
  <2>2. N # <<>> /\ \A i \in 1 .. n : s[i] \in Messages(ty)
    BY <2>1, GroupIs
  <2>3. \A i \in 1 .. n : ks[i] = Dict(SymbolList(N), Mixed(items[i]))
    <3>1. SUFFICES ASSUME NEW i \in 1 .. n PROVE ks[i] = Dict(SymbolList(N), Mixed(items[i]))
      OBVIOUS
    <3>2. ks[i] = GetSub(ty, s[i], TRUE) /\ ~IsException(ks[i])
      BY <2>0, <2>1 DEF AllGiven
    <3>3. items[i] = FieldObjects(ty, s[i], TRUE)
      OBVIOUS
    <3> HIDE DEF items
    <3> QED
      BY <2>2, <3>2, <3>3, GivenMessage
  <2>4. items = [i \in 1 .. n |-> items[i]] /\ DOMAIN ks = 1 .. n /\ DOMAIN items = 1 .. n
    OBVIOUS
  <2> HIDE DEF items, N
  <2>5. l = Table(N, items)
    <3>1. AreRows(n, N, items, ks)
      BY <2>3, <2>4, Zenon DEF AreRows
    <3>2. Collapse(ks) = Table(N, items)
      BY <1>3, <2>0, <2>2, <3>1, CollapsesToTable, Zenon
    <3> QED
      BY <1>3, <3>2, Zenon
  <2>6. l.t = 98 /\ DOMAIN l.rows = 1 .. n
    BY <2>4, <2>5, Shapes
  <2>7. MapItems(l) = [i \in DOMAIN l.rows |-> Slice(l, i)]
    BY <2>6, Zenon DEF MapItems
  <2>8. \A i \in 1 .. n : x[i] = Slice(l, i)
    <3>1. ks = [j \in DOMAIN s |-> GetSub(ty, s[j], TRUE)]
      BY <2>0, <2>1
    <3>2. l = Collapse(ks)
      BY <1>3
    <3>3. \A i \in 1 .. n : x[i] = Row(ty, s, i)
      BY <1>3 DEF ItemOf
    <3> HIDE DEF x
    <3> QED
      BY <3>1, <3>2, <3>3, Zenon DEF Row
  <2>9. MapItems(l) = x
    <3>1. x = [i \in 1 .. n |-> x[i]]
      OBVIOUS
    <3> HIDE DEF x
    <3> QED
      BY <2>6, <2>7, <2>8, <3>1, Zenon
  <2>10. l.t \in {0, 98} /\ l.t # 0
    BY <2>6
  <2> HIDE DEF x
  <2> QED
    BY <1>3, <2>7, <2>9, <2>10, Zenon
<1>4. n = 0 \/ n # 0
  OBVIOUS
<1> QED
  BY <1>1, <1>2, <1>3, <1>4
----------------------------------------------------------------------------
(* What is to be shown of a field: the object its value becomes is accepted,
   unless it has a flat row, and sets the field to what it was.  Of its
   sub-messages q may make a table. *)
FlatField(f, v) == (\E s \in Subs(f, v) : FlatRows(Element(f).msg, s)) \/ FlatTable(f, v)
Grouped(f, v) ==
    IsListOfMessages(f) /\ Values(f, v) # {} => InOrder(f, v) \in Groups(Element(f).msg)
FieldBack(f, v, names) ==
    LET k == GetMessageField(f, v, names)
        r == FieldValue(f, Default(f), k, names)
        ty == Element(f).msg
        kept == /\ f.label = "map" => \A x \in DOMAIN v : KeyBack(f, x) = x
                /\ \A s \in Subs(f, v) : KeysKept(ty, s) IN
    /\ Throws(r) <=> names /\ FlatField(f, v)
    /\ ~Throws(r) => /\ Restored(f, r.value, v, names)
                     /\ kept => GetMessageField(f, r.value, names) = k

LEMMA SingularScalar ==
    ASSUME NEW f, IsField(f), f.label = "singular", f.cpp # "message", NEW names \in BOOLEAN,
           NEW v, IsValue(f, v),
           NEW k, k = GetMessageField(f, v, names), ~IsException(k), ~Skipped(f, k)
    PROVE  FieldBack(f, v, names)
<1>1. Element(f) = f /\ IsElement(f) /\ Subs(f, v) = {}
  BY DEF Element, IsField, Describes, Subs
<1>2. v \in Scalars(f) \/ (v = Unset /\ f.oneof # "")
  <2>1. v \in ElementValues(f) \/ (v = Unset /\ f.oneof # "")
    BY DEF IsValue
  <2> QED
    BY <2>1 DEF ElementValues
<1>3. v \in Scalars(f) /\ v # Unset
  <2>1. v = Unset /\ f.oneof # "" => k = Mixed(<<>>)
    BY GetUnset
  <2> QED
    BY <1>1, <1>2, <2>1, ScalarsAreSet DEF Skipped
<1>4. \A x : x # Unset => GetMessageField(f, x, names) = GetScalar(f, x)
  BY GetByLabel, Zenon
<1> DEFINE back == Back(f, StringSetting(f), v)
<1>5. /\ SetScalar(f, k) = Value(back) /\ back \in Scalars(f) /\ GetScalar(f, back) = k
  BY <1>1, <1>3, <1>4, AnyScalarBack
<1>6. FieldValue(f, Default(f), k, names) = SetScalar(f, k)
  BY SetByLabel, Zenon
<1>7. back # Unset
  BY <1>1, <1>5, ScalarsAreSet
<1> HIDE DEF back
<1>8. Restored(f, back, v, names)
  <2>1. ~LooksUnset(f, v, names)
    BY Zenon DEF LooksUnset, Skipped
  <2>2. ElementRestored(f, back, v, names)
    BY Zenon DEF ElementRestored, ValueBack, back
  <2>3. "map" # "singular" /\ "repeated" # "singular"
    OBVIOUS
  <2> QED
    BY <1>3, <1>7, <2>1, <2>2, <2>3, Zenon DEF Restored
<1>9. GetMessageField(f, back, names) = k
  BY <1>4, <1>5, <1>7
<1> DEFINE r == FieldValue(f, Default(f), k, names)
<1>10. ~Throws(r) /\ r.value = back
  BY <1>5, <1>6, Answers
<1>11. ~FlatField(f, v)
  <2>1. ~\E s \in Subs(f, v) : FlatRows(f.msg, s)
    BY <1>1
  <2> QED
    BY <1>1, <2>1, Zenon DEF FlatField, FlatTable, IsListOfMessages
<1> HIDE DEF r
<1> QED
  BY <1>8, <1>9, <1>10, <1>11, Zenon DEF FieldBack, r

LEMMA SingularMessage ==
    ASSUME NEW f, IsField(f), f.label = "singular", f.cpp = "message", NEW names \in BOOLEAN,
           NEW v, IsValue(f, v), v # Unset => MessageBack(f.msg, v, names),
           NEW k, k = GetMessageField(f, v, names), ~IsException(k), ~Skipped(f, k)
    PROVE  FieldBack(f, v, names)
<1> DEFINE ty == f.msg
<1>1. Element(f) = f /\ ty \in Types
  BY DEF Element, IsField, Describes
<1>2. v # Unset
  <2>1. v = Unset => (f.oneof # "" /\ k = Mixed(<<>>)) \/ k = GenericNull
    BY GetUnset
  <2>2. k = GenericNull => k.t = 101
    BY DEF GenericNull
  <2> QED
    BY <2>1, <2>2, Zenon DEF Skipped
<1>3. v \in Messages(ty) /\ Subs(f, v) = {v}
  <2>1. v \in ElementValues(f)
    BY <1>2 DEF IsValue
  <2> QED
    BY <1>1, <1>2, <2>1 DEF ElementValues, Subs, Values
<1>4. \A x : x # Unset => GetMessageField(f, x, names) = GetSub(ty, x, names)
  BY GetByLabel, Zenon
<1> DEFINE r == FieldValue(f, Default(f), k, names)
<1>5. r = SetAdded(ty, k, names)
  BY SetByLabel, Zenon
<1>6. SubBack(ty, v, k, names, FALSE)
  BY <1>1, <1>2, <1>3, <1>4, ObjectBack
<1>7. /\ Throws(r) <=> names /\ FlatRows(ty, v)
      /\ ~Throws(r) => /\ r.value \in Messages(ty)
                       /\ Exact(ty, v, names) => r.value = v
                       /\ KeysKept(ty, v) => GetSub(ty, r.value, names) = GetSub(ty, v, names)
  BY <1>5, <1>6, Zenon DEF SubBack
<1> HIDE DEF r
<1>8. Throws(r) <=> names /\ FlatField(f, v)
  <2>1. ~FlatTable(f, v)
    BY Zenon DEF FlatTable, IsListOfMessages
  <2> QED
    BY <1>1, <1>3, <1>7, <2>1, Zenon DEF FlatField
<1>9. ASSUME ~Throws(r)
      PROVE  /\ Restored(f, r.value, v, names)
             /\ (\A s \in Subs(f, v) : KeysKept(ty, s)) => GetMessageField(f, r.value, names) = k
  <2>1. r.value # Unset
    BY <1>1, <1>7, <1>9, MessagesAssumption
  <2>2. ~LooksUnset(f, v, names)
    BY Zenon DEF LooksUnset, Skipped
  <2>3. ElementRestored(f, r.value, v, names)
    BY <1>7, <1>9, Zenon DEF ElementRestored
  <2>4. "map" # "singular" /\ "repeated" # "singular"
    OBVIOUS
  <2>5. Restored(f, r.value, v, names)
    BY <1>2, <2>1, <2>2, <2>3, <2>4, Zenon DEF Restored
  <2>6. KeysKept(ty, v) => GetMessageField(f, r.value, names) = k
    BY <1>2, <1>4, <1>7, <1>9, <2>1, Zenon
  <2> QED
    BY <1>3, <2>5, <2>6, Zenon
<1> QED
  BY <1>1, <1>8, <1>9, Zenon DEF FieldBack, r
----------------------------------------------------------------------------
(* A loop that appends one item in each step, or ends. *)
Loop(n, rs, a) ==
    /\ n \in Nat /\ DOMAIN rs = 1 .. n
    /\ \A i \in 1 .. n : rs[i] = Single(a[i])

LEMMA AppendLoop ==
    ASSUME NEW n, NEW a, NEW rs, Loop(n, rs, a)
    PROVE  /\ Throws(AppendAll(<<>>, rs)) <=> \E i \in 1 .. n : Throws(a[i])
           /\ ~Throws(AppendAll(<<>>, rs)) =>
                 AppendAll(<<>>, rs).value = [i \in 1 .. n |-> a[i].value]
<1>0. n \in Nat /\ DOMAIN rs = 1 .. n /\ \A i \in 1 .. n : rs[i] = Single(a[i])
  BY Zenon DEF Loop
<1>1. \A i \in 1 .. n : Throws(rs[i]) <=> Throws(a[i])
  BY <1>0, Answers, Zenon DEF Single
<1>2. CASE \E i \in 1 .. n : Throws(a[i])
  <2>1. \E i \in 1 .. n : Throws(rs[i])
    BY <1>1, <1>2, Zenon
  <2>2. Throws(AppendAll(<<>>, rs))
    BY <1>0, <2>1, AppendThrows
  <2> QED
    BY <1>2, <2>2, Zenon
<1>3. CASE ~\E i \in 1 .. n : Throws(a[i])
  <2> DEFINE values == [i \in 1 .. n |-> a[i].value]
  <2>1. \A i \in 1 .. n : rs[i] = Value(<<values[i]>>)
    BY <1>0, <1>3, Zenon DEF Single
  <2>2. values = [i \in 1 .. n |-> values[i]]
    OBVIOUS
  <2> HIDE DEF values
  <2>3. Singles(n, rs, values)
    BY <1>0, <2>1, <2>2, Zenon DEF Singles
  <2>4. AppendAll(<<>>, rs) = Value(values)
    BY <2>3, AppendSingles
  <2>5. ~Throws(AppendAll(<<>>, rs)) /\ AppendAll(<<>>, rs).value = values
    BY <2>4, Answers
  <2> QED
    BY <1>3, <2>5, Zenon DEF values
<1> QED
  BY <1>2, <1>3

LEMMA RepeatedScalar ==
    ASSUME NEW f, IsField(f), f.label = "repeated", f.cpp # "message", NEW names \in BOOLEAN,
           NEW v, IsValue(f, v), NEW k, k = GetMessageField(f, v, names), ~IsException(k)
    PROVE  FieldBack(f, v, names) /\ ~Skipped(f, k)
<1> DEFINE setting == StringSetting(f)
           t == ListKdbType(f, setting)
           error == "TypeCheckRepeatedString"
           back == [i \in DOMAIN v |-> Back(f, setting, v[i])]
           len == Len(v)
<1>1. Element(f) = f /\ IsElement(f) /\ Subs(f, v) = {} /\ f.oneof = ""
  BY DEF Element, IsField, Describes, Subs
<1>2. /\ len \in Nat /\ DOMAIN v = 1 .. len
      /\ \A i \in DOMAIN v : v[i] \in Scalars(f)
  <2>1. v \in Seq(Scalars(f))
    BY Zenon DEF IsValue, ElementValues
  <2> QED
    BY <2>1
<1>3. \A x : GetMessageField(f, x, names) = GetList(f, t, setting, x)
  <2>1. \A x : GetMessageField(f, x, names) = GetRepeated(f, x)
    BY <1>1, GetByLabel, Zenon
  <2> QED
    BY <2>1, Zenon DEF GetRepeated, GetRepeatedKdbType
<1>4. setting \in KdbStringEncodings
  BY Settings
<1>5. ListBack(f, setting, v, k, error)
  BY <1>1, <1>2, <1>3, <1>4, ListComesBack
<1>6. t # Thrown
  <2> HIDE DEF t, setting
  <2>1. IsException(GetList(f, Thrown, setting, v))
    BY ListShapes
  <2>2. k = GetList(f, t, setting, v) /\ ~IsException(k)
    BY <1>3
  <2> QED
    BY <2>1, <2>2
<1> HIDE DEF setting, t, error, len
<1>7. /\ ListAccepted(f, t, k)
      /\ k.t # 101
      /\ Items(k) = [i \in DOMAIN v |-> Items(k)[i]]
      /\ \A i \in DOMAIN v : ListItem(f, Items(k)[i], error) = Value(back[i])
      /\ GetList(f, t, setting, back) = k
  BY <1>5 DEF ListBack, t
<1>8. DOMAIN Items(k) = 1 .. len
  BY <1>2, <1>7
<1> DEFINE rs == [i \in DOMAIN Items(k) |-> Single(ListItem(f, Items(k)[i], error))]
<1>9. AppendAll(<<>>, rs) = Value(back)
  <2>1. \A i \in 1 .. len : rs[i] = Value(<<back[i]>>)
    <3>1. \A x : Single(Value(x)) = Value(<<x>>)
      BY Answers, Zenon DEF Single
    <3> QED
      BY <1>2, <1>7, <1>8, <3>1
  <2>2. DOMAIN rs = 1 .. len /\ back = [i \in 1 .. len |-> back[i]]
    BY <1>2, <1>8
  <2> HIDE DEF rs, back
  <2>3. Singles(len, rs, back)
    BY <1>2, <2>1, <2>2 DEF Singles
  <2> QED
    BY <2>3, AppendSingles
<1> DEFINE r == FieldValue(f, Default(f), k, names)
<1>10. r = Value(back)
  <2>1. r = SetRepeated(f, <<>>, k)
    BY SetByLabel, Zenon
  <2>2. SetRepeated(f, <<>>, k) = AppendAll(<<>>, rs)
    BY <1>6, <1>7, Zenon DEF SetRepeated, GetRepeatedKdbType, t, setting, error
  <2> QED
    BY <1>9, <2>1, <2>2, Zenon
<1>11. ~Throws(r) /\ r.value = back
  BY <1>10, Answers
<1>12. Restored(f, back, v, names)
  <2>1. Len(back) = Len(v)
    BY <1>2
  <2>2. \A i \in DOMAIN v : ElementRestored(f, back[i], v[i], names)
    BY DEF ElementRestored, ValueBack, setting
  <2>3. "map" # "repeated" /\ "repeated" # "singular"
    OBVIOUS
  <2> HIDE DEF back
  <2> QED
    BY <2>1, <2>2, <2>3, Zenon DEF Restored
<1>13. GetMessageField(f, back, names) = k
  BY <1>3, <1>7
<1>14. ~Skipped(f, k)
  BY <1>1, <1>7 DEF Skipped
<1>15. ~FlatField(f, v)
  <2>1. ~\E s \in Subs(f, v) : FlatRows(f.msg, s)
    BY <1>1
  <2> QED
    BY <1>1, <2>1, Zenon DEF FlatField, FlatTable, IsListOfMessages
<1> HIDE DEF r, back
<1> QED
  BY <1>11, <1>12, <1>13, <1>14, <1>15, Zenon DEF FieldBack, r
----------------------------------------------------------------------------
(* The items of a list of sub-messages come back one by one. *)
SubsBack(ty, n, s, l, names) ==
    /\ l.t \in {0, 98} /\ (l.t = 98 => names)
    /\ DOMAIN MapItems(l) = 1 .. n
    /\ l.t = 98 => MapItems(l) = [i \in DOMAIN l.rows |-> Slice(l, i)]
    /\ l.t = 0 => MapItems(l) = l.items
    /\ \A i \in 1 .. n :
          MapItems(l)[i].t # 101 /\ SubBack(ty, s[i], MapItems(l)[i], names, FlatIn(ty, s, i))

LEMMA SubListBack ==
    ASSUME NEW ty \in Types, NEW names \in BOOLEAN, NEW n, NEW s, Listing(ty, n, s, names),
           \A i \in 1 .. n : MessageBack(ty, s[i], names),
           NEW ks, ks = [i \in 1 .. n |-> GetSub(ty, s[i], names)],
           NEW l, l = IF names THEN Collapse(ks) ELSE Mixed(ks)
    PROVE  SubsBack(ty, n, s, l, names)
<1> DEFINE x == MapItems(l)
<1>0. SubItems(ty, n, s, l, names)
  BY SubList
<1>1. /\ l.t \in {0, 98} /\ (l.t = 98 => names)
      /\ x = [i \in 1 .. n |-> ItemOf(ty, s, i, names)]
      /\ l.t = 98 => x = [i \in DOMAIN l.rows |-> Slice(l, i)]
      /\ l.t = 0 => x = l.items
  BY <1>0, Zenon DEF SubItems
<1> HIDE DEF x
<1>2. DOMAIN x = 1 .. n
  BY <1>1
<1>3. ASSUME NEW i \in 1 .. n
      PROVE  x[i].t # 101 /\ SubBack(ty, s[i], x[i], names, FlatIn(ty, s, i))
  <2>1. x[i] = ItemOf(ty, s, i, names)
    BY <1>1, Zenon
  <2>2. MessageBack(ty, s[i], names)
    BY Zenon
  <2>3. SubBack(ty, s[i], x[i], names, FlatIn(ty, s, i)) /\ IsGiven(x[i])
    BY <2>1, <2>2, RowBack, Zenon
  <2> QED
    BY <2>3, Zenon DEF IsGiven
<1> HIDE DEF x
<1> QED
  BY <1>1, <1>2, <1>3, Zenon DEF SubsBack, x

LEMMA RepeatedMessage ==
    ASSUME NEW f, IsField(f), f.label = "repeated", f.cpp = "message", NEW names \in BOOLEAN,
           NEW v, IsValue(f, v), Grouped(f, v), \A s \in Subs(f, v) : MessageBack(f.msg, s, names),
           NEW k, k = GetMessageField(f, v, names), ~IsException(k)
    PROVE  FieldBack(f, v, names) /\ ~Skipped(f, k)
<1> DEFINE ty == f.msg
           n == Len(v)
           ks == [i \in 1 .. n |-> GetSub(ty, v[i], names)]
           List(x) == IF names THEN Collapse(x) ELSE Mixed(x)
<1>1. Element(f) = f /\ ty \in Types /\ f.oneof = "" /\ IsListOfMessages(f) /\ InOrder(f, v) = v
  BY DEF Element, IsField, Describes, IsListOfMessages, InOrder
<1>2. n \in Nat /\ DOMAIN v = 1 .. n /\ \A i \in 1 .. n : v[i] \in Messages(ty) /\ v[i] \in Subs(f, v)
  <2>1. v \in Seq(Messages(ty))
    BY Zenon DEF IsValue, ElementValues
  <2>2. n \in Nat /\ DOMAIN v = 1 .. n /\ \A i \in 1 .. n : v[i] \in Messages(ty)
    BY <2>1
  <2>3. Subs(f, v) = {v[i] : i \in DOMAIN v}
    BY <1>1 DEF Subs, Values, ToSet
  <2> QED
    BY <2>2, <2>3
<1>3. Subs(f, v) = {v[i] : i \in 1 .. n}
  BY <1>1, <1>2 DEF Subs, Values, ToSet
<1>4. \A x : GetMessageField(f, x, names) = GetRepeatedMessage(f, x, names)
  BY <1>1, GetByLabel, Zenon
<1>5. /\ \A i \in 1 .. n : ~IsException(ks[i])
      /\ k = List(ks)
  <2>1. DOMAIN ks = 1 .. n
    OBVIOUS
  <2>2. k = IF AnyException(ks) THEN FirstException(ks) ELSE List(ks)
    BY <1>2, <1>4, Zenon DEF GetRepeatedMessage
  <2> HIDE DEF ks, List
  <2>3. ~AnyException(ks)
    BY <1>2, <2>1, <2>2, FirstIsException
  <2> QED
    BY <2>1, <2>2, <2>3, Zenon DEF AnyException
<1>6. SubsBack(ty, n, v, k, names)
  <2>0. Listing(ty, n, v, names)
    <3>1. v = [i \in 1 .. n |-> v[i]]
      <4>1. v \in Seq(Messages(ty))
        BY Zenon DEF IsValue, ElementValues
      <4> QED
        BY <1>2, <4>1
    <3>2. \A i \in 1 .. n : ~IsException(GetSub(ty, v[i], names))
      BY <1>5
    <3>3. n # 0 => v \in Groups(ty)
      <4>1. n # 0 => v[1] \in Values(f, v)
        BY <1>2 DEF Subs
      <4>2. n # 0 => Values(f, v) # {}
        BY <4>1
      <4> HIDE DEF n
      <4> QED
        BY <1>1, <4>2, Zenon DEF Grouped
    <3> HIDE DEF n, ty, ks
    <3> QED
      BY <1>2, <3>1, <3>2, <3>3, Zenon DEF Listing
  <2>1. \A i \in 1 .. n : MessageBack(ty, v[i], names)
    BY <1>2, Zenon
  <2>2. ks = [i \in 1 .. n |-> GetSub(ty, v[i], names)]
    OBVIOUS
  <2>3. k = IF names THEN Collapse(ks) ELSE Mixed(ks)
    BY <1>5
  <2> HIDE DEF ks, ty, n
  <2> QED
    BY <1>1, <2>0, <2>1, <2>2, <2>3, SubListBack
<1> DEFINE x == MapItems(k)
           a == [i \in 1 .. n |-> SetAdded(ty, x[i], names)]
           r == FieldValue(f, Default(f), k, names)
           rs == [i \in DOMAIN x |->
                    IF x[i].t = 101 THEN Value(<<>>) ELSE Single(SetAdded(ty, x[i], names))]
<1>7. /\ k.t \in {0, 98} /\ (k.t = 98 => names)
      /\ DOMAIN x = 1 .. n
      /\ k.t = 98 => x = [i \in DOMAIN k.rows |-> Slice(k, i)]
      /\ k.t = 0 => x = k.items
      /\ \A i \in 1 .. n : x[i].t # 101 /\ SubBack(ty, v[i], x[i], names, FlatIn(ty, v, i))
  BY <1>6, Zenon DEF SubsBack
<1>8. r = AppendAll(<<>>, rs)
  <2>1. r = SetRepeatedMessage(f, <<>>, k, names)
    BY SetByLabel, Zenon
  <2>2. 0 # 98
    OBVIOUS
  <2>3. CASE k.t = 98
    <3>1. x = [i \in DOMAIN k.rows |-> Slice(k, i)] /\ names
      BY <1>7, <2>3, Zenon
    <3> HIDE DEF x
    <3> QED
      BY <2>1, <2>3, <3>1, Zenon DEF SetRepeatedMessage
  <2>4. CASE k.t = 0
    <3>1. x = k.items /\ ~(names /\ k.t = 98)
      BY <1>7, <2>2, <2>4, Zenon
    <3> HIDE DEF x
    <3> QED
      BY <2>1, <2>4, <3>1, Zenon DEF SetRepeatedMessage
  <2> QED
    BY <1>7, <2>3, <2>4
<1>9. \A i \in 1 .. n : SubBack(ty, v[i], x[i], names, FlatIn(ty, v, i)) /\ a[i] = SetAdded(ty, x[i], names)
  BY <1>7, Zenon
<1>10. \A i \in 1 .. n :
          /\ Throws(a[i]) <=> names /\ (FlatRows(ty, v[i]) \/ FlatIn(ty, v, i))
          /\ ~Throws(a[i]) =>
                /\ a[i].value \in Messages(ty)
                /\ Exact(ty, v[i], names) => a[i].value = v[i]
                /\ KeysKept(ty, v[i]) => GetSub(ty, a[i].value, names) = GetSub(ty, v[i], names)
  <2> HIDE DEF a, x
  <2> QED
    BY <1>9, Zenon DEF SubBack
<1>11. Loop(n, rs, a)
  <2>1. \A i \in 1 .. n : rs[i] = Single(a[i])
    <3> HIDE DEF x
    <3> QED
      BY <1>7, Zenon
  <2>2. DOMAIN rs = 1 .. n
    BY <1>7
  <2> HIDE DEF rs, a
  <2> QED
    BY <1>2, <2>1, <2>2, Zenon DEF Loop
<1> HIDE DEF rs, a, x, ty
<1>12. /\ Throws(r) <=> \E i \in 1 .. n : Throws(a[i])
       /\ ~Throws(r) => r.value = [i \in 1 .. n |-> a[i].value]
  BY <1>8, <1>11, AppendLoop
<1> HIDE DEF r
<1>13. Throws(r) <=> names /\ FlatField(f, v)
  <2>1. FlatTable(f, v) <=> \E i \in 1 .. n : FlatIn(ty, v, i)
    BY <1>1, <1>2, Zenon DEF FlatTable, ty
  <2>2. (\E s \in Subs(f, v) : FlatRows(ty, s)) <=> \E i \in 1 .. n : FlatRows(ty, v[i])
    BY <1>2, <1>3, Zenon
  <2>3. FlatField(f, v) <=> \E i \in 1 .. n : FlatRows(ty, v[i]) \/ FlatIn(ty, v, i)
    BY <1>1, <2>1, <2>2, Zenon DEF FlatField, ty
  <2> QED
    BY <1>10, <1>12, <2>3, Zenon
<1>14. ASSUME ~Throws(r)
       PROVE  /\ Restored(f, r.value, v, names)
              /\ (\A s \in Subs(f, v) : KeysKept(ty, s)) => GetMessageField(f, r.value, names) = k
  <2> DEFINE new == r.value
  <2>1. /\ new = [i \in 1 .. n |-> a[i].value] /\ \A i \in 1 .. n : ~Throws(a[i])
    BY <1>12, <1>14, Zenon
  <2>2. /\ DOMAIN new = 1 .. n /\ Len(new) = n /\ \A i \in 1 .. n : new[i] = a[i].value
    BY <1>2, <2>1
  <2> HIDE DEF new
  <2>3. \A i \in DOMAIN v : ElementRestored(f, new[i], v[i], names)
    BY <1>2, <1>10, <2>1, <2>2, Zenon DEF ElementRestored, ty
  <2>4. Restored(f, new, v, names)
    <3>1. "map" # "repeated" /\ "repeated" # "singular"
      OBVIOUS
    <3> QED
      BY <2>2, <2>3, <3>1, Zenon DEF Restored
  <2>5. ASSUME \A s \in Subs(f, v) : KeysKept(ty, s)
        PROVE  GetMessageField(f, new, names) = k
    <3> DEFINE subs == [i \in DOMAIN new |-> GetSub(ty, new[i], names)]
    <3>1. \A i \in 1 .. n : GetSub(ty, new[i], names) = GetSub(ty, v[i], names)
      BY <1>2, <1>10, <2>1, <2>2, <2>5, Zenon
    <3>2. subs = ks
      BY <2>2, <3>1, Zenon
    <3>3. ~AnyException(ks)
      BY <1>5, Zenon DEF AnyException
    <3>4. GetMessageField(f, new, names) =
             IF AnyException(subs) THEN FirstException(subs) ELSE List(subs)
      BY <1>4, Zenon DEF GetRepeatedMessage, ty
    <3> HIDE DEF subs, ks, List
    <3> QED
      BY <1>5, <3>2, <3>3, <3>4, Zenon
  <2> QED
    BY <2>4, <2>5, Zenon DEF new
<1>15. ~Skipped(f, k)
  <2>1. k.t # 101
    <3>1. k.t \in {0, 98}
      BY <1>7, Zenon
    <3> QED
      BY <3>1
  <2> QED
    BY <1>1, <2>1, Zenon DEF Skipped
<1>16. FieldBack(f, v, names)
  <2>1. "repeated" # "map"
    OBVIOUS
  <2> QED
    BY <1>1, <1>13, <1>14, <2>1, Zenon DEF FieldBack, r, ty
<1> QED
  BY <1>15, <1>16
----------------------------------------------------------------------------
(* A map that entries are added to has for each key one of its values. *)
LEMMA GreatestNatural ==
    ASSUME NEW n \in Nat, NEW T, T \subseteq 1 .. n, T # {}
    PROVE  \E i \in T : \A j \in T : j <= i
<1> DEFINE D == {n - i : i \in T}
<1>1. D \subseteq Nat /\ D # {}
  <2>1. \A i \in T : n - i \in Nat
    OBVIOUS
  <2> QED
    BY <2>1
<1> HIDE DEF D
<1>2. PICK d \in D : \A e \in D : d <= e
  BY <1>1, LeastNatural
<1>3. PICK i \in T : d = n - i
  BY <1>2 DEF D
<1>4. \A j \in T : n - i <= n - j
  BY <1>2, <1>3 DEF D
<1>5. ASSUME NEW j \in T PROVE j <= i
  <2>1. i \in Int /\ j \in Int /\ n \in Int
    OBVIOUS
  <2> QED
    BY <1>4, <2>1
<1> QED
  BY <1>5

Entries(n, keys, values, e) ==
    /\ n \in Nat /\ DOMAIN e = 1 .. n
    /\ \A i \in 1 .. n : e[i] = <<keys[i], values[i]>>

OneOfEach(n, keys, values, map) ==
    /\ DOMAIN map = {keys[i] : i \in 1 .. n}
    /\ map = [y \in DOMAIN map |-> map[y]]
    /\ \A y \in DOMAIN map : \E i \in 1 .. n : keys[i] = y /\ map[y] = values[i]

LEMMA EntriesAdded ==
    ASSUME NEW n, NEW keys, NEW values, NEW r, ~Throws(r), Entries(n, keys, values, r.value),
           NEW new, new = AddEntries([x \in {} |-> Unset], r)
    PROVE  ~Throws(new) /\ OneOfEach(n, keys, values, new.value)
<1> DEFINE e == r.value
           Given(x) == {i \in DOMAIN e : e[i][1] = x}
           K == {e[i][1] : i \in DOMAIN e}
           Pick(x) == e[CHOOSE i \in Given(x) : \A j \in Given(x) : j <= i][2]
           map == [x \in K |-> Pick(x)]
<1>0. n \in Nat /\ DOMAIN e = 1 .. n /\ \A i \in 1 .. n : e[i] = <<keys[i], values[i]>>
  BY Zenon DEF Entries
<1> HIDE DEF e
<1>1. \A i \in 1 .. n : e[i][1] = keys[i] /\ e[i][2] = values[i]
  BY <1>0
<1>2. K = {keys[i] : i \in 1 .. n}
  BY <1>0, <1>1
<1>3. new = Value(map)
  <2>2. new = Value([x \in DOMAIN [x \in {} |-> Unset] \cup K |->
                       IF x \in K THEN Pick(x) ELSE [y \in {} |-> Unset][x]])
    BY Zenon DEF AddEntries, e
  <2>3. DOMAIN [x \in {} |-> Unset] \cup K = K
    OBVIOUS
  <2> HIDE DEF K, Pick
  <2>4. [x \in K |-> IF x \in K THEN Pick(x) ELSE [y \in {} |-> Unset][x]] = map
    OBVIOUS
  <2> QED
    BY <2>2, <2>3, <2>4
<1>4. ~Throws(new) /\ new.value = map
  BY <1>3, Answers
<1>5. ASSUME NEW y \in K PROVE \E i \in 1 .. n : keys[i] = y /\ map[y] = values[i]
  <2>1. Given(y) \subseteq 1 .. n /\ Given(y) # {}
    BY <1>0
  <2> HIDE DEF Given
  <2>2. \E i \in Given(y) : \A j \in Given(y) : j <= i
    BY <1>0, <2>1, GreatestNatural
  <2>3. PICK i \in Given(y) : map[y] = e[i][2]
    BY <2>2
  <2>4. i \in 1 .. n /\ e[i][1] = y
    BY <1>0 DEF Given
  <2> QED
    BY <1>1, <2>3, <2>4
<1>6. DOMAIN map = K /\ map = [x \in K |-> map[x]]
  OBVIOUS
<1> HIDE DEF map, K
<1>7. OneOfEach(n, keys, values, map)
  BY <1>2, <1>5, <1>6 DEF OneOfEach
<1> QED
  BY <1>4, <1>7, Zenon
----------------------------------------------------------------------------
(* What the n values s of a map become as the list l, and what is set from
   the items of l. *)
ItemBack(f, s, r, names, flat) ==
    /\ Throws(r) <=> names /\ f.value.cpp = "message" /\ (FlatRows(f.value.msg, s) \/ flat)
    /\ ~Throws(r) => ElementRestored(f.value, r.value, s, names)
Set(f, l, i, names) ==
    MapValueItem(f, MapItems(l)[i], SetAdded(f.value.msg, MapItems(l)[i], names))
ValuesBack(f, n, s, l, names) ==
    LET kept == f.value.cpp = "message" => \A i \in 1 .. n : KeysKept(f.value.msg, s[i]) IN
    /\ DOMAIN MapItems(l) = 1 .. n
    /\ \/ names /\ f.value.cpp = "message" /\ l.t = 98
       \/ ListAccepted(f.value, GetMapValueKdbType(f.value), l)
    /\ \A i \in 1 .. n :
          /\ IsGiven(MapItems(l)[i])
          /\ ItemBack(f, s[i], Set(f, l, i, names), names, FlatIn(f.value.msg, s, i))
    /\ kept /\ (\A i \in 1 .. n : ~Throws(Set(f, l, i, names))) =>
          \A w : (\A i \in 1 .. n : w[i] = Set(f, l, i, names).value) => IsRead(f, n, w, l, names)

LEMMA ScalarValuesBack ==
    ASSUME NEW f, IsElement(f.value), f.value.cpp # "message", NEW names \in BOOLEAN,
           NEW n \in Nat, NEW s, \A i \in 1 .. n : s[i] \in Scalars(f.value),
           NEW l, IsRead(f, n, s, l, names), ~IsException(l)
    PROVE  ValuesBack(f, n, s, l, names)
<1> DEFINE e == f.value
           setting == StringSetting(e)
           t == ListKdbType(e, setting)
           error == "TypeCheckMapStringElement"
           values == [i \in 1 .. n |-> s[i]]
           back == [i \in 1 .. n |-> Back(e, setting, s[i])]
<1>1. \A w : IsRead(f, n, w, l, names) <=> l = GetList(e, t, setting, [i \in 1 .. n |-> w[i]])
  BY Zenon DEF IsRead, GetMapValues, GetElements, GetMapValueKdbType
<1>2. l = GetList(e, t, setting, values) /\ DOMAIN values = 1 .. n
  BY <1>1, Zenon
<1>3. setting \in KdbStringEncodings
  BY Settings
<1>4. ListBack(e, setting, values, l, error)
  <2>1. \A i \in DOMAIN values : values[i] \in Scalars(e)
    BY <1>2
  <2> HIDE DEF values, setting
  <2> QED
    BY <1>2, <1>3, <2>1, ListComesBack
<1>5. back = [i \in DOMAIN values |-> Back(e, setting, values[i])]
  BY Zenon
<1> HIDE DEF setting, t, error
<1>6. /\ ListAccepted(e, t, l)
      /\ l.t \notin {98, 99, 101, -128}
      /\ Items(l) = [i \in DOMAIN values |-> Items(l)[i]]
      /\ \A i \in DOMAIN values :
            Items(l)[i].t # 101 /\ ListItem(e, Items(l)[i], error) = Value(back[i])
      /\ GetList(e, t, setting, back) = l
  <2> HIDE DEF values, back
  <2> QED
    BY <1>4, <1>5, ZenonT(40) DEF ListBack, t
<1>7. MapItems(l) = Items(l)
  <2>1. l.t # 98
    BY <1>6
  <2> QED
    BY <2>1 DEF MapItems
<1>8. DOMAIN Items(l) = 1 .. n
  BY <1>2, <1>6
<1>9. \A i \in 1 .. n : Set(f, l, i, names) = Value(back[i])
  BY <1>2, <1>6, <1>7, Zenon DEF Set, MapValueItem, error
<1>10. \A i \in 1 .. n : IsGiven(MapItems(l)[i])
  <2>1. \A i \in 1 .. n : Items(l)[i].t # 101
    <3> HIDE DEF values, back
    <3>1. \A i \in DOMAIN values : Items(l)[i].t # 101
      BY <1>6, Zenon
    <3> QED
      BY <1>2, <3>1, Zenon
  <2> QED
    BY <1>7, <2>1 DEF IsGiven
<1>11. \A i \in 1 .. n : ~Throws(Set(f, l, i, names)) /\ Set(f, l, i, names).value = back[i]
  BY <1>9, Answers
<1>12. \A i \in 1 .. n : ItemBack(f, s[i], Set(f, l, i, names), names, FlatIn(f.value.msg, s, i))
  <2>1. \A i \in 1 .. n : ElementRestored(e, back[i], s[i], names)
    BY DEF ElementRestored, ValueBack, setting
  <2> QED
    BY <1>11, <2>1, Zenon DEF ItemBack
<1>13. ASSUME NEW w, \A i \in 1 .. n : w[i] = Set(f, l, i, names).value
       PROVE  IsRead(f, n, w, l, names)
  <2>1. \A i \in 1 .. n : w[i] = back[i]
    BY <1>11, <1>13, Zenon
  <2>2. [i \in 1 .. n |-> w[i]] = back
    BY <2>1
  <2> QED
    BY <1>1, <1>6, <2>2, Zenon
<1>14. ListAccepted(e, GetMapValueKdbType(e), l)
  BY <1>6, Zenon DEF GetMapValueKdbType, t, setting
<1> QED
  BY <1>7, <1>8, <1>10, <1>12, <1>13, <1>14, Zenon DEF ValuesBack

LEMMA MessageValueType ==
    ASSUME NEW e, IsElement(e), e.cpp = "message", GetMapValueKdbType(e) # Thrown
    PROVE  GetMapValueKdbType(e) = 0
<1> USE DEF GetMapValueKdbType, ListKdbType, GetKdbType, IsElement, CppTypes, Specifiers,
        Cpp2KdbType, CompatibleKdbType, Thrown, KI, KJ, KF, KE, KB, KS
<1>1. Cpp2KdbType(e.cpp) = 0
  OBVIOUS
<1>2. e.spec # "DEFAULT" => CompatibleKdbType(e.spec) # 0
  OBVIOUS
<1>3. GetKdbType(e) \in {0, Thrown}
  BY <1>1, <1>2
<1> QED
  BY <1>3

LEMMA MessageValuesBack ==
    ASSUME NEW f, IsElement(f.value), f.value.cpp = "message", f.value.msg \in Types,
           GetMapValueKdbType(f.value) # Thrown, NEW names \in BOOLEAN,
           NEW n \in Nat, NEW s, s = [i \in 1 .. n |-> s[i]],
           \A i \in 1 .. n : s[i] \in Messages(f.value.msg),
           names /\ n # 0 => s \in Groups(f.value.msg),
           \A i \in 1 .. n : MessageBack(f.value.msg, s[i], names),
           NEW l, IsRead(f, n, s, l, names), ~IsException(l)
    PROVE  ValuesBack(f, n, s, l, names)
<1> DEFINE ty == f.value.msg
           ks == [i \in 1 .. n |-> GetSub(ty, s[i], names)]
           List(x) == IF names THEN Collapse(x) ELSE Mixed(x)
           x == MapItems(l)
<1>1. \A w : IsRead(f, n, w, l, names) <=>
               l = LET subs == [i \in 1 .. n |-> GetSub(ty, w[i], names)] IN
                   IF AnyException(subs) THEN FirstException(subs) ELSE List(subs)
  BY Zenon DEF IsRead, GetMapValues
<1>2. /\ \A i \in 1 .. n : ~IsException(ks[i])
      /\ ~AnyException(ks)
      /\ l = List(ks)
  <2>1. DOMAIN ks = 1 .. n
    OBVIOUS
  <2>2. l = IF AnyException(ks) THEN FirstException(ks) ELSE List(ks)
    BY <1>1, Zenon
  <2> HIDE DEF ks, List
  <2>3. ~AnyException(ks)
    BY <2>1, <2>2, FirstIsException
  <2> QED
    BY <2>1, <2>2, <2>3, Zenon DEF AnyException
<1>3. SubsBack(ty, n, s, l, names)
  <2>1. ks = [i \in 1 .. n |-> GetSub(ty, s[i], names)]
    OBVIOUS
  <2>2. l = IF names THEN Collapse(ks) ELSE Mixed(ks)
    BY <1>2
  <2>3. \A i \in 1 .. n : MessageBack(ty, s[i], names)
    BY Zenon
  <2>4. \A i \in 1 .. n : ~IsException(GetSub(ty, s[i], names))
    BY <1>2
  <2>5. Listing(ty, n, s, names)
    <3> HIDE DEF ks
    <3> QED
      BY <2>4, Zenon DEF Listing
  <2> HIDE DEF ks, ty
  <2> QED
    BY <2>1, <2>2, <2>3, <2>5, SubListBack DEF ty
<1> HIDE DEF x
<1>4. /\ l.t \in {0, 98} /\ (l.t = 98 => names)
      /\ DOMAIN x = 1 .. n
      /\ \A i \in 1 .. n : x[i].t # 101 /\ SubBack(ty, s[i], x[i], names, FlatIn(ty, s, i))
  BY <1>3, Zenon DEF SubsBack, x
<1>5. \A i \in 1 .. n : Set(f, l, i, names) = SetAdded(ty, x[i], names)
  BY Zenon DEF Set, MapValueItem, x
<1>6. \A i \in 1 .. n : LET r == Set(f, l, i, names) IN
          /\ Throws(r) <=> names /\ (FlatRows(ty, s[i]) \/ FlatIn(ty, s, i))
          /\ ~Throws(r) =>
                /\ Exact(ty, s[i], names) => r.value = s[i]
                /\ KeysKept(ty, s[i]) => GetSub(ty, r.value, names) = GetSub(ty, s[i], names)
  <2> SUFFICES ASSUME NEW i \in 1 .. n, NEW r, r = Set(f, l, i, names)
               PROVE  /\ Throws(r) <=> names /\ (FlatRows(ty, s[i]) \/ FlatIn(ty, s, i))
                      /\ ~Throws(r) =>
                            /\ Exact(ty, s[i], names) => r.value = s[i]
                            /\ KeysKept(ty, s[i]) =>
                                  GetSub(ty, r.value, names) = GetSub(ty, s[i], names)
    BY Zenon
  <2>1. r = SetAdded(ty, x[i], names)
    BY <1>5
  <2>2. SubBack(ty, s[i], x[i], names, FlatIn(ty, s, i))
    BY <1>4, ZenonT(30)
  <2> QED
    BY <2>1, <2>2, Zenon DEF SubBack
<1>7. \A i \in 1 .. n : ItemBack(f, s[i], Set(f, l, i, names), names, FlatIn(ty, s, i))
  BY <1>6, Zenon DEF ItemBack, ElementRestored
<1>8. \A i \in 1 .. n : IsGiven(x[i])
  BY <1>4, Zenon DEF IsGiven
<1>9. \/ names /\ l.t = 98
      \/ ListAccepted(f.value, GetMapValueKdbType(f.value), l)
  <2>1. l.t = 0 => ListAccepted(f.value, GetMapValueKdbType(f.value), l)
    <3>1. GetMapValueKdbType(f.value) = 0
      BY MessageValueType
    <3>2. "message" # "string"
      OBVIOUS
    <3> QED
      BY <3>1, <3>2, Zenon DEF ListAccepted
  <2>2. l.t = 0 \/ l.t = 98
    BY <1>4, Zenon
  <2> QED
    BY <1>4, <2>1, <2>2, Zenon
<1>10. ASSUME \A i \in 1 .. n : KeysKept(ty, s[i]), \A i \in 1 .. n : ~Throws(Set(f, l, i, names)),
              NEW w, \A i \in 1 .. n : w[i] = Set(f, l, i, names).value
       PROVE  IsRead(f, n, w, l, names)
  <2>1. \A i \in 1 .. n : GetSub(ty, w[i], names) = GetSub(ty, s[i], names)
    BY <1>6, <1>10, Zenon
  <2>2. [i \in 1 .. n |-> GetSub(ty, w[i], names)] = ks
    BY <2>1
  <2> HIDE DEF ks, List
  <2> QED
    BY <1>1, <1>2, <2>2, Zenon
<1> QED
  BY <1>4, <1>7, <1>8, <1>9, <1>10, ZenonT(60) DEF ValuesBack, x

LEMMA MapField ==
    ASSUME NEW f, IsField(f), f.label = "map", NEW names \in BOOLEAN,
           NEW v, IsValue(f, v), Grouped(f, v),
           \A s \in Subs(f, v) : MessageBack(f.value.msg, s, names),
           NEW k, k = GetMessageField(f, v, names), ~IsException(k)
    PROVE  FieldBack(f, v, names) /\ ~Skipped(f, k)
<1> DEFINE ty == f.value.msg
           S == DOMAIN v
           n == Cardinality(S)
           order == SetToSeq(S)
           s == [i \in 1 .. n |-> v[order[i]]]
           keySetting == MapKeySetting(f.key)
           keyType == GetMapKeyKdbType(f.key)
           keys == GetList(f.key, keyType, keySetting, order)
           values == GetMapValues(f, [i \in 1 .. n |-> s[i]], names,
                                  [i \in 1 .. n |-> GetSub(ty, s[i], names)])
           error == "TypeCheckMapStringElement"
           kb == [i \in 1 .. n |-> KeyBack(f, order[i])]
           message == f.value.cpp = "message"
<1>1. /\ Element(f) = f.value /\ f.oneof = "" /\ IsElement(f.value)
      /\ IsElement(f.key) /\ f.key.cpp # "message"
      /\ message => ty \in Types
      /\ Subs(f, v) = IF message THEN {v[x] : x \in S} ELSE {}
  <2>1. Values(f, v) = {v[x] : x \in S}
    BY DEF Values
  <2>2. Element(f) = f.value
    BY DEF Element
  <2> QED
    BY <2>1, <2>2 DEF IsField, Describes, Subs
<1>2. /\ IsFiniteSet(S) /\ S \subseteq Scalars(f.key)
      /\ \A x \in S : v[x] \in ElementValues(f.value)
  <2>1. v \in [S -> ElementValues(f.value)] /\ S \subseteq Scalars(f.key) /\ IsFiniteSet(S)
    BY DEF IsValue
  <2> QED
    BY <2>1
<1>3. /\ n \in Nat /\ order \in [1 .. n -> S]
      /\ \A i, j \in 1 .. n : order[i] = order[j] => i = j
      /\ \A x \in S : \E i \in 1 .. n : order[i] = x
  BY <1>2, OrderOfKeys
<1> HIDE DEF n, order
<1>4. DOMAIN order = 1 .. n /\ \A i \in 1 .. n : order[i] \in S /\ s[i] = v[order[i]]
  BY <1>3
<1>21. InOrder(f, v) = s /\ s = [i \in 1 .. n |-> s[i]] /\ DOMAIN s = 1 .. n
  <2>1. InOrder(f, v) = Map(SetToSeq(DOMAIN v), LAMBDA y : v[y])
    BY Zenon DEF InOrder
  <2>2. InOrder(f, v) = Map(order, LAMBDA y : v[y])
    BY <2>1 DEF order
  <2> QED
    BY <1>4, <2>2 DEF Map
<1>22. IsListOfMessages(f) <=> message
  <2>1. "map" # "singular"
    OBVIOUS
  <2> QED
    BY <1>1, <2>1, Zenon DEF IsListOfMessages
<1>23. message /\ n # 0 => s \in Groups(f.value.msg)
  <2>1. n # 0 => Values(f, v) # {}
    <3>1. Values(f, v) = {v[y] : y \in S}
      BY DEF Values
    <3>2. n # 0 => 1 \in 1 .. n
      BY <1>3
    <3>3. n # 0 => v[order[1]] \in Values(f, v)
      BY <1>4, <3>1, <3>2
    <3> QED
      BY <3>3
  <2> HIDE DEF s, S
  <2> QED
    BY <1>1, <1>21, <1>22, <2>1, Zenon DEF Grouped
<1>5. IsRead(f, n, s, values, names)
  BY Zenon DEF IsRead
<1> HIDE DEF keys, values
<1>6. /\ k = Dict(keys, values) /\ ~IsException(keys) /\ ~IsException(values)
      /\ keyType # Thrown /\ GetMapValueKdbType(f.value) # Thrown
  <2>1. k = IF Thrown \in {keyType, GetMapValueKdbType(f.value)}
            THEN Exception("TypeCheckCompatible")
            ELSE IF IsException(keys) THEN keys
            ELSE IF IsException(values) THEN values
            ELSE Dict(keys, values)
    <3>1. order = SetToSeq(DOMAIN v)
      BY DEF order
    <3>2. keys = GetList(f.key, keyType, keySetting, order)
      BY DEF keys
    <3>3. s = [i \in 1 .. n |-> v[order[i]]]
      OBVIOUS
    <3> HIDE DEF s
    <3>4. MapLists(f, v, names, n, order, s, keys, values)
      BY <1>3, <1>5, <3>1, <3>2, <3>3, Zenon DEF MapLists
    <3>5. GetMessageField(f, v, names) = MapObject(f, keys, values)
      <4>1. f.oneof = "" /\ f.label = "map"
        BY <1>1
      <4>2. \A a, b, c, d, e : MapLists(f, v, names, a, b, c, d, e) =>
                                  GetMessageField(f, v, names) = MapObject(f, d, e)
        BY <4>1, GetMapIs, Zenon
      <4> QED
        BY <3>4, <4>2, Zenon
    <3> QED
      BY <3>5 DEF MapObject
  <2>2. IsException(Exception("TypeCheckCompatible"))
    BY DEF IsException, Exception
  <2> QED
    BY <2>1, <2>2
<1>7. /\ ListAccepted(f.key, keyType, keys) /\ DOMAIN Items(keys) = 1 .. n
      /\ \A i \in 1 .. n : ListItem(f.key, Items(keys)[i], error) = Value(kb[i])
  <2>1. keySetting \in KdbStringEncodings
    BY Settings
  <2>2. keys = GetList(f.key, ListKdbType(f.key, keySetting), keySetting, order)
    BY Zenon DEF keys, GetMapKeyKdbType
  <2>3. \A i \in DOMAIN order : order[i] \in Scalars(f.key)
    BY <1>2, <1>4
  <2>4. \A i \in 1 .. n : kb[i] = Back(f.key, keySetting, order[i])
    BY DEF KeyBack
  <2>5. keyType = ListKdbType(f.key, keySetting)
    BY DEF GetMapKeyKdbType
  <2> HIDE DEF keySetting, kb, keyType
  <2>6. ListBack(f.key, keySetting, order, keys, error)
    <3>1. \A b, c, d : d = GetList(f.key, ListKdbType(f.key, keySetting), keySetting, b) /\
             (\A i \in DOMAIN b : b[i] \in Scalars(f.key)) /\ ~IsException(d) =>
             ListBack(f.key, keySetting, b, d, c)
      BY <1>1, <2>1, ListComesBack, Zenon
    <3> QED
      BY <1>6, <2>2, <2>3, <3>1, Zenon
  <2> DEFINE back == [i \in DOMAIN order |-> Back(f.key, keySetting, order[i])]
  <2>7. /\ ListAccepted(f.key, keyType, keys)
        /\ Items(keys) = [i \in DOMAIN order |-> Items(keys)[i]]
        /\ \A i \in DOMAIN order : ListItem(f.key, Items(keys)[i], error) = Value(back[i])
    BY <2>5, <2>6, Zenon DEF ListBack
  <2>8. \A i \in DOMAIN order : back[i] = kb[i]
    BY <1>4, <2>4
  <2>9. DOMAIN Items(keys) = 1 .. n
    BY <1>4, <2>7
  <2> HIDE DEF back
  <2> QED
    BY <1>4, <2>7, <2>8, <2>9, Zenon
<1>8. \A i \in 1 .. n : s[i] \in ElementValues(f.value)
  BY <1>2, <1>4
<1> HIDE DEF keySetting, keyType, kb, s, ty, error
<1>9. ValuesBack(f, n, s, values, names)
  <2>1. CASE ~message
    <3>1. \A i \in 1 .. n : s[i] \in Scalars(f.value)
      BY <1>8, <2>1 DEF ElementValues
    <3> QED
      BY <1>1, <1>3, <1>5, <1>6, <2>1, <3>1, ScalarValuesBack
  <2>2. CASE message
    <3>1. \A i \in 1 .. n : s[i] \in Messages(f.value.msg)
      BY <1>8, <2>2 DEF ElementValues
    <3>2. \A i \in 1 .. n : s[i] \in Subs(f, v)
      BY <1>1, <1>4, <2>2
    <3>3. \A i \in 1 .. n : MessageBack(f.value.msg, s[i], names)
      BY <3>2, Zenon
    <3>4. IsElement(f.value) /\ f.value.msg \in Types /\ n \in Nat
      BY <1>1, <1>3, <2>2 DEF ty
    <3>5. GetMapValueKdbType(f.value) # Thrown /\ ~IsException(values)
      BY <1>6
    <3>6. s = [i \in 1 .. n |-> s[i]]
      BY <1>21
    <3>7. names /\ n # 0 => s \in Groups(f.value.msg)
      BY <1>23, <2>2
    <3> HIDE DEF n
    <3> QED
      BY <1>5, <2>2, <3>1, <3>3, <3>4, <3>5, <3>6, <3>7, MessageValuesBack, ZenonT(30)
  <2> QED
    BY <2>1, <2>2, Zenon
<1> DEFINE x == MapItems(values)
           vr(i) == Set(f, values, i, names)
           kept == message => \A i \in 1 .. n : KeysKept(ty, s[i])
           a == [i \in 1 .. n |-> IF Throws(vr(i)) THEN vr(i) ELSE Value(<<kb[i], vr(i).value>>)]
           rs == [i \in DOMAIN x |-> MapEntry(ListItem(f.key, Items(keys)[i], error), vr(i), x[i])]
           all == AppendAll(<<>>, rs)
           r == FieldValue(f, Default(f), k, names)
<1> HIDE DEF x, vr, message
<1>10. /\ DOMAIN x = 1 .. n
       /\ \/ names /\ message /\ values.t = 98
          \/ ListAccepted(f.value, GetMapValueKdbType(f.value), values)
       /\ \A i \in 1 .. n : IsGiven(x[i]) /\ ItemBack(f, s[i], vr(i), names, FlatIn(ty, s, i))
       /\ kept /\ (\A i \in 1 .. n : ~Throws(vr(i))) =>
             \A w : (\A i \in 1 .. n : w[i] = vr(i).value) => IsRead(f, n, w, values, names)
  BY <1>9, Zenon DEF ValuesBack, x, vr, message, ty
<1>11. r = AddEntries([y \in {} |-> Unset], all)
  <2> DEFINE subs == [i \in DOMAIN x |-> SetAdded(ty, x[i], names)]
  <2>1. k.t = 99 /\ k.keys = keys /\ k.vals = values
    BY <1>6, Shapes
  <2>2. r = SetMap(f, [y \in {} |-> Unset], k, names,
                   [i \in DOMAIN MapItems(k.vals) |-> SetAdded(ty, MapItems(k.vals)[i], names)])
    BY SetByLabel, Zenon DEF ty
  <2>3. r = SetMap(f, [y \in {} |-> Unset], k, names, subs)
    BY <2>1, <2>2, Zenon DEF x
  <2>4. \A i \in DOMAIN x : MapValueItem(f, x[i], subs[i]) = vr(i)
    BY Zenon DEF vr, Set, ty, x
  <2> HIDE DEF r, subs
  <2>5. r = AddEntries([y \in {} |-> Unset], AppendAll(<<>>,
               [i \in DOMAIN x |-> MapEntry(ListItem(f.key, Items(keys)[i], error),
                                            MapValueItem(f, x[i], subs[i]), x[i])]))
    <3>1. Thrown \notin {keyType, GetMapValueKdbType(f.value)}
      BY <1>6 DEF keyType
    <3>2. k.t = 99
      BY <2>1
    <3> DEFINE Result == AddEntries([y \in {} |-> Unset], AppendAll(<<>>,
               [i \in DOMAIN MapItems(k.vals) |->
                   MapEntry(ListItem(f.key, Items(k.keys)[i], "TypeCheckMapStringElement"),
                            MapValueItem(f, MapItems(k.vals)[i], subs[i]), MapItems(k.vals)[i])]))
    <3>3. /\ ListAccepted(f.key, keyType, k.keys)
          /\ \/ names /\ message /\ k.vals.t = 98
             \/ ListAccepted(f.value, GetMapValueKdbType(f.value), k.vals)
      BY <1>7, <1>10, <2>1, Zenon
    <3>4. r = Result
      BY <2>3, <3>1, <3>2, <3>3, Zenon DEF SetMap, keyType, message
    <3> QED
      BY <2>1, <3>4, Zenon DEF x, error
  <2>6. \A i \in DOMAIN x :
           rs[i] = MapEntry(ListItem(f.key, Items(keys)[i], error), MapValueItem(f, x[i], subs[i]), x[i])
    BY <2>4, Zenon
  <2>7. rs = [i \in DOMAIN x |-> MapEntry(ListItem(f.key, Items(keys)[i], error),
                                          MapValueItem(f, x[i], subs[i]), x[i])]
    BY <2>6, Zenon
  <2> HIDE DEF rs
  <2> QED
    BY <2>5, <2>7, Zenon
<1>12. Loop(n, rs, a)
  <2>1. \A i \in 1 .. n : rs[i] = MapEntry(Value(kb[i]), vr(i), x[i]) /\ x[i].t # 101
    <3>1. \A i \in 1 .. n : x[i].t # 101
      BY <1>10, Zenon DEF IsGiven
    <3>2. \A i \in 1 .. n : rs[i] = MapEntry(ListItem(f.key, Items(keys)[i], error), vr(i), x[i])
      BY <1>10, Zenon
    <3>3. \A i \in 1 .. n : ListItem(f.key, Items(keys)[i], error) = Value(kb[i])
      BY <1>7, Zenon
    <3> HIDE DEF rs
    <3> QED
      BY <3>1, <3>2, <3>3, Zenon
  <2>2. \A i \in 1 .. n : rs[i] = Single(a[i])
    <3>1. SUFFICES ASSUME NEW i \in 1 .. n PROVE rs[i] = Single(a[i])
      BY Zenon
    <3> DEFINE b == vr(i)
    <3>2. a[i] = IF Throws(b) THEN b ELSE Value(<<kb[i], b.value>>)
      BY Zenon
    <3>3. rs[i] = IF Throws(b) THEN b ELSE Value(<<<<kb[i], b.value>>>>)
      <4>1. ~Throws(Value(kb[i])) /\ Value(kb[i]).value = kb[i]
        BY Answers
      <4>2. rs[i] = MapEntry(Value(kb[i]), b, x[i]) /\ x[i].t # 101
        BY <2>1, Zenon
      <4>3. MapEntry(Value(kb[i]), b, x[i]) =
               IF Throws(b) THEN b ELSE Value(<<<<Value(kb[i]).value, b.value>>>>)
        BY <4>1, <4>2, Zenon DEF MapEntry
      <4> HIDE DEF rs, b
      <4> QED
        BY <4>1, <4>2, <4>3
    <3> HIDE DEF rs, a, b
    <3>4. CASE Throws(b)
      BY <3>2, <3>3, <3>4, Zenon DEF Single
    <3>5. CASE ~Throws(b)
      <4>1. a[i] = Value(<<kb[i], b.value>>)
        BY <3>2, <3>5, Zenon
      <4>2. ~Throws(a[i]) /\ a[i].value = <<kb[i], b.value>>
        BY <4>1, Answers
      <4> QED
        BY <3>3, <3>5, <4>2, Zenon DEF Single
    <3> QED
      BY <3>4, <3>5
  <2>3. DOMAIN rs = 1 .. n
    BY <1>10, Zenon
  <2> HIDE DEF rs, a
  <2> QED
    BY <1>3, <2>2, <2>3, Zenon DEF Loop
<1>13. /\ \A i \in 1 .. n : Throws(a[i]) <=> Throws(vr(i))
       /\ \A i \in 1 .. n : ~Throws(vr(i)) => a[i].value = <<kb[i], vr(i).value>>
  <2> SUFFICES ASSUME NEW i \in 1 .. n
               PROVE  /\ Throws(a[i]) <=> Throws(vr(i))
                      /\ ~Throws(vr(i)) => a[i].value = <<kb[i], vr(i).value>>
    BY Zenon
  <2>1. a[i] = IF Throws(vr(i)) THEN vr(i) ELSE Value(<<kb[i], vr(i).value>>)
    BY Zenon
  <2>2. /\ ~Throws(Value(<<kb[i], vr(i).value>>))
        /\ Value(<<kb[i], vr(i).value>>).value = <<kb[i], vr(i).value>>
    BY Answers
  <2> HIDE DEF a
  <2> QED
    BY <2>1, <2>2, Zenon
<1> HIDE DEF rs, a
<1>14. /\ Throws(all) <=> \E i \in 1 .. n : Throws(vr(i))
       /\ ~Throws(all) => all.value = [i \in 1 .. n |-> a[i].value]
  <2>1. /\ Throws(all) <=> \E i \in 1 .. n : Throws(a[i])
        /\ ~Throws(all) => all.value = [i \in 1 .. n |-> a[i].value]
    BY <1>12, AppendLoop
  <2> HIDE DEF all
  <2> QED
    BY <1>13, <2>1, Zenon
<1> HIDE DEF all, r
<1> DEFINE w == [i \in 1 .. n |-> vr(i).value]
<1>15. /\ Throws(r) <=> \E i \in 1 .. n : Throws(vr(i))
       /\ ~Throws(r) => OneOfEach(n, kb, w, r.value)
  <2>1. Throws(all) => r = all
    BY <1>11, Zenon DEF AddEntries
  <2>2. ASSUME ~Throws(all)
        PROVE  ~Throws(r) /\ OneOfEach(n, kb, w, r.value)
    <3>1. all.value = [i \in 1 .. n |-> a[i].value]
      BY <1>14, <2>2, Zenon
    <3>2. \A i \in 1 .. n : a[i].value = <<kb[i], w[i]>>
      BY <1>13, <1>14, <2>2, Zenon
    <3> HIDE DEF w
    <3>3. DOMAIN all.value = 1 .. n /\ \A i \in 1 .. n : all.value[i] = <<kb[i], w[i]>>
      BY <3>1, <3>2
    <3>4. Entries(n, kb, w, all.value)
      BY <1>3, <3>3, Zenon DEF Entries
    <3> QED
      BY <1>11, <2>2, <3>4, EntriesAdded, Zenon
  <2> QED
    BY <1>14, <2>1, <2>2, Zenon
<1>16. Throws(r) <=> names /\ FlatField(f, v)
  <2>1. \A i \in 1 .. n : Throws(vr(i)) <=>
           names /\ message /\ (FlatRows(ty, s[i]) \/ FlatIn(ty, s, i))
    BY <1>10, Zenon DEF ItemBack, message, ty
  <2>2. ~message => ~\E u \in Subs(f, v) : TRUE
    <3>1. ~message => Subs(f, v) = {}
      BY <1>1 DEF message
    <3> QED
      BY <3>1
  <2>3. ASSUME message
        PROVE  /\ \A i \in 1 .. n : s[i] \in Subs(f, v)
               /\ \A u \in Subs(f, v) : \E i \in 1 .. n : u = s[i]
    <3>1. Subs(f, v) = {v[y] : y \in S}
      BY <1>1, <2>3 DEF message
    <3> QED
      BY <1>3, <1>4, <3>1
  <2> HIDE DEF S
  <2>4. FlatTable(f, v) <=> message /\ \E i \in 1 .. n : FlatIn(ty, s, i)
    BY <1>1, <1>21, <1>22, Zenon DEF FlatTable, ty
  <2>5. (\E u \in Subs(f, v) : FlatRows(ty, u)) <=>
           message /\ \E i \in 1 .. n : FlatRows(ty, s[i])
    BY <2>2, <2>3, Zenon
  <2>6. FlatField(f, v) <=>
           message /\ \E i \in 1 .. n : FlatRows(ty, s[i]) \/ FlatIn(ty, s, i)
    BY <1>1, <2>4, <2>5, Zenon DEF FlatField, ty
  <2> QED
    BY <1>15, <2>1, <2>6, Zenon
<1>17. ASSUME ~Throws(r)
       PROVE  Restored(f, r.value, v, names)
  <2> DEFINE new == r.value
  <2> HIDE DEF w, new
  <2>1. /\ DOMAIN new = {kb[i] : i \in 1 .. n}
        /\ \A y \in DOMAIN new : \E i \in 1 .. n : kb[i] = y /\ new[y] = w[i]
    BY <1>15, <1>17, Zenon DEF OneOfEach, new
  <2>2. \A i \in 1 .. n : kb[i] = KeyBack(f, order[i])
    BY DEF kb
  <2>3. DOMAIN new = {KeyBack(f, y) : y \in S}
    BY <1>3, <1>4, <2>1, <2>2
  <2>4. \A i \in 1 .. n : ElementRestored(f.value, w[i], v[order[i]], names)
    <3>1. \A i \in 1 .. n : w[i] = vr(i).value
      BY DEF w
    <3>2. \A i \in 1 .. n : ElementRestored(f.value, vr(i).value, s[i], names)
      BY <1>10, <1>15, <1>17, Zenon DEF ItemBack
    <3> QED
      BY <1>4, <3>1, <3>2, Zenon
  <2>5. ASSUME NEW y \in DOMAIN new
        PROVE  \E z \in S : KeyBack(f, z) = y /\ ElementRestored(f.value, new[y], v[z], names)
    <3>1. PICK i \in 1 .. n : kb[i] = y /\ new[y] = w[i]
      BY <2>1
    <3>2. KeyBack(f, order[i]) = y /\ order[i] \in S
      BY <1>4, <2>2, <3>1
    <3>3. ElementRestored(f.value, new[y], v[order[i]], names)
      BY <2>4, <3>1, Zenon
    <3> QED
      BY <3>2, <3>3, Zenon
  <2>6. "map" # "repeated" /\ "map" # "singular"
    OBVIOUS
  <2> QED
    BY <2>3, <2>5, <2>6, Zenon DEF Restored, new
<1>18. ASSUME ~Throws(r), \A y \in S : KeyBack(f, y) = y, \A u \in Subs(f, v) : KeysKept(ty, u)
       PROVE  GetMessageField(f, r.value, names) = k
  <2> DEFINE new == r.value
             w2 == [i \in 1 .. n |-> new[order[i]]]
  <2> HIDE DEF w, new
  <2>1. /\ DOMAIN new = {kb[i] : i \in 1 .. n}
        /\ \A y \in DOMAIN new : \E i \in 1 .. n : kb[i] = y /\ new[y] = w[i]
    BY <1>15, <1>18, Zenon DEF OneOfEach, new
  <2>2. \A i \in 1 .. n : kb[i] = order[i]
    <3>1. \A i \in 1 .. n : kb[i] = KeyBack(f, order[i])
      BY DEF kb
    <3> QED
      BY <1>4, <1>18, <3>1
  <2>3. DOMAIN new = S
    <3>1. \A i \in 1 .. n : order[i] \in S
      BY <1>4
    <3>2. \A y \in S : \E i \in 1 .. n : order[i] = y
      BY <1>3
    <3> HIDE DEF S
    <3> QED
      BY <2>1, <2>2, <3>1, <3>2
  <2>4. \A i \in 1 .. n : new[order[i]] = w[i]
    <3>1. SUFFICES ASSUME NEW i \in 1 .. n PROVE new[order[i]] = w[i]
      OBVIOUS
    <3>2. PICK j \in 1 .. n : kb[j] = order[i] /\ new[order[i]] = w[j]
      BY <1>4, <2>1, <2>3
    <3>3. i = j
      BY <1>3, <2>2, <3>2
    <3> QED
      BY <3>2, <3>3
  <2>5. \A i \in 1 .. n : w2[i] = vr(i).value
    BY <2>4 DEF w
  <2>6. IsRead(f, n, w2, values, names)
    <3>1. kept
      <4>1. ASSUME message PROVE \A i \in 1 .. n : s[i] \in Subs(f, v)
        BY <1>1, <1>4, <4>1 DEF message
      <4> QED
        BY <1>18, <4>1, Zenon
    <3>2. \A i \in 1 .. n : ~Throws(vr(i))
      BY <1>15, <1>18, Zenon
    <3> HIDE DEF w2, kept
    <3> QED
      BY <1>10, <2>5, <3>1, <3>2, Zenon
  <2>7. MapLists(f, new, names, n, order, w2, keys, values)
    <3>1. order = SetToSeq(DOMAIN new) /\ order \in [1 .. n -> DOMAIN new]
      BY <1>3, <2>3 DEF order
    <3>2. keys = GetList(f.key, GetMapKeyKdbType(f.key), MapKeySetting(f.key), order)
      BY DEF keys, keyType, keySetting
    <3>3. w2 = [i \in 1 .. n |-> new[order[i]]]
      OBVIOUS
    <3> HIDE DEF w2
    <3> QED
      BY <2>6, <3>1, <3>2, <3>3, Zenon DEF MapLists
  <2> HIDE DEF w2
  <2>8. GetMessageField(f, new, names) = MapObject(f, keys, values)
    <3>1. f.oneof = "" /\ f.label = "map"
      BY <1>1
    <3>2. \A b, c, d, g, h, i : MapLists(f, b, names, c, d, g, h, i) =>
                                GetMessageField(f, b, names) = MapObject(f, h, i)
      BY <3>1, GetMapIs, Zenon
    <3> QED
      BY <2>7, <3>2, Zenon
  <2>9. MapObject(f, keys, values) = Dict(keys, values)
    <3>1. Thrown \notin {GetMapKeyKdbType(f.key), GetMapValueKdbType(f.value)}
      BY <1>6 DEF keyType
    <3> QED
      BY <1>6, <3>1, Zenon DEF MapObject
  <2> QED
    BY <1>6, <2>8, <2>9 DEF new
<1>19. ~Skipped(f, k)
  <2>1. k.t = 99 /\ 99 # 101
    BY <1>6, Shapes
  <2> QED
    BY <1>1, <2>1, Zenon DEF Skipped
<1>20. FieldBack(f, v, names)
  <2> HIDE DEF w
  <2> QED
    BY <1>1, <1>16, <1>17, <1>18, Zenon DEF FieldBack, r, ty
<1> QED
  BY <1>19, <1>20
----------------------------------------------------------------------------
(* A field whose object SetMessage leaves alone was not set, or its value
   looks like one that is not; it is not set afterwards. *)
SkipBack(f, v, k, names) ==
    /\ f.label = "singular" /\ Default(f) = Unset /\ (v = Unset \/ LooksUnset(f, v, names))
    /\ Restored(f, Unset, v, names)
    /\ names => Subs(f, v) = {}
    /\ GetMessageField(f, Unset, names) = k

LEMMA SkippedComesBack ==
    ASSUME NEW f, IsField(f), f.label = "singular", NEW names \in BOOLEAN, NEW v, IsValue(f, v),
           NEW k, k = GetMessageField(f, v, names), ~IsException(k), Skipped(f, k)
    PROVE  SkipBack(f, v, k, names)
<1>1. Element(f) = f /\ IsElement(f) /\ (f.cpp = "message" => f.msg \in Types)
  BY DEF Element, IsField, Describes
<1>2. \/ v \in ElementValues(f)
      \/ v = Unset /\ (f.oneof # "" \/ f.cpp = "message")
  BY DEF IsValue
<1>3. /\ f.cpp # "message" => ElementValues(f) = Scalars(f) /\ Subs(f, v) = {}
      /\ f.cpp = "message" => ElementValues(f) = Messages(f.msg) /\ Subs(f, v) = {v} \ {Unset}
  BY <1>1 DEF ElementValues, Subs, Values
<1>4. ASSUME f.cpp # "message", v # Unset PROVE k.t \notin {0, 101}
  <2>1. v \in Scalars(f)
    BY <1>2, <1>3, <1>4
  <2>2. k = GetScalar(f, v)
    BY <1>4, GetByLabel, Zenon
  <2> QED
    BY <1>1, <1>4, <2>1, <2>2, AnyScalarBack
<1>5. ASSUME f.cpp = "message", v # Unset PROVE k.t = IF names THEN 99 ELSE 0
  <2>1. v \in Messages(f.msg)
    BY <1>2, <1>3, <1>5
  <2>2. k = GetSub(f.msg, v, names)
    BY <1>5, GetByLabel, Zenon
  <2>3. k = GetMessage(f.msg, v, names)
    BY <1>1, <1>5, <2>1, <2>2, RecursionAssumption
  <2> QED
    BY <1>1, <1>5, <2>1, <2>3, MessageShape
<1>6. Mixed(<<>>).t = 0
  BY DEF Mixed
<1>7. v # Unset => f.oneof # "" /\ k = Mixed(<<>>)
  <2>1. v # Unset => k.t # 101
    BY <1>4, <1>5
  <2> QED
    BY <2>1 DEF Skipped
<1>8. v # Unset => LooksUnset(f, v, names) /\ f.oneof # ""
  BY <1>7, Zenon DEF LooksUnset
<1>9. Default(f) = Unset
  <2>1. f.oneof # "" \/ f.cpp = "message"
    <3>1. f.cpp # "message" => Unset \notin ElementValues(f)
      BY <1>1, <1>3, ScalarsAreSet
    <3> QED
      BY <1>2, <1>7, <3>1
  <2>2. "map" # "singular" /\ "repeated" # "singular"
    OBVIOUS
  <2> QED
    BY <2>1, <2>2, Zenon DEF Default
<1>10. Restored(f, Unset, v, names)
  <2>1. "map" # "singular" /\ "repeated" # "singular"
    OBVIOUS
  <2> QED
    BY <1>8, <2>1, Zenon DEF Restored
<1>11. names => Subs(f, v) = {}
  <2>1. CASE v = Unset
    BY <1>3, <2>1
  <2>2. CASE v # Unset
    <3>1. k.t = 0
      BY <1>6, <1>7, <2>2
    <3>2. f.cpp = "message" /\ ~names
      BY <1>4, <1>5, <2>2, <3>1
    <3> QED
      BY <3>2
  <2> QED
    BY <2>1, <2>2
<1>12. GetMessageField(f, Unset, names) = k
  <2>1. f.oneof # "" => GetMessageField(f, Unset, names) = Mixed(<<>>)
    BY GetUnset, Zenon
  <2>2. v # Unset => GetMessageField(f, Unset, names) = k
    BY <1>7, <2>1
  <2> QED
    BY <2>2
<1> QED
  BY <1>8, <1>9, <1>10, <1>11, <1>12, Zenon DEF SkipBack

FieldComesBack(f, v, k, names) ==
    IF Skipped(f, k) THEN SkipBack(f, v, k, names) ELSE FieldBack(f, v, names)

LEMMA AnyField ==
    ASSUME NEW f, IsField(f), NEW names \in BOOLEAN, NEW v, IsValue(f, v),
           Grouped(f, v), \A s \in Subs(f, v) : MessageBack(Element(f).msg, s, names),
           NEW k, k = GetMessageField(f, v, names), ~IsException(k)
    PROVE  FieldComesBack(f, v, k, names)
<1>1. CASE f.label = "singular"
  <2>1. CASE Skipped(f, k)
    BY <1>1, <2>1, SkippedComesBack, Zenon DEF FieldComesBack
  <2>2. CASE ~Skipped(f, k) /\ f.cpp # "message"
    BY <1>1, <2>2, SingularScalar, Zenon DEF FieldComesBack
  <2>3. CASE ~Skipped(f, k) /\ f.cpp = "message"
    <3>1. Element(f) = f
      BY <1>1 DEF Element
    <3>2. Subs(f, v) = {v} \ {Unset}
      BY <1>1, <2>3, <3>1 DEF Subs, Values
    <3>3. v # Unset => MessageBack(f.msg, v, names)
      <4>1. v # Unset => v \in Subs(f, v)
        BY <3>2
      <4> QED
        BY <3>1, <4>1, Zenon
    <3>4. FieldBack(f, v, names)
      BY <1>1, <2>3, <3>3, SingularMessage, Zenon
    <3> QED
      BY <2>3, <3>4, Zenon DEF FieldComesBack
  <2> QED
    BY <2>1, <2>2, <2>3
<1>2. CASE f.label = "repeated"
  <2>1. Element(f) = f
    BY <1>2 DEF Element
  <2>2. FieldBack(f, v, names) /\ ~Skipped(f, k)
    <3>1. CASE f.cpp # "message"
      BY <1>2, <3>1, RepeatedScalar, Zenon
    <3>2. CASE f.cpp = "message"
      <4>1. \A s \in Subs(f, v) : MessageBack(f.msg, s, names)
        BY <2>1, Zenon
      <4> QED
        BY <1>2, <3>2, <4>1, RepeatedMessage, Zenon
    <3> QED
      BY <3>1, <3>2
  <2> QED
    BY <2>2, Zenon DEF FieldComesBack
<1>3. CASE f.label = "map"
  <2>1. Element(f) = f.value
    BY <1>3 DEF Element
  <2>2. \A s \in Subs(f, v) : MessageBack(f.value.msg, s, names)
    BY <2>1, Zenon
  <2>3. FieldBack(f, v, names) /\ ~Skipped(f, k)
    BY <1>3, <2>2, MapField, Zenon
  <2> QED
    BY <2>3, Zenon DEF FieldComesBack
<1> QED
  BY <1>1, <1>2, <1>3, Zenon DEF IsField
----------------------------------------------------------------------------
(* The flat rows of a message are those of its fields. *)
LEMMA FlatRowsAre ==
    ASSUME NEW ty \in Types, NEW m \in Messages(ty)
    PROVE  FlatRows(ty, m) <=> \E f \in ToSet(Fields(ty)) : FlatField(f, m[f.name])
<1>1. ASSUME FlatRows(ty, m) PROVE \E f \in ToSet(Fields(ty)) : FlatField(f, m[f.name])
  <2>1. PICK x \in Nested(ty, m) : FlatRow(x[1], x[2])
    BY <1>1, Zenon DEF FlatRows
  <2>2. CASE x = <<ty, m>>
    <3>1. FlatRow(ty, m)
      <4>1. x[1] = ty /\ x[2] = m
        BY <2>2, Itself
      <4> QED
        BY <2>1, <4>1, Zenon
    <3> QED
      BY <3>1, Zenon DEF FlatRow, FlatField
  <2>3. CASE \E f \in ToSet(Fields(ty)) : \E s \in Subs(f, m[f.name]) : x \in Nested(Element(f).msg, s)
    BY <2>1, <2>3, Zenon DEF FlatField, FlatRows
  <2> QED
    BY <2>2, <2>3, OfParts
<1>2. ASSUME NEW f \in ToSet(Fields(ty)), FlatField(f, m[f.name]) PROVE FlatRows(ty, m)
  <2>1. CASE \E s \in Subs(f, m[f.name]) : FlatRows(Element(f).msg, s)
    <3>1. PICK s \in Subs(f, m[f.name]) : FlatRows(Element(f).msg, s)
      BY <2>1, Zenon
    <3>2. PICK x \in Nested(Element(f).msg, s) : FlatRow(x[1], x[2])
      BY <3>1, Zenon DEF FlatRows
    <3>3. x \in Nested(ty, m)
      BY PartIsNested
    <3> QED
      BY <3>2, <3>3, Zenon DEF FlatRows
  <2>2. CASE FlatTable(f, m[f.name])
    <3>1. FlatRow(ty, m)
      BY <2>2, Zenon DEF FlatRow
    <3>2. FlatRow(<<ty, m>>[1], <<ty, m>>[2])
      BY <3>1, Itself
    <3> QED
      BY <3>2, Itself, Zenon DEF FlatRows
  <2> QED
    BY <1>2, <2>1, <2>2, Zenon DEF FlatField
<1> QED
  BY <1>1, <1>2, Zenon

LEMMA ExactParts ==
    ASSUME NEW ty \in Types, NEW m \in Messages(ty), NEW names \in BOOLEAN
    PROVE  /\ KeysKept(ty, m) => KeepsKeys(ty, m)
           /\ Exact(ty, m, names) => KeysKept(ty, m) /\ KeepsValues(ty, m, names)
           /\ \A f \in ToSet(Fields(ty)) : \A s \in Subs(f, m[f.name]) :
                 /\ KeysKept(ty, m) => KeysKept(Element(f).msg, s)
                 /\ Exact(ty, m, names) => Exact(Element(f).msg, s, names)
<1>1. KeysKept(ty, m) => KeepsKeys(ty, m)
  <2>1. KeysKept(ty, m) => KeepsKeys(<<ty, m>>[1], <<ty, m>>[2])
    BY Itself, Zenon DEF KeysKept
  <2> QED
    BY <2>1, Itself
<1>2. Exact(ty, m, names) => KeysKept(ty, m) /\ KeepsValues(ty, m, names)
  <2>1. Exact(ty, m, names) => KeysKept(ty, m) /\ KeepsValues(<<ty, m>>[1], <<ty, m>>[2], names)
    BY Itself, Zenon DEF Exact
  <2> QED
    BY <2>1, Itself
<1>3. ASSUME NEW f \in ToSet(Fields(ty)), NEW s \in Subs(f, m[f.name])
      PROVE  /\ KeysKept(ty, m) => KeysKept(Element(f).msg, s)
             /\ Exact(ty, m, names) => Exact(Element(f).msg, s, names)
  <2>1. \A x \in Nested(Element(f).msg, s) : x \in Nested(ty, m)
    BY PartIsNested
  <2> QED
    BY <2>1, Zenon DEF KeysKept, Exact
<1> QED
  BY <1>1, <1>2, <1>3, Zenon

(* A value that is restored from one that comes back as it is, is the same. *)
LEMMA ValueRestored ==
    ASSUME NEW f, IsField(f), NEW names \in BOOLEAN, NEW old, IsValue(f, old),
           NEW new, IsValue(f, new), Restored(f, new, old, names),
           f.label = "map" => \A x \in DOMAIN old : KeyBack(f, x) = x,
           \A v \in Values(f, old) :
              ~LooksUnset(f, v, names) /\ (Element(f).cpp # "message" => ValueBack(Element(f), v) = v),
           \A s \in Subs(f, old) : Exact(Element(f).msg, s, names)
    PROVE  new = old
<1>1. ASSUME NEW v \in Values(f, old), NEW w, ElementRestored(Element(f), w, v, names)
      PROVE  w = v
  <2>1. CASE Element(f).cpp = "message"
    <3>1. v \in Subs(f, old)
      BY <2>1 DEF Subs
    <3> QED
      BY <1>1, <2>1, <3>1, Zenon DEF ElementRestored
  <2>2. CASE Element(f).cpp # "message"
    BY <1>1, <2>2, Zenon DEF ElementRestored
  <2> QED
    BY <2>1, <2>2
<1>2. "map" # "repeated" /\ "map" # "singular" /\ "repeated" # "singular"
  OBVIOUS
<1>3. CASE f.label = "map"
  <2>1. Element(f) = f.value
    BY <1>3 DEF Element
  <2>2. Values(f, old) = {old[x] : x \in DOMAIN old}
    BY <1>3 DEF Values
  <2>3. old = [x \in DOMAIN old |-> old[x]] /\ new = [x \in DOMAIN new |-> new[x]]
    <3>1. \A u : IsValue(f, u) => u \in [DOMAIN u -> ElementValues(f.value)]
      BY <1>3 DEF IsValue
    <3>2. \A u, D, R : u \in [D -> R] => u = [x \in D |-> u[x]]
      OBVIOUS
    <3>3. \A u : IsValue(f, u) => u = [x \in DOMAIN u |-> u[x]]
      BY <3>1, <3>2, Zenon
    <3> QED
      BY <3>3, Zenon
  <2>4. /\ DOMAIN new = {KeyBack(f, x) : x \in DOMAIN old}
        /\ \A y \in DOMAIN new : \E x \in DOMAIN old :
              KeyBack(f, x) = y /\ ElementRestored(f.value, new[y], old[x], names)
    BY <1>2, <1>3, Zenon DEF Restored
  <2>5. \A x \in DOMAIN old : KeyBack(f, x) = x
    BY <1>3, Zenon
  <2>6. DOMAIN new = DOMAIN old
    BY <2>4, <2>5
  <2>7. ASSUME NEW y \in DOMAIN old PROVE new[y] = old[y]
    <3>1. ElementRestored(f.value, new[y], old[y], names)
      <4>1. PICK x \in DOMAIN old : KeyBack(f, x) = y /\ ElementRestored(f.value, new[y], old[x], names)
        BY <2>4, <2>6, Zenon
      <4>2. x = y
        BY <2>5, <4>1
      <4> QED
        BY <4>1, <4>2, Zenon
    <3>2. old[y] \in Values(f, old)
      BY <2>2
    <3> QED
      BY <1>1, <2>1, <3>1, <3>2, Zenon
  <2>8. [x \in DOMAIN new |-> new[x]] = [x \in DOMAIN old |-> old[x]]
    BY <2>6, <2>7
  <2> QED
    BY <2>3, <2>8, Zenon
<1>4. CASE f.label = "repeated"
  <2>1. Element(f) = f /\ Values(f, old) = {old[i] : i \in DOMAIN old}
    BY <1>4 DEF Element, Values, ToSet
  <2>2. new \in Seq(ElementValues(f)) /\ old \in Seq(ElementValues(f))
    BY <1>4 DEF IsValue
  <2>3. Len(new) = Len(old) /\ \A i \in DOMAIN old : ElementRestored(f, new[i], old[i], names)
    BY <1>2, <1>4, Zenon DEF Restored
  <2>4. ASSUME NEW i \in DOMAIN old PROVE new[i] = old[i]
    <3>1. old[i] \in Values(f, old) /\ ElementRestored(Element(f), new[i], old[i], names)
      BY <2>1, <2>3
    <3> QED
      BY <1>1, <3>1, Zenon
  <2> QED
    BY <2>2, <2>3, <2>4
<1>5. CASE f.label = "singular"
  <2>1. Element(f) = f /\ Values(f, old) = {old} \ {Unset}
    BY <1>5 DEF Element, Values
  <2>2. IF old = Unset \/ LooksUnset(f, old, names) THEN new = Unset
        ELSE new # Unset /\ ElementRestored(f, new, old, names)
    BY <1>2, <1>5, Zenon DEF Restored
  <2>3. CASE old = Unset
    BY <2>2, <2>3, Zenon
  <2>4. CASE old # Unset
    <3>1. old \in Values(f, old)
      BY <2>1, <2>4
    <3>2. ~LooksUnset(f, old, names)
      BY <3>1, Zenon
    <3>3. ElementRestored(Element(f), new, old, names)
      BY <2>1, <2>2, <2>4, <3>2, Zenon
    <3> QED
      BY <1>1, <3>1, <3>3, Zenon
  <2> QED
    BY <2>3, <2>4
<1> QED
  BY <1>3, <1>4, <1>5, Zenon DEF IsField
----------------------------------------------------------------------------
(* The lists and maps of a message are among those q makes tables of. *)
LEMMA ListsAreGrouped ==
    ASSUME NEW ty \in Types, NEW m \in Messages(ty), NEW f \in ToSet(Fields(ty))
    PROVE  Grouped(f, m[f.name])
<1> DEFINE c == <<Element(f).msg, InOrder(f, m[f.name])>>
<1>1. IsListOfMessages(f) /\ Values(f, m[f.name]) # {} => c \in Listed(ty, m)
  BY DEF Listed
<1>2. \A x \in Listed(ty, m) : x[2] \in Groups(x[1])
  BY GroupsAssumption
<1>3. c[1] = Element(f).msg /\ c[2] = InOrder(f, m[f.name])
  OBVIOUS
<1> HIDE DEF c
<1> QED
  BY <1>1, <1>2, <1>3, Zenon DEF Grouped

(* A message comes back if its parts do. *)
LEMMA OneLevel ==
    ASSUME NEW ty \in Types, NEW m \in Messages(ty), NEW names \in BOOLEAN,
           \A f \in ToSet(Fields(ty)) : \A s \in Subs(f, m[f.name]) :
              MessageBack(Element(f).msg, s, names)
    PROVE  MessageBack(ty, m, names)
<1> DEFINE k == GetMessage(ty, m, names)
           r == SetNew(ty, k, names)
           ks == FieldObjects(ty, m, names)
           F == Fields(ty)
           n == Len(F)
           N == ToSet(FieldNames(ty))
<1> SUFFICES ASSUME ~IsException(k)
             PROVE  /\ Throws(r) <=> names /\ FlatRows(ty, m)
                    /\ ~Throws(r) =>
                          /\ \A f \in ToSet(F) : Restored(f, r.value[f.name], m[f.name], names)
                          /\ Exact(ty, m, names) => r.value = m
                          /\ KeysKept(ty, m) => GetMessage(ty, r.value, names) = k
  BY Zenon DEF MessageBack
<1>1. /\ n \in Nat /\ DOMAIN F = 1 .. n
      /\ \A i \in DOMAIN F : F[i] \in ToSet(F) /\ IsField(F[i]) /\ F[i].name \in N
      /\ \A f \in ToSet(F) : \E i \in DOMAIN F : f = F[i]
      /\ \A i, j \in DOMAIN F : F[i].name = F[j].name => i = j
      /\ \A x \in N : \E i \in DOMAIN F : x = F[i].name
  BY FieldsOf
<1>2. /\ \A i \in DOMAIN F : ~IsException(ks[i])
      /\ k = IF names THEN Dict(SymbolList(FieldNames(ty)), Mixed(ks)) ELSE Mixed(ks)
  BY MessageShape
<1>3. /\ ks = [i \in DOMAIN F |-> ks[i]]
      /\ \A i \in DOMAIN F : ks[i] = GetMessageField(F[i], m[F[i].name], names)
  BY DEF FieldObjects
<1>4. /\ m = [x \in N |-> m[x]]
      /\ \A i \in DOMAIN F : IsValue(F[i], m[F[i].name])
      /\ \A f, g \in ToSet(F) :
            f.oneof # "" /\ f.oneof = g.oneof /\ Unset \notin {m[f.name], m[g.name]} => f = g
  <2>1. IsMessage(ty, m)
    BY MessagesAssumption
  <2> QED
    BY <1>1, <2>1, Zenon DEF IsMessage
<1> HIDE DEF ks, k, n
<1>5. ASSUME NEW i \in DOMAIN F
      PROVE  FieldComesBack(F[i], m[F[i].name], ks[i], names)
  <2>1. \A s \in Subs(F[i], m[F[i].name]) : MessageBack(Element(F[i]).msg, s, names)
    BY <1>1, Zenon
  <2>2. IsField(F[i]) /\ IsValue(F[i], m[F[i].name]) /\ Grouped(F[i], m[F[i].name])
    <3>1. Grouped(F[i], m[F[i].name])
      BY <1>1, ListsAreGrouped, Zenon
    <3> QED
      BY <1>1, <1>4, <3>1, Zenon
  <2>3. ks[i] = GetMessageField(F[i], m[F[i].name], names) /\ ~IsException(ks[i])
    BY <1>2, <1>3, Zenon
  <2>4. \A x : x = GetMessageField(F[i], m[F[i].name], names) /\ ~IsException(x) =>
              FieldComesBack(F[i], m[F[i].name], x, names)
    BY <2>1, <2>2, AnyField, Zenon
  <2> QED
    BY <2>3, <2>4, Zenon
<1>6. Exclusive(ty, ks)
  BY FieldsExclude DEF ks
<1>7. After(ty, ks, names, n, r)
  <2>1. r = SetItems(ty, NewMessage(ty), GivenOf(ty, ks), names)
    BY <1>2, <1>3, SetNewIs
  <2> HIDE DEF r
  <2> QED
    BY <1>6, <2>1, AllSteps, Zenon DEF n
<1> HIDE DEF r
<1>8. /\ Throws(r) <=> \E i \in DOMAIN F : Rejects(ty, ks, names, i)
      /\ ~Throws(r) =>
            /\ r.value = [x \in N |-> r.value[x]]
            /\ \A i \in DOMAIN F : r.value[F[i].name] =
                  IF i <= n /\ ~Skipped(F[i], ks[i]) THEN Target(ty, ks, names, i).value
                  ELSE Default(F[i])
  <2>1. DOMAIN F = 1 .. n
    BY <1>1
  <2> QED
    BY <1>7, <2>1, Zenon DEF After, Has
<1>9. ASSUME NEW i \in DOMAIN F
      PROVE  Rejects(ty, ks, names, i) <=> names /\ FlatField(F[i], m[F[i].name])
  <2>1. CASE Skipped(F[i], ks[i])
    <3>1. SkipBack(F[i], m[F[i].name], ks[i], names)
      BY <1>5, <2>1, Zenon DEF FieldComesBack
    <3>2. names => ~\E s \in Subs(F[i], m[F[i].name]) : TRUE
      <4>1. names => Subs(F[i], m[F[i].name]) = {}
        BY <3>1, Zenon DEF SkipBack
      <4> QED
        BY <4>1
    <3>3. ~FlatTable(F[i], m[F[i].name])
      BY <3>1, Zenon DEF SkipBack, FlatTable, IsListOfMessages
    <3> QED
      BY <2>1, <3>2, <3>3, Zenon DEF Rejects, FlatField
  <2>2. CASE ~Skipped(F[i], ks[i])
    <3>1. FieldBack(F[i], m[F[i].name], names)
      BY <1>5, <2>2, Zenon DEF FieldComesBack
    <3>2. Target(ty, ks, names, i) =
             FieldValue(F[i], Default(F[i]), GetMessageField(F[i], m[F[i].name], names), names)
      BY <1>3 DEF Target
    <3>3. Throws(Target(ty, ks, names, i)) <=> names /\ FlatField(F[i], m[F[i].name])
      BY <3>1, <3>2, Zenon DEF FieldBack
    <3> QED
      BY <2>2, <3>3, Zenon DEF Rejects
  <2> QED
    BY <2>1, <2>2
<1>10. Throws(r) <=> names /\ FlatRows(ty, m)
  <2>1. FlatRows(ty, m) <=> \E i \in DOMAIN F : FlatField(F[i], m[F[i].name])
    <3>1. FlatRows(ty, m) <=> \E f \in ToSet(F) : FlatField(f, m[f.name])
      BY FlatRowsAre, Zenon
    <3>2. (\E f \in ToSet(F) : FlatField(f, m[f.name])) => \E i \in DOMAIN F : FlatField(F[i], m[F[i].name])
      <4>1. SUFFICES ASSUME NEW f \in ToSet(F), FlatField(f, m[f.name])
                     PROVE  \E i \in DOMAIN F : FlatField(F[i], m[F[i].name])
        BY Zenon
      <4>2. PICK i \in DOMAIN F : f = F[i]
        BY <1>1
      <4>3. FlatField(F[i], m[F[i].name])
        BY <4>1, <4>2
      <4> QED
        BY <4>3, Zenon
    <3>3. \A i \in DOMAIN F : F[i] \in ToSet(F)
      BY <1>1, Zenon
    <3> QED
      BY <3>1, <3>2, <3>3, Zenon
  <2> QED
    BY <1>8, <1>9, <2>1, Zenon
<1>11. ASSUME ~Throws(r), NEW i \in DOMAIN F
       PROVE  LET new == r.value[F[i].name]
                  old == m[F[i].name]
                  kept == /\ F[i].label = "map" => \A x \in DOMAIN old : KeyBack(F[i], x) = x
                          /\ \A s \in Subs(F[i], old) : KeysKept(Element(F[i]).msg, s) IN
              /\ Restored(F[i], new, old, names)
              /\ kept => GetMessageField(F[i], new, names) = ks[i]
  <2> DEFINE new == r.value[F[i].name]
             old == m[F[i].name]
  <2>1. i <= n
    BY <1>1
  <2>2. CASE Skipped(F[i], ks[i])
    <3>1. new = Default(F[i])
      BY <1>8, <1>11, <2>2, Zenon
    <3>2. SkipBack(F[i], old, ks[i], names)
      BY <1>5, <2>2, Zenon DEF FieldComesBack
    <3>3. /\ Default(F[i]) = Unset /\ Restored(F[i], Unset, old, names)
          /\ GetMessageField(F[i], Unset, names) = ks[i]
      BY <3>2, Zenon DEF SkipBack
    <3>4. new = Unset
      BY <3>1, <3>3
    <3> HIDE DEF new, old
    <3> QED
      BY <3>3, <3>4, Zenon DEF new, old
  <2>3. CASE ~Skipped(F[i], ks[i])
    <3> DEFINE target == Target(ty, ks, names, i)
    <3>1. new = target.value
      BY <1>8, <1>11, <2>1, <2>3, Zenon
    <3>2. ~Throws(target)
      BY <1>8, <1>11, <2>3, Zenon DEF Rejects
    <3>3. FieldBack(F[i], old, names)
      BY <1>5, <2>3, Zenon DEF FieldComesBack
    <3>4. GetMessageField(F[i], old, names) = ks[i]
      BY <1>3
    <3>5. target = FieldValue(F[i], Default(F[i]), GetMessageField(F[i], old, names), names)
      BY <3>4 DEF Target
    <3> HIDE DEF target, new, old
    <3>6. /\ Restored(F[i], target.value, old, names)
          /\ (/\ F[i].label = "map" => \A x \in DOMAIN old : KeyBack(F[i], x) = x
              /\ \A s \in Subs(F[i], old) : KeysKept(Element(F[i]).msg, s)) =>
             GetMessageField(F[i], target.value, names) = GetMessageField(F[i], old, names)
      BY <3>2, <3>3, <3>5, Zenon DEF FieldBack
    <3> QED
      BY <3>1, <3>4, <3>6, Zenon DEF new, old
  <2> QED
    BY <2>2, <2>3, Zenon
<1>12. ASSUME ~Throws(r), NEW f \in ToSet(F)
       PROVE  Restored(f, r.value[f.name], m[f.name], names)
  <2>1. PICK i \in DOMAIN F : f = F[i]
    BY <1>1
  <2>2. Restored(F[i], r.value[F[i].name], m[F[i].name], names)
    BY <1>11, <1>12, Zenon
  <2> QED
    BY <2>1, <2>2
<1>13. ASSUME ~Throws(r), KeysKept(ty, m)
       PROVE  GetMessage(ty, r.value, names) = k
  <2>1. ASSUME NEW i \in DOMAIN F
        PROVE  GetMessageField(F[i], r.value[F[i].name], names) = ks[i]
    <3>1. F[i].label = "map" => \A x \in DOMAIN m[F[i].name] : KeyBack(F[i], x) = x
      <4>1. KeepsKeys(ty, m)
        BY <1>13, ExactParts, Zenon
      <4> QED
        BY <1>1, <4>1, Zenon DEF KeepsKeys
    <3>2. \A s \in Subs(F[i], m[F[i].name]) : KeysKept(Element(F[i]).msg, s)
      BY <1>1, <1>13, ExactParts, Zenon
    <3> QED
      BY <1>11, <1>13, <3>1, <3>2, Zenon
  <2>2. [i \in DOMAIN F |-> GetMessageField(F[i], r.value[F[i].name], names)] = ks
    BY <1>3, <2>1
  <2>3. ~AnyException(ks)
    <3>1. DOMAIN ks = DOMAIN F
      BY <1>3
    <3> QED
      BY <1>2, <3>1, Zenon DEF AnyException
  <2>4. GetMessage(ty, r.value, names) =
           IF AnyException(ks) THEN FirstException(ks)
           ELSE IF names THEN Dict(SymbolList(FieldNames(ty)), Mixed(ks)) ELSE Mixed(ks)
    BY <2>2, Zenon DEF GetMessage
  <2> QED
    BY <1>2, <2>3, <2>4, Zenon
<1>14. ASSUME ~Throws(r), Exact(ty, m, names)
       PROVE  r.value = m
  <2>1. r.value \in Messages(ty)
    <3>1. ~IsException(k) /\ ~Throws(SetNew(ty, k, names)) => SetNew(ty, k, names).value \in Messages(ty)
      BY RecursionAssumption DEF k
    <3>2. ~IsException(k)
      BY DEF k
    <3> QED
      BY <1>14, <3>1, <3>2, Zenon DEF r
  <2>2. \A i \in DOMAIN F : IsValue(F[i], r.value[F[i].name])
    <3>1. IsMessage(ty, r.value)
      BY <2>1, MessagesAssumption
    <3> QED
      BY <1>1, <3>1, Zenon DEF IsMessage
  <2>3. ASSUME NEW i \in DOMAIN F
        PROVE  r.value[F[i].name] = m[F[i].name]
    <3> DEFINE f == F[i]
               new == r.value[f.name]
               old == m[f.name]
    <3>1. f \in ToSet(F) /\ IsField(f) /\ IsValue(f, old) /\ IsValue(f, new)
      BY <1>1, <1>4, <2>2, Zenon
    <3>2. KeepsKeys(ty, m) /\ KeepsValues(ty, m, names)
      BY <1>14, ExactParts, Zenon
    <3>3. f.label = "map" => \A x \in DOMAIN old : KeyBack(f, x) = x
      BY <3>1, <3>2, Zenon DEF KeepsKeys
    <3>4. \A v \in Values(f, old) :
             ~LooksUnset(f, v, names) /\ (Element(f).cpp # "message" => ValueBack(Element(f), v) = v)
      BY <3>1, <3>2, Zenon DEF KeepsValues
    <3>5. \A s \in Subs(f, old) : Exact(Element(f).msg, s, names)
      BY <1>14, <3>1, ExactParts, Zenon
    <3>6. Restored(f, new, old, names)
      BY <1>12, <1>14, <3>1, Zenon
    <3> HIDE DEF f, new, old
    <3>7. new = old
      BY <3>1, <3>3, <3>4, <3>5, <3>6, ValueRestored, Zenon
    <3> QED
      BY <3>7 DEF new, old, f
  <2>4. \A x \in N : r.value[x] = m[x]
    BY <1>1, <2>3
  <2>5. r.value = [x \in N |-> r.value[x]] /\ m = [x \in N |-> m[x]]
    BY <1>4, <1>8, <1>14, Zenon
  <2>6. [x \in N |-> r.value[x]] = [x \in N |-> m[x]]
    BY <2>4
  <2> QED
    BY <2>5, <2>6, Zenon
<1> QED
  BY <1>10, <1>12, <1>13, <1>14, Zenon

(* Whatever the schema and the settings, a message of any depth that
   MessageFormat::GetMessage makes an object of is accepted by
   MessageFormat::SetMessage in the same mode, unless one of the rows that q
   slices from its tables, or from tables nested in these, is flat; its fields
   are restored; it is the same message if all it has comes back as it is, and
   reads the same if all its map keys do.  Columns of maps with messages as
   values that q makes tables of are excluded (RowsAssumption). *)
THEOREM MessageComesBack ==
    ASSUME NEW ty \in Types, NEW m \in Messages(ty), NEW names \in BOOLEAN
    PROVE  MessageBack(ty, m, names)
<1> DEFINE size(x, y) == Cardinality(Nested(x, y))
           Bad == {c \in Nat : \E x \in Types : \E y \in Messages(x) :
                      size(x, y) = c /\ ~MessageBack(x, y, names)}
<1>1. ASSUME NEW x \in Types, NEW y \in Messages(x)
      PROVE  IsFiniteSet(Nested(x, y)) /\ size(x, y) \in Nat
  BY NestedAssumption, FS_CardinalityType
<1>2. ASSUME Bad # {} PROVE FALSE
  <2>1. Bad \subseteq Nat
    OBVIOUS
  <2>2. PICK c \in Bad : \A d \in Bad : c <= d
    <3> HIDE DEF Bad
    <3> QED
      BY <1>2, <2>1, LeastNatural
  <2>3. PICK x \in Types : \E y \in Messages(x) : size(x, y) = c /\ ~MessageBack(x, y, names)
    BY <2>2
  <2>4. PICK y \in Messages(x) : size(x, y) = c /\ ~MessageBack(x, y, names)
    BY <2>3
  <2>5. ASSUME NEW f \in ToSet(Fields(x)), NEW s \in Subs(f, y[f.name])
        PROVE  MessageBack(Element(f).msg, s, names)
    <3> DEFINE t == Element(f).msg
    <3>1. t \in Types /\ s \in Messages(t)
      BY SubsAreMessages
    <3>2. /\ Nested(t, s) \subseteq Nested(x, y)
          /\ <<x, y>> \notin Nested(t, s) /\ <<x, y>> \in Nested(x, y)
      BY PartIsNested, Itself
    <3>3. size(t, s) < size(x, y)
      <4>1. /\ Cardinality(Nested(t, s)) <= Cardinality(Nested(x, y))
            /\ Cardinality(Nested(x, y)) = Cardinality(Nested(t, s)) => Nested(x, y) = Nested(t, s)
        BY <1>1, <3>2, FS_Subset
      <4>2. Nested(x, y) # Nested(t, s)
        BY <3>2
      <4>3. size(t, s) \in Nat /\ size(x, y) \in Nat
        BY <1>1, <3>1
      <4> QED
        BY <4>1, <4>2, <4>3
    <3>4. size(t, s) \notin Bad
      <4>1. size(t, s) \in Nat /\ c \in Nat
        BY <1>1, <3>1
      <4> HIDE DEF Bad, size
      <4> QED
        BY <2>2, <2>4, <3>3, <4>1
    <3> HIDE DEF size, t
    <3> QED
      BY <1>1, <3>1, <3>4, Zenon DEF Bad, t
  <2>6. MessageBack(x, y, names)
    BY <2>5, OneLevel, Zenon
  <2> QED
    BY <2>4, <2>6, Zenon
<1>3. Bad = {}
  BY <1>2
<1> HIDE DEF Bad, size
<1>4. ~\E c \in Bad : TRUE
  BY <1>3
<1>5. size(ty, m) \in Nat
  BY <1>1
<1> QED
  BY <1>4, <1>5, Zenon DEF Bad
=============================================================================
