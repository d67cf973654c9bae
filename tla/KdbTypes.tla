------------------------------ MODULE KdbTypes ------------------------------
(***************************************************************************)
(* KdbTypes (src/KdbTypes.h, src/KdbTypes.cpp): which kdb+ type represents *)
(* a protobuf field.                                                       *)
(*                                                                         *)
(* An element e describes a field, a map key or a map value by what the    *)
(* mapping looks at: its cpp_type e.cpp, its declared type e.type as far   *)
(* as it is "string" or "bytes", and the KdbTypeSpecifier e.spec, which a  *)
(* field takes from its kdb_type option, a map key and a map value from    *)
(* the map_kdb_type option of the map ("DEFAULT" where there is none).     *)
(***************************************************************************)
EXTENDS Integers

KB == 1
UU == 2
KG == 4
KI == 6
KJ == 7
KE == 8
KF == 9
KC == 10
KS == 11
KP == 12
KM == 13
KD == 14
KZ == 15
KN == 16
KU == 17
KV == 18
KT == 19

(* The settings string_kdb_type, bytes_kdb_type and string_map_key_kdb_type. *)
KdbStringEncodings == {-KS, KG, KC}
CONSTANTS StringKdbType, BytesKdbType, StringMapKeyKdbType
ASSUME SettingsAssumption ==
    {StringKdbType, BytesKdbType, StringMapKeyKdbType} \subseteq KdbStringEncodings

CppTypes == {"int32", "int64", "uint32", "uint64", "double", "float",
             "bool", "enum", "string", "message"}
Specifiers == {"DEFAULT", "TIMESTAMP", "MONTH", "DATE", "DATETIME", "TIMESPAN",
               "MINUTE", "SECOND", "TIME", "GUID"}
IsElement(e) == e.cpp \in CppTypes /\ e.type \in {"string", "bytes", "other"} /\ e.spec \in Specifiers

(* TypeCheckCompatible, thrown instead of a type being returned. *)
Thrown == 1000

Cpp2KdbType(c) ==
    CASE c \in {"int32", "uint32", "enum"} -> KI
      [] c \in {"int64", "uint64"} -> KJ
      [] c = "double" -> KF
      [] c = "float" -> KE
      [] c = "bool" -> KB
      [] c = "string" -> KS
      [] c = "message" -> 0

Specifier2KdbType(s) ==
    CASE s = "TIMESTAMP" -> KP
      [] s = "MONTH" -> KM
      [] s = "DATE" -> KD
      [] s = "DATETIME" -> KZ
      [] s = "TIMESPAN" -> KN
      [] s = "MINUTE" -> KU
      [] s = "SECOND" -> KV
      [] s = "TIME" -> KT
      [] s = "GUID" -> UU

CompatibleKdbType(s) ==
    CASE s \in {"TIMESTAMP", "TIMESPAN"} -> KJ
      [] s \in {"MONTH", "DATE", "MINUTE", "SECOND", "TIME"} -> KI
      [] s = "DATETIME" -> KF
      [] s = "GUID" -> KS

GetKdbType(e) ==
    IF e.spec = "DEFAULT" THEN Cpp2KdbType(e.cpp)
    ELSE IF Cpp2KdbType(e.cpp) = CompatibleKdbType(e.spec)
         THEN Specifier2KdbType(e.spec)
         ELSE Thrown

(* How string and bytes elements, and string map keys, are encoded. *)
StringSetting(e) ==
    CASE e.type = "string" -> StringKdbType
      [] e.type = "bytes" -> BytesKdbType
      [] OTHER -> -KS
(* Protobuf has no bytes map keys. *)
MapKeySetting(e) == IF e.type = "string" THEN StringMapKeyKdbType ELSE -KS

GetScalarKdbType(e) ==
    LET t == GetKdbType(e) IN
    CASE t = Thrown -> Thrown
      [] t = KS /\ e.type # "other" -> StringSetting(e)
      [] OTHER -> -t

(* A list of strings is a symbol list or a mixed list of char lists. *)
ListKdbType(e, setting) ==
    LET t == GetKdbType(e) IN
    IF t = KS /\ setting # -KS THEN 0 ELSE t

GetRepeatedKdbType(e) == ListKdbType(e, StringSetting(e))

GetMapKeyKdbType(e) == ListKdbType(e, MapKeySetting(e))

GetMapValueKdbType(e) == ListKdbType(e, StringSetting(e))

IsKdbTypeGuid(e) == e.spec = "GUID"
=============================================================================
