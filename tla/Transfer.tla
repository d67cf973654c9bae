------------------------------ MODULE Transfer ------------------------------
(***************************************************************************)
(* RoundTrip over the wire format: what is parsed of the bytes that        *)
(* serializing or saving a message wrote.                                  *)
(***************************************************************************)
EXTENDS RoundTrip, Wire

CONSTANT Height(_, _)   \* levels of messages below a message of a type

ParseOrFail(ty, b) ==
    LET records == [i \in 1 .. Len(b) \div 2 |-> b[2 * i].rec] IN
    IF Hole \notin ToSet(b) /\ Whole(b) /\ Parses(ty, records, RecursionLimit)
    THEN Merge(ty, NewMessage(ty), records)
    ELSE Failed

(* The entries of a map are a level of their own. *)
Deeper(f, v) ==
    IF f.label = "map"
    THEN {1 : x \in DOMAIN v} \cup {2 + Height(f.value.msg, s) : s \in Subs(f, v)}
    ELSE {1 + Height(f.msg, s) : s \in Subs(f, v)}
Heights(ty, m) == {0} \cup UNION {Deeper(f, m[f.name]) : f \in ToSet(Fields(ty))}
ASSUME HeightAssumption ==
    \A ty \in Types : \A m \in Messages(ty) :
        /\ Height(ty, m) \in Nat /\ Height(ty, m) \in Heights(ty, m)
        /\ \A n \in Heights(ty, m) : n <= Height(ty, m)

(* What is serialized are messages; what serializing writes has no hole, and
   it is parsed, and any prefix of it, as it is here. *)
ASSUME TransferAssumption ==
    /\ \A ty \in KnownTypes, k \in KObj, nm \in Modes :
          KToMessage(ty, k, nm) \in Messages(ty) \cup {Failed}
    /\ \A ty \in KnownTypes : \A m \in Messages(ty) :
          LET b == Serialize(ty, m) IN
          /\ b = SerializeToString(ty, m) /\ Hole \notin ToSet(b)
          /\ \A n \in 0 .. Len(b) :
                Parse(ty, SubSeq(b, 1, n)) = ParseOrFail(ty, SubSeq(b, 1, n))

(* What libprotobuf can parse: text that is UTF-8, at a depth it goes to. *)
MapText(f, v) == IF f.label = "map" /\ f.key.type = "string" THEN DOMAIN v ELSE {}
Text(f, v) == MapText(f, v) \cup (IF Element(f).type = "string" THEN Values(f, v) ELSE {})
IsUtf8(ty, m) == \A f \in ToSet(Fields(ty)) : Text(f, m[f.name]) \cap NotUtf8 = {}
CanBeParsed(ty, m, depth) ==
    Height(ty, m) <= depth /\ \A x \in Nested(ty, m) : IsUtf8(x[1], x[2])

(* What is serialized parses to the message that was serialized, unless its
   sub-messages are nested deeper than libprotobuf parses or it has text in
   a string field that is not UTF-8.  Both can be serialized, and saved, but
   neither parsed nor loaded: nothing checks for them on the way out. *)
SerializedParsesBack ==
    \A p \in Procs : result[p].status = "array" =>
        LET r == result[p]
            m == KToMessage(r.type, r.value, r.names) IN
        Parse(r.type, Received(r.bytes)) =
            IF CanBeParsed(r.type, m, RecursionLimit) THEN m ELSE Failed

(* What is in a file that a save did not complete, or has not completed yet,
   is read as a message of its own: whatever the moment, a load that parses
   returns fields of the message being saved and defaults, never what an
   earlier save left or a mixture; lists and maps lack entries at most. *)
PartOf(f, v, w) ==
    CASE f.label = "repeated" -> IsPrefix(v, w)
      [] f.label = "map" -> \A x \in DOMAIN v : x \in DOMAIN w /\ v[x] = w[x]
      [] OTHER -> v \in {w, Default(f)}
IsPartOf(ty, part, whole) ==
    \A f \in ToSet(Fields(ty)) : PartOf(f, part[f.name], whole[f.name])
LoadedIsPartOfSaved ==
    [][\A p \in Procs :
        LET j == job[p]
            part == Parse(j.type, result'[p].bytes) IN
        /\ LoadReturned(p) /\ result'[p].status = "object"
        /\ ~dirty[p] /\ last[j.file].done # "never" /\ ~last[j.file].contended
        => \A m \in Messages(j.type) :
              Serialize(j.type, m) = last[j.file].bytes => IsPartOf(j.type, part, m)]_vars
=============================================================================
