----------------------------- MODULE Descriptors -----------------------------
(***************************************************************************)
(* Field descriptors, strings and settings for the schemas that RoundTrip  *)
(* is checked with.                                                        *)
(***************************************************************************)
EXTENDS Transfer

Field(name, num, cpp) ==
    [name |-> name, num |-> num, cpp |-> cpp, label |-> "singular", oneof |-> "",
     spec |-> "DEFAULT", msg |-> "", type |-> IF cpp = "string" THEN cpp ELSE "other"]
Bytes(name, num) == [Field(name, num, "string") EXCEPT !.type = "bytes"]
Sub(name, num, ty) == [Field(name, num, "message") EXCEPT !.msg = ty]
As(f, spec) == [f EXCEPT !.spec = spec]
Repeated(f) == [f EXCEPT !.label = "repeated"]
In(o, f) == [f EXCEPT !.oneof = o]
MapOf(name, num, k, v) ==
    [key |-> k, value |-> v] @@ [Sub(name, num, "") EXCEPT !.label = "map"]
String(name, num) == Field(name, num, "string")
Int32(name, num) == Field(name, num, "int32")

MapKeySymbol == -KS

(* "s.x" stands for a string with a NUL between s and x, "AB" and "ab" for
   two spellings of one GUID, "zz" for a string of another length, and "\\ff"
   for one that is not UTF-8. *)
MCNotUtf8 == {"\\ff"}
MCCStrOf == [x \in {"s.x"} |-> "s"]
MCGuidOf == [x \in {"00", "ab", "AB"} |-> IF x = "00" THEN 0 ELSE 1]
MCHexOf == [g \in {0, 1} |-> IF g = 0 THEN "00" ELSE "ab"]

(* The conversions in place.  (TLC's coverage does not follow a recursion
   through the body of a LET.) *)
MCGetSub(ty, m, nm) == LET k == GetMessage(ty, m, nm) IN k
MCSetSub(ty, m, k, nm) == LET r == SetMessage(ty, m, k, nm) IN r
MCSliceSub(column, i) == LET r == Slice(Collapse(column), i) IN r
MCKToMessage(ty, k, nm) == LET m == SetOrFail(ty, k, nm) IN m
MCMessageToK(ty, m, nm) == LET k == GetOrFail(ty, m, nm) IN k
MCSerialize(ty, m) == SerializeToString(ty, m)
MCParse(ty, b) == ParseOrFail(ty, b)

MCRecordsSub(ty, m) == LET records == Records(ty, m) IN records
MCMergeSub(ty, m, records) == LET n == Merge(ty, m, records) IN n
MCParsesSub(ty, records, depth) == LET b == Parses(ty, records, depth) IN b

RECURSIVE MCNested(_, _)
MCNested(ty, m) == {<<ty, m>>} \cup UNION {MCNested(x[1], x[2]) : x \in Parts(ty, m)}
RECURSIVE MCTablesOf(_, _)
MCTablesOf(ty, s) == {<<ty, s>>} \cup UNION {MCTablesOf(c[1], c[2]) : c \in Columns(ty, s)}
MCHeight(ty, m) == LET n == Max(Heights(ty, m)) IN n

(* A collection of messages, [type, msg], closed under what the code does
   with them: what they are converted back to, and all the messages in those. *)
Returned(x) ==
    {[type |-> x.type, msg |-> SetOrFail(x.type, k, nm)] :
        <<k, nm>> \in {<<GetMessage(x.type, x.msg, nm), nm>> : nm \in BOOLEAN}}
Closure(S) ==
    LET returned == UNION {Returned(x) : x \in S}
        whole == S \cup {x \in returned : x.msg # Failed} IN
    UNION {{[type |-> y[1], msg |-> y[2]] : y \in MCNested(x.type, x.msg)} : x \in whole}
ClosureOf(S) == Closure(Closure({x \in S : x.msg # Failed}))

(* The tables q makes of the messages in a closed collection. *)
TablesIn(S) ==
    UNION {UNION {MCTablesOf(c[1], c[2]) : c \in Listed(x.type, x.msg)} : x \in S}
=============================================================================
