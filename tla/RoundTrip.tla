------------------------------ MODULE RoundTrip ------------------------------
(***************************************************************************)
(* MessageParser with the conversions of MessageFormat in place: what      *)
(* becomes of a kdb+ object that is parsed and converted back, and of a    *)
(* oneof for which several values are given.                               *)
(***************************************************************************)
EXTENDS MessageParserProps, MessageTrees

ValueOrFail(r) == IF Throws(r) THEN Failed ELSE r.value
SetOrFail(ty, k, nm) == ValueOrFail(SetNew(ty, k, nm))
GetOrFail(ty, m, nm) ==
    LET k == GetMessage(ty, m, nm) IN IF IsException(k) THEN Failed ELSE k

(* The conversions are those of MessageFormat, and the names of a dictionary
   of fields are a list. *)
ASSUME InPlaceAssumption ==
    (\A k \in KObj : k.t = 99 /\ k.keys.t = KS => k.keys.syms \in Seq(STRING)) /\
    \A ty \in KnownTypes, nm \in BOOLEAN :
        /\ ty \in Types /\ Failed \notin Messages(ty)
        /\ \A m \in Messages(ty) : MessageToK(ty, m, nm) = GetOrFail(ty, m, nm)
        /\ \A k \in KObj \cup ({GetOrFail(ty, m, nm) : m \in Messages(ty)} \ {Failed}) :
              KToMessage(ty, k, nm) = SetOrFail(ty, k, nm)
        /\ \A b \in CharArrays : Parse(ty, Received(b)) \in Messages(ty) \cup {Failed}

----------------------------------------------------------------------------
(* An object that parsing or loading returned is accepted in the same mode,
   unless it has a flip table, or a table nested in one, with a row that q
   makes a simple list or a table of; it is converted back to what it came
   from: no field is lost or changed, but for the spelling of a GUID, a symbol
   with a NUL, and a oneof member that looks unset; and unless a key of a map
   changed, the new message reads the same (MessageFormat::GetMessage, then
   MessageFormat::SetMessage). *)
ParsedConvertsBack ==
    \A p \in Procs : result[p].status = "object" =>
        LET r == result[p]
            old == Parse(r.type, r.bytes)
            new == KToMessage(r.type, r.value, r.names) IN
        /\ new = Failed <=> r.names /\ FlatRows(r.type, old)
        /\ new # Failed =>
              /\ \A f \in ToSet(Fields(r.type)) : Restored(f, new[f.name], old[f.name], r.names)
              /\ Exact(r.type, old, r.names) => new = old
              /\ KeysKept(r.type, old) => MessageToK(r.type, new, r.names) = r.value

(* "The oneof will be set to the value of the last specified field": in
   what is serialized, the member of a oneof that is set is the one that was
   specified last, in the order of the fields or of the dictionary. *)
Specified(ty, k, names) ==
    IF names THEN [i \in DOMAIN k.keys.syms |-> [name |-> k.keys.syms[i], k |-> k.vals.items[i]]]
    ELSE [i \in DOMAIN Fields(ty) |-> [name |-> Fields(ty)[i].name, k |-> k.items[i]]]
Members(ty, o) == {f.name : f \in {g \in ToSet(Fields(ty)) : g.oneof = o}}
LastOf(ty, o, k, names) ==
    LET specified == Specified(ty, k, names)
        given == {i \in DOMAIN specified :
                     /\ specified[i].name \in Members(ty, o)
                     /\ specified[i].k.t # 101 /\ specified[i].k # Mixed(<<>>)} IN
    {specified[i].name : i \in {j \in given : \A l \in given : l <= j}}
LastSpecifiedWins ==
    \A p \in Procs : result[p].status = "array" =>
        LET r == result[p]
            m == KToMessage(r.type, r.value, r.names)
            oneofs == {f.oneof : f \in ToSet(Fields(r.type))} \ {""} IN
        r.value.t = (IF r.names THEN 99 ELSE 0) => \A o \in oneofs :
            LastOf(r.type, o, r.value, r.names) = {n \in Members(r.type, o) : m[n] # Unset}

----------------------------------------------------------------------------
(* What the documentation and the comments say, and the code does not do.  *)

(* With field names, a repeated sub-message is a "list of field name
   dictionaries or a flip table": what parsing returned, flip tables
   included, can be serialized. *)
FlipTablesAreAccepted ==
    \A p \in Procs : result[p].status = "object" /\ result[p].names =>
        KToMessage(result[p].type, result[p].value, TRUE) # Failed

(* An empty list given for a oneof member means "Field is a oneof but not the
   active oneof": no member that is set reads as an empty list. *)
EmptyListIsNotActive ==
    \A p \in Procs : result[p].status = "object" =>
        LET r == result[p]
            old == Parse(r.type, r.bytes) IN
        \A f \in ToSet(Fields(r.type)) : ~LooksUnset(f, old[f.name], r.names)
=============================================================================
