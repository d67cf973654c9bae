--------------------------- MODULE RoundTripProofs ---------------------------
(***************************************************************************)
(* Proofs about RoundTrip: the theorem about the conversion of messages,   *)
(* for what the operations of MessageParser return.                        *)
(***************************************************************************)
EXTENDS RoundTrip, MessageParserProofs, MessageFormatProofs

(* The inductive invariant: every result is what the conversions made of
   what it is listed with. *)
Inputs == Seq(Byte) \cup {Received(b) : b \in CharArrays}
IsObject(r) ==
    /\ r.type \in KnownTypes /\ r.names \in BOOLEAN
    /\ r.bytes \in Inputs /\ Parse(r.type, r.bytes) # Failed
    /\ r.value = MessageToK(r.type, Parse(r.type, r.bytes), r.names) /\ r.value # Failed
IsArray(r) ==
    /\ r.type \in KnownTypes /\ r.names \in Modes /\ r.value \in KObj
    /\ KToMessage(r.type, r.value, r.names) # Failed
    /\ r.bytes = Serialize(r.type, KToMessage(r.type, r.value, r.names)) /\ Fits(r.bytes)
Explained(r) ==
    (r.status = "object" => IsObject(r)) /\ (r.status = "array" => IsArray(r))
AllExplained == \A p \in Procs : Explained(result[p])

LEMMA NothingReturned ==
    ASSUME NEW s, s # "object", s # "array"
    PROVE  Explained(Answer(s))
BY DEF Explained, Answer

LEMMA SerializedExplained ==
    ASSUME NEW ty, NEW k \in KObj, NEW nm \in Modes
    PROVE  Explained(Serialized(ty, k, nm))
<1> DEFINE m == KToMessage(ty, k, nm)
           b == Serialize(ty, m)
<1>1. /\ Explained(Answer("Invalid message type")) /\ Explained(Answer("TypeCheck"))
      /\ Explained(Answer("Failed to serialize message"))
  BY NothingReturned
<1>2. ASSUME ty \in KnownTypes, m # Failed, Fits(b) PROVE Explained(Array(ty, b, nm, k))
  <2> DEFINE r == Array(ty, b, nm, k)
  <2>1. r.status = "array" /\ r.type = ty /\ r.names = nm /\ r.value = k /\ r.bytes = b
    BY DEF Array
  <2> HIDE DEF r
  <2>2. IsArray(r)
    BY <1>2, <2>1 DEF IsArray
  <2>3. Explained(r)
    BY <2>1, <2>2 DEF Explained
  <2> QED
    BY <2>3 DEF r
<1> QED
  BY <1>1, <1>2, Zenon DEF Serialized

LEMMA ConvertedExplained ==
    ASSUME NEW ty \in KnownTypes, NEW b \in Inputs, NEW nm \in BOOLEAN
    PROVE  Explained(Converted(ty, b, nm))
<1> DEFINE m == Parse(ty, b)
           k == MessageToK(ty, m, nm)
<1>1. /\ Explained(Answer("Failed to parse serialized message"))
      /\ Explained(Answer("TypeCheck"))
  BY NothingReturned
<1>2. ASSUME m # Failed, k # Failed PROVE Explained(Object(ty, b, nm, k))
  <2> DEFINE r == Object(ty, b, nm, k)
  <2>1. r.status = "object" /\ r.type = ty /\ r.names = nm /\ r.value = k /\ r.bytes = b
    BY DEF Object, Array
  <2> HIDE DEF r
  <2>2. IsObject(r)
    BY <1>2, <2>1 DEF IsObject
  <2>3. Explained(r)
    BY <2>1, <2>2 DEF Explained
  <2> QED
    BY <2>3 DEF r
<1> QED
  BY <1>1, <1>2, Zenon DEF Converted

LEMMA ParsedExplained ==
    ASSUME NEW ty, NEW b \in CharArrays, NEW nm \in Modes
    PROVE  Explained(Parsed(ty, b, nm)) /\ Explained(ParsedDebug(ty, b))
<1>1. /\ Explained(Answer("Invalid message type")) /\ Explained(Answer("debug"))
      /\ Explained(Answer("Failed to parse serialized message"))
  BY NothingReturned
<1>2. nm \in BOOLEAN
  BY BoundAssumption
<1>3. ASSUME ty \in KnownTypes PROVE Explained(Converted(ty, Received(b), nm))
  <2>1. Received(b) \in Inputs
    BY DEF Inputs
  <2> QED
    BY <1>2, <1>3, <2>1, ConvertedExplained
<1> QED
  BY <1>1, <1>3, Zenon DEF Parsed, ParsedDebug, Described

----------------------------------------------------------------------------
(* An operation that returns something explained keeps the rest. *)
LEMMA ReturnKeeps ==
    ASSUME TypeOK, AllExplained, NEW p \in Procs, NEW r, Explained(r), Return(p, r)
    PROVE  AllExplained'
<1>1. \A q \in Procs : result'[q] = IF q = p THEN r ELSE result[q]
  BY DEF TypeOK, Return
<1> QED
  BY <1>1, Zenon DEF AllExplained

LEMMA CallExplained ==
    ASSUME TypeOK, AllExplained, NEW p \in Procs, Call(p)
    PROVE  AllExplained'
<1>1. /\ Explained(Answer("Invalid message type")) /\ Explained(Answer("none"))
      /\ Explained(Answer("Cannot open file"))
  BY NothingReturned
<1>2. PICK ty \in MessageTypes :
        \/ \E k \in KObj, nm \in Modes :
              \/ SerializeArray(p, ty, k, nm)
              \/ \E f \in Files : SaveMessage(p, ty, f, k, nm)
        \/ \E b \in CharArrays :
              \/ \E nm \in Modes : ParseArray(p, ty, b, nm)
              \/ ParseArrayDebug(p, ty, b)
        \/ \E f \in Files :
              \/ \E nm \in Modes : LoadMessage(p, ty, f, None, nm)
              \/ LoadMessage(p, ty, f, "debug", FALSE)
  BY DEF Call
<1>3. ASSUME NEW k \in KObj, NEW nm \in Modes, SerializeArray(p, ty, k, nm)
      PROVE  AllExplained'
  BY <1>3, SerializedExplained, ReturnKeeps DEF SerializeArray
<1>4. ASSUME NEW f, NEW k, NEW nm, SaveMessage(p, ty, f, k, nm)
      PROVE  AllExplained'
  BY <1>1, <1>4, ReturnKeeps DEF SaveMessage, Begin
<1>5. ASSUME NEW b \in CharArrays, NEW nm \in Modes, ParseArray(p, ty, b, nm)
      PROVE  AllExplained'
  BY <1>5, ParsedExplained, ReturnKeeps DEF ParseArray
<1>6. ASSUME NEW b \in CharArrays, ParseArrayDebug(p, ty, b)
      PROVE  AllExplained'
  <2>1. Explained(ParsedDebug(ty, b))
    BY NothingReturned DEF ParsedDebug, Described
  <2> QED
    BY <1>6, <2>1, ReturnKeeps DEF ParseArrayDebug
<1>7. ASSUME NEW f, NEW k, NEW nm, LoadMessage(p, ty, f, k, nm)
      PROVE  AllExplained'
  BY <1>1, <1>7, ReturnKeeps DEF LoadMessage, Begin
<1> QED
  BY <1>2, <1>3, <1>4, <1>5, <1>6, <1>7, Zenon

LEMMA StepExplained ==
    ASSUME TypeOK, AllExplained, NEW p \in Procs, Step(p) \/ LoadStreamFails(p) \/ Crash(p)
    PROVE  AllExplained'
<1>1. /\ Explained(Answer("none")) /\ Explained(Answer("null")) /\ Explained(Answer("TypeCheck"))
      /\ Explained(Answer("Failed to serialize message")) /\ Explained(Answer("debug"))
      /\ Explained(Answer("Failed to parse serialized message"))
  BY NothingReturned
<1>2. ASSUME NEW r, Explained(r), Finish(p, r) PROVE AllExplained'
  BY <1>2, ReturnKeeps DEF Finish
<1>3. ASSUME result' = result PROVE AllExplained'
  BY <1>3, Zenon DEF AllExplained
<1>4. CASE SaveConvert(p)
  BY <1>1, <1>2, <1>3, <1>4 DEF SaveConvert
<1>5. CASE SaveChunk(p) \/ SaveStreamed(p) \/ LoadChunk(p)
  BY <1>3, <1>5 DEF SaveChunk, SaveStreamed, LoadChunk
<1>6. CASE SaveStreamFails(p) \/ SaveClose(p) \/ LoadStreamFails(p) \/ Crash(p)
  BY <1>1, <1>2, <1>6 DEF SaveStreamFails, SaveClose, LoadStreamFails, Crash
<1>7. CASE LoadParse(p)
  <2> DEFINE j == job[p]
             r == IF j.obj = "debug" THEN Described(j.type, buf[p])
                  ELSE Converted(j.type, buf[p], j.names)
  <2>1. Finish(p, r) /\ pc[p] = "load_reading"
    BY <1>7 DEF LoadParse
  <2>2. j.type \in KnownTypes /\ j.names \in BOOLEAN /\ buf[p] \in Inputs
    BY <2>1 DEF TypeOK, JobType, Inputs
  <2>3. Explained(Converted(j.type, buf[p], j.names))
    BY <2>2, ConvertedExplained
  <2>4. Explained(Described(j.type, buf[p]))
    BY <1>1, Zenon DEF Described
  <2>5. Explained(r)
    BY <2>3, <2>4, Zenon
  <2> HIDE DEF r
  <2> QED
    BY <1>2, <2>1, <2>5
<1> QED
  BY <1>4, <1>5, <1>6, <1>7, Zenon DEF Step

(* Everything a call returns is explained, whatever other processes do. *)
LEMMA ExplainedHolds == Spec => []AllExplained
<1>1. Init => AllExplained
  <2>1. Explained(Answer("none"))
    BY NothingReturned
  <2> QED
    BY <2>1 DEF Init, AllExplained
<1>2. ASSUME TypeOK, AllExplained, [Next]_vars PROVE AllExplained'
  <2>1. CASE UNCHANGED vars
    BY <1>2, <2>1, Zenon DEF vars, AllExplained
  <2>2. CASE Next
    BY <1>2, <2>2, CallExplained, StepExplained DEF Next
  <2> QED
    BY <1>2, <2>1, <2>2
<1> QED
  BY <1>1, <1>2, TypeCorrect, PTL DEF Spec

----------------------------------------------------------------------------
(* Hypothesis of ParsedComesBack: libprotobuf makes a message of its type of
   whatever a file holds, or fails. *)
ParsesToMessages ==
    \A ty \in KnownTypes : \A b \in Seq(Byte) : Parse(ty, b) \in Messages(ty) \cup {Failed}

(* What MessageFormat makes of an object that parsing returned. *)
LEMMA ObjectIs ==
    ASSUME ParsesToMessages, NEW r, IsObject(r)
    PROVE  LET old == Parse(r.type, r.bytes)
               k == GetMessage(r.type, old, r.names)
               s == SetNew(r.type, k, r.names)
               new == KToMessage(r.type, r.value, r.names) IN
           /\ r.type \in Types /\ old \in Messages(r.type) /\ ~IsException(k) /\ r.value = k
           /\ new = ValueOrFail(s)
           /\ ~Throws(s) => s.value \in Messages(r.type) /\ s.value # Failed
<1> DEFINE ty == r.type
           nm == r.names
           old == Parse(ty, r.bytes)
           k == GetMessage(ty, old, nm)
           s == SetNew(ty, k, nm)
<1>1. /\ ty \in KnownTypes /\ nm \in BOOLEAN /\ old \in Messages(ty)
      /\ r.value = MessageToK(ty, old, nm) /\ r.value # Failed
  <2>1. old \in Messages(ty) \cup {Failed}
    BY InPlaceAssumption DEF IsObject, Inputs, ParsesToMessages
  <2> QED
    BY <2>1, Zenon DEF IsObject
<1>2. /\ ty \in Types /\ Failed \notin Messages(ty)
      /\ MessageToK(ty, old, nm) = GetOrFail(ty, old, nm)
      /\ GetOrFail(ty, old, nm) # Failed =>
            KToMessage(ty, GetOrFail(ty, old, nm), nm) = SetOrFail(ty, GetOrFail(ty, old, nm), nm)
  BY <1>1, InPlaceAssumption
<1>3. ~IsException(k) /\ GetOrFail(ty, old, nm) = k
  BY <1>1, <1>2, Zenon DEF GetOrFail
<1>4. r.value = k /\ KToMessage(ty, r.value, nm) = ValueOrFail(s)
  BY <1>1, <1>2, <1>3, Zenon DEF SetOrFail
<1>5. ~Throws(s) => s.value \in Messages(ty)
  BY <1>1, <1>2, <1>3, RecursionAssumption
<1>6. ~Throws(s) => s.value # Failed
  BY <1>2, <1>5, Zenon
<1> HIDE DEF old, k, s
<1> QED
  BY <1>1, <1>2, <1>3, <1>4, <1>5, <1>6, Zenon DEF old, k, s

(* What ParsedConvertsBack says of one result. *)
ConvertsBack(r) ==
    LET old == Parse(r.type, r.bytes)
        new == KToMessage(r.type, r.value, r.names) IN
    /\ new = Failed <=> r.names /\ FlatRows(r.type, old)
    /\ new # Failed =>
          /\ \A f \in ToSet(Fields(r.type)) : Restored(f, new[f.name], old[f.name], r.names)
          /\ Exact(r.type, old, r.names) => new = old
          /\ KeysKept(r.type, old) => MessageToK(r.type, new, r.names) = r.value

LEMMA ObjectComesBack ==
    ASSUME ParsesToMessages, NEW r, IsObject(r)
    PROVE  ConvertsBack(r)
<1> DEFINE ty == r.type
           nm == r.names
           old == Parse(ty, r.bytes)
           k == GetMessage(ty, old, nm)
           s == SetNew(ty, k, nm)
           new == KToMessage(ty, r.value, nm)
<1>1. ty \in KnownTypes /\ nm \in BOOLEAN
  BY DEF IsObject
<1>2. /\ ty \in Types /\ old \in Messages(ty) /\ ~IsException(k) /\ r.value = k
      /\ new = ValueOrFail(s)
      /\ ~Throws(s) => s.value \in Messages(ty) /\ s.value # Failed
  BY ObjectIs, Zenon
<1>3. MessageBack(ty, old, nm)
  BY <1>1, <1>2, MessageComesBack, Zenon
<1>4. /\ Throws(s) <=> nm /\ FlatRows(ty, old)
      /\ ~Throws(s) =>
            /\ \A f \in ToSet(Fields(ty)) : Restored(f, s.value[f.name], old[f.name], nm)
            /\ Exact(ty, old, nm) => s.value = old
            /\ KeysKept(ty, old) => GetMessage(ty, s.value, nm) = k
  BY <1>2, <1>3, Zenon DEF MessageBack
<1>5. Throws(s) => new = Failed
  BY <1>2, Zenon DEF ValueOrFail
<1>6. ~Throws(s) => new = s.value /\ new # Failed /\ new \in Messages(ty)
  BY <1>2, Zenon DEF ValueOrFail
<1>7. ASSUME ~Throws(s), KeysKept(ty, old) PROVE MessageToK(ty, new, nm) = r.value
  <2>1. MessageToK(ty, new, nm) = GetOrFail(ty, new, nm)
    BY <1>1, <1>2, <1>6, <1>7, InPlaceAssumption, Zenon
  <2>2. GetMessage(ty, new, nm) = k
    BY <1>4, <1>6, <1>7, Zenon
  <2> QED
    BY <1>2, <2>1, <2>2, Zenon DEF GetOrFail
<1> HIDE DEF old, k, s, new
<1> QED
  BY <1>4, <1>5, <1>6, <1>7, Zenon DEF ConvertsBack, old, new

(* Whatever a process parsed or loaded, in whatever state other processes
   left the file, it can serialize in the same mode, unless q slices a flat
   row from one of the tables, or from a table nested in one; no field is lost or changed but as Restored
   says.  Of Spec, for any schema, messages of any depth and any number of
   processes and files. *)
THEOREM ParsedComesBack ==
    ASSUME ParsesToMessages PROVE Spec => []ParsedConvertsBack
<1>1. AllExplained => ParsedConvertsBack
  <2> SUFFICES ASSUME AllExplained, NEW p \in Procs, result[p].status = "object"
               PROVE  ConvertsBack(result[p])
    BY Zenon DEF ParsedConvertsBack, ConvertsBack
  <2> QED
    BY ObjectComesBack, Zenon DEF AllExplained, Explained
<1> QED
  BY <1>1, ExplainedHolds, PTL

----------------------------------------------------------------------------
(* Which member of a oneof is set.                                         *)

(* The items s of an object are [name, k], in the order they are set; the
   last of the first i that has a value for oneof o is for member n. *)
ItemsOf(ty, s) ==
    [i \in DOMAIN s |->
        [found |-> {f \in ToSet(Fields(ty)) : f.name = s[i].name}, item |-> s[i].k]]
Counts(ty, o, x) == x.name \in Members(ty, o) /\ x.k.t # 101 /\ x.k # Mixed(<<>>)
IsLast(ty, o, s, i, n) ==
    \E j \in 1 .. i : /\ s[j].name = n /\ Counts(ty, o, s[j])
                      /\ \A l \in 1 .. i : Counts(ty, o, s[l]) => l <= j
LastIsSet(ty, s, i, m) ==
    /\ DOMAIN m = ToSet(FieldNames(ty))
    /\ \A f \in ToSet(Fields(ty)) : f.oneof # "" =>
          (m[f.name] # Unset <=> IsLast(ty, f.oneof, s, i, f.name))

(* No value that a oneof member gets is the mark of one that is not set. *)
GivesValues(ty, s, names) ==
    \A i \in DOMAIN s : \A f \in ToSet(Fields(ty)) : \A old :
        /\ f.name = s[i].name /\ f.oneof # ""
        /\ ~Throws(FieldValue(f, old, s[i].k, names))
        => FieldValue(f, old, s[i].k, names).value # Unset

LEMMA LastStays ==
    ASSUME NEW ty, NEW o, NEW s, NEW i \in Nat, NEW n, ~Counts(ty, o, s[i + 1])
    PROVE  IsLast(ty, o, s, i + 1, n) <=> IsLast(ty, o, s, i, n)
<1> DEFINE C == {j \in Nat : Counts(ty, o, s[j])}
<1>1. i + 1 \notin C /\ \A j \in C : j \in 1 .. i + 1 <=> j \in 1 .. i
  <2>1. i + 1 \notin C
    OBVIOUS
  <2>2. C \subseteq Nat
    OBVIOUS
  <2> HIDE DEF C
  <2> QED
    BY <2>1, <2>2
<1>2. \A h \in Nat : IsLast(ty, o, s, h, n) <=>
         \E j \in 1 .. h : s[j].name = n /\ j \in C /\ \A l \in 1 .. h : l \in C => l <= j
  <2>1. \A h \in Nat : \A j \in 1 .. h : j \in C <=> Counts(ty, o, s[j])
    <3>1. \A h \in Nat : \A j \in 1 .. h : j \in Nat
      OBVIOUS
    <3> QED
      BY <3>1, Zenon
  <2> HIDE DEF C
  <2> QED
    BY <2>1, Zenon DEF IsLast
<1> HIDE DEF C
<1>3. i + 1 \in Nat
  OBVIOUS
<1>4. (\E j \in 1 .. i + 1 : s[j].name = n /\ j \in C /\ \A l \in 1 .. i + 1 : l \in C => l <= j)
      <=> (\E j \in 1 .. i : s[j].name = n /\ j \in C /\ \A l \in 1 .. i : l \in C => l <= j)
  BY <1>1, Zenon
<1> QED
  BY <1>2, <1>3, <1>4, Zenon

TakesOver(ty, o, s, i) ==
    \A n : IsLast(ty, o, s, i + 1, n) <=> s[i + 1].name = n

LEMMA LastIsNext ==
    ASSUME NEW ty, NEW o, NEW s, NEW i \in Nat, Counts(ty, o, s[i + 1])
    PROVE  TakesOver(ty, o, s, i)
<1>1. i + 1 \in 1 .. i + 1 /\ \A j \in 1 .. i + 1 : j <= i + 1 /\ (i + 1 <= j => j = i + 1)
  OBVIOUS
<1> QED
  BY <1>1, Zenon DEF TakesOver, IsLast

LEMMA NamesDiffer ==
    ASSUME NEW ty \in Types
    PROVE  \A f, g \in ToSet(Fields(ty)) : f.name = g.name => f = g
<1>1. /\ \A f \in ToSet(Fields(ty)) : \E j \in DOMAIN Fields(ty) : f = Fields(ty)[j]
      /\ \A a, b \in DOMAIN Fields(ty) : Fields(ty)[a].name = Fields(ty)[b].name => a = b
  BY FieldsOf
<1> QED
  BY <1>1

(* Setting a field: if it is in a oneof, its item is the last for it. *)
LEMMA SettingTakesOver ==
    ASSUME NEW ty \in Types, NEW s, NEW i \in Nat,
           NEW m, LastIsSet(ty, s, i, m), NEW f \in ToSet(Fields(ty)), f.name = s[i + 1].name,
           s[i + 1].k.t # 101, f.oneof # "" => s[i + 1].k # Mixed(<<>>),
           NEW v, f.oneof # "" => v # Unset
    PROVE  LastIsSet(ty, s, i + 1, SetField(ty, m, f, v))
<1> DEFINE new == SetField(ty, m, f, v)
           x == s[i + 1]
<1>1. \A g, h \in ToSet(Fields(ty)) : g.name = h.name => g = h
  BY NamesDiffer
<1>2. DOMAIN m = ToSet(FieldNames(ty)) /\ \A g \in ToSet(Fields(ty)) : g.name \in ToSet(FieldNames(ty))
  <2>1. DOMAIN m = ToSet(FieldNames(ty))
    BY DEF LastIsSet
  <2>2. \A g \in ToSet(Fields(ty)) : \E j \in DOMAIN Fields(ty) : g = Fields(ty)[j]
    BY FieldsOf
  <2>3. \A j \in DOMAIN Fields(ty) : Fields(ty)[j].name \in ToSet(FieldNames(ty))
    <3>1. ToSet(FieldNames(ty)) = {Fields(ty)[j].name : j \in DOMAIN Fields(ty)}
      BY FieldsOf
    <3> QED
      BY <3>1
  <2> QED
    BY <2>1, <2>2, <2>3
<1>3. new = [n \in DOMAIN m |-> IF n = f.name THEN v
                                ELSE IF n \in OneofOf(ty, f) THEN Unset ELSE m[n]]
  BY Zenon DEF SetField
<1> HIDE DEF new
<1>4. DOMAIN new = ToSet(FieldNames(ty))
  BY <1>2, <1>3
<1>5. ASSUME NEW g \in ToSet(Fields(ty)), g.oneof # ""
      PROVE  new[g.name] # Unset <=> IsLast(ty, g.oneof, s, i + 1, g.name)
  <2>1. g.name \in DOMAIN m
    BY <1>2
  <2>2. CASE f.oneof = g.oneof
    <3>1. f.name \in Members(ty, g.oneof)
      BY <2>2 DEF Members
    <3>2. Counts(ty, g.oneof, x)
      BY <1>5, <2>2, <3>1, Zenon DEF Counts
    <3>3. IsLast(ty, g.oneof, s, i + 1, g.name) <=> x.name = g.name
      <4>1. TakesOver(ty, g.oneof, s, i)
        BY <3>2, LastIsNext, Zenon
      <4> QED
        BY <4>1, Zenon DEF TakesOver
    <3>4. CASE g.name = f.name
      <4>1. new[g.name] = v
        BY <1>3, <2>1, <3>4
      <4> QED
        BY <1>5, <2>2, <3>3, <3>4, <4>1, Zenon
    <3>5. CASE g.name # f.name
      <4>1. g.name \in OneofOf(ty, f)
        BY <1>5, <2>2 DEF OneofOf
      <4>2. new[g.name] = Unset
        BY <1>3, <2>1, <3>5, <4>1
      <4> QED
        BY <3>3, <3>5, <4>2, Zenon
    <3> QED
      BY <3>4, <3>5
  <2>3. CASE f.oneof # g.oneof
    <3>1. f.name \notin Members(ty, g.oneof)
      BY <1>1, <2>3 DEF Members
    <3>2. ~Counts(ty, g.oneof, x)
      BY <3>1, Zenon DEF Counts
    <3>3. IsLast(ty, g.oneof, s, i + 1, g.name) <=> IsLast(ty, g.oneof, s, i, g.name)
      BY <3>2, LastStays, Zenon
    <3>4. g.name # f.name /\ g.name \notin OneofOf(ty, f)
      BY <1>1, <2>3 DEF OneofOf
    <3>5. new[g.name] = m[g.name]
      BY <1>3, <2>1, <3>4
    <3>6. m[g.name] # Unset <=> IsLast(ty, g.oneof, s, i, g.name)
      BY <1>5, Zenon DEF LastIsSet
    <3> QED
      BY <3>3, <3>5, <3>6, Zenon
  <2> QED
    BY <2>2, <2>3
<1>6. LastIsSet(ty, s, i + 1, new)
  BY <1>4, <1>5, Zenon DEF LastIsSet
<1> QED
  BY <1>6 DEF new

(* An item that is ignored changes nothing. *)
LEMMA IgnoredItem ==
    ASSUME NEW ty \in Types, NEW s, NEW i \in Nat, NEW m, LastIsSet(ty, s, i, m),
           \/ s[i + 1].k.t = 101
           \/ \E f \in ToSet(Fields(ty)) :
                 f.name = s[i + 1].name /\ f.oneof # "" /\ s[i + 1].k = Mixed(<<>>)
    PROVE  LastIsSet(ty, s, i + 1, m)
<1>1. ASSUME NEW g \in ToSet(Fields(ty)), g.oneof # ""
      PROVE  m[g.name] # Unset <=> IsLast(ty, g.oneof, s, i + 1, g.name)
  <2>1. ~Counts(ty, g.oneof, s[i + 1])
    BY Zenon DEF Counts
  <2>2. IsLast(ty, g.oneof, s, i + 1, g.name) <=> IsLast(ty, g.oneof, s, i, g.name)
    BY <2>1, LastStays, Zenon
  <2>3. m[g.name] # Unset <=> IsLast(ty, g.oneof, s, i, g.name)
    BY <1>1, Zenon DEF LastIsSet
  <2> QED
    BY <2>2, <2>3, Zenon
<1>2. DOMAIN m = ToSet(FieldNames(ty))
  BY Zenon DEF LastIsSet
<1> QED
  BY <1>1, <1>2, Zenon DEF LastIsSet

LEMMA ItemSets ==
    ASSUME NEW ty \in Types, NEW s, NEW names, GivesValues(ty, s, names),
           NEW i \in Nat, i + 1 \in DOMAIN s,
           NEW b, ~Throws(b), LastIsSet(ty, s, i, b.value),
           NEW found, found = {f \in ToSet(Fields(ty)) : f.name = s[i + 1].name},
           NEW r, r = SetItem(ty, b, found, s[i + 1].k, names), ~Throws(r)
    PROVE  LastIsSet(ty, s, i + 1, r.value)
<1> DEFINE k == s[i + 1].k
           m == b.value
<1>1. CASE k.t = 101
  <2>1. r = b
    BY <1>1, Zenon DEF SetItem
  <2>2. LastIsSet(ty, s, i + 1, b.value)
    <3>1. s[i + 1].k.t = 101
      BY <1>1
    <3>2. \A x : LastIsSet(ty, s, i, x) => LastIsSet(ty, s, i + 1, x)
      BY <3>1, IgnoredItem, Zenon
    <3> QED
      BY <3>2, Zenon
  <2> QED
    BY <2>1, <2>2, Zenon
<1>2. CASE k.t # 101
  <2>1. found # {}
    <3>1. SUFFICES ASSUME found = {} PROVE Throws(r)
      BY Zenon
    <3>2. r = Throw("TypeCheckUnknownField")
      BY <1>2, <3>1, Zenon DEF SetItem
    <3>3. "TypeCheckUnknownField" # ""
      OBVIOUS
    <3> QED
      BY <3>2, <3>3, Answers, Zenon
  <2> DEFINE f == CHOOSE g \in found : TRUE
  <2>2. r = SetMessageField(ty, m, f, k, names)
    BY <1>2, <2>1, Zenon DEF SetItem
  <2>3. f \in found
    BY <2>1
  <2> HIDE DEF f
  <2>4. f \in ToSet(Fields(ty)) /\ f.name = s[i + 1].name
    BY <2>3
  <2>5. CASE f.oneof # "" /\ k = Mixed(<<>>)
    <3>1. r = Value(m)
      BY <2>2, <2>5, Zenon DEF SetMessageField
    <3>2. r.value = m
      BY <3>1, Answers, Zenon
    <3> QED
      BY <2>4, <2>5, <3>2, IgnoredItem, Zenon
  <2>6. CASE ~(f.oneof # "" /\ k = Mixed(<<>>))
    <3> DEFINE old == m[f.name]
               new == FieldValue(f, old, k, names)
    <3>1. r = Assign(ty, m, f, new)
      BY <2>2, <2>6, Zenon DEF SetMessageField
    <3>2. ~Throws(new) /\ r = Value(SetField(ty, m, f, new.value))
      BY <3>1, Zenon DEF Assign
    <3>3. f.oneof # "" => new.value # Unset
      BY <2>4, <3>2, Zenon DEF GivesValues
    <3> HIDE DEF new
    <3>4. r.value = SetField(ty, m, f, new.value)
      BY <3>2, Answers, Zenon
    <3>5. LastIsSet(ty, s, i + 1, SetField(ty, m, f, new.value))
      BY <1>2, <2>4, <2>6, <3>3, SettingTakesOver, Zenon
    <3> QED
      BY <3>4, <3>5
  <2> QED
    BY <2>5, <2>6
<1> QED
  BY <1>1, <1>2

LEMMA AllItems ==
    ASSUME NEW ty \in Types, NEW s, NEW n \in Nat, DOMAIN s = 1 .. n,
           NEW names, GivesValues(ty, s, names),
           NEW r, r = SetItems(ty, NewMessage(ty), ItemsOf(ty, s), names), ~Throws(r)
    PROVE  LastIsSet(ty, s, n, r.value)
<1> DEFINE given == ItemsOf(ty, s)
           m == NewMessage(ty)
<1>1. DOMAIN given = 1 .. n /\ Len(given) = n
  BY DEF ItemsOf
<1>2. \A i \in 1 .. n : given[i].item = s[i].k /\
         given[i].found = {f \in ToSet(Fields(ty)) : f.name = s[i].name}
  BY DEF ItemsOf
<1> HIDE DEF given, m
<1>3. PICK g : Loops(ty, m, given, names, g)
  BY <1>1, LoopIs
<1>4. /\ g[0] = Value(m) /\ r = g[n]
      /\ \A i \in 1 .. n : g[i] = SetItem(ty, g[i - 1], given[i].found, given[i].item, names)
  BY <1>1, <1>3, Zenon DEF Loops, given, m
<1> DEFINE T == {i \in Nat : i <= n /\ ~Throws(g[i]) => LastIsSet(ty, s, i, g[i].value)}
<1>5. 0 \in T
  <2>1. g[0].value = m
    BY <1>4, Answers, Zenon
  <2>2. DOMAIN m = ToSet(FieldNames(ty))
    BY NewMessageIs, Zenon DEF m
  <2>3. ASSUME NEW f \in ToSet(Fields(ty)), f.oneof # ""
        PROVE  m[f.name] # Unset <=> IsLast(ty, f.oneof, s, 0, f.name)
    <3>1. PICK i \in DOMAIN Fields(ty) : f = Fields(ty)[i]
      BY FieldsOf
    <3>2. m[f.name] = Default(f)
      BY <3>1, NewMessageIs DEF m
    <3>3. f.label = "singular"
      <4>1. IsField(f)
        BY SchemaAssumption
      <4> QED
        BY <2>3, <4>1, Zenon DEF IsField
    <3>4. "map" # "singular" /\ "repeated" # "singular"
      OBVIOUS
    <3>5. m[f.name] = Unset
      BY <2>3, <3>2, <3>3, <3>4, Zenon DEF Default
    <3>6. 1 .. 0 = {}
      OBVIOUS
    <3>7. ~IsLast(ty, f.oneof, s, 0, f.name)
      BY <3>6, Zenon DEF IsLast
    <3> QED
      BY <3>5, <3>7, Zenon
  <2>4. LastIsSet(ty, s, 0, m)
    BY <2>2, <2>3, Zenon DEF LastIsSet
  <2> QED
    BY <2>1, <2>4
<1>6. ASSUME NEW i \in Nat, i \in T PROVE i + 1 \in T
  <2>1. SUFFICES ASSUME i + 1 <= n, ~Throws(g[i + 1])
                 PROVE  LastIsSet(ty, s, i + 1, g[i + 1].value)
    OBVIOUS
  <2>2. i + 1 \in 1 .. n /\ i <= n /\ (i + 1) - 1 = i
    BY <2>1
  <2>3. g[i + 1] = SetItem(ty, g[i], given[i + 1].found, s[i + 1].k, names)
    BY <1>2, <1>4, <2>2
  <2>4. ~Throws(g[i])
    <3>1. Throws(g[i]) => g[i + 1] = g[i]
      BY <2>3, Zenon DEF SetItem
    <3> QED
      BY <2>1, <3>1
  <2>5. LastIsSet(ty, s, i, g[i].value)
    BY <1>6, <2>2, <2>4
  <2>6. given[i + 1].found = {f \in ToSet(Fields(ty)) : f.name = s[i + 1].name}
    BY <1>2, <2>2
  <2>7. i + 1 \in DOMAIN s
    BY <2>2
  <2> HIDE DEF T
  <2> QED
    BY <2>1, <2>3, <2>4, <2>5, <2>6, <2>7, ItemSets, Zenon
<1> HIDE DEF T
<1>7. n \in T
  BY <1>5, <1>6, Induction
<1> QED
  BY <1>4, <1>7 DEF T

(* The loop that an accepted object of fields goes through. *)
IsLoop(ty, k, names) ==
    /\ \E n \in Nat : DOMAIN Specified(ty, k, names) = 1 .. n
    /\ SetNew(ty, k, names) =
          SetItems(ty, NewMessage(ty), ItemsOf(ty, Specified(ty, k, names)), names)

LEMMA AcceptedIsLoop ==
    ASSUME NEW ty \in Types, NEW names \in BOOLEAN, NEW k,
           k.t = (IF names THEN 99 ELSE 0),
           names /\ k.keys.t = KS => k.keys.syms \in Seq(STRING),
           ~Throws(SetNew(ty, k, names))
    PROVE  IsLoop(ty, k, names)
<1> DEFINE m == NewMessage(ty)
           F == Fields(ty)
           s == Specified(ty, k, names)
           r == SetNew(ty, k, names)
           Found(x) == {f \in ToSet(F) : f.name = x}
<1>1. \A e : e # "" => r # Throw(e)
  BY Answers, Zenon
<1>2. /\ "TypeCheckFieldNum" # "" /\ "TypeCheckFieldNames" # "" /\ "TypeCheckFieldValues" # ""
      /\ 0 # 101 /\ 99 # 101
  OBVIOUS
<1> HIDE DEF m
<1>3. CASE ~names
  <2>1. k.t = 0
    BY <1>3
  <2>2. Len(F) \in Nat /\ DOMAIN F = 1 .. Len(F)
    BY FieldsOf
  <2> DEFINE given == [i \in DOMAIN F |-> [found |-> {F[i]}, item |-> k.items[i]]]
  <2>3. r = SetMessageByIndicies(ty, m, k, names)
    BY <1>3, Zenon DEF SetNew, SetMessage, m
  <2>4. r = Throw("TypeCheckFieldNum") \/ r = SetItems(ty, m, given, names)
    <3> HIDE DEF r
    <3> QED
      BY <1>2, <2>1, <2>3, ZenonT(30) DEF SetMessageByIndicies
  <2>5. r = SetItems(ty, m, given, names)
    BY <1>1, <1>2, <2>4, Zenon
  <2>6. s = [i \in DOMAIN F |-> [name |-> F[i].name, k |-> k.items[i]]]
    BY <1>3, Zenon DEF Specified
  <2>7. given = ItemsOf(ty, s)
    <3>1. \A i \in DOMAIN F : Found(F[i].name) = {F[i]}
      BY FoundByName
    <3>2. DOMAIN s = DOMAIN F /\ \A i \in DOMAIN F : s[i].name = F[i].name /\ s[i].k = k.items[i]
      BY <2>6
    <3> HIDE DEF Found, s
    <3>3. ItemsOf(ty, s) = [i \in DOMAIN s |-> [found |-> Found(s[i].name), item |-> s[i].k]]
      BY Zenon DEF ItemsOf, Found
    <3> QED
      BY <3>1, <3>2, <3>3
  <2>8. DOMAIN s = 1 .. Len(F)
    BY <2>2, <2>6
  <2> HIDE DEF r, s, given
  <2>9. r = SetItems(ty, m, ItemsOf(ty, s), names)
    BY <2>5, <2>7
  <2> QED
    BY <2>2, <2>8, <2>9 DEF r, s, m, IsLoop
<1>4. CASE names
  <2>1. k.t = 99
    BY <1>4
  <2> DEFINE given == [i \in DOMAIN k.keys.syms |->
                          [found |-> Found(k.keys.syms[i]), item |-> k.vals.items[i]]]
  <2>2. r = SetMessageByFieldNames(ty, m, k, names)
    BY <1>4, Zenon DEF SetNew, SetMessage, m
  <2>3. \/ r = Throw("TypeCheckFieldNames") \/ r = Throw("TypeCheckFieldValues")
        \/ k.keys.t = KS /\ r = SetItems(ty, m, given, names)
    <3> HIDE DEF r
    <3> QED
      BY <1>2, <2>1, <2>2, ZenonT(30) DEF SetMessageByFieldNames
  <2>4. k.keys.t = KS /\ r = SetItems(ty, m, given, names)
    BY <1>1, <1>2, <2>3, Zenon
  <2>5. s = [i \in DOMAIN k.keys.syms |-> [name |-> k.keys.syms[i], k |-> k.vals.items[i]]]
    BY <1>4, Zenon DEF Specified
  <2>6. given = ItemsOf(ty, s)
    <3>1. DOMAIN s = DOMAIN k.keys.syms /\ \A i \in DOMAIN k.keys.syms :
             s[i].name = k.keys.syms[i] /\ s[i].k = k.vals.items[i]
      BY <2>5
    <3> HIDE DEF Found, s
    <3>2. ItemsOf(ty, s) = [i \in DOMAIN s |-> [found |-> Found(s[i].name), item |-> s[i].k]]
      BY Zenon DEF ItemsOf, Found
    <3> QED
      BY <3>1, <3>2
  <2>7. k.keys.syms \in Seq(STRING)
    BY <1>4, <2>4
  <2>8. Len(k.keys.syms) \in Nat /\ DOMAIN k.keys.syms = 1 .. Len(k.keys.syms)
    BY <2>7
  <2>9. DOMAIN s = 1 .. Len(k.keys.syms)
    BY <2>5, <2>8
  <2> HIDE DEF r, s, given
  <2>10. r = SetItems(ty, m, ItemsOf(ty, s), names)
    BY <2>4, <2>6
  <2> QED
    BY <2>8, <2>9, <2>10 DEF r, s, m, IsLoop
<1> QED
  BY <1>3, <1>4

(* What LastSpecifiedWins says of one result. *)
LastWins(r) ==
    LET m == KToMessage(r.type, r.value, r.names)
        oneofs == {f.oneof : f \in ToSet(Fields(r.type))} \ {""} IN
    r.value.t = (IF r.names THEN 99 ELSE 0) => \A o \in oneofs :
        LastOf(r.type, o, r.value, r.names) = {n \in Members(r.type, o) : m[n] # Unset}

(* Hypothesis of LastOfOneofIsSet. *)
OneofsGetValues ==
    \A x \in Accepted : x[2].t = (IF x[3] THEN 99 ELSE 0) =>
        GivesValues(x[1], Specified(x[1], x[2], x[3]), x[3])

LEMMA LastOfIs ==
    ASSUME NEW ty, NEW o, NEW k, NEW names, NEW n \in Nat,
           DOMAIN Specified(ty, k, names) = 1 .. n
    PROVE  \A x : x \in LastOf(ty, o, k, names) <=> IsLast(ty, o, Specified(ty, k, names), n, x)
<1> DEFINE s == Specified(ty, k, names)
           given == {i \in DOMAIN s : /\ s[i].name \in Members(ty, o)
                                      /\ s[i].k.t # 101 /\ s[i].k # Mixed(<<>>)}
<1>1. LastOf(ty, o, k, names) = {s[i].name : i \in {j \in given : \A l \in given : l <= j}}
  BY Zenon DEF LastOf
<1>2. \A i \in 1 .. n : i \in given <=> Counts(ty, o, s[i])
  BY Zenon DEF Counts
<1>3. given \subseteq 1 .. n
  OBVIOUS
<1> HIDE DEF given, s
<1>4. ASSUME NEW x
      PROVE  x \in LastOf(ty, o, k, names) <=>
                \E j \in 1 .. n : /\ s[j].name = x /\ j \in given
                                  /\ \A l \in 1 .. n : l \in given => l <= j
  BY <1>1, <1>3
<1> QED
  BY <1>2, <1>4, Zenon DEF IsLast, s

LEMMA ArrayLastWins ==
    ASSUME OneofsGetValues, NEW r, IsArray(r)
    PROVE  LastWins(r)
<1> DEFINE ty == r.type
           k == r.value
           nm == r.names
           s == Specified(ty, k, nm)
           b == SetNew(ty, k, nm)
           m == KToMessage(ty, k, nm)
<1>1. /\ ty \in KnownTypes /\ nm \in Modes /\ k \in KObj /\ m # Failed
  BY DEF IsArray
<1>2. /\ nm \in BOOLEAN /\ ty \in Types /\ m = SetOrFail(ty, k, nm)
      /\ k.t = 99 /\ k.keys.t = KS => k.keys.syms \in Seq(STRING)
  BY <1>1, InPlaceAssumption, BoundAssumption
<1>3. ~Throws(b) /\ m = b.value
  BY <1>1, <1>2, Zenon DEF SetOrFail, ValueOrFail
<1>4. <<ty, k, nm>> \in Accepted
  BY <1>1 DEF Accepted
<1>5. SUFFICES ASSUME k.t = (IF nm THEN 99 ELSE 0),
                      NEW o \in {f.oneof : f \in ToSet(Fields(ty))} \ {""}
               PROVE  LastOf(ty, o, k, nm) = {n \in Members(ty, o) : m[n] # Unset}
  BY Zenon DEF LastWins
<1>6. IsLoop(ty, k, nm)
  <2>1. nm => k.t = 99
    BY <1>5
  <2>2. nm /\ k.keys.t = KS => k.keys.syms \in Seq(STRING)
    BY <1>2, <2>1, Zenon
  <2> QED
    BY <1>2, <1>3, <1>5, <2>2, AcceptedIsLoop, Zenon
<1> HIDE DEF b, m, s
<1>7. /\ \E n \in Nat : DOMAIN s = 1 .. n
      /\ b = SetItems(ty, NewMessage(ty), ItemsOf(ty, s), nm)
  BY <1>6, Zenon DEF IsLoop, b, s
<1>8. PICK n \in Nat : DOMAIN s = 1 .. n
  BY <1>7
<1>9. GivesValues(ty, s, nm)
  BY <1>4, <1>5 DEF OneofsGetValues, s
<1>10. LastIsSet(ty, s, n, m)
  BY <1>2, <1>3, <1>7, <1>8, <1>9, AllItems, Zenon
<1>11. \A x : x \in LastOf(ty, o, k, nm) <=> IsLast(ty, o, s, n, x)
  BY <1>8, LastOfIs, Zenon DEF s
<1>12. ASSUME NEW x, IsLast(ty, o, s, n, x) PROVE x \in Members(ty, o)
  BY <1>12, Zenon DEF IsLast, Counts
<1>13. ASSUME NEW x \in Members(ty, o) PROVE m[x] # Unset <=> IsLast(ty, o, s, n, x)
  <2>1. PICK f \in ToSet(Fields(ty)) : f.oneof = o /\ f.name = x
    BY DEF Members
  <2>2. f.oneof # ""
    BY <2>1
  <2> QED
    BY <1>10, <2>1, <2>2, Zenon DEF LastIsSet
<1> QED
  BY <1>11, <1>12, <1>13, Zenon

(* "The oneof will be set to the value of the last specified field": however
   many members of a oneof an object that is serialized has values for, in
   whatever order, the one that is set is the last in the order of the
   fields or of the dictionary, and no other is. *)
THEOREM LastOfOneofIsSet ==
    ASSUME OneofsGetValues PROVE Spec => []LastSpecifiedWins
<1>1. AllExplained => LastSpecifiedWins
  <2> SUFFICES ASSUME AllExplained, NEW p \in Procs, result[p].status = "array"
               PROVE  LastWins(result[p])
    BY Zenon DEF LastSpecifiedWins, LastWins
  <2> QED
    BY ArrayLastWins, Zenon DEF AllExplained, Explained
<1> QED
  BY <1>1, ExplainedHolds, PTL
=============================================================================
