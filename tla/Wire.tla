-------------------------------- MODULE Wire --------------------------------
(***************************************************************************)
(* The protobuf wire format, as far as the library can tell (external:     *)
(* libprotobuf's Message::SerializeToString and ParseFromArray).           *)
(*                                                                         *)
(* Output is a sequence of records, one for each field that does not have  *)
(* its default value, in the order of the field numbers.  It is not        *)
(* self-delimiting: a prefix that ends with a record is valid output too.  *)
(* Each record is made of two chunks, so that output can also end inside   *)
(* a record.                                                               *)
(***************************************************************************)
EXTENDS MessageTrees

CONSTANTS
    RecursionLimit, \* depth to which sub-messages are parsed (100)
    NotUtf8,        \* strings that are not UTF-8
    RecordsSub(_, _),    \* (type, message), (type, message, records) and
    MergeSub(_, _, _),   \* (type, records, depth): Records, Merge and Parses
    ParsesSub(_, _, _)   \* where they call themselves

(* The i-th field has i fields whose number is not larger than its own. *)
Rank(ty, f) == Cardinality({g \in ToSet(Fields(ty)) : g.num <= f.num})
ByNumber(ty) ==
    [i \in DOMAIN Fields(ty) |-> CHOOSE f \in ToSet(Fields(ty)) : Rank(ty, f) = i]

(* The name only keeps values of different fields apart for TLC. *)
Record(f, v) == [num |-> f.num, val |-> <<f.name, v>>]

(* A sub-message is the sequence of its own records. *)
Encode(f, v) == IF f.cpp = "message" THEN RecordsSub(f.msg, v) ELSE v

(* Numbers of a repeated field are packed into one record. *)
FieldRecords(f, v) ==
    IF v = Default(f) THEN <<>>
    ELSE IF f.label = "map"
    THEN Map(SetToSeq(DOMAIN v), LAMBDA x :
             Record(f, [key |-> x, value |-> Encode(f.value, v[x])]))
    ELSE IF f.label = "repeated" /\ f.cpp \in {"string", "message"}
    THEN Map(v, LAMBDA x : Record(f, Encode(f, x)))
    ELSE <<Record(f, Encode(f, v))>>

Records(ty, m) ==
    FlattenSeq(Map(ByNumber(ty), LAMBDA f : FieldRecords(f, m[f.name])))

(* What a record adds to the value of its field. *)
Decode(f, old, v) ==
    CASE f.label = "map" ->
            [x \in DOMAIN old \cup {v.key} |->
                IF x # v.key THEN old[x]
                ELSE IF f.value.cpp = "message"
                THEN MergeSub(f.value.msg, NewMessage(f.value.msg), v.value)
                ELSE v.value]
      [] f.label = "repeated" ->
            IF f.cpp = "message" THEN Append(old, MergeSub(f.msg, NewMessage(f.msg), v))
            ELSE IF f.cpp = "string" THEN Append(old, v) ELSE old \o v
      [] f.label = "singular" ->
            IF f.cpp # "message" THEN v
            ELSE MergeSub(f.msg, IF old = Unset THEN NewMessage(f.msg) ELSE old, v)

(* Unknown records are skipped. *)
MergeRecord(ty, m, r) ==
    LET found == {f \in ToSet(Fields(ty)) : f.num = r.num} IN
    IF found = {} THEN m
    ELSE LET f == CHOOSE g \in found : TRUE IN
         SetField(ty, m, f, Decode(f, m[f.name], r.val[2]))

(* The records are merged in order into what the message holds. *)
Merge(ty, m, records) ==
    LET merged[n \in 0 .. Len(records)] ==
            IF n = 0 THEN m ELSE MergeRecord(ty, merged[n - 1], records[n]) IN
    merged[Len(records)]

(* Parsing, and only parsing, requires UTF-8 of fields declared string, and
   goes no deeper than the limit; the entry of a map is a message, too. *)
ParsesValue(e, v, depth) ==
    /\ e.type = "string" => v \notin NotUtf8
    /\ e.cpp = "message" => depth > 0 /\ ParsesSub(e.msg, v, depth - 1)

ParsesField(f, v, depth) ==
    IF f.label = "map"
    THEN /\ depth > 0 /\ ParsesValue(f.key, v.key, depth - 1)
         /\ ParsesValue(f.value, v.value, depth - 1)
    ELSE ParsesValue(f, v, depth)

Parses(ty, records, depth) ==
    \A r \in ToSet(records) : \A f \in ToSet(Fields(ty)) :
        f.num = r.num => ParsesField(f, r.val[2], depth)

(* Records belong to the field with their number, only strings have text,
   and sub-messages are written, parsed and merged as messages are. *)
ASSUME WireAssumption ==
    /\ RecursionLimit \in Nat /\ "" \notin NotUtf8
    /\ \A ty \in Types : \A f, g \in ToSet(Fields(ty)) :
          /\ f.num \in Nat /\ (f.num = g.num => f = g)
          /\ Element(f).type = "string" => Element(f).cpp = "string"
    /\ \A ty \in Types : \A m \in Messages(ty) :
          LET records == Records(ty, m)
              new == NewMessage(ty) IN
          /\ RecordsSub(ty, m) = records
          /\ MergeSub(ty, new, records) = Merge(ty, new, records)
          /\ \A depth \in 0 .. RecursionLimit :
                ParsesSub(ty, records, depth) <=> Parses(ty, records, depth)

(* Chunks: the first and the second part of each record. *)
Chunks(r) == <<[rec |-> r, part |-> 1], [rec |-> r, part |-> 2]>>
SerializeToString(ty, m) == FlattenSeq(Map(Records(ty, m), Chunks))

Whole(b) ==
    /\ Len(b) % 2 = 0
    /\ \A i \in 1 .. Len(b) \div 2 :
          b[2 * i - 1].part = 1 /\ b[2 * i] = [b[2 * i - 1] EXCEPT !.part = 2]
=============================================================================
