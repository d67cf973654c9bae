--------------------------- MODULE KReferencesProps ---------------------------
(* What conversions promise about the objects of q, and their own. *)
EXTENDS KReferences

Owned(o) == \E i \in 1..MaxDepth : o \in frames[i].own
Added(o) == IF Owned(o) THEN 1 ELSE 0

(* Counters are natural numbers; only functions in progress own anything. *)
TypeOK ==
    /\ refs \in [Objects -> Nat] /\ held \in [Objects -> Nat]
    /\ phase \in {"idle", "set", "get", "returned", "rejected", "failed", "ended"}
    /\ names \in BOOLEAN /\ result \in Objects \cup {None}
    /\ depth \in 0..MaxDepth /\ frames \in [1..MaxDepth -> Frames]
    /\ \A i \in 1..MaxDepth : i > depth => frames[i] = NoFrame

(* Every reference a conversion has added is in a local variable of exactly
   one function in progress (the slice of a row in MessageFormat::SetMessageField
   and MapValues::SetMap, lists in GetMessage and GetMap); only new objects are. *)
OwnedOnce ==
    phase \in {"set", "get"} =>
        /\ \A o \in Objects : refs[o] = held[o] + Added(o)
        /\ \A o \in Objects : Owned(o) => held[o] = 0
        /\ \A i, j \in 1..MaxDepth : i # j => frames[i].own \cap frames[j].own = {}

(* A function never reads an object that has been freed, neither the argument
   of q, whose reference k() takes for each row, nor a slice. *)
ReadsLive ==
    \A i \in 1..MaxDepth : frames[i].on # None => refs[frames[i].on] > 0

(* A call never drops a reference that q has, also when it fails. *)
ArgumentKept == \A o \in Objects : refs[o] >= held[o]

(* A call that succeeds has freed every object it made, except its result,
   to which q has the one reference. *)
NothingLeft ==
    phase = "returned" =>
        \A o \in Objects : refs[o] = held[o] + (IF o = result THEN 1 ELSE 0)

(* A slice of a table is temporary: a call that failed has freed it too. *)
SlicesFreed == phase = "rejected" => refs = held

(* What a function in progress reads is q's, or a slice that one of its
   callers owns; each kind of function owns what it should. *)
Readable(i) ==
    \/ held[frames[i].on] > 0
    \/ \E j \in 1..MaxDepth : j < i /\ frames[i].on \in frames[j].own
Reading(i) ==
    /\ frames[i].on \in Objects /\ Readable(i)
    /\ \/ frames[i].fn \in {"message", "items", "rows"} /\ frames[i].own = {}
       \/ frames[i].fn \in {"row", "read"} /\ \E o \in Objects : frames[i].own = {o}
Building(i) ==
    /\ frames[i].on = None /\ frames[i].fn \in {"message", "items", "map"}
    /\ frames[i].fn = "message" => \E o \in Objects : frames[i].own = {o}
    /\ i = 1 => frames[i].fn = "message"

(* The inductive invariant behind the promises above: what MessageFormat and
   MapValues rely on when they hand objects from one function to the next. *)
Inv ==
    /\ TypeOK /\ OwnedOnce /\ NothingLeft /\ ArgumentKept
    /\ phase = "idle" => refs = held
    /\ phase # "returned" => result = None
    /\ IF phase \in {"set", "get"} THEN depth > 0 ELSE depth = 0
    /\ phase = "set" => \A i \in 1..depth : Reading(i)
    /\ phase = "get" => \A i \in 1..depth : Building(i)
=============================================================================
