----------------------------- MODULE KReferences -----------------------------
(***************************************************************************)
(* Who holds references to kdb+ objects while one of them is converted.    *)
(*                                                                         *)
(* SetMessage reads an object that q holds; a table it cannot read row by  *)
(* row, so k() slices it and each slice must be freed.  GetMessage makes a *)
(* tree of objects from the leaves; what is not yet part of the tree is in *)
(* a local variable.  An exception leaves every function in progress at    *)
(* once.                                                                   *)
(*                                                                         *)
(* An object that is put into another is from then on a part of it, and is *)
(* no longer counted on its own.  What an object contains is left open.    *)
(***************************************************************************)
EXTENDS Integers

CONSTANTS
    Objects,        \* kdb+ objects: those of q, and memory for new ones
    None,           \* not an object
    MaxDepth,       \* bound on the depth of calls
    MaxItems        \* bound on the fields of a message, the items of a list

ASSUME SizeAssumption ==
    MaxDepth \in Nat \ {0} /\ MaxItems \in Nat /\ None \notin Objects

VARIABLES
    refs,           \* references to each object that are not from a part of the result
    phase,          \* what the library is doing
    names,          \* use_field_names of the call
    depth, frames,  \* functions in progress
    result,         \* the object returned to q
    held            \* (history) refs when q made the call
vars == <<refs, phase, names, depth, frames, result, held>>

(* A function in progress: the object it reads, what only its own locals   *)
(* refer to, and how many fields or items it still has to do.              *)
Kinds == {"message", "items", "map", "rows", "row", "read", "none"}
Frames == [fn : Kinds, on : Objects \cup {None}, own : SUBSET Objects, left : 0..MaxItems]
Frame(fn, on, own, n) == [fn |-> fn, on |-> on, own |-> own, left |-> n]
NoFrame == Frame("none", None, {}, 0)

Top == frames[depth]
Less == [Top EXCEPT !.left = @ - 1]
Fresh == {o \in Objects : refs[o] = 0}

R1(r, o) == [r EXCEPT ![o] = @ + 1]
R0(r, o) == [r EXCEPT ![o] = @ - 1]
(* k() drops the reference to its argument, and returns one to a new object. *)
K(r, arg, res) == R1(R0(r, arg), res)
(* References that become references from a part of the result, or end. *)
Taken(r, S) == [o \in Objects |-> IF o \in S THEN r[o] - 1 ELSE r[o]]

Becomes(f) == frames' = [frames EXCEPT ![depth] = f] /\ UNCHANGED depth
Enter(top, f) ==
    /\ depth < MaxDepth
    /\ depth' = depth + 1
    /\ frames' = [frames EXCEPT ![depth] = top, ![depth + 1] = f]
Leave == depth' = depth - 1 /\ frames' = [frames EXCEPT ![depth] = NoFrame]

Same == UNCHANGED <<phase, names, result, held>>
Doing(p, fns) == phase = p /\ Top.fn \in fns /\ Top.left > 0
Done(p, fns) == phase = p /\ Top.fn \in fns /\ Top.left = 0

----------------------------------------------------------------------------
(* q calls: the object to serialize is one it holds. *)

Call(p, nm, f) ==
    /\ phase = "idle" /\ phase' = p /\ names' = nm /\ held' = refs
    /\ depth' = 1 /\ frames' = [frames EXCEPT ![1] = f]
    /\ UNCHANGED result

SerializeArray(k, nm, n) ==
    /\ refs[k] > 0
    /\ Call("set", nm, Frame("message", k, {}, n))
    /\ UNCHANGED refs

ParseArray(o, nm, n) ==
    /\ o \in Fresh /\ refs' = R1(refs, o)
    /\ Call("get", nm, Frame("message", None, {o}, n))

(* A field, or item, that is a scalar, a list of them, or to be ignored. *)
Scalar ==
    /\ Doing("set", {"message", "items"}) \/ Doing("get", {"message", "map"})
    /\ Becomes(Less)
    /\ Same /\ UNCHANGED refs

----------------------------------------------------------------------------
(* Reading the argument of SerializeArray or SaveMessage.                  *)

SetMessage(n) ==
    /\ Doing("set", {"message", "items"})
    /\ Enter(Less, Frame("message", Top.on, {}, n))
    /\ Same /\ UNCHANGED refs

(* A list of messages, or of keys and values. *)
SetItems(n) ==
    /\ Doing("set", {"message"})
    /\ Enter(Less, Frame("items", Top.on, {}, n))
    /\ Same /\ UNCHANGED refs

(* A table: part of the argument, also where a slice refers to it. *)
SetTable(t, n) ==
    /\ Doing("set", {"message"}) /\ names /\ held[t] > 0
    /\ Enter(Less, Frame("rows", t, {}, n))
    /\ Same /\ UNCHANGED refs

(* Mutant: the table is not r1-ed for k(). *)
SliceLent(dict) ==
    /\ Doing("set", {"rows"}) /\ dict \in Fresh
    /\ refs' = K(refs, Top.on, dict)
    /\ Becomes([Top EXCEPT !.fn = "row", !.own = {dict}])
    /\ Same

Slice(dict) ==
    /\ Doing("set", {"rows"}) /\ dict \in Fresh
    /\ refs' = K(R1(refs, Top.on), Top.on, dict)
    /\ Becomes([Top EXCEPT !.fn = "row", !.own = {dict}])
    /\ Same

(* Mutant: the slice is freed before it is read. *)
SetRowFreed(n) ==
    /\ Doing("set", {"row"})
    /\ \E dict \in Top.own :
          /\ Enter([Top EXCEPT !.fn = "read", !.own = {}], Frame("message", dict, {}, n))
          /\ refs' = R0(refs, dict)
    /\ Same

SetRow(n) ==
    /\ Doing("set", {"row"})
    /\ \E dict \in Top.own :
          Enter([Top EXCEPT !.fn = "read"], Frame("message", dict, {}, n))
    /\ Same /\ UNCHANGED refs

(* Mutant: the slice is not freed. *)
SliceKept ==
    /\ Doing("set", {"read"})
    /\ Becomes([Less EXCEPT !.fn = "rows", !.own = {}])
    /\ Same /\ UNCHANGED refs

FreeSlice ==
    /\ Doing("set", {"read"})
    /\ refs' = Taken(refs, Top.own)
    /\ Becomes([Less EXCEPT !.fn = "rows", !.own = {}])
    /\ Same

SetReturns ==
    /\ Done("set", {"message", "items", "rows"})
    /\ Leave /\ phase' = IF depth = 1 THEN "returned" ELSE "set"
    /\ UNCHANGED <<refs, names, result, held>>

----------------------------------------------------------------------------
(* Making the result of ParseArray or LoadMessage.                         *)

GetMessage(o, n) ==
    /\ Doing("get", {"message", "items", "map"}) /\ o \in Fresh
    /\ refs' = R1(refs, o)
    /\ Enter(Less, Frame("message", None, {o}, n))
    /\ Same

GetItems(o, n) ==
    /\ Doing("get", {"message"}) /\ o \in Fresh
    /\ refs' = R1(refs, o)
    /\ Enter(Less, Frame("items", None, {o}, n))
    /\ Same

GetMap(keys, values, n) ==
    /\ Doing("get", {"message"}) /\ {keys, values} \subseteq Fresh /\ keys # values
    /\ refs' = R1(R1(refs, keys), values)
    /\ Enter(Less, Frame("map", None, {keys, values}, n))
    /\ Same

(* The list of field values, or the dictionary made of it. *)
MessageBuilt ==
    /\ Done("get", {"message"})
    /\ Leave
    /\ IF depth = 1
       THEN /\ phase' = "returned" /\ result' \in Top.own
            /\ UNCHANGED <<refs, names, held>>
       ELSE refs' = Taken(refs, Top.own) /\ Same

(* Mutant: a reference to the list is kept when k() makes a table of it. *)
BuiltKept(table) ==
    /\ Done("get", {"items", "map"})
    /\ Leave /\ Same
    /\ \/ ~names /\ refs' = Taken(refs, Top.own)
       \/ \E list \in Top.own :
             /\ names /\ table \in Fresh
             /\ refs' = Taken(K(R1(refs, list), list, table), (Top.own \ {list}) \cup {table})

(* A list is complete.  Dictionaries in it are made a table, by k(), which *)
(* then takes the place of the list; a map's keys and values become one.   *)
Built(table) ==
    /\ Done("get", {"items", "map"})
    /\ Leave /\ Same
    /\ \/ (names => Top.fn = "map") /\ refs' = Taken(refs, Top.own)
       \/ \E list \in Top.own :
             /\ names /\ table \in Fresh
             /\ refs' = Taken(K(refs, list, table), (Top.own \ {list}) \cup {table})

----------------------------------------------------------------------------
(* A type check fails, or the error object that k() returned is not a      *)
(* dictionary.  Only MessageParser catches; nothing is freed on the way.   *)
Throw ==
    /\ Doing("set", {"message", "items", "row"}) \/ Doing("get", {"message", "map"})
    /\ phase' = (IF phase = "set" THEN "rejected" ELSE "failed")
    /\ depth' = 0 /\ frames' = [i \in 1..MaxDepth |-> NoFrame]
    /\ UNCHANGED <<refs, names, result, held>>

(* No memory is left, or no stack: the process ends (external). *)
Exhausted ==
    /\ phase \in {"set", "get"} /\ (Fresh = {} \/ depth = MaxDepth)
    /\ phase' = "ended"
    /\ depth' = 0 /\ frames' = [i \in 1..MaxDepth |-> NoFrame]
    /\ UNCHANGED <<refs, names, result, held>>

(* q goes on, with whatever the next call will be given. *)
Return == phase \in {"returned", "rejected", "failed", "ended"} /\ UNCHANGED vars

Init ==
    /\ refs \in [Objects -> 0..1] /\ held = refs
    /\ phase = "idle" /\ names = FALSE /\ result = None
    /\ depth = 0 /\ frames = [i \in 1..MaxDepth |-> NoFrame]

Next ==
    \/ \E o \in Objects, n \in 0..MaxItems :
          \/ \E nm \in BOOLEAN : SerializeArray(o, nm, n) \/ ParseArray(o, nm, n)
          \/ SetTable(o, n) \/ GetMessage(o, n) \/ GetItems(o, n)
          \/ \E v \in Objects : GetMap(o, v, n)
    \/ \E n \in 0..MaxItems : SetMessage(n) \/ SetItems(n) \/ SetRow(n)
    \/ \E o \in Objects : Slice(o) \/ Built(o)
    \/ Scalar \/ FreeSlice \/ SetReturns \/ MessageBuilt \/ Throw
    \/ Exhausted \/ Return

Spec == Init /\ [][Next]_vars
=============================================================================
