------------------------------ MODULE MCFactory ------------------------------
(***************************************************************************)
(* Two files that may import each other, of which several versions appear  *)
(* on disk: one redefines a type, one defines a type that is compiled in.  *)
(***************************************************************************)
EXTENDS MessageFactoryProps, TLC

Proto(ds, ts, us) == [deps |-> ds, types |-> ts, uses |-> us]
Old == Proto({}, "T" :> "T v1", {})
New == Proto({}, ("T" :> "T v2") @@ ("U" :> "U v1"), {})
User == Proto({"a"}, "V" :> "V v1", {"U"})
Circular == Proto({"b"}, "U" :> "U v2", {})
Shadow == Proto({}, "C" :> "C imported", {})

MCProtos == {Old, New, User, Circular, Shadow}
MCCompiled == "C" :> "C compiled"
=============================================================================
