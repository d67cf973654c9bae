------------------------------ MODULE MCSaveLoad ------------------------------
(***************************************************************************)
(* RoundTrip with files: messages are saved over one another by processes  *)
(* that may die, and loaded at any moment.                                 *)
(***************************************************************************)
EXTENDS Descriptors, TLC

MCSchema ==
    [Pair |-> <<Int32("n", 1), String("s", 2)>>,
     Record |-> <<Repeated(String("l", 3)), Sub("p", 4, "Pair"),
                  MapOf("m", 5, Int32("key", 1), Int32("value", 2))>>]
MCTypes == {"Record"}

Entry(v) == Dict(SimpleList(KI, <<0>>), SimpleList(KI, <<v>>))
APair == Mixed(<<Atom(-KI, 1), Symbol("s")>>)
MCKObj ==
    { Mixed(<<SymbolList(<<"a">>), APair, GenericNull>>),
      Mixed(<<GenericNull, GenericNull, Entry(2)>>) }
MCCharArrays == {}
AllMessages ==
    ClosureOf({[type |-> ty, msg |-> SetOrFail(ty, k, nm)] :
                  ty \in MCTypes, k \in MCKObj \cup {GenericNull}, nm \in Modes})
MCMessages(ty) == {x.msg : x \in {y \in AllMessages : y.type = ty}}
MCGroups(ty) == {}
ProcSymmetry == Permutations(Procs)

(* No step reads a result: states that differ in results only are one. *)
WithoutResults == <<files, pc, job, buf, pos, last, dirty>>
=============================================================================
