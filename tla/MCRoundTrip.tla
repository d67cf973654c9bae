----------------------------- MODULE MCRoundTrip -----------------------------
(***************************************************************************)
(* RoundTrip over a schema with every kind of field the library treats     *)
(* differently, and kdb+ objects that are right, unusual or wrong.         *)
(***************************************************************************)
EXTENDS Descriptors

MCSchema ==
    [Pair |-> <<Int32("n", 1), String("s", 2)>>,
     Scalars |-> <<As(Int32("day", 14), "DATE"), Field("u", 13, "uint32"),
                   Field("b", 11, "bool"), Bytes("y", 12), As(String("g", 15), "GUID")>>,
     Lists |-> <<Repeated(Field("r", 21, "double")), Repeated(String("rs", 22)),
                 Repeated(As(String("rg", 23), "GUID")), Repeated(Sub("rm", 24, "Pair"))>>,
     Maps |-> <<MapOf("ms", 31, String("key", 1), Sub("value", 2, "Pair")),
                MapOf("mi", 32, As(Int32("key", 1), "TIME"), String("value", 2))>>,
     Choice |-> <<In("o", Int32("o1", 41)), In("o", String("o2", 42)),
                  In("o", Sub("o3", 43, "Pair")), Sub("t", 44, "Pair")>>,
     Nothing |-> <<>>,
     Pick |-> <<In("o", Int32("p", 81)), In("o", Sub("e", 82, "Nothing"))>>,
     Points |-> <<Repeated(Sub("ps", 91, "Point"))>>,
     Point |-> <<Int32("px", 92), Int32("py", 93)>>,
     Tree |-> <<Int32("v", 51), Repeated(Sub("kids", 52, "Tree"))>>,
     One |-> <<Repeated(Int32("only", 61))>>,
     Clash |-> <<As(Int32("x", 71), "TIMESTAMP")>>,
     Guids |-> <<MapOf("mg", 101, As(String("key", 1), "GUID"), As(String("value", 2), "GUID"))>>,
     Box |-> <<Sub("guids", 111, "Guids"), Repeated(Sub("many", 112, "Pick")),
               Sub("points", 113, "Points")>>,
     Step |-> <<Sub("at", 121, "Point"), Sub("of", 122, "Pair"), Sub("next", 123, "Step"),
                MapOf("tags", 124, String("key", 1), Int32("value", 2))>>,
     Twin |-> <<Sub("a", 141, "Pair"), Sub("b", 142, "Pair")>>,
     Path |-> <<Repeated(Sub("steps", 131, "Step")), Repeated(Sub("twins", 132, "Twin")),
                MapOf("named", 133, String("key", 1), Sub("value", 2, "Step"))>>]

MCTypes == DOMAIN MCSchema

Pairs == {[n |-> 0, s |-> ""], [n |-> 1, s |-> "s.x"]}
APair == [n |-> 1, s |-> ""]
Leaf == [v |-> 1, kids |-> <<>>]
APoint == [px |-> 1, py |-> 0]
AStep(at, of, next, names) ==
    [at |-> at, of |-> of, next |-> next, tags |-> [x \in names |-> 1]]
Start == AStep(Unset, Unset, Unset, {})
There == AStep(APoint, Unset, Unset, {})
APath(steps, twins, names) ==
    [steps |-> steps, twins |-> twins,
     named |-> [x \in names |-> IF x = "s" THEN There ELSE Start]]
Samples ==
    [Pair |-> Pairs,
     Scalars |-> {[day |-> 1, u |-> 3, b |-> 1, y |-> "s.x", g |-> g] :
                    g \in {"", "AB", "ab", "zz"}},
     Lists |-> {[r |-> <<1, 0>>, rs |-> <<"", "s.x">>, rg |-> <<"ab", "">>, rm |-> rm] :
                    rm \in {<<>>, <<APair, [n |-> 0, s |-> ""]>>}},
     Maps |-> {[ms |-> [x \in S |-> APair], mi |-> [x \in {0, 1} |-> "s"]] :
                    S \in {{}, {"s"}, {"s", ""}}}
                \cup {[ms |-> [x \in S |-> IF x = "s" THEN APair ELSE [n |-> 2, s |-> x]],
                      mi |-> [x \in {} |-> ""]] : S \in {{"s.x"}, {"s", "s.x"}}},
     Choice |-> {[o1 |-> o[1], o2 |-> o[2], o3 |-> o[3], t |-> o[4]] :
                    o \in {<<Unset, Unset, Unset, APair>>, <<0, Unset, Unset, Unset>>,
                           <<Unset, "", Unset, Unset>>, <<Unset, Unset, APair, Unset>>}},
     Nothing |-> {<<>>},
     Pick |-> {[p |-> o[1], e |-> o[2]] :
                    o \in {<<Unset, Unset>>, <<1, Unset>>, <<Unset, <<>>>>}},
     Points |-> {[ps |-> <<>>], [ps |-> <<APoint>>]},
     Point |-> {[px |-> 0, py |-> 1]},
     Tree |-> {Leaf, [v |-> 0, kids |-> <<Leaf, [v |-> 2, kids |-> <<Leaf>>]>>],
               [v |-> 0, kids |-> <<[v |-> 1, kids |-> <<[v |-> 2, kids |-> <<
                   [v |-> 3, kids |-> <<Leaf>>]>>]>>]>>]},
     One |-> {[only |-> <<>>], [only |-> <<1, 2>>]},
     Clash |-> {[x |-> 1]},
     Guids |-> {[mg |-> [x \in S |-> IF x = "ab" THEN "AB" ELSE "ab"]] :
                    S \in {{}, {"AB"}, {"ab", "00"}, {"AB", "ab"}}},
     Box |-> {[guids |-> [mg |-> [x \in S |-> "00"]], points |-> [ps |-> ps],
               many |-> <<[p |-> 1, e |-> Unset], [p |-> Unset, e |-> <<>>]>>] :
                    S \in {{"ab"}, {"AB", "ab"}}, ps \in {<<>>, <<APoint>>}},
     Step |-> {There}, Twin |-> {[a |-> APair, b |-> Unset]},
     Path |-> {APath(<<There, AStep(APoint, Unset, Unset, {"s"})>>, <<>>, {}),
               APath(<<There, Start>>, <<[a |-> Unset, b |-> APair]>>, {"s", ""}),
               APath(<<>>, <<[a |-> APair, b |-> APair]>>, {}), APath(<<>>, <<>>, {"s"}),
               APath(<<AStep(Unset, APair, Unset, {"s"}), AStep(Unset, APair, Unset, {"s"})>>,
                     <<>>, {}),
               APath(<<AStep(Unset, Unset, There, {"s"})>>, <<>>, {}),
               APath(<<AStep(Unset, APair, Start, {}), AStep(Unset, Unset, There, {})>>, <<>>, {})}]


AllSamples == UNION {{[type |-> ty, msg |-> m] : m \in Samples[ty]} : ty \in MCTypes}

(* Unusual and wrong objects. *)
Chars(s) == CharList(KC, s)
AnAtom == Atom(-KI, 1)
ByName(names, items) == Dict(SymbolList(names), Mixed(items))
PairTable == Table(<<"s", "n">>, <<<<Chars("s"), AnAtom>>, <<GenericNull, Atom(-KI, 0)>>>>)
Oddities ==
    { GenericNull, Mixed(<<>>), SimpleList(KI, <<1, 2>>), AnAtom,
      Mixed(<<AnAtom, CharList(KG, "\\ff")>>), ByName(<<"y">>, <<Chars("\\ff")>>),
      ByName(<<"ms">>, <<Dict(Mixed(<<Chars("\\ff")>>), Mixed(<<Dict(SymbolList(<<"n">>), Mixed(<<AnAtom>>))>>))>>),
      ByName(<<"rs">>, <<SymbolList([i \in 1 .. 11 |-> "s"])>>),
      Mixed(<<AnAtom>>), Mixed(<<AnAtom, Symbol("s"), GenericNull>>),
      Mixed(<<Symbol("s"), AnAtom>>), Mixed(<<GenericNull, CharList(KG, "s.x")>>),
      SimpleList(KF, <<1, 0>>), Dict(SymbolList(<<"n">>), SimpleList(KI, <<1>>)),
      Dict(SimpleList(KI, <<1>>), Mixed(<<AnAtom>>)),
      ByName(<<"s", "n">>, <<Symbol("s"), AnAtom>>), ByName(<<"what">>, <<AnAtom>>),
      ByName(<<"what", "n">>, <<GenericNull, AnAtom>>),
      Mixed(<<AnAtom, Chars("s"), Mixed(<<>>), GenericNull>>),
      Mixed(<<AnAtom, Chars("s"), Mixed(<<GenericNull, Chars("")>>), GenericNull>>),
      ByName(<<"o3", "o1">>, <<ByName(<<"n">>, <<AnAtom>>), AnAtom>>),
      ByName(<<"o1", "o2">>, <<AnAtom, Chars("")>>),
      ByName(<<"t", "t">>, <<ByName(<<"n">>, <<AnAtom>>), ByName(<<"s">>, <<Chars("s")>>)>>),
      ByName(<<"rm", "rm">>, <<PairTable, Mixed(<<GenericNull, ByName(<<"n">>, <<AnAtom>>)>>)>>),
      ByName(<<"rm">>, <<SimpleList(KI, <<1>>)>>), ByName(<<"rs">>, <<Mixed(<<Chars("s"), AnAtom>>)>>),
      ByName(<<"rs", "rs">>, <<SymbolList(<<"s">>), Mixed(<<Symbol("s")>>)>>),
      ByName(<<"ms">>, <<Dict(SymbolList(<<"s", "s">>), PairTable)>>),
      ByName(<<"ms">>, <<Dict(Mixed(<<AnAtom>>), Mixed(<<GenericNull>>))>>),
      ByName(<<"ms">>, <<Dict(Mixed(<<AnAtom>>), Mixed(<<ByName(<<"n">>, <<AnAtom>>)>>))>>),
      ByName(<<"mi">>, <<Dict(SimpleList(KT, <<1, 0>>), Mixed(<<GenericNull, Chars("s")>>))>>),
      ByName(<<"mi">>, <<Dict(SimpleList(KT, <<1>>), Mixed(<<AnAtom>>))>>),
      ByName(<<"mi">>, <<Dict(SimpleList(KI, <<1>>), SymbolList(<<"s">>))>>),
      ByName(<<"mi">>, <<SymbolList(<<"s">>)>>) }

Images == {GetMessage(x.type, x.msg, nm) :
               x \in AllSamples \cup {[type |-> ty, msg |-> NewMessage(ty)] : ty \in MCTypes},
               nm \in BOOLEAN}
MCKObj == Oddities \cup {k \in Images : ~IsException(k)}

MCCharArrays ==
    LET whole == {SerializeToString(x.type, x.msg) : x \in AllSamples}
        some == SerializeToString("Lists", CHOOSE m \in Samples["Lists"] : Len(m.rm) = 2) IN
    whole \cup Prefixes(some) \cup {[i \in 1 .. IntRange + 2 |-> some[1 + ((i - 1) % Len(some))]]}

(* The messages that the arrays parse to and that are serialized. *)
AllMessages ==
    LET parsed == {[type |-> ty, msg |-> MCParse(ty, Received(b))] :
                      ty \in MCTypes, b \in MCCharArrays}
        serialized == {[type |-> ty, msg |-> SetOrFail(ty, k, nm)] :
                          ty \in MCTypes, k \in MCKObj, nm \in Modes} IN
    ClosureOf(parsed \cup serialized)
MCMessages(ty) == {x.msg : x \in {y \in AllMessages : y.type = ty}}
AllTables == TablesIn(AllMessages)
MCGroups(ty) == {c[2] : c \in {d \in AllTables : d[1] = ty}}

(* Without files an operation depends on nothing that happened before it:
   one call from the initial state is enough. *)
Fresh == \A p \in Procs : result[p] = Answer("none")
OneCall == (Fresh /\ Next) \/ (~Fresh /\ UNCHANGED vars)
MCSpec == Init /\ [][OneCall]_vars
=============================================================================
