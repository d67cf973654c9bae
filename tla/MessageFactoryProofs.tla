------------------------- MODULE MessageFactoryProofs -------------------------
(***************************************************************************)
(* For every set of files, contents and message types: the pools agree, and *)
(* MessageFactory implements TypeRegistry.                                 *)
(***************************************************************************)
EXTENDS MessageFactoryProps, TLAPS

----------------------------------------------------------------------------
(* Facts about pools. *)

(* Files listed stay in the pool when it grows. *)
LEMMA SeqGrows ==
    ASSUME NEW S, NEW T, S \subseteq T, NEW s \in Seq(S)
    PROVE  s \in Seq(T)
  <1>1. s \in [1 .. Len(s) -> S] /\ Len(s) \in Nat
    OBVIOUS
  <1>2. s \in [1 .. Len(s) -> T]
    BY <1>1
  <1> QED
    BY <1>1, <1>2

LEMMA SeqElements ==
    ASSUME NEW S, NEW s \in Seq(S)
    PROVE  {s[i] : i \in DOMAIN s} \subseteq S
  OBVIOUS

LEMMA AppendKeeps ==
    ASSUME NEW S, NEW s \in Seq(S), NEW x \in S, NEW r, r = Append(s, x)
    PROVE  {s[i] : i \in DOMAIN s} \subseteq {r[i] : i \in DOMAIN r}
  <1>1. \A i \in DOMAIN s : i \in DOMAIN r /\ r[i] = s[i]
    OBVIOUS
  <1> QED
    BY <1>1

(* A file that is added to the list joins those before it. *)
LEMMA ListGrows ==
    ASSUME imported_files \in Seq(DOMAIN pool), NEW n \in DOMAIN pool,
           imported_files' = Append(imported_files, n)
    PROVE  Imported \subseteq Imported'
  BY AppendKeeps DEF Imported

(* What a pool says before it is extended it says afterwards. *)
LEMMA ExtendedKeeps ==
    ASSUME NEW f, NEW ns, NEW g
    PROVE  /\ DOMAIN Extended(f, ns, g) = DOMAIN f \cup ns
           /\ \A n \in DOMAIN f : Extended(f, ns, g)[n] = f[n]
           /\ \A n \in ns \ DOMAIN f : Extended(f, ns, g)[n] = g[n]
  BY DEF Extended

(* Building a file keeps the pool linked. *)
LEMMA BuildingLinks ==
    ASSUME Linked(pool), NEW n \in Unbuilt
    PROVE  Linked(Extended(pool, {n}, read))
  <1> DEFINE p == Extended(pool, {n}, read)
  <1>1. /\ DOMAIN p = DOMAIN pool \cup {n}
        /\ \A m \in DOMAIN pool : p[m] = pool[m]
        /\ p[n] = read[n]
    BY ExtendedKeeps DEF Unbuilt
  <1>2. Builds(read[n])
    BY DEF Unbuilt
  <1>3. \A m \in DOMAIN p : p[m].deps \subseteq DOMAIN p
    BY <1>1, <1>2 DEF Linked, Builds
  <1>4. \A k, m \in DOMAIN p : k # m => Types(p[k]) \cap Types(p[m]) = {}
    <2> HIDE DEF p
    <2> SUFFICES ASSUME NEW k \in DOMAIN p, NEW m \in DOMAIN p, k # m
                 PROVE  Types(p[k]) \cap Types(p[m]) = {}
      OBVIOUS
    <2>1. CASE k = n
      BY <1>1, <1>2, <2>1 DEF Builds
    <2>2. CASE m = n
      BY <1>1, <1>2, <2>2 DEF Builds
    <2>3. CASE k # n /\ m # n
      BY <1>1, <2>3 DEF Linked
    <2> QED
      BY <2>1, <2>2, <2>3
  <1> HIDE DEF p
  <1> QED
    BY <1>3, <1>4 DEF Linked, p

(* A file comes with all it imports, and nothing that was not built. *)
LEMMA WithImportsClosed ==
    ASSUME Linked(pool), NEW n \in DOMAIN pool
    PROVE  /\ n \in WithImports(n)
           /\ WithImports(n) \subseteq DOMAIN pool
           /\ \A m \in WithImports(n) : pool[m].deps \subseteq WithImports(n)
  <1>1. n \in WithImports(n) /\ WithImports(n) \subseteq DOMAIN pool
    BY DEF WithImports
  <1>2. ASSUME NEW m \in WithImports(n), NEW d \in pool[m].deps
        PROVE  d \in WithImports(n)
    <2>1. d \in DOMAIN pool
      BY <1>1, <1>2 DEF Linked
    <2>2. ASSUME NEW S \in SUBSET DOMAIN pool, n \in S,
                 \A k \in S : pool[k].deps \subseteq S
          PROVE  d \in S
      <3>1. m \in S
        BY <1>2, <2>2 DEF WithImports
      <3> QED
        BY <3>1, <2>2, <1>2
    <2> QED
      BY <2>1, <2>2 DEF WithImports
  <1> QED
    BY <1>1, <1>2

(* Copying files that were built keeps the second pool a part of the first,
   and brings in the files that were asked for. *)
LEMMA CopyAgrees ==
    ASSUME PoolsAgree, NEW ns, ns \subseteq DOMAIN pool
    PROVE  /\ Linked(Copied(ns))
           /\ \A n \in DOMAIN Copied(ns) : n \in DOMAIN pool /\ Copied(ns)[n] = pool[n]
           /\ ns \subseteq DOMAIN Copied(ns)
           /\ DOMAIN desc_pool \subseteq DOMAIN Copied(ns)
  <1> DEFINE new == UNION {WithImports(n) : n \in ns}
             p == Copied(ns)
  <1>1. /\ DOMAIN p = DOMAIN desc_pool \cup new
        /\ \A n \in DOMAIN desc_pool : p[n] = desc_pool[n]
        /\ \A n \in new \ DOMAIN desc_pool : p[n] = pool[n]
    BY DEF Copied, Extended
  <1>2. /\ ns \subseteq new
        /\ new \subseteq DOMAIN pool
        /\ \A m \in new : pool[m].deps \subseteq new
    BY WithImportsClosed DEF PoolsAgree
  <1> HIDE DEF new, p
  <1>3. \A n \in DOMAIN p : n \in DOMAIN pool /\ p[n] = pool[n]
    BY <1>1, <1>2 DEF PoolsAgree
  <1>4. \A n \in DOMAIN p : p[n].deps \subseteq DOMAIN p
    BY <1>1, <1>2, <1>3 DEF PoolsAgree, Linked
  <1>5. \A m, n \in DOMAIN p : m # n => Types(p[m]) \cap Types(p[n]) = {}
    BY <1>3 DEF PoolsAgree, Linked
  <1> QED
    BY <1>1, <1>2, <1>3, <1>4, <1>5 DEF Linked, p

(* A file defines each of its types alone. *)
LEMMA OneDefinition ==
    ASSUME Linked(pool), NEW n \in DOMAIN pool, NEW t \in Types(pool[n])
    PROVE  (CHOOSE m \in DOMAIN pool : t \in Types(pool[m])) = n
  BY DEF Linked

----------------------------------------------------------------------------
(* The pools agree: the inductive invariant. *)

LEMMA InitAgrees == Init => PoolsAgree
  BY DEF Init, PoolsAgree, Linked, EmptyPool

LEMMA StepAgrees == PoolsAgree /\ [Next]_vars => PoolsAgree'
  <1> SUFFICES ASSUME PoolsAgree, [Next]_vars
               PROVE  PoolsAgree'
    OBVIOUS
  <1>1. ASSUME UNCHANGED <<pool, desc_pool, imported_files>>
        PROVE  PoolsAgree'
    BY <1>1 DEF PoolsAgree, Linked, Types
  <1>2. ASSUME NEW n \in DOMAIN pool, imported_files' = Append(imported_files, n),
               UNCHANGED <<pool, desc_pool>>
        PROVE  PoolsAgree'
    <2>1. imported_files' \in Seq(DOMAIN pool)
      BY <1>2 DEF PoolsAgree
    <2> QED
      BY <1>2, <2>1 DEF PoolsAgree, Linked, Types
  <1>3. ASSUME NEW ns, ns \subseteq DOMAIN pool, desc_pool' = Copied(ns),
               UNCHANGED <<pool, imported_files>>
        PROVE  PoolsAgree'
    <2>1. /\ Linked(Copied(ns))
          /\ \A n \in DOMAIN Copied(ns) : n \in DOMAIN pool /\ Copied(ns)[n] = pool[n]
      BY <1>3, CopyAgrees
    <2> QED
      BY <1>3, <2>1 DEF PoolsAgree, Linked, Types
  <1>4. ASSUME NEW d \in Dirs, AddProtoImportPath(d) \/ \E n \in Names : EditFile(d, n)
        PROVE  PoolsAgree'
    BY <1>1, <1>4 DEF AddProtoImportPath, EditFile
  <1>5. ASSUME NEW n \in Names, ImportProtoFile(n)
        PROVE  PoolsAgree'
    BY <1>1, <1>2, <1>5 DEF ImportProtoFile
  <1>6. CASE ReadProto
    BY <1>1, <1>6 DEF ReadProto
  <1>7. CASE BuildProto
    <2>1. PICK n \in Unbuilt : pool' = Extended(pool, {n}, read)
      BY <1>7 DEF BuildProto
    <2>2. Linked(pool')
      BY <2>1, BuildingLinks DEF PoolsAgree
    <2>3. DOMAIN pool \subseteq DOMAIN pool' /\ \A m \in DOMAIN pool : pool'[m] = pool[m]
      BY <2>1 DEF Extended
    <2>4. imported_files' \in Seq(DOMAIN pool')
      BY <1>7, <2>3, SeqGrows DEF BuildProto, PoolsAgree
    <2>5. UNCHANGED desc_pool
      BY <1>7 DEF BuildProto
    <2> QED
      BY <2>2, <2>3, <2>4, <2>5 DEF PoolsAgree, Linked, Types
  <1>8. CASE ImportReturns
    BY <1>1, <1>2, <1>8 DEF ImportReturns
  <1>9. ASSUME NEW t \in MessageTypes, CreateMessage(t)
        PROVE  PoolsAgree'
    <2>1. CASE t \in DOMAIN Compiled
      BY <1>1, <1>9, <2>1 DEF CreateMessage
    <2>2. CASE t \notin DOMAIN Compiled
      <3>1. \E ns : ns \subseteq DOMAIN pool /\ desc_pool' = Copied(ns)
        BY <1>9, <2>2 DEF CreateMessage, FindMessageType, Defining
      <3> QED
        BY <1>3, <1>9, <3>1 DEF CreateMessage
    <2> QED
      BY <2>1, <2>2
  <1>10. CASE ListImportedMessageTypes
    <2>1. Imported \subseteq DOMAIN pool
      BY DEF Imported, PoolsAgree
    <2> QED
      BY <1>3, <1>10, <2>1 DEF ListImportedMessageTypes
  <1>11. CASE UNCHANGED vars
    BY <1>1, <1>11 DEF vars
  <1> QED
    BY <1>4, <1>5, <1>6, <1>7, <1>8, <1>9, <1>10, <1>11 DEF Next, Import

(* Whatever is on disk, and however it changes while imports run or fail:
   the pool types are looked up in is a linked part of the importer's. *)
THEOREM PoolsAlwaysAgree == Spec => []PoolsAgree
  BY InitAgrees, StepAgrees, PTL DEF Spec

----------------------------------------------------------------------------
(* MessageFactory implements TypeRegistry. *)

Known == [t \in DOMAIN Compiled \cup ImportedTypes |-> Definition(t)]
ListedTypes == UNION {Types(pool[n]) : n \in Imported}

LEMMA ImportedArePooled == PoolsAgree => Imported \subseteq DOMAIN pool
  BY SeqElements DEF PoolsAgree, Imported

LEMMA InitRefines == Init => Registry!Init
  <1> SUFFICES ASSUME Init
               PROVE  Registry!Init
    OBVIOUS
  <1>1. ImportedTypes = {} /\ ListedTypes = {}
    BY DEF Init, EmptyPool, ImportedTypes, ListedTypes, Imported
  <1>2. Known = [t \in DOMAIN Compiled |-> Compiled[t]]
    BY <1>1 DEF Known, Definition
  <1>3. Known = Compiled
    BY <1>2, ProtoAssumption
  <1> QED
    BY <1>1, <1>3 DEF Init, Registry!Init, Known, ListedTypes

(* A call that leaves pools and list alone looks like one to the registry. *)
LEMMA SameTable ==
    ASSUME UNCHANGED pool
    PROVE  Known' = Known
  BY DEF Known, ImportedTypes, Definition, Types

LEMMA SameList ==
    ASSUME UNCHANGED <<pool, imported_files>>
    PROVE  ListedTypes' = ListedTypes
  BY DEF ListedTypes, Imported, Types

(* What is listed can be created. *)
LEMMA ListedAreKnown == PoolsAgree => ListedTypes \subseteq DOMAIN Known
  BY ImportedArePooled DEF Known, ListedTypes, ImportedTypes

(* An import that ends adds the types of its file to the list, or nothing. *)
LEMMA ImportRefines ==
    ASSUME PoolsAgree, PoolsAgree', UNCHANGED pool,
           \/ /\ answer' = <<"imported">>
              /\ \E n \in DOMAIN pool : imported_files' = Append(imported_files, n)
           \/ answer' = <<"import error">> /\ UNCHANGED imported_files
    PROVE  Registry!Import
  <1>1. Known' = Known
    BY SameTable
  <1>2. ListedTypes' \subseteq DOMAIN Known
    <2>1. Imported' \subseteq DOMAIN pool
      BY SeqElements DEF PoolsAgree, Imported
    <2>2. ListedTypes' \subseteq ImportedTypes
      BY <2>1 DEF ListedTypes, ImportedTypes, Types
    <2> QED
      BY <2>2 DEF Known
  <1>3. ListedTypes \subseteq ListedTypes'
    <2>1. CASE UNCHANGED imported_files
      BY <2>1, SameList
    <2>2. CASE \E n \in DOMAIN pool : imported_files' = Append(imported_files, n)
      <3>1. PICK n \in DOMAIN pool : imported_files' = Append(imported_files, n)
        BY <2>2
      <3>2. Imported \subseteq Imported'
        BY <3>1, ListGrows DEF PoolsAgree
      <3> QED
        BY <3>2 DEF ListedTypes, Types
    <2> QED
      BY <2>1, <2>2
  <1>4. /\ answer' \in {<<"imported">>, <<"import error">>}
        /\ answer' # <<"imported">> => ListedTypes' = ListedTypes
    BY SameList
  <1> QED
    BY <1>1, <1>2, <1>3, <1>4 DEF Registry!Import, Known, ListedTypes

(* Building a file teaches the registry its types and disturbs no other. *)
LEMMA BuildRefines ==
    ASSUME PoolsAgree, PoolsAgree', BuildProto
    PROVE  Registry!Learn
  <1>1. PICK n \in Unbuilt : pool' = Extended(pool, {n}, read)
    BY DEF BuildProto
  <1>2. DOMAIN pool \subseteq DOMAIN pool' /\ \A m \in DOMAIN pool : pool'[m] = pool[m]
    BY <1>1 DEF Extended
  <1>3. ImportedTypes \subseteq ImportedTypes'
    BY <1>2 DEF ImportedTypes, Types
  <1>4. ASSUME NEW t \in DOMAIN Known
        PROVE  Definition(t)' = Definition(t)
    <2>1. CASE t \in DOMAIN Compiled
      BY <2>1 DEF Definition
    <2>2. CASE t \notin DOMAIN Compiled
      <3>1. PICK m \in DOMAIN pool : t \in Types(pool[m])
        BY <1>4, <2>2 DEF Known, ImportedTypes
      <3>2. m \in DOMAIN pool' /\ t \in Types(pool'[m])
        BY <1>2, <3>1
      <3>3. (CHOOSE k \in DOMAIN pool : t \in Types(pool[k])) = m
        BY <3>1 DEF PoolsAgree, Linked
      <3>4. (CHOOSE k \in DOMAIN pool' : t \in Types(pool'[k])) = m
        BY <3>2 DEF PoolsAgree, Linked, Types
      <3> QED
        BY <1>2, <2>2, <3>1, <3>3, <3>4 DEF Definition, Types
    <2> QED
      BY <2>1, <2>2
  <1>5. \A t \in DOMAIN Known : t \in DOMAIN Known' /\ Known'[t] = Known[t]
    BY <1>3, <1>4 DEF Known
  <1>6. ListedTypes' = ListedTypes
    <2>1. Imported' = Imported
      BY DEF BuildProto, Imported
    <2>2. {Types(pool'[m]) : m \in Imported} = {Types(pool[m]) : m \in Imported}
      BY <1>2, ImportedArePooled
    <2> QED
      BY <2>1, <2>2 DEF ListedTypes, Types
  <1>7. UNCHANGED answer
    BY DEF BuildProto
  <1> QED
    BY <1>5, <1>6, <1>7 DEF Registry!Learn, Registry!Extends, Known, ListedTypes

(* A type that is not compiled in is created as its imported file defines it. *)
LEMMA CreateRefines ==
    ASSUME PoolsAgree, NEW t \in MessageTypes, CreateMessage(t)
    PROVE  Registry!CreateMessage(t)
  <1>1. Known' = Known /\ ListedTypes' = ListedTypes
    BY SameTable, SameList DEF CreateMessage
  <1>2. answer' = IF t \in DOMAIN Known THEN <<"created", Known[t]>> ELSE <<"unknown">>
    <2>1. CASE t \in DOMAIN Compiled
      BY <2>1 DEF CreateMessage, Known, Definition
    <2>2. CASE t \notin DOMAIN Compiled
      <3> DEFINE home == Defining(desc_pool, t)
                 ns == IF home # {} THEN {} ELSE Defining(pool, t)
                 found == home \cup ns
      <3>1. /\ desc_pool' = Copied(ns)
            /\ answer' = IF found = {} THEN <<"unknown">>
                         ELSE <<"created", desc_pool'[CHOOSE n \in found : TRUE].types[t]>>
        BY <2>2 DEF CreateMessage, FindMessageType
      <3>2. home \subseteq DOMAIN desc_pool /\ ns \subseteq DOMAIN pool
        BY DEF Defining
      <3>3. /\ found \subseteq DOMAIN desc_pool'
            /\ \A n \in DOMAIN desc_pool' : n \in DOMAIN pool /\ desc_pool'[n] = pool[n]
        BY <3>1, <3>2, CopyAgrees
      <3>4. \A n \in found : n \in DOMAIN pool /\ t \in Types(pool[n])
        BY DEF Defining, PoolsAgree
      <3>5. found = {} => t \notin ImportedTypes
        BY DEF Defining, ImportedTypes
      <3>6. CASE found = {}
        BY <3>1, <3>5, <3>6, <2>2 DEF Known
      <3>7. CASE found # {}
        <4>1. PICK n \in found : n = CHOOSE m \in found : TRUE
          BY <3>7
        <4>2. t \in ImportedTypes
          BY <4>1, <3>4 DEF ImportedTypes
        <4>3. Known[t] = pool[n].types[t]
          BY <4>1, <4>2, <2>2, <3>4, OneDefinition DEF Known, Definition, PoolsAgree
        <4>4. desc_pool'[n] = pool[n]
          BY <4>1, <3>3
        <4> HIDE DEF found
        <4>5. answer' = <<"created", desc_pool'[n].types[t]>>
          BY <3>1, <3>7, <4>1
        <4> QED
          BY <4>2, <4>3, <4>4, <4>5 DEF Known
      <3> QED
        BY <3>6, <3>7
    <2> QED
      BY <2>1, <2>2
  <1> QED
    BY <1>1, <1>2 DEF Registry!CreateMessage, Known, ListedTypes

(* Every imported file is found again, so that all its types are listed. *)
LEMMA ListRefines ==
    ASSUME PoolsAgree, ListImportedMessageTypes
    PROVE  Registry!ListImportedMessageTypes
  <1>1. Known' = Known /\ ListedTypes' = ListedTypes
    BY SameTable, SameList DEF ListImportedMessageTypes
  <1>2. desc_pool' = Copied(Imported)
    BY DEF ListImportedMessageTypes
  <1>3. /\ Imported \subseteq DOMAIN desc_pool'
        /\ \A n \in Imported : desc_pool'[n] = pool[n]
    BY <1>2, ImportedArePooled, CopyAgrees
  <1>4. answer' = <<"types", ListedTypes>>
    <2>1. {Types(desc_pool'[n]) : n \in Imported \cap DOMAIN desc_pool'}
              = {Types(pool[n]) : n \in Imported}
      BY <1>3
    <2> QED
      BY <2>1 DEF ListImportedMessageTypes, ListedTypes
  <1> QED
    BY <1>1, <1>4 DEF Registry!ListImportedMessageTypes, Known, ListedTypes

LEMMA StepRefines ==
    PoolsAgree /\ PoolsAgree' /\ [Next]_vars => [Registry!Next]_(Registry!vars)
  <1> SUFFICES ASSUME PoolsAgree, PoolsAgree', [Next]_vars
               PROVE  Registry!Next \/ UNCHANGED Registry!vars
    OBVIOUS
  <1>1. ASSUME UNCHANGED <<pool, imported_files, answer>>
        PROVE  UNCHANGED Registry!vars
    BY <1>1, SameTable, SameList DEF Registry!vars, Known, ListedTypes
  <1>2. ASSUME NEW d \in Dirs, AddProtoImportPath(d) \/ \E n \in Names : EditFile(d, n)
        PROVE  UNCHANGED Registry!vars
    BY <1>1, <1>2 DEF AddProtoImportPath, EditFile
  <1>3. ASSUME NEW n \in Names, ImportProtoFile(n)
        PROVE  Registry!Import \/ UNCHANGED Registry!vars
    BY <1>1, <1>3, ImportRefines DEF ImportProtoFile
  <1>4. CASE ReadProto
    BY <1>1, <1>4 DEF ReadProto
  <1>5. CASE BuildProto
    BY <1>5, BuildRefines DEF Registry!Next
  <1>6. CASE ImportReturns
    BY <1>6, ImportRefines DEF ImportReturns, Registry!Next
  <1>7. ASSUME NEW t \in MessageTypes, CreateMessage(t)
        PROVE  Registry!Next
    BY <1>7, CreateRefines DEF Registry!Next
  <1>8. CASE ListImportedMessageTypes
    BY <1>8, ListRefines DEF Registry!Next
  <1>9. CASE UNCHANGED vars
    BY <1>1, <1>9 DEF vars
  <1> QED
    BY <1>2, <1>3, <1>4, <1>5, <1>6, <1>7, <1>8, <1>9 DEF Next, Import, Registry!Next

(* To its callers MessageFactory is a table of types that only grows, and a
   list of which every entry can be created. *)
THEOREM FactoryIsRegistry == Spec => ImplementsRegistry
  BY InitRefines, StepRefines, PoolsAlwaysAgree, PTL
     DEF Spec, ImplementsRegistry, Registry!Spec
=============================================================================
