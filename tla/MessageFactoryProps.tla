-------------------------- MODULE MessageFactoryProps --------------------------
(***************************************************************************)
(* What MessageFactory guarantees, and what it does not.                   *)
(***************************************************************************)
EXTENDS MessageFactory

(* Files in a pool have all they import in it, and no two define one type. *)
Linked(p) ==
    /\ \A n \in DOMAIN p : p[n].deps \subseteq DOMAIN p
    /\ \A m, n \in DOMAIN p : m # n => Types(p[m]) \cap Types(p[n]) = {}

(* Both pools are linked, and the second holds nothing the first does not
   say: looking a type up can neither fail to build what the import built,
   nor bring in what is on disk by then.  Imported files are in the pool. *)
PoolsAgree ==
    /\ Linked(pool) /\ Linked(desc_pool)
    /\ \A n \in DOMAIN desc_pool : n \in DOMAIN pool /\ desc_pool[n] = pool[n]
    /\ imported_files \in Seq(DOMAIN pool)

(* The definition that a message of type t is created with. *)
ImportedTypes == UNION {Types(pool[n]) : n \in DOMAIN pool}
Definition(t) ==
    IF t \in DOMAIN Compiled THEN Compiled[t]
    ELSE pool[CHOOSE n \in DOMAIN pool : t \in Types(pool[n])].types[t]

(* The factory implements a growing table of types: while files change under
   the import paths, imports fail half way and pools fill on demand, no type
   ever changes its definition or is lost, and what is listed can be created. *)
Registry == INSTANCE TypeRegistry WITH
    known <- [t \in DOMAIN Compiled \cup ImportedTypes |-> Definition(t)],
    listed <- UNION {Types(pool[n]) : n \in Imported}
ImplementsRegistry == Registry!Spec

(* Every import ends, also when files import each other in a circle, refer
   to what is not there, or change while they are read. *)
EveryImportReturns == ~Idle ~> Idle

(* docs/reference.md on importing a file: "Success allows the message types
   defined in the file to be parsed and serialized by the interface."  The
   import meant here is that of a file that is in the pool: it returns at
   once, so that nobody edits while it reads. *)
SuccessBringsTypes ==
    [][\A n \in Names : /\ Idle /\ ImportProtoFile(n) /\ answer' = <<"imported">>
                        /\ n \in DOMAIN pool /\ Found(n) \in Protos
            => Types(Found(n)) \subseteq DOMAIN Compiled \cup ImportedTypes]_vars
=============================================================================
