---------------------------- MODULE MessageFactory ----------------------------
(***************************************************************************)
(* MessageFactory (src/MessageFactory.cpp): message types that were        *)
(* compiled in, and those imported from .proto files while q runs.         *)
(*                                                                         *)
(* An import reads a file and the files it imports one by one, from a disk *)
(* that others edit.  What has been built stays in the importer's pool.    *)
(* Types are looked up in a second pool, filled from the first on demand.  *)
(***************************************************************************)
EXTENDS Naturals, Sequences

CONSTANTS
    Dirs,           \* directories that may be import paths
    Names,          \* names of .proto files
    MessageTypes,   \* names of top-level message types
    Protos,         \* what a file that parses may say: [deps, types, uses]
    Compiled,       \* [message types compiled in -> their definitions]
    NoFile,         \* no file of that name
    Unparsable,     \* a file that does not parse
    None,           \* no import is running
    MaxPaths, MaxImports    \* bounds on the paths and imports of one run

ASSUME ProtoAssumption ==
    /\ \A c \in Protos : c.deps \subseteq Names /\ c.uses \subseteq MessageTypes
                         /\ DOMAIN c.types \subseteq MessageTypes
    /\ NoFile \notin Protos /\ Unparsable \notin Protos /\ None \notin Names
    /\ Compiled = [t \in DOMAIN Compiled |-> Compiled[t]]
    /\ MaxPaths \in Nat /\ MaxImports \in Nat

VARIABLES
    disk,           \* [Dirs -> [Names -> content]]
    source_tree,    \* import paths, in the order they are searched
    importing,      \* file whose import is running, or None
    read,           \* files this import has read, with their contents
    pool,           \* the importer's pool: files built, with their contents
    desc_pool,      \* files copied to the pool types are looked up in
    imported_files, \* files whose import succeeded
    answer          \* result of the last call that returned

vars == <<disk, source_tree, importing, read, pool, desc_pool, imported_files,
          answer>>

EmptyPool == [n \in {} |-> Unparsable]
Idle == importing = None
Types(c) == DOMAIN c.types

(* f and, for the files ns it lacks, what g says. *)
Extended(f, ns, g) == [n \in DOMAIN f \cup ns |-> IF n \in DOMAIN f THEN f[n] ELSE g[n]]

Init ==
    /\ disk = [d \in Dirs |-> [n \in Names |-> NoFile]]
    /\ source_tree = <<>> /\ importing = None /\ imported_files = <<>>
    /\ read = EmptyPool /\ pool = EmptyPool /\ desc_pool = EmptyPool
    /\ answer = <<"none">>

(* Somebody edits, adds or deletes a file, whatever q does. *)
EditFile(d, n) ==
    /\ \E c \in {NoFile, Unparsable} \cup Protos :
          disk' = [disk EXCEPT ![d][n] = c]
    /\ UNCHANGED <<source_tree, importing, read, pool, desc_pool,
                   imported_files, answer>>

AddProtoImportPath(d) ==
    /\ Idle /\ Len(source_tree) < MaxPaths
    /\ source_tree' = Append(source_tree, d)
    /\ UNCHANGED <<disk, importing, read, pool, desc_pool, imported_files, answer>>

----------------------------------------------------------------------------
(* Importing. *)

(* The first path that has such a file decides, even if it does not parse. *)
Found(n) ==
    LET at == {i \in DOMAIN source_tree : disk[source_tree[i]][n] # NoFile} IN
    IF at = {} THEN NoFile
    ELSE disk[source_tree[CHOOSE i \in at : \A j \in at : i <= j]][n]

(* Files to have before importing can be built: it, and what those read import. *)
Wanted == {importing} \cup UNION {read[m].deps : m \in {m \in DOMAIN read : read[m] \in Protos}}

(* A file is built when all it imports has been, it defines no type anew,
   and it uses only types it defines or imports. *)
Builds(c) ==
    /\ c \in Protos
    /\ c.deps \subseteq DOMAIN pool
    /\ \A n \in DOMAIN pool : Types(pool[n]) \cap Types(c) = {}
    /\ c.uses \subseteq Types(c) \cup UNION {Types(pool[n]) : n \in c.deps}

Unbuilt == {n \in DOMAIN read \ DOMAIN pool : Builds(read[n])}
(* Mutant: a file that cannot be built is read again. *)
UnreadAgain == Wanted \ DOMAIN pool

Unread == Wanted \ (DOMAIN pool \cup DOMAIN read)

(* Mutant: every import starts with an empty pool. *)
ImportProtoFileAnew(n) ==
    /\ Idle /\ Len(imported_files) < MaxImports
    /\ importing' = n /\ pool' = EmptyPool /\ desc_pool' = EmptyPool
    /\ UNCHANGED <<disk, source_tree, read, imported_files, answer>>

(* A file that is in the pool is not looked for on disk again. *)
ImportProtoFile(n) ==
    /\ Idle /\ Len(imported_files) < MaxImports
    /\ IF n \in DOMAIN pool
       THEN /\ imported_files' = Append(imported_files, n) /\ answer' = <<"imported">>
            /\ UNCHANGED importing
       ELSE importing' = n /\ UNCHANGED <<imported_files, answer>>
    /\ UNCHANGED <<disk, source_tree, read, pool, desc_pool>>

ReadProto ==
    /\ ~Idle
    /\ \E n \in Unread : read' = Extended(read, {n}, [m \in {n} |-> Found(m)])
    /\ UNCHANGED <<disk, source_tree, importing, pool, desc_pool,
                   imported_files, answer>>

BuildProto ==
    /\ ~Idle
    /\ \E n \in Unbuilt : pool' = Extended(pool, {n}, read)
    /\ UNCHANGED <<disk, source_tree, importing, read, desc_pool,
                   imported_files, answer>>

(* Mutant: the file is listed before the outcome of its import is known. *)
ImportReturnsListed ==
    /\ ~Idle /\ Unread = {} /\ Unbuilt = {}
    /\ imported_files' = Append(imported_files, importing)
    /\ answer' = <<IF importing \in DOMAIN pool THEN "imported" ELSE "import error">>
    /\ importing' = None /\ read' = EmptyPool
    /\ UNCHANGED <<disk, source_tree, pool, desc_pool>>

ImportReturns ==
    /\ ~Idle /\ Unread = {} /\ Unbuilt = {}
    /\ IF importing \in DOMAIN pool
       THEN imported_files' = Append(imported_files, importing) /\ answer' = <<"imported">>
       ELSE answer' = <<"import error">> /\ UNCHANGED imported_files
    /\ importing' = None /\ read' = EmptyPool
    /\ UNCHANGED <<disk, source_tree, pool, desc_pool>>

----------------------------------------------------------------------------
(* Looking types up. *)

(* n and all it imports, directly or not. *)
WithImports(n) ==
    {m \in DOMAIN pool : \A S \in SUBSET DOMAIN pool :
        n \in S /\ (\A k \in S : pool[k].deps \subseteq S) => m \in S}

(* What desc_pool becomes when the files ns are looked up in it. *)
Copied(ns) == Extended(desc_pool, UNION {WithImports(n) : n \in ns}, pool)

Defining(p, t) == {n \in DOMAIN p : t \in Types(p[n])}

(* From desc_pool if it is there, else from the file that defines it in the
   importer's pool, which is copied with all it imports. *)
FindMessageType(t) ==
    LET home == Defining(desc_pool, t)
        ns == IF home # {} THEN {} ELSE Defining(pool, t) IN
    /\ desc_pool' = Copied(ns)
    /\ answer' = IF home \cup ns = {} THEN <<"unknown">>
                 ELSE <<"created", desc_pool'[CHOOSE n \in home \cup ns : TRUE].types[t]>>

(* Mutant: imported types come before compiled in ones. *)
CreateMessageImported(t) ==
    /\ Idle
    /\ IF t \in DOMAIN Compiled /\ Defining(pool, t) = {}
       THEN answer' = <<"created", Compiled[t]>> /\ UNCHANGED desc_pool
       ELSE FindMessageType(t)
    /\ UNCHANGED <<disk, source_tree, importing, read, pool, imported_files>>

CreateMessage(t) ==
    /\ Idle
    /\ IF t \in DOMAIN Compiled
       THEN answer' = <<"created", Compiled[t]>> /\ UNCHANGED desc_pool
       ELSE FindMessageType(t)
    /\ UNCHANGED <<disk, source_tree, importing, read, pool, imported_files>>

Imported == {imported_files[i] : i \in DOMAIN imported_files}

ListImportedMessageTypes ==
    /\ Idle
    /\ desc_pool' = Copied(Imported)
    /\ answer' = <<"types", UNION {Types(desc_pool'[n]) : n \in Imported \cap DOMAIN desc_pool'}>>
    /\ UNCHANGED <<disk, source_tree, importing, read, pool, imported_files>>

----------------------------------------------------------------------------
Import == ReadProto \/ BuildProto \/ ImportReturns

Next ==
    \/ \E d \in Dirs : AddProtoImportPath(d) \/ \E n \in Names : EditFile(d, n)
    \/ \E n \in Names : ImportProtoFile(n)
    \/ Import
    \/ \E t \in MessageTypes : CreateMessage(t)
    \/ ListImportedMessageTypes

Spec == Init /\ [][Next]_vars
FairSpec == Spec /\ WF_vars(Import)
=============================================================================
