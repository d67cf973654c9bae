--------------------------- MODULE ProtobufKdbProps ---------------------------
(***************************************************************************)
(* What a q program that calls the library may rely on.                    *)
(***************************************************************************)
EXTENDS ProtobufKdb, MessageFactoryProps

(* As long as q runs, a message type means one thing to every entry point:
   the definition that a call used a type with, whether to query, serialize,
   parse, save or load, is the one that every later call uses it with, and
   the type is never lost again.  Files that are edited, and imports that
   follow or fail, do not change that. *)
SameDefinition ==
    \A t \in MessageTypes : told[t] # {} =>
        t \in DOMAIN Compiled \cup ImportedTypes /\ told[t] = {Definition(t)}

(* A save or a load in progress still works with the definition of the type
   it was called with, and a file was last saved with the definition that
   its type still has. *)
CallHasDefinition ==
    called # None =>
        called \in MessageTypes /\ pc[Self] # "idle" /\ told[called] = {job[Self].type}
WroteDefinition ==
    \A f \in Files : wrote[f] # None =>
        wrote[f].name \in MessageTypes /\ told[wrote[f].name] = {wrote[f].type}
ProcessType ==
    /\ told \in [MessageTypes -> SUBSET Definitions]
    /\ wrote = [f \in Files |-> wrote[f]]
    /\ pc = [p \in {Self} |-> pc[p]] /\ job = [p \in {Self} |-> job[p]]
    /\ \A n \in DOMAIN pool : pool[n] \in Protos
ProcessInv == /\ ProcessType /\ PoolsAgree /\ SameDefinition
              /\ CallHasDefinition /\ WroteDefinition

(* Whatever else the process does, its files see the operations of
   MessageParser and nothing else: calls that are refused, queries, imports
   and restarts leave them alone, and a call under an unknown type never
   gets as far as opening one. *)
ImplementsParser == Parser!Spec

(* A file that was saved under a message type loads under that type as what
   was saved: with the definition of the save, and if the save was completed,
   nobody wrote to the file since, and no read failed, as parsing the serialized message
   gives it.  Imports, path changes and edits in between make no difference,
   unless q was restarted. *)
LoadsWhatWasSaved ==
    [][LET j == job[Self]
           f == j.file IN
       /\ pc[Self] = "load_reading" /\ ParserStep /\ pc'[Self] = "idle"
       /\ wrote[f] # None /\ called = wrote[f].name
       => /\ j.type = wrote[f].type
          /\ (~dirty'[Self] /\ last[f].done = "saved" /\ ~last[f].contended /\ j.obj = None)
                => result'[Self] = Parser!Parsed(wrote[f].type, last[f].bytes, j.names)]_processVars
=============================================================================
