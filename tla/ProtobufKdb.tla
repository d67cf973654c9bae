----------------------------- MODULE ProtobufKdb -----------------------------
(***************************************************************************)
(* The entry points of the library (src/ProtobufKdb.cpp) in one q process: *)
(* MessageFactory and MessageParser composed.                              *)
(*                                                                         *)
(* Every call that takes a message type looks it up in the factory first;  *)
(* the parser then works with the definition found.  An operation runs to  *)
(* its end before q makes the next call, but .proto files change at any    *)
(* time, and the process can be killed and started again at any time: the  *)
(* file system outlives it, what it imported does not.                     *)
(***************************************************************************)
EXTENDS MessageFactory, Integers

CONSTANTS
    Self,           \* the q process
    Files,          \* files messages are saved to
    KObj, CharArrays, MaxLen, IntRange, StreamBuf, Hole, Failed,  \* as in MessageParser
    Unknown,        \* the definition of a type that has none
    KToMessage(_, _, _), MessageToK(_, _, _), Serialize(_, _), Parse(_, _)

VARIABLES
    files, pc, job, buf, pos, result, last, dirty,  \* as in MessageParser
    reply,          \* last answer that came from the entry point itself
    told,           \* (history) definitions each type was used with, since q started
    called,         \* (history) message type of the operation that is running
    wrote           \* (history) what each file was last saved as, since q started

parserVars == <<files, pc, job, buf, pos, result, last, dirty>>
history == <<told, called, wrote>>
processVars == <<vars, parserVars, reply, history>>

(* In this module a message type of the parser is a definition of the factory. *)
Definitions ==
    {Compiled[t] : t \in DOMAIN Compiled}
        \cup UNION {{c.types[t] : t \in DOMAIN c.types} : c \in Protos}

Parser == INSTANCE MessageParser WITH
    Procs <- {Self}, Modes <- BOOLEAN,
    MessageTypes <- Definitions \cup {Unknown}, KnownTypes <- Definitions

(* What the parser assumes. *)
ASSUME ConversionAssumption ==
    \A x \in Parser!Accepted : Parser!Output(x) \in
        Seq({Parser!Output(x)[i] : i \in DOMAIN Parser!Output(x)})
ASSUME BoundAssumption ==
    /\ MaxLen \in Nat /\ StreamBuf \in Nat /\ IntRange \in Nat /\ 2 * MaxLen < IntRange
    /\ \A b \in CharArrays : 2 * (Len(b) % IntRange) < IntRange
ASSUME NameAssumption ==
    /\ NoFile \notin Seq(Parser!Byte) /\ None # "debug"
    /\ None \notin MessageTypes /\ Unknown \notin Definitions

Ready == Idle /\ pc[Self] = "idle"

----------------------------------------------------------------------------
(* Arguments: [t, v], where t is the kind of kdb+ object.                  *)

IsKdbString(a) == a.t \in {"symbol", "bytes", "chars"}
GetKdbString(a) == a.v

(* The order in which every entry point checks those that it has. *)
Parameters == <<"message_type", "import_path", "filename", "char_array", "use_field_names">>
Checked(param, a) ==
    CASE param \in {"message_type", "import_path", "filename"} -> IsKdbString(a)
      [] param = "char_array" -> a.t \in {"bytes", "chars"}
      [] param = "use_field_names" -> a.t = "boolean"
Wrong(args) ==
    SelectSeq(Parameters, LAMBDA p : p \in DOMAIN args /\ ~Checked(p, args[p]))

(* krr with the first argument that has the wrong type. *)
Refused(args) ==
    /\ Ready /\ Wrong(args) # <<>>
    /\ reply' = <<"wrong type", Wrong(args)[1]>>
    /\ UNCHANGED <<vars, parserVars, history>>

(* The definition that CreateMessage answered with. *)
Created == IF answer'[1] = "created" THEN answer'[2] ELSE Unknown

(* Arguments that pass, and a type that is looked up. *)
Accepted(args) ==
    LET t == GetKdbString(args.message_type) IN
    /\ Ready /\ Wrong(args) = <<>>
    /\ CreateMessage(t)
    /\ told' = [told EXCEPT ![t] = @ \cup ({Created} \ {Unknown})]

(* History: the operation goes on, or has returned. *)
Began(t) == called' = IF pc'[Self] = "idle" THEN None ELSE t

----------------------------------------------------------------------------
(* The entry points.  Those with Arena in their name differ in where the   *)
(* message is allocated.                                                   *)

serializeArray(ty, k, nm) ==
    LET args == [message_type |-> ty, use_field_names |-> nm] IN
    \/ Refused(args)
    \/ /\ Accepted(args) /\ UNCHANGED <<reply, called, wrote>>
       /\ Parser!SerializeArray(Self, Created, k, nm.v)

parseArray(ty, b, nm) ==
    LET args == [message_type |-> ty, char_array |-> b, use_field_names |-> nm] IN
    \/ Refused(args)
    \/ /\ Accepted(args) /\ UNCHANGED <<reply, called, wrote>>
       /\ Parser!ParseArray(Self, Created, b.v, nm.v)

parseArrayDebug(ty, b) ==
    LET args == [message_type |-> ty, char_array |-> b] IN
    \/ Refused(args)
    \/ /\ Accepted(args) /\ UNCHANGED <<reply, called, wrote>>
       /\ Parser!ParseArrayDebug(Self, Created, b.v)

(* Mutant: the file is opened before the type is looked up. *)
saveMessageOpening(ty, f, k, nm) ==
    LET args == [message_type |-> ty, filename |-> f, use_field_names |-> nm] IN
    \/ Refused(args)
    \/ /\ Accepted(args) /\ UNCHANGED <<reply, wrote>>
       /\ IF Created # Unknown THEN Parser!SaveMessage(Self, Created, f.v, k, nm.v)
          ELSE /\ files' = [files EXCEPT ![f.v] = <<>>]
               /\ UNCHANGED <<pc, job, buf, pos, result, last, dirty>>
       /\ Began(ty.v)

saveMessage(ty, f, k, nm) ==
    LET args == [message_type |-> ty, filename |-> f, use_field_names |-> nm] IN
    \/ Refused(args)
    \/ /\ Accepted(args)
       /\ Parser!SaveMessage(Self, Created, GetKdbString(f), k, nm.v)
       /\ Began(ty.v) /\ UNCHANGED reply
       /\ wrote' = IF pc'[Self] = "idle" THEN wrote
                   ELSE [wrote EXCEPT ![f.v] = [name |-> ty.v, type |-> Created]]

loadMessage(ty, f, nm) ==
    LET args == [message_type |-> ty, filename |-> f, use_field_names |-> nm] IN
    \/ Refused(args)
    \/ /\ Accepted(args) /\ UNCHANGED <<reply, wrote>>
       /\ Parser!LoadMessage(Self, Created, GetKdbString(f), None, nm.v)
       /\ Began(ty.v)

loadMessageDebug(ty, f) ==
    LET args == [message_type |-> ty, filename |-> f] IN
    \/ Refused(args)
    \/ /\ Accepted(args) /\ UNCHANGED <<reply, wrote>>
       /\ Parser!LoadMessage(Self, Created, GetKdbString(f), "debug", FALSE)
       /\ Began(ty.v)

(* What a query says of a message type. *)
Query(ty, kind) ==
    LET args == [message_type |-> ty] IN
    \/ Refused(args)
    \/ /\ Accepted(args)
       /\ reply' = IF Created = Unknown THEN <<"Unknown message type">>
                                        ELSE <<kind, Created>>
       /\ UNCHANGED <<parserVars, called, wrote>>

getMessageSchema(ty) == Query(ty, "schema")
getMessageFields(ty) == Query(ty, "fields")

addProtoImportPath(d) ==
    \/ Refused([import_path |-> d])
    \/ /\ Ready /\ Wrong([import_path |-> d]) = <<>>
       /\ AddProtoImportPath(GetKdbString(d))
       /\ UNCHANGED <<parserVars, reply, history>>

importProtoFile(n) ==
    \/ Refused([filename |-> n])
    \/ /\ Ready /\ Wrong([filename |-> n]) = <<>>
       /\ ImportProtoFile(GetKdbString(n))
       /\ UNCHANGED <<parserVars, reply, history>>

listImportedMessageTypes ==
    /\ Ready /\ ListImportedMessageTypes
    /\ UNCHANGED <<parserVars, reply, history>>

----------------------------------------------------------------------------
(* What goes on inside a call, and around the process.                     *)

ParserStep ==
    /\ Parser!Step(Self) \/ Parser!LoadStreamFails(Self)
    /\ Began(called)
    /\ UNCHANGED <<vars, reply, told, wrote>>

ImportStep == Import /\ UNCHANGED <<parserVars, reply, history>>

Edited ==
    /\ \E d \in Dirs, n \in Names : EditFile(d, n)
    /\ UNCHANGED <<parserVars, reply, history>>

(* The process ends, whatever it is doing, and q is started again (external). *)
Restart ==
    /\ source_tree' = <<>> /\ importing' = None /\ imported_files' = <<>>
    /\ read' = EmptyPool /\ pool' = EmptyPool /\ desc_pool' = EmptyPool
    /\ answer' = <<"none">>
    /\ IF pc[Self] = "idle" THEN UNCHANGED parserVars ELSE Parser!Crash(Self)
    /\ reply' = <<"none">>
    /\ told' = [t \in MessageTypes |-> {}]
    /\ wrote' = [f \in Files |-> None]
    /\ called' = None
    /\ UNCHANGED disk

----------------------------------------------------------------------------
ProcessInit ==
    /\ Init /\ Parser!Init /\ reply = <<"none">>
    /\ told = [t \in MessageTypes |-> {}]
    /\ wrote = [f \in Files |-> None]
    /\ called = None

(* Objects of the right kind, and of another. *)
Strings(S) == [t : {"symbol", "long"}, v : S]
Arrays == [t : {"bytes", "symbol"}, v : CharArrays]

(* The functions of q/init.q that end in List pass 0b, those in Dict 1b. *)
UseFieldNames == [t : {"boolean"}, v : BOOLEAN]
Flags == UseFieldNames \cup {[t |-> "long", v |-> FALSE]}

Call ==
    \/ \E ty \in Strings(MessageTypes) :
          \/ \E nm \in Flags :
                \/ \E k \in KObj :
                      \/ serializeArray(ty, k, nm)
                      \/ \E f \in Strings(Files) : saveMessage(ty, f, k, nm)
                \/ \E b \in Arrays : parseArray(ty, b, nm)
                \/ \E f \in Strings(Files) : loadMessage(ty, f, nm)
          \/ \E b \in Arrays : parseArrayDebug(ty, b)
          \/ \E f \in Strings(Files) : loadMessageDebug(ty, f)
          \/ getMessageSchema(ty) \/ getMessageFields(ty)
    \/ \E d \in Strings(Dirs) : addProtoImportPath(d)
    \/ \E n \in Strings(Names) : importProtoFile(n)
    \/ listImportedMessageTypes

ProcessNext == Call \/ ParserStep \/ ImportStep \/ Edited \/ Restart

ProcessSpec == ProcessInit /\ [][ProcessNext]_processVars
=============================================================================
