--------------------------- MODULE ProtobufKdbProofs ---------------------------
(***************************************************************************)
(* For every set of files, definitions, message types and objects: as long *)
(* as q runs a message type has one definition, and what is saved under it *)
(* is loaded with it.                                                      *)
(***************************************************************************)
EXTENDS ProtobufKdbProps, MessageFactoryProofs

ParserProofs == INSTANCE MessageParserProofs WITH
    Procs <- {Self}, Modes <- BOOLEAN,
    MessageTypes <- Definitions \cup {Unknown}, KnownTypes <- Definitions

----------------------------------------------------------------------------
(* The steps of the process, by what they do to the parser's state.        *)

(* A message type was looked up. *)
LooksUp(t) ==
    /\ Ready /\ CreateMessage(t) /\ UNCHANGED reply
    /\ told' = [told EXCEPT ![t] = @ \cup ({Created} \ {Unknown})]
ArrayCall(t) ==
    /\ LooksUp(t) /\ UNCHANGED <<called, wrote>>
    /\ \/ \E k \in KObj, nm \in BOOLEAN : Parser!SerializeArray(Self, Created, k, nm)
       \/ \E b \in CharArrays :
             \/ \E nm \in BOOLEAN : Parser!ParseArray(Self, Created, b, nm)
             \/ Parser!ParseArrayDebug(Self, Created, b)
SaveCall(t, f) ==
    /\ LooksUp(t) /\ Began(t)
    /\ \E k \in KObj, nm \in BOOLEAN : Parser!SaveMessage(Self, Created, f, k, nm)
    /\ wrote' = IF pc'[Self] = "idle" THEN wrote
                ELSE [wrote EXCEPT ![f] = [name |-> t, type |-> Created]]
LoadCall(t, f) ==
    /\ LooksUp(t) /\ Began(t) /\ UNCHANGED wrote
    /\ \/ \E nm \in BOOLEAN : Parser!LoadMessage(Self, Created, f, None, nm)
       \/ Parser!LoadMessage(Self, Created, f, "debug", FALSE)
QueryCall(t) ==
    /\ Ready /\ CreateMessage(t) /\ UNCHANGED <<parserVars, called, wrote>>
    /\ told' = [told EXCEPT ![t] = @ \cup ({Created} \ {Unknown})]
FactoryCall ==
    /\ \/ \E d \in Dirs : AddProtoImportPath(d) \/ \E n \in Names : EditFile(d, n)
       \/ \E n \in Names : ImportProtoFile(n)
       \/ ListImportedMessageTypes \/ Import
    /\ UNCHANGED <<parserVars, history>>
RefusedCall == UNCHANGED <<vars, parserVars, history>>

LEMMA ProcessCases ==
    ProcessNext =>
        \/ RefusedCall \/ FactoryCall \/ ParserStep \/ Restart
        \/ \E t \in MessageTypes :
              \/ ArrayCall(t) \/ QueryCall(t)
              \/ \E f \in Files : SaveCall(t, f) \/ LoadCall(t, f)
  <1> DEFINE Lookup(t) == \/ ArrayCall(t) \/ QueryCall(t)
                          \/ \E f \in Files : SaveCall(t, f) \/ LoadCall(t, f)
             Goal == \/ RefusedCall \/ FactoryCall \/ ParserStep \/ Restart
                     \/ \E t \in MessageTypes : Lookup(t)
  <1> SUFFICES ASSUME ProcessNext PROVE Goal
    OBVIOUS
  <1>1. ASSUME NEW args, Refused(args) PROVE RefusedCall
    BY <1>1 DEF Refused, RefusedCall
  <1>2. \A S : \A s \in Strings(S) : s.v \in S
    BY DEF Strings
  <1>3. (\A nm \in Flags : nm.v \in BOOLEAN) /\ \A b \in Arrays : b.v \in CharArrays
    <2>1. ASSUME NEW nm \in UseFieldNames PROVE nm.v \in BOOLEAN
      BY <2>1, Zenon DEF UseFieldNames
    <2>2. ASSUME NEW nm, nm = [t |-> "long", v |-> FALSE] PROVE nm.v = FALSE
      BY <2>2
    <2>3. \A b \in Arrays : b.v \in CharArrays
      BY DEF Arrays
    <2> QED
      BY <2>1, <2>2, <2>3, Zenon DEF Flags
  <1>4. ASSUME NEW ty \in Strings(MessageTypes), NEW nm \in Flags, NEW k \in KObj,
               serializeArray(ty, k, nm)
        PROVE  RefusedCall \/ Lookup(ty.v)
    BY <1>1, <1>3, <1>4 DEF serializeArray, Accepted, GetKdbString, ArrayCall, LooksUp
  <1>5. ASSUME NEW ty \in Strings(MessageTypes), NEW nm \in Flags, NEW k \in KObj,
               NEW f \in Strings(Files), saveMessage(ty, f, k, nm)
        PROVE  RefusedCall \/ Lookup(ty.v)
    BY <1>1, <1>2, <1>3, <1>5 DEF saveMessage, Accepted, GetKdbString, SaveCall, LooksUp
  <1>6. ASSUME NEW ty \in Strings(MessageTypes), NEW b \in Arrays,
               parseArrayDebug(ty, b) \/ \E nm \in Flags : parseArray(ty, b, nm)
        PROVE  RefusedCall \/ Lookup(ty.v)
    BY <1>1, <1>3, <1>6
       DEF parseArray, parseArrayDebug, Accepted, GetKdbString, ArrayCall, LooksUp
  <1>7. ASSUME NEW ty \in Strings(MessageTypes), NEW f \in Strings(Files),
               loadMessageDebug(ty, f) \/ \E nm \in Flags : loadMessage(ty, f, nm)
        PROVE  RefusedCall \/ Lookup(ty.v)
    BY <1>1, <1>2, <1>3, <1>7
       DEF loadMessage, loadMessageDebug, Accepted, GetKdbString, LoadCall, LooksUp
  <1>8. ASSUME NEW ty \in Strings(MessageTypes), getMessageSchema(ty) \/ getMessageFields(ty)
        PROVE  RefusedCall \/ Lookup(ty.v)
    BY <1>1, <1>8
       DEF getMessageSchema, getMessageFields, Query, Accepted, GetKdbString, QueryCall
  <1>9. ASSUME \/ \E d \in Strings(Dirs) : addProtoImportPath(d)
               \/ \E n \in Strings(Names) : importProtoFile(n)
               \/ listImportedMessageTypes \/ ImportStep \/ Edited
        PROVE  RefusedCall \/ FactoryCall
    BY <1>1, <1>2, <1>9
       DEF addProtoImportPath, importProtoFile, listImportedMessageTypes, ImportStep,
           Edited, GetKdbString, FactoryCall
  <1>10. CASE Call
    <2> HIDE DEF Lookup
    <2>1. \A ty \in Strings(MessageTypes) : ty.v \in MessageTypes
      BY <1>2
    <2> QED
      BY <1>4, <1>5, <1>6, <1>7, <1>8, <1>9, <1>10, <2>1 DEF Call
  <1> QED
    BY <1>9, <1>10 DEF ProcessNext

(* What a step does to the factory, unless q is started again. *)
LEMMA FactorySees == ProcessNext => [Next]_vars \/ Restart
  <1> SUFFICES ASSUME ProcessNext, ~Restart
               PROVE  [Next]_vars
    OBVIOUS
  <1>1. ASSUME NEW t \in MessageTypes, NEW f, ArrayCall(t) \/ QueryCall(t) \/ SaveCall(t, f) \/ LoadCall(t, f)
        PROVE  Next
    BY <1>1 DEF ArrayCall, QueryCall, SaveCall, LoadCall, LooksUp, Next
  <1>2. CASE RefusedCall \/ ParserStep
    BY <1>2 DEF RefusedCall, ParserStep
  <1>3. CASE FactoryCall
    BY <1>3 DEF FactoryCall, Next
  <1> QED
    BY <1>1, <1>2, <1>3, ProcessCases
(* A type that is known stays known by its definition. *)
LEMMA KnownKept ==
    ASSUME PoolsAgree, [Next]_vars
    PROVE  /\ PoolsAgree'
           /\ \A t \in DOMAIN Known : t \in DOMAIN Known' /\ Known'[t] = Known[t]
  <1>1. PoolsAgree'
    BY StepAgrees
  <1>2. [Registry!Next]_(Registry!vars)
    BY <1>1, StepRefines
  <1>3. CASE Registry!Learn
    BY <1>1, <1>3 DEF Registry!Learn, Registry!Extends, Known
  <1>4. CASE UNCHANGED Known
    BY <1>1, <1>4
  <1>5. UNCHANGED Known \/ Registry!Learn
    BY <1>2 DEF Registry!Next, Registry!vars, Registry!Import, Registry!CreateMessage,
                Registry!ListImportedMessageTypes, Known
  <1> QED
    BY <1>1, <1>3, <1>4, <1>5

(* What a type that is looked up is created with. *)
LEMMA CreatedIsKnown ==
    ASSUME PoolsAgree, NEW t \in MessageTypes, CreateMessage(t)
    PROVE  Created = IF t \in DOMAIN Known THEN Known[t] ELSE Unknown
  <1>1. answer' = IF t \in DOMAIN Known THEN <<"created", Known[t]>> ELSE <<"unknown">>
    BY CreateRefines DEF Registry!CreateMessage, Known
  <1> QED
    BY <1>1 DEF Created

LEMMA KnownAreDefinitions ==
    ASSUME ProcessType
    PROVE  \A t \in DOMAIN Known : Known[t] \in Definitions
  <1> SUFFICES ASSUME NEW t \in DOMAIN Known
               PROVE  Known[t] \in Definitions
    OBVIOUS
  <1>1. CASE t \in DOMAIN Compiled
    BY <1>1 DEF Known, Definition, Definitions
  <1>2. CASE t \notin DOMAIN Compiled
    <2>1. PICK n \in DOMAIN pool : n = CHOOSE m \in DOMAIN pool : t \in Types(pool[m])
      BY <1>2 DEF Known, ImportedTypes
    <2>2. t \in Types(pool[n])
      BY <1>2, <2>1 DEF Known, ImportedTypes
    <2>3. pool[n] \in Protos
      BY DEF ProcessType
    <2>4. Known[t] = pool[n].types[t]
      BY <1>2, <2>1 DEF Known, Definition
    <2> QED
      BY <2>2, <2>3, <2>4 DEF Definitions, Types
  <1> QED
    BY <1>1, <1>2

----------------------------------------------------------------------------
(* The invariant.                                                          *)

LEMMA ProcessInitInv == ProcessInit => ProcessInv
  <1> SUFFICES ASSUME ProcessInit
               PROVE  ProcessInv
    OBVIOUS
  <1>1. PoolsAgree /\ DOMAIN pool = {}
    BY InitAgrees DEF ProcessInit, Init, EmptyPool
  <1>2. /\ told = [t \in MessageTypes |-> {}] /\ called = None
        /\ wrote = [f \in Files |-> None]
    BY DEF ProcessInit
  <1>3. pc = [p \in {Self} |-> "idle"] /\ job = [p \in {Self} |-> None]
    BY DEF ProcessInit, Parser!Init
  <1>4. ProcessType
    BY <1>1, <1>2, <1>3 DEF ProcessType
  <1> QED
    BY <1>1, <1>2, <1>4 DEF ProcessInv, SameDefinition, CallHasDefinition, WroteDefinition

(* Everything is forgotten when q is started again. *)
LEMMA RestartInv == ProcessType /\ Restart => ProcessInv'
  <1> SUFFICES ASSUME ProcessType, Restart
               PROVE  ProcessInv'
    OBVIOUS
  <1>1. pool' = EmptyPool /\ desc_pool' = EmptyPool /\ imported_files' = <<>>
    BY DEF Restart
  <1>2. PoolsAgree'
    BY <1>1 DEF PoolsAgree, Linked, EmptyPool
  <1>3. /\ told' = [t \in MessageTypes |-> {}] /\ called' = None
        /\ wrote' = [f \in Files |-> None]
    BY DEF Restart
  <1>4. /\ pc' = [p \in {Self} |-> pc'[p]] /\ job' = [p \in {Self} |-> job'[p]]
    BY DEF Restart, ProcessType, parserVars, Parser!Crash, Parser!Finish, Parser!Goto
  <1>5. ProcessType'
    BY <1>1, <1>3, <1>4 DEF ProcessType, EmptyPool
  <1> QED
    BY <1>2, <1>3, <1>5 DEF ProcessInv, SameDefinition, CallHasDefinition, WroteDefinition

(* Nothing but files that parse is built. *)
LEMMA PoolOfProtos ==
    ASSUME ProcessType, [Next]_vars
    PROVE  \A n \in DOMAIN pool' : pool'[n] \in Protos
  <1>1. CASE UNCHANGED pool
    BY <1>1 DEF ProcessType
  <1>2. CASE BuildProto
    <2>1. PICK n \in Unbuilt : pool' = Extended(pool, {n}, read)
      BY <1>2 DEF BuildProto
    <2>2. read[n] \in Protos
      BY DEF Unbuilt, Builds
    <2> QED
      BY <2>1, <2>2 DEF Extended, ProcessType
  <1>3. UNCHANGED pool \/ BuildProto
    BY DEF Next, vars, Import, AddProtoImportPath, EditFile, ImportProtoFile, ReadProto,
           ImportReturns, CreateMessage, ListImportedMessageTypes
  <1> QED
    BY <1>1, <1>2, <1>3

(* A step of the parser either ends the operation or keeps its arguments. *)
LEMMA StepKeepsJob ==
    ASSUME ProcessType, Parser!Step(Self) \/ Parser!LoadStreamFails(Self)
    PROVE  /\ pc' = [p \in {Self} |-> pc'[p]] /\ job' = [p \in {Self} |-> job'[p]]
           /\ pc'[Self] = "idle" \/ UNCHANGED job
  BY DEF ProcessType, Parser!Step, Parser!SaveConvert, Parser!SaveChunk,
         Parser!SaveStreamFails, Parser!SaveStreamed, Parser!SaveClose,
         Parser!LoadChunk, Parser!LoadParse, Parser!LoadStreamFails, Parser!Finish, Parser!Goto

(* Types keep the definition they were used with, whatever a call does. *)
LEMMA DefinitionsKept ==
    ASSUME ProcessInv, [Next]_vars, UNCHANGED told
    PROVE  SameDefinition'
  <1>1. /\ PoolsAgree'
        /\ \A t \in DOMAIN Known : t \in DOMAIN Known' /\ Known'[t] = Known[t]
    BY KnownKept DEF ProcessInv
  <1> QED
    BY <1>1 DEF ProcessInv, SameDefinition, Known

LEMMA LookupTells ==
    ASSUME ProcessInv, NEW t \in MessageTypes, CreateMessage(t),
           told' = [told EXCEPT ![t] = @ \cup ({Created} \ {Unknown})]
    PROVE  /\ told' \in [MessageTypes -> SUBSET Definitions]
           /\ SameDefinition'
           /\ \A u \in MessageTypes : told[u] # {} => told'[u] = told[u]
           /\ Created # Unknown => told'[t] = {Created}
           /\ Created \in Definitions \cup {Unknown}
  <1>1. [Next]_vars
    BY DEF Next
  <1>2. \A u \in DOMAIN Known : u \in DOMAIN Known' /\ Known'[u] = Known[u]
    BY <1>1, KnownKept DEF ProcessInv
  <1>3. Created = IF t \in DOMAIN Known THEN Known[t] ELSE Unknown
    BY CreatedIsKnown DEF ProcessInv
  <1>4. Created \in Definitions \cup {Unknown}
    BY <1>3, KnownAreDefinitions DEF ProcessInv
  <1>5. told \in [MessageTypes -> SUBSET Definitions]
    BY DEF ProcessInv, ProcessType
  <1>6. \A u \in MessageTypes :
            told[u] # {} => u \in DOMAIN Known /\ told[u] = {Known[u]}
    BY DEF ProcessInv, SameDefinition, Known
  <1> HIDE DEF Known
  <1>7. /\ told' \in [MessageTypes -> SUBSET Definitions]
        /\ \A u \in MessageTypes : u # t => told'[u] = told[u]
        /\ told'[t] = told[t] \cup ({Created} \ {Unknown})
    BY <1>4, <1>5
  <1>8. \A u \in MessageTypes : told[u] # {} => told'[u] = told[u]
    BY <1>3, <1>6, <1>7
  <1>9. Created # Unknown => told'[t] = {Created} /\ t \in DOMAIN Known
    BY <1>3, <1>6, <1>7
  <1>10. \A u \in MessageTypes :
            told'[u] # {} => u \in DOMAIN Known' /\ told'[u] = {Known'[u]}
    BY <1>2, <1>3, <1>6, <1>7, <1>8, <1>9
  <1>11. SameDefinition'
    BY <1>10 DEF SameDefinition, Known
  <1> QED
    BY <1>4, <1>7, <1>8, <1>9, <1>11

(* A call that returns at once, or is answered by the entry point. *)
LEMMA ArrayInv ==
    ASSUME ProcessInv, NEW t \in MessageTypes, ArrayCall(t) \/ QueryCall(t)
    PROVE  CallHasDefinition' /\ WroteDefinition' /\ ProcessType'
  <1>1. /\ CreateMessage(t) /\ UNCHANGED <<pc, job, called, wrote>>
        /\ told' = [told EXCEPT ![t] = @ \cup ({Created} \ {Unknown})]
    BY DEF ArrayCall, QueryCall, LooksUp, Parser!SerializeArray, Parser!ParseArray,
           Parser!ParseArrayDebug, Parser!Stay, parserVars
  <1>2. /\ told' \in [MessageTypes -> SUBSET Definitions]
        /\ \A u \in MessageTypes : told[u] # {} => told'[u] = told[u]
    BY <1>1, LookupTells
  <1>3. \A n \in DOMAIN pool' : pool'[n] \in Protos
    BY <1>1, PoolOfProtos DEF ProcessInv, Next
  <1>4. ProcessType'
    BY <1>1, <1>2, <1>3 DEF ProcessInv, ProcessType
  <1>5. CallHasDefinition'
    BY <1>1, <1>2 DEF ProcessInv, CallHasDefinition
  <1>6. WroteDefinition'
    BY <1>1, <1>2 DEF ProcessInv, WroteDefinition
  <1> QED
    BY <1>4, <1>5, <1>6

(* A save or a load, that begins or fails to. *)
LEMMA FileInv ==
    ASSUME ProcessInv, NEW t \in MessageTypes, NEW f \in Files,
           SaveCall(t, f) \/ LoadCall(t, f)
    PROVE  CallHasDefinition' /\ WroteDefinition' /\ ProcessType'
  <1>1. /\ Ready /\ CreateMessage(t) /\ Began(t)
        /\ told' = [told EXCEPT ![t] = @ \cup ({Created} \ {Unknown})]
    BY DEF SaveCall, LoadCall, LooksUp
  <1>2. /\ told' \in [MessageTypes -> SUBSET Definitions]
        /\ \A u \in MessageTypes : told[u] # {} => told'[u] = told[u]
        /\ Created # Unknown => told'[t] = {Created}
    BY <1>1, LookupTells
  <1>3. \A n \in DOMAIN pool' : pool'[n] \in Protos
    BY <1>1, PoolOfProtos DEF ProcessInv, Next
  <1>4. pc[Self] = "idle" /\ ProcessType
    BY <1>1 DEF Ready, ProcessInv
  <1> DEFINE Begun == /\ Created \in Definitions
                      /\ \E l : pc' = [pc EXCEPT ![Self] = l]
                      /\ \E o, nm : job' = [job EXCEPT ![Self] =
                            [type |-> Created, file |-> f, obj |-> o, names |-> nm]]
  <1>5. UNCHANGED <<pc, job>> \/ Begun
    BY DEF SaveCall, LoadCall, Parser!SaveMessage, Parser!LoadMessage, Parser!Stay,
           Parser!Begin, Parser!Goto
  <1>6. /\ pc' = [p \in {Self} |-> pc'[p]] /\ job' = [p \in {Self} |-> job'[p]]
        /\ pc'[Self] # "idle" => Created \in Definitions /\ job'[Self].type = Created
    BY <1>4, <1>5 DEF ProcessType
  <1>7. pc'[Self] # "idle" => told'[t] = {Created} /\ job'[Self].type = Created
    BY <1>2, <1>6, NameAssumption
  <1>8. wrote' = wrote \/ /\ pc'[Self] # "idle"
                          /\ wrote' = [wrote EXCEPT ![f] = [name |-> t, type |-> Created]]
    BY DEF SaveCall, LoadCall
  <1>9. wrote' = [g \in Files |-> wrote'[g]]
    BY <1>4, <1>8 DEF ProcessType
  <1>10. ProcessType'
    BY <1>2, <1>3, <1>6, <1>9 DEF ProcessType
  <1>11. CallHasDefinition'
    BY <1>1, <1>7 DEF CallHasDefinition, Began
  <1>12. WroteDefinition'
    <2>1. ASSUME NEW g \in Files, wrote'[g] # None
          PROVE  wrote'[g].name \in MessageTypes /\ told'[wrote'[g].name] = {wrote'[g].type}
      <3>1. CASE wrote'[g] = wrote[g]
        BY <1>2, <2>1, <3>1 DEF ProcessInv, WroteDefinition
      <3>2. CASE wrote'[g] # wrote[g]
        <4>1. wrote'[g] = [name |-> t, type |-> Created] /\ pc'[Self] # "idle"
          BY <1>4, <1>8, <3>2 DEF ProcessType
        <4> QED
          BY <1>7, <4>1
      <3> QED
        BY <3>1, <3>2
    <2> QED
      BY <2>1 DEF WroteDefinition
  <1> QED
    BY <1>10, <1>11, <1>12

LEMMA ProcessStepInv == ProcessInv /\ [ProcessNext]_processVars => ProcessInv'
  <1> SUFFICES ASSUME ProcessInv, [ProcessNext]_processVars, ~Restart
               PROVE  ProcessInv'
    BY RestartInv DEF ProcessInv
  <1>1. [Next]_vars
    BY FactorySees DEF processVars, vars
  <1>2. PoolsAgree' /\ \A n \in DOMAIN pool' : pool'[n] \in Protos
    BY <1>1, KnownKept, PoolOfProtos DEF ProcessInv
  <1>3. ASSUME NEW t \in MessageTypes, ArrayCall(t) \/ QueryCall(t)
        PROVE  ProcessInv'
    BY <1>2, <1>3, ArrayInv, LookupTells DEF ProcessInv, ArrayCall, QueryCall, LooksUp
  <1>4. ASSUME NEW t \in MessageTypes, NEW f \in Files, SaveCall(t, f) \/ LoadCall(t, f)
        PROVE  ProcessInv'
    BY <1>2, <1>4, FileInv, LookupTells DEF ProcessInv, SaveCall, LoadCall, LooksUp
  <1>5. CASE UNCHANGED <<pc, job, history>>
    <2>1. SameDefinition'
      BY <1>1, <1>5, DefinitionsKept DEF history
    <2>2. ProcessType' /\ CallHasDefinition' /\ WroteDefinition'
      BY <1>2, <1>5
         DEF ProcessInv, ProcessType, CallHasDefinition, WroteDefinition, history
    <2> QED
      BY <1>2, <2>1, <2>2 DEF ProcessInv
  <1>6. CASE ParserStep
    <2>1. /\ Parser!Step(Self) \/ Parser!LoadStreamFails(Self)
          /\ UNCHANGED <<told, wrote>>
          /\ called' = IF pc'[Self] = "idle" THEN None ELSE called
      BY <1>6 DEF ParserStep, Began
    <2>2. /\ pc' = [p \in {Self} |-> pc'[p]] /\ job' = [p \in {Self} |-> job'[p]]
          /\ pc'[Self] = "idle" \/ UNCHANGED job
      BY <2>1, StepKeepsJob DEF ProcessInv
    <2>3. SameDefinition'
      BY <1>1, <2>1, DefinitionsKept
    <2>4. ProcessType' /\ WroteDefinition'
      BY <1>2, <2>1, <2>2 DEF ProcessInv, ProcessType, WroteDefinition
    <2>5. CallHasDefinition'
      BY <2>1, <2>2 DEF ProcessInv, CallHasDefinition
    <2> QED
      BY <1>2, <2>3, <2>4, <2>5 DEF ProcessInv
  <1>7. RefusedCall \/ FactoryCall \/ UNCHANGED processVars => UNCHANGED <<pc, job, history>>
    BY DEF RefusedCall, FactoryCall, processVars, parserVars
  <1> QED
    BY <1>3, <1>4, <1>5, <1>6, <1>7, ProcessCases

THEOREM ProcessInvHolds == ProcessSpec => []ProcessInv
  BY ProcessInitInv, ProcessStepInv, PTL DEF ProcessSpec

(* Whatever is imported, edited, saved or loaded, and whenever q is killed: in
   one life of the process a message type has one definition. *)
THEOREM OneMeaning == ProcessSpec => []SameDefinition
  <1>1. ProcessInv => SameDefinition
    BY DEF ProcessInv
  <1> QED
    BY <1>1, ProcessInvHolds, PTL

----------------------------------------------------------------------------
(* The process implements MessageParser.                                   *)

LEMMA ParserSees == ProcessInv /\ [ProcessNext]_processVars => [Parser!Next]_(Parser!vars)
  <1> SUFFICES ASSUME ProcessInv, [ProcessNext]_processVars
               PROVE  Parser!Next \/ UNCHANGED Parser!vars
    BY DEF Parser!vars
  <1>1. ASSUME NEW t \in MessageTypes, NEW f \in Files,
               SaveCall(t, f) \/ LoadCall(t, f)
        PROVE  Parser!Next
    <2>1. Created \in Definitions \cup {Unknown}
      BY <1>1, LookupTells DEF SaveCall, LoadCall, LooksUp
    <2>2. Parser!Call(Self)
      BY <1>1, <2>1 DEF SaveCall, LoadCall, Parser!Call
    <2> QED
      BY <2>2 DEF Parser!Next
  <1>2. ASSUME NEW t \in MessageTypes, ArrayCall(t)
        PROVE  Parser!Next
    <2>1. Created \in Definitions \cup {Unknown}
      BY <1>2, LookupTells DEF ArrayCall, LooksUp
    <2>2. Parser!Call(Self)
      BY <1>2, <2>1 DEF ArrayCall, Parser!Call
    <2> QED
      BY <2>2 DEF Parser!Next
  <1>3. CASE ParserStep
    BY <1>3 DEF ParserStep, Parser!Next
  <1>4. CASE Restart
    BY <1>4 DEF Restart, Parser!Next, Parser!vars, parserVars
  <1>5. UNCHANGED parserVars => UNCHANGED Parser!vars
    BY DEF parserVars, Parser!vars
  <1>6. RefusedCall \/ FactoryCall \/ UNCHANGED processVars => UNCHANGED parserVars
    BY DEF RefusedCall, FactoryCall, processVars
  <1>7. \A t : QueryCall(t) => UNCHANGED parserVars
    BY DEF QueryCall
  <1> QED
    BY <1>1, <1>2, <1>3, <1>4, <1>5, <1>6, <1>7, ProcessCases

(* Composed with the factory, restarts and calls that are refused, the parser
   behaves as it does alone. *)
THEOREM ParserIsImplemented == ProcessSpec => ImplementsParser
  <1>1. ProcessInit => Parser!Init
    BY DEF ProcessInit
  <1> QED
    BY <1>1, ParserSees, ProcessInvHolds, PTL
       DEF ProcessSpec, ImplementsParser, Parser!Spec

(* The theorems about MessageParser hold of its operations in the process. *)
LEMMA SameParser == Parser!Spec => ParserProofs!Spec
  <1>1. Parser!Init => ParserProofs!Init
    BY DEF Parser!Init, ParserProofs!Init, Parser!Answer, ParserProofs!Answer
  <1>2. [Parser!Next]_(Parser!vars) => [ParserProofs!Next]_(ParserProofs!vars)
    BY DEF Parser!Next, ParserProofs!Next, Parser!vars, ParserProofs!vars,
           Parser!Call, ParserProofs!Call, Parser!Step, ParserProofs!Step,
           Parser!Crash, ParserProofs!Crash,
           Parser!SerializeArray, ParserProofs!SerializeArray,
           Parser!ParseArray, ParserProofs!ParseArray,
           Parser!ParseArrayDebug, ParserProofs!ParseArrayDebug,
           Parser!SaveMessage, ParserProofs!SaveMessage,
           Parser!SaveConvert, ParserProofs!SaveConvert,
           Parser!SaveChunk, ParserProofs!SaveChunk,
           Parser!SaveStreamFails, ParserProofs!SaveStreamFails,
           Parser!SaveStreamed, ParserProofs!SaveStreamed,
           Parser!SaveClose, ParserProofs!SaveClose,
           Parser!LoadMessage, ParserProofs!LoadMessage,
           Parser!LoadChunk, ParserProofs!LoadChunk,
           Parser!LoadParse, ParserProofs!LoadParse,
           Parser!LoadStreamFails, ParserProofs!LoadStreamFails,
           Parser!AtEnd, ParserProofs!AtEnd, Parser!Begin, ParserProofs!Begin,
           Parser!Update, ParserProofs!Update, Parser!Outcome, ParserProofs!Outcome,
           Parser!Finish, ParserProofs!Finish, Parser!Writing, ParserProofs!Writing,
           Parser!Reading, ParserProofs!Reading, Parser!Truncated, ParserProofs!Truncated,
           Parser!ReadAt, ParserProofs!ReadAt, Parser!WriteAt, ParserProofs!WriteAt,
           Parser!Serialized, ParserProofs!Serialized, Parser!Converted, ParserProofs!Converted,
           Parser!Parsed, ParserProofs!Parsed, Parser!Received, ParserProofs!Received,
           Parser!Described, ParserProofs!Described,
           Parser!ParsedDebug, ParserProofs!ParsedDebug, Parser!Fits, ParserProofs!Fits,
           Parser!Array, ParserProofs!Array, Parser!Object, ParserProofs!Object,
           Parser!Answer, ParserProofs!Answer, Parser!Idle, ParserProofs!Idle,
           Parser!Return, ParserProofs!Return, Parser!Goto, ParserProofs!Goto,
           Parser!Stay, ParserProofs!Stay, Parser!SavePcs, ParserProofs!SavePcs
  <1> QED
    BY <1>1, <1>2, PTL DEF Parser!Spec, ParserProofs!Spec

LEMMA ParserAssumptions ==
    /\ \A x \in ParserProofs!Accepted : ParserProofs!Output(x) \in
          Seq({ParserProofs!Output(x)[i] : i \in DOMAIN ParserProofs!Output(x)})
    /\ MaxLen \in Nat /\ StreamBuf \in Nat /\ BOOLEAN \subseteq BOOLEAN
    /\ IntRange \in Nat /\ 2 * MaxLen < IntRange
    /\ \A b \in CharArrays : 2 * (Len(b) % IntRange) < IntRange
    /\ NoFile \notin Seq(ParserProofs!Byte) /\ None # "debug"
  <1>1. \A x \in ParserProofs!Accepted : ParserProofs!Output(x) \in
            Seq({ParserProofs!Output(x)[i] : i \in DOMAIN ParserProofs!Output(x)})
    BY ConversionAssumption
       DEF Parser!Accepted, ParserProofs!Accepted, Parser!Output, ParserProofs!Output
  <1>2. NoFile \notin Seq(ParserProofs!Byte) /\ None # "debug"
    BY NameAssumption
       DEF Parser!Accepted, ParserProofs!Accepted, Parser!Output, ParserProofs!Output,
           Parser!Byte, ParserProofs!Byte, Parser!Chunk, ParserProofs!Chunk
  <1> QED
    BY <1>1, <1>2, BoundAssumption

LEMMA ParserLoads == ProcessSpec => []ParserProofs!TypeOK /\ ParserProofs!LoadIsParse
  <1>1. ProcessSpec => ParserProofs!Spec
    BY ParserIsImplemented, SameParser DEF ImplementsParser
  <1>2. ParserProofs!Spec => []ParserProofs!TypeOK
    BY ParserAssumptions, ParserProofs!TypeCorrect, PTL
  <1>3. ParserProofs!Spec => ParserProofs!LoadIsParse
    BY ParserAssumptions, ParserProofs!LoadingIsParsing, PTL
  <1> QED
    BY <1>1, <1>2, <1>3, PTL

(* A load ends by parsing what it read, or as a read fails. *)
LEMMA LoadEnds ==
    ASSUME ParserProofs!TypeOK, pc[Self] = "load_reading", ParserStep, pc'[Self] = "idle"
    PROVE  ParserProofs!LoadReturned(Self) /\ job[Self].file \in Files
  <1>1. /\ job[Self].file \in Files /\ DOMAIN result = {Self} /\ DOMAIN pc = {Self}
        /\ pc = [p \in {Self} |-> pc[p]]
    BY DEF ParserProofs!TypeOK, ParserProofs!JobType
  <1>2. Parser!LoadParse(Self) \/ Parser!LoadStreamFails(Self)
    BY <1>1 DEF ParserStep, Parser!Step, Parser!SaveConvert, Parser!SaveChunk,
                Parser!SaveStreamFails, Parser!SaveStreamed, Parser!SaveClose, Parser!LoadChunk
  <1> DEFINE r == IF job[Self].obj = "debug"
                  THEN Parser!Described(job[Self].type, buf[Self])
                  ELSE Parser!Converted(job[Self].type, buf[Self], job[Self].names)
             e == Parser!Answer("Failed to parse serialized message")
  <1>3. \E x \in {r, e} : result' = [result EXCEPT ![Self] = x] /\ x.status # "none"
    <2>1. \E x \in {r, e} : result' = [result EXCEPT ![Self] = x]
      BY <1>2 DEF Parser!LoadParse, Parser!LoadStreamFails, Parser!Finish, Parser!Return
    <2>2. r.status # "none" /\ e.status # "none"
      BY DEF Parser!Described, Parser!Converted, Parser!Answer, Parser!Object, Parser!Array
    <2> QED
      BY <2>1, <2>2
  <1>4. result'[Self].status # "none"
    BY <1>1, <1>3
  <1> QED
    BY <1>1, <1>4 DEF ParserProofs!LoadReturned

(* What is saved under a message type loads as what was saved. *)
THEOREM LoadingGivesWhatWasSaved == ProcessSpec => LoadsWhatWasSaved
  <1> DEFINE j == job[Self]
             f == j.file
             A == /\ pc[Self] = "load_reading" /\ ParserStep /\ pc'[Self] = "idle"
                  /\ wrote[f] # None /\ called = wrote[f].name
                  => /\ j.type = wrote[f].type
                     /\ (~dirty'[Self] /\ last[f].done = "saved"
                            /\ ~last[f].contended /\ j.obj = None)
                        => result'[Self] = Parser!Parsed(wrote[f].type, last[f].bytes, j.names)
             B == \A p \in {Self} :
                    LET k == job[p] IN
                    /\ ParserProofs!LoadReturned(p) /\ k.obj = None /\ ~dirty'[p]
                    /\ last[k.file].done = "saved" /\ ~last[k.file].contended
                    => result'[p] = ParserProofs!Parsed(k.type, last[k.file].bytes, k.names)
  <1>1. ProcessInv /\ ParserProofs!TypeOK /\ [B]_(ParserProofs!vars) => A
    <2> SUFFICES ASSUME ProcessInv, ParserProofs!TypeOK, [B]_(ParserProofs!vars),
                        pc[Self] = "load_reading", ParserStep, pc'[Self] = "idle",
                        wrote[f] # None, called = wrote[f].name
                 PROVE  /\ j.type = wrote[f].type
                        /\ (~dirty'[Self] /\ last[f].done = "saved"
                               /\ ~last[f].contended /\ j.obj = None)
                           => result'[Self] = Parser!Parsed(wrote[f].type, last[f].bytes, j.names)
      OBVIOUS
    <2>1. ParserProofs!LoadReturned(Self) /\ f \in Files
      BY LoadEnds
    <2>2. j.type = wrote[f].type
      <3>1. /\ wrote[f].name \in MessageTypes
            /\ told[wrote[f].name] = {wrote[f].type}
        BY <2>1 DEF ProcessInv, WroteDefinition
      <3>2. told[called] = {j.type}
        BY <3>1, NameAssumption DEF ProcessInv, CallHasDefinition
      <3> QED
        BY <3>1, <3>2
    <2>3. B
      BY DEF ParserProofs!vars
    <2>4. Parser!Parsed(j.type, last[f].bytes, j.names)
             = ParserProofs!Parsed(j.type, last[f].bytes, j.names)
      BY DEF Parser!Parsed, ParserProofs!Parsed, Parser!Received, ParserProofs!Received,
             Parser!Converted, ParserProofs!Converted,
             Parser!Object, ParserProofs!Object, Parser!Array, ParserProofs!Array,
             Parser!Answer, ParserProofs!Answer
    <2>5. ASSUME ~dirty'[Self], last[f].done = "saved", ~last[f].contended,
                 j.obj = None
          PROVE  result'[Self] = ParserProofs!Parsed(j.type, last[f].bytes, j.names)
      BY <2>1, <2>3, <2>5
    <2> QED
      BY <2>2, <2>4, <2>5
  <1>2. ParserProofs!LoadIsParse => [][B]_(ParserProofs!vars)
    BY PTL DEF ParserProofs!LoadIsParse
  <1> QED
    BY <1>1, <1>2, ProcessInvHolds, ParserLoads, PTL DEF LoadsWhatWasSaved
=============================================================================
