---------------------------- MODULE MessageParser ----------------------------
(***************************************************************************)
(* MessageParser (src/MessageParser.cpp): the operations a q process calls *)
(* to convert between kdb+ objects, serialized char arrays and files.      *)
(*                                                                         *)
(* Every q process runs one operation at a time.  The array operations     *)
(* touch nothing but the caller, so each is one step.  Saving and loading  *)
(* a file take several steps: other processes share the file system, a     *)
(* process can die, and a write can fail between any two of them.          *)
(*                                                                         *)
(* The conversions are parameters: KToMessage and MessageToK are SetMessage *)
(* and GetMessage of MessageFormat, on a message just created; Serialize    *)
(* and Parse are those of libprotobuf.  RoundTrip.tla puts them in place.   *)
(***************************************************************************)
EXTENDS Integers, Sequences

CONSTANTS
    Procs,          \* q processes that have loaded the library
    Files,          \* names of files on the file system they share
    MessageTypes,   \* message type names a caller may pass
    KnownTypes,     \* those MessageFactory::CreateMessage can create
    KObj,           \* kdb+ objects a caller may pass
    CharArrays,     \* serialized char arrays a caller may pass
    Modes,          \* values of use_field_names in play
    MaxLen,         \* longest output libprotobuf serializes (INT_MAX bytes)
    IntRange,       \* 2^32: the lengths of C++ are ints, those of q 64 bit
    StreamBuf,      \* output the ofstream may still buffer when it is closed
    Hole,           \* what a file holds where nobody wrote (zero bytes)
    NoFile,         \* content of a file that does not exist
    Failed,         \* outcome of a conversion that throws or returns false
    None,           \* no argument, no value, no process
    KToMessage(_, _, _),    \* (type, kdb+ object, use_field_names)
    MessageToK(_, _, _),    \* (type, message, use_field_names)
    Serialize(_, _),        \* (type, message)
    Parse(_, _)             \* (type, char array)

Errors == {"Invalid message type", "Cannot open file", "TypeCheck",
           "Failed to serialize message", "Failed to parse serialized message"}
Statuses == {"none", "array", "object", "debug", "null"} \cup Errors
SavePcs == {"save_opened", "save_stream", "save_close"}
Pcs == {"idle", "load_reading"} \cup SavePcs
Outcomes == {"never", "open", "saved", "lost", "rejected", "failed", "crashed"}

(* What is serialized is a sequence of chunks (of bytes, in the code). *)
Accepted == {x \in KnownTypes \X KObj \X Modes : KToMessage(x[1], x[2], x[3]) # Failed}
Output(x) == Serialize(x[1], KToMessage(x[1], x[2], x[3]))
Chunk == UNION {{Output(x)[i] : i \in DOMAIN Output(x)} : x \in Accepted}
Byte == Chunk \cup {Hole}

ASSUME ConversionAssumption ==
    \A x \in Accepted : Output(x) \in Seq({Output(x)[i] : i \in DOMAIN Output(x)})

(* What libprotobuf makes of a negative length is not modelled. *)
ASSUME BoundAssumption ==
    /\ MaxLen \in Nat /\ StreamBuf \in Nat /\ Modes \subseteq BOOLEAN
    /\ IntRange \in Nat /\ 2 * MaxLen < IntRange
    /\ \A b \in CharArrays : 2 * (Len(b) % IntRange) < IntRange

ASSUME NameAssumption == NoFile \notin Seq(Byte) /\ None # "debug"

VARIABLES
    files,      \* content of each file
    pc,         \* where each process is in the operation it runs
    job,        \* the arguments of that operation
    buf,        \* serialized output being saved, or input read so far
    pos,        \* chunks of buf that reached the file, or were read from it
    result,     \* what the last operation of each process returned, if it has
    last,       \* (history) the latest opening of each file for writing
    dirty       \* (history) has the file changed since this load opened it,
                \* or reading it failed?

vars == <<files, pc, job, buf, pos, result, last, dirty>>

----------------------------------------------------------------------------
(* Results.  A char array comes with the object it was made from, an object *)
(* with the bytes it was parsed from, both with their type and mode.        *)

Answer(s) == [status |-> s, type |-> None, names |-> FALSE,
              value |-> None, bytes |-> <<>>]
Array(ty, b, nm, k) == [status |-> "array", type |-> ty, names |-> nm,
                        value |-> k, bytes |-> b]
Object(ty, b, nm, k) == [Array(ty, b, nm, k) EXCEPT !.status = "object"]

(* Mutant: the size is not checked. *)
FitsUnchecked(b) == TRUE

(* libprotobuf serializes no message longer than that. *)
Fits(b) == Len(b) <= MaxLen

Serialized(ty, k, nm) ==
    LET m == KToMessage(ty, k, nm)
        b == Serialize(ty, m) IN
    IF ty \notin KnownTypes THEN Answer("Invalid message type")
    ELSE IF m = Failed THEN Answer("TypeCheck")
    ELSE IF Fits(b) THEN Array(ty, b, nm, k)
    ELSE Answer("Failed to serialize message")

Converted(ty, b, nm) ==
    LET m == Parse(ty, b)
        k == MessageToK(ty, m, nm) IN
    IF m = Failed THEN Answer("Failed to parse serialized message")
    ELSE IF k = Failed THEN Answer("TypeCheck")
    ELSE Object(ty, b, nm, k)

(* ParseFromArray takes an int for the length: of a longer array it sees
   what the int says. *)
Received(b) ==
    LET n == Len(b) % IntRange IN
    SubSeq(b, 1, IF 2 * n < IntRange THEN n ELSE n - IntRange)

Parsed(ty, b, nm) ==
    IF ty \in KnownTypes THEN Converted(ty, Received(b), nm)
                         ELSE Answer("Invalid message type")

Described(ty, b) ==
    IF Parse(ty, b) = Failed
    THEN Answer("Failed to parse serialized message") ELSE Answer("debug")

ParsedDebug(ty, b) ==
    IF ty \in KnownTypes THEN Described(ty, Received(b)) ELSE Answer("Invalid message type")

Idle(p) == pc[p] = "idle"
Return(p, r) == result' = [result EXCEPT ![p] = r]
Goto(p, l) == pc' = [pc EXCEPT ![p] = l]
Stay == UNCHANGED <<files, pc, job, buf, pos, last, dirty>>

(* SerializeArray and SerializeArrayArena differ in who frees the message. *)
SerializeArray(p, ty, k, nm) == Idle(p) /\ Return(p, Serialized(ty, k, nm)) /\ Stay

(* ParseArray and ParseArrayArena, likewise. *)
ParseArray(p, ty, b, nm) == Idle(p) /\ Return(p, Parsed(ty, b, nm)) /\ Stay

ParseArrayDebug(p, ty, b) == Idle(p) /\ Return(p, ParsedDebug(ty, b)) /\ Stay

----------------------------------------------------------------------------
(* The file system, shared by all processes (external).                    *)

Writing(q, f) == pc[q] \in SavePcs /\ job[q].file = f
Reading(q, f) == pc[q] = "load_reading" /\ job[q].file = f

(* Mutant: the file is not truncated. *)
TruncatedNot(b) == IF b = NoFile THEN <<>> ELSE b

(* What opening leaves of content b: std::ios_base::out truncates. *)
Truncated(b) == <<>>

ReadAt(b, n) == b[n + 1]

(* A write at offset n, past the end of file b or over what is there. *)
WriteAt(b, n, c) ==
    [i \in 1 .. (IF n < Len(b) THEN Len(b) ELSE n + 1) |->
        IF i = n + 1 THEN c ELSE IF i <= Len(b) THEN b[i] ELSE Hole]

(* f gets content b: loads in progress on f are no longer undisturbed. *)
Update(f, b) ==
    /\ files' = [files EXCEPT ![f] = b]
    /\ dirty' = [q \in Procs |-> dirty[q] \/ Reading(q, f)]

(* History: p's save of its file came to outcome d, if nobody opened the
   file after p did. *)
Outcome(p, d) ==
    LET f == job[p].file IN
    last' = IF last[f].owner = p THEN [last EXCEPT ![f].done = d] ELSE last

(* Mutant: the buffer is not emptied. *)
FinishKeepingBuffer(p, r) ==
    /\ Goto(p, "idle") /\ Return(p, r)
    /\ job' = [job EXCEPT ![p] = None]
    /\ UNCHANGED <<buf, pos>>

(* Destroying the stream and the message ends the operation. *)
Finish(p, r) ==
    /\ Goto(p, "idle") /\ Return(p, r)
    /\ job' = [job EXCEPT ![p] = None]
    /\ buf' = [buf EXCEPT ![p] = <<>>]
    /\ pos' = [pos EXCEPT ![p] = 0]

----------------------------------------------------------------------------
(* SaveMessage.                                                            *)

Begin(p, l, ty, f, k, nm) ==
    /\ Goto(p, l)
    /\ Return(p, Answer("none"))
    /\ job' = [job EXCEPT ![p] = [type |-> ty, file |-> f, obj |-> k, names |-> nm]]

(* The type is looked up, then the file is opened and truncated: the
   object has not been looked at yet. *)
SaveMessage(p, ty, f, k, nm) ==
    /\ Idle(p)
    /\ \/ ty \notin KnownTypes /\ Return(p, Answer("Invalid message type")) /\ Stay
       \/ ty \in KnownTypes /\ Return(p, Answer("Cannot open file")) /\ Stay
       \/ /\ ty \in KnownTypes
          /\ Begin(p, "save_opened", ty, f, k, nm)
          /\ Update(f, Truncated(files[f]))
          /\ last' = [last EXCEPT ![f] =
                [owner |-> p, done |-> "open", bytes |-> <<>>,
                 had |-> files[f] \notin {NoFile, <<>>},
                 contended |-> \E q \in Procs : Writing(q, f)]]
          /\ UNCHANGED <<buf, pos>>

(* MessageFormat::SetMessage, then the output is laid out in memory. *)
SaveConvert(p) ==
    /\ pc[p] = "save_opened"
    /\ UNCHANGED <<files, dirty>>
    /\ LET j == job[p]
           m == KToMessage(j.type, j.obj, j.names)
           b == Serialize(j.type, m) IN
       \/ m = Failed /\ Finish(p, Answer("TypeCheck")) /\ Outcome(p, "rejected")
       \/ /\ m # Failed /\ ~Fits(b)
          /\ Finish(p, Answer("Failed to serialize message"))
          /\ Outcome(p, "rejected")
       \/ /\ m # Failed /\ Fits(b)
          /\ Goto(p, "save_stream")
          /\ buf' = [buf EXCEPT ![p] = b]
          /\ last' = IF last[j.file].owner = p
                     THEN [last EXCEPT ![j.file].bytes = b] ELSE last
          /\ UNCHANGED <<job, pos, result>>

(* Mutants: the file is opened for appending; a failed write is not noticed. *)
SaveChunkAppending(p) ==
    /\ pc[p] \in {"save_stream", "save_close"} /\ pos[p] < Len(buf[p])
    /\ LET f == job[p].file IN
       Update(f, Append(files[f], ReadAt(buf[p], pos[p])))
    /\ pos' = [pos EXCEPT ![p] = @ + 1]
    /\ UNCHANGED <<pc, job, buf, result, last>>
SaveChunkUnchecked(p) ==
    /\ pc[p] \in {"save_stream", "save_close"} /\ pos[p] < Len(buf[p])
    /\ pos' = [pos EXCEPT ![p] = @ + 1]
    /\ UNCHANGED <<files, pc, job, buf, result, last, dirty>>

(* A piece of the output reaches the file, in SerializeToOstream or when
   the stream is flushed as it closes. *)
SaveChunk(p) ==
    /\ pc[p] \in {"save_stream", "save_close"} /\ pos[p] < Len(buf[p])
    /\ LET f == job[p].file IN
       Update(f, WriteAt(files[f], pos[p], ReadAt(buf[p], pos[p])))
    /\ pos' = [pos EXCEPT ![p] = @ + 1]
    /\ UNCHANGED <<pc, job, buf, result, last>>

(* A write fails while SerializeToOstream still looks at the stream. *)
SaveStreamFails(p) ==
    /\ pc[p] = "save_stream" /\ pos[p] < Len(buf[p])
    /\ Finish(p, Answer("Failed to serialize message"))
    /\ Outcome(p, "failed")
    /\ UNCHANGED <<files, dirty>>

(* SerializeToOstream returns true: what is left fits the stream's buffer. *)
SaveStreamed(p) ==
    /\ pc[p] = "save_stream" /\ Len(buf[p]) <= pos[p] + StreamBuf
    /\ Goto(p, "save_close")
    /\ UNCHANGED <<files, job, buf, pos, result, last, dirty>>

(* The ofstream's destructor flushes the rest; whether that works or not,
   the caller is told nothing but that the message was saved. *)
SaveClose(p) ==
    /\ pc[p] = "save_close"
    /\ Finish(p, Answer("null"))
    /\ Outcome(p, IF pos[p] = Len(buf[p]) THEN "saved" ELSE "lost")
    /\ UNCHANGED <<files, dirty>>

----------------------------------------------------------------------------
(* LoadMessage, and LoadMessageDebug (job.obj = "debug").                  *)

(* A file that is there may be one that the process must not read. *)
LoadMessage(p, ty, f, k, nm) ==
    /\ Idle(p)
    /\ \/ ty \notin KnownTypes /\ Return(p, Answer("Invalid message type")) /\ Stay
       \/ ty \in KnownTypes /\ Return(p, Answer("Cannot open file")) /\ Stay
       \/ /\ ty \in KnownTypes /\ files[f] # NoFile
          /\ Begin(p, "load_reading", ty, f, k, nm)
          /\ dirty' = [dirty EXCEPT ![p] = FALSE]
          /\ UNCHANGED <<files, buf, pos, last>>

(* Mutant: the file is read from its start again. *)
LoadChunkFromStart(p) ==
    /\ pc[p] = "load_reading"
    /\ LET f == job[p].file IN
       /\ pos[p] < Len(files[f])
       /\ buf' = [buf EXCEPT ![p] = Append(@, ReadAt(files[f], 0))]
    /\ pos' = [pos EXCEPT ![p] = @ + 1]
    /\ UNCHANGED <<files, pc, job, result, last, dirty>>

LoadChunk(p) ==
    /\ pc[p] = "load_reading"
    /\ LET f == job[p].file IN
       /\ pos[p] < Len(files[f])
       /\ buf' = [buf EXCEPT ![p] = Append(@, ReadAt(files[f], pos[p]))]
    /\ pos' = [pos EXCEPT ![p] = @ + 1]
    /\ UNCHANGED <<files, pc, job, result, last, dirty>>

(* Mutants: the end of the file comes one byte early; it never comes. *)
AtEndEarly(p) == pos[p] + 1 >= Len(files[job[p].file])
AtEndNever(p) == pos[p] > Len(files[job[p].file])

AtEnd(p) == pos[p] >= Len(files[job[p].file])

(* What was read is parsed. *)
LoadParse(p) ==
    /\ pc[p] = "load_reading" /\ AtEnd(p)
    /\ LET j == job[p] IN
       Finish(p, IF j.obj = "debug" THEN Described(j.type, buf[p])
                 ELSE Converted(j.type, buf[p], j.names))
    /\ UNCHANGED <<files, last, dirty>>

(* A read fails, at any point: that is not an end of the file, and nothing
   is made of what was read before. *)
LoadStreamFails(p) ==
    /\ pc[p] = "load_reading"
    /\ Finish(p, Answer("Failed to parse serialized message"))
    /\ dirty' = [dirty EXCEPT ![p] = TRUE]
    /\ UNCHANGED <<files, last>>

----------------------------------------------------------------------------
(* A q process dies in the middle of an operation (external): its streams   *)
(* are closed without being flushed.  It is started again.                  *)
Crash(p) ==
    /\ ~Idle(p)
    /\ Finish(p, Answer("none"))
    /\ IF pc[p] \in SavePcs THEN Outcome(p, "crashed") ELSE UNCHANGED last
    /\ UNCHANGED <<files, dirty>>

----------------------------------------------------------------------------
Init ==
    /\ files = [f \in Files |-> NoFile]
    /\ pc = [p \in Procs |-> "idle"]
    /\ job = [p \in Procs |-> None]
    /\ buf = [p \in Procs |-> <<>>]
    /\ pos = [p \in Procs |-> 0]
    /\ result = [p \in Procs |-> Answer("none")]
    /\ last = [f \in Files |-> [owner |-> None, done |-> "never", bytes |-> <<>>,
                                had |-> FALSE, contended |-> FALSE]]
    /\ dirty = [p \in Procs |-> FALSE]

(* The caller starts an operation. *)
Call(p) ==
    \E ty \in MessageTypes :
        \/ \E k \in KObj, nm \in Modes :
              \/ SerializeArray(p, ty, k, nm)
              \/ \E f \in Files : SaveMessage(p, ty, f, k, nm)
        \/ \E b \in CharArrays :
              \/ \E nm \in Modes : ParseArray(p, ty, b, nm)
              \/ ParseArrayDebug(p, ty, b)
        \/ \E f \in Files :
              \/ \E nm \in Modes : LoadMessage(p, ty, f, None, nm)
              \/ LoadMessage(p, ty, f, "debug", FALSE)

(* The operation in progress goes on. *)
Step(p) ==
    \/ SaveConvert(p) \/ SaveChunk(p) \/ SaveStreamFails(p)
    \/ SaveStreamed(p) \/ SaveClose(p)
    \/ LoadChunk(p) \/ LoadParse(p)

Next == \E p \in Procs : Call(p) \/ Step(p) \/ LoadStreamFails(p) \/ Crash(p)

Spec == Init /\ [][Next]_vars

(* A process that runs keeps running: nothing in an operation waits. *)
FairSpec == Spec /\ \A p \in Procs : WF_vars(Step(p))
=============================================================================
